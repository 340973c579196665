CONSTANTS
  a = a
  b = b
  c = c
  Prompt = {a, b, c}
  s1 = s1
  m1 = m1
  m2 = m2
  Sample = {s1}
  VariantLists <- MCVariantLists
  Claims <- MCClaims
  Counts <- MCCounts
  Poses <- MCPoses
  Failures <- MCFailures
  Answers <- MCAnswers
  Scenes <- MCScenes
  Local = {m1}
  Online = m2
  None = None
  Absent = Absent
  MAX_PROMPT_FEEDBACK_RECORDS = 1
  FEEDBACK_LIKED_COUNT = 1
  FEEDBACK_DISLIKED_COUNT = 1
  MAX_BLOCKED_SAMPLE_DIGESTS = 1
  MaxFlows = 1
  MaxVotes = 2
  MaxChanges = 1
  MaxStarts = 2
SPECIFICATION Spec
\* A stopped plugin that has used its starts, or one at its bounds, does nothing.
CHECK_DEADLOCK FALSE
INVARIANTS
  EachGetsWhatItAsked
  LastVoteStands
  ConfirmedIsActual
