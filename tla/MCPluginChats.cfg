SPECIFICATION Spec
CONSTANTS
    MaxRequests = 2
    MaxSessions = 2
    MaxWindows = 2
    MaxRestarts = 1
    MaxMessages = 3
    Recent <- MCRecent
    RequestSizes <- MCRequestSizes
    FirstSizes <- MCFirstSizes
    ReplySizes <- MCReplySizes
    Context = 8
    LeastContext = 1
    SummarySize = 4
CHECK_DEADLOCK FALSE
INVARIANTS
  ReplyToAsker
  NeverTooLong
  Saved
PROPERTIES
  RepliesStayUndisturbed
