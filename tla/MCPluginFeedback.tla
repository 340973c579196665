-------------------------- MODULE MCPluginFeedback --------------------------
(***************************************************************************)
(* A request after an earlier job, two votes and one change of a setting,  *)
(* with room for one record, one example of each kind and one blocked      *)
(* sample: the store overflows, and a setting changes between a click and  *)
(* its turn.  One prompt contradicts itself.                               *)
(***************************************************************************)
EXTENDS PluginFeedback

CONSTANTS a, b, c, s1, m1, m2

MCVariantLists == {<<a>>, <<a, b, c>>}
MCClaims == [p \in Prompt |-> IF p = a THEN {"sitting", "standing"} ELSE {}]
MCCounts == [p \in Prompt |-> {}]
MCPoses == {{[subjects |-> 1, posture |-> "standing", pelvis |-> "not_visible"]}}
MCAnswers == {[digest |-> TRUE, bounded |-> TRUE, pipeline |-> TRUE],
              [digest |-> FALSE, bounded |-> TRUE, pipeline |-> TRUE],
              [digest |-> TRUE, bounded |-> FALSE, pipeline |-> TRUE]}
MCEarlierJob == [status |-> "completed", requested |-> m1, model |-> LabelOf(m1),
                 profile |-> "v2", has_prompt |-> TRUE, variants |-> <<b>>,
                 recorded |-> Absent, votes |-> None, sample |-> s1, signs |-> {},
                 pose |-> {}]
MCSettings == [profile |-> "v2", three |-> TRUE, online |-> FALSE, model |-> m1,
               guided |-> TRUE]
Scene(tab, earlier, switches, ballots) ==
    [tab |-> tab, settings |-> MCSettings, earlier |-> earlier,
     changes |-> MaxChanges - switches, votes |-> MaxVotes - ballots]
\* Two votes beside an earlier job; a vote and a change; a change with the
\* Interrogate tab open.
MCScenes == {Scene(FALSE, MCEarlierJob, 0, 2), Scene(FALSE, NoRow, 1, 1),
             Scene(TRUE, NoRow, 1, 0)}
\* "Remote request ID was already used" also looks like a GPU that is ready.
MCFailures == {[status |-> "error", signs |-> {"identity", "capacity"}]}
=============================================================================
