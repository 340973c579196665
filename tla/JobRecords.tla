----------------------------- MODULE JobRecords -----------------------------
(***************************************************************************)
(* What the plugin reads out of one job record of the companion: which     *)
(* model it may say described the image, what its failure means, and       *)
(* whether its prompt contradicts itself or the pose receipt.  Pure        *)
(* functions; PluginFeedback shows their results in the details of a job.  *)
(*                                                                         *)
(* A text is the set of the things its patterns look for: a job's stage    *)
(* and error are a set of Signs, a prompt is a set of claims.              *)
(***************************************************************************)
EXTENDS Integers, FiniteSets, FiniteSetsExt

CONSTANT Absent      \* a field the record does not have

\* isHistoryJobActive.
Active == {"queued", "running"}

-----------------------------------------------------------------------------
(* The model that described the image *)

\* Mutant: a completed job is taken to have run what was asked for.
HistoryModelEvidenceMutant(job) ==
    [confirmed |-> job.status = "completed" /\ job.has_prompt,
     label |-> job.requested]

\* Only a completed job with a prompt confirms a model: the one it names, or its
\* reproducibility record does; until then the model that was asked for is shown
\* as such.  job.model of an unfinished job is the requested one.
HistoryModelEvidence(job) ==
    LET requested == IF job.requested # Absent THEN job.requested
                     ELSE IF ~job.has_prompt THEN job.model ELSE Absent
        completed == job.status = "completed" /\ job.has_prompt
    IN  IF completed
        THEN [confirmed |-> TRUE,
              label |-> IF job.model # Absent THEN job.model
                        ELSE IF job.recorded # Absent THEN job.recorded ELSE requested]
        ELSE [confirmed |-> FALSE, label |-> requested]

\* job.model holds the id that was asked for until the job is completed, then
\* the label of the model that ran.
LabelOf(m) == [label |-> m]

-----------------------------------------------------------------------------
(* What a failure means *)

\* What the patterns of diagnosticForHistoryJob find in a stage and an error.
\* A pattern matches anywhere in the text: "ready" is found in "already".
Signs == {"capacity", "output", "cancel", "identity", "synthetic", "remote"}

\* The first pattern that matches decides.
ErrorCode(signs) ==
    IF "synthetic" \in signs THEN "synthetic_test"
    ELSE IF "capacity" \in signs THEN "remote_gpu_capacity"
    ELSE IF "output" \in signs THEN "output_validation_failed"
    ELSE IF "cancel" \in signs THEN "cancelled"
    ELSE IF "identity" \in signs THEN "request_identity_conflict"
    ELSE "vision_job_failed"

\* The report also says whether the credits are protected: by the model asked
\* for or by the text.
DiagnosticForHistoryJob(job, online) ==
    [error_code     |-> ErrorCode(job.signs),
     worker_state   |-> "capacity" \in job.signs,
     credit_outcome |-> IF job.requested = online \/ "remote" \in job.signs
                        THEN "protected" ELSE "local",
     synthetic      |-> "synthetic" \in job.signs]

-----------------------------------------------------------------------------
(* Contradictions *)

Postures == {"standing", "sitting", "kneeling", "crouching", "squatting",
             "on_all_fours", "reclining", "lying", "visually_uncertain"}
PelvisSupports == {"supported", "not_supported", "not_visible"}
MaxSubjects == 12

\* A pose receipt with an unknown posture or support is refused; the number of
\* subjects is cut to what the receipt allows.
PoseIsValid(raw) == raw.posture \in Postures /\ raw.pelvis \in PelvisSupports

NormalizePoseCheck(raw) ==
    [raw EXCEPT !.subjects = Max({0, Min({MaxSubjects, raw.subjects})})]

\* Claims that exclude each other in a prompt, whatever the receipt says.
Exclusive == {[code |-> "view-gaze-conflict", claims |-> {"facing away", "camera gaze"}],
              [code |-> "camera-angle-conflict", claims |-> {"high angle", "low angle"}],
              [code |-> "time-light-conflict", claims |-> {"day", "night"}],
              [code |-> "clothing-state-conflict", claims |-> {"clothed", "nude"}],
              [code |-> "extra-limb-language", claims |-> {"extra limb"}]}

\* pose is a set of at most one receipt; counts are the subject counts claimed.
AuditPromptContradictions(claims, counts, pose) ==
    LET Posed(P(_)) == \E r \in pose : P(NormalizePoseCheck(r))
        Sits == "sitting" \in claims
        Stands == "standing" \in claims
    IN  {x.code : x \in {e \in Exclusive : e.claims \subseteq claims}}
        \cup {c \in {"standing-and-sitting"} :
                Sits /\ Stands /\ Posed(LAMBDA r : r.subjects = 1)}
        \cup {c \in {"pose-vs-receipt"} :
                \/ Sits /\ Posed(LAMBDA r : r.posture = "standing")
                \/ Stands /\ Posed(LAMBDA r : r.posture = "sitting")}
        \cup {c \in {"unsupported-sitting"} :
                Posed(LAMBDA r : r.posture = "sitting" /\ r.pelvis # "supported")}
        \cup {c \in {"supported-standing"} :
                Posed(LAMBDA r : r.posture = "standing" /\ r.pelvis = "supported")}
        \cup {c \in {"subject-count-conflict"} :
                Posed(LAMBDA r : r.subjects > 0 /\ counts \ {0, r.subjects} # {})}
=============================================================================
