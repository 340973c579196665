--------------------------- MODULE PluginFeedback ---------------------------
(***************************************************************************)
(* Likes and dislikes, and the requests they guide                         *)
(* (Krea2DiscordCollector.plugin.source.js).                               *)
(*                                                                         *)
(* A vision request remembers the settings of its click, waits in a line   *)
(* where one request runs at a time, and when its turn comes draws a       *)
(* sample of the votes of this session (buildPromptFeedbackContext).  The  *)
(* companion must confirm the digest of exactly that sample, the number of *)
(* prompts and the guidance asked for, or its answer is refused.  In the   *)
(* meantime the user goes on changing settings, voting on the prompts of   *)
(* finished jobs in Prompt History, and leaving the question for the       *)
(* reason of a dislike open.                                               *)
(*                                                                         *)
(* A digest is the value it is computed from.  The companion (row, reply)  *)
(* may be of another version and answer something else than what it was    *)
(* asked (Answers).                                                        *)
(***************************************************************************)
EXTENDS JobRecords, Sequences

CONSTANTS
    Prompt,                        \* prompt texts
    Sample,                        \* digests of eight-example samples
    VariantLists,                  \* what the model may write: lists of prompts
    Claims, Counts,                \* what a prompt says, and of how many subjects
    Poses,                         \* pose receipts of the companion
    Failures,                      \* how its jobs fail, and what that says
    Answers,                       \* how its answers differ from what was asked
    Scenes,                        \* where a session may begin
    Local,                         \* models of the local GPU
    Online,                        \* ONLINE_VISION_MODEL_ID
    MAX_PROMPT_FEEDBACK_RECORDS,
    FEEDBACK_LIKED_COUNT,
    FEEDBACK_DISLIKED_COUNT,
    MAX_BLOCKED_SAMPLE_DIGESTS,
    None,
    MaxFlows, MaxVotes, MaxChanges, MaxStarts    \* bounds

ASSUME FeedbackAssumption ==
    /\ MAX_PROMPT_FEEDBACK_RECORDS \in Nat \ {0}
    /\ FEEDBACK_LIKED_COUNT \in Nat
    /\ FEEDBACK_DISLIKED_COUNT \in Nat
    /\ MAX_BLOCKED_SAMPLE_DIGESTS \in Nat
    /\ VariantLists \subseteq Seq(Prompt)
    /\ \A v \in VariantLists : Len(v) \in {1, 3}
    /\ MaxFlows \in Nat
    /\ \A x \in Failures : x.status \in {"error", "cancelled"}

Model == Local \cup {Online}
Flows == 1..MaxFlows
\* Job 0 is in the companion's history from an earlier session.
Jobs  == 0..MaxFlows

\* None is no guidance and no vote, and the name of a model is a field.
ASSUME NoneAssumption ==
    /\ None \notin [liked    : SUBSET Prompt,
                   disliked : SUBSET [prompt : Prompt, reason : Prompt \cup {None}],
                   blocked  : SUBSET Sample]
    /\ None \notin [vote : {"liked", "disliked"}, at : Nat]
    /\ \A m \in Model : LabelOf(m) # Absent

VARIABLES
    running,      \* between start and stop
    starts,       \* generations so far
    settings,     \* this.settings
    panel,        \* the Interrogate tab: models offered, the one selected
    changes,      \* changes made to both
    flow,         \* the vision requests: what each asks, sends and gets
    line,         \* visionFlowQueue
    row,          \* the companion's jobs
    reply,        \* the companion's answer to a request, not yet read
    seen,         \* historyJobs: the rows as last polled
    promptFeedback,
    votes,        \* votes cast: the clock of the records
    last,         \* ghost: the last vote cast on each prompt
    view,         \* the details shown in the history window
    question      \* the open "What should the model avoid" dialog

settled == <<settings, panel, changes>>
asked   == <<flow, line>>
server  == <<row, reply>>
stored  == <<promptFeedback, votes, last>>
window  == <<view, question>>
vars    == <<running, starts, settled, asked, server, seen, stored, window>>

-----------------------------------------------------------------------------
(* Settings and the Interrogate tab *)

\* effectiveVisionModel and effectiveVisionPromptCount.
EffectiveModel(s) == IF s.online THEN Online ELSE s.model
EffectiveCount(s) == IF s.profile = "v2" /\ ~s.three THEN 1 ELSE 3

\* "Guide prompts with the Krea2 example dataset", a box of the settings panel.
GuidanceSwitched(s) == {[s EXCEPT !.guided = b] : b \in BOOLEAN}

\* The panel's switches.  The number of variations can be switched only while
\* V2 is on, the local model only while the local GPU is used; the third
\* profile is offered by the Interrogate tab.
Change(s) ==
    {[s EXCEPT !.profile = p] :
        p \in {"fast", "v2"} \cup (IF panel.open THEN {"maximum"} ELSE {})}
    \cup {[s EXCEPT !.three = b] : b \in {x \in BOOLEAN : s.profile = "v2"}}
    \cup {[s EXCEPT !.online = b] : b \in BOOLEAN}
    \cup {[s EXCEPT !.model = m] : m \in {x \in Local : ~s.online}}
    \cup GuidanceSwitched(s)

ChangeSettings ==
    /\ running /\ changes < MaxChanges
    /\ settings' \in Change(settings) \ {settings}
    /\ changes' = changes + 1
    /\ UNCHANGED <<running, starts, panel, asked, server, seen, stored, window>>

\* buildInterrogatePanel: without models, a panel that is built asks for them,
\* unless the last request is still under way.
Built(p) == [p EXCEPT !.loading = @ \/ (p.open /\ p.models = {})]

RefreshModels ==
    /\ running /\ panel.open /\ ~panel.loading
    /\ changes < MaxChanges
    /\ panel' = [panel EXCEPT !.loading = TRUE]
    /\ changes' = changes + 1
    /\ UNCHANGED <<running, starts, settings, asked, server, seen, stored, window>>

\* The companion's list arrives, also at a plugin that was stopped since; the
\* request may fail.  The model selected stays while it is offered; else it is
\* the one of the settings, or one that is.
ModelsArrive(offered) ==
    /\ panel.loading
    /\ \E m \in IF panel.selected \in offered THEN {panel.selected}
               ELSE IF EffectiveModel(settings) \in offered
                    THEN {EffectiveModel(settings)}
               ELSE IF offered # {} THEN offered ELSE {None} :
          panel' = [panel EXCEPT !.models = offered, !.selected = m, !.loading = FALSE]
    /\ UNCHANGED <<running, starts, settings, changes, asked, server, seen, stored,
                   window>>

SelectModel(m) ==
    /\ running /\ panel.open /\ ~panel.loading
    /\ changes < MaxChanges
    /\ m \in panel.models \ {panel.selected}
    /\ panel' = [panel EXCEPT !.selected = m]
    /\ changes' = changes + 1
    /\ UNCHANGED <<running, starts, settings, asked, server, seen, stored, window>>

-----------------------------------------------------------------------------
(* The votes as guidance *)

\* shuffledFeedback: any n of the records, or all of them.
Draw(S, n) == {T \in SUBSET S : Cardinality(T) = Min({n, Cardinality(S)})}

Voted(pf, vote) == {p \in DOMAIN pf : pf[p].vote = vote}

\* The samples of the disliked records in the order of their first dislike;
\* the last MAX_BLOCKED_SAMPLE_DIGESTS of them are sent.
BlockedSamples(pf) ==
    LET down == {p \in Voted(pf, "disliked") : pf[p].sample # None}
        first[s \in {pf[p].sample : p \in down}] ==
            Min({pf[p].updated : p \in {q \in down : pf[q].sample = s}})
    IN  {s \in DOMAIN first :
            Cardinality({t \in DOMAIN first : first[t] > first[s]})
                < MAX_BLOCKED_SAMPLE_DIGESTS}

\* buildPromptFeedbackContext: the contexts that may be drawn.
Contexts(pf) ==
    {[liked    |-> liked,
      disliked |-> {[prompt |-> p, reason |-> pf[p].reason] : p \in disliked},
      blocked  |-> BlockedSamples(pf)] :
        liked    \in Draw(Voted(pf, "liked"), FEEDBACK_LIKED_COUNT),
        disliked \in Draw(Voted(pf, "disliked"), FEEDBACK_DISLIKED_COUNT)}

-----------------------------------------------------------------------------
(* A vision request *)

NoFlow == [stage |-> "free", config |-> None, sent |-> None, got |-> None]
NoRow  == [status |-> "none"]

\* A session begins with saved settings, and a job of an earlier one that is
\* over, or none.
ASSUME ScenesAssumption ==
    \A scene \in Scenes :
        /\ scene.settings \in [profile : {"fast", "v2", "maximum"}, three : BOOLEAN,
                               online : BOOLEAN, model : Local, guided : BOOLEAN]
        /\ scene.votes \in Nat
        /\ scene.earlier # NoRow =>
              /\ scene.earlier \in
                   [status : {"completed", "error", "cancelled"},
                    requested : Model \cup {Absent},
                    model : Model \cup {Absent} \cup {LabelOf(m) : m \in Model},
                    recorded : {Absent} \cup {LabelOf(m) : m \in Model},
                    profile : {"fast", "v2", "maximum"}, has_prompt : BOOLEAN,
                    variants : Seq(Prompt), votes : {None}, sample : Sample \cup {None},
                    signs : SUBSET Signs, pose : Poses \cup {{}}]
              /\ scene.earlier.has_prompt =>
                    /\ scene.earlier.variants # <<>>
                    /\ scene.earlier.model \in {LabelOf(m) : m \in Model}

\* The answer of a failed job holds none of what is looked for.
Refusal == [variants |-> <<>>, guided |-> FALSE, digest |-> None,
            bounded |-> TRUE, pipeline |-> FALSE, pose |-> {}]

\* The settings that decide the model and the number of prompts are those of
\* the click.
Captured(s) == [model   |-> EffectiveModel(s),
                profile |-> s.profile,
                count   |-> EffectiveCount(s)]

Ask(f, config) ==
    /\ running
    /\ flow[f].stage = "free"
    /\ \A g \in 1..(f - 1) : flow[g].stage # "free"
    /\ flow' = [flow EXCEPT ![f] = [NoFlow EXCEPT !.stage = "waiting",
                                                 !.config = config]]
    /\ line' = Append(line, f)
    /\ UNCHANGED <<running, starts, settled, server, seen, stored, window>>

\* queueVisionAnalysis, for the image clicked on.
AskForImage(f) == Ask(f, Captured(settings))

\* queueInterrogateSelection, for an uploaded file: the model is the one
\* selected in the tab.
AskForUpload(f) ==
    /\ panel.open
    /\ panel.selected \in panel.models
    /\ Ask(f, [Captured(settings) EXCEPT !.model = panel.selected])

\* visionRequestCacheKey: what a request is identified by.  With guidance the
\* key holds the digest of the votes and the job's id, so that it is never that
\* of another request.
RequestOf(f, config, guided, context) ==
    [model |-> config.model, profile |-> config.profile, count |-> config.count,
     guided |-> guided, context |-> IF guided THEN context ELSE None,
     nonce |-> IF guided THEN f ELSE None]

\* Mutant: the number of prompts is read from the settings of the turn.
PrepareMutant(f) ==
    /\ line # <<>> /\ Head(line) = f
    /\ flow[f].stage = "waiting"
    /\ \E context \in IF settings.guided THEN Contexts(promptFeedback) ELSE {None} :
          flow' = [flow EXCEPT
                     ![f].stage = "prepared",
                     ![f].sent = RequestOf(f, Captured(settings), settings.guided,
                                           context)]
    /\ UNCHANGED <<running, starts, settled, line, server, seen, stored, window>>

\* Its turn, its image in hand: the guidance switch and the votes are those of
\* this moment, drawn once and kept in the request.
Prepare(f) ==
    /\ line # <<>> /\ Head(line) = f
    /\ flow[f].stage = "waiting"
    /\ \E context \in IF settings.guided THEN Contexts(promptFeedback) ELSE {None} :
          flow' = [flow EXCEPT
                     ![f].stage = "prepared",
                     ![f].sent = RequestOf(f, flow[f].config, settings.guided,
                                           context)]
    /\ UNCHANGED <<running, starts, settled, line, server, seen, stored, window>>

\* The request ends without an answer: the image or the configuration is
\* missing, the consent or the session fails, the connection is refused.
GiveUp(f) ==
    /\ line # <<>> /\ Head(line) = f
    /\ flow[f].stage \in {"waiting", "prepared"}
    /\ flow' = [flow EXCEPT ![f].stage = "failed"]
    /\ line' = Tail(line)
    /\ UNCHANGED <<running, starts, settled, server, seen, stored, window>>

\* buildVisionMultipartBody: the companion is told the votes only of a guided
\* request, and opens a job.
MultipartBody(sent) ==
    [status |-> "running", requested |-> sent.model, model |-> sent.model,
     profile |-> sent.profile, has_prompt |-> FALSE, variants |-> <<>>,
     votes |-> IF sent.guided THEN sent.context ELSE None,
     recorded |-> Absent, sample |-> None, signs |-> {}, pose |-> {}]

\* requestVisionPrompt posts the multipart body; the companion opens a job.
\* Every option was fixed by Prepare, so that none of the live settings its
\* code falls back to is read.
Send(f) ==
    /\ line # <<>> /\ Head(line) = f
    /\ flow[f].stage = "prepared"
    /\ flow' = [flow EXCEPT ![f].stage = "sent"]
    /\ row' = [row EXCEPT ![f] = MultipartBody(flow[f].sent)]
    /\ UNCHANGED <<running, starts, settled, line, reply, seen, stored, window>>

\* The companion describes the image and completes the job's row.  One of another
\* version may write another number of prompts, ignore the guidance or the votes,
\* or be another pipeline altogether; the model that ran is the one it names, and
\* its reproducibility record too unless that could not be written.
Describe(f, variants, sample, answer, ran, recorded, pose) ==
    /\ row[f].status = "running"
    /\ row' = [row EXCEPT ![f].status = "completed", ![f].has_prompt = TRUE,
                          ![f].variants = variants, ![f].model = LabelOf(ran),
                          ![f].recorded = recorded, ![f].sample = sample,
                          ![f].pose = pose]
    /\ reply' = [reply EXCEPT ![f] =
                    [variants |-> variants, guided |-> sample # None,
                     digest |-> IF sample # None /\ answer.digest
                                THEN row[f].votes ELSE None,
                     bounded |-> answer.bounded, pipeline |-> answer.pipeline,
                     pose |-> pose]]
    /\ UNCHANGED <<running, starts, settled, asked, seen, stored, window>>

\* The companion's job fails, or the user cancels it.
Refuse(f, failure) ==
    /\ row[f].status = "running"
    /\ row' = [row EXCEPT ![f].status = failure.status,
                          ![f].signs = failure.signs]
    /\ reply' = [reply EXCEPT ![f] = Refusal]
    /\ UNCHANGED <<running, starts, settled, asked, seen, stored, window>>

\* normalizeDatasetGuidanceState: guidance exactly when it was asked for, from
\* the votes that were sent.
GuidanceConfirmed(sent, r) ==
    /\ r.guided = sent.guided
    /\ sent.guided => r.digest = sent.context

\* normalizeVisionPromptVariants: no two prompts the same.
VariantsUsable(variants) ==
    \A i, j \in DOMAIN variants : variants[i] = variants[j] => i = j

\* readBoundedResponseText: an answer that is, or turns out, longer than
\* MAX_VISION_RESPONSE_BYTES is not read.
Readable(r) == r.bounded

\* parseVisionPromptResponse: what is taken as the answer to a request.
Accepts(sent, r) ==
    /\ Readable(r)
    /\ r.pipeline
    /\ VariantsUsable(r.variants)
    /\ Len(r.variants) = sent.count
    /\ GuidanceConfirmed(sent, r)
    /\ \A pose \in r.pose : PoseIsValid(pose)

\* The answer is read, by a plugin that still waits for it.
Receive(f) ==
    /\ line # <<>> /\ Head(line) = f
    /\ flow[f].stage = "sent"
    /\ reply[f] # None
    /\ flow' = IF Accepts(flow[f].sent, reply[f])
               THEN [flow EXCEPT ![f].stage = "done", ![f].got = reply[f]]
               ELSE [flow EXCEPT ![f].stage = "failed"]
    /\ line' = Tail(line)
    /\ reply' = [reply EXCEPT ![f] = None]
    /\ UNCHANGED <<running, starts, settled, row, seen, stored, window>>

-----------------------------------------------------------------------------
(* Prompt History *)

NoView     == [job |-> None]
NoQuestion == [about |-> None]

\* visibleHistoryPromptVariants: a V2 result shows its first prompt unless
\* three variations are switched on.
VisibleVariants(job, s) ==
    IF job.profile # "v2" \/ (s.three /\ Len(job.variants) = 3)
    THEN job.variants
    ELSE SubSeq(job.variants, 1, 1)

\* createDiagnosticCenter, for a job that is over without a prompt.
Diagnosis(job) == IF job.has_prompt \/ job.status \in Active THEN None
                  ELSE DiagnosticForHistoryJob(job, Online)

\* createPoseAndContradictionPanel audits the first prompt only.
Issues(job) ==
    IF job.has_prompt
    THEN AuditPromptContradictions(Claims[job.variants[1]], Counts[job.variants[1]],
                                   job.pose)
    ELSE {}

\* createHistoryDetailBody.
Details(f, job) ==
    [job       |-> f,
     selected  |-> 1,
     variants  |-> IF job.has_prompt THEN VisibleVariants(job, settings) ELSE <<>>,
     sample    |-> job.sample,
     evidence  |-> HistoryModelEvidence(job),
     diagnosis |-> Diagnosis(job),
     issues    |-> Issues(job)]

\* The tabs of a rendered view go with it: a question asked from it keeps the
\* variant that was selected last.
Detached(q) == IF q = NoQuestion THEN q ELSE [q EXCEPT !.live = FALSE]

\* refreshHistory: the rows as they are now; the details are rendered anew when
\* their job has changed.
Poll ==
    /\ running
    /\ seen # row
    /\ seen' = row
    /\ IF view # NoView /\ seen[view.job] # row[view.job]
       THEN /\ view' = Details(view.job, row[view.job])
            /\ question' = Detached(question)
       ELSE UNCHANGED window
    /\ UNCHANGED <<running, starts, settled, asked, server, stored>>

\* A click on a row of the list.
Open(f) ==
    /\ running
    /\ seen[f] # NoRow
    /\ view.job # f
    /\ view' = Details(f, seen[f])
    /\ question' = Detached(question)
    /\ UNCHANGED <<running, starts, settled, asked, server, seen, stored>>

Close ==
    /\ view # NoView
    /\ view' = NoView
    /\ question' = Detached(question)
    /\ UNCHANGED <<running, starts, settled, asked, server, seen, stored>>

\* selectVariant.  The question covers the tabs but does not disable them: they
\* can still be reached with the keyboard.
SelectVariant(i) ==
    /\ view # NoView
    /\ i \in DOMAIN view.variants \ {view.selected}
    /\ view' = [view EXCEPT !.selected = i]
    /\ question' = IF question # NoQuestion /\ question.live
                   THEN [question EXCEPT !.selected = i] ELSE question
    /\ UNCHANGED <<running, starts, settled, asked, server, seen, stored>>

-----------------------------------------------------------------------------
(* Votes *)

\* Mutant: slice(0, MAX) of the records in the order of their time.
RetainedMutant(pf) ==
    LET kept == {p \in DOMAIN pf :
                    Cardinality({q \in DOMAIN pf : pf[q].updated < pf[p].updated})
                        < MAX_PROMPT_FEEDBACK_RECORDS}
    IN  [p \in kept |-> pf[p]]

\* The newest MAX_PROMPT_FEEDBACK_RECORDS records are kept.
Retained(pf) ==
    LET kept == {p \in DOMAIN pf :
                    Cardinality({q \in DOMAIN pf : pf[q].updated > pf[p].updated})
                        < MAX_PROMPT_FEEDBACK_RECORDS}
    IN  [p \in kept |-> pf[p]]

\* savePromptFeedback: one record per prompt, the newest vote; a record holds
\* the sample its job was guided by.
SavePromptFeedback(prompt, vote, reason, sample) ==
    LET record == [vote |-> vote, reason |-> reason, sample |-> sample,
                   updated |-> votes + 1]
    IN  /\ votes < MaxVotes
        /\ promptFeedback' = Retained([p \in DOMAIN promptFeedback \cup {prompt} |->
                                         IF p = prompt THEN record
                                         ELSE promptFeedback[p]])
        /\ votes' = votes + 1
        /\ last' = [last EXCEPT ![prompt] = [vote |-> vote, at |-> votes + 1]]

Like ==
    /\ view # NoView /\ view.variants # <<>>
    /\ SavePromptFeedback(view.variants[view.selected], "liked", None, view.sample)
    /\ UNCHANGED <<running, starts, settled, asked, server, seen, window>>

\* requestDislikeReason: a question already open is answered with null first.
Dislike ==
    /\ view # NoView /\ view.variants # <<>>
    /\ question' = [about |-> view.variants[view.selected], live |-> TRUE,
                    variants |-> view.variants, selected |-> view.selected,
                    sample |-> view.sample]
    /\ UNCHANGED <<running, starts, settled, asked, server, seen, stored, view>>

\* A reason is saved with the variant selected by then.
GiveReason ==
    /\ question # NoQuestion
    /\ SavePromptFeedback(question.variants[question.selected], "disliked",
                          question.about, question.sample)
    /\ question' = NoQuestion
    /\ UNCHANGED <<running, starts, settled, asked, server, seen, view>>

Dismiss ==
    /\ question # NoQuestion
    /\ question' = NoQuestion
    /\ UNCHANGED <<running, starts, settled, asked, server, seen, stored, view>>

-----------------------------------------------------------------------------
(* The life of the plugin *)

\* stop: the open question is answered with null, the requests are aborted and
\* their flows end silently.  The companion goes on with what it has.
Stop ==
    /\ running
    /\ running' = FALSE
    /\ flow' = [f \in Flows |->
                  IF flow[f].stage \in {"waiting", "prepared", "sent"}
                  THEN [flow[f] EXCEPT !.stage = "failed"] ELSE flow[f]]
    /\ line' = <<>>
    /\ panel' = [panel EXCEPT !.models = {}]
    /\ view' = NoView
    /\ question' = NoQuestion
    /\ UNCHANGED <<starts, settings, changes, server, seen, stored>>

\* start: votes are of one session, settings are kept.
Start ==
    /\ ~running /\ starts < MaxStarts
    /\ running' = TRUE
    /\ starts' = starts + 1
    /\ promptFeedback' = << >>
    /\ last' = [p \in Prompt |-> None]
    /\ seen' = [j \in Jobs |-> NoRow]
    /\ panel' = Built(panel)
    /\ UNCHANGED <<settings, changes, asked, server, votes, window>>

-----------------------------------------------------------------------------
Init ==
    /\ running = TRUE /\ starts = 1
    /\ flow = [f \in Flows |-> NoFlow] /\ line = <<>>
    /\ \E scene \in Scenes :
          /\ settings = scene.settings
          /\ panel = Built([open |-> scene.tab, models |-> {}, selected |-> None,
                            loading |-> FALSE])
          /\ row = [j \in Jobs |-> IF j = 0 THEN scene.earlier ELSE NoRow]
          /\ changes = scene.changes
          /\ votes = scene.votes
    /\ reply = [f \in Flows |-> None]
    /\ seen = [j \in Jobs |-> NoRow]
    /\ promptFeedback = << >> /\ last = [p \in Prompt |-> None]
    /\ view = NoView /\ question = NoQuestion

Flow(f) == AskForImage(f) \/ AskForUpload(f) \/ Prepare(f) \/ GiveUp(f) \/ Send(f) \/ Receive(f)

Companion(f) ==
    \/ \E variants \in VariantLists, sample \in Sample \cup {None},
          answer \in Answers, ran \in Model, pose \in Poses :
          \E recorded \in {Absent, LabelOf(ran)} :
             Describe(f, variants, sample, answer, ran, recorded, pose)
    \/ \E failure \in Failures : Refuse(f, failure)

History ==
    \/ Poll
    \/ \E j \in Jobs : Open(j)
    \/ Close
    \/ \E i \in 1..3 : SelectVariant(i)

Settings ==
    \/ ChangeSettings
    \/ RefreshModels
    \/ \E offered \in SUBSET Model : ModelsArrive(offered)
    \/ \E m \in Model : SelectModel(m)

Vote == Like \/ Dislike \/ GiveReason \/ Dismiss

Next ==
    \/ \E f \in Flows : Flow(f) \/ Companion(f)
    \/ History
    \/ Vote
    \/ Settings
    \/ Stop \/ Start

Spec == Init /\ [][Next]_vars

-----------------------------------------------------------------------------
(* Properties *)

\* Each request that succeeds has asked for what was chosen at its click (the
\* settings' model and profile, or the model selected for an upload), brought the
\* number of prompts chosen then, written with guidance exactly when that was on
\* at its turn, and from the very votes that were drawn then, whatever was
\* switched, selected or voted while it waited (requestVisionPrompt,
\* parseVisionPromptResponse).  Which model answers is not compared with the one
\* asked for: the details name it (ConfirmedIsActual).
EachGetsWhatItAsked ==
    \A f \in Flows : flow[f].stage = "done" =>
        LET chosen == flow[f].config  got == flow[f].got  sent == flow[f].sent
        IN  /\ Len(got.variants) = chosen.count
            /\ sent.model = chosen.model /\ row[f].requested = chosen.model
            /\ sent.profile = chosen.profile /\ row[f].profile = chosen.profile
            /\ got.guided = (sent.context # None)
            /\ got.guided => got.digest = sent.context

\* The last vote on a prompt stands until MAX_PROMPT_FEEDBACK_RECORDS newer
\* ones have pushed it out, and no vote stands that was not the last
\* (savePromptFeedback).
LastVoteStands ==
    \A p \in Prompt :
        LET newer == {q \in Prompt : last[q] # None /\ last[q].at > last[p].at}
        IN  IF last[p] # None /\ Cardinality(newer) < MAX_PROMPT_FEEDBACK_RECORDS
            THEN p \in DOMAIN promptFeedback /\ promptFeedback[p].vote = last[p].vote
            ELSE p \notin DOMAIN promptFeedback

\* What the details call "Model that actually described this image" is the
\* model that did, even when they were rendered from rows polled earlier
\* (historyModelEvidence).
ConfirmedIsActual ==
    view # NoView /\ view.evidence.confirmed =>
        /\ row[view.job].status = "completed"
        /\ view.evidence.label = row[view.job].model
=============================================================================
