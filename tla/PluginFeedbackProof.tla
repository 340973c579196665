------------------------- MODULE PluginFeedbackProof -------------------------
(***************************************************************************)
(* Theorems of PluginFeedback, for any prompts, models, votes, limits of   *)
(* the store and number of requests: a request that succeeds brought what  *)
(* was asked for at its click, the store holds the last vote on each of    *)
(* the prompts voted on most recently, and the model the details confirm   *)
(* is the one that ran.                                                    *)
(*                                                                         *)
(* A record of the store stands while fewer votes are newer than it than   *)
(* the store has room for.  The votes newer than one that stands all stand *)
(* themselves, so that counting them among the records, as the trim does,  *)
(* counts them all.                                                        *)
(*                                                                         *)
(* The details may have been rendered from rows polled long ago.  They     *)
(* confirm a model only for a completed job, and nothing changes a         *)
(* completed job: a job is written once by its request and once by its     *)
(* end.                                                                    *)
(***************************************************************************)
EXTENDS PluginFeedback, FiniteSetTheorems, TLAPS

\* The rows, flows, details and questions are records.
RowFields(r) ==
    [status |-> r.status, requested |-> r.requested, model |-> r.model,
     recorded |-> r.recorded, profile |-> r.profile, has_prompt |-> r.has_prompt,
     variants |-> r.variants,
     votes |-> r.votes, sample |-> r.sample, signs |-> r.signs, pose |-> r.pose]

FlowFields(v) ==
    [stage |-> v.stage, config |-> v.config, sent |-> v.sent, got |-> v.got]

ViewFields(v) ==
    [job |-> v.job, selected |-> v.selected, variants |-> v.variants,
     sample |-> v.sample, evidence |-> v.evidence, diagnosis |-> v.diagnosis,
     issues |-> v.issues]

Sampled == Sample \cup {None}

\* A job that runs has no prompt yet; one that has completed names its model.
IsJob(r) ==
    /\ r = RowFields(r)
    /\ r.status # "none"
    /\ r.has_prompt \in BOOLEAN
    /\ r.status = "running" => ~r.has_prompt
    /\ r.has_prompt => r.variants \in Seq(Prompt) \ {<<>>} /\ r.model # Absent
    /\ r.sample \in Sampled

Final(r) == r.status = "completed" /\ r.has_prompt

\* What was polled of a completed job is how the job still is.
RowsKept ==
    /\ row = [j \in Jobs |-> row[j]]
    /\ \A j \in Jobs :
         /\ row[j] # NoRow => IsJob(row[j])
         /\ seen[j] # NoRow => IsJob(seen[j]) /\ row[j] # NoRow
         /\ Final(seen[j]) => row[j] = seen[j]
    /\ reply = [f \in Flows |-> reply[f]]

\* What a request asks for is what was chosen at its click, with guidance when it
\* has votes to guide by, and its job was opened for it.
FlowKept(v, r) ==
    /\ v = FlowFields(v)
    /\ v.stage \in {"free", "waiting", "prepared"} => r = NoRow
    /\ v.stage \in {"prepared", "sent", "done"} =>
         /\ v.sent.model = v.config.model /\ v.sent.count = v.config.count
         /\ v.sent.profile = v.config.profile
         /\ v.sent.guided = (v.sent.context # None)
    /\ v.stage \in {"sent", "done"} =>
         r # NoRow /\ r.requested = v.sent.model /\ r.profile = v.sent.profile
    /\ v.stage = "done" =>
         /\ Len(v.got.variants) = v.sent.count
         /\ GuidanceConfirmed(v.sent, v.got)

FlowsKept ==
    /\ flow = [f \in Flows |-> flow[f]]
    /\ settings \in [profile : {"fast", "v2", "maximum"}, three : BOOLEAN,
                     online : BOOLEAN, model : Local, guided : BOOLEAN]
    /\ \A f \in Flows : FlowKept(flow[f], row[f])

\* The details and the question are about prompts of a job; an open question
\* that follows the tabs is about the very prompts shown.
Chosen(s) == s.variants \in Seq(Prompt) /\ s.sample \in Sampled
             /\ (s.variants # <<>> => s.selected \in DOMAIN s.variants)

WindowKept ==
    /\ view # NoView =>
         /\ view = ViewFields(view)
         /\ view.job \in Jobs /\ row[view.job] # NoRow
         /\ Chosen(view)
         /\ view.evidence.confirmed =>
              row[view.job].status = "completed" /\ view.evidence.label = row[view.job].model
    /\ question # NoQuestion =>
         /\ question \in [about : Prompt, live : BOOLEAN, variants : Seq(Prompt) \ {<<>>},
                          selected : Nat, sample : Sampled]
         /\ Chosen(question)
         /\ question.live => view # NoView /\ question.variants = view.variants

\* The prompts voted on, the votes newer than the one on p, and those that stand.
VotedOn  == {p \in Prompt : last[p] # None}
Newer(p) == {q \in VotedOn : last[q].at > last[p].at}
Standing == {p \in VotedOn : Cardinality(Newer(p)) < MAX_PROMPT_FEEDBACK_RECORDS}

\* A record stands for each of the newest votes.
VotesKept ==
    /\ votes \in Nat
    /\ last \in [Prompt -> {None} \cup [vote : {"liked", "disliked"}, at : 1..votes]]
    /\ IsFiniteSet(VotedOn)
    /\ promptFeedback \in
         [Standing -> [vote : {"liked", "disliked"}, reason : Prompt \cup {None},
                       sample : Sampled, updated : Nat]]
    /\ \A p \in Standing : /\ promptFeedback[p].vote = last[p].vote
                           /\ promptFeedback[p].updated = last[p].at

FeedbackInv == RowsKept /\ FlowsKept /\ WindowKept /\ VotesKept

-----------------------------------------------------------------------------
\* The rows and flows.
LEMMA StageTakes ==
    ASSUME NEW v, v = FlowFields(v), NEW a
    PROVE  LET s == [v EXCEPT !.stage = a]
           IN  /\ s = FlowFields(s) /\ s.stage = a /\ s.config = v.config
               /\ s.sent = v.sent /\ s.got = v.got
BY DEF FlowFields

\* A flow with its request, and with its answer.
WithSent(v, a, b) == [v EXCEPT !.stage = a, !.sent = b]
WithGot(v, a, b)  == [v EXCEPT !.stage = a, !.got = b]

LEMMA SentTakes ==
    ASSUME NEW v, v = FlowFields(v), NEW a, NEW b
    PROVE  LET s == WithSent(v, a, b)
           IN  s = FlowFields(s) /\ s.stage = a /\ s.sent = b /\ s.config = v.config
<1> DEFINE t == [v EXCEPT !.stage = a]
           s == [t EXCEPT !.sent = b]
<1>1. t = FlowFields(t) /\ t.stage = a /\ t.config = v.config
  BY DEF FlowFields
<1> HIDE DEF t
<1>2. s = FlowFields(s) /\ s.stage = a /\ s.sent = b /\ s.config = v.config
  BY <1>1 DEF FlowFields
<1> QED
  BY <1>2 DEF t, WithSent

LEMMA GotTakes ==
    ASSUME NEW v, v = FlowFields(v), NEW a, NEW b
    PROVE  LET s == WithGot(v, a, b)
           IN  /\ s = FlowFields(s) /\ s.stage = a /\ s.got = b /\ s.config = v.config
               /\ s.sent = v.sent
<1> DEFINE t == [v EXCEPT !.stage = a]
           s == [t EXCEPT !.got = b]
<1>1. t = FlowFields(t) /\ t.stage = a /\ t.config = v.config /\ t.sent = v.sent
  BY DEF FlowFields
<1> HIDE DEF t
<1>2. s = FlowFields(s) /\ s.stage = a /\ s.got = b /\ s.config = v.config /\ s.sent = v.sent
  BY <1>1 DEF FlowFields
<1> QED
  BY <1>2 DEF t, WithGot

LEMMA FlowsAreJobs == Flows \subseteq Jobs
BY FeedbackAssumption DEF Flows, Jobs

\* One flow changes, and maybe its job.
LEMMA OneFlow ==
    ASSUME FlowsKept, NEW f \in Flows, NEW v, flow' = [flow EXCEPT ![f] = v],
           FlowKept(v, row'[f]), \A g \in Flows \ {f} : row'[g] = row[g],
           UNCHANGED settings
    PROVE  FlowsKept'
<1>1. flow = [g \in Flows |-> flow[g]] /\ \A g \in Flows : FlowKept(flow[g], row[g])
  BY DEF FlowsKept
<1>2. flow' = [g \in Flows |-> flow'[g]] /\ flow'[f] = v
      /\ \A g \in Flows \ {f} : flow'[g] = flow[g]
  BY <1>1
<1>3. ASSUME NEW g \in Flows PROVE FlowKept(flow'[g], row'[g])
  <2>1. CASE g = f
    BY <1>2, <2>1
  <2>2. CASE g # f
    BY <1>1, <1>2, <2>2
  <2> QED
    BY <2>1, <2>2
<1> QED
  BY <1>2, <1>3 DEF FlowsKept

LEMMA FlowIs == ASSUME FlowsKept, NEW f \in Flows
                PROVE FlowKept(flow[f], row[f]) /\ flow[f] = FlowFields(flow[f])
                      /\ flow = [g \in Flows |-> flow[g]]
BY DEF FlowsKept, FlowKept

LEMMA JobIsARow == ASSUME NEW r, IsJob(r) PROVE r # NoRow
BY DEF IsJob, NoRow

\* A row of a job that is not over changes.
LEMMA OneRow ==
    ASSUME RowsKept, NEW f \in Flows, NEW r, row' = [row EXCEPT ![f] = r], IsJob(r),
           ~Final(row[f]), UNCHANGED seen, reply' = [g \in Flows |-> reply'[g]]
    PROVE  RowsKept' /\ row'[f] = r /\ \A j \in Jobs \ {f} : row'[j] = row[j]
<1>0. f \in Jobs
  BY FlowsAreJobs
<1>1. row = [j \in Jobs |-> row[j]]
  BY DEF RowsKept
<1>2. row' = [j \in Jobs |-> row'[j]] /\ row'[f] = r /\ \A j \in Jobs \ {f} : row'[j] = row[j]
  BY <1>0, <1>1
<1>3. ASSUME NEW j \in Jobs
      PROVE  /\ row'[j] # NoRow => IsJob(row'[j])
             /\ row[j] # NoRow => row'[j] # NoRow
             /\ Final(seen[j]) => row'[j] = seen[j]
  <2>1. CASE j = f
    BY <1>2, <2>1, JobIsARow DEF RowsKept
  <2>2. CASE j # f
    BY <1>2, <2>2 DEF RowsKept
  <2> QED
    BY <2>1, <2>2
<1> QED
  BY <1>2, <1>3 DEF RowsKept

LEMMA RowsUnmoved == ASSUME RowsKept, UNCHANGED <<row, seen, reply>> PROVE RowsKept'
BY DEF RowsKept

LEMMA FlowsUnmoved == ASSUME FlowsKept, UNCHANGED <<row, flow, settings>> PROVE FlowsKept'
BY DEF FlowsKept

\* What the window says of completed jobs stays true.
LEMMA WindowUnmoved ==
    ASSUME WindowKept, UNCHANGED window,
           \A j \in Jobs : /\ row[j].status = "completed" => row'[j] = row[j]
                           /\ row[j] # NoRow => row'[j] # NoRow
    PROVE  WindowKept'
<1>1. UNCHANGED <<view, question>>
  BY DEF window
<1> QED
  BY <1>1 DEF WindowKept

LEMMA VotesUnmoved == ASSUME VotesKept, UNCHANGED stored PROVE VotesKept'
<1>1. UNCHANGED <<promptFeedback, votes, last>>
  BY DEF stored
<1>2. VotedOn' = VotedOn /\ \A p : Newer(p)' = Newer(p)
  BY <1>1 DEF VotedOn, Newer
<1>3. Standing' = Standing
  BY <1>1, <1>2 DEF Standing
<1> QED
  BY <1>1, <1>2, <1>3 DEF VotesKept

\* The votes that a context is drawn from make a context, which None is not.
LEMMA ContextIsNotNone ==
    ASSUME VotesKept, NEW c \in Contexts(promptFeedback)
    PROVE  c # None
<1> DEFINE pf == promptFeedback
<1>1. DOMAIN pf \subseteq Prompt /\ \A p \in DOMAIN pf : pf[p].reason \in Prompt \cup {None}
                                                         /\ pf[p].sample \in Sampled
  BY DEF VotesKept, Standing, VotedOn
<1>2. PICK liked \in Draw(Voted(pf, "liked"), FEEDBACK_LIKED_COUNT),
           disliked \in Draw(Voted(pf, "disliked"), FEEDBACK_DISLIKED_COUNT) :
        c = [liked    |-> liked,
             disliked |-> {[prompt |-> p, reason |-> pf[p].reason] : p \in disliked},
             blocked  |-> BlockedSamples(pf)]
  BY DEF Contexts
<1>3. liked \subseteq DOMAIN pf /\ disliked \subseteq DOMAIN pf
  BY <1>2 DEF Draw, Voted
<1>4. BlockedSamples(pf) \subseteq Sample
  <2> DEFINE down == {p \in Voted(pf, "disliked") : pf[p].sample # None}
             first == [s \in {pf[p].sample : p \in down} |->
                         Min({pf[p].updated : p \in {q \in down : pf[q].sample = s}})]
  <2>1. BlockedSamples(pf) = {s \in DOMAIN first :
            Cardinality({t \in DOMAIN first : first[t] > first[s]})
                < MAX_BLOCKED_SAMPLE_DIGESTS}
    BY Zenon DEF BlockedSamples
  <2>2. DOMAIN first = {pf[p].sample : p \in down}
    BY Zenon
  <2>3. {pf[p].sample : p \in down} \subseteq Sample
    BY <1>1 DEF Voted, Sampled
  <2> QED
    BY <2>1, <2>2, <2>3
<1>5. {[prompt |-> p, reason |-> pf[p].reason] : p \in disliked}
        \in SUBSET [prompt : Prompt, reason : Prompt \cup {None}]
  BY <1>1, <1>3
<1>6. c \in [liked    : SUBSET Prompt,
             disliked : SUBSET [prompt : Prompt, reason : Prompt \cup {None}],
             blocked  : SUBSET Sample]
  <2> HIDE DEF pf
  <2> QED
    BY <1>1, <1>2, <1>3, <1>4, <1>5, Zenon
<1> QED
  BY <1>6, NoneAssumption

-----------------------------------------------------------------------------
\* A request of the plugin goes on.
LEMMA AskKeeps ==
    ASSUME FeedbackInv, NEW f \in Flows, AskForImage(f) \/ AskForUpload(f)
    PROVE  FeedbackInv'
<1>1. PICK config : Ask(f, config)
  BY DEF AskForImage, AskForUpload
<1>2. UNCHANGED <<settings, row, reply, seen, stored, window>>
  BY <1>1 DEF Ask, settled, server
<1> DEFINE v == [NoFlow EXCEPT !.stage = "waiting", !.config = config]
<1>3. v = [stage |-> "waiting", config |-> config, sent |-> None, got |-> None]
  <2> DEFINE t == [NoFlow EXCEPT !.stage = "waiting"]
  <2>1. t = [stage |-> "waiting", config |-> None, sent |-> None, got |-> None]
    BY DEF NoFlow
  <2> HIDE DEF t
  <2>2. [t EXCEPT !.config = config]
          = [stage |-> "waiting", config |-> config, sent |-> None, got |-> None]
    BY <2>1
  <2> QED
    BY <2>2 DEF t
<1>4. FlowKept(v, row'[f])
  <2>1. FlowKept(flow[f], row[f]) /\ flow[f].stage = "free" /\ row' = row
    BY <1>1, <1>2, FlowIs DEF Ask, FeedbackInv
  <2> HIDE DEF v
  <2> QED
    BY <1>3, <2>1 DEF FlowKept, FlowFields
<1>5. flow' = [flow EXCEPT ![f] = v]
  BY <1>1 DEF Ask
<1> HIDE DEF v
<1>6. FlowsKept'
  BY <1>2, <1>4, <1>5, OneFlow DEF FeedbackInv
<1> QED
  BY <1>2, <1>6, RowsUnmoved, WindowUnmoved, VotesUnmoved DEF FeedbackInv

LEMMA PrepareKeeps == ASSUME FeedbackInv, NEW f \in Flows, Prepare(f) PROVE FeedbackInv'
<1>1. UNCHANGED <<settings, row, reply, seen, stored, window>>
  BY DEF Prepare, settled, server
<1>2. /\ flow[f].stage = "waiting" /\ FlowKept(flow[f], row[f])
      /\ flow[f] = FlowFields(flow[f]) /\ flow = [g \in Flows |-> flow[g]]
  BY FlowIs DEF Prepare, FeedbackInv
<1>3. PICK context \in IF settings.guided THEN Contexts(promptFeedback) ELSE {None} :
        flow' = [flow EXCEPT
                   ![f].stage = "prepared",
                   ![f].sent = RequestOf(f, flow[f].config, settings.guided, context)]
  BY DEF Prepare
<1> DEFINE s == RequestOf(f, flow[f].config, settings.guided, context)
           v == WithSent(flow[f], "prepared", s)
<1>4. settings.guided \in BOOLEAN
  BY DEF FeedbackInv, FlowsKept
<1>5. settings.guided => context # None
  BY <1>3, ContextIsNotNone DEF FeedbackInv
<1>6. s.model = flow[f].config.model /\ s.count = flow[f].config.count
      /\ s.profile = flow[f].config.profile
      /\ s.guided = (s.context # None)
  BY <1>4, <1>5 DEF RequestOf
<1>7. flow' = [flow EXCEPT ![f] = v]
  BY <1>2, <1>3 DEF WithSent
<1> HIDE DEF s
<1>8. v = FlowFields(v) /\ v.stage = "prepared" /\ v.sent = s /\ v.config = flow[f].config
  BY <1>2, SentTakes
<1> HIDE DEF v
<1>9. FlowKept(v, row'[f])
  BY <1>1, <1>2, <1>6, <1>8 DEF FlowKept
<1>10. FlowsKept'
  BY <1>1, <1>7, <1>9, OneFlow DEF FeedbackInv
<1> QED
  BY <1>1, <1>10, RowsUnmoved, WindowUnmoved, VotesUnmoved DEF FeedbackInv

\* A flow that ends without a prompt.
LEMMA FailedIsKept ==
    ASSUME FlowsKept, NEW f \in Flows
    PROVE  FlowKept([flow[f] EXCEPT !.stage = "failed"], row[f])
<1> DEFINE v == [flow[f] EXCEPT !.stage = "failed"]
<1>1. v = FlowFields(v) /\ v.stage = "failed"
  BY FlowIs, StageTakes
<1> HIDE DEF v
<1>2. FlowKept(v, row[f])
  BY <1>1 DEF FlowKept
<1> QED
  BY <1>2 DEF v

LEMMA GiveUpKeeps == ASSUME FeedbackInv, NEW f \in Flows, GiveUp(f) PROVE FeedbackInv'
<1>1. UNCHANGED <<settings, row, reply, seen, stored, window>>
  BY DEF GiveUp, settled, server
<1> DEFINE v == [flow[f] EXCEPT !.stage = "failed"]
<1>2. flow' = [flow EXCEPT ![f] = v]
  BY FlowIs DEF GiveUp, FeedbackInv
<1>3. FlowKept(v, row'[f])
  BY <1>1, FailedIsKept DEF FeedbackInv
<1> HIDE DEF v
<1>4. FlowsKept'
  BY <1>1, <1>2, <1>3, OneFlow DEF FeedbackInv
<1> QED
  BY <1>1, <1>4, RowsUnmoved, WindowUnmoved, VotesUnmoved DEF FeedbackInv

LEMMA SendKeeps == ASSUME FeedbackInv, NEW f \in Flows, Send(f) PROVE FeedbackInv'
<1>1. UNCHANGED <<settings, reply, seen, stored, window>>
  BY DEF Send, settled
<1>2. /\ flow[f].stage = "prepared" /\ FlowKept(flow[f], row[f])
      /\ flow[f] = FlowFields(flow[f]) /\ flow = [g \in Flows |-> flow[g]]
  BY FlowIs DEF Send, FeedbackInv
<1> DEFINE v == [flow[f] EXCEPT !.stage = "sent"]
           r == MultipartBody(flow[f].sent)
<1>3. flow' = [flow EXCEPT ![f] = v] /\ row' = [row EXCEPT ![f] = r]
  BY <1>2 DEF Send
<1>4. IsJob(r) /\ r.requested = flow[f].sent.model /\ r.profile = flow[f].sent.profile
  BY DEF MultipartBody, IsJob, RowFields, Sampled
<1>5. v = FlowFields(v) /\ v.stage = "sent" /\ v.config = flow[f].config /\ v.sent = flow[f].sent
  BY <1>2, StageTakes
<1> HIDE DEF v, r
<1>6. row[f] = NoRow /\ ~Final(row[f]) /\ row[f].status # "completed"
  BY <1>2 DEF FlowKept, NoRow, Final
<1>7. reply' = [g \in Flows |-> reply'[g]]
  BY <1>1 DEF FeedbackInv, RowsKept
<1>8. RowsKept' /\ row'[f] = r /\ \A j \in Jobs \ {f} : row'[j] = row[j]
  BY <1>1, <1>3, <1>4, <1>6, <1>7, OneRow DEF FeedbackInv
<1>9. FlowKept(v, row'[f])
  BY <1>2, <1>4, <1>5, <1>8 DEF FlowKept, IsJob, NoRow
<1>10. FlowsKept'
  BY <1>1, <1>3, <1>8, <1>9, OneFlow, FlowsAreJobs DEF FeedbackInv
<1>11. WindowKept'
  BY <1>1, <1>4, <1>6, <1>8, JobIsARow, WindowUnmoved DEF FeedbackInv
<1> QED
  BY <1>1, <1>8, <1>10, <1>11, VotesUnmoved DEF FeedbackInv

\* What parseVisionPromptResponse accepts is what was asked for.
LEMMA ReceiveKeeps == ASSUME FeedbackInv, NEW f \in Flows, Receive(f) PROVE FeedbackInv'
<1>1. UNCHANGED <<settings, row, seen, stored, window>> /\ reply' = [reply EXCEPT ![f] = None]
  BY DEF Receive, settled
<1>2. /\ flow[f].stage = "sent" /\ FlowKept(flow[f], row[f])
      /\ flow[f] = FlowFields(flow[f]) /\ flow = [g \in Flows |-> flow[g]]
  BY FlowIs DEF Receive, FeedbackInv
<1>3. RowsKept'
  BY <1>1 DEF FeedbackInv, RowsKept
<1>4. CASE Accepts(flow[f].sent, reply[f])
  <2> DEFINE v == WithGot(flow[f], "done", reply[f])
  <2>1. flow' = [flow EXCEPT ![f] = v]
    BY <1>2, <1>4 DEF Receive, WithGot
  <2>2. /\ v = FlowFields(v) /\ v.stage = "done" /\ v.got = reply[f]
        /\ v.config = flow[f].config /\ v.sent = flow[f].sent
    BY <1>2, GotTakes
  <2> HIDE DEF v
  <2>3. FlowKept(v, row'[f])
    BY <1>1, <1>2, <1>4, <2>2 DEF FlowKept, Accepts
  <2>4. FlowsKept'
    BY <1>1, <2>1, <2>3, OneFlow DEF FeedbackInv
  <2> QED
    BY <1>1, <1>3, <2>4, WindowUnmoved, VotesUnmoved DEF FeedbackInv
<1>5. CASE ~Accepts(flow[f].sent, reply[f])
  <2> DEFINE v == [flow[f] EXCEPT !.stage = "failed"]
  <2>1. flow' = [flow EXCEPT ![f] = v]
    BY <1>2, <1>5 DEF Receive
  <2>2. FlowKept(v, row'[f])
    BY <1>1, FailedIsKept DEF FeedbackInv
  <2> HIDE DEF v
  <2>3. FlowsKept'
    BY <1>1, <2>1, <2>2, OneFlow DEF FeedbackInv
  <2> QED
    BY <1>1, <1>3, <2>3, WindowUnmoved, VotesUnmoved DEF FeedbackInv
<1> QED
  BY <1>4, <1>5

-----------------------------------------------------------------------------
\* The companion.
Ended(r, a, b) == [r EXCEPT !.status = a, !.signs = b]
Described(r, b, c, d, h, e, g) ==
    [r EXCEPT !.status = "completed", !.has_prompt = b, !.variants = c, !.model = d,
              !.recorded = h, !.sample = e, !.pose = g]

LEMMA RowEnds ==
    ASSUME NEW r, r = RowFields(r), NEW a, NEW b
    PROVE  LET s == Ended(r, a, b)
           IN  /\ s = RowFields(s) /\ s.status = a /\ s.has_prompt = r.has_prompt
               /\ s.variants = r.variants /\ s.model = r.model /\ s.sample = r.sample
               /\ s.requested = r.requested /\ s.profile = r.profile
<1> DEFINE t == [r EXCEPT !.status = a]
           s == [t EXCEPT !.signs = b]
<1>1. /\ t = RowFields(t) /\ t.status = a /\ t.has_prompt = r.has_prompt
      /\ t.variants = r.variants /\ t.model = r.model /\ t.sample = r.sample
      /\ t.requested = r.requested /\ t.profile = r.profile
  BY DEF RowFields
<1> HIDE DEF t
<1>2. /\ s = RowFields(s) /\ s.status = a /\ s.has_prompt = r.has_prompt
      /\ s.variants = r.variants /\ s.model = r.model /\ s.sample = r.sample
      /\ s.requested = r.requested /\ s.profile = r.profile
  BY <1>1 DEF RowFields
<1> QED
  BY <1>2 DEF t, Ended

LEMMA RowDescribed ==
    ASSUME NEW r, r = RowFields(r), NEW b, NEW c, NEW d, NEW h, NEW e,
           NEW g
    PROVE  LET s == Described(r, b, c, d, h, e, g)
           IN  /\ s = RowFields(s) /\ s.status = "completed" /\ s.has_prompt = b /\ s.variants = c
               /\ s.model = d /\ s.sample = e /\ s.requested = r.requested /\ s.profile = r.profile
<1> DEFINE t1 == [r EXCEPT !.status = "completed"]
           t2 == [t1 EXCEPT !.has_prompt = b]
           t3 == [t2 EXCEPT !.variants = c]
           t4 == [t3 EXCEPT !.model = d]
           t5 == [t4 EXCEPT !.recorded = h]
           t6 == [t5 EXCEPT !.sample = e]
           s  == [t6 EXCEPT !.pose = g]
<1>1. /\ t1 = RowFields(t1) /\ t1.status = "completed"
      /\ t1.requested = r.requested /\ t1.profile = r.profile
  BY DEF RowFields
<1> HIDE DEF t1
<1>2. /\ t2 = RowFields(t2) /\ t2.status = "completed"
      /\ t2.requested = r.requested /\ t2.profile = r.profile /\ t2.has_prompt = b
  BY <1>1 DEF RowFields
<1> HIDE DEF t2
<1>3. /\ t3 = RowFields(t3) /\ t3.status = "completed"
      /\ t3.requested = r.requested /\ t3.profile = r.profile
      /\ t3.has_prompt = b /\ t3.variants = c
  BY <1>2 DEF RowFields
<1> HIDE DEF t3
<1>4. /\ t4 = RowFields(t4) /\ t4.status = "completed"
      /\ t4.requested = r.requested /\ t4.profile = r.profile
      /\ t4.has_prompt = b /\ t4.variants = c /\ t4.model = d
  BY <1>3 DEF RowFields
<1> HIDE DEF t4
<1>5. /\ t5 = RowFields(t5) /\ t5.status = "completed"
      /\ t5.requested = r.requested /\ t5.profile = r.profile
      /\ t5.has_prompt = b /\ t5.variants = c /\ t5.model = d
  BY <1>4 DEF RowFields
<1> HIDE DEF t5
<1>6. /\ t6 = RowFields(t6) /\ t6.status = "completed"
      /\ t6.requested = r.requested /\ t6.profile = r.profile
      /\ t6.has_prompt = b /\ t6.variants = c /\ t6.model = d /\ t6.sample = e
  BY <1>5 DEF RowFields
<1> HIDE DEF t6
<1>7. /\ s = RowFields(s) /\ s.status = "completed"
      /\ s.requested = r.requested /\ s.profile = r.profile
      /\ s.has_prompt = b /\ s.variants = c /\ s.model = d /\ s.sample = e
  BY <1>6 DEF RowFields
<1> QED
  BY <1>7 DEF t1, t2, t3, t4, t5, t6, Described

\* The job of a request ends: nothing that was polled as completed changes, and
\* the model and the profile asked for stay.
LEMMA JobEnds ==
    ASSUME FeedbackInv, NEW f \in Flows, NEW r, row' = [row EXCEPT ![f] = r],
           row[f].status = "running", IsJob(r), r.requested = row[f].requested,
           r.profile = row[f].profile,
           reply' = [g \in Flows |-> reply'[g]],
           UNCHANGED <<settings, flow, seen, stored, window>>
    PROVE  FeedbackInv'
<1>1. RowsKept' /\ row'[f] = r /\ \A j \in Jobs \ {f} : row'[j] = row[j]
  BY OneRow DEF FeedbackInv, Final
<1>2. FlowKept(flow[f], row[f]) /\ row[f] # NoRow /\ r # NoRow
  BY FlowIs DEF FeedbackInv, NoRow, IsJob
<1>3. FlowKept(flow[f], row'[f])
  BY <1>1, <1>2 DEF FlowKept
<1>4. FlowsKept'
  <2>1. ASSUME NEW g \in Flows PROVE FlowKept(flow'[g], row'[g])
    <3>1. CASE g = f
      BY <1>3, <3>1
    <3>2. CASE g # f
      BY <1>1, <3>2, FlowIs, FlowsAreJobs DEF FeedbackInv
    <3> QED
      BY <3>1, <3>2
  <2> QED
    BY <2>1 DEF FeedbackInv, FlowsKept
<1>5. WindowKept'
  <2>1. ASSUME NEW j \in Jobs
        PROVE  /\ row[j].status = "completed" => row'[j] = row[j]
               /\ row[j] # NoRow => row'[j] # NoRow
    BY <1>1, <1>2
  <2> QED
    BY <2>1, WindowUnmoved DEF FeedbackInv
<1> QED
  BY <1>1, <1>4, <1>5, VotesUnmoved DEF FeedbackInv

LEMMA RunningIsJob ==
    ASSUME FeedbackInv, NEW f \in Flows, row[f].status = "running"
    PROVE  IsJob(row[f]) /\ row = [j \in Jobs |-> row[j]] /\ f \in Jobs
BY FlowsAreJobs DEF FeedbackInv, RowsKept, NoRow

LEMMA DescribeKeeps ==
    ASSUME FeedbackInv, NEW f \in Flows, NEW variants \in VariantLists,
           NEW sample \in Sample \cup {None}, NEW answer \in Answers, NEW ran \in Model,
           NEW recorded, NEW pose \in Poses,
           Describe(f, variants, sample, answer, ran, recorded, pose)
    PROVE  FeedbackInv'
<1> DEFINE r == Described(row[f], TRUE, variants, LabelOf(ran), recorded, sample, pose)
<1>1. row[f].status = "running" /\ UNCHANGED <<settings, flow, seen, stored, window>>
  BY DEF Describe, settled, asked
<1>2. IsJob(row[f]) /\ row = [j \in Jobs |-> row[j]] /\ f \in Jobs
  BY <1>1, RunningIsJob
<1>3. row' = [row EXCEPT ![f] = r]
  BY <1>2 DEF Describe, Described
<1>4. /\ r = RowFields(r) /\ r.status = "completed" /\ r.has_prompt
      /\ r.variants = variants /\ r.model = LabelOf(ran) /\ r.sample = sample
      /\ r.requested = row[f].requested /\ r.profile = row[f].profile
  <2>1. row[f] = RowFields(row[f])
    BY <1>2 DEF IsJob
  <2>2. PICK b : b = TRUE
    OBVIOUS
  <2>3. LET s == Described(row[f], b, variants, LabelOf(ran), recorded, sample, pose)
        IN  /\ s = RowFields(s) /\ s.status = "completed" /\ s.has_prompt = b
            /\ s.variants = variants /\ s.model = LabelOf(ran) /\ s.sample = sample
            /\ s.requested = row[f].requested /\ s.profile = row[f].profile
    BY <2>1, RowDescribed
  <2> QED
    BY <2>2, <2>3
<1> HIDE DEF r
<1>5. variants \in Seq(Prompt) /\ variants # <<>>
  BY FeedbackAssumption
<1>6. IsJob(r)
  BY <1>4, <1>5, NoneAssumption DEF IsJob, Sampled
<1>7. reply' = [g \in Flows |-> reply'[g]]
  BY DEF Describe, FeedbackInv, RowsKept
<1> QED
  BY <1>1, <1>3, <1>4, <1>6, <1>7, JobEnds

LEMMA RefuseKeeps ==
    ASSUME FeedbackInv, NEW f \in Flows, NEW failure \in Failures, Refuse(f, failure)
    PROVE  FeedbackInv'
<1> DEFINE r == Ended(row[f], failure.status, failure.signs)
<1>1. row[f].status = "running" /\ UNCHANGED <<settings, flow, seen, stored, window>>
  BY DEF Refuse, settled, asked
<1>2. IsJob(row[f]) /\ row = [j \in Jobs |-> row[j]] /\ f \in Jobs
  BY <1>1, RunningIsJob
<1>3. row' = [row EXCEPT ![f] = r]
  BY <1>2 DEF Refuse, Ended
<1>4. /\ r = RowFields(r) /\ r.status = failure.status /\ r.has_prompt = row[f].has_prompt
      /\ r.variants = row[f].variants /\ r.model = row[f].model /\ r.sample = row[f].sample
      /\ r.requested = row[f].requested /\ r.profile = row[f].profile
  BY <1>2, RowEnds DEF IsJob
<1> HIDE DEF r
<1>5. IsJob(r)
  BY <1>1, <1>2, <1>4, FeedbackAssumption DEF IsJob
<1>6. reply' = [g \in Flows |-> reply'[g]]
  BY DEF Refuse, FeedbackInv, RowsKept
<1> QED
  BY <1>1, <1>3, <1>4, <1>5, <1>6, JobEnds

-----------------------------------------------------------------------------
\* Settings.
SettingsIs == [profile : {"fast", "v2", "maximum"}, three : BOOLEAN, online : BOOLEAN,
               model : Local, guided : BOOLEAN]

LEMMA ChangeIsASetting ==
    ASSUME NEW s \in SettingsIs
    PROVE  Change(s) \subseteq SettingsIs
<1>1. \A p \in {"fast", "v2", "maximum"} : [s EXCEPT !.profile = p] \in SettingsIs
  BY DEF SettingsIs
<1>2. \A b \in BOOLEAN : [s EXCEPT !.three = b] \in SettingsIs
  BY DEF SettingsIs
<1>3. \A b \in BOOLEAN : [s EXCEPT !.online = b] \in SettingsIs
  BY DEF SettingsIs
<1>4. \A m \in Local : [s EXCEPT !.model = m] \in SettingsIs
  BY DEF SettingsIs
<1>5. \A b \in BOOLEAN : [s EXCEPT !.guided = b] \in SettingsIs
  BY DEF SettingsIs
<1>6. ASSUME NEW t \in Change(s) PROVE t \in SettingsIs
  <2>1. \/ \E p \in {"fast", "v2", "maximum"} : t = [s EXCEPT !.profile = p]
        \/ \E b \in BOOLEAN : t = [s EXCEPT !.three = b]
        \/ \E b \in BOOLEAN : t = [s EXCEPT !.online = b]
        \/ \E m \in Local : t = [s EXCEPT !.model = m]
        \/ \E b \in BOOLEAN : t = [s EXCEPT !.guided = b]
    BY Zenon DEF Change, GuidanceSwitched
  <2> QED
    BY <1>1, <1>2, <1>3, <1>4, <1>5, <2>1, Zenon
<1> QED
  BY <1>6

LEMMA SettingsKeeps == ASSUME FeedbackInv, Settings PROVE FeedbackInv'
<1>1. UNCHANGED <<row, flow, reply, seen, stored, window>>
  BY DEF Settings, ChangeSettings, RefreshModels, ModelsArrive, SelectModel, asked, server
<1>2. settings \in SettingsIs
  BY DEF FeedbackInv, FlowsKept, SettingsIs
<1>3. settings' \in SettingsIs
  BY <1>2, ChangeIsASetting
     DEF Settings, ChangeSettings, RefreshModels, ModelsArrive, SelectModel
<1>4. FlowsKept'
  BY <1>1, <1>3 DEF FeedbackInv, FlowsKept, SettingsIs
<1> QED
  BY <1>1, <1>4, RowsUnmoved, WindowUnmoved, VotesUnmoved DEF FeedbackInv

-----------------------------------------------------------------------------
\* Prompt History.
ViewKept(w) ==
    /\ w = ViewFields(w)
    /\ w.job \in Jobs /\ row[w.job] # NoRow
    /\ Chosen(w)
    /\ w.evidence.confirmed =>
         row[w.job].status = "completed" /\ w.evidence.label = row[w.job].model

QuestionKept(q) ==
    /\ q \in [about : Prompt, live : BOOLEAN, variants : Seq(Prompt) \ {<<>>},
              selected : Nat, sample : Sampled]
    /\ Chosen(q)

LEMMA WindowIs ==
    WindowKept <=>
      /\ view # NoView => ViewKept(view)
      /\ question # NoQuestion =>
           /\ QuestionKept(question)
           /\ question.live => view # NoView /\ question.variants = view.variants
BY DEF WindowKept, ViewKept, QuestionKept

\* The details of a job as it is.
LEMMA EvidenceHolds ==
    ASSUME NEW r, IsJob(r), HistoryModelEvidence(r).confirmed
    PROVE  Final(r) /\ HistoryModelEvidence(r).label = r.model
<1>1. CASE r.status = "completed" /\ r.has_prompt
  BY <1>1 DEF HistoryModelEvidence, IsJob, Final
<1>2. CASE ~(r.status = "completed" /\ r.has_prompt)
  BY <1>2 DEF HistoryModelEvidence
<1> QED
  BY <1>1, <1>2

LEMMA VisibleIsShown ==
    ASSUME NEW r, IsJob(r), r.has_prompt, NEW s
    PROVE  VisibleVariants(r, s) \in Seq(Prompt) /\ VisibleVariants(r, s) # <<>>
<1>1. r.variants \in Seq(Prompt) /\ r.variants # <<>>
  BY DEF IsJob
<1>2. SubSeq(r.variants, 1, 1) \in Seq(Prompt) /\ SubSeq(r.variants, 1, 1) # <<>>
  BY <1>1
<1> QED
  BY <1>1, <1>2 DEF VisibleVariants

LEMMA DetailsKept ==
    ASSUME NEW j \in Jobs, NEW r, IsJob(r), row[j] # NoRow, Final(r) => row[j] = r
    PROVE  ViewKept(Details(j, r))
<1> DEFINE d == Details(j, r)
           shown == IF r.has_prompt THEN VisibleVariants(r, settings) ELSE <<>>
           e == HistoryModelEvidence(r)
           x == Diagnosis(r)
           i == Issues(r)
<1>1. d = [job |-> j, selected |-> 1, variants |-> shown, sample |-> r.sample,
           evidence |-> e, diagnosis |-> x, issues |-> i]
  BY DEF Details
<1>2. shown \in Seq(Prompt)
  BY VisibleIsShown
<1>3. r.sample \in Sampled
  BY DEF IsJob
<1>4. e.confirmed => Final(r) /\ e.label = r.model
  BY EvidenceHolds
<1> HIDE DEF shown, e, x, i, d
<1>5. /\ d = ViewFields(d) /\ d.job = j /\ d.selected = 1 /\ d.variants = shown
      /\ d.sample = r.sample /\ d.evidence = e
  BY <1>1 DEF ViewFields
<1>6. Chosen(d)
  BY <1>2, <1>3, <1>5 DEF Chosen
<1>7. d.evidence.confirmed =>
        row[d.job].status = "completed" /\ d.evidence.label = row[d.job].model
  BY <1>4, <1>5 DEF Final
<1>8. ViewKept(d)
  BY <1>5, <1>6, <1>7 DEF ViewKept
<1> QED
  BY <1>8 DEF d

LEMMA QuestionDetaches ==
    ASSUME NEW q, q # NoQuestion => QuestionKept(q), Detached(q) # NoQuestion
    PROVE  QuestionKept(Detached(q)) /\ ~Detached(q).live
<1>1. q # NoQuestion /\ Detached(q) = [q EXCEPT !.live = FALSE]
  BY DEF Detached
<1> DEFINE d == [q EXCEPT !.live = FALSE]
<1>2. QuestionKept(q)
  BY <1>1
<1>3. /\ d \in [about : Prompt, live : BOOLEAN, variants : Seq(Prompt) \ {<<>>},
                selected : Nat, sample : Sampled]
      /\ ~d.live /\ d.variants = q.variants /\ d.sample = q.sample
      /\ d.selected = q.selected
  BY <1>2 DEF QuestionKept
<1> HIDE DEF d
<1>4. QuestionKept(d)
  BY <1>2, <1>3 DEF QuestionKept, Chosen
<1> QED
  BY <1>1, <1>3, <1>4 DEF d

\* Another tab: the question that follows the tabs goes along.
LEMMA SelectKeeps ==
    ASSUME WindowKept, NEW i, SelectVariant(i), UNCHANGED row
    PROVE  WindowKept'
<1>1. /\ view # NoView /\ i \in DOMAIN view.variants /\ view' = [view EXCEPT !.selected = i]
      /\ question' = IF question # NoQuestion /\ question.live
                     THEN [question EXCEPT !.selected = i] ELSE question
  BY DEF SelectVariant
<1>2. ViewKept(view) /\ (question # NoQuestion => QuestionKept(question))
      /\ (question # NoQuestion /\ question.live => question.variants = view.variants)
  BY <1>1, WindowIs
<1> DEFINE w == [view EXCEPT !.selected = i]
<1>3. /\ w = ViewFields(w) /\ w.selected = i /\ w.job = view.job /\ w.variants = view.variants
      /\ w.sample = view.sample /\ w.evidence = view.evidence
  BY <1>2 DEF ViewKept, ViewFields
<1>4. w # NoView
  <2>1. "selected" \in DOMAIN ViewFields(w)
    BY DEF ViewFields
  <2>2. "selected" \notin DOMAIN NoView
    BY DEF NoView
  <2> QED
    BY <1>3, <2>1, <2>2
<1> HIDE DEF w
<1>5. ViewKept(w)
  BY <1>1, <1>2, <1>3 DEF ViewKept, Chosen
<1>6. view' = w
  BY <1>1 DEF w
<1>7. ViewKept(view)'
  BY <1>5, <1>6 DEF ViewKept
<1>8. CASE question # NoQuestion /\ question.live
  <2> DEFINE q == [question EXCEPT !.selected = i]
  <2>1. QuestionKept(question) /\ question.variants = view.variants
    BY <1>2, <1>8
  <2>2. i \in Nat
    BY <1>1, <1>2 DEF ViewKept, Chosen
  <2>3. /\ q \in [about : Prompt, live : BOOLEAN, variants : Seq(Prompt) \ {<<>>},
                  selected : Nat, sample : Sampled]
        /\ q.variants = question.variants /\ q.selected = i /\ q.sample = question.sample
    BY <2>1, <2>2 DEF QuestionKept
  <2> HIDE DEF q
  <2>4. QuestionKept(q) /\ q.variants = w.variants
    BY <1>1, <1>3, <2>1, <2>3 DEF QuestionKept, Chosen
  <2>5. question' = q
    BY <1>1, <1>8 DEF q
  <2> QED
    BY <1>4, <1>6, <1>7, <2>4, <2>5 DEF WindowKept, ViewKept, QuestionKept
<1>9. CASE ~(question # NoQuestion /\ question.live)
  <2>1. question' = question
    BY <1>1, <1>9
  <2> QED
    BY <1>2, <1>7, <1>9, <2>1 DEF WindowKept, ViewKept, QuestionKept
<1> QED
  BY <1>8, <1>9

LEMMA HistoryKeeps == ASSUME FeedbackInv, History PROVE FeedbackInv'
<1>1. UNCHANGED <<row, flow, reply, settings, stored>>
  BY DEF History, Poll, Open, Close, SelectVariant, asked, server, settled
<1>2. FlowsKept' /\ VotesKept'
  BY <1>1, FlowsUnmoved, VotesUnmoved DEF FeedbackInv
<1>3. /\ view # NoView => ViewKept(view)
      /\ question # NoQuestion =>
           /\ QuestionKept(question)
           /\ question.live => view # NoView /\ question.variants = view.variants
  BY WindowIs DEF FeedbackInv
\* A new view, if any, is one that may be kept, and the question lets go of it.
<1>4. ASSUME NEW w, w # NoView => ViewKept(w), view' = w, question' = Detached(question)
      PROVE  WindowKept'
  <2>1. view' # NoView => ViewKept(view)'
    BY <1>1, <1>4 DEF ViewKept
  <2>2. question' # NoQuestion => QuestionKept(question') /\ ~question'.live
    BY <1>3, <1>4, QuestionDetaches
  <2>3. question' # NoQuestion => QuestionKept(question)'
    BY <2>2 DEF QuestionKept
  <2> QED
    BY <2>1, <2>2, <2>3 DEF WindowKept, ViewKept, QuestionKept
<1>5. CASE Poll
  <2>1. RowsKept'
    BY <1>1, <1>5 DEF Poll, FeedbackInv, RowsKept
  <2>2. CASE view # NoView /\ seen[view.job] # row[view.job]
    <3>1. view' = Details(view.job, row[view.job]) /\ question' = Detached(question)
      BY <1>5, <2>2 DEF Poll
    <3>2. view.job \in Jobs /\ row[view.job] # NoRow
      BY <1>3, <2>2 DEF ViewKept
    <3>3. IsJob(row[view.job])
      BY <3>2 DEF FeedbackInv, RowsKept
    <3>4. ViewKept(Details(view.job, row[view.job]))
      BY <3>2, <3>3, DetailsKept
    <3>5. WindowKept'
      BY <1>4, <3>1, <3>4
    <3> QED
      BY <1>2, <2>1, <3>5 DEF FeedbackInv
  <2>3. CASE ~(view # NoView /\ seen[view.job] # row[view.job])
    <3>1. UNCHANGED window
      BY <1>5, <2>3 DEF Poll
    <3>2. WindowKept'
      BY <1>1, <3>1, WindowUnmoved DEF FeedbackInv
    <3> QED
      BY <1>2, <2>1, <3>2 DEF FeedbackInv
  <2> QED
    BY <2>2, <2>3
<1>6. ASSUME NEW j \in Jobs, Open(j) PROVE FeedbackInv'
  <2>1. RowsKept'
    BY <1>1, <1>6, RowsUnmoved DEF Open, FeedbackInv
  <2>2. seen[j] # NoRow /\ view' = Details(j, seen[j]) /\ question' = Detached(question)
    BY <1>6 DEF Open
  <2>3. IsJob(seen[j]) /\ row[j] # NoRow /\ (Final(seen[j]) => row[j] = seen[j])
    BY <2>2 DEF FeedbackInv, RowsKept
  <2>4. ViewKept(Details(j, seen[j]))
    BY <2>3, DetailsKept
  <2>5. WindowKept'
    BY <1>4, <2>2, <2>4
  <2> QED
    BY <1>2, <2>1, <2>5 DEF FeedbackInv
<1>7. CASE Close
  <2>1. RowsKept'
    BY <1>1, <1>7, RowsUnmoved DEF Close, FeedbackInv
  <2>2. WindowKept'
    BY <1>4, <1>7 DEF Close
  <2> QED
    BY <1>2, <2>1, <2>2 DEF FeedbackInv
<1>8. ASSUME NEW i, SelectVariant(i) PROVE FeedbackInv'
  <2>1. RowsKept'
    BY <1>1, <1>8, RowsUnmoved DEF SelectVariant, FeedbackInv
  <2>2. WindowKept'
    BY <1>1, <1>3, <1>8, SelectKeeps DEF FeedbackInv
  <2> QED
    BY <1>2, <2>1, <2>2 DEF FeedbackInv
<1> QED
  BY <1>5, <1>6, <1>7, <1>8 DEF History

-----------------------------------------------------------------------------
\* Votes.
\* A vote as it is cast: what the store is trimmed from, and what the trim keeps.
Record(vote, reason, sample) ==
    [vote |-> vote, reason |-> reason, sample |-> sample, updated |-> votes + 1]
Untrimmed(prompt, r) ==
    [p \in DOMAIN promptFeedback \cup {prompt} |-> IF p = prompt THEN r ELSE promptFeedback[p]]
NewerIn(pf, p)  == {q \in DOMAIN pf : pf[q].updated > pf[p].updated}

\* A vote that is newer than one that stands stands too.
LEMMA NewerStand ==
    ASSUME VotesKept, NEW p \in Standing
    PROVE  Newer(p) \subseteq Standing
<1>1. ASSUME NEW q \in Newer(p) PROVE q \in Standing
  <2>1. q \in VotedOn /\ p \in VotedOn /\ last[q].at > last[p].at
    BY DEF Newer, Standing
  <2>2. \A x \in VotedOn : last[x].at \in Nat
    BY DEF VotesKept, VotedOn
  <2>3. Newer(q) \subseteq Newer(p)
    BY <2>1, <2>2 DEF Newer
  <2>4. IsFiniteSet(Newer(p))
    BY FS_Subset DEF VotesKept, Newer
  <2>5. Cardinality(Newer(q)) <= Cardinality(Newer(p)) /\ IsFiniteSet(Newer(q))
    BY <2>3, <2>4, FS_Subset
  <2>6. Cardinality(Newer(q)) \in Nat /\ Cardinality(Newer(p)) \in Nat
    BY <2>4, <2>5, FS_CardinalityType
  <2> QED
    BY <2>1, <2>5, <2>6, FeedbackAssumption DEF Standing
<1> QED
  BY <1>1

LEMMA SaveKeeps ==
    ASSUME VotesKept, NEW prompt \in Prompt, NEW vote \in {"liked", "disliked"},
           NEW reason \in Prompt \cup {None}, NEW sample \in Sampled,
           SavePromptFeedback(prompt, vote, reason, sample)
    PROVE  VotesKept'
<1> DEFINE n  == votes + 1
           r  == Record(vote, reason, sample)
           pf == Untrimmed(prompt, r)
           kept == {p \in DOMAIN pf :
                      Cardinality(NewerIn(pf, p)) < MAX_PROMPT_FEEDBACK_RECORDS}
<1>1. /\ votes' = n
      /\ last' = [last EXCEPT ![prompt] = [vote |-> vote, at |-> n]]
      /\ promptFeedback' = Retained(pf)
  BY DEF SavePromptFeedback, Record, Untrimmed
<1>2. Retained(pf) = [p \in kept |-> pf[p]]
  BY DEF Retained, NewerIn
<1>3. /\ votes \in Nat /\ n \in Nat /\ IsFiniteSet(VotedOn)
      /\ last \in [Prompt -> {None} \cup [vote : {"liked", "disliked"}, at : 1..votes]]
      /\ promptFeedback \in
           [Standing -> [vote : {"liked", "disliked"}, reason : Prompt \cup {None},
                         sample : Sampled, updated : Nat]]
      /\ \A p \in Standing : /\ promptFeedback[p].vote = last[p].vote
                             /\ promptFeedback[p].updated = last[p].at
  BY DEF VotesKept
<1>4. Standing \subseteq VotedOn /\ VotedOn \subseteq Prompt
  BY DEF Standing, VotedOn
<1>5. /\ r \in [vote : {"liked", "disliked"}, reason : Prompt \cup {None},
                sample : Sampled, updated : Nat]
      /\ r.vote = vote /\ r.updated = n
  BY <1>3 DEF Record
<1> HIDE DEF r
<1>6. /\ DOMAIN pf = Standing \cup {prompt} /\ pf[prompt] = r
      /\ \A p \in Standing \ {prompt} : pf[p] = promptFeedback[p]
  BY <1>3 DEF Untrimmed
<1> HIDE DEF pf
\* The vote just cast is the newest, and those before it are as they were.
<1>7. /\ last' \in [Prompt -> {None} \cup [vote : {"liked", "disliked"}, at : 1..n]]
      /\ last'[prompt] = [vote |-> vote, at |-> n]
      /\ \A p \in Prompt \ {prompt} : last'[p] = last[p]
  BY <1>1, <1>3
<1>8. last'[prompt] # None
  BY <1>3, <1>7, NoneAssumption
<1>9. VotedOn' = VotedOn \cup {prompt}
  BY <1>7, <1>8 DEF VotedOn
<1>10. IsFiniteSet(VotedOn')
  BY <1>3, <1>9, FS_AddElement
<1>11. \A p \in VotedOn : last[p].at \in Nat /\ last[p].at <= votes
  BY <1>3 DEF VotedOn
<1>12. last'[prompt].at = n /\ last'[prompt].vote = vote
  BY <1>7
<1>13. \A p \in VotedOn' : last'[p].at \in Nat /\ last'[p].at <= n
  BY <1>3, <1>4, <1>7, <1>9, <1>11, <1>12
<1>14. Newer(prompt)' = {}
  BY <1>3, <1>12, <1>13 DEF Newer
<1>15. ASSUME NEW p \in VotedOn \ {prompt} PROVE Newer(p)' = Newer(p) \cup {prompt}
  <2>1. last'[p] = last[p] /\ last'[prompt].at > last[p].at
    BY <1>3, <1>4, <1>7, <1>11, <1>12
  <2>2. ASSUME NEW q PROVE q \in Newer(p)' <=> q \in Newer(p) \cup {prompt}
    <3>1. CASE q = prompt
      BY <1>9, <2>1, <3>1 DEF Newer
    <3>2. CASE q # prompt
      BY <1>4, <1>7, <1>9, <2>1, <3>2 DEF Newer
    <3> QED
      BY <3>1, <3>2
  <2> QED
    BY <2>2
\* The trimmed records carry the times of the votes.
<1>16. \A p \in DOMAIN pf : pf[p].updated = last'[p].at /\ pf[p].vote = last'[p].vote
  BY <1>3, <1>4, <1>5, <1>6, <1>7, <1>12
<1>17. DOMAIN pf \subseteq VotedOn' /\ prompt \in DOMAIN pf
  BY <1>4, <1>6, <1>9
<1>18. NewerIn(pf, prompt) = {}
  BY <1>3, <1>12, <1>13, <1>16, <1>17 DEF NewerIn
<1>19. \A p \in VotedOn' : IsFiniteSet(Newer(p)') /\ Cardinality(Newer(p)') \in Nat
  <2>1. ASSUME NEW p \in VotedOn' PROVE Newer(p)' \subseteq VotedOn'
    BY DEF Newer
  <2> QED
    BY <1>10, <2>1, FS_Subset, FS_CardinalityType
<1>20. ASSUME NEW p \in Standing \ {prompt} PROVE NewerIn(pf, p) = Newer(p)'
  <2>1. Newer(p)' = Newer(p) \cup {prompt} /\ Newer(p) \subseteq Standing
    BY <1>4, <1>15, NewerStand
  <2>2. ASSUME NEW q PROVE q \in NewerIn(pf, p) <=> q \in Newer(p)'
    <3>1. q \in NewerIn(pf, p) <=> q \in DOMAIN pf /\ last'[q].at > last'[p].at
      BY <1>6, <1>16 DEF NewerIn
    <3>2. q \in Newer(p)' <=> q \in VotedOn' /\ last'[q].at > last'[p].at
      BY DEF Newer
    <3>3. q \in Newer(p)' => q \in DOMAIN pf
      BY <1>6, <2>1
    <3> QED
      BY <1>17, <3>1, <3>2, <3>3
  <2> QED
    BY <2>2
<1>21. Standing' \subseteq Standing \cup {prompt}
  <2>1. ASSUME NEW p \in Standing', p # prompt PROVE p \in Standing
    <3>1. p \in VotedOn /\ Cardinality(Newer(p)') < MAX_PROMPT_FEEDBACK_RECORDS
      BY <1>9, <2>1 DEF Standing
    <3>2. Newer(p) \subseteq Newer(p)' /\ IsFiniteSet(Newer(p)') /\ Cardinality(Newer(p)') \in Nat
      BY <1>9, <1>15, <1>19, <2>1, <3>1
    <3>3. Cardinality(Newer(p)) <= Cardinality(Newer(p)') /\ Cardinality(Newer(p)) \in Nat
      BY <3>2, FS_Subset, FS_CardinalityType
    <3> QED
      BY <3>1, <3>2, <3>3, FeedbackAssumption DEF Standing
  <2> QED
    BY <2>1
<1>22. kept = Standing'
  <2>1. ASSUME NEW p PROVE p \in kept <=> p \in Standing'
    <3>1. CASE p = prompt
      <4>1. Cardinality({}) < MAX_PROMPT_FEEDBACK_RECORDS
        BY FeedbackAssumption, FS_EmptySet
      <4>2. prompt \in kept
        BY <1>17, <1>18, <4>1
      <4>3. prompt \in Standing'
        BY <1>9, <1>14, <4>1 DEF Standing
      <4> QED
        BY <3>1, <4>2, <4>3
    <3>2. CASE p # prompt /\ p \in Standing
      <4>1. p \in DOMAIN pf /\ p \in VotedOn' /\ NewerIn(pf, p) = Newer(p)'
        BY <1>6, <1>17, <1>20, <3>2
      <4> QED
        BY <4>1 DEF Standing
    <3>3. CASE p # prompt /\ p \notin Standing
      BY <1>6, <1>21, <3>3
    <3> QED
      BY <3>1, <3>2, <3>3
  <2> QED
    BY <2>1
<1>23. promptFeedback' = [p \in Standing' |-> pf[p]]
  BY <1>1, <1>2, <1>22
<1> HIDE DEF kept
<1>24. \A p \in Standing' :
          pf[p] \in [vote : {"liked", "disliked"}, reason : Prompt \cup {None},
                     sample : Sampled, updated : Nat]
  BY <1>3, <1>5, <1>6, <1>21
<1>25. promptFeedback' \in
         [Standing' -> [vote : {"liked", "disliked"}, reason : Prompt \cup {None},
                        sample : Sampled, updated : Nat]]
  BY <1>23, <1>24
<1>26. \A p \in Standing' : /\ promptFeedback'[p].vote = last'[p].vote
                            /\ promptFeedback'[p].updated = last'[p].at
  BY <1>6, <1>16, <1>21, <1>23
<1> QED
  BY <1>1, <1>3, <1>7, <1>10, <1>25, <1>26 DEF VotesKept

\* A prompt shown is a prompt, and an answered or dismissed question is gone.
LEMMA ChosenIsAPrompt ==
    ASSUME NEW s, Chosen(s), s.variants # <<>>
    PROVE  s.variants[s.selected] \in Prompt
BY DEF Chosen

LEMMA NoQuestionIsKept ==
    ASSUME WindowKept, view' = view, question' = NoQuestion, UNCHANGED row
    PROVE  WindowKept'
BY DEF WindowKept

LEMMA VoteKeeps == ASSUME FeedbackInv, Vote PROVE FeedbackInv'
<1>1. UNCHANGED <<row, flow, reply, settings, seen>>
  BY DEF Vote, Like, Dislike, GiveReason, Dismiss, asked, server, settled
<1>2. FlowsKept' /\ RowsKept'
  BY <1>1, FlowsUnmoved, RowsUnmoved DEF FeedbackInv
<1>3. /\ view # NoView => Chosen(view)
      /\ question # NoQuestion =>
           /\ Chosen(question) /\ question.variants # <<>> /\ question.about \in Prompt
  BY DEF FeedbackInv, WindowKept
<1>4. CASE Like
  <2>1. /\ view.variants[view.selected] \in Prompt /\ view.sample \in Sampled
        /\ SavePromptFeedback(view.variants[view.selected], "liked", None, view.sample)
        /\ UNCHANGED window
    BY <1>3, <1>4, ChosenIsAPrompt DEF Like, Chosen
  <2>2. VotesKept'
    BY <2>1, SaveKeeps DEF FeedbackInv
  <2>3. WindowKept'
    BY <1>1, <2>1, WindowUnmoved DEF FeedbackInv
  <2> QED
    BY <1>2, <2>2, <2>3 DEF FeedbackInv
<1>5. CASE GiveReason
  <2>1. /\ question.variants[question.selected] \in Prompt /\ question.sample \in Sampled
        /\ question.about \in Prompt
        /\ SavePromptFeedback(question.variants[question.selected], "disliked",
                              question.about, question.sample)
        /\ question' = NoQuestion /\ view' = view
    BY <1>3, <1>5, ChosenIsAPrompt DEF GiveReason, Chosen
  <2>2. VotesKept'
    BY <2>1, SaveKeeps DEF FeedbackInv
  <2>3. WindowKept'
    BY <1>1, <2>1, NoQuestionIsKept DEF FeedbackInv
  <2> QED
    BY <1>2, <2>2, <2>3 DEF FeedbackInv
<1>6. CASE Dismiss
  <2>1. VotesKept'
    BY <1>6, VotesUnmoved DEF Dismiss, FeedbackInv
  <2>2. WindowKept'
    BY <1>1, <1>6, NoQuestionIsKept DEF Dismiss, FeedbackInv
  <2> QED
    BY <1>2, <2>1, <2>2 DEF FeedbackInv
<1>7. CASE Dislike
  <2>1. VotesKept'
    BY <1>7, VotesUnmoved DEF Dislike, FeedbackInv
  <2> DEFINE q == [about |-> view.variants[view.selected], live |-> TRUE,
                   variants |-> view.variants, selected |-> view.selected,
                   sample |-> view.sample]
  <2>2. view # NoView /\ view.variants # <<>> /\ view' = view /\ question' = q
    BY <1>7 DEF Dislike
  <2>3. Chosen(view) /\ view.variants[view.selected] \in Prompt
    BY <1>3, <2>2, ChosenIsAPrompt
  <2>4. view.selected \in Nat
    BY <2>2, <2>3 DEF Chosen
  <2>5. QuestionKept(q) /\ q.variants = view.variants
    BY <2>2, <2>3, <2>4 DEF QuestionKept, Chosen
  <2> HIDE DEF q
  <2>6. WindowKept'
    BY <1>1, <2>2, <2>5 DEF FeedbackInv, WindowKept, QuestionKept
  <2> QED
    BY <1>2, <2>1, <2>6 DEF FeedbackInv
<1> QED
  BY <1>4, <1>5, <1>6, <1>7 DEF Vote

-----------------------------------------------------------------------------
\* The life of the plugin.
LEMMA StopKeeps == ASSUME FeedbackInv, Stop PROVE FeedbackInv'
<1>1. /\ UNCHANGED <<row, reply, settings, seen, stored>>
      /\ view' = NoView /\ question' = NoQuestion
      /\ flow' = [f \in Flows |->
                    IF flow[f].stage \in {"waiting", "prepared", "sent"}
                    THEN [flow[f] EXCEPT !.stage = "failed"] ELSE flow[f]]
  BY DEF Stop, server
<1>2. RowsKept' /\ VotesKept'
  BY <1>1, RowsUnmoved, VotesUnmoved DEF FeedbackInv
<1>3. WindowKept'
  BY <1>1 DEF WindowKept
<1>4. ASSUME NEW f \in Flows PROVE FlowKept(flow'[f], row'[f])
  <2>1. flow'[f] = [flow[f] EXCEPT !.stage = "failed"] \/ flow'[f] = flow[f]
    BY <1>1
  <2>2. FlowKept([flow[f] EXCEPT !.stage = "failed"], row[f])
    BY FailedIsKept DEF FeedbackInv
  <2>3. FlowKept(flow[f], row[f])
    BY FlowIs DEF FeedbackInv
  <2> QED
    BY <1>1, <2>1, <2>2, <2>3
<1>5. FlowsKept'
  BY <1>1, <1>4 DEF FeedbackInv, FlowsKept
<1> QED
  BY <1>2, <1>3, <1>5 DEF FeedbackInv

\* A session begins without votes.
LEMMA NoVotesKept ==
    ASSUME votes' \in Nat, last' = [p \in Prompt |-> None], promptFeedback' = << >>
    PROVE  VotesKept'
<1>1. VotedOn' = {}
  BY DEF VotedOn
<1>2. Standing' = {}
  BY <1>1 DEF Standing
<1>3. promptFeedback' \in
         [Standing' -> [vote : {"liked", "disliked"}, reason : Prompt \cup {None},
                        sample : Sampled, updated : Nat]]
  BY <1>2
<1>4. IsFiniteSet({})
  BY FS_EmptySet
<1> QED
  BY <1>1, <1>2, <1>3, <1>4 DEF VotesKept

LEMMA StartKeeps == ASSUME FeedbackInv, Start PROVE FeedbackInv'
<1>1. /\ UNCHANGED <<row, reply, settings, flow, votes, window>>
      /\ seen' = [j \in Jobs |-> NoRow]
      /\ promptFeedback' = << >> /\ last' = [p \in Prompt |-> None]
  BY DEF Start, asked, server
<1>2. FlowsKept'
  BY <1>1, FlowsUnmoved DEF FeedbackInv
<1>3. RowsKept'
  BY <1>1 DEF FeedbackInv, RowsKept, Final, NoRow
<1>4. WindowKept'
  BY <1>1, WindowUnmoved DEF FeedbackInv
<1>5. VotesKept'
  BY <1>1, NoVotesKept DEF FeedbackInv, VotesKept
<1> QED
  BY <1>2, <1>3, <1>4, <1>5 DEF FeedbackInv

-----------------------------------------------------------------------------
\* An earlier job is a job.
LEMMA EarlierIsJob ==
    ASSUME NEW scene \in Scenes, scene.earlier # NoRow
    PROVE  IsJob(scene.earlier)
<1> DEFINE r == scene.earlier
<1>1. /\ r \in [status : {"completed", "error", "cancelled"},
                requested : Model \cup {Absent},
                model : Model \cup {Absent} \cup {LabelOf(m) : m \in Model},
                recorded : {Absent} \cup {LabelOf(m) : m \in Model},
                profile : {"fast", "v2", "maximum"}, has_prompt : BOOLEAN,
                variants : Seq(Prompt), votes : {None}, sample : Sample \cup {None},
                signs : SUBSET Signs, pose : Poses \cup {{}}]
      /\ r.has_prompt => r.variants # <<>> /\ r.model \in {LabelOf(m) : m \in Model}
  BY ScenesAssumption
<1> HIDE DEF r
<1>2. r = RowFields(r)
  BY <1>1 DEF RowFields
<1>3. r.has_prompt => r.model # Absent
  BY <1>1, NoneAssumption
<1>4. IsJob(r)
  BY <1>1, <1>2, <1>3 DEF IsJob, Sampled
<1> QED
  BY <1>4 DEF r

LEMMA NoFlowIsKept == FlowKept(NoFlow, NoRow)
<1>1. NoFlow = FlowFields(NoFlow) /\ NoFlow.stage = "free"
  BY DEF NoFlow, FlowFields
<1> QED
  BY <1>1 DEF FlowKept

LEMMA InitKept == ASSUME Init PROVE FeedbackInv
<1>1. /\ flow = [f \in Flows |-> NoFlow] /\ reply = [f \in Flows |-> None]
      /\ seen = [j \in Jobs |-> NoRow] /\ view = NoView /\ question = NoQuestion
      /\ promptFeedback = << >> /\ last = [p \in Prompt |-> None]
  BY DEF Init
<1>2. PICK scene \in Scenes :
        /\ settings = scene.settings /\ votes = scene.votes
        /\ row = [j \in Jobs |-> IF j = 0 THEN scene.earlier ELSE NoRow]
  BY DEF Init
<1>3. RowsKept
  <2>1. \A j \in Jobs : row[j] # NoRow => IsJob(row[j])
    BY <1>2, EarlierIsJob
  <2>2. \A j \in Jobs : seen[j] = NoRow /\ ~Final(seen[j])
    BY <1>1 DEF Final, NoRow
  <2> QED
    BY <1>1, <1>2, <2>1, <2>2 DEF RowsKept
<1>4. FlowsKept
  <2>1. ASSUME NEW f \in Flows PROVE flow[f] = NoFlow /\ row[f] = NoRow
    BY <1>1, <1>2, FeedbackAssumption, FlowsAreJobs DEF Flows
  <2>2. \A f \in Flows : FlowKept(flow[f], row[f])
    BY <2>1, NoFlowIsKept
  <2> QED
    BY <1>1, <1>2, <2>2, ScenesAssumption DEF FlowsKept
<1>5. WindowKept
  BY <1>1 DEF WindowKept
<1>6. VotesKept
  <2>1. VotedOn = {}
    BY <1>1 DEF VotedOn
  <2>2. Standing = {}
    BY <2>1 DEF Standing
  <2>3. promptFeedback \in
           [Standing -> [vote : {"liked", "disliked"}, reason : Prompt \cup {None},
                         sample : Sampled, updated : Nat]]
    BY <1>1, <2>2
  <2>4. IsFiniteSet({}) /\ votes \in Nat
    BY <1>2, ScenesAssumption, FS_EmptySet
  <2> QED
    BY <1>1, <2>1, <2>2, <2>3, <2>4 DEF VotesKept
<1> QED
  BY <1>3, <1>4, <1>5, <1>6 DEF FeedbackInv

LEMMA StandsStill == ASSUME FeedbackInv, UNCHANGED vars PROVE FeedbackInv'
<1>1. UNCHANGED <<settings, row, flow, reply, seen, stored, window>>
  BY DEF vars, settled, asked, server
<1> QED
  BY <1>1, RowsUnmoved, FlowsUnmoved, WindowUnmoved, VotesUnmoved DEF FeedbackInv

LEMMA NextKeeps == ASSUME FeedbackInv, [Next]_vars PROVE FeedbackInv'
<1>1. ASSUME NEW f \in Flows, Flow(f) PROVE FeedbackInv'
  BY <1>1, AskKeeps, PrepareKeeps, GiveUpKeeps, SendKeeps, ReceiveKeeps DEF Flow
<1>2. ASSUME NEW f \in Flows, Companion(f) PROVE FeedbackInv'
  BY <1>2, DescribeKeeps, RefuseKeeps DEF Companion
<1> QED
  BY <1>1, <1>2, HistoryKeeps, VoteKeeps, SettingsKeeps, StopKeeps, StartKeeps, StandsStill
     DEF Next

LEMMA FeedbackIsKept == Spec => []FeedbackInv
<1>1. Init => FeedbackInv
  BY InitKept
<1>2. FeedbackInv /\ [Next]_vars => FeedbackInv'
  BY NextKeeps
<1> QED
  BY <1>1, <1>2, PTL DEF Spec

\* Every answered request asked for the model and the profile chosen at its
\* click, and brought the number of prompts chosen then, guided by the very votes
\* drawn for it (requestVisionPrompt, parseVisionPromptResponse).
THEOREM RequestsGetWhatTheyAsked == Spec => []EachGetsWhatItAsked
<1>1. FeedbackInv => EachGetsWhatItAsked
  <2> SUFFICES ASSUME FeedbackInv, NEW f \in Flows, flow[f].stage = "done"
               PROVE  LET chosen == flow[f].config  got == flow[f].got  sent == flow[f].sent
                      IN  /\ Len(got.variants) = chosen.count
                          /\ sent.model = chosen.model /\ row[f].requested = chosen.model
                          /\ sent.profile = chosen.profile /\ row[f].profile = chosen.profile
                          /\ got.guided = (sent.context # None)
                          /\ got.guided => got.digest = sent.context
    BY DEF EachGetsWhatItAsked
  <2>1. FlowKept(flow[f], row[f])
    BY FlowIs DEF FeedbackInv
  <2> QED
    BY <2>1 DEF FlowKept, GuidanceConfirmed
<1> QED
  BY <1>1, FeedbackIsKept, PTL

\* The store holds the last vote on each of the prompts voted on most recently,
\* as many as it has room for, and nothing else (savePromptFeedback).
THEOREM VotesStand == Spec => []LastVoteStands
<1>1. FeedbackInv => LastVoteStands
  <2> SUFFICES ASSUME FeedbackInv, NEW p \in Prompt
               PROVE  LET newer == {q \in Prompt : last[q] # None /\ last[q].at > last[p].at}
                      IN  IF last[p] # None /\ Cardinality(newer) < MAX_PROMPT_FEEDBACK_RECORDS
                          THEN p \in DOMAIN promptFeedback
                               /\ promptFeedback[p].vote = last[p].vote
                          ELSE p \notin DOMAIN promptFeedback
    BY DEF LastVoteStands
  <2> DEFINE newer == {q \in Prompt : last[q] # None /\ last[q].at > last[p].at}
  <2>1. newer = Newer(p)
    BY DEF Newer, VotedOn
  <2>2. p \in Standing <=>
          last[p] # None /\ Cardinality(Newer(p)) < MAX_PROMPT_FEEDBACK_RECORDS
    BY DEF Standing, VotedOn
  <2>3. DOMAIN promptFeedback = Standing
        /\ \A q \in Standing : promptFeedback[q].vote = last[q].vote
    BY DEF FeedbackInv, VotesKept
  <2> QED
    BY <2>1, <2>2, <2>3
<1> QED
  BY <1>1, FeedbackIsKept, PTL

\* The model the details confirm is the one the companion ran, also when they
\* were rendered from rows that have been polled anew since
\* (historyModelEvidence).
THEOREM ConfirmedModelRan == Spec => []ConfirmedIsActual
<1>1. FeedbackInv => ConfirmedIsActual
  BY DEF FeedbackInv, WindowKept, ConfirmedIsActual
<1> QED
  BY <1>1, FeedbackIsKept, PTL

=============================================================================
