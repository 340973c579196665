------------------------- MODULE PluginImagesProof --------------------------
(***************************************************************************)
(* Theorems of the plugin's two ways with an image: PluginVision, which    *)
(* sends it to be described, and after it PromptMetadata, which searches   *)
(* it for a prompt it already carries.                                     *)
(*                                                                         *)
(* PluginVision, for any number of flows, images, attachments, starts and  *)
(* stops: no image leaves the plugin for a flow of an earlier generation,  *)
(* or while the plugin is stopped, the rows of the rail are the requests   *)
(* that wait, and what is posted is the image under the click.  The step   *)
(* that posts looks at neither the generation nor at running: it only      *)
(* fails if its signal is aborted.  The invariant says why that is enough: *)
(* whatever has a controller and is not aborted was started, or given its  *)
(* turn, since the plugin last started.                                    *)
(*                                                                         *)
(* PromptMetadata, for any message, file, limits and judgement of a graph: *)
(* the prompt taken from a file is the first usable one, of a file within  *)
(* all limits, and no YAML is credited to two pictures.  While a file is   *)
(* scanned without having met damage or a limit, the candidates are the    *)
(* legible chunks behind, in the order of the file, and the bytes counted  *)
(* are theirs.  Once it has, the file is one of which nothing may be       *)
(* taken, whatever is still to come.  While the candidates are judged,     *)
(* those left are legible chunks in the order of the file, and every       *)
(* usable one is still among them.                                         *)
(***************************************************************************)
EXTENDS PluginVision, PromptMetadata, FiniteSetTheorems, SequenceTheorems,
        WellFoundedInduction, TLAPS

\* The fields of a flow.
Fields(r) ==
    [kind |-> r.kind, img |-> r.img, att |-> r.att, chan |-> r.chan, gen |-> r.gen,
     pc |-> r.pc, aborted |-> r.aborted, bytes |-> r.bytes, sent |-> r.sent]

FlowsAreRecords == flow = [f \in Flows |-> Fields(flow[f])]

\* Whoever can still post belongs to the run of the plugin that goes on.
LiveIsCurrent ==
    \A f \in Flows : HasController(f) /\ ~flow[f].aborted => Current(f)

IInv == FlowsAreRecords /\ LiveIsCurrent

\* What the theorem says of one step.
PostsOnlyCurrent ==
    \A f \in Flows :
        flow[f].sent = None /\ flow'[f].sent # None => Current(f)

-----------------------------------------------------------------------------
\* A flow in which one field is replaced.
LEMMA PcTakes ==
    ASSUME NEW r, r = Fields(r), NEW x
    PROVE  LET s == [r EXCEPT !.pc = x]
           IN  /\ s = Fields(s) /\ s.pc = x /\ s.aborted = r.aborted
               /\ s.gen = r.gen /\ s.sent = r.sent
BY DEF Fields

LEMMA BytesTakes ==
    ASSUME NEW r, r = Fields(r), NEW x
    PROVE  LET s == [r EXCEPT !.bytes = x]
           IN  s = Fields(s) /\ s.aborted = r.aborted /\ s.gen = r.gen /\ s.sent = r.sent
BY DEF Fields

LEMMA SentTakes ==
    ASSUME NEW r, r = Fields(r), NEW x
    PROVE  LET s == [r EXCEPT !.sent = x]
           IN  s = Fields(s) /\ s.aborted = r.aborted /\ s.gen = r.gen
BY DEF Fields

LEMMA AbortedTakes ==
    ASSUME NEW r, r = Fields(r), NEW x
    PROVE  LET s == [r EXCEPT !.aborted = x]
           IN  /\ s = Fields(s) /\ s.aborted = x /\ s.gen = r.gen
               /\ s.sent = r.sent /\ s.pc = r.pc
BY DEF Fields

FieldNames ==
    {"kind", "img", "att", "chan", "gen", "pc", "aborted", "bytes", "sent"}

LEMMA AllFields ==
    ASSUME NEW r, r = [x \in FieldNames |-> r[x]]
    PROVE  r = Fields(r)
BY DEF Fields, FieldNames

LEMMA NoFlowDomain == DOMAIN NoFlow = FieldNames
BY DEF NoFlow, FieldNames

\* A step of one flow: what it becomes has the fields of a flow, and is live
\* only if it was, or is of the run that goes on.
LEMMA OneFlow ==
    ASSUME IInv, NEW f \in Flows, NEW r, flow' = [flow EXCEPT ![f] = r],
           UNCHANGED <<running, generation>>,
           r = Fields(r),
           /\ r.pc \in Active \cup {"inspect"} /\ ~r.aborted
              => \/ HasController(f) /\ ~flow[f].aborted /\ r.gen = flow[f].gen
                 \/ running /\ r.gen = generation,
           r.sent = flow[f].sent \/ r.sent = None \/ Current(f)
    PROVE  IInv' /\ PostsOnlyCurrent
<1>1. /\ flow'[f] = r
      /\ \A g \in Flows : g # f => flow'[g] = flow[g]
      /\ flow' = [g \in Flows |-> flow'[g]]
  BY DEF IInv, FlowsAreRecords
<1>2. \A g \in Flows : flow[g] = Fields(flow[g])
  BY DEF IInv, FlowsAreRecords
<1>3. FlowsAreRecords'
  BY <1>1, <1>2 DEF FlowsAreRecords
<1>4. LiveIsCurrent'
  BY <1>1 DEF IInv, LiveIsCurrent, HasController, Current
<1>5. PostsOnlyCurrent
  BY <1>1 DEF PostsOnlyCurrent
<1> QED
  BY <1>3, <1>4, <1>5 DEF IInv

\* A flow goes on to x, or ends.
LEMMA Advance ==
    ASSUME IInv, NEW f \in Flows, NEW x, flow' = [flow EXCEPT ![f].pc = x],
           UNCHANGED <<running, generation>>,
           x \in Active \cup {"inspect"} => HasController(f) \/ Current(f)
    PROVE  IInv' /\ PostsOnlyCurrent
<1> DEFINE r == [flow[f] EXCEPT !.pc = x]
<1>1. flow[f] = Fields(flow[f])
  BY DEF IInv, FlowsAreRecords
<1>2. /\ r = Fields(r) /\ r.pc = x /\ r.aborted = flow[f].aborted
      /\ r.gen = flow[f].gen /\ r.sent = flow[f].sent
  BY <1>1, PcTakes
<1>3. flow' = [flow EXCEPT ![f] = r]
  BY DEF IInv, FlowsAreRecords
<1> HIDE DEF r
<1> QED
  BY <1>2, <1>3, OneFlow DEF Current

\* Steps that leave the flows alone.
LEMMA Elsewhere ==
    ASSUME IInv, UNCHANGED <<flow, running, generation>>
    PROVE  IInv' /\ PostsOnlyCurrent
BY DEF IInv, FlowsAreRecords, LiveIsCurrent, HasController, Current, PostsOnlyCurrent

\* A new flow, of the run that goes on.
LEMMA Begins ==
    ASSUME IInv, running, UNCHANGED <<running, generation>>, NEW r,
           flow' = [flow EXCEPT ![NewFlow] = r], r = Fields(r),
           r.gen = generation, r.sent = None
    PROVE  IInv' /\ PostsOnlyCurrent
<1>1. CASE NewFlow \in Flows
  BY <1>1, OneFlow
<1>2. CASE NewFlow \notin Flows
  <2>1. flow' = flow
    BY <1>2 DEF IInv, FlowsAreRecords
  <2> QED
    BY <2>1, Elsewhere
<1> QED
  BY <1>1, <1>2

-----------------------------------------------------------------------------
LEMMA InitInv == Init => IInv
BY DEF Init, IInv, FlowsAreRecords, Fields, LiveIsCurrent, HasController, NoFlow, Active

LEMMA ClickKeeps ==
    ASSUME IInv, NEW i \in Images,
           ClickPlus(i) \/ ClickMagnifier(i) \/ ContextGetPrompt(i)
    PROVE  IInv' /\ PostsOnlyCurrent
<1>1. PICK kind :
        /\ running /\ UNCHANGED <<running, generation>>
        /\ flow' = [flow EXCEPT ![NewFlow] =
             [NoFlow EXCEPT !.kind = kind, !.img = i, !.att = shows[i],
                            !.chan = channel, !.gen = generation, !.pc = "inspect"]]
  BY DEF ClickPlus, ClickMagnifier, ContextGetPrompt, StartInspect
<1> DEFINE r == [NoFlow EXCEPT !.kind = kind, !.img = i, !.att = shows[i],
                               !.chan = channel, !.gen = generation, !.pc = "inspect"]
<1>2. r = Fields(r) /\ r.gen = generation /\ r.sent = None
  <2>1. r.gen = generation /\ r.sent = None
    BY DEF NoFlow
  <2>2. r = [x \in DOMAIN NoFlow |-> r[x]]
    OBVIOUS
  <2> HIDE DEF r
  <2> QED
    BY <2>1, <2>2, NoFlowDomain, AllFields
<1> HIDE DEF r
<1>3. flow' = [flow EXCEPT ![NewFlow] = r]
  BY <1>1 DEF r
<1> QED
  BY <1>1, <1>2, <1>3, Begins

LEMMA QueueUploadKeeps ==
    ASSUME IInv, QueueUpload
    PROVE  IInv' /\ PostsOnlyCurrent
<1> DEFINE r == [NoFlow EXCEPT !.kind = "upload", !.att = upload.selection,
                               !.gen = generation, !.pc = "queued",
                               !.bytes = upload.selection]
<1>1. running /\ UNCHANGED <<running, generation>> /\ flow' = [flow EXCEPT ![NewFlow] = r]
  BY DEF QueueUpload
<1>2. r = Fields(r) /\ r.gen = generation /\ r.sent = None
  <2>1. r.gen = generation /\ r.sent = None
    BY DEF NoFlow
  <2>2. r = [x \in DOMAIN NoFlow |-> r[x]]
    OBVIOUS
  <2> HIDE DEF r
  <2> QED
    BY <2>1, <2>2, NoFlowDomain, AllFields
<1> HIDE DEF r
<1> QED
  BY <1>1, <1>2, Begins

LEMMA FlowStepKeeps ==
    ASSUME IInv, NEW f \in Flows, FlowStep(f)
    PROVE  IInv' /\ PostsOnlyCurrent
<1>0. UNCHANGED <<running, generation>>
  BY DEF FlowStep, Inspected, InspectAborted, RunImage, RunUpload, Download, Consent,
         SetupIncomplete, Session, SessionRefused, Answer, Aborted
<1>1. CASE flow' = [flow EXCEPT ![f].pc = "done"]
  BY <1>0, <1>1, Advance DEF Active
<1>2. CASE flow' = [flow EXCEPT ![f].pc = "queued"]
  BY <1>0, <1>2, Advance DEF Active
<1>3. CASE RunImage(f) \/ RunUpload(f)
  <2>1. CASE \E row : Settle(f, row)
    BY <2>1, <1>1 DEF Settle
  <2>2. CASE Current(f) /\ \E x : flow' = [flow EXCEPT ![f].pc = x]
    BY <2>2, <1>0, Advance
  <2> QED
    BY <1>1, <1>3, <2>1, <2>2 DEF RunImage, RunUpload
<1>4. CASE Download(f)
  <2>1. PICK b : \/ \E row : Settle(f, row)
                 \/ flow' = [flow EXCEPT ![f].bytes = b, ![f].pc = "consent"]
    BY <1>4 DEF Download
  <2>2. CASE flow' = [flow EXCEPT ![f].bytes = b, ![f].pc = "consent"]
    <3> DEFINE r == [flow[f] EXCEPT !.bytes = b, !.pc = "consent"]
    <3>1. flow[f] = Fields(flow[f])
      BY DEF IInv, FlowsAreRecords
    <3>2. /\ r = Fields(r) /\ r.aborted = flow[f].aborted
          /\ r.gen = flow[f].gen /\ r.sent = flow[f].sent
      <4>1. PICK s : s = [flow[f] EXCEPT !.bytes = b]
        OBVIOUS
      <4>2. /\ s = Fields(s) /\ s.aborted = flow[f].aborted
            /\ s.gen = flow[f].gen /\ s.sent = flow[f].sent
        BY <3>1, <4>1, BytesTakes
      <4>3. r = [s EXCEPT !.pc = "consent"]
        BY <4>1
      <4> HIDE DEF r
      <4> QED
        BY <4>2, <4>3, PcTakes
    <3>3. flow' = [flow EXCEPT ![f] = r]
      BY <2>2 DEF IInv, FlowsAreRecords
    <3>4. HasController(f)
      BY <1>4 DEF Download, AtHead, HasController, Active
    <3> HIDE DEF r
    <3> QED
      BY <1>0, <3>2, <3>3, <3>4, OneFlow
  <2> QED
    BY <1>1, <2>1, <2>2 DEF Settle
<1>5. CASE Consent(f)
  <2>1. HasController(f) /\ flow' = [flow EXCEPT ![f].pc = "session"]
    BY <1>5 DEF Consent, AtHead, HasController, Active
  <2> QED
    BY <1>0, <2>1, Advance
<1>6. CASE Session(f)
  <2> DEFINE r == [flow[f] EXCEPT !.pc = "vision", !.sent = flow[f].bytes]
  <2>1. flow[f] = Fields(flow[f])
    BY DEF IInv, FlowsAreRecords
  <2>2. r = Fields(r) /\ r.aborted = flow[f].aborted /\ r.gen = flow[f].gen
    <3>1. PICK s : s = [flow[f] EXCEPT !.pc = "vision"]
      OBVIOUS
    <3>2. s = Fields(s) /\ s.aborted = flow[f].aborted /\ s.gen = flow[f].gen
      BY <2>1, <3>1, PcTakes
    <3>3. r = [s EXCEPT !.sent = flow[f].bytes]
      BY <3>1
    <3> HIDE DEF r
    <3> QED
      BY <3>2, <3>3, SentTakes
  <2>3. flow' = [flow EXCEPT ![f] = r]
    BY <1>6 DEF Session, IInv, FlowsAreRecords
  <2>4. HasController(f) /\ ~flow[f].aborted
    BY <1>6 DEF Session, AtHead, HasController, Active
  <2>5. Current(f)
    BY <2>4 DEF IInv, LiveIsCurrent
  <2> HIDE DEF r
  <2> QED
    BY <1>0, <2>2, <2>3, <2>4, <2>5, OneFlow
<1>7. CASE Inspected(f) \/ InspectAborted(f) \/ SetupIncomplete(f) \/ SessionRefused(f)
           \/ Answer(f) \/ Aborted(f)
  <2>1. \/ flow' = [flow EXCEPT ![f].pc = "done"]
        \/ flow' = [flow EXCEPT ![f].pc = "queued"]
    BY <1>7 DEF Inspected, InspectAborted, SetupIncomplete, SessionRefused, Answer,
                Aborted, Settle
  <2> QED
    BY <1>1, <1>2, <2>1
<1> QED
  BY <1>3, <1>4, <1>5, <1>6, <1>7 DEF FlowStep

\* stop() aborts whatever is live, so that nothing needs the new generation.
LEMMA StopKeeps ==
    ASSUME IInv, Stop
    PROVE  IInv' /\ PostsOnlyCurrent
<1>1. flow' = [f \in Flows |-> IF HasController(f)
                               THEN [flow[f] EXCEPT !.aborted = TRUE] ELSE flow[f]]
  BY DEF Stop
<1>2. \A f \in Flows : flow[f] = Fields(flow[f])
  BY DEF IInv, FlowsAreRecords
<1>3. ASSUME NEW f \in Flows
      PROVE  /\ flow'[f] = Fields(flow'[f])
             /\ flow'[f].sent = flow[f].sent
             /\ flow'[f].pc = flow[f].pc
             /\ HasController(f) => flow'[f].aborted
  <2>1. CASE HasController(f)
    <3>1. flow'[f] = [flow[f] EXCEPT !.aborted = TRUE]
      BY <1>1, <2>1
    <3> QED
      BY <1>2, <3>1, AbortedTakes
  <2>2. CASE ~HasController(f)
    BY <1>1, <1>2, <2>2
  <2> QED
    BY <2>1, <2>2
<1>4. FlowsAreRecords'
  <2>1. flow' = [f \in Flows |-> flow'[f]]
    BY <1>1
  <2> QED
    BY <2>1, <1>3 DEF FlowsAreRecords
<1>5. LiveIsCurrent'
  BY <1>3 DEF LiveIsCurrent, HasController
<1>6. PostsOnlyCurrent
  BY <1>3 DEF PostsOnlyCurrent
<1> QED
  BY <1>4, <1>5, <1>6 DEF IInv

LEMMA StartKeeps ==
    ASSUME IInv, Start
    PROVE  IInv' /\ PostsOnlyCurrent
BY DEF Start, IInv, FlowsAreRecords, LiveIsCurrent, HasController, Current, PostsOnlyCurrent

LEMMA NextInv == IInv /\ [Next]_vars => IInv' /\ PostsOnlyCurrent
<1> SUFFICES ASSUME IInv, [Next]_vars PROVE IInv' /\ PostsOnlyCurrent
  OBVIOUS
<1>1. ASSUME \/ Scan \/ RouteTick \/ Navigate \/ CloseModal
             \/ \E i \in Images : Rerender(i)
             \/ \E f \in Flows : CancelRow(f)
             \/ \E a \in Files : SelectFile(a)
             \/ FileRead \/ ClearSelection
             \/ UNCHANGED vars
      PROVE  UNCHANGED <<flow, running, generation>>
  BY <1>1 DEF Scan, RouteTick, Navigate, CloseModal, Rerender, CancelRow, SelectFile,
              FileRead, ClearSelection, vars
<1> QED
  BY <1>1, Elsewhere, ClickKeeps, QueueUploadKeeps, FlowStepKeeps, StartKeeps, StopKeeps
     DEF Next

LEMMA Inductive == Spec => []IInv
<1>1. IInv /\ [Next]_vars => IInv'
  BY NextInv
<1> QED
  BY <1>1, InitInv, PTL DEF Spec

-----------------------------------------------------------------------------
\* No image leaves the plugin after it was stopped, whatever its flow was
\* waiting for, and even if the plugin was started again meanwhile.
THEOREM NothingLeavesAfterStop == Spec => NothingAfterStop
<1>1. PostsOnlyCurrent =>
        \A f \in Flows :
          flow[f].sent = None /\ flow'[f].sent # None
            => running /\ flow[f].gen = generation
  BY DEF PostsOnlyCurrent, Current
<1>2. IInv /\ [Next]_vars =>
        [\A f \in Flows :
          flow[f].sent = None /\ flow'[f].sent # None
            => running /\ flow[f].gen = generation]_vars
  BY <1>1, NextInv
<1> QED
  BY Inductive, <1>2, PTL DEF Spec, NothingAfterStop

-----------------------------------------------------------------------------
(***************************************************************************)
(* The rows of the rail.  A request of this generation that waits has its  *)
(* row, since whatever ends it takes the row away; the one exception, the  *)
(* abort that leaves the row to stop(), only meets requests of an earlier  *)
(* generation.                                                             *)
(***************************************************************************)

Waiting == {"queued", "cancelled"}

Unfinished == Active \cup {"queued"}

Generations ==
    /\ generation \in Nat
    /\ \A f \in Flows : flow[f].gen \in Nat /\ flow[f].gen <= generation
    /\ \A f \in Flows : flow[f].aborted => flow[f].gen < generation

Rows ==
    /\ rows = [f \in Flows |-> rows[f]]
    /\ ~running => \A f \in Flows : rows[f] = "none"

RowsInv == Generations /\ Rows /\ RowsMatchQueue

LEMMA LessThan == OpToRel(<, Nat) = {ss \in Nat \X Nat : ss[1] < ss[2]}
  BY Zenon DEF OpToRel

\* The flow that a click takes is free.
LEMMA NewFlowIsFree ==
    ASSUME \E f \in Flows : flow[f].pc = "free"
    PROVE  NewFlow \in Flows /\ flow[NewFlow].pc = "free"
<1> DEFINE R == {ss \in Nat \X Nat : ss[1] < ss[2]}
           S == {f \in Flows : flow[f].pc = "free"}
<1>0. IsWellFoundedOn(R, Nat)
  BY NatLessThanWellFounded, LessThan
<1>1. S \subseteq Nat /\ S # {}
  BY DEF Flows
<1>2. PICK x \in S : \A y \in S : ~(<<y, x>> \in R)
  BY <1>0, <1>1, WFMin
<1>3. ASSUME NEW y \in S PROVE x <= y
  <2>1. <<y, x>> \in Nat \X Nat /\ <<y, x>> \notin R
    BY <1>1, <1>2
  <2>2. ~(y < x)
    BY <2>1
  <2> QED
    BY <1>1, <2>2
<1> QED
  BY <1>3 DEF NewFlow

\* A step of one flow and its row.
LEMMA OneRow ==
    ASSUME IInv, RowsInv, NEW f \in Flows, NEW r, NEW x,
           flow' = [flow EXCEPT ![f] = r], rows' = [rows EXCEPT ![f] = x],
           UNCHANGED <<running, generation>>,
           r.gen \in Nat, r.gen <= generation, r.aborted => r.gen < generation,
           ~running => x = "none",
           running => (x \in Waiting <=> r.gen = generation /\ r.pc \in Unfinished)
    PROVE  RowsInv'
<1>1. flow'[f] = r /\ \A g \in Flows : g # f => flow'[g] = flow[g]
  BY DEF IInv, FlowsAreRecords
<1>2. /\ rows'[f] = x /\ \A g \in Flows : g # f => rows'[g] = rows[g]
      /\ rows' = [g \in Flows |-> rows'[g]]
  BY DEF RowsInv, Rows
<1>3. Generations'
  BY <1>1 DEF RowsInv, Generations
<1>4. Rows'
  BY <1>2 DEF RowsInv, Rows
<1>5. RowsMatchQueue'
  BY <1>1, <1>2 DEF RowsInv, RowsMatchQueue, Waiting, Unfinished
<1> QED
  BY <1>3, <1>4, <1>5 DEF RowsInv

\* A flow goes on to p, and its row becomes x.
LEMMA RowMoves ==
    ASSUME IInv, RowsInv, NEW f \in Flows, NEW p, NEW x,
           flow' = [flow EXCEPT ![f].pc = p], rows' = [rows EXCEPT ![f] = x],
           UNCHANGED <<running, generation>>,
           ~running => x = "none",
           running => (x \in Waiting <=> flow[f].gen = generation /\ p \in Unfinished)
    PROVE  RowsInv'
<1> DEFINE r == [flow[f] EXCEPT !.pc = p]
<1>1. flow[f] = Fields(flow[f])
  BY DEF IInv, FlowsAreRecords
<1>2. r.pc = p /\ r.gen = flow[f].gen /\ r.aborted = flow[f].aborted
  BY <1>1, PcTakes
<1>3. flow' = [flow EXCEPT ![f] = r]
  BY DEF IInv, FlowsAreRecords
<1> HIDE DEF r
<1> QED
  BY <1>2, <1>3, OneRow DEF RowsInv, Generations

\* A flow ends, and its row, if it has one, becomes something that does not
\* wait.
LEMMA RowSettles ==
    ASSUME IInv, RowsInv, NEW f \in Flows, NEW row, Settle(f, row),
           row \notin Waiting, UNCHANGED <<running, generation>>
    PROVE  RowsInv'
<1> DEFINE x == IF rows[f] = "none" THEN "none" ELSE row
<1>1. flow' = [flow EXCEPT ![f].pc = "done"]
  BY DEF Settle
<1>2. rows' = [rows EXCEPT ![f] = x]
  BY DEF Settle, RowsInv, Rows
<1>3. x \notin Waiting /\ (~running => x = "none")
  BY DEF RowsInv, Rows, Waiting
<1>4. "done" \notin Unfinished
  BY DEF Unfinished, Active
<1> HIDE DEF x
<1> QED
  BY <1>1, <1>2, <1>3, <1>4, RowMoves

\* Steps that leave the flows and the rows alone.
LEMMA RowsElsewhere ==
    ASSUME IInv, RowsInv, UNCHANGED <<flow, rows, running, generation>>
    PROVE  RowsInv'
BY DEF RowsInv, Generations, Rows, RowsMatchQueue

\* A flow that goes on without its row.
LEMMA RowWaits ==
    ASSUME IInv, RowsInv, NEW f \in Flows, NEW r, flow' = [flow EXCEPT ![f] = r],
           UNCHANGED <<rows, running, generation>>,
           r.gen = flow[f].gen, r.aborted = flow[f].aborted,
           r.pc \in Unfinished <=> flow[f].pc \in Unfinished
    PROVE  RowsInv'
<1>1. rows' = [rows EXCEPT ![f] = rows[f]]
  BY DEF RowsInv, Rows
<1>2. ~running => rows[f] = "none"
  BY DEF RowsInv, Rows
<1>3. running => (rows[f] \in Waiting <=> r.gen = generation /\ r.pc \in Unfinished)
  BY DEF RowsInv, RowsMatchQueue, Waiting, Unfinished
<1>4. r.gen \in Nat /\ r.gen <= generation /\ (r.aborted => r.gen < generation)
  BY DEF RowsInv, Generations
<1> QED
  BY <1>1, <1>2, <1>3, <1>4, OneRow

LEMMA RowPasses ==
    ASSUME IInv, RowsInv, NEW f \in Flows, NEW p, flow' = [flow EXCEPT ![f].pc = p],
           UNCHANGED <<rows, running, generation>>,
           p \in Unfinished <=> flow[f].pc \in Unfinished
    PROVE  RowsInv'
<1> DEFINE r == [flow[f] EXCEPT !.pc = p]
<1>1. flow[f] = Fields(flow[f])
  BY DEF IInv, FlowsAreRecords
<1>2. r.pc = p /\ r.gen = flow[f].gen /\ r.aborted = flow[f].aborted
  BY <1>1, PcTakes
<1>3. flow' = [flow EXCEPT ![f] = r]
  BY DEF IInv, FlowsAreRecords
<1> HIDE DEF r
<1> QED
  BY <1>2, <1>3, RowWaits

\* A click takes a free flow, which has no row.
LEMMA ClickRows ==
    ASSUME IInv, RowsInv, NEW i \in Images,
           ClickPlus(i) \/ ClickMagnifier(i) \/ ContextGetPrompt(i)
    PROVE  RowsInv'
<1>1. PICK kind :
        /\ UNCHANGED <<rows, running, generation>>
        /\ \E f \in Flows : flow[f].pc = "free"
        /\ flow' = [flow EXCEPT ![NewFlow] =
             [NoFlow EXCEPT !.kind = kind, !.img = i, !.att = shows[i],
                            !.chan = channel, !.gen = generation, !.pc = "inspect"]]
  BY DEF ClickPlus, ClickMagnifier, ContextGetPrompt, StartInspect
<1> DEFINE r == [NoFlow EXCEPT !.kind = kind, !.img = i, !.att = shows[i],
                               !.chan = channel, !.gen = generation, !.pc = "inspect"]
<1>2. r.gen = generation /\ r.pc = "inspect" /\ r.aborted = FALSE
  BY DEF NoFlow
<1>3. NewFlow \in Flows /\ flow[NewFlow].pc = "free"
  BY <1>1, NewFlowIsFree
<1>4. rows' = [rows EXCEPT ![NewFlow] = rows[NewFlow]]
  BY <1>1 DEF RowsInv, Rows
<1>5. /\ ~running => rows[NewFlow] = "none"
      /\ running => rows[NewFlow] \notin Waiting
  BY <1>3 DEF RowsInv, Rows, RowsMatchQueue, Active, Waiting
<1>6. generation \in Nat /\ "inspect" \notin Unfinished
  BY DEF RowsInv, Generations, Unfinished, Active
<1> HIDE DEF r
<1>7. flow' = [flow EXCEPT ![NewFlow] = r]
  BY <1>1 DEF r
<1>8. r.gen \in Nat /\ r.gen <= generation /\ (r.aborted => r.gen < generation)
  BY <1>2, <1>6
<1>9. running => (rows[NewFlow] \in Waiting <=> r.gen = generation /\ r.pc \in Unfinished)
  BY <1>2, <1>5, <1>6
<1> QED
  BY <1>1, <1>3, <1>4, <1>5, <1>7, <1>8, <1>9, OneRow

LEMMA UploadRows == ASSUME IInv, RowsInv, QueueUpload PROVE RowsInv'
<1> DEFINE r == [NoFlow EXCEPT !.kind = "upload", !.att = upload.selection,
                               !.gen = generation, !.pc = "queued",
                               !.bytes = upload.selection]
<1>1. /\ running /\ UNCHANGED <<running, generation>>
      /\ \E f \in Flows : flow[f].pc = "free"
      /\ flow' = [flow EXCEPT ![NewFlow] = r]
      /\ rows' = [rows EXCEPT ![NewFlow] = "queued"]
  BY DEF QueueUpload, Enqueue
<1>2. r.gen = generation /\ r.pc = "queued" /\ r.aborted = FALSE
  BY DEF NoFlow
<1>3. NewFlow \in Flows
  BY <1>1, NewFlowIsFree
<1>4. generation \in Nat /\ "queued" \in Unfinished /\ "queued" \in Waiting
  BY DEF RowsInv, Generations, Unfinished, Waiting
<1> HIDE DEF r
<1>5. r.gen \in Nat /\ r.gen <= generation /\ (r.aborted => r.gen < generation)
  BY <1>2, <1>4
<1>6. running => ("queued" \in Waiting <=> r.gen = generation /\ r.pc \in Unfinished)
  BY <1>2, <1>4
<1> QED
  BY <1>1, <1>3, <1>5, <1>6, OneRow

LEMMA RowAfterErrorWaitsNot == \A f : RowAfterError(f) \notin Waiting
BY DEF RowAfterError, Waiting

LEMMA FlowRows == ASSUME IInv, RowsInv, NEW f \in Flows, FlowStep(f) PROVE RowsInv'
<1>0. UNCHANGED <<running, generation>>
  BY DEF FlowStep, Inspected, InspectAborted, RunImage, RunUpload, Download, Consent,
         SetupIncomplete, Session, SessionRefused, Answer, Aborted
<1>a. \A p : AtHead(f, p) => flow[f].pc = p
  BY DEF AtHead
<1>b. /\ {"queued", "download", "consent", "session", "vision"} \subseteq Unfinished
      /\ "done" \notin Unfinished /\ "inspect" \notin Unfinished
      /\ "none" \notin Waiting /\ "error" \notin Waiting /\ "queued" \in Waiting
  BY DEF Unfinished, Active, Waiting
<1>1. CASE Inspected(f)
  <2>1. flow[f].pc = "inspect" /\ ~flow[f].aborted
    BY <1>1 DEF Inspected
  <2>2. Current(f)
    BY <2>1 DEF IInv, LiveIsCurrent, HasController
  <2>3. CASE flow' = [flow EXCEPT ![f].pc = "queued"] /\ rows' = [rows EXCEPT ![f] = "queued"]
    BY <1>0, <1>b, <2>2, <2>3, RowMoves DEF Current
  <2>4. CASE flow' = [flow EXCEPT ![f].pc = "done"] /\ UNCHANGED rows
    BY <1>0, <1>b, <2>1, <2>4, RowPasses
  <2> QED
    BY <1>1, <2>3, <2>4 DEF Inspected, Enqueue
<1>2. CASE InspectAborted(f)
  BY <1>0, <1>b, <1>2, RowPasses DEF InspectAborted
<1>3. CASE RunImage(f)
  <2>1. CASE \E row \in {"none", "error"} : Settle(f, row)
    BY <1>0, <1>b, <2>1, RowSettles
  <2>2. CASE flow' = [flow EXCEPT ![f].pc = "download"] /\ UNCHANGED rows
    BY <1>0, <1>3, <1>a, <1>b, <2>2, RowPasses DEF RunImage
  <2> QED
    BY <1>3, <2>1, <2>2 DEF RunImage
<1>4. CASE RunUpload(f)
  <2>1. CASE flow' = [flow EXCEPT ![f].pc = "done"] /\ rows' = [rows EXCEPT ![f] = "none"]
    BY <1>0, <1>b, <2>1, RowMoves
  <2>2. CASE flow' = [flow EXCEPT ![f].pc = "consent"] /\ UNCHANGED rows
    BY <1>0, <1>4, <1>a, <1>b, <2>2, RowPasses DEF RunUpload
  <2> QED
    BY <1>4, <2>1, <2>2 DEF RunUpload
<1>5. CASE Download(f)
  <2>1. CASE \E row : row \notin Waiting /\ Settle(f, row)
    BY <1>0, <2>1, RowSettles
  <2>2. ASSUME NEW b, flow' = [flow EXCEPT ![f].bytes = b, ![f].pc = "consent"], UNCHANGED rows
        PROVE  RowsInv'
    <3> DEFINE s == [flow[f] EXCEPT !.bytes = b]
               r == [s EXCEPT !.pc = "consent"]
    <3>1. flow[f] = Fields(flow[f])
      BY DEF IInv, FlowsAreRecords
    <3>2. s = Fields(s) /\ s.aborted = flow[f].aborted /\ s.gen = flow[f].gen
      BY <3>1, BytesTakes
    <3> HIDE DEF s
    <3>3. r.pc = "consent" /\ r.aborted = s.aborted /\ r.gen = s.gen
      BY <3>2, PcTakes
    <3>4. flow' = [flow EXCEPT ![f] = r]
      BY <2>2 DEF IInv, FlowsAreRecords, s
    <3> HIDE DEF r
    <3>5. r.gen = flow[f].gen /\ r.aborted = flow[f].aborted
      BY <3>2, <3>3
    <3>6. r.pc \in Unfinished <=> flow[f].pc \in Unfinished
      BY <1>5, <1>a, <1>b, <3>3 DEF Download
    <3> QED
      BY <1>0, <2>2, <3>4, <3>5, <3>6, RowWaits
  <2> QED
    BY <1>5, <1>b, <2>1, <2>2, RowAfterErrorWaitsNot DEF Download
<1>6. CASE Consent(f)
  BY <1>0, <1>6, <1>a, <1>b, RowPasses DEF Consent
<1>7. CASE Session(f)
  <2> DEFINE s == [flow[f] EXCEPT !.pc = "vision"]
             r == [s EXCEPT !.sent = flow[f].bytes]
  <2>1. flow[f] = Fields(flow[f])
    BY DEF IInv, FlowsAreRecords
  <2>2. /\ s = Fields(s) /\ s.aborted = flow[f].aborted /\ s.gen = flow[f].gen
        /\ s.pc = "vision"
    BY <2>1, PcTakes
  <2> HIDE DEF s
  <2>3. r.aborted = s.aborted /\ r.gen = s.gen /\ r.pc = s.pc
    BY <2>2 DEF Fields
  <2>4. flow' = [flow EXCEPT ![f] = r]
    BY <1>7 DEF Session, IInv, FlowsAreRecords, s
  <2> HIDE DEF r
  <2>5. r.gen = flow[f].gen /\ r.aborted = flow[f].aborted
    BY <2>2, <2>3
  <2>6. r.pc \in Unfinished <=> flow[f].pc \in Unfinished
    BY <1>7, <1>a, <1>b, <2>2, <2>3 DEF Session
  <2>7. UNCHANGED rows
    BY <1>7 DEF Session
  <2> QED
    BY <1>0, <2>4, <2>5, <2>6, <2>7, RowWaits
<1>8. CASE SetupIncomplete(f) \/ SessionRefused(f) \/ Answer(f)
  <2>1. \E row : row \notin Waiting /\ Settle(f, row)
    BY <1>8, <1>b, RowAfterErrorWaitsNot DEF SetupIncomplete, SessionRefused, Answer
  <2> QED
    BY <1>0, <2>1, RowSettles
<1>9. CASE Aborted(f)
  <2>1. flow[f].aborted /\ Settle(f, rows[f])
    BY <1>9 DEF Aborted
  <2>2. flow[f].gen # generation
    BY <2>1 DEF RowsInv, Generations
  <2>3. rows[f] \notin Waiting
    BY <2>2 DEF RowsInv, Rows, RowsMatchQueue, Waiting
  <2> QED
    BY <1>0, <2>1, <2>3, RowSettles
<1> QED
  BY <1>1, <1>2, <1>3, <1>4, <1>5, <1>6, <1>7, <1>8, <1>9 DEF FlowStep

LEMMA CancelRows == ASSUME IInv, RowsInv, NEW f \in Flows, CancelRow(f) PROVE RowsInv'
<1>1. /\ rows[f] = "queued" /\ rows' = [rows EXCEPT ![f] = "cancelled"] /\ running
      /\ UNCHANGED <<flow, running, generation>>
  BY DEF CancelRow
<1>2. Generations'
  BY <1>1 DEF RowsInv, Generations
<1>3. Rows'
  BY <1>1 DEF RowsInv, Rows
<1>4. RowsMatchQueue'
  BY <1>1 DEF RowsInv, Rows, RowsMatchQueue
<1> QED
  BY <1>2, <1>3, <1>4 DEF RowsInv

LEMMA StopRows == ASSUME IInv, RowsInv, Stop PROVE RowsInv'
<1>1. /\ ~running' /\ generation' = generation + 1
      /\ rows' = [f \in Flows |-> "none"]
  BY DEF Stop
<1>2. ASSUME NEW f \in Flows PROVE flow'[f].gen = flow[f].gen
  <2>1. flow[f] = Fields(flow[f])
    BY DEF IInv, FlowsAreRecords
  <2>2. CASE flow'[f] = [flow[f] EXCEPT !.aborted = TRUE]
    BY <2>1, <2>2, AbortedTakes
  <2> QED
    BY <2>2 DEF Stop
<1>3. Generations'
  BY <1>1, <1>2 DEF RowsInv, Generations
<1>4. Rows' /\ RowsMatchQueue'
  BY <1>1 DEF Rows, RowsMatchQueue
<1> QED
  BY <1>3, <1>4 DEF RowsInv

LEMMA StartRows == ASSUME IInv, RowsInv, Start PROVE RowsInv'
<1>1. /\ ~running /\ generation' = generation + 1
      /\ UNCHANGED <<flow, rows>>
  BY DEF Start
<1>2. Generations'
  BY <1>1 DEF RowsInv, Generations
<1>3. \A f \in Flows : rows[f] = "none" /\ flow[f].gen # generation + 1
  BY <1>1 DEF RowsInv, Rows, Generations
<1>4. Rows' /\ RowsMatchQueue'
  BY <1>1, <1>3 DEF RowsInv, Rows, RowsMatchQueue
<1> QED
  BY <1>2, <1>4 DEF RowsInv

LEMMA InitRows == Init => RowsInv
<1> SUFFICES ASSUME Init PROVE RowsInv
  OBVIOUS
<1>1. \A f \in Flows : flow[f].gen = 0 /\ flow[f].aborted = FALSE
  BY DEF Init, NoFlow
<1> QED
  BY <1>1 DEF Init, RowsInv, Generations, Rows, RowsMatchQueue

LEMMA NextRows == IInv /\ RowsInv /\ [Next]_vars => RowsInv'
<1> SUFFICES ASSUME IInv, RowsInv, [Next]_vars PROVE RowsInv'
  OBVIOUS
<1>1. ASSUME \/ Scan \/ RouteTick \/ Navigate \/ CloseModal
             \/ \E i \in Images : Rerender(i)
             \/ \E a \in Files : SelectFile(a)
             \/ FileRead \/ ClearSelection
             \/ UNCHANGED vars
      PROVE  UNCHANGED <<flow, rows, running, generation>>
  BY <1>1 DEF Scan, RouteTick, Navigate, CloseModal, Rerender, SelectFile, FileRead,
              ClearSelection, vars
<1> QED
  BY <1>1, RowsElsewhere, ClickRows, UploadRows, FlowRows, CancelRows, StartRows, StopRows
     DEF Next

\* While the plugin runs, the waiting rows of the rail are exactly the requests
\* of this run of it that wait or are under way.
THEOREM RowsAreTheWaiting == Spec => []RowsMatchQueue
<1>1. RowsInv => RowsMatchQueue
  BY DEF RowsInv
<1> QED
  BY <1>1, InitRows, NextRows, Inductive, PTL DEF Spec

-----------------------------------------------------------------------------
(***************************************************************************)
(* The images.  Bytes are kept under the name of the attachment they are   *)
(* of, so that whatever a flow reads is what was under the click.          *)
(***************************************************************************)

Original == {[key |-> a, bytes |-> a] : a \in Attachments}

\* What a flow has read and posted is the image of its click.
Reads(r) ==
    /\ r.bytes # None => r.bytes = r.att
    /\ r.sent # None => r.sent = r.att

ImageInv == cache \in Seq(Original) /\ \A f \in Flows : Reads(flow[f])

LEMMA WithoutOne ==
    ASSUME NEW s \in Seq(Original), NEW k \in 1..Len(s)
    PROVE  RemoveAt(s, k) \in Seq(Original)
<1> DEFINE a == SubSeq(s, 1, k - 1)
           b == SubSeq(s, k + 1, Len(s))
<1>1. Len(s) \in Nat /\ k \in Nat /\ k >= 1 /\ k <= Len(s)
  BY LenProperties
<1>2. \A i \in 1..Len(s) : s[i] \in Original
  BY ElementOfSeq
<1>3. \A i \in 1..(k - 1) : s[i] \in Original
  BY <1>1, <1>2
<1>4. \A i \in (k + 1)..Len(s) : s[i] \in Original
  BY <1>1, <1>2
<1>5. 1 \in Int /\ k - 1 \in Int /\ k + 1 \in Int /\ Len(s) \in Int
  BY <1>1
<1>6. a \in Seq(Original)
  BY <1>3, <1>5, SubSeqProperties
<1>7. b \in Seq(Original)
  BY <1>4, <1>5, SubSeqProperties
<1> HIDE DEF a, b
<1>8. a \o b \in Seq(Original)
  BY <1>6, <1>7, ConcatProperties
<1> QED
  BY <1>8 DEF RemoveAt, a, b

\* The cache goes on to keep bytes under their own name.
LEMMA CachedKeeps ==
    ASSUME cache \in Seq(Original), NEW a \in Attachments
    PROVE  Cached(a, a) \in Seq(Original)
<1> DEFINE old  == {n \in DOMAIN cache : cache[n].key = a}
           k    == CHOOSE n \in old : TRUE
           rest == IF old = {} THEN cache ELSE RemoveAt(cache, k)
           e    == [key |-> a, bytes |-> a]
           kept == Append(rest, e)
<1>1. old # {} => k \in 1..Len(cache)
  <2>1. DOMAIN cache = 1..Len(cache)
    BY LenProperties
  <2>2. old \subseteq 1..Len(cache)
    BY <2>1
  <2>3. old # {} => k \in old
    OBVIOUS
  <2> QED
    BY <2>2, <2>3
<1> HIDE DEF old, k
<1>2. rest \in Seq(Original)
  BY <1>1, WithoutOne
<1>3. e \in Original
  BY DEF Original
<1>a. Cached(a, a) = IF Len(kept) > CacheSize THEN Tail(kept) ELSE kept
  BY DEF Cached, old, k
<1> HIDE DEF rest, e
<1>4. kept \in Seq(Original) /\ kept # <<>>
  BY <1>2, <1>3, AppendProperties
<1> HIDE DEF kept
<1>5. Tail(kept) \in Seq(Original)
  BY <1>4, HeadTailProperties
<1> QED
  BY <1>a, <1>4, <1>5

\* What is read for an attachment is its own image, from the cache or not.
LEMMA ReadsItsOwn ==
    ASSUME cache \in Seq(Original), NEW a, NEW b \in Originals(a), b # None
    PROVE  b = a /\ a \in Attachments
<1>1. CASE CachedBytes(a) # {}
  <2>1. b \in CachedBytes(a)
    BY <1>1 DEF Originals
  <2>2. PICK m \in 1..Len(cache) : cache[m].key = a /\ cache[m].bytes = b
    BY <2>1 DEF CachedBytes
  <2>3. cache[m] \in Original
    BY <2>2, ElementOfSeq
  <2> QED
    BY <2>2, <2>3 DEF Original
<1>2. CASE CachedBytes(a) = {}
  BY <1>2 DEF Originals, DownloadKept
<1> QED
  BY <1>1, <1>2

-----------------------------------------------------------------------------
\* A step of one flow.
LEMMA OneReads ==
    ASSUME IInv, ImageInv, NEW f, NEW r, flow' = [flow EXCEPT ![f] = r], Reads(r)
    PROVE  \A g \in Flows : Reads(flow'[g])
<1>1. \A g \in Flows : flow'[g] = r \/ flow'[g] = flow[g]
  BY DEF IInv, FlowsAreRecords
<1> QED
  BY <1>1 DEF ImageInv

\* What a flow has read stays, whatever it goes on to.
LEMMA PcReads ==
    ASSUME IInv, ImageInv, NEW f \in Flows, NEW x, flow' = [flow EXCEPT ![f].pc = x]
    PROVE  \A g \in Flows : Reads(flow'[g])
<1> DEFINE r == [flow[f] EXCEPT !.pc = x]
<1>1. flow[f] = Fields(flow[f])
  BY DEF IInv, FlowsAreRecords
<1>2. r.att = flow[f].att /\ r.bytes = flow[f].bytes /\ r.sent = flow[f].sent
  BY <1>1 DEF Fields
<1>3. flow' = [flow EXCEPT ![f] = r]
  BY DEF IInv, FlowsAreRecords
<1> HIDE DEF r
<1>4. Reads(r)
  BY <1>2 DEF ImageInv, Reads
<1> QED
  BY <1>3, <1>4, OneReads

LEMMA BeginsReading ==
    ASSUME IInv, ImageInv,
           \/ \E i \in Images : ClickPlus(i) \/ ClickMagnifier(i) \/ ContextGetPrompt(i)
           \/ QueueUpload
    PROVE  \A g \in Flows : Reads(flow'[g])
<1>1. CASE \E i \in Images : ClickPlus(i) \/ ClickMagnifier(i) \/ ContextGetPrompt(i)
  <2>1. PICK i, kind :
          flow' = [flow EXCEPT ![NewFlow] =
             [NoFlow EXCEPT !.kind = kind, !.img = i, !.att = shows[i],
                            !.chan = channel, !.gen = generation, !.pc = "inspect"]]
    BY <1>1 DEF ClickPlus, ClickMagnifier, ContextGetPrompt, StartInspect
  <2> DEFINE r == [NoFlow EXCEPT !.kind = kind, !.img = i, !.att = shows[i],
                                 !.chan = channel, !.gen = generation, !.pc = "inspect"]
  <2>2. r.bytes = None /\ r.sent = None
    BY DEF NoFlow
  <2>3. flow' = [flow EXCEPT ![NewFlow] = r]
    BY <2>1
  <2> HIDE DEF r
  <2> QED
    BY <2>2, <2>3, OneReads DEF Reads
<1>2. CASE QueueUpload
  <2> DEFINE r == [NoFlow EXCEPT !.kind = "upload", !.att = upload.selection,
                                 !.gen = generation, !.pc = "queued",
                                 !.bytes = upload.selection]
  <2>1. flow' = [flow EXCEPT ![NewFlow] = r]
    BY <1>2 DEF QueueUpload
  <2>2. r.bytes = r.att /\ r.sent = None
    BY DEF NoFlow
  <2> HIDE DEF r
  <2> QED
    BY <2>1, <2>2, OneReads DEF Reads
<1> QED
  BY <1>1, <1>2

LEMMA FlowReads ==
    ASSUME IInv, ImageInv, NEW f \in Flows, FlowStep(f)
    PROVE  ImageInv'
<1>0. cache \in Seq(Original) /\ flow[f] = Fields(flow[f])
  BY DEF ImageInv, IInv, FlowsAreRecords
<1>1. CASE Inspected(f)
  <2>1. PICK b \in Originals(flow[f].att) :
          /\ cache' = cache \/ (b # None /\ cache' = Cached(flow[f].att, b))
          /\ \E x : flow' = [flow EXCEPT ![f].pc = x]
    BY <1>1 DEF Inspected
  <2>2. cache' \in Seq(Original)
    BY <1>0, <2>1, ReadsItsOwn, CachedKeeps
  <2>3. \A g \in Flows : Reads(flow'[g])
    BY <2>1, PcReads
  <2> QED
    BY <2>2, <2>3 DEF ImageInv
<1>2. CASE Download(f)
  <2>1. PICK b \in Originals(flow[f].att) :
          \/ cache' = cache /\ \E x : flow' = [flow EXCEPT ![f].pc = x]
          \/ /\ b # None /\ cache' = Cached(flow[f].att, b)
             /\ \/ flow' = [flow EXCEPT ![f].bytes = b, ![f].pc = "consent"]
                \/ \E x : flow' = [flow EXCEPT ![f].pc = x]
    BY <1>2 DEF Download, Settle
  <2>2. cache' \in Seq(Original)
    BY <1>0, <2>1, ReadsItsOwn, CachedKeeps
  <2>3. CASE \E x : flow' = [flow EXCEPT ![f].pc = x]
    BY <2>2, <2>3, PcReads DEF ImageInv
  <2>4. CASE b # None /\ flow' = [flow EXCEPT ![f].bytes = b, ![f].pc = "consent"]
    <3> DEFINE r == [flow[f] EXCEPT !.bytes = b, !.pc = "consent"]
    <3>1. r.bytes = b /\ r.att = flow[f].att /\ r.sent = flow[f].sent
      BY <1>0 DEF Fields
    <3>2. flow' = [flow EXCEPT ![f] = r]
      BY <2>4 DEF IInv, FlowsAreRecords
    <3>3. b = flow[f].att
      BY <1>0, <2>4, ReadsItsOwn
    <3> HIDE DEF r
    <3>4. Reads(r)
      BY <3>1, <3>3 DEF ImageInv, Reads
    <3> QED
      BY <2>2, <3>2, <3>4, OneReads DEF ImageInv
  <2> QED
    BY <2>1, <2>3, <2>4
<1>3. CASE Session(f)
  <2> DEFINE r == [flow[f] EXCEPT !.pc = "vision", !.sent = flow[f].bytes]
  <2>1. r.sent = flow[f].bytes /\ r.bytes = flow[f].bytes /\ r.att = flow[f].att
    BY <1>0 DEF Fields
  <2>2. flow' = [flow EXCEPT ![f] = r] /\ cache' = cache
    BY <1>3 DEF Session, IInv, FlowsAreRecords
  <2> HIDE DEF r
  <2>3. Reads(r)
    BY <2>1 DEF ImageInv, Reads
  <2> QED
    BY <1>0, <2>2, <2>3, OneReads DEF ImageInv
<1>4. CASE InspectAborted(f) \/ RunImage(f) \/ RunUpload(f) \/ Consent(f) \/ SetupIncomplete(f)
           \/ SessionRefused(f) \/ Answer(f) \/ Aborted(f)
  <2>1. cache' = cache /\ \E x : flow' = [flow EXCEPT ![f].pc = x]
    BY <1>4 DEF InspectAborted, RunImage, RunUpload, Consent, SetupIncomplete, SessionRefused,
                Answer, Aborted, Settle
  <2> QED
    BY <1>0, <2>1, PcReads DEF ImageInv
<1> QED
  BY <1>1, <1>2, <1>3, <1>4 DEF FlowStep

LEMMA StopReads == ASSUME IInv, ImageInv, Stop PROVE ImageInv'
<1>1. /\ cache' = <<>>
      /\ flow' = [f \in Flows |-> IF HasController(f)
                                  THEN [flow[f] EXCEPT !.aborted = TRUE] ELSE flow[f]]
  BY DEF Stop
<1>2. ASSUME NEW f \in Flows PROVE Reads(flow'[f])
  <2> DEFINE r == [flow[f] EXCEPT !.aborted = TRUE]
  <2>1. flow[f] = Fields(flow[f])
    BY DEF IInv, FlowsAreRecords
  <2>2. r.att = flow[f].att /\ r.bytes = flow[f].bytes /\ r.sent = flow[f].sent
    BY <2>1 DEF Fields
  <2>3. flow'[f] = r \/ flow'[f] = flow[f]
    BY <1>1
  <2> HIDE DEF r
  <2> QED
    BY <2>2, <2>3 DEF ImageInv, Reads
<1>3. cache' \in Seq(Original)
  BY <1>1
<1> QED
  BY <1>2, <1>3 DEF ImageInv

LEMMA NextReads == IInv /\ ImageInv /\ [Next]_vars => ImageInv'
<1> SUFFICES ASSUME IInv, ImageInv, [Next]_vars PROVE ImageInv'
  OBVIOUS
<1>1. CASE UNCHANGED <<flow, cache>>
  BY <1>1 DEF ImageInv
<1>2. CASE \/ \E i \in Images : ClickPlus(i) \/ ClickMagnifier(i) \/ ContextGetPrompt(i)
           \/ QueueUpload
  <2>1. cache' = cache
    BY <1>2 DEF ClickPlus, ClickMagnifier, ContextGetPrompt, StartInspect, QueueUpload
  <2> QED
    BY <1>2, <2>1, BeginsReading DEF ImageInv
<1>3. ASSUME \/ Scan \/ RouteTick \/ Navigate \/ CloseModal \/ Start
             \/ \E i \in Images : Rerender(i)
             \/ \E f \in Flows : CancelRow(f)
             \/ \E a \in Files : SelectFile(a)
             \/ FileRead \/ ClearSelection
             \/ UNCHANGED vars
      PROVE  UNCHANGED <<flow, cache>>
  BY <1>3 DEF Scan, RouteTick, Navigate, CloseModal, Start, Rerender, CancelRow, SelectFile,
              FileRead, ClearSelection, vars
<1> QED
  BY <1>1, <1>2, <1>3, FlowReads, StopReads DEF Next

LEMMA InitReads == Init => ImageInv
<1> SUFFICES ASSUME Init PROVE ImageInv
  OBVIOUS
<1>1. \A f \in Flows : flow[f].bytes = None /\ flow[f].sent = None
  BY DEF Init, NoFlow
<1>2. cache \in Seq(Original)
  BY DEF Init
<1> QED
  BY <1>1, <1>2 DEF ImageInv, Reads

\* What is posted to Vision for a click is the attachment that was under the
\* click, whatever the page, a redirect or the cache did in between.
THEOREM RightImageIsSent == Spec => []RightImage
<1>1. ImageInv => RightImage
  BY DEF ImageInv, Reads, RightImage
<1> QED
  BY <1>1, Inductive, InitReads, NextReads, PTL DEF Spec

-----------------------------------------------------------------------------
(***************************************************************************)
(* The search for a prompt in an image: PromptMetadata                     *)
(***************************************************************************)

\* A text chunk that is legible under one of the two keys, and those of the
\* first n chunks.
LegibleChunk(c) == CanonicalKeyword(c) /\ ~ParseTextChunkFails(c)
Legible(chunks, n) == {m \in 1..n : LegibleChunk(chunks[m])}

\* The bytes of the chunks in S.
Bytes(chunks, S) == MapThenSumSet(LAMBDA n : chunks[n].bytes, S)

\* A file of which nothing may be taken.
Beyond(chunks) == Body(chunks) = {} \/ ~WithinLimits(chunks)

Candidate(c) == [key |-> c.key, text |-> c.text]
Texts(chunks) == {Candidate(chunks[n]) : n \in 1..Len(chunks)}

\* The candidates, in the order of the file: the i-th is chunk at[i].
Places(cands, chunks, S, at) ==
    /\ at \in [1..Len(cands) -> S]
    /\ \A i, j \in 1..Len(cands) : i < j => at[i] < at[j]
    /\ \A i \in 1..Len(cands) : cands[i] = Candidate(chunks[at[i]])

\* All of the chunks in S, or those of them that were not refused yet.
Collected(cands, chunks, S) ==
    \E at \in [1..Len(cands) -> S] :
        Places(cands, chunks, S, at) /\ \A n \in S : \E i \in 1..Len(cands) : at[i] = n

IsUsable(c) == EvaluateCandidate(c).class = "usable"

Remaining(cands, chunks, S) ==
    \E at \in [1..Len(cands) -> S] :
        Places(cands, chunks, S, at)
          /\ \A n \in S : IsUsable(chunks[n]) => \E i \in 1..Len(cands) : at[i] = n

\* The verdicts that refuse.
Classes == {"structured", "encoded_or_unknown", "non_english", "metadata_no_prompt"}

SceneGiven == \E family \in Scenes : scene \in family

Chosen == pc # "idle" => selection.att \in DOMAIN scene.files

Unread == pc \in {"idle", "captured"} => scan = NoScan /\ candidates = <<>> /\ rejected = <<>>

ScanNames == {"at", "recognised", "decoded", "malformed", "limit", "iend"}

IsScan(s) ==
    /\ s = [x \in ScanNames |-> s[x]]
    /\ s.at \in Nat /\ s.recognised \in Nat /\ s.decoded \in Nat
    /\ s.malformed \in BOOLEAN /\ s.limit \in BOOLEAN /\ s.iend \in BOOLEAN

\* Each recognised chunk is a candidate or was refused.
Tallied ==
    /\ IsScan(scan)
    /\ candidates \in Seq(Texts(File.chunks))
    /\ rejected \in Seq([class : Classes])
    /\ scan.recognised = Len(candidates) + Len(rejected)

\* The chunks before the current one are clean, and what is legible among them
\* was collected.
Clean(chunks) ==
    /\ scan.at - 1 <= MaxChunks
    /\ \A m \in 1..(scan.at - 1) : chunks[m].type \notin {"damaged", "IEND"}
    /\ scan.iend => scan.at <= Len(chunks) /\ scan.at <= MaxChunks /\ chunks[scan.at].type = "IEND"
    /\ scan.decoded = Bytes(chunks, Legible(chunks, scan.at - 1))
    /\ scan.decoded <= MaxTotalText
    /\ Cardinality(Legible(chunks, scan.at - 1)) = Len(candidates)
    /\ Len(candidates) <= MaxCandidates
    /\ Collected(candidates, chunks, Legible(chunks, scan.at - 1))

ScanInv ==
    pc = "scan" =>
        /\ Tallied
        /\ scan.at \in 1..(Len(File.chunks) + 1)
        /\ IF scan.malformed \/ scan.limit THEN Beyond(File.chunks) ELSE Clean(File.chunks)

JudgeInv ==
    pc = "judge" =>
        /\ Tallied /\ scan.recognised > 0
        /\ ~Beyond(File.chunks)
        /\ Remaining(candidates, File.chunks, Readable(File.chunks))

CompanionChosen ==
    selection.companion.status = "found" =>
        selection.companion = SelectCompanionMetadataAttachment(selection.att, scene.message)

InspectionInv == SceneGiven /\ Chosen /\ Unread /\ ScanInv /\ JudgeInv /\ FirstUsableWins /\ CompanionChosen

-----------------------------------------------------------------------------
\* A set of naturals has a least member.
LEMMA MinLeast ==
    ASSUME NEW S, S \subseteq Nat, S # {}
    PROVE  Min(S) \in S /\ \A y \in S : Min(S) <= y
<1> DEFINE R == {ss \in Nat \X Nat : ss[1] < ss[2]}
<1>0. IsWellFoundedOn(R, Nat)
  BY NatLessThanWellFounded, LessThan
<1>1. PICK x \in S : \A y \in S : ~(<<y, x>> \in R)
  BY <1>0, WFMin
<1>2. ASSUME NEW y \in S PROVE x <= y
  <2>1. <<y, x>> \in Nat \X Nat /\ <<y, x>> \notin R
    BY <1>1
  <2>2. ~(y < x)
    BY <2>1
  <2> QED
    BY <2>2
<1> QED
  BY <1>2 DEF Min

\* The sequence s without its entry k.
LEMMA Without ==
    ASSUME NEW Entry, NEW s \in Seq(Entry), NEW k \in 1..Len(s)
    PROVE  LET r == RemoveAt(s, k)
           IN  /\ r \in Seq(Entry) /\ Len(r) = Len(s) - 1
               /\ \A i \in 1..Len(r) : r[i] = IF i < k THEN s[i] ELSE s[i + 1]
<1> DEFINE a == SubSeq(s, 1, k - 1)
           b == SubSeq(s, k + 1, Len(s))
           r == a \o b
<1>1. Len(s) \in Nat /\ k \in Nat /\ k >= 1 /\ k <= Len(s)
  BY LenProperties
<1>2. \A i \in 1..Len(s) : s[i] \in Entry
  BY ElementOfSeq
<1>3. \A i \in 1..(k - 1) : s[i] \in Entry
  BY <1>1, <1>2
<1>4. \A i \in (k + 1)..Len(s) : s[i] \in Entry
  BY <1>1, <1>2
<1>5. a \in Seq(Entry) /\ Len(a) = k - 1 /\ \A i \in 1..(k - 1) : a[i] = s[i]
  <2>1. 1 \in Int /\ k - 1 \in Int
    BY <1>1
  <2>2. /\ a \in Seq(Entry) /\ Len(a) = IF 1 <= k - 1 THEN k - 1 - 1 + 1 ELSE 0
        /\ \A i \in 1..(k - 1 - 1 + 1) : a[i] = s[1 + i - 1]
    BY <1>3, <2>1, SubSeqProperties
  <2> HIDE DEF a
  <2> QED
    BY <1>1, <2>2
<1>6. b \in Seq(Entry) /\ Len(b) = Len(s) - k /\ \A i \in 1..(Len(s) - k) : b[i] = s[k + i]
  <2>1. k + 1 \in Int /\ Len(s) \in Int
    BY <1>1
  <2>2. /\ b \in Seq(Entry) /\ Len(b) = IF k + 1 <= Len(s) THEN Len(s) - (k + 1) + 1 ELSE 0
        /\ \A i \in 1..(Len(s) - (k + 1) + 1) : b[i] = s[k + 1 + i - 1]
    BY <1>4, <2>1, SubSeqProperties
  <2> HIDE DEF b
  <2> QED
    BY <1>1, <2>2
<1>7. /\ r \in Seq(Entry) /\ Len(r) = Len(a) + Len(b)
      /\ \A i \in 1..(Len(a) + Len(b)) : r[i] = IF i <= Len(a) THEN a[i] ELSE b[i - Len(a)]
  BY <1>5, <1>6, ConcatProperties
<1> HIDE DEF a, b, r
<1>8. Len(r) = Len(s) - 1
  BY <1>1, <1>5, <1>6, <1>7
<1>9. ASSUME NEW i \in 1..Len(r) PROVE r[i] = IF i < k THEN s[i] ELSE s[i + 1]
  <2>0. i \in 1..(Len(a) + Len(b)) /\ i \in Nat /\ i >= 1 /\ i <= Len(s) - 1
    BY <1>1, <1>7, <1>8, <1>9
  <2>1. CASE i < k
    BY <1>1, <1>5, <1>7, <2>0, <2>1
  <2>2. CASE ~(i < k)
    <3>1. i - Len(a) \in 1..(Len(s) - k) /\ k + (i - Len(a)) = i + 1 /\ ~(i <= Len(a))
      BY <1>1, <1>5, <2>0, <2>2
    <3> QED
      BY <1>6, <1>7, <2>0, <2>2, <3>1
  <2> QED
    BY <2>1, <2>2
<1> QED
  BY <1>7, <1>8, <1>9 DEF RemoveAt, r, a, b

Size(chunks, n) == chunks[n].bytes

\* What the sum does, for the chunks r and the sets of them D.
IsTotal(r, g, D) ==
    g = [T \in D |-> IF T = {} THEN 0
                     ELSE Size(r, CHOOSE x \in T : TRUE) + g[T \ {CHOOSE x \in T : TRUE}]]

TotalOf(r, S) == CHOOSE g : IsTotal(r, g, SUBSET S)

\* What holds of 0 and of the successor of each natural it holds of, holds of all.
LEMMA AllNaturals ==
    ASSUME NEW Good \in SUBSET Nat, 0 \in Good, \A n \in Good : n + 1 \in Good
    PROVE  Good = Nat
<1> DEFINE R == {ss \in Nat \X Nat : ss[1] < ss[2]}
           Bad == Nat \ Good
<1> SUFFICES ASSUME Bad # {} PROVE FALSE
  OBVIOUS
<1>1. IsWellFoundedOn(R, Nat)
  BY NatLessThanWellFounded, LessThan
<1>2. PICK x \in Bad : \A y \in Bad : ~(<<y, x>> \in R)
  <2>1. Bad \subseteq Nat
    OBVIOUS
  <2> HIDE DEF R, Bad
  <2> QED
    BY <1>1, <2>1, WFMin
<1>3. x \in Nat /\ x # 0
  OBVIOUS
<1>4. x - 1 \in Nat /\ x - 1 < x /\ (x - 1) + 1 = x
  BY <1>3
<1>5. <<x - 1, x>> \in R
  BY <1>3, <1>4
<1>6. x - 1 \in Good
  BY <1>2, <1>4, <1>5
<1> QED
  BY <1>4, <1>6

Small(S, n) == {T \in SUBSET S : Cardinality(T) <= n}

LEMMA OneLess ==
    ASSUME NEW S, IsFiniteSet(S), NEW T \in SUBSET S, NEW x \in T
    PROVE  /\ T \ {x} \in SUBSET S /\ Cardinality(T) \in Nat \ {0}
           /\ Cardinality(T \ {x}) = Cardinality(T) - 1
<1>1. IsFiniteSet(T)
  BY FS_Subset
<1>2. Cardinality(T \ {x}) = Cardinality(T) - 1
  BY <1>1, FS_RemoveElement
<1>3. Cardinality(T) \in Nat /\ Cardinality(T) # 0
  BY <1>1, FS_CardinalityType, FS_EmptySet
<1> QED
  BY <1>2, <1>3

LEMMA SmallSets ==
    ASSUME NEW S, IsFiniteSet(S)
    PROVE  /\ Small(S, 0) = {{}}
           /\ Small(S, Cardinality(S)) = SUBSET S
           /\ \A n \in Nat : Small(S, n) \subseteq Small(S, n + 1)
           /\ \A n \in Nat : \A T \in Small(S, n + 1) : \A x \in T : T \ {x} \in Small(S, n)
<1>1. ASSUME NEW T \in SUBSET S PROVE IsFiniteSet(T) /\ Cardinality(T) \in Nat
  BY FS_Subset, FS_CardinalityType
<1>2. Small(S, 0) = {{}}
  <2>1. ASSUME NEW T \in Small(S, 0) PROVE T = {}
    <3>1. IsFiniteSet(T) /\ Cardinality(T) = 0
      BY <1>1 DEF Small
    <3> QED
      BY <3>1, FS_EmptySet
  <2>2. {} \in Small(S, 0)
    BY FS_EmptySet DEF Small
  <2> QED
    BY <2>1, <2>2
<1>3. Small(S, Cardinality(S)) = SUBSET S
  BY FS_Subset DEF Small
<1>4. ASSUME NEW n \in Nat PROVE Small(S, n) \subseteq Small(S, n + 1)
  <2> SUFFICES ASSUME NEW T \in SUBSET S, Cardinality(T) <= n PROVE Cardinality(T) <= n + 1
    BY DEF Small
  <2>1. Cardinality(T) \in Nat
    BY <1>1
  <2> QED
    BY <2>1
<1>5. ASSUME NEW n \in Nat, NEW T \in Small(S, n + 1), NEW x \in T PROVE T \ {x} \in Small(S, n)
  <2>1. T \in SUBSET S /\ Cardinality(T) <= n + 1
    BY DEF Small
  <2>2. /\ T \ {x} \in SUBSET S /\ Cardinality(T) \in Nat
        /\ Cardinality(T \ {x}) = Cardinality(T) - 1
    BY <2>1, OneLess
  <2>3. Cardinality(T \ {x}) <= n
    BY <2>1, <2>2
  <2> QED
    BY <2>2, <2>3 DEF Small
<1> QED
  BY <1>2, <1>3, <1>4, <1>5

\* What holds of the empty set, and of a set if it does of the set without any
\* one of its members, holds of every finite set.
LEMMA FiniteSetsAll ==
    ASSUME NEW S, IsFiniteSet(S), NEW Good \in SUBSET SUBSET S, {} \in Good,
           \A T \in SUBSET S : T # {} /\ (\A x \in T : T \ {x} \in Good) => T \in Good
    PROVE  Good = SUBSET S
<1> DEFINE Levels == {n \in Nat : Small(S, n) \subseteq Good}
<1>1. 0 \in Levels
  BY SmallSets
<1>2. ASSUME NEW n \in Levels PROVE n + 1 \in Levels
  <2> SUFFICES ASSUME NEW T \in Small(S, n + 1), T # {} PROVE T \in Good
    OBVIOUS
  <2>1. T \in SUBSET S
    BY DEF Small
  <2>2. \A x \in T : T \ {x} \in Small(S, n)
    BY SmallSets
  <2> QED
    BY <2>1, <2>2
<1>3. Levels = Nat
  <2>1. Levels \in SUBSET Nat
    OBVIOUS
  <2> HIDE DEF Levels
  <2> QED
    BY <1>1, <1>2, <2>1, AllNaturals
<1>4. Cardinality(S) \in Levels
  BY <1>3, FS_CardinalityType
<1> QED
  BY <1>4, SmallSets

LEMMA TotalUpTo ==
    ASSUME NEW r, NEW S, IsFiniteSet(S), NEW n \in Nat
    PROVE  \E g : IsTotal(r, g, Small(S, n))
<1> DEFINE Levels == {m \in Nat : \E g : IsTotal(r, g, Small(S, m))}
<1>1. 0 \in Levels
  <2> DEFINE g == [T \in Small(S, 0) |-> 0]
  <2>1. \A T \in Small(S, 0) : T = {}
    BY SmallSets
  <2>2. IsTotal(r, g, Small(S, 0))
    BY <2>1 DEF IsTotal
  <2> QED
    BY <2>2
<1>2. ASSUME NEW m \in Levels PROVE m + 1 \in Levels
  <2> DEFINE D == Small(S, m + 1)
             E == Small(S, m)
             Rest(T) == T \ {CHOOSE x \in T : TRUE}
             P(T) == Size(r, CHOOSE x \in T : TRUE)
  <2>1. PICK g : IsTotal(r, g, E)
    OBVIOUS
  <2> DEFINE h == [T \in D |-> IF T = {} THEN 0 ELSE P(T) + g[Rest(T)]]
             k == [T \in D |-> IF T = {} THEN 0 ELSE P(T) + h[Rest(T)]]
  <2>2. m \in Nat /\ m + 1 \in Nat
    OBVIOUS
  <2>3. \A T \in E : g[T] = IF T = {} THEN 0 ELSE P(T) + g[Rest(T)]
    BY <2>1, Zenon DEF IsTotal
  <2>4. E \subseteq D /\ \A T \in D : T # {} => Rest(T) \in E
    BY <2>2, SmallSets
  <2> HIDE DEF D, E, P, Rest
  <2>5. \A T \in E : h[T] = g[T]
    BY <2>3, <2>4
  <2>6. \A T \in D : h[T] = k[T]
    BY <2>4, <2>5
  <2>7. h = [T \in D |-> h[T]] /\ k = [T \in D |-> k[T]]
    OBVIOUS
  <2>8. h = k
    <3> HIDE DEF h, k
    <3> QED
      BY <2>6, <2>7
  <2>9. h = [T \in D |-> IF T = {} THEN 0 ELSE P(T) + h[Rest(T)]]
    BY <2>8 DEF k
  <2> HIDE DEF h
  <2>10. IsTotal(r, h, D)
    BY <2>9, Zenon DEF IsTotal, P, Rest
  <2> QED
    BY <2>2, <2>10 DEF D
<1>3. Levels = Nat
  <2>1. Levels \in SUBSET Nat
    OBVIOUS
  <2> HIDE DEF Levels
  <2> QED
    BY <1>1, <1>2, <2>1, AllNaturals
<1> QED
  BY <1>3

\* The chunk added last, and the sums as equations.
LastAdded(T) == CHOOSE x \in T : TRUE

Sums(r, g, D) ==
    \A T \in D : g[T] = IF T = {} THEN 0 ELSE Size(r, LastAdded(T)) + g[T \ {LastAdded(T)}]

LEMMA TotalExists ==
    ASSUME NEW r, NEW S, IsFiniteSet(S)
    PROVE  Sums(r, TotalOf(r, S), SUBSET S)
<1>1. Cardinality(S) \in Nat
  BY FS_CardinalityType
<1>2. Small(S, Cardinality(S)) = SUBSET S
  BY SmallSets
<1>3. \E g : IsTotal(r, g, SUBSET S)
  <2>1. \E g : IsTotal(r, g, Small(S, Cardinality(S)))
    BY <1>1, TotalUpTo
  <2> QED
    BY <1>2, <2>1
<1>4. IsTotal(r, TotalOf(r, S), SUBSET S)
  BY <1>3, Zenon DEF TotalOf
<1> QED
  BY <1>4, Zenon DEF IsTotal, Sums, LastAdded

LEMMA TotalsAreNaturals ==
    ASSUME NEW r, NEW S, IsFiniteSet(S), \A i \in S : Size(r, i) \in Nat
    PROVE  \A T \in SUBSET S : TotalOf(r, S)[T] \in Nat
<1> DEFINE g == TotalOf(r, S)
           Good == {T \in SUBSET S : g[T] \in Nat}
<1>1. Sums(r, g, SUBSET S)
  BY TotalExists
<1> HIDE DEF g
<1>2. {} \in Good
  BY <1>1 DEF Sums
<1>3. ASSUME NEW T \in SUBSET S, T # {}, \A x \in T : T \ {x} \in Good
      PROVE  T \in Good
  <2> DEFINE c == LastAdded(T)
  <2>1. c \in T /\ c \in S
    BY <1>3 DEF LastAdded
  <2>2. g[T] = Size(r, c) + g[T \ {c}]
    BY <1>1, <1>3 DEF Sums
  <2> HIDE DEF c
  <2>3. Size(r, c) \in Nat /\ g[T \ {c}] \in Nat
    BY <1>3, <2>1
  <2> QED
    BY <2>2, <2>3
<1>4. Good = SUBSET S
  <2>1. Good \in SUBSET SUBSET S
    OBVIOUS
  <2> HIDE DEF Good
  <2> QED
    BY <1>2, <1>3, <2>1, FiniteSetsAll
<1> QED
  BY <1>4 DEF g

\* The order in which the chunks are added up does not matter.
Summable(r, S) == IsFiniteSet(S) /\ \A i \in S : Size(r, i) \in Nat

AnyFirst(r, S) ==
    \A T \in SUBSET S : \A x \in T :
        TotalOf(r, S)[T] = Size(r, x) + TotalOf(r, S)[T \ {x}]

LEMMA AnyOrder == ASSUME NEW r, NEW S, Summable(r, S) PROVE AnyFirst(r, S)
<1> DEFINE g == TotalOf(r, S)
           Good == {T \in SUBSET S : \A x \in T : g[T] = Size(r, x) + g[T \ {x}]}
<1>a. IsFiniteSet(S) /\ \A i \in S : Size(r, i) \in Nat
  BY DEF Summable
<1>0. \A T \in SUBSET S : g[T] \in Nat
  BY <1>a, TotalsAreNaturals
<1>1. Sums(r, g, SUBSET S)
  BY <1>a, TotalExists
<1> HIDE DEF g
<1>2. {} \in Good
  OBVIOUS
<1>3. ASSUME NEW T \in SUBSET S, T # {}, \A x \in T : T \ {x} \in Good
      PROVE  T \in Good
  <2> DEFINE c == LastAdded(T)
  <2>1. c \in T /\ c \in S
    BY <1>3 DEF LastAdded
  <2>2. g[T] = Size(r, c) + g[T \ {c}]
    BY <1>1, <1>3 DEF Sums
  <2> HIDE DEF c
  <2>3. ASSUME NEW x \in T, x # c PROVE g[T] = Size(r, x) + g[T \ {x}]
    <3> DEFINE R == (T \ {c}) \ {x}
    <3>1. R = (T \ {x}) \ {c} /\ R \in SUBSET S /\ x \in T \ {c} /\ c \in T \ {x}
      BY <2>1, <2>3
    <3>2. T \ {c} \in Good /\ T \ {x} \in Good
      BY <1>3, <2>1
    <3>3. g[T \ {c}] = Size(r, x) + g[R]
      BY <3>1, <3>2
    <3>4. g[T \ {x}] = Size(r, c) + g[(T \ {x}) \ {c}]
      BY <3>1, <3>2
    <3>5. Size(r, x) \in Nat /\ Size(r, c) \in Nat /\ g[R] \in Nat
      BY <1>a, <1>0, <2>1, <3>1
    <3>6. g[T \ {x}] = Size(r, c) + g[R]
      BY <3>1, <3>4
    <3> HIDE DEF R
    <3>7. g[T] = Size(r, c) + (Size(r, x) + g[R])
      BY <2>2, <3>3
    <3> QED
      BY <3>5, <3>6, <3>7
  <2> QED
    BY <2>2, <2>3
<1>4. Good = SUBSET S
  <2>1. Good \in SUBSET SUBSET S
    OBVIOUS
  <2> HIDE DEF Good
  <2> QED
    BY <1>a, <1>2, <1>3, <2>1, FiniteSetsAll
<1> QED
  BY <1>4 DEF g, AnyFirst

\* A total depends on the sizes alone, and on the chunks added up.
LEMMA SameTotal ==
    ASSUME NEW r, NEW S, IsFiniteSet(S), NEW q, NEW U, IsFiniteSet(U), S \subseteq U,
           \A i \in S : Size(q, i) = Size(r, i)
    PROVE  TotalOf(q, U)[S] = TotalOf(r, S)[S]
<1> DEFINE g == TotalOf(r, S)
           h == TotalOf(q, U)
           Good == {T \in SUBSET S : h[T] = g[T]}
<1>1. Sums(r, g, SUBSET S)
  BY TotalExists
<1>2. Sums(q, h, SUBSET U)
  BY TotalExists
<1> HIDE DEF g, h
<1>3. {} \in Good
  BY <1>1, <1>2 DEF Sums
<1>4. ASSUME NEW T \in SUBSET S, T # {}, \A x \in T : T \ {x} \in Good
      PROVE  T \in Good
  <2> DEFINE c == LastAdded(T)
  <2>1. c \in T /\ c \in S
    BY <1>4 DEF LastAdded
  <2>2. g[T] = Size(r, c) + g[T \ {c}]
    BY <1>1, <1>4 DEF Sums
  <2>3. h[T] = Size(q, c) + h[T \ {c}]
    BY <1>2, <1>4 DEF Sums
  <2> HIDE DEF c
  <2>4. h[T \ {c}] = g[T \ {c}]
    BY <1>4, <2>1
  <2> QED
    BY <2>1, <2>2, <2>3, <2>4
<1>5. Good = SUBSET S
  <2>1. Good \in SUBSET SUBSET S
    OBVIOUS
  <2> HIDE DEF Good
  <2> QED
    BY <1>3, <1>4, <2>1, FiniteSetsAll
<1> QED
  BY <1>5 DEF g, h

------------------------------------------------------------------------
-----------------------------------------------------------------------------
(***************************************************************************)
(* Files                                                                   *)
(***************************************************************************)

IsFile(chunks) ==
    /\ chunks \in Seq(Range(chunks))
    /\ \A n \in DOMAIN chunks : chunks[n].bytes \in Nat

LEMMA FileIs == ASSUME SceneGiven, selection.att \in DOMAIN scene.files PROVE IsFile(File.chunks)
BY ScenesAssumption DEF SceneGiven, File, IsFile

LEMMA FileLength ==
    ASSUME NEW chunks, IsFile(chunks)
    PROVE  /\ Len(chunks) \in Nat /\ DOMAIN chunks = 1..Len(chunks)
           /\ \A n \in 1..Len(chunks) : chunks[n].bytes \in Nat
BY LenProperties DEF IsFile

\* A body ends with the first IEND, and nothing in it is damaged.
LEMMA BodyIs ==
    ASSUME NEW chunks, IsFile(chunks), Body(chunks) # {}
    PROVE  \E last \in 1..Len(chunks) :
             /\ Body(chunks) = 1..last /\ chunks[last].type = "IEND"
             /\ \A m \in 1..(last - 1) : chunks[m].type # "IEND"
             /\ \A m \in 1..last : chunks[m].type # "damaged"
<1> DEFINE ends == {n \in DOMAIN chunks : chunks[n].type = "IEND"}
           last == Min(ends)
<1>1. Body(chunks) = IF ends = {} \/ \E m \in 1..last : chunks[m].type = "damaged"
                     THEN {} ELSE 1..last
  BY DEF Body, Min
<1>2. ends # {} /\ Body(chunks) = 1..last /\ \A m \in 1..last : chunks[m].type # "damaged"
  BY <1>1
<1>3. DOMAIN chunks = 1..Len(chunks) /\ Len(chunks) \in Nat
  BY FileLength
<1>4. ends \subseteq Nat
  BY <1>3
<1>5. last \in ends /\ \A n \in ends : last <= n
  <2> HIDE DEF ends
  <2> QED
    BY <1>2, <1>4, MinLeast
<1> HIDE DEF last
<1>6. last \in 1..Len(chunks) /\ chunks[last].type = "IEND"
  BY <1>3, <1>5
<1>7. ASSUME NEW m \in 1..(last - 1) PROVE chunks[m].type # "IEND"
  <2>1. m \in 1..Len(chunks) /\ ~(last <= m)
    BY <1>3, <1>6
  <2> QED
    BY <1>3, <1>5, <2>1
<1> QED
  BY <1>2, <1>6, <1>7

\* A file that is clean up to an IEND has its body there.
LEMMA BodyUpTo ==
    ASSUME NEW chunks, IsFile(chunks), NEW n \in 1..Len(chunks), chunks[n].type = "IEND",
           \A m \in 1..(n - 1) : chunks[m].type \notin {"damaged", "IEND"}
    PROVE  Body(chunks) = 1..n
<1> DEFINE ends == {k \in DOMAIN chunks : chunks[k].type = "IEND"}
           last == Min(ends)
<1>1. Body(chunks) = IF ends = {} \/ \E m \in 1..last : chunks[m].type = "damaged"
                     THEN {} ELSE 1..last
  BY DEF Body, Min
<1>2. DOMAIN chunks = 1..Len(chunks) /\ Len(chunks) \in Nat
  BY FileLength
<1>3. ends \subseteq Nat /\ n \in ends
  BY <1>2
<1>4. last \in ends /\ last <= n
  <2> HIDE DEF ends
  <2> QED
    BY <1>3, MinLeast
<1> HIDE DEF last
<1>5. last = n
  <2>1. last \in 1..Len(chunks) /\ chunks[last].type = "IEND"
    BY <1>2, <1>4
  <2> QED
    BY <1>2, <1>4, <2>1
<1>6. \A m \in 1..n : chunks[m].type # "damaged"
  <2>1. \A m \in 1..n : m \in 1..(n - 1) \/ m = n
    BY <1>2
  <2> QED
    BY <2>1
<1> QED
  BY <1>1, <1>3, <1>5, <1>6

\* A file that is clean up to chunk n - 1 has no body that ends before n.
LEMMA BodyBeyond ==
    ASSUME NEW chunks, IsFile(chunks), Body(chunks) # {}, NEW n \in Nat \ {0},
           \A m \in 1..(n - 1) : chunks[m].type \notin {"damaged", "IEND"}
    PROVE  \E last \in 1..Len(chunks) :
             n <= last /\ Body(chunks) = 1..last /\ \A m \in 1..last : chunks[m].type # "damaged"
<1>1. PICK last \in 1..Len(chunks) :
        /\ Body(chunks) = 1..last /\ chunks[last].type = "IEND"
        /\ \A m \in 1..last : chunks[m].type # "damaged"
  BY BodyIs
<1>2. last \in Nat /\ last >= 1
  BY FileLength
<1>3. n <= last
  <2> SUFFICES ASSUME ~(n <= last) PROVE FALSE
    OBVIOUS
  <2>1. last \in 1..(n - 1)
    BY <1>2
  <2> QED
    BY <1>1, <2>1
<1> QED
  BY <1>1, <1>3

-----------------------------------------------------------------------------
(***************************************************************************)
(* The bytes of some chunks of a file                                      *)
(***************************************************************************)

LEMMA BytesAre == ASSUME NEW chunks, NEW S PROVE Bytes(chunks, S) = TotalOf(chunks, S)[S]
BY Zenon DEF Bytes, MapThenSumSet, MapThenFoldSet, TotalOf, IsTotal, Size

LEMMA ChunksFinite ==
    ASSUME NEW chunks, IsFile(chunks), NEW S \in SUBSET (1..Len(chunks))
    PROVE  IsFiniteSet(S) /\ Cardinality(S) \in Nat /\ \A n \in S : Size(chunks, n) \in Nat
<1>1. IsFiniteSet(1..Len(chunks))
  BY FileLength, FS_Interval
<1>2. IsFiniteSet(S)
  BY <1>1, FS_Subset
<1> QED
  BY <1>2, FS_CardinalityType, FileLength DEF Size

LEMMA BytesNatural ==
    ASSUME NEW chunks, IsFile(chunks), NEW S \in SUBSET (1..Len(chunks))
    PROVE  Bytes(chunks, S) \in Nat
<1>1. IsFiniteSet(S) /\ \A n \in S : Size(chunks, n) \in Nat
  BY ChunksFinite
<1>2. \A T \in SUBSET S : TotalOf(chunks, S)[T] \in Nat
  BY <1>1, TotalsAreNaturals
<1> QED
  BY <1>2, BytesAre

LEMMA BytesOfNone == \A chunks : Bytes(chunks, {}) = 0
<1> TAKE chunks
<1>1. Sums(chunks, TotalOf(chunks, {}), SUBSET {})
  BY TotalExists, FS_EmptySet
<1>2. TotalOf(chunks, {})[{}] = 0
  BY <1>1 DEF Sums
<1> QED
  BY <1>2, BytesAre

LEMMA BytesWithoutOne ==
    ASSUME NEW chunks, IsFile(chunks), NEW U \in SUBSET (1..Len(chunks)),
           NEW T \in SUBSET U, NEW x \in T
    PROVE  TotalOf(chunks, U)[T] = Size(chunks, x) + TotalOf(chunks, U)[T \ {x}]
<1>1. Summable(chunks, U)
  BY ChunksFinite DEF Summable
<1>2. AnyFirst(chunks, U)
  BY <1>1, AnyOrder
<1> QED
  BY <1>2 DEF AnyFirst

LEMMA BytesOfOneMore ==
    ASSUME NEW chunks, IsFile(chunks), NEW S \in SUBSET (1..Len(chunks)),
           NEW n \in 1..Len(chunks), n \notin S
    PROVE  Bytes(chunks, S \cup {n}) = Bytes(chunks, S) + chunks[n].bytes
<1> SUFFICES ASSUME NEW U \in SUBSET (1..Len(chunks)), U = S \cup {n}
             PROVE  Bytes(chunks, U) = Bytes(chunks, S) + chunks[n].bytes
  OBVIOUS
<1>1. IsFiniteSet(U) /\ \A m \in U : Size(chunks, m) \in Nat
  BY ChunksFinite
<1>2. IsFiniteSet(S)
  BY ChunksFinite
<1>3. U \in SUBSET U /\ n \in U /\ U \ {n} = S /\ S \subseteq U
  OBVIOUS
<1>4. TotalOf(chunks, U)[U] = Size(chunks, n) + TotalOf(chunks, U)[U \ {n}]
  BY <1>3, BytesWithoutOne
<1>5. TotalOf(chunks, U)[S] = TotalOf(chunks, S)[S]
  BY <1>1, <1>2, <1>3, SameTotal
<1>6. Bytes(chunks, U) = Size(chunks, n) + Bytes(chunks, S)
  BY <1>3, <1>4, <1>5, BytesAre
<1>7. Size(chunks, n) \in Nat /\ Bytes(chunks, S) \in Nat
  BY <1>1, <1>3, BytesNatural
<1> QED
  BY <1>6, <1>7 DEF Size

\* More chunks do not have fewer bytes.
LEMMA BytesOfMore ==
    ASSUME NEW chunks, IsFile(chunks), NEW U \in SUBSET (1..Len(chunks)), NEW S \in SUBSET U
    PROVE  Bytes(chunks, S) <= Bytes(chunks, U)
<1> DEFINE g == TotalOf(chunks, U)
           R == U \ S
           Good == {T \in SUBSET R : g[S] <= g[S \cup T]}
<1>1. /\ IsFiniteSet(U) /\ IsFiniteSet(S) /\ IsFiniteSet(R)
      /\ \A m \in U : Size(chunks, m) \in Nat
  <2>1. S \in SUBSET (1..Len(chunks)) /\ R \in SUBSET (1..Len(chunks))
    OBVIOUS
  <2> QED
    BY <2>1, ChunksFinite
<1>2. /\ \A T \in SUBSET U : g[T] \in Nat
      /\ \A T \in SUBSET U : \A x \in T : g[T] = Size(chunks, x) + g[T \ {x}]
  <2>1. IsFiniteSet(U) /\ \A m \in U : Size(chunks, m) \in Nat
    BY <1>1
  <2>2. \A T \in SUBSET U : TotalOf(chunks, U)[T] \in Nat
    BY <2>1, TotalsAreNaturals
  <2>3. ASSUME NEW T \in SUBSET U, NEW x \in T
        PROVE  TotalOf(chunks, U)[T] = Size(chunks, x) + TotalOf(chunks, U)[T \ {x}]
    BY BytesWithoutOne
  <2> QED
    BY <2>2, <2>3
<1>3. g[S] = TotalOf(chunks, S)[S]
  BY <1>1, SameTotal
<1> HIDE DEF g
<1>4. {} \in Good
  BY <1>2
<1>5. ASSUME NEW T \in SUBSET R, T # {}, \A x \in T : T \ {x} \in Good PROVE T \in Good
  <2>1. PICK x \in T : TRUE
    BY <1>5
  <2>2. (S \cup T) \ {x} = S \cup (T \ {x}) /\ x \in S \cup T /\ S \cup T \in SUBSET U
        /\ S \cup (T \ {x}) \in SUBSET U /\ x \in U
    BY <2>1
  <2>3. g[S \cup T] = Size(chunks, x) + g[S \cup (T \ {x})]
    BY <1>2, <2>2
  <2>4. g[S] <= g[S \cup (T \ {x})]
    BY <1>5, <2>1
  <2>5. Size(chunks, x) \in Nat /\ g[S] \in Nat /\ g[S \cup (T \ {x})] \in Nat
    BY <1>1, <1>2, <2>2
  <2>6. g[S] <= g[S \cup T]
    BY <2>3, <2>4, <2>5
  <2> QED
    BY <2>6
<1>6. Good = SUBSET R
  <2>1. Good \in SUBSET SUBSET R
    OBVIOUS
  <2> HIDE DEF Good, R
  <2> QED
    BY <1>1, <1>4, <1>5, <2>1, FiniteSetsAll
<1>7. R \in Good /\ S \cup R = U
  BY <1>6
<1>8. g[S] <= g[U]
  BY <1>7
<1> QED
  BY <1>3, <1>8, BytesAre DEF g

-----------------------------------------------------------------------------
(***************************************************************************)
(* Verdicts                                                                *)
(***************************************************************************)

LEMMA FirstIs ==
    ASSUME NEW refusals, DOMAIN refusals \subseteq Nat,
           \A n \in DOMAIN refusals : refusals[n][2] \in Classes, NEW has
    PROVE  First(refusals, has) \in Classes \cup {"usable"}
<1> DEFINE hits == {n \in DOMAIN refusals : refusals[n][1] \in has}
<1>1. hits # {} => Min(hits) \in hits
  <2>1. hits \subseteq Nat
    OBVIOUS
  <2> HIDE DEF hits
  <2> QED
    BY <2>1, MinLeast
<1> QED
  BY <1>1 DEF First

LEMMA EmbeddedFirst == \A has : First(EmbeddedRefusals, has) \in Classes \cup {"usable"}
<1>1. /\ DOMAIN EmbeddedRefusals \subseteq Nat
      /\ \A n \in DOMAIN EmbeddedRefusals : EmbeddedRefusals[n][2] \in Classes
  BY DEF EmbeddedRefusals, Classes
<1> QED
  BY <1>1, FirstIs

LEMMA HeadFirst == \A has : First(SubSeq(EmbeddedRefusals, 1, 3), has) \in Classes \cup {"usable"}
<1> DEFINE head == SubSeq(EmbeddedRefusals, 1, 3)
<1>1. head = [i \in 1..3 |-> EmbeddedRefusals[i]]
  BY DEF EmbeddedRefusals
<1>2. \A i \in 1..3 : EmbeddedRefusals[i][2] \in Classes
  BY DEF EmbeddedRefusals, Classes
<1> HIDE DEF head
<1>3. DOMAIN head \subseteq Nat /\ \A i \in DOMAIN head : head[i][2] \in Classes
  BY <1>1, <1>2
<1>4. \A has : First(head, has) \in Classes \cup {"usable"}
  BY <1>3, FirstIs
<1> QED
  BY <1>4 DEF head

\* A candidate is judged to be usable or is refused for one of four reasons.
LEMMA VerdictIs == ASSUME NEW c PROVE EvaluateCandidate(c).class \in Classes \cup {"usable"}
<1>2. First(SubSeq(EmbeddedRefusals, 1, 3), c.text.has) \in Classes \cup {"usable"}
  BY HeadFirst
<1>3. \A x : /\ Verdict(x).class = x
             /\ \A q : x \in Classes \cup {"usable"} =>
                         Read(x, q).class \in Classes \cup {"usable"}
  BY DEF Verdict, Read, UsablePrompt
<1>4. ASSUME NEW e, NEW text PROVE JudgeExtracted(e, text, EmbeddedRefusals).class \in Classes \cup {"usable"}
  <2>1. \A has : First(EmbeddedRefusals, has) \in Classes \cup {"usable"}
    BY EmbeddedFirst
  <2>2. "structured" \in Classes
    BY DEF Classes
  <2> QED
    BY <1>3, <2>1, <2>2 DEF JudgeExtracted
<1> QED
  BY <1>2, <1>3, <1>4 DEF EvaluateCandidate, Judge

\* A candidate is judged by the key and the text of its chunk.
LEMMA SameVerdict == \A c : /\ EvaluateCandidate(Candidate(c)) = EvaluateCandidate(c)
                            /\ Key(Candidate(c)) = Key(c)
BY DEF EvaluateCandidate, Candidate, Key

\* The next candidate is the first of the best keys.
LEMMA NextIs ==
    ASSUME NEW E, candidates \in Seq(E), candidates # <<>>
    PROVE  /\ NextCandidate \in 1..Len(candidates)
           /\ \A m \in 1..Len(candidates) :
                \/ Key(candidates[NextCandidate]) < Key(candidates[m])
                \/ Key(candidates[NextCandidate]) = Key(candidates[m]) /\ NextCandidate <= m
<1> DEFINE D == 1..Len(candidates)
           Of(k) == {m \in D : Key(candidates[m]) = k}
<1>1. DOMAIN candidates = D /\ Len(candidates) \in Nat /\ D # {}
  <2>1. Len(candidates) \in Nat /\ DOMAIN candidates = D /\ Len(candidates) # 0
    BY LenProperties, EmptySeq
  <2>2. 1 \in D
    BY <2>1
  <2> QED
    BY <2>1, <2>2
<1>2. \A m \in D : m \in Nat /\ Key(candidates[m]) \in {0, 1}
  BY DEF Key
<1>3. \E k \in {0, 1} : Of(k) # {} /\ \A m \in D : k <= Key(candidates[m])
  <2>1. CASE Of(0) # {}
    BY <1>2, <2>1
  <2>2. CASE Of(0) = {}
    <3>1. \A m \in D : Key(candidates[m]) = 1
      BY <1>2, <2>2
    <3> QED
      BY <1>1, <3>1
  <2> QED
    BY <2>1, <2>2
<1>4. PICK k \in {0, 1} : Of(k) # {} /\ \A m \in D : k <= Key(candidates[m])
  BY <1>3
<1>5. Min(Of(k)) \in Of(k) /\ \A y \in Of(k) : Min(Of(k)) <= y
  <2>1. Of(k) \subseteq Nat /\ Of(k) # {}
    BY <1>2, <1>4
  <2> HIDE DEF Of
  <2> QED
    BY <2>1, MinLeast
<1>6. \E n \in D : \A m \in D :
        \/ Key(candidates[n]) < Key(candidates[m])
        \/ Key(candidates[n]) = Key(candidates[m]) /\ n <= m
  <2> DEFINE n == Min(Of(k))
  <2>1. n \in D /\ Key(candidates[n]) = k
    BY <1>5
  <2>2. ASSUME NEW m \in D
        PROVE  \/ Key(candidates[n]) < Key(candidates[m])
               \/ Key(candidates[n]) = Key(candidates[m]) /\ n <= m
    <3>1. CASE Key(candidates[m]) = k
      BY <1>5, <2>1, <3>1
    <3>2. CASE Key(candidates[m]) # k
      BY <1>2, <1>4, <2>1, <3>2
    <3> QED
      BY <3>1, <3>2
  <2> QED
    BY <2>1, <2>2
<1> QED
  BY <1>1, <1>6 DEF NextCandidate

-----------------------------------------------------------------------------
(***************************************************************************)
(* Candidates and their chunks                                             *)
(***************************************************************************)

LEMMA LegibleNext ==
    ASSUME NEW chunks, NEW n \in Nat \ {0}
    PROVE  /\ Legible(chunks, n) = IF LegibleChunk(chunks[n])
                                   THEN Legible(chunks, n - 1) \cup {n}
                                   ELSE Legible(chunks, n - 1)
           /\ Legible(chunks, n - 1) \subseteq 1..(n - 1) /\ n \notin Legible(chunks, n - 1)
<1>1. 1..n = (1..(n - 1)) \cup {n} /\ n \notin 1..(n - 1)
  OBVIOUS
<1> QED
  BY <1>1 DEF Legible

\* One more chunk is collected.
LEMMA CollectOne ==
    ASSUME NEW chunks, NEW E, NEW cands \in Seq(E), NEW n \in Nat \ {0},
           Candidate(chunks[n]) \in E,
           NEW S \in SUBSET (1..(n - 1)), Collected(cands, chunks, S)
    PROVE  Collected(Append(cands, Candidate(chunks[n])), chunks, S \cup {n})
<1> DEFINE more == Append(cands, Candidate(chunks[n]))
           L    == Len(cands)
<1>1. PICK at \in [1..L -> S] :
        Places(cands, chunks, S, at) /\ \A m \in S : \E i \in 1..L : at[i] = m
  BY DEF Collected
<1>2. /\ L \in Nat /\ Len(more) = L + 1 /\ more[L + 1] = Candidate(chunks[n])
      /\ \A i \in 1..L : more[i] = cands[i]
  BY LenProperties, AppendProperties
<1> HIDE DEF more, L
<1> DEFINE place == [i \in 1..(L + 1) |-> IF i \in 1..L THEN at[i] ELSE n]
<1>3. \A i \in 1..L : i \in 1..(L + 1) /\ place[i] = at[i] /\ at[i] \in S /\ at[i] < n
  <2> SUFFICES ASSUME NEW i \in 1..L
               PROVE  i \in 1..(L + 1) /\ place[i] = at[i] /\ at[i] \in S /\ at[i] < n
    OBVIOUS
  <2>1. i \in 1..(L + 1)
    BY <1>2
  <2>2. at[i] \in S
    OBVIOUS
  <2>3. at[i] \in 1..(n - 1)
    BY <2>2
  <2>4. at[i] < n
    BY <2>3
  <2> QED
    BY <2>1, <2>2, <2>4
<1>4. L + 1 \in 1..(L + 1) /\ place[L + 1] = n /\ \A i \in 1..(L + 1) : i \in 1..L \/ i = L + 1
  BY <1>2
<1>5. place \in [1..(L + 1) -> S \cup {n}]
  BY <1>3, <1>4
<1> HIDE DEF place
<1>6. ASSUME NEW i \in 1..(L + 1), NEW j \in 1..(L + 1), i < j PROVE place[i] < place[j]
  <2>1. i \in 1..L
    BY <1>2, <1>6
  <2>2. CASE j \in 1..L
    BY <1>1, <1>3, <1>6, <2>1, <2>2 DEF Places, L
  <2>3. CASE j = L + 1
    BY <1>3, <1>4, <2>1, <2>3
  <2> QED
    BY <1>4, <2>2, <2>3
<1>7. ASSUME NEW i \in 1..(L + 1) PROVE more[i] = Candidate(chunks[place[i]])
  <2>1. CASE i \in 1..L
    BY <1>1, <1>2, <1>3, <2>1 DEF Places, L
  <2> QED
    BY <1>2, <1>4, <2>1
<1>8. Places(more, chunks, S \cup {n}, place)
  BY <1>2, <1>5, <1>6, <1>7 DEF Places
<1>9. \A m \in S \cup {n} : \E i \in 1..(L + 1) : place[i] = m
  BY <1>1, <1>3, <1>4 DEF L
<1> QED
  BY <1>2, <1>5, <1>8, <1>9 DEF Collected, more

\* A refused candidate is taken away.
LEMMA RefuseOne ==
    ASSUME NEW chunks, NEW E, NEW cands \in Seq(E), NEW k \in 1..Len(cands),
           NEW S \in SUBSET Nat, Remaining(cands, chunks, S),
           EvaluateCandidate(cands[k]).class # "usable"
    PROVE  Remaining(RemoveAt(cands, k), chunks, S)
<1> DEFINE rest == RemoveAt(cands, k)
           L    == Len(cands)
<1>1. PICK at \in [1..L -> S] :
        /\ Places(cands, chunks, S, at)
        /\ \A n \in S : IsUsable(chunks[n]) => \E i \in 1..L : at[i] = n
  BY DEF Remaining
<1>2. /\ L \in Nat /\ k \in Nat /\ k <= L /\ k >= 1
      /\ Len(rest) = L - 1
      /\ \A i \in 1..(L - 1) : rest[i] = IF i < k THEN cands[i] ELSE cands[i + 1]
  BY LenProperties, Without
<1> HIDE DEF rest, L
<1> DEFINE To(i)  == IF i < k THEN i ELSE i + 1
           place == [i \in 1..(L - 1) |-> at[To(i)]]
<1>3. ASSUME NEW i \in 1..(L - 1)
      PROVE  To(i) \in 1..L /\ To(i) # k /\ place[i] = at[To(i)] /\ place[i] \in S
  <2>1. To(i) \in 1..L /\ To(i) # k
    BY <1>2
  <2> QED
    BY <2>1
<1>4. \A i, j \in 1..(L - 1) : i < j => To(i) < To(j)
  BY <1>2
<1>5. \A i \in 1..L : i # k => \E j \in 1..(L - 1) : To(j) = i
  <2> SUFFICES ASSUME NEW i \in 1..L, i # k PROVE \E j \in 1..(L - 1) : To(j) = i
    OBVIOUS
  <2>1. CASE i < k
    <3>1. i \in 1..(L - 1) /\ To(i) = i
      BY <1>2, <2>1
    <3> QED
      BY <3>1
  <2>2. CASE ~(i < k)
    <3>1. i - 1 \in 1..(L - 1) /\ To(i - 1) = i
      BY <1>2, <2>2
    <3> QED
      BY <3>1
  <2> QED
    BY <2>1, <2>2
<1>6. place \in [1..(L - 1) -> S]
  BY <1>3
<1> HIDE DEF place
<1>7. \A i, j \in 1..(L - 1) : i < j => place[i] < place[j]
  BY <1>1, <1>3, <1>4 DEF Places, L
<1>8. ASSUME NEW i \in 1..(L - 1) PROVE rest[i] = Candidate(chunks[place[i]])
  <2>1. rest[i] = cands[To(i)]
    BY <1>2
  <2> QED
    BY <1>1, <1>3, <2>1 DEF Places, L
<1>9. ASSUME NEW n \in S, IsUsable(chunks[n]) PROVE \E j \in 1..(L - 1) : place[j] = n
  <2>1. PICK i \in 1..L : at[i] = n
    BY <1>1, <1>9
  <2>2. cands[i] = Candidate(chunks[n])
    BY <1>1, <2>1 DEF Places, L
  <2>3. i # k
    BY <1>9, <2>2, SameVerdict DEF IsUsable
  <2>4. PICK j \in 1..(L - 1) : To(j) = i
    BY <1>5, <2>3
  <2> QED
    BY <1>3, <2>1, <2>4
<1>10. Places(rest, chunks, S, place)
  BY <1>2, <1>6, <1>7, <1>8 DEF Places
<1> QED
  BY <1>2, <1>6, <1>9, <1>10 DEF Remaining, rest

-----------------------------------------------------------------------------
(***************************************************************************)
(* Files within the limits                                                 *)
(***************************************************************************)

LEMMA LimitsAre ==
    /\ MaxChunks \in Nat \ {0} /\ MaxTotalText \in Nat \ {0} /\ MaxCandidates \in Nat \ {0}
BY MetadataLimits

LEMMA WithinIs ==
    ASSUME NEW chunks
    PROVE  WithinLimits(chunks) <=> /\ Cardinality(Body(chunks)) <= MaxChunks
                                    /\ Cardinality(Readable(chunks)) <= MaxCandidates
                                    /\ Bytes(chunks, Readable(chunks)) <= MaxTotalText
BY Zenon DEF WithinLimits, Bytes

\* What is legible in the body.
LEMMA ReadableIs ==
    ASSUME NEW chunks, NEW last, Body(chunks) = 1..last
    PROVE  Readable(chunks) = Legible(chunks, last)
BY DEF Readable, Legible, LegibleChunk

\* More chunks than are looked at.
LEMMA TooLong ==
    ASSUME NEW chunks, IsFile(chunks), NEW n \in Nat, n > MaxChunks,
           \A m \in 1..(n - 1) : chunks[m].type \notin {"damaged", "IEND"}
    PROVE  Beyond(chunks)
<1> SUFFICES ASSUME Body(chunks) # {} PROVE ~WithinLimits(chunks)
  BY DEF Beyond
<1>1. n \in Nat \ {0}
  BY LimitsAre
<1>2. PICK last \in 1..Len(chunks) : n <= last /\ Body(chunks) = 1..last
  BY <1>1, BodyBeyond
<1>3. last \in Nat /\ last >= 1
  BY FileLength
<1>4. Cardinality(1..last) = last
  BY <1>3, FS_Interval
<1>5. ~(Cardinality(Body(chunks)) <= MaxChunks)
  BY <1>2, <1>3, <1>4, LimitsAre
<1> QED
  BY <1>5, WithinIs

\* Damage before the first IEND.
LEMMA DamagedFile ==
    ASSUME NEW chunks, IsFile(chunks), NEW n \in Nat \ {0}, chunks[n].type = "damaged",
           \A m \in 1..(n - 1) : chunks[m].type \notin {"damaged", "IEND"}
    PROVE  Beyond(chunks)
<1> SUFFICES ASSUME Body(chunks) # {} PROVE FALSE
  BY DEF Beyond
<1>1. PICK last \in 1..Len(chunks) : n <= last /\ \A m \in 1..last : chunks[m].type # "damaged"
  BY BodyBeyond
<1>2. n \in 1..last
  BY <1>1, FileLength
<1> QED
  BY <1>1, <1>2

\* A legible chunk for which there is no more room.
LEMMA TooMuch ==
    ASSUME NEW chunks, IsFile(chunks), NEW n \in 1..Len(chunks), LegibleChunk(chunks[n]),
           \A m \in 1..(n - 1) : chunks[m].type \notin {"damaged", "IEND"},
           \/ Bytes(chunks, Legible(chunks, n - 1)) + chunks[n].bytes > MaxTotalText
           \/ Cardinality(Legible(chunks, n - 1)) >= MaxCandidates
    PROVE  Beyond(chunks)
<1> SUFFICES ASSUME Body(chunks) # {} PROVE ~WithinLimits(chunks)
  BY DEF Beyond
<1>1. n \in Nat \ {0} /\ Len(chunks) \in Nat
  BY FileLength
<1>2. PICK last \in 1..Len(chunks) : n <= last /\ Body(chunks) = 1..last
  BY <1>1, BodyBeyond
<1>3. Readable(chunks) = Legible(chunks, last)
  BY <1>2, ReadableIs
<1> DEFINE S == Legible(chunks, n - 1)
           T == Legible(chunks, n)
           U == Legible(chunks, last)
<1>4. T = S \cup {n} /\ n \notin S
  BY <1>1, LegibleNext
<1>5. /\ T \subseteq U
      /\ S \in SUBSET (1..Len(chunks)) /\ T \in SUBSET (1..Len(chunks)) /\ U \in SUBSET (1..Len(chunks))
  BY <1>1, <1>2 DEF Legible
<1> HIDE DEF S, T, U
<1>6. Bytes(chunks, T) = Bytes(chunks, S) + chunks[n].bytes
  BY <1>4, <1>5, BytesOfOneMore
<1>7. Bytes(chunks, T) <= Bytes(chunks, U)
  BY <1>5, BytesOfMore
<1>8. Bytes(chunks, T) \in Nat /\ Bytes(chunks, U) \in Nat
  BY <1>5, BytesNatural
<1>9. /\ IsFiniteSet(S) /\ Cardinality(S) \in Nat
      /\ IsFiniteSet(U) /\ Cardinality(U) \in Nat
  BY <1>5, ChunksFinite
<1>10. Cardinality(T) = Cardinality(S) + 1
  BY <1>4, <1>9, FS_AddElement
<1>11. Cardinality(T) <= Cardinality(U)
  BY <1>5, <1>9, FS_Subset
<1>12. \/ Bytes(chunks, S) + chunks[n].bytes > MaxTotalText
       \/ Cardinality(S) >= MaxCandidates
  BY DEF S
<1>13. ~(Bytes(chunks, U) <= MaxTotalText) \/ ~(Cardinality(U) <= MaxCandidates)
  BY <1>6, <1>7, <1>8, <1>9, <1>10, <1>11, <1>12, LimitsAre
<1> QED
  BY <1>3, <1>13, WithinIs DEF U

-----------------------------------------------------------------------------
(***************************************************************************)
(* The scan                                                                *)
(***************************************************************************)

LEMMA ScanSame == ScanChunk => File' = File /\ pc = "scan" /\ pc' = "scan"
BY DEF ScanChunk, Scanning, File

\* What a turn of the scan makes of its record.
LEMMA ScanEdits ==
    ASSUME NEW s, IsScan(s), NEW n \in Nat, NEW r,
           \/ r = [s EXCEPT !.limit = TRUE, !.at = n]
           \/ r = [s EXCEPT !.malformed = TRUE]
           \/ r = [s EXCEPT !.iend = TRUE]
           \/ r = [s EXCEPT !.at = @ + 1]
           \/ r = [s EXCEPT !.at = @ + 1, !.recognised = @ + 1]
           \/ r = [s EXCEPT !.at = @ + 1, !.recognised = @ + 1, !.limit = TRUE]
           \/ r = [s EXCEPT !.at = @ + 1, !.recognised = @ + 1, !.decoded = @ + n]
    PROVE  IsScan(r)
<1>1. CASE r = [s EXCEPT !.limit = TRUE, !.at = n]
  BY <1>1 DEF IsScan, ScanNames
<1>2. CASE r = [s EXCEPT !.malformed = TRUE]
  BY <1>2 DEF IsScan, ScanNames
<1>3. CASE r = [s EXCEPT !.iend = TRUE]
  BY <1>3 DEF IsScan, ScanNames
<1>4. CASE r = [s EXCEPT !.at = @ + 1]
  BY <1>4 DEF IsScan, ScanNames
<1>5. CASE r = [s EXCEPT !.at = @ + 1, !.recognised = @ + 1]
  <2>1. r = [x \in ScanNames |-> r[x]]
    BY <1>5 DEF IsScan, ScanNames
  <2>2. r.at = s.at + 1 /\ r.recognised = s.recognised + 1
    BY <1>5 DEF IsScan, ScanNames
  <2>3. r.decoded = s.decoded /\ r.limit = s.limit
    BY <1>5 DEF IsScan, ScanNames
  <2>4. r.malformed = s.malformed /\ r.iend = s.iend
    BY <1>5 DEF IsScan, ScanNames
  <2> QED
    BY <2>1, <2>2, <2>3, <2>4 DEF IsScan
<1>6. CASE r = [s EXCEPT !.at = @ + 1, !.recognised = @ + 1, !.limit = TRUE]
  <2>1. r = [x \in ScanNames |-> r[x]]
    BY <1>6 DEF IsScan, ScanNames
  <2>2. r.at = s.at + 1 /\ r.recognised = s.recognised + 1
    BY <1>6 DEF IsScan, ScanNames
  <2>3. r.decoded = s.decoded /\ r.limit \in BOOLEAN
    BY <1>6 DEF IsScan, ScanNames
  <2>4. r.malformed = s.malformed /\ r.iend = s.iend
    BY <1>6 DEF IsScan, ScanNames
  <2> QED
    BY <2>1, <2>2, <2>3, <2>4 DEF IsScan
<1>7. CASE r = [s EXCEPT !.at = @ + 1, !.recognised = @ + 1, !.decoded = @ + n]
  <2>1. r = [x \in ScanNames |-> r[x]]
    BY <1>7 DEF IsScan, ScanNames
  <2>2. r.at = s.at + 1 /\ r.recognised = s.recognised + 1
    BY <1>7 DEF IsScan, ScanNames
  <2>3. r.decoded = s.decoded + n /\ r.limit = s.limit
    BY <1>7 DEF IsScan, ScanNames
  <2>4. r.malformed = s.malformed /\ r.iend = s.iend
    BY <1>7 DEF IsScan, ScanNames
  <2> QED
    BY <2>1, <2>2, <2>3, <2>4 DEF IsScan
<1> QED
  BY <1>1, <1>2, <1>3, <1>4, <1>5, <1>6, <1>7

LEMMA ScanTallies ==
    ASSUME IsFile(File.chunks), Tallied, scan.at >= 1, ScanChunk
    PROVE  Tallied'
<1> DEFINE chunks == File.chunks
           n      == scan.at
<1>1. File' = File
  BY ScanSame
<1>2. n \in Nat /\ n >= 1 /\ n <= Len(chunks) /\ Len(chunks) \in Nat
  BY FileLength DEF ScanChunk, Scanning, Tallied, IsScan, ScanNames
<1>3. IsScan(scan) /\ scan.recognised = Len(candidates) + Len(rejected)
  BY DEF Tallied
<1>4. CASE UNCHANGED <<candidates, rejected>> /\
           \/ scan' = [scan EXCEPT !.limit = TRUE, !.at = Len(chunks) + 1]
           \/ scan' = [scan EXCEPT !.malformed = TRUE]
           \/ scan' = [scan EXCEPT !.iend = TRUE]
           \/ scan' = [scan EXCEPT !.at = @ + 1]
  <2>1. IsScan(scan') /\ scan'.recognised = scan.recognised
    <3>0. Len(chunks) + 1 \in Nat
      BY <1>2
    <3>1. IsScan(scan')
      BY <1>3, <1>4, <3>0, ScanEdits
    <3>2. scan'.recognised = scan.recognised
      BY <1>3, <1>4 DEF IsScan, ScanNames
    <3> QED
      BY <3>1, <3>2
  <2> QED
    BY <1>1, <1>4, <2>1 DEF Tallied
<1>5. CASE CollectChunk
  <2>0. IsScan(scan') /\ scan'.recognised = scan.recognised + 1
    <3>1. Chunk.bytes \in Nat
      BY <1>2, <1>5, FileLength DEF Chunk
    <3>2. IsScan(scan')
      BY <1>3, <1>5, <3>1, ScanEdits DEF CollectChunk
    <3>3. scan'.recognised = scan.recognised + 1
      BY <1>3, <1>5 DEF CollectChunk, IsScan, ScanNames
    <3> QED
      BY <3>2, <3>3
  <2>1. candidates \in Seq(Texts(chunks)) /\ rejected \in Seq([class : Classes])
    BY DEF Tallied
  <2>2. chunks[n].bytes \in Nat /\ Candidate(Chunk) \in Texts(chunks)
    BY <1>2, <1>5, FileLength DEF Chunk, Texts
  <2>3. Len(candidates) \in Nat /\ Len(rejected) \in Nat
    BY <2>1, LenProperties
  <2>4. CASE candidates' = candidates /\ rejected' = Append(rejected, [class |-> "encoded_or_unknown"])
    <3>1. [class |-> "encoded_or_unknown"] \in [class : Classes]
      BY DEF Classes
    <3>2. rejected' \in Seq([class : Classes]) /\ Len(rejected') = Len(rejected) + 1
      BY <2>1, <2>4, <3>1, AppendProperties
    <3> QED
      BY <1>1, <1>3, <2>0, <2>1, <2>3, <2>4, <3>2 DEF Tallied
  <2>5. CASE rejected' = rejected /\ candidates' = Append(candidates, Candidate(Chunk))
    <3>1. candidates' \in Seq(Texts(chunks)) /\ Len(candidates') = Len(candidates) + 1
      BY <2>1, <2>2, <2>5, AppendProperties
    <3> QED
      BY <1>1, <1>3, <2>0, <2>1, <2>3, <2>5, <3>1 DEF Tallied
  <2> QED
    BY <1>5, <2>4, <2>5 DEF CollectChunk, Candidate
<1> QED
  BY <1>4, <1>5 DEF ScanChunk

\* The scan goes on over a chunk of no interest.
LEMMA PassOver ==
    ASSUME IsScan(scan), NEW chunks, NEW n, n = scan.at, n \in 1..Len(chunks), n <= MaxChunks,
           Clean(chunks), ~scan.iend, ~LegibleChunk(chunks[n]),
           chunks[n].type \notin {"damaged", "IEND"},
           scan'.at = n + 1, scan'.iend = scan.iend, scan'.decoded = scan.decoded,
           candidates' = candidates
    PROVE  Clean(chunks)'
<1>1. n \in Nat \ {0} /\ (n + 1) - 1 = n
  BY DEF IsScan
<1>2. Legible(chunks, n) = Legible(chunks, n - 1)
  BY <1>1, LegibleNext
<1>3. \A m \in 1..n : m \in 1..(n - 1) \/ m = n
  BY <1>1
<1>4. \A m \in 1..n : chunks[m].type \notin {"damaged", "IEND"}
  BY <1>3 DEF Clean
<1> QED
  BY <1>1, <1>2, <1>4 DEF Clean

\* The scan collects a chunk.
LEMMA TakeUp ==
    ASSUME IsScan(scan), NEW chunks, IsFile(chunks), candidates \in Seq(Texts(chunks)),
           NEW n, n = scan.at, n \in 1..Len(chunks), n <= MaxChunks,
           Clean(chunks), ~scan.iend, LegibleChunk(chunks[n]),
           chunks[n].type \notin {"damaged", "IEND"},
           scan'.at = n + 1, scan'.iend = scan.iend,
           scan'.decoded = scan.decoded + chunks[n].bytes,
           scan.decoded + chunks[n].bytes <= MaxTotalText, Len(candidates) < MaxCandidates,
           candidates' = Append(candidates, Candidate(chunks[n]))
    PROVE  Clean(chunks)'
<1> DEFINE S == Legible(chunks, n - 1)
<1>1. n \in Nat \ {0} /\ (n + 1) - 1 = n /\ Len(chunks) \in Nat
  BY FileLength DEF IsScan
<1>2. Legible(chunks, n) = S \cup {n} /\ S \subseteq 1..(n - 1) /\ n \notin S
  BY <1>1, LegibleNext
<1>3. \A m \in 1..n : m \in 1..(n - 1) \/ m = n
  BY <1>1
<1>4. \A m \in 1..n : chunks[m].type \notin {"damaged", "IEND"}
  BY <1>3 DEF Clean
<1>5. S \in SUBSET (1..Len(chunks))
  BY <1>1, <1>2
<1>6. /\ scan.decoded = Bytes(chunks, S)
      /\ Cardinality(S) = Len(candidates)
      /\ Collected(candidates, chunks, S)
  BY DEF Clean
<1> HIDE DEF S
<1>7. Bytes(chunks, S \cup {n}) = Bytes(chunks, S) + chunks[n].bytes
  BY <1>2, <1>5, BytesOfOneMore
<1>8. Candidate(chunks[n]) \in Texts(chunks)
  BY DEF Texts
<1>9. Len(candidates') = Len(candidates) + 1 /\ Len(candidates) \in Nat
  BY <1>8, LenProperties, AppendProperties
<1>10. Cardinality(S \cup {n}) = Cardinality(S) + 1
  BY <1>2, <1>5, ChunksFinite, FS_AddElement
<1>11. Collected(candidates', chunks, S \cup {n})
  BY <1>1, <1>2, <1>6, <1>8, CollectOne
<1>12. Len(candidates') <= MaxCandidates
  BY <1>9, LimitsAre
<1>13. /\ scan'.decoded = Bytes(chunks, Legible(chunks, n)) /\ scan'.decoded <= MaxTotalText
       /\ Cardinality(Legible(chunks, n)) = Len(candidates')
       /\ Collected(candidates', chunks, Legible(chunks, n))
  BY <1>2, <1>6, <1>7, <1>9, <1>10, <1>11
<1> QED
  BY <1>1, <1>4, <1>12, <1>13 DEF Clean

\* A chunk of the scan, in the words of the invariant.
LEMMA ScanKeeps ==
    ASSUME SceneGiven, Chosen, ScanInv, ScanChunk
    PROVE  ScanInv'
<1> SUFFICES ASSUME NEW chunks, chunks = File.chunks, NEW n, n = scan.at PROVE ScanInv'
  OBVIOUS
<1>1. File' = File /\ pc = "scan" /\ pc' = "scan"
  BY ScanSame
<1>2. IsFile(chunks)
  BY <1>1, FileIs DEF Chosen
<1>3. /\ Tallied /\ n \in 1..(Len(chunks) + 1)
      /\ IF scan.malformed \/ scan.limit THEN Beyond(chunks) ELSE Clean(chunks)
  BY <1>1 DEF ScanInv
<1>4. /\ n \in 1..Len(chunks) /\ n \in Nat \ {0} /\ Len(chunks) \in Nat
      /\ IsScan(scan) /\ ~scan.iend /\ ~scan.malformed /\ n >= 1
  BY <1>2, <1>3, FileLength DEF ScanChunk, Scanning, Tallied, IsScan
<1>5. Tallied'
  BY <1>2, <1>3, <1>4, ScanTallies
<1> SUFFICES /\ scan'.at \in 1..(Len(chunks) + 1)
             /\ IF scan'.malformed \/ scan'.limit THEN Beyond(chunks) ELSE Clean(chunks)'
  BY <1>1, <1>5 DEF ScanInv, Clean
<1>6. Chunk = chunks[n]
  BY DEF Chunk
<1> DEFINE over == \/ scan.decoded + chunks[n].bytes > MaxTotalText
                   \/ Len(candidates) >= MaxCandidates
<1>7. \/ /\ n > MaxChunks /\ UNCHANGED candidates
         /\ scan' = [scan EXCEPT !.limit = TRUE, !.at = Len(chunks) + 1]
      \/ /\ n <= MaxChunks /\ chunks[n].type = "damaged" /\ UNCHANGED candidates
         /\ scan' = [scan EXCEPT !.malformed = TRUE]
      \/ /\ n <= MaxChunks /\ chunks[n].type = "IEND" /\ UNCHANGED candidates
         /\ scan' = [scan EXCEPT !.iend = TRUE]
      \/ /\ n <= MaxChunks /\ chunks[n].type \notin {"damaged", "IEND"}
         /\ ~LegibleChunk(chunks[n]) /\ UNCHANGED candidates
         /\ \/ scan' = [scan EXCEPT !.at = @ + 1]
            \/ scan' = [scan EXCEPT !.at = @ + 1, !.recognised = @ + 1]
      \/ /\ n <= MaxChunks /\ chunks[n].type \notin {"damaged", "IEND"}
         /\ LegibleChunk(chunks[n]) /\ over /\ UNCHANGED candidates
         /\ scan' = [scan EXCEPT !.at = @ + 1, !.recognised = @ + 1, !.limit = TRUE]
      \/ /\ n <= MaxChunks /\ chunks[n].type \notin {"damaged", "IEND"}
         /\ LegibleChunk(chunks[n]) /\ ~over
         /\ candidates' = Append(candidates, Candidate(chunks[n]))
         /\ scan' = [scan EXCEPT !.at = @ + 1, !.recognised = @ + 1, !.decoded = @ + chunks[n].bytes]
  BY <1>4, <1>6, LimitsAre
     DEF ScanChunk, CollectChunk, LegibleChunk, CanonicalKeyword, TextTypes, Candidate
<1>8. scan'.at \in 1..(Len(chunks) + 1)
  <2>1. scan'.at \in {n, n + 1, Len(chunks) + 1}
    BY <1>4, <1>7 DEF IsScan, ScanNames
  <2> QED
    BY <1>4, <2>1
<1>9. CASE scan.limit
  <2>1. scan'.limit
    BY <1>4, <1>7, <1>9 DEF IsScan, ScanNames
  <2> QED
    BY <1>3, <1>8, <1>9, <2>1
<1>10. CASE ~scan.limit
  <2>1. Clean(chunks)
    BY <1>3, <1>4, <1>10
  <2>2. \A m \in 1..(n - 1) : chunks[m].type \notin {"damaged", "IEND"}
    BY <2>1 DEF Clean
  <2>3. CASE n > MaxChunks /\ scan' = [scan EXCEPT !.limit = TRUE, !.at = Len(chunks) + 1]
    <3>1. Beyond(chunks)
      BY <1>2, <1>4, <2>2, <2>3, TooLong
    <3>2. scan'.limit
      BY <1>4, <2>3 DEF IsScan, ScanNames
    <3> QED
      BY <1>8, <3>1, <3>2
  <2>4. CASE chunks[n].type = "damaged" /\ scan' = [scan EXCEPT !.malformed = TRUE]
    <3>1. Beyond(chunks)
      BY <1>2, <1>4, <2>2, <2>4, DamagedFile
    <3>2. scan'.malformed
      BY <1>4, <2>4 DEF IsScan, ScanNames
    <3> QED
      BY <1>8, <3>1, <3>2
  <2>5. CASE /\ n <= MaxChunks /\ chunks[n].type = "IEND" /\ UNCHANGED candidates
             /\ scan' = [scan EXCEPT !.iend = TRUE]
    <3>1. /\ scan'.at = n /\ scan'.decoded = scan.decoded
          /\ ~scan'.malformed /\ ~scan'.limit
      BY <1>4, <1>10, <2>5 DEF IsScan, ScanNames
    <3>2. Clean(chunks)'
      BY <1>4, <2>1, <2>5, <3>1 DEF Clean
    <3> QED
      BY <1>8, <3>1, <3>2
  <2>6. CASE /\ n <= MaxChunks /\ chunks[n].type \notin {"damaged", "IEND"}
             /\ ~LegibleChunk(chunks[n]) /\ UNCHANGED candidates
             /\ \/ scan' = [scan EXCEPT !.at = @ + 1]
                \/ scan' = [scan EXCEPT !.at = @ + 1, !.recognised = @ + 1]
    <3>1. /\ scan'.at = n + 1 /\ scan'.iend = scan.iend /\ scan'.decoded = scan.decoded
          /\ ~scan'.malformed /\ ~scan'.limit
      BY <1>4, <1>10, <2>6 DEF IsScan, ScanNames
    <3>2. Clean(chunks)'
      BY <1>4, <2>1, <2>6, <3>1, PassOver
    <3> QED
      BY <1>8, <3>1, <3>2
  <2>7. CASE /\ LegibleChunk(chunks[n]) /\ over
             /\ scan' = [scan EXCEPT !.at = @ + 1, !.recognised = @ + 1, !.limit = TRUE]
    <3>1. /\ scan.decoded = Bytes(chunks, Legible(chunks, n - 1))
          /\ Cardinality(Legible(chunks, n - 1)) = Len(candidates)
      BY <2>1 DEF Clean
    <3>2. Beyond(chunks)
      BY <1>2, <1>4, <2>2, <2>7, <3>1, TooMuch
    <3>3. scan'.limit
      BY <1>4, <2>7 DEF IsScan, ScanNames
    <3> QED
      BY <1>8, <3>2, <3>3
  <2>8. CASE /\ n <= MaxChunks /\ chunks[n].type \notin {"damaged", "IEND"}
             /\ LegibleChunk(chunks[n]) /\ ~over
             /\ candidates' = Append(candidates, Candidate(chunks[n]))
             /\ scan' = [scan EXCEPT !.at = @ + 1, !.recognised = @ + 1,
                                     !.decoded = @ + chunks[n].bytes]
    <3>1. chunks[n].bytes \in Nat /\ scan.decoded \in Nat
      BY <1>2, <1>4, FileLength DEF IsScan
    <3>2. /\ scan'.at = n + 1 /\ scan'.iend = scan.iend
          /\ scan'.decoded = scan.decoded + chunks[n].bytes
      BY <1>4, <2>8 DEF IsScan, ScanNames
    <3>3. ~scan'.malformed /\ ~scan'.limit
      BY <1>4, <1>10, <2>8 DEF IsScan, ScanNames
    <3>4. candidates \in Seq(Texts(chunks)) /\ Len(candidates) \in Nat
      BY <1>3, LenProperties DEF Tallied
    <3>5. scan.decoded + chunks[n].bytes <= MaxTotalText /\ Len(candidates) < MaxCandidates
      BY <2>8, <3>1, <3>4, LimitsAre
    <3>6. Clean(chunks)'
      BY <1>2, <1>4, <2>1, <2>8, <3>2, <3>4, <3>5, TakeUp
    <3> QED
      BY <1>8, <3>3, <3>6
  <2> QED
    BY <1>7, <2>3, <2>4, <2>5, <2>6, <2>7, <2>8
<1> QED
  BY <1>9, <1>10

-----------------------------------------------------------------------------
(***************************************************************************)
(* What is taken from a file                                               *)
(***************************************************************************)

\* What FirstUsableWins asks of the answer e for a file.
Won(chunks, e) ==
    LET good == {n \in Readable(chunks) : EvaluateCandidate(chunks[n]).class = "usable"}
        best == {n \in good : \A m \in good :
                    \/ Key(chunks[n]) < Key(chunks[m])
                    \/ Key(chunks[n]) = Key(chunks[m]) /\ n <= m}
    IN  IF WithinLimits(chunks) /\ good # {}
        THEN \E n \in best : e = EvaluateCandidate(chunks[n])
        ELSE e.class # "usable"

LEMMA WonNext ==
    (pc' = "sidecar" /\ scan' # NoScan => Won(File.chunks', embedded')) => FirstUsableWins'
BY Zenon DEF FirstUsableWins, Won

LEMMA NothingWon ==
    ASSUME NEW chunks, NEW e, e.class # "usable",
           Beyond(chunks) \/ \A n \in Readable(chunks) : ~IsUsable(chunks[n])
    PROVE  Won(chunks, e)
<1>1. Body(chunks) = {} => Readable(chunks) = {}
  BY DEF Readable
<1> QED
  BY <1>1, Zenon DEF Won, Beyond, IsUsable

LEMMA BestWins ==
    ASSUME NEW chunks, ~Beyond(chunks), NEW n \in Readable(chunks), IsUsable(chunks[n]),
           \A m \in Readable(chunks) : IsUsable(chunks[m]) =>
               \/ Key(chunks[n]) < Key(chunks[m])
               \/ Key(chunks[n]) = Key(chunks[m]) /\ n <= m
    PROVE  Won(chunks, EvaluateCandidate(chunks[n]))
<1> DEFINE good == {m \in Readable(chunks) : EvaluateCandidate(chunks[m]).class = "usable"}
<1>1. n \in good /\ WithinLimits(chunks)
  BY DEF IsUsable, Beyond
<1>2. \A m \in good : \/ Key(chunks[n]) < Key(chunks[m])
                      \/ Key(chunks[n]) = Key(chunks[m]) /\ n <= m
  BY DEF IsUsable
<1> QED
  BY <1>1, <1>2, Zenon DEF Won

\* A scan that came to IEND has seen all there is.
LEMMA ReadToItsEnd ==
    ASSUME NEW chunks, IsFile(chunks), IsScan(scan), scan.at >= 1, Clean(chunks), scan.iend
    PROVE  ~Beyond(chunks) /\ Readable(chunks) = Legible(chunks, scan.at - 1)
<1> SUFFICES ASSUME NEW n, n = scan.at
             PROVE  ~Beyond(chunks) /\ Readable(chunks) = Legible(chunks, n - 1)
  OBVIOUS
<1>1. /\ Len(chunks) \in Nat /\ n \in Nat \ {0} /\ n \in 1..Len(chunks)
      /\ n <= MaxChunks /\ chunks[n].type = "IEND"
  BY FileLength DEF IsScan, Clean
<1>2. /\ \A m \in 1..(n - 1) : chunks[m].type \notin {"damaged", "IEND"}
      /\ Bytes(chunks, Legible(chunks, n - 1)) <= MaxTotalText
      /\ Cardinality(Legible(chunks, n - 1)) <= MaxCandidates
  BY DEF Clean
<1>3. Body(chunks) = 1..n
  BY <1>1, <1>2, BodyUpTo
<1>4. ~LegibleChunk(chunks[n])
  BY <1>1 DEF LegibleChunk, CanonicalKeyword, TextTypes
<1>5. Readable(chunks) = Legible(chunks, n - 1)
  BY <1>1, <1>3, <1>4, ReadableIs, LegibleNext
<1>6. Cardinality(Body(chunks)) <= MaxChunks
  <2>1. Cardinality(1..n) = n
    BY <1>1, FS_Interval
  <2> QED
    BY <1>1, <1>3, <2>1
<1>7. Body(chunks) # {}
  BY <1>1, <1>3
<1> QED
  BY <1>2, <1>5, <1>6, <1>7, WithinIs DEF Beyond

\* A scan that ran out of chunks has seen no IEND.
LEMMA NoEnd ==
    ASSUME NEW chunks, IsFile(chunks), scan.at = Len(chunks) + 1, Clean(chunks)
    PROVE  Beyond(chunks)
<1> SUFFICES ASSUME Body(chunks) # {} PROVE FALSE
  BY DEF Beyond
<1>1. PICK last \in 1..Len(chunks) : chunks[last].type = "IEND"
  BY BodyIs
<1>2. last \in 1..(scan.at - 1)
  BY <1>1, FileLength
<1> QED
  BY <1>1, <1>2 DEF Clean

LEMMA Collects ==
    ASSUME NEW chunks, NEW cands, NEW S, Collected(cands, chunks, S)
    PROVE  Remaining(cands, chunks, S) /\ (Len(cands) = 0 => S = {})
<1>1. PICK at \in [1..Len(cands) -> S] :
        Places(cands, chunks, S, at) /\ \A n \in S : \E i \in 1..Len(cands) : at[i] = n
  BY DEF Collected
<1> QED
  BY <1>1 DEF Remaining

\* The end of the scan.
LEMMA ScanEnds ==
    ASSUME SceneGiven, Chosen, ScanInv, EndScan
    PROVE  JudgeInv' /\ FirstUsableWins'
<1> SUFFICES ASSUME NEW chunks, chunks = File.chunks PROVE JudgeInv' /\ FirstUsableWins'
  OBVIOUS
<1>1. /\ pc = "scan" /\ File' = File /\ scan' = scan
      /\ candidates' = candidates /\ rejected' = rejected
  BY DEF EndScan, File
<1>2. IsFile(chunks)
  BY <1>1, FileIs DEF Chosen
<1>3. /\ Tallied /\ IsScan(scan)
      /\ scan.at \in 1..(Len(chunks) + 1) /\ scan.at \in Nat /\ scan.at >= 1
      /\ IF scan.malformed \/ scan.limit THEN Beyond(chunks) ELSE Clean(chunks)
  <2>1. /\ Tallied /\ scan.at \in 1..(Len(chunks) + 1)
        /\ IF scan.malformed \/ scan.limit THEN Beyond(chunks) ELSE Clean(chunks)
    BY <1>1 DEF ScanInv
  <2> QED
    BY <2>1 DEF Tallied, IsScan
<1>4. \A class : Verdict(class).class = class
  BY DEF Verdict
<1>5. CASE ~ScanComplete
  <2>1. pc' = "sidecar" /\ embedded'.class = "encoded_or_unknown"
    BY <1>4, <1>5 DEF EndScan
  <2>2. Beyond(chunks)
    <3>1. CASE scan.malformed \/ scan.limit
      BY <1>3, <3>1
    <3>2. CASE ~(scan.malformed \/ scan.limit)
      <4>1. ~scan.iend /\ Clean(chunks)
        BY <1>3, <1>5, <3>2 DEF ScanComplete, IsScan
      <4>2. scan.at = Len(chunks) + 1
        BY <1>1, <1>2, <1>3, <3>2, <4>1, FileLength DEF EndScan, Scanning
      <4> QED
        BY <1>2, <4>1, <4>2, NoEnd
    <3> QED
      BY <3>1, <3>2
  <2>3. Won(chunks, embedded')
    BY <2>1, <2>2, NothingWon
  <2>4. FirstUsableWins'
    BY <1>1, <2>3, WonNext
  <2> QED
    BY <2>1, <2>4 DEF JudgeInv
<1>6. CASE ScanComplete
  <2>1. Clean(chunks) /\ scan.iend
    BY <1>3, <1>6 DEF ScanComplete
  <2>2. /\ ~Beyond(chunks) /\ Readable(chunks) = Legible(chunks, scan.at - 1)
        /\ Collected(candidates, chunks, Legible(chunks, scan.at - 1))
    BY <1>2, <1>3, <2>1, ReadToItsEnd DEF Clean
  <2>3. Len(candidates) \in Nat /\ Len(rejected) \in Nat /\ scan.recognised = Len(candidates) + Len(rejected)
    BY <1>3, LenProperties DEF Tallied
  <2>4. CASE scan.recognised = 0
    <3>1. pc' = "sidecar" /\ embedded' = NoEntries
      BY <1>6, <2>4 DEF EndScan
    <3>2. embedded'.class # "usable"
      BY <1>4, <3>1 DEF NoEntries
    <3>3. Readable(chunks) = {}
      BY <2>2, <2>3, <2>4, Collects
    <3>4. Won(chunks, embedded')
      BY <3>2, <3>3, NothingWon
    <3>5. FirstUsableWins'
      BY <1>1, <3>4, WonNext
    <3> QED
      BY <3>1, <3>5 DEF JudgeInv
  <2>5. CASE scan.recognised # 0
    <3>1. pc' = "judge"
      BY <1>6, <2>5 DEF EndScan
    <3>2. FirstUsableWins'
      BY <3>1 DEF FirstUsableWins
    <3>3. scan.recognised > 0
      BY <2>3, <2>5
    <3>4. Remaining(candidates, chunks, Readable(chunks))
      BY <2>2, Collects
    <3>5. Tallied'
      BY <1>1, <1>3 DEF Tallied
    <3> QED
      BY <1>1, <2>2, <3>2, <3>3, <3>4, <3>5 DEF JudgeInv
  <2> QED
    BY <2>4, <2>5
<1> QED
  BY <1>5, <1>6

\* The next candidate, when it is usable, is the first usable text of the best key.
LEMMA FirstIsBest ==
    ASSUME NEW chunks, NEW S \in SUBSET Nat, NEW E, candidates \in Seq(E), candidates # <<>>,
           Remaining(candidates, chunks, S), IsUsable(candidates[NextCandidate])
    PROVE  \E n \in S :
             /\ IsUsable(chunks[n])
             /\ EvaluateCandidate(candidates[NextCandidate]) = EvaluateCandidate(chunks[n])
             /\ \A m \in S : IsUsable(chunks[m]) =>
                    \/ Key(chunks[n]) < Key(chunks[m])
                    \/ Key(chunks[n]) = Key(chunks[m]) /\ n <= m
<1> DEFINE L == Len(candidates)
<1>1. PICK at \in [1..L -> S] :
        /\ Places(candidates, chunks, S, at)
        /\ \A n \in S : IsUsable(chunks[n]) => \E i \in 1..L : at[i] = n
  BY DEF Remaining
<1> SUFFICES ASSUME NEW k, k = NextCandidate
             PROVE  \E n \in S :
                      /\ IsUsable(chunks[n])
                      /\ EvaluateCandidate(candidates[k]) = EvaluateCandidate(chunks[n])
                      /\ \A m \in S : IsUsable(chunks[m]) =>
                             \/ Key(chunks[n]) < Key(chunks[m])
                             \/ Key(chunks[n]) = Key(chunks[m]) /\ n <= m
  OBVIOUS
<1>2. /\ k \in 1..L
      /\ \A j \in 1..L : \/ Key(candidates[k]) < Key(candidates[j])
                         \/ Key(candidates[k]) = Key(candidates[j]) /\ k <= j
  BY NextIs
<1>3. \A i \in 1..L : /\ at[i] \in S /\ candidates[i] = Candidate(chunks[at[i]])
                      /\ Key(candidates[i]) = Key(chunks[at[i]])
                      /\ EvaluateCandidate(candidates[i]) = EvaluateCandidate(chunks[at[i]])
  BY <1>1, SameVerdict DEF Places
<1>4. \A i, j \in 1..L : i <= j => at[i] <= at[j]
  <2> SUFFICES ASSUME NEW i \in 1..L, NEW j \in 1..L, i <= j PROVE at[i] <= at[j]
    OBVIOUS
  <2>1. at[i] \in Nat /\ at[j] \in Nat
    BY <1>3
  <2>2. CASE i = j
    BY <2>1, <2>2
  <2>3. CASE i < j
    BY <1>1, <2>1, <2>3 DEF Places
  <2> QED
    BY <2>2, <2>3
<1>5. ASSUME NEW m \in S, IsUsable(chunks[m])
      PROVE  \/ Key(chunks[at[k]]) < Key(chunks[m])
             \/ Key(chunks[at[k]]) = Key(chunks[m]) /\ at[k] <= m
  <2>1. PICK j \in 1..L : at[j] = m
    BY <1>1, <1>5
  <2> QED
    BY <1>2, <1>3, <1>4, <2>1
<1>6. IsUsable(chunks[at[k]])
  BY <1>2, <1>3 DEF IsUsable
<1> QED
  BY <1>2, <1>3, <1>5, <1>6

\* A judgement.
LEMMA CandidateJudged ==
    ASSUME SceneGiven, Chosen, JudgeInv, JudgeCandidate
    PROVE  JudgeInv' /\ FirstUsableWins'
<1> SUFFICES ASSUME NEW chunks, chunks = File.chunks, NEW k, k = NextCandidate,
                    NEW v, v = EvaluateCandidate(candidates[k])
             PROVE  JudgeInv' /\ FirstUsableWins'
  OBVIOUS
<1>1. pc = "judge" /\ File' = File /\ scan' = scan /\ candidates # <<>> /\ Judged(k, v)
  BY DEF JudgeCandidate, File
<1>2. IsFile(chunks)
  BY <1>1, FileIs DEF Chosen
<1>3. /\ Tallied /\ scan.recognised > 0 /\ ~Beyond(chunks)
      /\ Remaining(candidates, chunks, Readable(chunks))
  BY <1>1 DEF JudgeInv
<1>4. /\ candidates \in Seq(Texts(chunks)) /\ rejected \in Seq([class : Classes])
      /\ IsScan(scan) /\ scan.recognised = Len(candidates) + Len(rejected)
  BY <1>3 DEF Tallied
<1>5. Readable(chunks) \in SUBSET Nat
  <2>1. PICK last \in 1..Len(chunks) : Body(chunks) = 1..last
    BY <1>2, <1>3, BodyIs DEF Beyond
  <2> QED
    BY <2>1 DEF Readable
<1>6. CASE v.class = "usable"
  <2>1. pc' = "sidecar" /\ embedded' = v
    BY <1>1, <1>6 DEF Judged
  <2>2. IsUsable(candidates[k])
    BY <1>6 DEF IsUsable
  <2>3. PICK n \in Readable(chunks) :
          /\ IsUsable(chunks[n]) /\ v = EvaluateCandidate(chunks[n])
          /\ \A m \in Readable(chunks) : IsUsable(chunks[m]) =>
                 \/ Key(chunks[n]) < Key(chunks[m])
                 \/ Key(chunks[n]) = Key(chunks[m]) /\ n <= m
    BY <1>1, <1>3, <1>4, <1>5, <2>2, FirstIsBest
  <2>4. Won(chunks, v)
    BY <1>3, <2>3, BestWins
  <2>5. FirstUsableWins'
    BY <1>1, <2>1, <2>4, WonNext
  <2> QED
    BY <2>1, <2>5 DEF JudgeInv
<1>7. CASE v.class # "usable"
  <2>1. /\ rejected' = Append(rejected, [class |-> v.class])
        /\ candidates' = RemoveAt(candidates, k) /\ pc' = "judge"
    BY <1>1, <1>7 DEF Judged
  <2>2. k \in 1..Len(candidates)
    BY <1>1, <1>4, NextIs
  <2>3. v.class \in Classes
    BY <1>7, VerdictIs
  <2>4. rejected' \in Seq([class : Classes]) /\ Len(rejected') = Len(rejected) + 1
    <3>1. [class |-> v.class] \in [class : Classes]
      BY <2>3
    <3> QED
      BY <1>4, <2>1, <3>1, AppendProperties
  <2>5. candidates' \in Seq(Texts(chunks)) /\ Len(candidates') = Len(candidates) - 1
    BY <1>4, <2>1, <2>2, Without
  <2>6. Len(candidates) \in Nat /\ Len(rejected) \in Nat
    BY <1>4, LenProperties
  <2>7. Tallied'
    BY <1>1, <1>4, <2>4, <2>5, <2>6 DEF Tallied
  <2>8. Remaining(candidates', chunks, Readable(chunks))
    BY <1>3, <1>4, <1>5, <1>7, <2>1, <2>2, RefuseOne
  <2>9. FirstUsableWins'
    BY <2>1 DEF FirstUsableWins
  <2> QED
    BY <1>1, <1>3, <2>7, <2>8, <2>9 DEF JudgeInv
<1> QED
  BY <1>6, <1>7

\* The gravest refusal is a refusal.
LEMMA RefusalReported ==
    ASSUME rejected \in Seq([class : Classes]), Len(rejected) > 0
    PROVE  Priority[Min({n \in DOMAIN Priority :
                           [class |-> Priority[n]] \in Range(rejected)})] \in Classes
<1> DEFINE hits == {n \in DOMAIN Priority : [class |-> Priority[n]] \in Range(rejected)}
<1>1. DOMAIN Priority = 1..4 /\ \A n \in 1..4 : Priority[n] \in Classes
  BY DEF Priority, Classes
<1>2. \A c \in Classes : \E n \in 1..4 : Priority[n] = c
  BY DEF Priority, Classes
<1>3. rejected[1] \in [class : Classes] /\ rejected[1] \in Range(rejected)
  <2>1. Len(rejected) \in Nat /\ DOMAIN rejected = 1..Len(rejected)
    BY LenProperties
  <2>2. 1 \in 1..Len(rejected)
    BY <2>1
  <2> QED
    BY <2>1, <2>2, ElementOfSeq DEF Range
<1>4. PICK c \in Classes : rejected[1] = [class |-> c]
  BY <1>3
<1>5. hits # {} /\ hits \subseteq 1..4
  BY <1>1, <1>2, <1>3, <1>4
<1>6. hits \subseteq Nat
  BY <1>5
<1> HIDE DEF hits
<1>7. Min(hits) \in hits
  BY <1>5, <1>6, MinLeast
<1>8. Priority[Min(hits)] \in Classes
  BY <1>1, <1>5, <1>7
<1> QED
  BY <1>8 DEF hits

\* The candidates are exhausted.
LEMMA AllRefused ==
    ASSUME SceneGiven, Chosen, JudgeInv, NoneUsable
    PROVE  JudgeInv' /\ FirstUsableWins'
<1> SUFFICES ASSUME NEW chunks, chunks = File.chunks PROVE JudgeInv' /\ FirstUsableWins'
  OBVIOUS
<1>1. pc = "judge" /\ File' = File /\ scan' = scan /\ candidates = <<>> /\ pc' = "sidecar"
  BY DEF NoneUsable, File
<1>2. /\ rejected \in Seq([class : Classes]) /\ scan.recognised > 0
      /\ scan.recognised = Len(candidates) + Len(rejected)
      /\ Remaining(candidates, chunks, Readable(chunks))
  BY <1>1 DEF JudgeInv, Tallied
<1>3. Len(candidates) = 0 /\ Len(rejected) \in Nat
  BY <1>1, <1>2, EmptySeq, LenProperties
<1>4. Len(rejected) > 0
  BY <1>2, <1>3
<1>5. embedded'.class # "usable"
  <2>1. embedded'.class \in Classes
    BY <1>2, <1>4, RefusalReported DEF NoneUsable, Verdict
  <2> QED
    BY <2>1 DEF Classes
<1>6. ASSUME NEW n \in Readable(chunks) PROVE ~IsUsable(chunks[n])
  BY <1>2, <1>3 DEF Remaining
<1>7. Won(chunks, embedded')
  BY <1>5, <1>6, NothingWon
<1>8. FirstUsableWins'
  BY <1>1, <1>7, WonNext
<1> QED
  BY <1>1, <1>8 DEF JudgeInv

-----------------------------------------------------------------------------
(***************************************************************************)
(* The inspection                                                          *)
(***************************************************************************)

\* A scan begins with nothing read and nothing collected.
LEMMA ScanBegins ==
    ASSUME NEW chunks, chunks = File.chunks, IsFile(chunks),
           scan = NoScan, candidates = <<>>, rejected = <<>>
    PROVE  Tallied /\ scan.at \in 1..(Len(chunks) + 1) /\ Clean(chunks)
           /\ ~scan.malformed /\ ~scan.limit
<1>1. IsScan(scan)
  BY DEF NoScan, IsScan, ScanNames
<1>2. scan.at = 1 /\ scan.decoded = 0 /\ scan.recognised = 0
  BY DEF NoScan
<1>3. ~scan.malformed /\ ~scan.limit /\ ~scan.iend
  BY DEF NoScan
<1>4. Len(candidates) = 0 /\ Len(rejected) = 0 /\ Len(chunks) \in Nat
  BY EmptySeq, FileLength
<1>5. Tallied
  BY <1>1, <1>2, <1>4, EmptySeq DEF Tallied
<1>6. scan.at - 1 = 0 /\ 1..0 = {}
  BY <1>2
<1>7. Legible(chunks, 0) = {}
  BY <1>6 DEF Legible
<1>8. Cardinality({}) = 0 /\ Bytes(chunks, {}) = 0
  BY FS_EmptySet, BytesOfNone
<1>9. Collected(candidates, chunks, {})
  <2> DEFINE at == [i \in 1..0 |-> 0]
  <2>1. at \in [1..Len(candidates) -> {}]
    BY <1>4
  <2>2. Places(candidates, chunks, {}, at)
    BY <1>4, <2>1 DEF Places
  <2> QED
    BY <2>1, <2>2 DEF Collected
<1>10. Clean(chunks)
  <2>1. scan.decoded = Bytes(chunks, Legible(chunks, scan.at - 1)) /\ scan.decoded <= MaxTotalText
    <3>1. Legible(chunks, scan.at - 1) = {}
      BY <1>6, <1>7
    <3>2. 0 <= MaxTotalText
      BY LimitsAre
    <3> QED
      BY <1>2, <1>8, <3>1, <3>2
  <2>2. /\ Cardinality(Legible(chunks, scan.at - 1)) = Len(candidates)
        /\ Len(candidates) <= MaxCandidates
        /\ Collected(candidates, chunks, Legible(chunks, scan.at - 1))
    BY <1>4, <1>6, <1>7, <1>8, <1>9, LimitsAre
  <2>3. scan.at - 1 <= MaxChunks /\ 1..(scan.at - 1) = {}
    BY <1>6, LimitsAre
  <2> QED
    BY <1>3, <2>1, <2>2, <2>3 DEF Clean
<1> QED
  BY <1>2, <1>3, <1>4, <1>5, <1>10

LEMMA OriginalDownloaded ==
    ASSUME SceneGiven, Chosen, Unread, DownloadOriginal
    PROVE  ScanInv' /\ JudgeInv' /\ FirstUsableWins'
<1> SUFFICES ASSUME NEW chunks, chunks = File.chunks
             PROVE  ScanInv' /\ JudgeInv' /\ FirstUsableWins'
  OBVIOUS
<1>1. /\ pc = "captured" /\ pc' \in {"scan", "sidecar"} /\ File' = File
      /\ scan' = scan /\ candidates' = candidates /\ rejected' = rejected
  BY DEF DownloadOriginal, File
<1>2. IsFile(chunks)
  BY <1>1, FileIs DEF Chosen
<1>3. scan = NoScan /\ candidates = <<>> /\ rejected = <<>>
  BY <1>1 DEF Unread
<1>4. Tallied /\ scan.at \in 1..(Len(chunks) + 1) /\ Clean(chunks) /\ ~scan.malformed /\ ~scan.limit
  BY <1>2, <1>3, ScanBegins
<1>5. Tallied' /\ Clean(chunks)'
  BY <1>1, <1>4 DEF Tallied, Clean
<1>6. ScanInv'
  BY <1>1, <1>4, <1>5 DEF ScanInv, Clean
<1>7. FirstUsableWins'
  BY <1>1, <1>3, WonNext
<1> QED
  BY <1>1, <1>6, <1>7 DEF JudgeInv

\* What is found on the page names an attachment with a file.
LEMMA SelectionCaptured ==
    ASSUME SceneGiven, CaptureMetadataSelection
    PROVE  Chosen' /\ CompanionChosen'
<1> SUFFICES ASSUME NEW att, att = RecoverOriginalImageUrl(scene.urls)
             PROVE  Chosen' /\ CompanionChosen'
  OBVIOUS
<1>1. /\ scene' = scene /\ att # NotFound
      /\ \E stored \in BOOLEAN :
           selection' = [att |-> att,
                         companion |-> IF stored THEN MetadataCompanionForMessage(att, scene.message)
                                       ELSE [status |-> "none"]]
  BY DEF CaptureMetadataSelection
<1>2. att \in DOMAIN scene.files
  <2>1. \A n \in DOMAIN scene.urls : scene.urls[n].att \in DOMAIN scene.files \cup {NotFound}
    BY ScenesAssumption DEF SceneGiven
  <2>2. \E n \in DOMAIN scene.urls : att = scene.urls[n].att
    BY <1>1 DEF RecoverOriginalImageUrl
  <2> QED
    BY <1>1, <2>1, <2>2
<1>3. selection'.att = att
  BY <1>1
<1>4. selection'.companion.status = "found" =>
        selection'.companion = SelectCompanionMetadataAttachment(att, scene.message)
  <2>1. selection'.companion \in {MetadataCompanionForMessage(att, scene.message), [status |-> "none"]}
    BY <1>1
  <2>2. [status |-> "none"].status # "found"
    OBVIOUS
  <2> QED
    BY <2>1, <2>2 DEF MetadataCompanionForMessage
<1> QED
  BY <1>1, <1>2, <1>3, <1>4 DEF Chosen, CompanionChosen

LEMMA InspectionInitInv == InspectionInit => InspectionInv
BY DEF InspectionInit, InspectionInv, SceneGiven, Chosen, Unread, ScanInv, JudgeInv, FirstUsableWins,
       CompanionChosen, NoSelection

LEMMA InspectionNextInv == InspectionInv /\ [InspectionNext]_inspectionVars => InspectionInv'
<1> SUFFICES ASSUME InspectionInv, [InspectionNext]_inspectionVars PROVE InspectionInv'
  OBVIOUS
<1>1. /\ SceneGiven /\ Chosen /\ Unread /\ ScanInv /\ JudgeInv
      /\ FirstUsableWins /\ CompanionChosen
  BY DEF InspectionInv
<1>2. SceneGiven'
  BY <1>1 DEF SceneGiven, InspectionNext, CaptureMetadataSelection, DownloadOriginal, ScanChunk, EndScan,
              JudgeCandidate, NoneUsable, DownloadCompanion, Decide, TimeOut, inspectionVars
<1>3. CASE CaptureMetadataSelection
  <2>1. /\ Chosen' /\ CompanionChosen'
    BY <1>1, <1>3, SelectionCaptured
  <2>2. /\ pc = "idle" /\ pc' = "captured"
        /\ scan' = scan /\ candidates' = candidates /\ rejected' = rejected
    BY <1>3 DEF CaptureMetadataSelection
  <2>3. Unread'
    BY <1>1, <2>2 DEF Unread
  <2> QED
    BY <1>2, <2>1, <2>2, <2>3 DEF InspectionInv, ScanInv, JudgeInv, FirstUsableWins
<1>4. CASE DownloadOriginal
  <2>1. ScanInv' /\ JudgeInv' /\ FirstUsableWins'
    BY <1>1, <1>4, OriginalDownloaded
  <2>2. /\ pc = "captured" /\ pc' \in {"scan", "sidecar"}
        /\ scene' = scene /\ selection' = selection
    BY <1>4 DEF DownloadOriginal
  <2> QED
    BY <1>1, <1>2, <2>1, <2>2 DEF InspectionInv, Chosen, Unread, CompanionChosen
<1>5. CASE ScanChunk
  <2>1. ScanInv'
    BY <1>1, <1>5, ScanKeeps
  <2>2. pc = "scan" /\ pc' = "scan" /\ scene' = scene /\ selection' = selection
    BY <1>5 DEF ScanChunk, Scanning
  <2> QED
    BY <1>1, <1>2, <2>1, <2>2
       DEF InspectionInv, Chosen, Unread, JudgeInv, FirstUsableWins, CompanionChosen
<1>6. CASE EndScan
  <2>1. JudgeInv' /\ FirstUsableWins'
    BY <1>1, <1>6, ScanEnds
  <2>2. pc = "scan" /\ pc' \in {"judge", "sidecar"} /\ scene' = scene /\ selection' = selection
    BY <1>6 DEF EndScan
  <2> QED
    BY <1>1, <1>2, <2>1, <2>2 DEF InspectionInv, Chosen, Unread, ScanInv, CompanionChosen
<1>7. CASE JudgeCandidate
  <2>1. JudgeInv' /\ FirstUsableWins'
    BY <1>1, <1>7, CandidateJudged
  <2>2. pc = "judge" /\ pc' \in {"judge", "sidecar"} /\ scene' = scene /\ selection' = selection
    BY <1>7 DEF JudgeCandidate, Judged
  <2> QED
    BY <1>1, <1>2, <2>1, <2>2 DEF InspectionInv, Chosen, Unread, ScanInv, CompanionChosen
<1>8. CASE NoneUsable
  <2>1. JudgeInv' /\ FirstUsableWins'
    BY <1>1, <1>8, AllRefused
  <2>2. pc = "judge" /\ pc' = "sidecar" /\ scene' = scene /\ selection' = selection
    BY <1>8 DEF NoneUsable
  <2> QED
    BY <1>1, <1>2, <2>1, <2>2 DEF InspectionInv, Chosen, Unread, ScanInv, CompanionChosen
<1>9. CASE DownloadCompanion \/ Decide \/ TimeOut
  <2>1. pc # "idle" /\ pc' \in {"decide", "done"} /\ scene' = scene /\ selection' = selection
    BY <1>9 DEF DownloadCompanion, Decide, TimeOut
  <2> QED
    BY <1>1, <1>2, <2>1
       DEF InspectionInv, Chosen, Unread, ScanInv, JudgeInv, FirstUsableWins, CompanionChosen
<1>10. CASE UNCHANGED inspectionVars
  <2>1. /\ scene' = scene /\ pc' = pc /\ selection' = selection /\ scan' = scan
        /\ candidates' = candidates /\ rejected' = rejected /\ embedded' = embedded
    BY <1>10 DEF inspectionVars
  <2>2. File' = File
    BY <2>1 DEF File
  <2>3. ScanInv'
    BY <1>1, <2>1, <2>2 DEF ScanInv, Tallied, Clean
  <2>4. JudgeInv' /\ FirstUsableWins'
    BY <1>1, <2>1, <2>2 DEF JudgeInv, Tallied, FirstUsableWins
  <2> QED
    BY <1>1, <1>2, <2>1, <2>3, <2>4 DEF InspectionInv, Chosen, Unread, CompanionChosen
<1> QED
  BY <1>3, <1>4, <1>5, <1>6, <1>7, <1>8, <1>9, <1>10 DEF InspectionNext

LEMMA InspectionInductive == InspectionSpec => []InspectionInv
BY InspectionInitInv, InspectionNextInv, PTL DEF InspectionSpec

\* The plugin takes from a PNG the first usable "parameters" text, or else the
\* first usable "prompt" text, and only of a file that it could read to its IEND
\* within its limits on chunks, texts and bytes: whatever the file holds and in
\* whatever order, however large the limits are and whatever a ComfyUI graph
\* gives.
THEOREM FirstUsablePrompt == InspectionSpec => []FirstUsableWins
<1>1. InspectionInv => FirstUsableWins
  BY DEF InspectionInv
<1> QED
  BY <1>1, InspectionInductive, PTL

LEMMA OnlyOne ==
    ASSUME NEW S, IsFiniteSet(S), NEW x \in S, NEW y \in S, x # y
    PROVE  Cardinality(S) # 1
BY FS_Singleton

\* Two images of a message have no companion in common: if each shares its name
\* with it then neither is alone with that name, and if either is the only image
\* there is no other.
LEMMA OneImageEach ==
    ASSUME NEW message, IsFiniteSet(Range(message)), NEW att, NEW i \in ImageFiles(message),
           i.id # att,
           SelectCompanionMetadataAttachment(att, message).status = "found"
    PROVE  SelectCompanionMetadataAttachment(i.id, message)
               # SelectCompanionMetadataAttachment(att, message)
<1> SUFFICES ASSUME SelectCompanionMetadataAttachment(i.id, message)
                        = SelectCompanionMetadataAttachment(att, message)
             PROVE  FALSE
  OBVIOUS
<1> DEFINE image(a) == {x \in ImageFiles(message) : x.id = a}
           yaml     == YamlFiles(message)
           own(a)   == {y \in yaml : \E x \in image(a) : y.stem = x.stem}
           rival(a) == {x \in ImageFiles(message) : \E j \in image(a) : x.stem = j.stem}
           found(y) == [status |-> "found", att |-> y]
<1>1. ASSUME NEW a, SelectCompanionMetadataAttachment(a, message).status = "found"
      PROVE  /\ image(a) # {}
             /\ \/ /\ Cardinality(own(a)) = 1 /\ Cardinality(rival(a)) = 1
                   /\ SelectCompanionMetadataAttachment(a, message) = found(CHOOSE y \in own(a) : TRUE)
                \/ Cardinality(ImageFiles(message)) = 1
  BY <1>1 DEF SelectCompanionMetadataAttachment
<1>2. PICK j \in ImageFiles(message) : j.id = att
  BY <1>1
<1>3. IsFiniteSet(ImageFiles(message)) /\ IsFiniteSet(rival(att))
                                  /\ \A a : IsFiniteSet(own(a))
  <2>1. /\ ImageFiles(message) \subseteq Range(message) /\ rival(att) \subseteq Range(message)
        /\ \A a : own(a) \subseteq Range(message)
    BY DEF ImageFiles, YamlFiles, Records
  <2> HIDE DEF rival, own
  <2> QED
    BY <2>1, FS_Subset
<1>4. Cardinality(ImageFiles(message)) # 1
  BY <1>2, <1>3, OnlyOne
<1>5. /\ Cardinality(own(att)) = 1 /\ Cardinality(rival(att)) = 1 /\ Cardinality(own(i.id)) = 1
      /\ found(CHOOSE y \in own(att) : TRUE) = found(CHOOSE y \in own(i.id) : TRUE)
  <2> HIDE DEF own, rival, image, found
  <2>1. /\ Cardinality(own(att)) = 1 /\ Cardinality(rival(att)) = 1
        /\ SelectCompanionMetadataAttachment(att, message) = found(CHOOSE y \in own(att) : TRUE)
    BY <1>1, <1>4
  <2>2. SelectCompanionMetadataAttachment(i.id, message).status = "found"
    OBVIOUS
  <2>3. /\ Cardinality(own(i.id)) = 1
        /\ SelectCompanionMetadataAttachment(i.id, message) = found(CHOOSE y \in own(i.id) : TRUE)
    BY <1>1, <1>4, <2>2
  <2> QED
    BY <2>1, <2>3
<1>6. own(att) # {} /\ own(i.id) # {}
  <2>1. Cardinality({}) = 0
    BY FS_EmptySet
  <2>2. \A S : Cardinality(S) = 1 => S # {}
    BY <2>1
  <2> HIDE DEF own, rival, found
  <2> QED
    BY <1>5, <2>2
<1>7. PICK y : y \in own(att) /\ y \in own(i.id)
  <2>1. (CHOOSE y \in own(att) : TRUE) = (CHOOSE y \in own(i.id) : TRUE)
    BY <1>5
  <2> QED
    BY <1>6, <2>1
<1>8. PICK first \in image(att), second \in image(i.id) : y.stem = first.stem /\ y.stem = second.stem
  BY <1>7
<1>9. first \in rival(att) /\ second \in rival(att) /\ first # second
  BY <1>8
<1> QED
  BY <1>3, <1>5, <1>9, OnlyOne

\* A YAML attachment of a message is credited to one picture: the one paired with
\* the clicked image would not be paired with any other image of that message,
\* whatever the attachments are called and however many there are.
THEOREM CompanionsAreTheirOwn == InspectionSpec => []CompanionIsItsOwn
<1>1. SceneGiven /\ CompanionChosen => CompanionIsItsOwn
  <2> SUFFICES ASSUME SceneGiven, CompanionChosen, selection.companion.status = "found",
                      NEW i \in ImageFiles(scene.message), i.id # selection.att
               PROVE  SelectCompanionMetadataAttachment(i.id, scene.message) # selection.companion
    BY DEF CompanionIsItsOwn
  <2>1. IsFiniteSet(Range(scene.message))
    BY ScenesAssumption DEF SceneGiven
  <2>2. selection.companion = SelectCompanionMetadataAttachment(selection.att, scene.message)
    BY DEF CompanionChosen
  <2> QED
    BY <2>1, <2>2, OneImageEach
<1>2. InspectionInv => CompanionIsItsOwn
  BY <1>1 DEF InspectionInv
<1> QED
  BY <1>2, InspectionInductive, PTL
=============================================================================
