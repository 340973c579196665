------------------------- MODULE PluginHistoryProof -------------------------
(***************************************************************************)
(* Theorems of PluginHistory: the end of a job is announced at most once,  *)
(* a job that the list has shown as ended never reads as waiting again,    *)
(* nothing waits for a request that is not under way, and no object URL is *)
(* lost or revoked in use, for any number of jobs, requests, pages,        *)
(* filters, images and restarts.                                           *)
(*                                                                         *)
(* A job gets on: it waits, then it has ended.  An answer tells how far    *)
(* each job was when the companion read it.  Since only the newest request *)
(* is ever taken, what an answer says is never behind what the plugin      *)
(* already knows: that relation of the knowledge, the answer on its way    *)
(* and the companion's table is the inductive invariant.                   *)
(*                                                                         *)
(* A URL is made for a load, a capture or a selection.  What is alive is   *)
(* what the cache keeps and the preview, one URL for each image, and a     *)
(* load under way makes a URL that is not alive yet: that is the invariant *)
(* of the thumbnails.  Rendering begins a load for each image of the list, *)
(* a fold over a set: there is no least set of images that breaks it.      *)
(***************************************************************************)
EXTENDS PluginHistory, WellFoundedInduction, SequenceTheorems, FiniteSetTheorems, TLAPS

\* How far a job of the given status is.
Rank(status) == IF status = "none" THEN 0 ELSE IF status = "active" THEN 1 ELSE 2

IsFunction(f, S) == f = [x \in S |-> f[x]]

\* Every request on its way is aborted, but the newest.
NewestOnly ==
    \A f \in Flights : flight[f].st # "free" /\ ~flight[f].aborted => f = cur

Coming(f) == flight[f].st = "answered" /\ ~flight[f].aborted

\* One status for each job.
Single(rows) == \A r, s \in rows : r.job = s.job => r.status = s.status

\* What is known of a job is not ahead of the answer, nor that of the companion.
InOrder ==
    /\ \A j \in Jobs : Rank(known[j]) <= Rank(srv[j])
    /\ \A f \in Flights : Coming(f) =>
         /\ Single(flight[f].answer.rows)
         /\ \A r \in flight[f].answer.rows : r.job \in Jobs =>
              /\ Rank(known[r.job]) <= Rank(r.status)
              /\ Rank(r.status) <= Rank(srv[r.job])

\* The list shows what is known.
ShownIsKnown == \A r \in shown.rows : r.job \in Jobs => known[r.job] = r.status

\* An announced job is known to have ended.
ToldIsKnown ==
    \A j \in Jobs : told[j] = 0 \/ (told[j] = 1 /\ Rank(known[j]) = 2)

Functions ==
    IsFunction(srv, Jobs) /\ IsFunction(known, Jobs) /\ IsFunction(told, Jobs)
      /\ IsFunction(flight, Flights)

IInv == Functions /\ NewestOnly /\ InOrder /\ ShownIsKnown /\ ToldIsKnown

\* The companion's jobs only get on.
GetsOn == IsFunction(srv', Jobs) /\ \A j \in Jobs : Rank(srv[j]) <= Rank(srv'[j])

-----------------------------------------------------------------------------
LEMMA RankType == \A s : Rank(s) \in {0, 1, 2}
BY DEF Rank

LEMMA InitInv == Init => IInv
<1> SUFFICES ASSUME Init PROVE IInv
  OBVIOUS
<1>1. Functions
  BY DEF Init, Functions, IsFunction
<1>2. NewestOnly /\ \A f \in Flights : ~Coming(f)
  BY DEF Init, NewestOnly, Coming, NoFlight
<1>3. InOrder
  BY <1>2 DEF Init, InOrder, Rank
<1>4. ShownIsKnown /\ ToldIsKnown
  BY DEF Init, ShownIsKnown, ToldIsKnown, NoPage
<1> QED
  BY <1>1, <1>2, <1>3, <1>4 DEF IInv

\* A step that brings no answer, keeps the rule about the newest request and
\* lets jobs get on.
LEMMA NothingLearnt ==
    ASSUME IInv, UNCHANGED <<shown, known, told>>, GetsOn,
           IsFunction(flight', Flights), NewestOnly',
           \A f \in Flights : Coming(f)' => flight'[f] = flight[f]
    PROVE  IInv'
<1>1. Functions' /\ ShownIsKnown' /\ ToldIsKnown'
  BY DEF IInv, Functions, ShownIsKnown, ToldIsKnown, GetsOn, IsFunction
<1>2. \A j \in Jobs : Rank(known'[j]) <= Rank(srv'[j])
  BY RankType DEF IInv, InOrder, GetsOn
<1>3. ASSUME NEW f \in Flights, Coming(f)'
      PROVE  /\ Single(flight'[f].answer.rows)
             /\ \A r \in flight'[f].answer.rows : r.job \in Jobs =>
                  /\ Rank(known'[r.job]) <= Rank(r.status)
                  /\ Rank(r.status) <= Rank(srv'[r.job])
  <2>1. flight'[f] = flight[f] /\ Coming(f)
    BY <1>3 DEF Coming
  <2> QED
    BY <2>1, RankType DEF IInv, InOrder, GetsOn
<1>4. InOrder'
  BY <1>2, <1>3 DEF InOrder
<1> QED
  BY <1>1, <1>4 DEF IInv

\* The requests are as they were.
LEMMA NothingAsked ==
    ASSUME IInv, UNCHANGED <<shown, known, told, flight, cur>>, GetsOn
    PROVE  IInv'
<1>1. NewestOnly' /\ IsFunction(flight', Flights)
  BY DEF IInv, NewestOnly, Functions, IsFunction
<1> QED
  BY <1>1, NothingLearnt

LEMMA SameJobs == ASSUME IInv, UNCHANGED srv PROVE GetsOn
BY RankType DEF IInv, Functions, GetsOn, IsFunction

\* A new request aborts the one before.
LEMMA RefreshKeeps ==
    ASSUME IInv, NEW u, NEW t, Refresh(u, t), UNCHANGED <<shown, known, told>>, GetsOn
    PROVE  IInv'
<1> DEFINE s == Min(Slots)
           new == [NoFlight EXCEPT !.st = "sent", !.q = QueryOf(u), !.page = u.page]
<1>1. /\ cur' = s
      /\ flight' = [f \in Flights |-> IF f = s THEN new ELSE IF f = cur THEN Aborted
                                      ELSE flight[f]]
  BY DEF Refresh
<1>2. new.st = "sent" /\ Aborted.aborted /\ Aborted.st = "sent"
  BY DEF NoFlight, Aborted
<1> HIDE DEF s, new
<1>3. \A f \in Flights : flight'[f] = IF f = s THEN new ELSE IF f = cur THEN Aborted
                                      ELSE flight[f]
  BY <1>1
<1>4. NewestOnly'
  BY <1>1, <1>2, <1>3 DEF IInv, NewestOnly
<1>5. \A f \in Flights : Coming(f)' => flight'[f] = flight[f]
  BY <1>2, <1>3 DEF Coming
<1>6. IsFunction(flight', Flights)
  BY <1>1 DEF IsFunction
<1> QED
  BY <1>4, <1>5, <1>6, NothingLearnt

\* A request has come to an end.
LEMMA Settled ==
    ASSUME IInv, NEW f \in Flights, NEW u, NEW s, Settles(f, u, s)
    PROVE  /\ IsFunction(flight', Flights) /\ NewestOnly'
           /\ \A g \in Flights : Coming(g)' => g # f /\ flight'[g] = flight[g]
<1>1. /\ flight' = [flight EXCEPT ![f] = NoFlight]
      /\ cur' = IF cur = f THEN 0 ELSE cur
  BY DEF Settles
<1>2. NoFlight.st = "free"
  BY DEF NoFlight
<1>3. /\ flight' = [g \in Flights |-> IF g = f THEN NoFlight ELSE flight[g]]
      /\ \A g \in Flights : flight'[g] = IF g = f THEN NoFlight ELSE flight[g]
  BY <1>1 DEF IInv, Functions, IsFunction
<1>4. IsFunction(flight', Flights)
  BY <1>3 DEF IsFunction
<1>5. NewestOnly'
  BY <1>1, <1>2, <1>3 DEF IInv, NewestOnly
<1>6. \A g \in Flights : Coming(g)' => g # f /\ flight'[g] = flight[g]
  BY <1>2, <1>3 DEF Coming
<1> QED
  BY <1>4, <1>5, <1>6

-----------------------------------------------------------------------------
(***************************************************************************)
(* The steps                                                               *)
(***************************************************************************)

\* One job gets on.
LEMMA OneGetsOn ==
    ASSUME Functions, NEW j \in Jobs, NEW s, Rank(srv[j]) <= Rank(s),
           srv' = [srv EXCEPT ![j] = s]
    PROVE  GetsOn
<1>1. srv' = [k \in Jobs |-> IF k = j THEN s ELSE srv[k]]
  BY DEF Functions, IsFunction
<1>2. \A k \in Jobs : srv'[k] = IF k = j THEN s ELSE srv[k]
  BY <1>1
<1>3. \A k \in Jobs : Rank(srv[k]) <= Rank(srv'[k])
  BY <1>2, RankType
<1> QED
  BY <1>1, <1>3 DEF GetsOn, IsFunction

LEMMA JobsGetOn ==
    ASSUME IInv, NEW j \in Jobs, JobAppears(j) \/ JobEnds(j)
    PROVE  IInv'
<1>1. UNCHANGED <<shown, known, told, flight, cur>>
  BY DEF JobAppears, JobEnds, list
<1>2. PICK s : Rank(srv[j]) <= Rank(s) /\ srv' = [srv EXCEPT ![j] = s]
  BY DEF JobAppears, JobEnds, Ended, Rank
<1>3. GetsOn
  BY <1>2, OneGetsOn DEF IInv
<1> QED
  BY <1>1, <1>3, NothingAsked

LEMMA CancelKeeps ==
    ASSUME IInv, NEW j \in Jobs, Cancel(j)
    PROVE  IInv'
<1>1. PICK s \in {srv[j], IF srv[j] = "active" THEN "failed" ELSE srv[j]} :
        srv' = [srv EXCEPT ![j] = s]
  BY DEF Cancel
<1>2. Rank(srv[j]) <= Rank(s)
  BY <1>1 DEF Rank
<1>3. GetsOn
  BY <1>1, <1>2, OneGetsOn DEF IInv
<1>4. Refresh(ui, th) /\ UNCHANGED <<shown, known, told>>
  BY DEF Cancel
<1> QED
  BY <1>3, <1>4, RefreshKeeps

LEMMA ClearKeeps ==
    ASSUME IInv, CompanionClears
    PROVE  IInv'
<1>1. UNCHANGED <<shown, known, told, flight, cur>>
  BY DEF CompanionClears, list
<1>2. GetsOn
  BY RankType DEF CompanionClears, Ended, IInv, Functions, IsFunction, GetsOn, Rank
<1> QED
  BY <1>1, <1>2, NothingAsked

\* Every row that the companion answers with has the job's status of now.
LEMMA AnswerIsNow ==
    \A q, p, by : \A r \in Answered(q, p, by).rows : r.status = srv[r.job]
BY DEF Answered

LEMMA AnswersKeep ==
    ASSUME IInv, NEW f \in Flights, CompanionAnswers(f)
    PROVE  IInv'
<1>0. PICK by : flight' = [flight EXCEPT ![f] =
               [NoFlight EXCEPT !.st = "answered",
                                !.answer = Answered(flight[f].q, flight[f].page, by)]]
  BY DEF CompanionAnswers
<1> DEFINE a == Answered(flight[f].q, flight[f].page, by)
           new == [NoFlight EXCEPT !.st = "answered", !.answer = a]
<1>1. /\ flight[f].st = "sent" /\ ~flight[f].aborted
      /\ flight' = [flight EXCEPT ![f] = new]
      /\ UNCHANGED <<srv, shown, cur, known, told>>
  BY <1>0 DEF CompanionAnswers
<1>2. new.st = "answered" /\ new.answer = a
  BY DEF NoFlight
<1>3. \A r \in a.rows : r.status = srv[r.job]
  BY AnswerIsNow
<1> HIDE DEF a, new
<1>4. /\ flight' = [g \in Flights |-> IF g = f THEN new ELSE flight[g]]
      /\ \A g \in Flights : flight'[g] = IF g = f THEN new ELSE flight[g]
  BY <1>1 DEF IInv, Functions, IsFunction
<1>5. Functions'
  BY <1>1, <1>4 DEF IInv, Functions, IsFunction
<1>6. NewestOnly'
  BY <1>1, <1>2, <1>4 DEF IInv, NewestOnly
<1>7. ASSUME NEW g \in Flights, Coming(g)'
      PROVE  /\ Single(flight'[g].answer.rows)
             /\ \A r \in flight'[g].answer.rows : r.job \in Jobs =>
                  /\ Rank(known'[r.job]) <= Rank(r.status)
                  /\ Rank(r.status) <= Rank(srv'[r.job])
  <2>1. CASE g = f
    <3>1. flight'[g].answer.rows = a.rows
      BY <1>2, <1>4, <2>1
    <3>2. Single(a.rows)
      BY <1>3 DEF Single
    <3>3. \A r \in a.rows : r.job \in Jobs =>
            /\ Rank(known[r.job]) <= Rank(r.status)
            /\ Rank(r.status) <= Rank(srv[r.job])
      BY <1>3, RankType DEF IInv, InOrder
    <3> QED
      BY <1>1, <3>1, <3>2, <3>3
  <2>2. CASE g # f
    <3>1. flight'[g] = flight[g] /\ Coming(g)
      BY <1>4, <1>7, <2>2 DEF Coming
    <3> QED
      BY <1>1, <3>1 DEF IInv, InOrder
  <2> QED
    BY <2>1, <2>2
<1>8. InOrder'
  BY <1>1, <1>7 DEF IInv, InOrder
<1>9. ShownIsKnown' /\ ToldIsKnown'
  BY <1>1 DEF IInv, ShownIsKnown, ToldIsKnown
<1> QED
  BY <1>5, <1>6, <1>8, <1>9 DEF IInv

\* What an answer teaches: the newest request is the only one that may be taken.
LEMMA ArrivesTeaches ==
    ASSUME IInv, NEW f \in Flights, Arrives(f)
    PROVE  /\ shown' = flight[f].answer
           /\ Single(shown'.rows)
           /\ \A r \in shown'.rows : r.job \in Jobs =>
                /\ Rank(known[r.job]) <= Rank(r.status)
                /\ Rank(r.status) <= Rank(srv[r.job])
                /\ known'[r.job] = r.status
           /\ \A j \in Jobs : (\A r \in shown'.rows : r.job # j) => known'[j] = known[j]
           /\ IsFunction(known', Jobs)
<1> DEFINE rows == flight[f].answer.rows
<1>1. /\ Coming(f) /\ Noted(rows) /\ shown' = flight[f].answer
  BY DEF Arrives, Coming
<1>2. /\ Single(rows)
      /\ \A r \in rows : r.job \in Jobs =>
           /\ Rank(known[r.job]) <= Rank(r.status)
           /\ Rank(r.status) <= Rank(srv[r.job])
  BY <1>1 DEF IInv, InOrder
<1>3. known' = [j \in Jobs |-> IF \E r \in rows : r.job = j
                                THEN StatusIn(rows, j) ELSE known[j]]
  BY <1>1 DEF Noted, Announced
<1> HIDE DEF rows
<1>4. ASSUME NEW r \in rows, r.job \in Jobs
      PROVE  known'[r.job] = r.status
  <2> DEFINE c == CHOOSE x \in rows : x.job = r.job
  <2>1. c \in rows /\ c.job = r.job
    OBVIOUS
  <2>2. c.status = r.status
    BY <1>2, <2>1 DEF Single
  <2>3. known'[r.job] = c.status
    BY <1>3, <1>4 DEF StatusIn
  <2> QED
    BY <2>2, <2>3
<1>5. shown'.rows = rows
  BY <1>1 DEF rows
<1>6. IsFunction(known', Jobs)
  BY <1>3 DEF IsFunction
<1>7. \A j \in Jobs : (\A r \in rows : r.job # j) => known'[j] = known[j]
  BY <1>3
<1> QED
  BY <1>1, <1>2, <1>4, <1>5, <1>6, <1>7

LEMMA ArrivesKeeps ==
    ASSUME IInv, NEW f \in Flights, Arrives(f)
    PROVE  IInv'
<1> DEFINE rows == flight[f].answer.rows
<1>1. /\ shown'.rows = rows /\ Single(rows)
      /\ \A r \in rows : r.job \in Jobs =>
           /\ Rank(known[r.job]) <= Rank(r.status)
           /\ Rank(r.status) <= Rank(srv[r.job])
           /\ known'[r.job] = r.status
      /\ \A j \in Jobs : (\A r \in rows : r.job # j) => known'[j] = known[j]
      /\ IsFunction(known', Jobs)
  BY ArrivesTeaches
<1>2. /\ IsFunction(flight', Flights) /\ NewestOnly'
      /\ \A g \in Flights : Coming(g)' => g # f /\ Coming(g)
  <2>1. \E u, s : Settles(f, u, s)
    BY DEF Arrives
  <2>2. \A g \in Flights : Coming(g)' => g # f /\ flight'[g] = flight[g]
    BY <2>1, Settled
  <2> QED
    BY <2>1, <2>2, Settled DEF Coming
<1>3. \A g \in Flights : ~Coming(g)'
  <2>1. f = cur
    BY DEF Arrives, IInv, NewestOnly
  <2>2. \A g \in Flights : Coming(g) => g = cur
    BY DEF Coming, IInv, NewestOnly
  <2> QED
    BY <1>2, <2>1, <2>2
<1>4. srv' = srv /\ told' = [j \in Jobs |-> told[j] + IF j \in NewlyEnded(rows) THEN 1 ELSE 0]
  BY DEF Arrives, Noted, Announced
<1> HIDE DEF rows
<1>5. \A j \in Jobs : Rank(known[j]) <= Rank(known'[j]) /\ Rank(known'[j]) <= Rank(srv[j])
  <2> SUFFICES ASSUME NEW j \in Jobs
               PROVE  Rank(known[j]) <= Rank(known'[j]) /\ Rank(known'[j]) <= Rank(srv[j])
    OBVIOUS
  <2>1. CASE \E r \in rows : r.job = j
    BY <1>1, <2>1
  <2>2. CASE \A r \in rows : r.job # j
    BY <1>1, <2>2, RankType DEF IInv, InOrder
  <2> QED
    BY <2>1, <2>2
<1>6. InOrder'
  BY <1>3, <1>4, <1>5 DEF InOrder
<1>7. ShownIsKnown'
  BY <1>1 DEF ShownIsKnown
<1>8. ToldIsKnown'
  <2> SUFFICES ASSUME NEW j \in Jobs
               PROVE  told'[j] = 0 \/ (told'[j] = 1 /\ Rank(known'[j]) = 2)
    BY DEF ToldIsKnown
  <2>1. told[j] = 0 \/ (told[j] = 1 /\ Rank(known[j]) = 2)
    BY DEF IInv, ToldIsKnown
  <2>2. CASE j \in NewlyEnded(rows)
    <3>1. PICK r \in rows : r.job = j /\ known[j] = "active" /\ r.status # "active"
      BY <2>2 DEF NewlyEnded
    <3>2. Rank(known[j]) = 1 /\ Rank(r.status) # 1
      BY <3>1 DEF Rank
    <3>3. Rank(known'[j]) = 2
      BY <1>1, <3>1, <3>2, RankType
    <3>4. told[j] = 0 /\ told'[j] = 1
      BY <1>4, <2>1, <2>2, <3>2
    <3> QED
      BY <3>3, <3>4
  <2>3. CASE j \notin NewlyEnded(rows)
    <3>1. told'[j] = told[j]
      BY <1>4, <2>1, <2>3
    <3> QED
      BY <1>5, <2>1, <3>1, RankType
  <2> QED
    BY <2>2, <2>3
<1>9. Functions'
  BY <1>1, <1>2, <1>4 DEF IInv, Functions, IsFunction
<1> QED
  BY <1>2, <1>6, <1>7, <1>8, <1>9 DEF IInv

\* A request fails or is dropped: nothing is learnt.
LEMMA EndKeeps ==
    ASSUME IInv, NEW f \in Flights, Fails(f) \/ Drops(f)
    PROVE  IInv'
<1>1. /\ \E u, s : Settles(f, u, s)
      /\ UNCHANGED <<srv, shown, known, told>>
  BY DEF Fails, Drops
<1>2. /\ IsFunction(flight', Flights) /\ NewestOnly'
      /\ \A g \in Flights : Coming(g)' => flight'[g] = flight[g]
  BY <1>1, Settled
<1> QED
  BY <1>1, <1>2, SameJobs, NothingLearnt

\* The end of the plugin aborts the newest request.
LEMMA StopKeeps ==
    ASSUME IInv, Stop
    PROVE  IInv'
<1>1. /\ flight' = [f \in Flights |-> IF f = cur THEN Aborted ELSE flight[f]]
      /\ UNCHANGED <<srv, shown, known, told>>
  BY DEF Stop
<1>2. Aborted.aborted
  BY DEF Aborted, NoFlight
<1>3. \A f \in Flights : flight'[f] = IF f = cur THEN Aborted ELSE flight[f]
  BY <1>1
<1>4. NewestOnly'
  BY <1>2, <1>3 DEF IInv, NewestOnly
<1>5. \A f \in Flights : Coming(f)' => flight'[f] = flight[f]
  BY <1>2, <1>3 DEF Coming
<1>6. IsFunction(flight', Flights)
  BY <1>1 DEF IsFunction
<1> QED
  BY <1>1, <1>4, <1>5, <1>6, SameJobs, NothingLearnt

\* The rail's controls, the windows and the images ask for the list, or do not.
AsksOrNot ==
    /\ UNCHANGED <<srv, shown, known, told>>
    /\ (\E u, t : Refresh(u, t)) \/ UNCHANGED <<flight, cur>>

LEMMA ControlsKeep == ASSUME IInv, AsksOrNot PROVE IInv'
BY SameJobs, RefreshKeeps, NothingAsked DEF AsksOrNot

LEMMA NextInv == IInv /\ [Next]_vars => IInv'
<1> SUFFICES ASSUME IInv, [Next]_vars PROVE IInv'
  OBVIOUS
<1>1. ASSUME NEW j \in Jobs, JobAppears(j) \/ JobEnds(j) \/ Cancel(j) \/ OpenDetail(j)
      PROVE  IInv'
  <2>1. OpenDetail(j) => AsksOrNot
    BY DEF OpenDetail, AsksOrNot, list
  <2> QED
    BY <1>1, <2>1, JobsGetOn, CancelKeeps, ControlsKeep
<1>2. ASSUME NEW f \in Flights, CompanionAnswers(f) \/ Arrives(f) \/ Fails(f) \/ Drops(f)
      PROVE  IInv'
  BY <1>2, AnswersKeep, ArrivesKeeps, EndKeeps
<1>3. CASE (\E i \in Urls : LoadEnds(i)) \/ (\E h \in Hashes : Capture(h) \/ SelectFile(h))
           \/ RemoveFile \/ QueueFile
  <2>1. AsksOrNot
    BY <1>3 DEF LoadEnds, Capture, SelectFile, RemoveFile, QueueFile, AsksOrNot, list
  <2> QED
    BY <2>1, ControlsKeep
<1>4. CASE Poll \/ RouteChanges \/ SearchTimer \/ (\E tab \in Tabs : SelectTab(tab))
           \/ Search \/ SelectModel \/ RefreshButton
  <2>1. AsksOrNot
    BY <1>4 DEF Poll, RouteChanges, SearchTimer, SelectTab, Search, SelectModel,
                RefreshButton, Renders, AsksOrNot
  <2> QED
    BY <2>1, ControlsKeep
<1>5. CASE (\E d \in {-1, 1} : TurnPage(d)) \/ (\E b \in BOOLEAN : Collapse(b) \/ Overlay(b))
           \/ ClearAsked \/ Cleared \/ Escape \/ Start
  <2>1. AsksOrNot
    BY <1>5 DEF TurnPage, Collapse, Overlay, ClearAsked, Cleared, Escape, Start, Renders,
                AsksOrNot, list
  <2> QED
    BY <2>1, ControlsKeep
<1>6. CASE CloseDetail \/ DetailTick \/ DetailArrives \/ DetailFails \/ DetailRenders
  <2>1. AsksOrNot
    BY <1>6 DEF CloseDetail, DetailTick, DetailArrives, DetailFails, DetailRenders,
                AsksOrNot, list
  <2> QED
    BY <2>1, ControlsKeep
<1>7. CASE CompanionClears \/ Stop
  BY <1>7, ClearKeeps, StopKeeps
<1>8. CASE UNCHANGED vars
  <2>1. AsksOrNot
    BY <1>8 DEF vars, list, AsksOrNot
  <2> QED
    BY <2>1, ControlsKeep
<1> QED
  BY <1>1, <1>2, <1>3, <1>4, <1>5, <1>6, <1>7, <1>8 DEF Next

LEMMA Inductive == Spec => []IInv
BY InitInv, NextInv, PTL DEF Spec

-----------------------------------------------------------------------------
\* The end of a job is announced at most once, and only when it has ended.
THEOREM AnnouncedOnce == Spec => []ToldOnce
<1>1. IInv => ToldOnce
  BY DEF IInv, ToldOnce, ToldIsKnown, InOrder, Rank
<1> QED
  BY Inductive, <1>1, PTL

\* Only an answer changes what the list shows.
LEMMA ShownChanges == [Next]_vars => UNCHANGED shown \/ \E f \in Flights : Arrives(f)
<1> SUFFICES ASSUME [Next]_vars, ~(\E f \in Flights : Arrives(f)) PROVE UNCHANGED shown
  OBVIOUS
<1>1. CASE \E j \in Jobs : JobAppears(j) \/ JobEnds(j) \/ Cancel(j) \/ OpenDetail(j)
  BY <1>1 DEF JobAppears, JobEnds, Cancel, OpenDetail, list
<1>2. CASE \E f \in Flights : CompanionAnswers(f) \/ Arrives(f) \/ Fails(f) \/ Drops(f)
  BY <1>2 DEF CompanionAnswers, Fails, Drops
<1>3. CASE (\E i \in Urls : LoadEnds(i)) \/ (\E h \in Hashes : Capture(h) \/ SelectFile(h))
           \/ RemoveFile \/ QueueFile
  BY <1>3 DEF LoadEnds, Capture, SelectFile, RemoveFile, QueueFile, list
<1>4. CASE Poll \/ RouteChanges \/ SearchTimer \/ (\E tab \in Tabs : SelectTab(tab))
           \/ Search \/ SelectModel \/ RefreshButton
  BY <1>4 DEF Poll, RouteChanges, SearchTimer, SelectTab, Search, SelectModel, RefreshButton
<1>5. CASE (\E d \in {-1, 1} : TurnPage(d)) \/ (\E b \in BOOLEAN : Collapse(b) \/ Overlay(b))
           \/ ClearAsked \/ CompanionClears \/ Cleared \/ Escape \/ Stop \/ Start
  BY <1>5 DEF TurnPage, Collapse, Overlay, ClearAsked, CompanionClears, Cleared, Escape, Stop,
              Start, list
<1>6. CASE CloseDetail \/ DetailTick \/ DetailArrives \/ DetailFails \/ DetailRenders
  BY <1>6 DEF CloseDetail, DetailTick, DetailArrives, DetailFails, DetailRenders, list
<1>7. CASE UNCHANGED vars
  BY <1>7 DEF vars, list
<1> QED
  BY <1>1, <1>2, <1>3, <1>4, <1>5, <1>6, <1>7 DEF Next

\* A job the list shows as ended is not shown as waiting afterwards, in whatever
\* order the answers of overlapping requests come.
THEOREM EndedStaysEnded == Spec => NeverReverts
<1> DEFINE Step == \A j \in Jobs : Says(shown, j, Ended) => ~Says(shown', j, {"active"})
<1>1. ASSUME IInv, [Next]_vars PROVE Step
  <2> SUFFICES ASSUME NEW j \in Jobs, NEW r \in shown.rows, NEW s \in shown'.rows,
                      r.job = j, r.status \in Ended, s.job = j, s.status = "active"
               PROVE  FALSE
    BY DEF Says
  <2>1. known[j] = r.status /\ Rank(known[j]) = 2
    BY <1>1 DEF IInv, ShownIsKnown, Ended, Rank
  <2>2. CASE UNCHANGED shown
    <3>1. known[j] = s.status
      BY <1>1, <2>2 DEF IInv, ShownIsKnown
    <3> QED
      BY <2>1, <3>1 DEF Ended
  <2>3. CASE \E f \in Flights : Arrives(f)
    <3>1. Rank(known[j]) <= Rank(s.status)
      BY <1>1, <2>3, ArrivesTeaches
    <3> QED
      BY <2>1, <3>1 DEF Rank
  <2> QED
    BY <1>1, <2>2, <2>3, ShownChanges
<1>2. [][Step]_vars <=> NeverReverts
  BY DEF NeverReverts
<1>3. IInv /\ [Next]_vars => [Step]_vars
  BY <1>1
<1> HIDE DEF Step
<1> QED
  BY Inductive, <1>2, <1>3, PTL DEF Spec

-----------------------------------------------------------------------------
(***************************************************************************)
(* The waits.  Whatever sets loading also puts a request on its way, and   *)
(* every request that ends declares loading over.  A detail window gives   *)
(* up its poll only together with showing a job that has ended.            *)
(***************************************************************************)

UiNames == {"filter", "search", "model", "page", "timer", "loading", "error",
            "collapsed", "overlay"}

IsUi(u) == u = [x \in UiNames |-> u[x]]

Asking == \E f \in Flights : flight[f].st # "free"

Rail == IsUi(ui) /\ (ui.loading => Asking)

DetailNames == {"job", "pc", "answer", "status", "timer"}

IsDetail(d) == d = [x \in DetailNames |-> d[x]]

\* A window polls, or shows a job that has ended and does nothing.
Polls(d) ==
    /\ IsDetail(d)
    /\ d.timer \/ d.pc = "idle"
    /\ d.job # 0 /\ d.status \in {"none", "active"} => d.timer

WaitInv == Rail /\ Polls(detail)

LEMMA LessThan == OpToRel(<, Nat) = {ss \in Nat \X Nat : ss[1] < ss[2]}
  BY Zenon DEF OpToRel

\* A set of naturals has a least member.
LEMMA MinLeast ==
    ASSUME NEW S, S \subseteq Nat, S # {}
    PROVE  Min(S) \in S /\ \A y \in S : Min(S) <= y
<1> DEFINE R == {ss \in Nat \X Nat : ss[1] < ss[2]}
<1>0. IsWellFoundedOn(R, Nat)
  BY NatLessThanWellFounded, LessThan
<1>1. PICK x \in S : \A y \in S : ~(<<y, x>> \in R)
  BY <1>0, WFMin
<1>2. ASSUME NEW y \in S PROVE x <= y
  <2>1. <<y, x>> \in Nat \X Nat /\ <<y, x>> \notin R
    BY <1>1
  <2>2. ~(y < x)
    BY <2>1
  <2> QED
    BY <2>2
<1> QED
  BY <1>2 DEF Min

\* The request that Refresh sends is one of the free ones.
LEMMA SlotIsAFlight == ASSUME Slots # {} PROVE Min(Slots) \in Flights
<1>1. Slots \subseteq Nat /\ Slots \subseteq Flights
  BY DEF Slots, Flights
<1> QED
  BY <1>1, MinLeast

LEMMA RefreshWaits ==
    ASSUME NEW u, IsUi(u), NEW t, Refresh(u, t)
    PROVE  Rail'
<1>1. Min(Slots) \in Flights
  BY SlotIsAFlight DEF Refresh
<1>2. flight'[Min(Slots)] = [NoFlight EXCEPT !.st = "sent", !.q = QueryOf(u), !.page = u.page]
  BY <1>1 DEF Refresh
<1>3. flight'[Min(Slots)].st = "sent"
  BY <1>2 DEF NoFlight
<1>4. IsUi(ui')
  BY DEF Refresh, IsUi, UiNames
<1> QED
  BY <1>1, <1>3, <1>4 DEF Rail, Asking

\* The rail changes in other respects, and no request ends.
LEMMA RailGoesOn ==
    ASSUME Rail, NEW u, IsUi(u), u.loading = ui.loading, ui' = u, Asking => Asking'
    PROVE  Rail'
BY DEF Rail

\* The rail only changes what it shows, or asks for the list.
LEMMA Elsewhere == ASSUME Rail, UNCHANGED <<ui, flight>> PROVE Rail'
BY DEF Rail, Asking

LEMMA UiTakes ==
    ASSUME NEW u, IsUi(u), NEW x
    PROVE  /\ LET v == [u EXCEPT !.page = x] IN IsUi(v) /\ v.loading = u.loading
           /\ LET v == [u EXCEPT !.error = x] IN IsUi(v) /\ v.loading = u.loading
           /\ LET v == [u EXCEPT !.collapsed = x] IN IsUi(v) /\ v.loading = u.loading
           /\ LET v == [u EXCEPT !.overlay = x] IN IsUi(v) /\ v.loading = u.loading
           /\ IsUi([u EXCEPT !.loading = FALSE]) /\ ~[u EXCEPT !.loading = FALSE].loading
BY DEF IsUi, UiNames

\* What a control does to the rail.
RailStep ==
    \/ \E u, t : IsUi(u) /\ Refresh(u, t)
    \/ UNCHANGED flight /\ \E u : ui' = u /\ IsUi(u) /\ u.loading = ui.loading
    \/ IsUi(ui') /\ ~ui'.loading

LEMMA RailKeeps == ASSUME Rail, RailStep PROVE Rail'
<1>1. CASE \E u, t : IsUi(u) /\ Refresh(u, t)
  BY <1>1, RefreshWaits
<1>2. CASE UNCHANGED flight /\ \E u : ui' = u /\ IsUi(u) /\ u.loading = ui.loading
  BY <1>2 DEF Rail, Asking
<1>3. CASE IsUi(ui') /\ ~ui'.loading
  BY <1>3 DEF Rail
<1> QED
  BY <1>1, <1>2, <1>3 DEF RailStep

LEMMA RefreshOrNot ==
    ASSUME Rail, NEW u, IsUi(u), u.loading = ui.loading, NEW t,
           Refresh(u, t) \/ Renders(u, t) \/ (ui' = u /\ UNCHANGED flight)
    PROVE  Rail'
<1>1. RailStep
  BY DEF RailStep, Renders
<1> QED
  BY <1>1, RailKeeps

LEMMA SettlesEnds == ASSUME NEW f, NEW u, IsUi(u), NEW s, Settles(f, u, s) PROVE Rail'
<1>1. IsUi(ui') /\ ~ui'.loading
  BY UiTakes DEF Settles
<1> QED
  BY <1>1 DEF Rail

LEMMA EndsWait ==
    ASSUME Rail, NEW f \in Flights, Arrives(f) \/ Fails(f) \/ Drops(f)
    PROVE  Rail'
<1>1. IsUi(ui)
  BY DEF Rail
<1>2. CASE Arrives(f)
  <2>1. IsUi([ui EXCEPT !.page = flight[f].answer.page])
    BY <1>1, UiTakes
  <2> QED
    BY <1>2, <2>1, SettlesEnds DEF Arrives
<1>3. CASE Fails(f) \/ Drops(f)
  <2>1. PICK e : Settles(f, [ui EXCEPT !.error = e], shown)
    BY <1>3 DEF Fails, Drops
  <2>2. IsUi([ui EXCEPT !.error = e])
    BY <1>1, UiTakes
  <2> QED
    BY <2>1, <2>2, SettlesEnds
<1> QED
  BY <1>2, <1>3

LEMMA ControlsWait ==
    ASSUME Rail,
           \/ Poll \/ RouteChanges \/ RefreshButton \/ SearchTimer \/ Start
           \/ \E j \in Jobs : Cancel(j)
           \/ \E tab \in Tabs : SelectTab(tab)
           \/ Search \/ SelectModel
           \/ \E d \in {-1, 1} : TurnPage(d)
           \/ \E b \in BOOLEAN : Collapse(b) \/ Overlay(b)
           \/ Cleared \/ Escape \/ DetailRenders
    PROVE  Rail'
<1>0. IsUi(ui)
  BY DEF Rail
<1>1. CASE Poll \/ RouteChanges \/ RefreshButton \/ Start \/ \E j \in Jobs : Cancel(j)
  <2>1. \E t : Refresh(ui, t) \/ Renders(ui, t)
    BY <1>1 DEF Poll, RouteChanges, RefreshButton, Start, Cancel
  <2> QED
    BY <1>0, <2>1, RefreshOrNot
<1>2. CASE SearchTimer
  <2>1. IsUi([ui EXCEPT !.timer = FALSE])
    BY <1>0 DEF IsUi, UiNames
  <2> QED
    BY <1>2, <2>1, RefreshWaits DEF SearchTimer
<1>3. CASE \E tab \in Tabs : SelectTab(tab)
  <2>1. PICK tab : LET u == [ui EXCEPT !.filter = tab, !.page = 1]
                   IN  Refresh(u, th) \/ Renders(u, th)
    BY <1>3 DEF SelectTab
  <2> DEFINE u == [ui EXCEPT !.filter = tab, !.page = 1]
  <2>2. IsUi(u) /\ u.loading = ui.loading
    BY <1>0 DEF IsUi, UiNames
  <2>3. Refresh(u, th) \/ Renders(u, th)
    BY <2>1
  <2> HIDE DEF u
  <2> QED
    BY <2>2, <2>3, RefreshOrNot
<1>4. CASE Search
  <2> DEFINE u == [ui EXCEPT !.search = ~ui.search, !.page = 1, !.timer = TRUE]
  <2>1. IsUi(u) /\ u.loading = ui.loading
    BY <1>0 DEF IsUi, UiNames
  <2>2. Renders(u, th)
    BY <1>4 DEF Search
  <2> HIDE DEF u
  <2> QED
    BY <2>1, <2>2, RefreshOrNot
<1>5. CASE SelectModel
  <2> DEFINE u == [ui EXCEPT !.model = ~ui.model, !.page = 1]
  <2>1. IsUi(u)
    BY <1>0 DEF IsUi, UiNames
  <2>2. Refresh(u, th)
    BY <1>5 DEF SelectModel
  <2> HIDE DEF u
  <2> QED
    BY <2>1, <2>2, RefreshWaits
<1>6. CASE \E d \in {-1, 1} : TurnPage(d)
  <2>1. PICK p : Refresh([ui EXCEPT !.page = p], th)
    BY <1>6 DEF TurnPage
  <2>2. IsUi([ui EXCEPT !.page = p])
    BY <1>0, UiTakes
  <2> QED
    BY <2>1, <2>2, RefreshWaits
<1>7. CASE \E b \in BOOLEAN : Collapse(b)
  <2>1. PICK b : LET u == [ui EXCEPT !.collapsed = b]
                 IN  Refresh(u, th) \/ (ui' = u /\ UNCHANGED flight)
    BY <1>7 DEF Collapse
  <2> DEFINE u == [ui EXCEPT !.collapsed = b]
  <2>2. IsUi(u) /\ u.loading = ui.loading
    BY <1>0, UiTakes
  <2>3. Refresh(u, th) \/ (ui' = u /\ UNCHANGED flight)
    BY <2>1
  <2> HIDE DEF u
  <2> QED
    BY <2>2, <2>3, RefreshOrNot
<1>8. CASE (\E b \in BOOLEAN : Overlay(b)) \/ Escape
  <2>1. \/ UNCHANGED <<ui, flight>>
        \/ \E b : Renders([ui EXCEPT !.overlay = b], th)
    BY <1>8 DEF Overlay, Escape
  <2>2. ASSUME NEW b, Renders([ui EXCEPT !.overlay = b], th) PROVE Rail'
    <3> DEFINE u == [ui EXCEPT !.overlay = b]
    <3>1. IsUi(u) /\ u.loading = ui.loading
      BY <1>0, UiTakes
    <3>2. Renders(u, th)
      BY <2>2
    <3> HIDE DEF u
    <3> QED
      BY <3>1, <3>2, RefreshOrNot
  <2> QED
    BY <2>1, <2>2, Elsewhere
<1>9. CASE Cleared
  <2> DEFINE u == [ui EXCEPT !.page = 1]
  <2>1. IsUi(u) /\ u.loading = ui.loading
    BY <1>0, UiTakes
  <2>2. Refresh(u, Revoked(th)) \/ (ui' = u /\ UNCHANGED flight)
    BY <1>9 DEF Cleared
  <2> HIDE DEF u
  <2> QED
    BY <2>1, <2>2, RefreshOrNot
<1>10. CASE DetailRenders
  <2>1. Refresh(ui, th) \/ UNCHANGED <<ui, flight>>
    BY <1>10 DEF DetailRenders
  <2> QED
    BY <1>0, <2>1, RefreshWaits, Elsewhere
<1> QED
  BY <1>1, <1>2, <1>3, <1>4, <1>5, <1>6, <1>7, <1>8, <1>9, <1>10

LEMMA AnswerWaits ==
    ASSUME IInv, Rail, NEW f \in Flights, CompanionAnswers(f) PROVE Rail'
<1>0. PICK by : flight' = [flight EXCEPT ![f] =
               [NoFlight EXCEPT !.st = "answered",
                                !.answer = Answered(flight[f].q, flight[f].page, by)]]
  BY DEF CompanionAnswers
<1> DEFINE r == [NoFlight EXCEPT !.st = "answered",
                                 !.answer = Answered(flight[f].q, flight[f].page, by)]
<1>1. flight' = [flight EXCEPT ![f] = r] /\ UNCHANGED ui
  BY <1>0 DEF CompanionAnswers
<1>2. r.st = "answered"
  BY DEF NoFlight
<1> HIDE DEF r
<1>3. flight'[f] = r
  BY <1>1 DEF IInv, Functions, IsFunction
<1>4. flight'[f].st # "free"
  BY <1>2, <1>3
<1> QED
  BY <1>1, <1>4 DEF Rail, Asking

LEMMA StopWaits == ASSUME Rail, Stop PROVE Rail'
<1>1. Aborted.st = "sent"
  BY DEF Aborted, NoFlight
<1>2. Asking => Asking'
  BY <1>1 DEF Stop, Asking
<1> DEFINE u == [ui EXCEPT !.timer = FALSE, !.overlay = FALSE]
<1>3. IsUi(u) /\ u.loading = ui.loading
  BY DEF Rail, IsUi, UiNames
<1>4. ui' = u
  BY DEF Stop
<1> HIDE DEF u
<1> QED
  BY <1>2, <1>3, <1>4, RailGoesOn

LEMMA NoDetailPolls == Polls(NoDetail)
<1>1. DOMAIN NoDetail = DetailNames /\ NoDetail = [x \in DOMAIN NoDetail |-> NoDetail[x]]
  BY DEF NoDetail, DetailNames
<1>2. NoDetail.pc = "idle" /\ NoDetail.job = 0
  BY DEF NoDetail
<1> QED
  BY <1>1, <1>2 DEF Polls, IsDetail

\* What becomes of the window.
LEMMA DetailSteps ==
    ASSUME [Next]_vars
    PROVE  \/ UNCHANGED detail \/ detail' = NoDetail
           \/ \E j \in Jobs : OpenDetail(j)
           \/ DetailTick \/ DetailArrives \/ DetailFails \/ DetailRenders
<1>1. CASE \E j \in Jobs : JobAppears(j) \/ JobEnds(j) \/ Cancel(j) \/ OpenDetail(j)
  BY <1>1 DEF JobAppears, JobEnds, Cancel
<1>2. CASE \E f \in Flights : CompanionAnswers(f) \/ Arrives(f) \/ Fails(f) \/ Drops(f)
  BY <1>2 DEF CompanionAnswers, Arrives, Fails, Drops
<1>3. CASE (\E i \in Urls : LoadEnds(i)) \/ (\E h \in Hashes : Capture(h) \/ SelectFile(h))
           \/ RemoveFile \/ QueueFile
  BY <1>3 DEF LoadEnds, Capture, SelectFile, RemoveFile, QueueFile
<1>4. CASE Poll \/ RouteChanges \/ SearchTimer \/ (\E tab \in Tabs : SelectTab(tab))
           \/ Search \/ SelectModel \/ RefreshButton
  BY <1>4 DEF Poll, RouteChanges, SearchTimer, SelectTab, Search, SelectModel, RefreshButton
<1>5. CASE (\E d \in {-1, 1} : TurnPage(d)) \/ (\E b \in BOOLEAN : Collapse(b) \/ Overlay(b))
           \/ ClearAsked \/ CompanionClears \/ Cleared \/ Escape \/ Stop \/ Start
  BY <1>5 DEF TurnPage, Collapse, Overlay, ClearAsked, CompanionClears, Cleared, Escape,
              Stop, Start
<1>6. CASE CloseDetail
  BY <1>6 DEF CloseDetail
<1>7. CASE UNCHANGED vars
  BY <1>7 DEF vars
<1> QED
  BY <1>1, <1>2, <1>3, <1>4, <1>5, <1>6, <1>7 DEF Next

LEMMA DetailKeeps ==
    ASSUME Polls(detail), [Next]_vars
    PROVE  Polls(detail')
<1>1. CASE UNCHANGED detail
  BY <1>1
<1>2. CASE detail' = NoDetail
  BY <1>2, NoDetailPolls
<1>3. CASE \E j \in Jobs : OpenDetail(j)
  <2>1. PICK j : detail' = [NoDetail EXCEPT !.job = j, !.pc = "fetch", !.timer = TRUE]
    BY <1>3 DEF OpenDetail
  <2>2. IsDetail(NoDetail)
    BY NoDetailPolls DEF Polls
  <2>3. IsDetail(detail') /\ detail'.timer = TRUE
    BY <2>1, <2>2 DEF IsDetail, DetailNames
  <2> QED
    BY <2>3 DEF Polls
<1>4. CASE DetailTick
  <2>1. detail' = [detail EXCEPT !.pc = "fetch"] /\ detail.timer
    BY <1>4 DEF DetailTick
  <2>2. IsDetail(detail') /\ detail'.timer = detail.timer
    BY <2>1 DEF Polls, IsDetail, DetailNames
  <2> QED
    BY <2>1, <2>2 DEF Polls
<1>5. CASE DetailArrives
  <2>1. /\ detail' = [detail EXCEPT !.pc = "thumb", !.answer = srv[detail.job]]
        /\ detail.pc = "fetch"
    BY <1>5 DEF DetailArrives
  <2>2. IsDetail(detail') /\ detail'.timer = detail.timer
    BY <2>1 DEF Polls, IsDetail, DetailNames
  <2> QED
    BY <2>1, <2>2 DEF Polls
<1>6. CASE DetailFails
  <2>1. detail' = [detail EXCEPT !.pc = "idle"] /\ detail.pc = "fetch"
    BY <1>6 DEF DetailFails
  <2>2. /\ IsDetail(detail') /\ detail'.timer = detail.timer /\ detail'.pc = "idle"
        /\ detail'.job = detail.job /\ detail'.status = detail.status
    BY <2>1 DEF Polls, IsDetail, DetailNames
  <2> QED
    BY <2>2 DEF Polls
<1>7. CASE DetailRenders
  <2> DEFINE over == detail.answer \in Ended
  <2>1. /\ detail.pc = "thumb"
        /\ detail' = [detail EXCEPT !.pc = "idle", !.status = detail.answer,
                                    !.timer = detail.timer /\ ~over]
    BY <1>7 DEF DetailRenders
  <2>2. /\ IsDetail(detail') /\ detail'.pc = "idle" /\ detail'.status = detail.answer
        /\ detail'.timer = (detail.timer /\ ~over)
    BY <2>1 DEF Polls, IsDetail, DetailNames
  <2>3. detail.timer
    BY <2>1 DEF Polls
  <2>4. detail'.status \in {"none", "active"} => ~over
    BY <2>2 DEF Ended
  <2>5. detail'.status \in {"none", "active"} => detail'.timer
    BY <2>2, <2>3, <2>4
  <2> HIDE DEF over
  <2> QED
    BY <2>2, <2>5 DEF Polls
<1> QED
  BY <1>1, <1>2, <1>3, <1>4, <1>5, <1>6, <1>7, DetailSteps

LEMMA RailWaits == ASSUME IInv, Rail, [Next]_vars PROVE Rail'
<1>1. CASE \E j \in Jobs : JobAppears(j) \/ JobEnds(j) \/ OpenDetail(j)
  BY <1>1, Elsewhere DEF JobAppears, JobEnds, OpenDetail, list
<1>2. CASE \E f \in Flights : CompanionAnswers(f) \/ Arrives(f) \/ Fails(f) \/ Drops(f)
  BY <1>2, AnswerWaits, EndsWait
<1>3. CASE (\E i \in Urls : LoadEnds(i)) \/ (\E h \in Hashes : Capture(h) \/ SelectFile(h))
           \/ RemoveFile \/ QueueFile
  <2>1. UNCHANGED <<ui, flight>>
    BY <1>3 DEF LoadEnds, Capture, SelectFile, RemoveFile, QueueFile, list
  <2> QED
    BY <2>1, Elsewhere
<1>4. CASE ClearAsked \/ CompanionClears \/ CloseDetail \/ DetailTick \/ DetailArrives
           \/ DetailFails
  <2>1. UNCHANGED <<ui, flight>>
    BY <1>4 DEF ClearAsked, CompanionClears, CloseDetail, DetailTick, DetailArrives,
                DetailFails, list
  <2> QED
    BY <2>1, Elsewhere
<1>5. CASE UNCHANGED vars
  BY <1>5, Elsewhere DEF vars, list
<1> QED
  BY <1>1, <1>2, <1>3, <1>4, <1>5, ControlsWait, StopWaits DEF Next

LEMMA InitWaits == Init => WaitInv
<1> SUFFICES ASSUME Init PROVE WaitInv
  OBVIOUS
<1>1. DOMAIN ui = UiNames /\ ui = [x \in DOMAIN ui |-> ui[x]] /\ ui.loading = FALSE
  BY DEF Init, UiNames
<1>2. Rail
  BY <1>1 DEF Rail, IsUi
<1>3. Polls(detail)
  BY NoDetailPolls DEF Init
<1> QED
  BY <1>2, <1>3 DEF WaitInv

\* While the rail says that it is loading a request is under way, and a window
\* that shows a job as unfinished still polls it.
THEOREM NobodyWaitsForNothing == Spec => []NeverStuck
<1>1. WaitInv => NeverStuck
  <2> SUFFICES ASSUME WaitInv PROVE NeverStuck
    OBVIOUS
  <2>1. Body(detail.status).output \in {"loading", "stage"}
          => detail.status \in {"none", "active"}
    BY DEF Body
  <2> QED
    BY <2>1 DEF WaitInv, Rail, Asking, Polls, NeverStuck
<1>2. IInv /\ WaitInv /\ [Next]_vars => WaitInv'
  BY RailWaits, DetailKeeps DEF WaitInv
<1> QED
  BY <1>1, <1>2, InitWaits, Inductive, PTL DEF Spec

-----------------------------------------------------------------------------
(***************************************************************************)
(* The object URLs                                                         *)
(***************************************************************************)

Entry == [hash: Hashes, url: Urls]

UrlSet(s) == {s[k].url : k \in DOMAIN s}

\* Each image and each URL is kept once.
Apart(s) == \A k, l \in DOMAIN s : k # l => s[k].hash # s[l].hash /\ s[k].url # s[l].url

Preview(t) == IF t.preview = 0 THEN {} ELSE {t.preview}

ThumbNames == {"urls", "live", "loads", "work", "preview", "image"}

IsThumbs(t) == t = [x \in ThumbNames |-> t[x]]

\* A load makes a URL that is not alive yet.
Working(t) ==
    /\ t.work = [i \in Urls |-> t.work[i]]
    /\ \A i \in Urls : t.work[i].st = "busy" => t.work[i].hash \in Hashes /\ i \notin t.live

\* What is alive is what is kept, and the URLs X.
Alive(t, X) ==
    /\ IsThumbs(t)
    /\ t.urls \in Seq(Entry) /\ Apart(t.urls)
    /\ X \cap UrlSet(t.urls) = {}
    /\ t.live = UrlSet(t.urls) \cup X

Selected(t) == t.preview \in Urls \cup {0} /\ t.image \in Hashes \cup {0}

Tidy(t) == Alive(t, Preview(t)) /\ Selected(t) /\ Working(t)

-----------------------------------------------------------------------------
LEMMA Kept ==
    ASSUME NEW s \in Seq(Entry), NEW k \in 1..Len(s)
    PROVE  s[k] \in Entry /\ s[k].hash \in Hashes /\ s[k].url \in Urls
<1>1. s[k] \in Entry
  BY ElementOfSeq
<1> QED
  BY <1>1 DEF Entry

\* The sequence s without its entry k.
LEMMA Without ==
    ASSUME NEW s \in Seq(Entry), NEW k \in 1..Len(s)
    PROVE  LET r == RemoveAt(s, k)
           IN  /\ r \in Seq(Entry) /\ Len(r) = Len(s) - 1
               /\ \A i \in 1..Len(r) : r[i] = IF i < k THEN s[i] ELSE s[i + 1]
<1> DEFINE a == SubSeq(s, 1, k - 1)
           b == SubSeq(s, k + 1, Len(s))
           r == a \o b
<1>1. Len(s) \in Nat /\ k \in Nat /\ k >= 1 /\ k <= Len(s)
  BY LenProperties
<1>2. \A i \in 1..Len(s) : s[i] \in Entry
  BY ElementOfSeq
<1>3. \A i \in 1..(k - 1) : s[i] \in Entry
  BY <1>1, <1>2
<1>4. \A i \in (k + 1)..Len(s) : s[i] \in Entry
  BY <1>1, <1>2
<1>5. a \in Seq(Entry) /\ Len(a) = k - 1 /\ \A i \in 1..(k - 1) : a[i] = s[i]
  <2>1. 1 \in Int /\ k - 1 \in Int
    BY <1>1
  <2>2. /\ a \in Seq(Entry) /\ Len(a) = IF 1 <= k - 1 THEN k - 1 - 1 + 1 ELSE 0
        /\ \A i \in 1..(k - 1 - 1 + 1) : a[i] = s[1 + i - 1]
    BY <1>3, <2>1, SubSeqProperties
  <2> HIDE DEF a
  <2> QED
    BY <1>1, <2>2
<1>6. b \in Seq(Entry) /\ Len(b) = Len(s) - k /\ \A i \in 1..(Len(s) - k) : b[i] = s[k + i]
  <2>1. k + 1 \in Int /\ Len(s) \in Int
    BY <1>1
  <2>2. /\ b \in Seq(Entry) /\ Len(b) = IF k + 1 <= Len(s) THEN Len(s) - (k + 1) + 1 ELSE 0
        /\ \A i \in 1..(Len(s) - (k + 1) + 1) : b[i] = s[k + 1 + i - 1]
    BY <1>4, <2>1, SubSeqProperties
  <2> HIDE DEF b
  <2> QED
    BY <1>1, <2>2
<1>7. /\ r \in Seq(Entry) /\ Len(r) = Len(a) + Len(b)
      /\ \A i \in 1..(Len(a) + Len(b)) : r[i] = IF i <= Len(a) THEN a[i] ELSE b[i - Len(a)]
  BY <1>5, <1>6, ConcatProperties
<1> HIDE DEF a, b, r
<1>8. Len(r) = Len(s) - 1
  BY <1>1, <1>5, <1>6, <1>7
<1>9. ASSUME NEW i \in 1..Len(r) PROVE r[i] = IF i < k THEN s[i] ELSE s[i + 1]
  <2>0. i \in 1..(Len(a) + Len(b)) /\ i \in Nat /\ i >= 1 /\ i <= Len(s) - 1
    BY <1>1, <1>7, <1>8, <1>9
  <2>1. CASE i < k
    BY <1>1, <1>5, <1>7, <2>0, <2>1
  <2>2. CASE ~(i < k)
    <3>1. i - Len(a) \in 1..(Len(s) - k) /\ k + (i - Len(a)) = i + 1 /\ ~(i <= Len(a))
      BY <1>1, <1>5, <2>0, <2>2
    <3> QED
      BY <1>6, <1>7, <2>0, <2>2, <3>1
  <2> QED
    BY <2>1, <2>2
<1> QED
  BY <1>7, <1>8, <1>9 DEF RemoveAt, r, a, b

\* A kept URL that becomes the last stored.
LEMMA MovedLast ==
    ASSUME NEW s \in Seq(Entry), Apart(s), NEW k \in 1..Len(s)
    PROVE  LET r == Append(RemoveAt(s, k), s[k])
           IN  r \in Seq(Entry) /\ Apart(r) /\ UrlSet(r) = UrlSet(s)
<1> DEFINE q == RemoveAt(s, k)
           e == s[k]
           r == Append(q, e)
           n == Len(s)
           p == [i \in 1..n |-> IF i = n THEN k ELSE IF i < k THEN i ELSE i + 1]
<1>1. n \in Nat /\ k \in Nat /\ k >= 1 /\ k <= n /\ DOMAIN s = 1..n /\ e \in Entry
      /\ n - 1 + 1 = n
  BY LenProperties, Kept
<1>2. /\ q \in Seq(Entry) /\ Len(q) = n - 1
      /\ \A i \in 1..(n - 1) : q[i] = IF i < k THEN s[i] ELSE s[i + 1]
  BY Without
<1> HIDE DEF q, n, e
<1>3. /\ r \in Seq(Entry) /\ Len(r) = n /\ \A i \in 1..(n - 1) : r[i] = q[i]
      /\ r[n] = e
  <2>1. /\ Append(q, e) \in Seq(Entry) /\ Len(Append(q, e)) = Len(q) + 1
        /\ \A i \in 1..Len(q) : Append(q, e)[i] = q[i]
        /\ Append(q, e)[Len(q) + 1] = e
    BY <1>1, <1>2, AppendProperties
  <2> QED
    BY <1>1, <1>2, <2>1
<1> HIDE DEF r
<1>4. DOMAIN r = 1..n
  BY <1>3, LenProperties
<1>5. ASSUME NEW i \in 1..n PROVE p[i] \in 1..n /\ r[i] = s[p[i]]
  <2>1. CASE i = n
    BY <1>1, <1>3, <2>1 DEF e
  <2>2. CASE i # n
    <3>1. i \in 1..(n - 1)
      BY <1>1, <2>2
    <3>2. r[i] = IF i < k THEN s[i] ELSE s[i + 1]
      BY <1>2, <1>3, <3>1
    <3> QED
      BY <1>1, <2>2, <3>1, <3>2
  <2> QED
    BY <2>1, <2>2
<1>6. \A i, j \in 1..n : i # j => p[i] # p[j]
  BY <1>1
<1>7. \A j \in 1..n : \E i \in 1..n : p[i] = j
  <2> SUFFICES ASSUME NEW j \in 1..n PROVE \E i \in 1..n : p[i] = j
    OBVIOUS
  <2>1. CASE j = k
    <3>1. n \in 1..n /\ p[n] = j
      BY <1>1, <2>1
    <3> QED
      BY <3>1
  <2>2. CASE j < k
    <3>1. j \in 1..n /\ j # n /\ p[j] = j
      BY <1>1, <2>2
    <3> QED
      BY <3>1
  <2>3. CASE j > k
    <3>1. j - 1 \in 1..n /\ p[j - 1] = j
      BY <1>1, <2>3
    <3> QED
      BY <3>1
  <2> QED
    BY <1>1, <2>1, <2>2, <2>3
<1> HIDE DEF p
<1>8. Apart(r)
  BY <1>1, <1>4, <1>5, <1>6 DEF Apart
<1>9. UrlSet(r) = UrlSet(s)
  <2>1. UrlSet(r) \subseteq UrlSet(s)
    BY <1>1, <1>4, <1>5 DEF UrlSet
  <2>2. UrlSet(s) \subseteq UrlSet(r)
    <3> SUFFICES ASSUME NEW j \in 1..n PROVE s[j].url \in UrlSet(r)
      BY <1>1 DEF UrlSet
    <3>1. PICK i \in 1..n : p[i] = j
      BY <1>7
    <3>2. r[i] = s[j]
      BY <1>5, <3>1
    <3> QED
      BY <1>4, <3>2 DEF UrlSet
  <2> QED
    BY <2>1, <2>2
<1> QED
  BY <1>3, <1>8, <1>9 DEF r, q, e

\* A new URL of an image that has none.
LEMMA Stored ==
    ASSUME NEW s \in Seq(Entry), Apart(s), NEW e \in Entry,
           \A k \in DOMAIN s : s[k].hash # e.hash, e.url \notin UrlSet(s)
    PROVE  LET r == Append(s, e)
           IN  r \in Seq(Entry) /\ r # <<>> /\ Apart(r) /\ UrlSet(r) = UrlSet(s) \cup {e.url}
<1> DEFINE r == Append(s, e)
           n == Len(s)
<1>1. /\ n \in Nat /\ DOMAIN s = 1..n /\ r \in Seq(Entry) /\ r # <<>> /\ Len(r) = n + 1
      /\ \A i \in 1..n : r[i] = s[i]
      /\ r[n + 1] = e
  BY LenProperties, AppendProperties
<1>2. DOMAIN r = 1..(n + 1)
  BY <1>1, LenProperties
<1> HIDE DEF r, n
<1>3. \A k \in 1..n : s[k].url # e.url
  BY <1>1 DEF UrlSet
<1>4. \A k \in 1..(n + 1) : k \in 1..n \/ k = n + 1
  BY <1>1
<1>5. n + 1 \in 1..(n + 1) /\ \A k \in 1..n : k \in 1..(n + 1)
  BY <1>1
<1>6. Apart(r)
  BY <1>1, <1>2, <1>3, <1>4 DEF Apart
<1>7. UrlSet(r) = UrlSet(s) \cup {e.url}
  BY <1>1, <1>2, <1>4, <1>5 DEF UrlSet
<1> QED
  BY <1>1, <1>6, <1>7 DEF r

\* The least recently stored URL goes.
LEMMA OldestGone ==
    ASSUME NEW s \in Seq(Entry), Apart(s), s # <<>>
    PROVE  /\ Tail(s) \in Seq(Entry) /\ Apart(Tail(s))
           /\ UrlSet(Tail(s)) = UrlSet(s) \ {Head(s).url}
           /\ Head(s).url \in UrlSet(s)
<1> DEFINE r == Tail(s)
           n == Len(s)
<1>1. /\ n \in Nat /\ n >= 1 /\ DOMAIN s = 1..n /\ r \in Seq(Entry) /\ Len(r) = n - 1
      /\ \A i \in 1..(n - 1) : r[i] = s[i + 1]
  BY EmptySeq, LenProperties, HeadTailProperties
<1>2. DOMAIN r = 1..(n - 1) /\ Head(s) = s[1]
  BY <1>1, LenProperties
<1> HIDE DEF r, n
<1>3. \A i \in 1..(n - 1) : i + 1 \in 1..n /\ i + 1 # 1
  BY <1>1
<1>4. \A j \in 1..n : j # 1 => j - 1 \in 1..(n - 1) /\ (j - 1) + 1 = j
  BY <1>1
<1>5. \A i, j \in 1..(n - 1) : i # j => i + 1 # j + 1
  BY <1>1
<1>6. Apart(r)
  <2> SUFFICES ASSUME NEW i \in 1..(n - 1), NEW j \in 1..(n - 1), i # j
               PROVE  r[i].hash # r[j].hash /\ r[i].url # r[j].url
    BY <1>2 DEF Apart
  <2>1. r[i] = s[i + 1] /\ r[j] = s[j + 1]
    BY <1>1
  <2>2. i + 1 \in DOMAIN s /\ j + 1 \in DOMAIN s /\ i + 1 # j + 1
    BY <1>1, <1>3, <1>5
  <2> QED
    BY <2>1, <2>2 DEF Apart
<1>7. \A j \in 1..n : j # 1 => s[j].url # s[1].url
  BY <1>1 DEF Apart
<1>8. \A i \in 1..(n - 1) : r[i].url \in UrlSet(s) /\ r[i].url # s[1].url
  BY <1>1, <1>3, <1>7 DEF UrlSet
<1>9. \A j \in 1..n : s[j].url # s[1].url => s[j].url \in UrlSet(r)
  <2> SUFFICES ASSUME NEW j \in 1..n, s[j].url # s[1].url PROVE s[j].url \in UrlSet(r)
    OBVIOUS
  <2>1. j - 1 \in 1..(n - 1) /\ (j - 1) + 1 = j
    BY <1>4
  <2>2. r[j - 1] = s[j]
    BY <1>1, <2>1
  <2> QED
    BY <1>2, <2>1, <2>2 DEF UrlSet
<1>10. UrlSet(r) = UrlSet(s) \ {s[1].url}
  <2>1. UrlSet(r) \subseteq UrlSet(s) \ {s[1].url}
    BY <1>2, <1>8 DEF UrlSet
  <2>2. UrlSet(s) \ {s[1].url} \subseteq UrlSet(r)
    BY <1>1, <1>9 DEF UrlSet
  <2> QED
    BY <2>1, <2>2
<1>11. s[1].url \in UrlSet(s)
  <2>1. 1 \in DOMAIN s
    BY <1>1
  <2> QED
    BY <2>1 DEF UrlSet
<1> QED
  BY <1>1, <1>2, <1>6, <1>10, <1>11 DEF r

LEMMA NothingKept == <<>> \in Seq(Entry) /\ Apart(<<>>) /\ UrlSet(<<>>) = {}
<1>1. <<>> \in Seq(Entry) /\ DOMAIN <<>> = {}
  OBVIOUS
<1> QED
  BY <1>1 DEF Apart, UrlSet

\* Storing a URL that is alive keeps account of every URL.
LEMMA StoreKeeps ==
    ASSUME NEW t, NEW X, NEW i \in Urls, NEW h \in Hashes, Alive(t, X \cup {i}), i \notin X
    PROVE  LET u == Store(t, h, i)
           IN  /\ Alive(u, X) /\ u.live \subseteq t.live
               /\ u.work = t.work /\ u.preview = t.preview /\ u.image = t.image
<1> DEFINE s == t.urls
           u == Store(t, h, i)
           e == [hash |-> h, url |-> i]
           grown == Append(s, e)
           Same(v) == v.work = t.work /\ v.preview = t.preview /\ v.image = t.image
<1>1. /\ IsThumbs(t) /\ s \in Seq(Entry) /\ Apart(s) /\ DOMAIN s = 1..Len(s)
      /\ t.live = UrlSet(s) \cup X \cup {i} /\ i \notin UrlSet(s) /\ X \cap UrlSet(s) = {}
  BY LenProperties DEF Alive
<1>2. CASE KeptAt(t, h) # {}
  <2> DEFINE k == CHOOSE x \in KeptAt(t, h) : TRUE
             r == Append(RemoveAt(s, k), s[k])
  <2>1. k \in 1..Len(s)
    BY <1>1, <1>2 DEF KeptAt
  <2>2. r \in Seq(Entry) /\ Apart(r) /\ UrlSet(r) = UrlSet(s)
    BY <1>1, <2>1, MovedLast
  <2>3. u = [t EXCEPT !.urls = r, !.live = t.live \ {i}]
    BY <1>2 DEF Store
  <2> HIDE DEF r, u
  <2>4. /\ IsThumbs(u) /\ u.urls = r /\ u.live = t.live \ {i}
        /\ u.work = t.work /\ u.preview = t.preview /\ u.image = t.image
    BY <1>1, <2>3 DEF IsThumbs, ThumbNames
  <2>5. u.live = UrlSet(r) \cup X /\ u.live \subseteq t.live
    BY <1>1, <2>2, <2>4
  <2>6. Alive(u, X)
    BY <1>1, <2>2, <2>4, <2>5 DEF Alive
  <2> QED
    BY <2>4, <2>5, <2>6 DEF u
<1>3. CASE KeptAt(t, h) = {}
  <2>1. e \in Entry /\ e.hash = h /\ e.url = i
    BY DEF Entry
  <2>2. \A k \in DOMAIN s : s[k].hash # e.hash
    BY <1>3, <2>1 DEF KeptAt
  <2>3. /\ grown \in Seq(Entry) /\ grown # <<>> /\ Apart(grown)
        /\ UrlSet(grown) = UrlSet(s) \cup {i}
    <3> HIDE DEF e
    <3> QED
      BY <1>1, <2>1, <2>2, Stored
  <2>4. u = IF Len(grown) <= Limit THEN [t EXCEPT !.urls = grown]
            ELSE [t EXCEPT !.urls = Tail(grown), !.live = t.live \ {Head(grown).url}]
    BY <1>3 DEF Store
  <2> HIDE DEF grown, u
  <2>5. CASE Len(grown) <= Limit
    <3>1. /\ IsThumbs(u) /\ u.urls = grown /\ u.live = t.live
          /\ u.work = t.work /\ u.preview = t.preview /\ u.image = t.image
      BY <1>1, <2>4, <2>5 DEF IsThumbs, ThumbNames
    <3>2. u.live = UrlSet(grown) \cup X /\ X \cap UrlSet(grown) = {}
      BY <1>1, <2>3, <3>1
    <3>3. Alive(u, X)
      BY <2>3, <3>1, <3>2 DEF Alive
    <3> QED
      BY <3>1, <3>3 DEF u
  <2>6. CASE ~(Len(grown) <= Limit)
    <3> DEFINE old == Head(grown).url
               r == Tail(grown)
    <3>0. r \in Seq(Entry) /\ Apart(r) /\ UrlSet(r) = UrlSet(grown) \ {old} /\ old \in UrlSet(grown)
      BY <2>3, OldestGone
    <3>a. u = [t EXCEPT !.urls = r, !.live = t.live \ {old}]
      BY <2>4, <2>6
    <3> HIDE DEF old, r
    <3>1. /\ IsThumbs(u) /\ u.urls = r /\ u.live = t.live \ {old}
          /\ u.work = t.work /\ u.preview = t.preview /\ u.image = t.image
      BY <1>1, <3>a DEF IsThumbs, ThumbNames
    <3>2. u.live = UrlSet(r) \cup X /\ X \cap UrlSet(r) = {} /\ u.live \subseteq t.live
      BY <1>1, <2>3, <3>0, <3>1
    <3>3. Alive(u, X)
      BY <3>0, <3>1, <3>2 DEF Alive
    <3> QED
      BY <3>1, <3>2, <3>3 DEF u
  <2> QED
    BY <2>5, <2>6
<1> QED
  BY <1>2, <1>3

-----------------------------------------------------------------------------
(***************************************************************************)
(* Identifiers and loads                                                   *)
(***************************************************************************)

Bounded == scene \in [use: SUBSET STRING, clicks: Nat, restarts: Nat, flights: Nat,
                      urls: 0..MaxUrls]

LEMMA FreeIsFree ==
    ASSUME Bounded, NEW t, FreeIds(t) # {}
    PROVE  LET i == Min(FreeIds(t))
           IN  i \in FreeIds(t) /\ i \in Urls /\ i # 0 /\ i \notin t.live /\ t.work[i].st = "free"
<1> DEFINE F == FreeIds(t)
<1>1. MaxUrls \in Nat /\ scene.urls \in 0..MaxUrls
  BY HistoryBounds DEF Bounded
<1>2. F \subseteq Nat /\ F \subseteq Urls /\ 0 \notin F /\ F # {}
  BY <1>1 DEF FreeIds, Urls
<1>3. Min(F) \in F
  <2> HIDE DEF F
  <2> QED
    BY <1>2, MinLeast
<1> QED
  BY <1>2, <1>3 DEF FreeIds

\* A load that begins makes no URL yet.
LEMMA LoadKeeps ==
    ASSUME Bounded, NEW t, Tidy(t), NEW h \in Hashes
    PROVE  Tidy(StartLoad(h, t))
<1> DEFINE u == StartLoad(h, t)
           i == Min(FreeIds(t))
           w == [st |-> "busy", hash |-> h]
<1>1. CASE u = t
  BY <1>1
<1>2. CASE u # t
  <2>1. FreeIds(t) # {} /\ u = [t EXCEPT !.loads[h] = i, !.work[i] = w]
    BY <1>2 DEF StartLoad
  <2>2. i \in Urls /\ i \notin t.live
    BY <2>1, FreeIsFree
  <2>3. w.st = "busy" /\ w.hash = h
    OBVIOUS
  <2>4. /\ IsThumbs(t) /\ t.work = [j \in Urls |-> t.work[j]]
        /\ \A j \in Urls : t.work[j].st = "busy" => t.work[j].hash \in Hashes /\ j \notin t.live
    BY DEF Tidy, Alive, Working
  <2> HIDE DEF u, i, w
  <2>5. /\ IsThumbs(u) /\ u.urls = t.urls /\ u.live = t.live /\ u.preview = t.preview
        /\ u.image = t.image /\ u.work = [t.work EXCEPT ![i] = w]
    BY <2>1, <2>4 DEF IsThumbs, ThumbNames
  <2>6. u.work = [j \in Urls |-> IF j = i THEN w ELSE t.work[j]]
    BY <2>4, <2>5
  <2>7. Working(u)
    BY <2>2, <2>3, <2>4, <2>5, <2>6 DEF Working
  <2> QED
    BY <2>5, <2>7 DEF Tidy, Alive, Preview, Selected, u
<1> QED
  BY <1>1, <1>2

-----------------------------------------------------------------------------
(***************************************************************************)
(* Rendering: the loads of a set of images, one after the other            *)
(***************************************************************************)

\* What the fold does, on the sets of images D.
IsLoading(t, g, D) ==
    g = [T \in D |-> IF T = {} THEN t
                     ELSE StartLoad(CHOOSE x \in T : TRUE, g[T \ {CHOOSE x \in T : TRUE}])]

LoadingOf(t, S) == CHOOSE g : IsLoading(t, g, SUBSET S)

LEMMA FoldIs == ASSUME NEW t, NEW S PROVE FoldSet(StartLoad, t, S) = LoadingOf(t, S)[S]
BY Zenon DEF FoldSet, MapThenFoldSet, LoadingOf, IsLoading

Small(S, n) == {T \in SUBSET S : Cardinality(T) <= n}

\* What is left of a finite set is smaller.
LEMMA OneLess ==
    ASSUME NEW S, IsFiniteSet(S), NEW T \in SUBSET S, T # {}
    PROVE  LET R == T \ {CHOOSE x \in T : TRUE}
           IN  /\ R \in SUBSET S /\ Cardinality(T) \in Nat \ {0}
               /\ Cardinality(R) = Cardinality(T) - 1
<1> DEFINE c == CHOOSE x \in T : TRUE
           R == T \ {c}
<1>1. c \in T
  OBVIOUS
<1>2. IsFiniteSet(T)
  BY FS_Subset
<1> HIDE DEF c
<1>3. Cardinality(R) = Cardinality(T) - 1
  BY <1>1, <1>2, FS_RemoveElement
<1>4. Cardinality(T) \in Nat /\ Cardinality(T) # 0
  BY <1>2, FS_CardinalityType, FS_EmptySet
<1>5. R \in SUBSET S
  OBVIOUS
<1> QED
  BY <1>3, <1>4, <1>5 DEF c

\* There is such a function on the sets of at most n images: there is no least
\* n for which there is none.
LEMMA LoadingUpTo ==
    ASSUME NEW t, NEW S, IsFiniteSet(S), NEW n \in Nat
    PROVE  \E g : IsLoading(t, g, Small(S, n))
<1> DEFINE Bad == {i \in Nat : ~ \E g : IsLoading(t, g, Small(S, i))}
<1> SUFFICES ASSUME Bad # {} PROVE FALSE
  OBVIOUS
<1>0. Bad \subseteq Nat
  OBVIOUS
<1>1. PICK m \in Bad : \A i \in Bad : m <= i
  <2>1. Min(Bad) \in Bad /\ \A i \in Bad : Min(Bad) <= i
    <3> HIDE DEF Bad
    <3> QED
      BY <1>0, MinLeast
  <2> QED
    BY <2>1
<1>2. m \in Nat /\ ~ \E g : IsLoading(t, g, Small(S, m))
  OBVIOUS
<1>3. m # 0
  <2> DEFINE g == [T \in Small(S, 0) |-> t]
  <2>1. \A T \in Small(S, 0) : T = {}
    <3> SUFFICES ASSUME NEW T \in Small(S, 0) PROVE T = {}
      OBVIOUS
    <3>1. T \in SUBSET S /\ Cardinality(T) <= 0
      BY DEF Small
    <3>2. IsFiniteSet(T)
      BY <3>1, FS_Subset
    <3>3. Cardinality(T) = 0
      BY <3>1, <3>2, FS_CardinalityType
    <3> QED
      BY <3>2, <3>3, FS_EmptySet
  <2>2. IsLoading(t, g, Small(S, 0))
    BY <2>1 DEF IsLoading
  <2> QED
    BY <1>2, <2>2
<1>4. m - 1 \in Nat /\ \E g : IsLoading(t, g, Small(S, m - 1))
  <2>1. m - 1 \in Nat /\ ~(m <= m - 1)
    BY <1>2, <1>3
  <2>2. m - 1 \notin Bad
    BY <1>1, <2>1
  <2> QED
    BY <2>1, <2>2
<1>5. PICK g : IsLoading(t, g, Small(S, m - 1))
  BY <1>4
<1> HIDE DEF Bad
<1> DEFINE D == Small(S, m)
           E == Small(S, m - 1)
           Rest(T) == T \ {CHOOSE x \in T : TRUE}
           h == [T \in D |-> IF T = {} THEN t ELSE StartLoad(CHOOSE x \in T : TRUE, g[Rest(T)])]
<1>6. \A T \in E : g[T] = IF T = {} THEN t ELSE StartLoad(CHOOSE x \in T : TRUE, g[Rest(T)])
  BY <1>5, Zenon DEF IsLoading
<1>7. ASSUME NEW T \in D, T # {} PROVE Rest(T) \in E /\ Rest(T) \in D
  <2>1. T \in SUBSET S /\ Cardinality(T) <= m
    BY DEF Small
  <2>2. /\ Rest(T) \in SUBSET S /\ Cardinality(T) \in Nat \ {0}
        /\ Cardinality(Rest(T)) = Cardinality(T) - 1
    BY <1>7, <2>1, OneLess
  <2> HIDE DEF Rest
  <2>3. Cardinality(Rest(T)) <= m - 1 /\ Cardinality(Rest(T)) <= m
    BY <1>2, <2>1, <2>2
  <2> QED
    BY <2>2, <2>3 DEF Small
<1>8. \A T \in E : T \in D
  <2> SUFFICES ASSUME NEW T \in E PROVE T \in D
    OBVIOUS
  <2>1. T \in SUBSET S /\ Cardinality(T) <= m - 1
    BY DEF Small
  <2>2. Cardinality(T) \in Nat
    BY <2>1, FS_Subset, FS_CardinalityType
  <2> QED
    BY <1>2, <2>1, <2>2 DEF Small
<1> HIDE DEF D, E
<1>9. \A T \in E : h[T] = g[T]
  BY <1>6, <1>8
<1>10. \A T \in D : T # {} => h[Rest(T)] = g[Rest(T)]
  BY <1>7, <1>9
<1>11. h = [T \in D |-> IF T = {} THEN t ELSE StartLoad(CHOOSE x \in T : TRUE, h[Rest(T)])]
  <2> DEFINE k == [T \in D |-> IF T = {} THEN t
                               ELSE StartLoad(CHOOSE x \in T : TRUE, h[Rest(T)])]
  <2>1. ASSUME NEW T \in D PROVE h[T] = k[T]
    <3>1. CASE T = {}
      BY <3>1
    <3>2. CASE T # {}
      <4>1. h[Rest(T)] = g[Rest(T)]
        BY <1>10, <3>2
      <4>2. h[T] = StartLoad(CHOOSE x \in T : TRUE, g[Rest(T)])
        BY <3>2
      <4>3. k[T] = StartLoad(CHOOSE x \in T : TRUE, h[Rest(T)])
        BY <3>2
      <4> QED
        BY <4>1, <4>2, <4>3
    <3> QED
      BY <3>1, <3>2
  <2>2. h = [T \in D |-> h[T]] /\ k = [T \in D |-> k[T]]
    OBVIOUS
  <2> HIDE DEF h, k
  <2>3. h = k
    BY <2>1, <2>2
  <2> QED
    BY <2>3 DEF k
<1> HIDE DEF h
<1>12. IsLoading(t, h, Small(S, m))
  BY <1>11, Zenon DEF IsLoading, D, Rest
<1> QED
  BY <1>2, <1>12

LEMMA LoadingExists ==
    ASSUME NEW t, NEW S, IsFiniteSet(S)
    PROVE  IsLoading(t, LoadingOf(t, S), SUBSET S)
<1>1. Cardinality(S) \in Nat
  BY FS_CardinalityType
<1>2. Small(S, Cardinality(S)) = SUBSET S
  BY FS_Subset DEF Small
<1>3. \E g : IsLoading(t, g, Small(S, Cardinality(S)))
  BY <1>1, LoadingUpTo
<1>4. \E g : IsLoading(t, g, SUBSET S)
  BY <1>2, <1>3
<1> QED
  BY <1>4, Zenon DEF LoadingOf

LEMMA FoldKeeps ==
    ASSUME Bounded, NEW t, Tidy(t), NEW S \in SUBSET Hashes, IsFiniteSet(S)
    PROVE  Tidy(FoldSet(StartLoad, t, S))
<1> DEFINE g == LoadingOf(t, S)
           Bad == {n \in Nat : \E T \in SUBSET S : Cardinality(T) = n /\ ~Tidy(g[T])}
<1>0. IsLoading(t, g, SUBSET S)
  BY LoadingExists
<1> HIDE DEF g
<1>1. \A T \in SUBSET S :
        g[T] = IF T = {} THEN t
               ELSE StartLoad(CHOOSE x \in T : TRUE, g[T \ {CHOOSE x \in T : TRUE}])
  BY <1>0, Zenon DEF IsLoading
<1>2. Bad = {}
  <2> SUFFICES ASSUME Bad # {} PROVE FALSE
    OBVIOUS
  <2>0. Bad \subseteq Nat
    OBVIOUS
  <2>1. Min(Bad) \in Bad /\ \A i \in Bad : Min(Bad) <= i
    <3> HIDE DEF Bad
    <3> QED
      BY <2>0, MinLeast
  <2> DEFINE m == Min(Bad)
  <2>2. m \in Bad
    BY <2>1
  <2>3. \A i \in Bad : m <= i
    BY <2>1
  <2> HIDE DEF m
  <2>4. PICK T \in SUBSET S : Cardinality(T) = m /\ ~Tidy(g[T])
    BY <2>2
  <2>5. T # {}
    BY <1>1, <2>4
  <2> DEFINE c == CHOOSE x \in T : TRUE
             R == T \ {c}
  <2>6. R \in SUBSET S /\ m \in Nat \ {0} /\ Cardinality(R) = m - 1
    BY <2>4, <2>5, OneLess
  <2>7. c \in Hashes
    BY <2>5
  <2>8. g[T] = StartLoad(c, g[R])
    BY <1>1, <2>5
  <2> HIDE DEF c, R
  <2>9. m - 1 \in Nat /\ ~(m <= m - 1)
    BY <2>6
  <2>10. m - 1 \notin Bad
    BY <2>3, <2>9
  <2>11. Tidy(g[R])
    BY <2>6, <2>9, <2>10
  <2>12. Tidy(g[T])
    BY <2>7, <2>8, <2>11, LoadKeeps
  <2> QED
    BY <2>4, <2>12
<1>3. Cardinality(S) \in Nat
  BY FS_CardinalityType
<1>4. Tidy(g[S])
  BY <1>2, <1>3
<1> QED
  BY <1>4, FoldIs DEF g

\* The jobs of a list are the companion's.
OfJobs(rows) == \A r \in rows : r.job \in Jobs

LEMMA RenderKeeps ==
    ASSUME Bounded, NEW t, Tidy(t), NEW u, NEW s, OfJobs(s.rows)
    PROVE  Tidy(Rendered(t, u, s))
<1> DEFINE S == {ThumbOf[r.job] : r \in Visible(u, s)}
           A == {ThumbOf[j] : j \in Jobs}
<1>1. \A r \in Visible(u, s) : r \in s.rows
  BY DEF Visible
<1>2. S \subseteq A
  BY <1>1 DEF OfJobs
<1>3. A \subseteq Hashes
  BY HistoryBounds
<1>4. IsFiniteSet(A)
  <2>1. NJobs \in Nat
    BY HistoryBounds
  <2> DEFINE f == [j \in 1..NJobs |-> ThumbOf[j]]
  <2>2. f \in Surjection(1..NJobs, A)
    BY DEF Surjection, Jobs
  <2> QED
    BY <2>1, <2>2, FS_NatSurjection DEF ExistsSurjection
<1>5. IsFiniteSet(S)
  BY <1>2, <1>4, FS_Subset
<1>6. S \in SUBSET Hashes
  BY <1>2, <1>3
<1> HIDE DEF S, A
<1>7. Tidy(FoldSet(StartLoad, t, S))
  BY <1>5, <1>6, FoldKeeps
<1> QED
  BY <1>7 DEF Rendered, S

-----------------------------------------------------------------------------
(***************************************************************************)
(* What comes and goes                                                     *)
(***************************************************************************)

LEMMA UrlsAreUrls ==
    ASSUME NEW s \in Seq(Entry)
    PROVE  UrlSet(s) \subseteq Urls /\ 0 \notin Urls
<1>1. DOMAIN s = 1..Len(s)
  BY LenProperties
<1>2. \A k \in 1..Len(s) : s[k].url \in Urls
  BY Kept
<1> QED
  BY <1>1, <1>2 DEF UrlSet, Urls

LEMMA RevokedKeeps == ASSUME NEW t, Tidy(t) PROVE Tidy(Revoked(t))
<1> DEFINE u == Revoked(t)
           l == [h \in Hashes |-> 0]
<1>1. /\ IsThumbs(t) /\ t.live = UrlSet(t.urls) \cup Preview(t)
      /\ Preview(t) \cap UrlSet(t.urls) = {}
  BY DEF Tidy, Alive
<1>2. u = [t EXCEPT !.live = t.live \ UrlSet(t.urls), !.urls = <<>>, !.loads = l]
  BY DEF Revoked, UrlSet
<1> HIDE DEF u, l
<1>3. /\ IsThumbs(u) /\ u.live = t.live \ UrlSet(t.urls) /\ u.urls = <<>>
      /\ u.work = t.work /\ u.preview = t.preview /\ u.image = t.image
  BY <1>1, <1>2 DEF IsThumbs, ThumbNames
<1>4. u.live = Preview(t) /\ u.live \subseteq t.live /\ Preview(u) = Preview(t)
  BY <1>1, <1>3 DEF Preview
<1>5. Alive(u, Preview(u))
  BY <1>3, <1>4, NothingKept DEF Alive
<1>6. Working(u) /\ Selected(u)
  BY <1>3, <1>4 DEF Tidy, Working, Selected
<1> QED
  BY <1>5, <1>6 DEF Tidy, u

LEMMA NoSelectionKeeps ==
    ASSUME NEW t, Tidy(t)
    PROVE  LET u == NoSelection(t)
           IN  Tidy(u) /\ u.preview = 0 /\ u.live \subseteq t.live
<1> DEFINE u == NoSelection(t)
<1>1. /\ IsThumbs(t) /\ t.live = UrlSet(t.urls) \cup Preview(t)
      /\ Preview(t) \cap UrlSet(t.urls) = {} /\ t.urls \in Seq(Entry) /\ Apart(t.urls)
  BY DEF Tidy, Alive
<1>2. u = [t EXCEPT !.live = t.live \ {t.preview}, !.preview = 0, !.image = 0]
  BY DEF NoSelection
<1> HIDE DEF u
<1>3. /\ IsThumbs(u) /\ u.live = t.live \ {t.preview} /\ u.urls = t.urls
      /\ u.work = t.work /\ u.preview = 0 /\ u.image = 0
  BY <1>1, <1>2 DEF IsThumbs, ThumbNames
<1>4. u.live = UrlSet(t.urls) /\ u.live \subseteq t.live /\ Preview(u) = {}
  BY <1>1, <1>3, UrlsAreUrls DEF Preview
<1>5. Alive(u, Preview(u))
  BY <1>1, <1>3, <1>4 DEF Alive
<1>6. Working(u) /\ Selected(u)
  BY <1>3, <1>4 DEF Tidy, Working, Selected
<1> QED
  BY <1>3, <1>4, <1>5, <1>6 DEF Tidy, u

\* A URL that is alive beside the others becomes a thumbnail.
LEMMA NewThumb ==
    ASSUME NEW t, IsThumbs(t), Selected(t), Alive(t, Preview(t)),
           t.work = [j \in Urls |-> t.work[j]], NEW i \in Urls, i \notin t.live,
           \A j \in Urls : t.work[j].st = "busy"
              => t.work[j].hash \in Hashes /\ j \notin t.live /\ j # i,
           NEW h \in Hashes
    PROVE  Tidy(Store([t EXCEPT !.live = t.live \cup {i}], h, i))
<1> DEFINE v == [t EXCEPT !.live = t.live \cup {i}]
           u == Store(v, h, i)
<1>1. /\ IsThumbs(v) /\ v.live = t.live \cup {i} /\ v.urls = t.urls
      /\ v.work = t.work /\ v.preview = t.preview /\ v.image = t.image
  BY DEF IsThumbs, ThumbNames
<1> HIDE DEF v
<1>2. i \notin Preview(t) /\ i \notin UrlSet(t.urls)
  BY DEF Alive
<1>3. Alive(v, Preview(t) \cup {i})
  BY <1>1, <1>2 DEF Alive
<1>4. /\ Alive(u, Preview(t)) /\ u.live \subseteq v.live
      /\ u.work = v.work /\ u.preview = v.preview /\ u.image = v.image
  BY <1>2, <1>3, StoreKeeps
<1> HIDE DEF u
<1>5. Alive(u, Preview(u)) /\ Selected(u)
  BY <1>1, <1>4 DEF Preview, Selected
<1>6. Working(u)
  BY <1>1, <1>4 DEF Working
<1> QED
  BY <1>5, <1>6 DEF Tidy, u, v

LEMMA RememberKeeps ==
    ASSUME Bounded, NEW t, Tidy(t), NEW h \in Hashes, FreeIds(t) # {}
    PROVE  Tidy(Remember(t, h))
<1> DEFINE i == Min(FreeIds(t))
<1>1. CASE KeptAt(t, h) # {}
  BY <1>1 DEF Remember
<1>2. CASE KeptAt(t, h) = {}
  <2>1. i \in Urls /\ i \notin t.live /\ t.work[i].st = "free"
    BY FreeIsFree
  <2>2. Remember(t, h) = Store([t EXCEPT !.live = t.live \cup {i}], h, i)
    BY <1>2 DEF Remember
  <2> HIDE DEF i
  <2>3. /\ IsThumbs(t) /\ Selected(t) /\ Alive(t, Preview(t)) /\ Working(t)
        /\ t.work = [j \in Urls |-> t.work[j]]
    BY DEF Tidy, Working, Alive
  <2>4. \A j \in Urls : t.work[j].st = "busy"
          => t.work[j].hash \in Hashes /\ j \notin t.live /\ j # i
    BY <2>1, <2>3 DEF Working
  <2>5. Tidy(Store([t EXCEPT !.live = t.live \cup {i}], h, i))
    BY <2>1, <2>3, <2>4, NewThumb
  <2> QED
    BY <2>2, <2>5
<1> QED
  BY <1>1, <1>2

LEMMA LoadEndsKeeps ==
    ASSUME Tidy(th), NEW i \in Urls, LoadEnds(i)
    PROVE  Tidy(th')
<1> DEFINE h == th.work[i].hash
           t == [th EXCEPT !.work[i] = NoWork]
           n == Store([t EXCEPT !.live = t.live \cup {i}], h, i)
<1>1. th.work[i].st = "busy" /\ \E u \in {t, n} : th' = [u EXCEPT !.loads[h] = 0]
  BY DEF LoadEnds
<1>2. /\ IsThumbs(th) /\ th.work = [j \in Urls |-> th.work[j]] /\ h \in Hashes /\ i \notin th.live
      /\ \A j \in Urls : th.work[j].st = "busy" => th.work[j].hash \in Hashes /\ j \notin th.live
  BY <1>1 DEF Tidy, Alive, Working
<1>3. NoWork.st = "free"
  BY DEF NoWork
<1> HIDE DEF h
<1>4. /\ IsThumbs(t) /\ t.live = th.live /\ t.urls = th.urls
      /\ t.work = [th.work EXCEPT ![i] = NoWork] /\ t.preview = th.preview /\ t.image = th.image
  BY <1>2 DEF IsThumbs, ThumbNames
<1> HIDE DEF t
<1>5. t.work = [j \in Urls |-> IF j = i THEN NoWork ELSE th.work[j]]
  BY <1>2, <1>4
<1>6. /\ t.work = [j \in Urls |-> t.work[j]]
      /\ \A j \in Urls : t.work[j].st = "busy"
            => t.work[j].hash \in Hashes /\ j \notin t.live /\ j # i
  BY <1>2, <1>3, <1>4, <1>5
<1>7. Alive(t, Preview(t)) /\ Selected(t)
  BY <1>4 DEF Tidy, Alive, Preview, Selected
<1>8. Tidy(t)
  BY <1>6, <1>7 DEF Tidy, Working
<1>9. Tidy(n)
  BY <1>2, <1>4, <1>6, <1>7, NewThumb
<1> HIDE DEF n
<1>10. PICK u : Tidy(u) /\ th' = [u EXCEPT !.loads[h] = 0]
  BY <1>1, <1>8, <1>9
<1>11. /\ IsThumbs(u) /\ IsThumbs(th') /\ th'.urls = u.urls /\ th'.live = u.live
       /\ th'.work = u.work /\ th'.preview = u.preview /\ th'.image = u.image
  BY <1>10 DEF Tidy, Alive, IsThumbs, ThumbNames
<1> QED
  BY <1>10, <1>11 DEF Tidy, Alive, Preview, Selected, Working

LEMMA FileKeeps ==
    ASSUME Bounded, Tidy(th), NEW h \in Hashes, SelectFile(h)
    PROVE  Tidy(th')
<1> DEFINE t == NoSelection(th)
           i == Min(FreeIds(t))
<1>1. /\ FreeIds(t) # {}
      /\ th' = [t EXCEPT !.live = t.live \cup {i}, !.preview = i, !.image = h]
  BY DEF SelectFile
<1>2. Tidy(t) /\ t.preview = 0
  BY NoSelectionKeeps
<1>3. i \in Urls /\ i # 0 /\ i \notin t.live /\ t.work[i].st = "free"
  BY <1>1, FreeIsFree
<1> HIDE DEF t, i
<1>4. IsThumbs(t) /\ t.live = UrlSet(t.urls)
  BY <1>2 DEF Tidy, Alive, Preview
<1>5. /\ IsThumbs(th') /\ th'.urls = t.urls /\ th'.live = t.live \cup {i}
      /\ th'.work = t.work /\ th'.preview = i /\ th'.image = h
  BY <1>1, <1>4 DEF IsThumbs, ThumbNames
<1>6. Preview(th') = {i} /\ Selected(th')
  BY <1>3, <1>5 DEF Preview, Selected
<1>7. Alive(th', {i})
  BY <1>2, <1>3, <1>4, <1>5 DEF Tidy, Alive
<1>8. Working(th')
  BY <1>2, <1>3, <1>5 DEF Tidy, Working
<1> QED
  BY <1>6, <1>7, <1>8 DEF Tidy

\* The preview becomes a thumbnail.
LEMMA PreviewStored ==
    ASSUME NEW t, Tidy(t), t.preview # 0, NEW h \in Hashes
    PROVE  LET u == [Store(t, h, t.preview) EXCEPT !.preview = 0]
           IN  Tidy(u) /\ u.live \subseteq t.live /\ u.work = t.work
<1> DEFINE s == Store(t, h, t.preview)
           u == [s EXCEPT !.preview = 0]
<1>1. t.preview \in Urls /\ Alive(t, {} \cup {t.preview})
  BY DEF Tidy, Selected, Preview
<1>2. /\ Alive(s, {}) /\ s.live \subseteq t.live /\ s.work = t.work /\ s.image = t.image
  BY <1>1, StoreKeeps
<1> HIDE DEF s
<1>3. /\ IsThumbs(u) /\ u.urls = s.urls /\ u.live = s.live /\ u.work = s.work
      /\ u.preview = 0 /\ u.image = s.image
  BY <1>2 DEF Alive, IsThumbs, ThumbNames
<1> HIDE DEF u
<1>4. Alive(u, Preview(u))
  BY <1>2, <1>3 DEF Alive, Preview
<1>5. Selected(u) /\ Working(u)
  BY <1>2, <1>3 DEF Tidy, Selected, Working
<1> QED
  BY <1>2, <1>3, <1>4, <1>5 DEF Tidy, u, s

LEMMA QueueKeeps ==
    ASSUME Bounded, Tidy(th), QueueFile
    PROVE  Tidy(th')
<1> DEFINE h == th.image
           p == [Store(th, h, th.preview) EXCEPT !.preview = 0]
           t == IF KeptAt(th, h) = {} /\ th.preview # 0 THEN p ELSE th
<1>1. h # 0 /\ FreeIds(th) # {} /\ th' = NoSelection(Remember(t, h))
  BY DEF QueueFile
<1>2. h \in Hashes
  BY <1>1 DEF Tidy, Selected
<1>3. Tidy(t) /\ t.live \subseteq th.live /\ t.work = th.work
  BY <1>2, PreviewStored
<1> HIDE DEF t, h
<1>4. FreeIds(t) # {}
  BY <1>1, <1>3 DEF FreeIds
<1>5. Tidy(Remember(t, h))
  BY <1>2, <1>3, <1>4, RememberKeeps
<1> QED
  BY <1>1, <1>5, NoSelectionKeeps

-----------------------------------------------------------------------------
(***************************************************************************)
(* Every URL is accounted for, and rows and detail window name jobs of the *)
(* companion's, so that what is loaded for them is an image.               *)
(***************************************************************************)

Answers == \A f \in Flights : OfJobs(flight[f].answer.rows)

UrlInv ==
    /\ Bounded
    /\ Tidy(th)
    /\ OfJobs(shown.rows) /\ Answers
    /\ detail.timer => detail.job \in Jobs

LEMMA BoundedStays == ASSUME Bounded, [Next]_vars PROVE Bounded'
<1>1. CASE UNCHANGED scene
  BY <1>1 DEF Bounded
<1>2. CASE \E c : Click(c)
  <2>1. scene.clicks > 0 /\ scene' = [scene EXCEPT !.clicks = scene.clicks - 1]
    BY <1>2 DEF Click
  <2>2. scene.clicks - 1 \in Nat
    BY <2>1 DEF Bounded
  <2> QED
    BY <2>1, <2>2 DEF Bounded
<1>3. CASE Stop
  <2>1. scene.restarts > 0 /\ scene' = [scene EXCEPT !.restarts = scene.restarts - 1]
    BY <1>3 DEF Stop
  <2>2. scene.restarts - 1 \in Nat
    BY <2>1 DEF Bounded
  <2> QED
    BY <2>1, <2>2 DEF Bounded
<1>4. UNCHANGED scene \/ (\E c : Click(c)) \/ Stop
  <2>1. CASE \E j \in Jobs : JobAppears(j) \/ JobEnds(j) \/ Cancel(j) \/ OpenDetail(j)
    BY <2>1 DEF JobAppears, JobEnds, Cancel, OpenDetail
  <2>2. CASE \E f \in Flights : CompanionAnswers(f) \/ Arrives(f) \/ Fails(f) \/ Drops(f)
    BY <2>2 DEF CompanionAnswers, Arrives, Fails, Drops
  <2>3. CASE (\E i \in Urls : LoadEnds(i)) \/ (\E h \in Hashes : Capture(h) \/ SelectFile(h))
             \/ RemoveFile \/ QueueFile
    BY <2>3 DEF LoadEnds, Capture, SelectFile, RemoveFile, QueueFile
  <2>4. CASE Poll \/ RouteChanges \/ SearchTimer \/ (\E tab \in Tabs : SelectTab(tab))
             \/ Search \/ SelectModel \/ RefreshButton
    BY <2>4 DEF Poll, RouteChanges, SearchTimer, SelectTab, Search, SelectModel, RefreshButton
  <2>5. CASE (\E d \in {-1, 1} : TurnPage(d)) \/ (\E b \in BOOLEAN : Collapse(b) \/ Overlay(b))
             \/ ClearAsked \/ CompanionClears \/ Cleared \/ Escape \/ Stop \/ Start
    BY <2>5 DEF TurnPage, Collapse, Overlay, ClearAsked, CompanionClears, Cleared, Escape, Start
  <2>6. CASE CloseDetail \/ DetailTick \/ DetailArrives \/ DetailFails \/ DetailRenders
    BY <2>6 DEF CloseDetail, DetailTick, DetailArrives, DetailFails, DetailRenders
  <2>7. CASE UNCHANGED vars
    BY <2>7 DEF vars
  <2> QED
    BY <2>1, <2>2, <2>3, <2>4, <2>5, <2>6, <2>7 DEF Next
<1> QED
  BY <1>1, <1>2, <1>3, <1>4

\* The rows of an answer are jobs.
LEMMA AnswerOfJobs == \A q, p, by : OfJobs(Answered(q, p, by).rows)
<1> SUFFICES ASSUME NEW q, NEW p, NEW by
             PROVE  \A r \in Answered(q, p, by).rows : r.job \in Jobs
  BY DEF OfJobs
<1>1. \A r \in Answered(q, p, by).rows : r.job \in Matches(q)
  BY DEF Answered
<1>2. Matches(q) \subseteq Jobs
  BY DEF Matches
<1> QED
  BY <1>1, <1>2

LEMMA NothingOfJobs == OfJobs(NoFlight.answer.rows) /\ OfJobs(Aborted.answer.rows)
<1>1. NoFlight.answer = NoPage /\ Aborted.answer = NoPage /\ NoPage.rows = {}
  BY DEF NoFlight, Aborted, NoPage
<1> QED
  BY <1>1 DEF OfJobs

\* What becomes of the requests.
RequestStep ==
    \/ UNCHANGED flight
    \/ \E u, t : Refresh(u, t)
    \/ \E f \in Flights : CompanionAnswers(f) \/ \E u, s : Settles(f, u, s)
    \/ Stop

LEMMA AnswersStay == ASSUME Functions, Answers, RequestStep PROVE Answers'
<1>1. CASE UNCHANGED flight
  BY <1>1 DEF Answers
<1>2. CASE \E u, t : Refresh(u, t)
  <2>1. PICK u, t : Refresh(u, t)
    BY <1>2
  <2> DEFINE new == [NoFlight EXCEPT !.st = "sent", !.q = QueryOf(u), !.page = u.page]
  <2>2. new.answer = NoFlight.answer
    BY DEF NoFlight
  <2>3. flight' = [f \in Flights |-> IF f = Min(Slots) THEN new
                                     ELSE IF f = cur THEN Aborted ELSE flight[f]]
    BY <2>1 DEF Refresh
  <2> HIDE DEF new
  <2>4. \A f \in Flights : flight'[f] \in {new, Aborted, flight[f]}
    BY <2>3
  <2> QED
    BY <2>2, <2>4, NothingOfJobs DEF Answers
<1>3. CASE \E f \in Flights : CompanionAnswers(f)
  <2>1. PICK f \in Flights : CompanionAnswers(f)
    BY <1>3
  <2>0. PICK by : flight' = [flight EXCEPT ![f] =
                 [NoFlight EXCEPT !.st = "answered",
                                  !.answer = Answered(flight[f].q, flight[f].page, by)]]
    BY <2>1 DEF CompanionAnswers
  <2> DEFINE a == Answered(flight[f].q, flight[f].page, by)
             new == [NoFlight EXCEPT !.st = "answered", !.answer = a]
  <2>2. new.answer = a
    BY DEF NoFlight
  <2>3. flight' = [flight EXCEPT ![f] = new]
    BY <2>0
  <2>4. OfJobs(a.rows)
    BY AnswerOfJobs
  <2> HIDE DEF a, new
  <2>5. \A g \in Flights : flight'[g] \in {new, flight[g]}
    BY <2>3 DEF Functions, IsFunction
  <2> QED
    BY <2>2, <2>4, <2>5 DEF Answers
<1>4. CASE \E f \in Flights : \E u, s : Settles(f, u, s)
  <2>1. PICK f \in Flights : flight' = [flight EXCEPT ![f] = NoFlight]
    BY <1>4 DEF Settles
  <2>2. \A g \in Flights : flight'[g] \in {NoFlight, flight[g]}
    BY <2>1 DEF Functions, IsFunction
  <2> QED
    BY <2>2, NothingOfJobs DEF Answers
<1>5. CASE Stop
  <2>1. flight' = [f \in Flights |-> IF f = cur THEN Aborted ELSE flight[f]]
    BY <1>5 DEF Stop
  <2>2. \A g \in Flights : flight'[g] \in {Aborted, flight[g]}
    BY <2>1
  <2> QED
    BY <2>2, NothingOfJobs DEF Answers
<1> QED
  BY <1>1, <1>2, <1>3, <1>4, <1>5 DEF RequestStep

LEMMA Requested == ASSUME [Next]_vars PROVE RequestStep
<1>1. CASE \E j \in Jobs : JobAppears(j) \/ JobEnds(j) \/ Cancel(j) \/ OpenDetail(j)
  BY <1>1 DEF JobAppears, JobEnds, Cancel, OpenDetail, list, RequestStep
<1>2. CASE \E f \in Flights : CompanionAnswers(f) \/ Arrives(f) \/ Fails(f) \/ Drops(f)
  BY <1>2 DEF Arrives, Fails, Drops, RequestStep
<1>3. CASE (\E i \in Urls : LoadEnds(i)) \/ (\E h \in Hashes : Capture(h) \/ SelectFile(h))
           \/ RemoveFile \/ QueueFile
  BY <1>3 DEF LoadEnds, Capture, SelectFile, RemoveFile, QueueFile, list, RequestStep
<1>4. CASE Poll \/ RouteChanges \/ SearchTimer \/ (\E tab \in Tabs : SelectTab(tab))
           \/ Search \/ SelectModel \/ RefreshButton
  BY <1>4 DEF Poll, RouteChanges, SearchTimer, SelectTab, Search, SelectModel, RefreshButton,
              Renders, RequestStep
<1>5. CASE (\E d \in {-1, 1} : TurnPage(d)) \/ (\E b \in BOOLEAN : Collapse(b) \/ Overlay(b))
           \/ Cleared \/ Escape \/ Stop \/ Start
  BY <1>5 DEF TurnPage, Collapse, Overlay, Cleared, Escape, Start, Renders, RequestStep
<1>6. CASE ClearAsked \/ CompanionClears \/ CloseDetail \/ DetailTick \/ DetailArrives
           \/ DetailFails \/ DetailRenders
  BY <1>6 DEF ClearAsked, CompanionClears, CloseDetail, DetailTick, DetailArrives, DetailFails,
              DetailRenders, list, RequestStep
<1>7. CASE UNCHANGED vars
  BY <1>7 DEF vars, list, RequestStep
<1> QED
  BY <1>1, <1>2, <1>3, <1>4, <1>5, <1>6, <1>7 DEF Next

LEMMA ShownStays == ASSUME OfJobs(shown.rows), Answers, [Next]_vars PROVE OfJobs(shown'.rows)
<1>1. CASE UNCHANGED shown
  BY <1>1
<1>2. CASE \E f \in Flights : Arrives(f)
  BY <1>2 DEF Arrives, Answers
<1> QED
  BY <1>1, <1>2, ShownChanges

\* Only a window that is opened begins to poll.
LEMMA WindowStays ==
    ASSUME Polls(detail), detail.timer => detail.job \in Jobs, [Next]_vars
    PROVE  detail'.timer => detail'.job \in Jobs
<1>1. CASE UNCHANGED detail
  BY <1>1
<1>2. CASE detail' = NoDetail
  BY <1>2 DEF NoDetail
<1>3. CASE \E j \in Jobs : OpenDetail(j)
  <2>1. PICK j \in Jobs : detail' = [NoDetail EXCEPT !.job = j, !.pc = "fetch", !.timer = TRUE]
    BY <1>3 DEF OpenDetail
  <2>2. detail'.job = j
    BY <2>1 DEF NoDetail
  <2> QED
    BY <2>2
<1>4. CASE DetailTick \/ DetailArrives \/ DetailFails
  <2>1. detail'.timer = detail.timer /\ detail'.job = detail.job
    BY <1>4 DEF DetailTick, DetailArrives, DetailFails, Polls, IsDetail, DetailNames
  <2> QED
    BY <2>1
<1>5. CASE DetailRenders
  <2> DEFINE d == detail.timer /\ ~(detail.answer \in Ended)
  <2>1. detail' = [detail EXCEPT !.pc = "idle", !.status = detail.answer, !.timer = d]
    BY <1>5 DEF DetailRenders
  <2>2. d => detail.timer
    OBVIOUS
  <2> HIDE DEF d
  <2>3. detail'.timer = d /\ detail'.job = detail.job
    BY <2>1 DEF Polls, IsDetail, DetailNames
  <2> QED
    BY <2>2, <2>3
<1> QED
  BY <1>1, <1>2, <1>3, <1>4, <1>5, DetailSteps

-----------------------------------------------------------------------------
\* Rendering the list.
LEMMA Draws ==
    ASSUME UrlInv, NEW t, Tidy(t), NEW u,
           Refresh(u, t) \/ Renders(u, t)
    PROVE  Tidy(th')
<1>1. \E v : th' = Rendered(t, v, shown)
  BY DEF Refresh, Renders
<1> QED
  BY <1>1, RenderKeeps DEF UrlInv

LEMMA ThumbsTidy == ASSUME UrlInv, Polls(detail), [Next]_vars PROVE Tidy(th')
<1>0. Tidy(th) /\ Bounded
  BY DEF UrlInv
<1>1. CASE UNCHANGED th
  BY <1>0, <1>1
<1>2. CASE \E u : Refresh(u, th) \/ Renders(u, th)
  BY <1>0, <1>2, Draws
<1>3. CASE Cleared \/ Stop
  <2> DEFINE t == Revoked(th)
  <2>1. Tidy(t)
    BY <1>0, RevokedKeeps
  <2>2. \/ \E u : Refresh(u, t)
        \/ th' = t \/ th' = NoSelection(t)
    BY <1>3 DEF Cleared, Stop
  <2> HIDE DEF t
  <2> QED
    BY <2>1, <2>2, Draws, NoSelectionKeeps
<1>4. CASE \E f \in Flights : Arrives(f) \/ Fails(f) \/ Drops(f)
  <2>1. PICK f \in Flights : \E u : Settles(f, u, flight[f].answer) \/ Settles(f, u, shown)
    BY <1>4 DEF Arrives, Fails, Drops
  <2>2. \E s : OfJobs(s.rows) /\ \E u : Settles(f, u, s)
    BY <2>1 DEF UrlInv, Answers
  <2>3. PICK s : OfJobs(s.rows) /\ \E u : Settles(f, u, s)
    BY <2>2
  <2>4. th' = th \/ \E u : th' = Rendered(th, u, s)
    BY <2>3 DEF Settles
  <2> QED
    BY <1>0, <2>3, <2>4, RenderKeeps
<1>5. CASE \E i \in Urls : LoadEnds(i)
  BY <1>0, <1>5, LoadEndsKeeps
<1>6. CASE \E h \in Hashes : Capture(h)
  BY <1>0, <1>6, RememberKeeps DEF Capture
<1>7. CASE \E h \in Hashes : SelectFile(h)
  BY <1>0, <1>7, FileKeeps
<1>8. CASE RemoveFile
  BY <1>0, <1>8, NoSelectionKeeps DEF RemoveFile
<1>9. CASE QueueFile
  BY <1>0, <1>9, QueueKeeps
<1>10. CASE DetailArrives
  <2>1. detail.timer
    BY <1>10 DEF DetailArrives, Polls
  <2>2. ThumbOf[detail.job] \in Hashes
    BY <2>1, HistoryBounds DEF UrlInv
  <2>3. th' = StartLoad(ThumbOf[detail.job], th)
    BY <1>10 DEF DetailArrives
  <2> QED
    BY <1>0, <2>2, <2>3, LoadKeeps
<1>11. CASE \E j \in Jobs : JobAppears(j) \/ JobEnds(j) \/ Cancel(j) \/ OpenDetail(j)
  BY <1>1, <1>2, <1>11 DEF JobAppears, JobEnds, Cancel, OpenDetail
<1>12. CASE (\E f \in Flights : CompanionAnswers(f)) \/ ClearAsked \/ CompanionClears
            \/ CloseDetail \/ DetailTick \/ DetailFails
  BY <1>1, <1>12 DEF CompanionAnswers, ClearAsked, CompanionClears, CloseDetail, DetailTick,
                     DetailFails
<1>13. CASE Poll \/ RouteChanges \/ SearchTimer \/ (\E tab \in Tabs : SelectTab(tab))
            \/ Search \/ SelectModel \/ RefreshButton \/ Start
  BY <1>2, <1>13 DEF Poll, RouteChanges, SearchTimer, SelectTab, Search, SelectModel,
                     RefreshButton, Start
<1>14. CASE (\E d \in {-1, 1} : TurnPage(d)) \/ (\E b \in BOOLEAN : Collapse(b) \/ Overlay(b))
            \/ Escape \/ DetailRenders
  BY <1>1, <1>2, <1>14 DEF TurnPage, Collapse, Overlay, Escape, DetailRenders
<1>15. CASE UNCHANGED vars
  BY <1>1, <1>15 DEF vars
<1> QED
  BY <1>3, <1>4, <1>5, <1>6, <1>7, <1>8, <1>9, <1>10, <1>11, <1>12, <1>13, <1>14, <1>15
     DEF Next

LEMMA InitUrls == Init => UrlInv
<1> SUFFICES ASSUME Init PROVE UrlInv
  OBVIOUS
<1>1. Bounded
  BY HistoryBounds DEF Init, Bounded
<1>2. /\ IsThumbs(th) /\ th.urls = <<>> /\ th.live = {} /\ th.preview = 0 /\ th.image = 0
      /\ th.work = [i \in Urls |-> NoWork]
  BY DEF Init, IsThumbs, ThumbNames
<1>3. Alive(th, Preview(th)) /\ Selected(th)
  BY <1>2, NothingKept DEF Alive, Preview, Selected
<1>4. NoWork.st = "free"
  BY DEF NoWork
<1>5. Working(th)
  BY <1>2, <1>4 DEF Working
<1>6. OfJobs(shown.rows)
  BY DEF Init, NoPage, OfJobs
<1>7. Answers
  BY NothingOfJobs DEF Init, Answers
<1>8. ~detail.timer
  BY DEF Init, NoDetail
<1> QED
  BY <1>1, <1>3, <1>5, <1>6, <1>7, <1>8 DEF UrlInv, Tidy

\* No object URL is lost, and none that is in use is revoked, whatever the
\* order of loads, captures, clears, selections and stops.
THEOREM NoUrlIsLost == Spec => []NoUrlLost
<1>1. UrlInv => NoUrlLost
  BY DEF UrlInv, Tidy, Alive, Apart, Preview, UrlSet, NoUrlLost
<1>2. IInv /\ WaitInv /\ UrlInv /\ [Next]_vars => UrlInv'
  <2> SUFFICES ASSUME IInv, WaitInv, UrlInv, [Next]_vars PROVE UrlInv'
    OBVIOUS
  <2>1. Bounded' /\ Tidy(th')
    BY BoundedStays, ThumbsTidy DEF UrlInv, WaitInv
  <2>2. OfJobs(shown'.rows) /\ Answers'
    BY ShownStays, AnswersStay, Requested DEF UrlInv, IInv
  <2>3. detail'.timer => detail'.job \in Jobs
    BY WindowStays DEF UrlInv, WaitInv
  <2> QED
    BY <2>1, <2>2, <2>3 DEF UrlInv
<1>3. IInv /\ WaitInv /\ [Next]_vars => WaitInv'
  BY RailWaits, DetailKeeps DEF WaitInv
<1> QED
  BY <1>1, <1>2, <1>3, InitUrls, InitWaits, Inductive, PTL DEF Spec
=============================================================================
