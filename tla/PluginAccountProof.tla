------------------------- MODULE PluginAccountProof -------------------------
(***************************************************************************)
(* Theorems of PluginAccount, for any number of setup windows, installs,   *)
(* requests, sign-ins and reports, and whatever the user clicks, stops or  *)
(* leaves open: a window that waits is waiting for something, a consent    *)
(* has its receipt, no report leaves the outbox unaccepted unless the      *)
(* plugin stopped, the outbox was full, or it moved under a send, and a    *)
(* saved licence works unless two sign-ins have met.                       *)
(*                                                                         *)
(* SetupInv is what the setup windows are.  The heart of it is why the     *)
(* monitor loops of one window differ: each goes by the token it was       *)
(* begun with, a new one takes a token that none of them has, and there    *)
(* are more tokens than loops.                                             *)
(*                                                                         *)
(* OutboxInv is what the outbox is: reports wait in the order in which     *)
(* they were raised, so that the head is the least of them, and within     *)
(* the limit, so that one more costs at most the head.                     *)
(*                                                                         *)
(* SignInInv is what a sign-in may rely on as long as it is the only one:  *)
(* its page is the only one open, and no licence is told to it or saved    *)
(* before no page is left whose approval would replace that licence.       *)
(***************************************************************************)
EXTENDS PluginAccount, FiniteSetTheorems, SequenceTheorems, WellFoundedInduction, TLAPS

(***************************************************************************)
(* Numbers                                                                 *)
(***************************************************************************)

LEMMA LessThan == OpToRel(<, Nat) = {ss \in Nat \X Nat : ss[1] < ss[2]}
  BY Zenon DEF OpToRel

\* A set of naturals has a least member.
LEMMA MinLeast ==
    ASSUME NEW S, S \subseteq Nat, S # {}
    PROVE  Min(S) \in S /\ \A y \in S : Min(S) <= y
<1> DEFINE R == {ss \in Nat \X Nat : ss[1] < ss[2]}
<1>0. IsWellFoundedOn(R, Nat)
  BY NatLessThanWellFounded, LessThan
<1>1. PICK x \in S : \A y \in S : ~(<<y, x>> \in R)
  BY <1>0, WFMin
<1>2. ASSUME NEW y \in S PROVE x <= y
  <2>1. <<y, x>> \in Nat \X Nat /\ <<y, x>> \notin R
    BY <1>1
  <2>2. ~(y < x)
    BY <2>1
  <2> QED
    BY <2>2
<1> QED
  BY <1>2 DEF Min

-----------------------------------------------------------------------------
(***************************************************************************)
(* The setup windows and their installs                                    *)
(***************************************************************************)

Window ==
    [st : {"none", "shown", "gone"}, mode : Modes, contribute : BOOLEAN,
     guild : BOOLEAN, online : Service, refreshing : BOOLEAN, fetch : BOOLEAN,
     token : 0..(MaxMonitors + 1), seen : [Models -> Installing],
     posting : SUBSET Models]

Watch == [w : Windows \cup {0}, token : 0..(MaxMonitors + 1),
          model : Models \cup {"none"}, pc : {"idle", "sent", "sleep"}]

Settings == [done : BOOLEAN, mode : Modes, guild : BOOLEAN,
             contribute : BOOLEAN, diagnostics : BOOLEAN]

\* What is saved, and what the panel shows of it.
ConfTypes ==
    /\ {running, pending} \subseteq BOOLEAN
    /\ conf \in Settings
    /\ receipt \in [Keys -> BOOLEAN]
    /\ box \in [Keys -> BOOLEAN]
    /\ modals \in [Keys -> 0..MaxModals]

\* A window has a request under way exactly when it says so.
WindowsFetch == setup \in [Windows -> {v \in Window : v.refreshing = v.fetch}]

\* No two watches of a window go by the same token.
WatchesDiffer ==
    \A j, k \in Monitors :
        /\ monitor[j].pc # "idle" /\ monitor[k].pc # "idle"
        /\ monitor[j].w = monitor[k].w /\ monitor[j].token = monitor[k].token
        => j = k

\* A loop that has ended holds nothing; one that goes on has a window and a model.
EndedIsFree ==
    \A k \in Monitors :
        \/ monitor[k] = NoMonitor
        \/ /\ monitor[k].pc # "idle"
           /\ monitor[k].w \in Windows /\ monitor[k].model \in Models

SetupInv ==
    /\ ConfTypes
    /\ WindowsFetch
    /\ monitor \in [Monitors -> Watch]
    /\ install \in [Models -> Installing]
    /\ WatchesDiffer
    /\ EndedIsFree

LEMMA SetupInvIs == SetupInv => SetupTypes /\ SetupNeverStuck
BY DEF SetupInv, ConfTypes, WindowsFetch, WatchesDiffer, SetupTypes, SetupNeverStuck, Window,
       Watch, Settings

Fetching == {v \in Window : v.refreshing = v.fetch}

\* A change to a window.
LEMMA WindowChanges ==
    ASSUME SetupInv, NEW w \in Windows, NEW v \in Fetching, setup' = [setup EXCEPT ![w] = v],
           UNCHANGED <<monitor, install>>, ConfTypes'
    PROVE  SetupInv'
BY DEF SetupInv, WindowsFetch, WatchesDiffer, EndedIsFree, Fetching

LEMMA RefreshedFetches == ASSUME NEW v \in Fetching PROVE Refreshed(v) \in Fetching
BY DEF Fetching, Window, Refreshed

LEMMA WindowIs == ASSUME SetupInv, NEW w \in Windows PROVE setup[w] \in Fetching
BY DEF SetupInv, WindowsFetch, Fetching

LEMMA NoSetupFetches == NoSetup \in Fetching
<1>1. 0 \in 0..(MaxMonitors + 1)
  BY SetupBounds
<1>2. [m \in Models |-> "idle"] \in [Models -> Installing]
  BY DEF Installing
<1>3. /\ NoSetup.st \in {"none", "shown", "gone"} /\ NoSetup.mode \in Modes
      /\ NoSetup.online \in Service
  BY DEF NoSetup, Modes, Service
<1> QED
  BY <1>1, <1>2, <1>3 DEF NoSetup, Fetching, Window

\* A new window opens, and the one that shows goes.
LEMMA OpenKeeps ==
    ASSUME SetupInv, OpenSetup, UNCHANGED <<monitor, install>>, ConfTypes'
    PROVE  SetupInv'
<1> DEFINE Free == {w \in Windows : setup[w].st = "none"}
           new == Min(Free)
           fresh == Refreshed([NoSetup EXCEPT !.st = "shown", !.mode = conf.mode,
                                              !.contribute = conf.contribute])
<1>1. setup' = [w \in Windows |-> IF w = new THEN fresh
                                  ELSE IF setup[w].st = "shown" THEN [setup[w] EXCEPT !.st = "gone"]
                                  ELSE setup[w]]
  BY DEF OpenSetup, Opened
<1>2. fresh \in Fetching
  <2>1. [NoSetup EXCEPT !.st = "shown", !.mode = conf.mode, !.contribute = conf.contribute]
          \in Fetching
    BY NoSetupFetches DEF Fetching, Window, SetupInv, ConfTypes, Settings
  <2> QED
    BY <2>1, RefreshedFetches
<1>3. ASSUME NEW w \in Windows PROVE [setup[w] EXCEPT !.st = "gone"] \in Fetching
  BY WindowIs DEF Fetching, Window
<1> HIDE DEF new, fresh
<1>4. setup' \in [Windows -> Fetching]
  BY <1>1, <1>2, <1>3, WindowIs
<1> QED
  BY <1>4 DEF SetupInv, WindowsFetch, WatchesDiffer, EndedIsFree, Fetching

\* There are more tokens than watches: one is left for a new watch as long as
\* one of the loops is free.
LEMMA TokenLeft ==
    ASSUME SetupInv, NEW w \in Windows, FreeMonitors # {}
    PROVE  /\ NextToken(w) \in 1..(MaxMonitors + 1)
           /\ \A k \in Monitors : monitor[k].w = w => monitor[k].token # NextToken(w)
<1> DEFINE All == 1..(MaxMonitors + 1)
           Held(t) == \E k \in Monitors : monitor[k].w = w /\ monitor[k].token = t
           Left == {t \in All : /\ t # setup[w].token
                                /\ \A k \in Monitors : monitor[k].w = w => monitor[k].token # t}
           Rest == All \ {setup[w].token}
           Busy == Monitors \ FreeMonitors
<1>1. PICK x : x \in Monitors /\ x \in FreeMonitors
  BY DEF FreeMonitors
<1>2. MaxMonitors \in Nat
  BY SetupBounds
<1>3. IsFiniteSet(Monitors) /\ Cardinality(Monitors) = MaxMonitors
  BY <1>2, FS_Interval, SMT DEF Monitors
<1>4. IsFiniteSet(All) /\ Cardinality(All) = MaxMonitors + 1
  BY <1>2, FS_Interval, SMT
<1>5. IsFiniteSet(Busy) /\ Cardinality(Busy) <= MaxMonitors - 1
  <2>1. IsFiniteSet(Monitors \ {x}) /\ Cardinality(Monitors \ {x}) = MaxMonitors - 1
    BY <1>1, <1>3, FS_RemoveElement
  <2>2. Busy \in SUBSET (Monitors \ {x})
    BY <1>1
  <2> QED
    BY <2>1, <2>2, FS_Subset
<1>6. IsFiniteSet(Rest) /\ Cardinality(Rest) >= MaxMonitors
  <2> HIDE DEF All
  <2> QED
    BY <1>2, <1>4, FS_RemoveElement
<1>7. Left # {}
  <2> SUFFICES ASSUME Left = {} PROVE FALSE
    OBVIOUS
  <2> DEFINE f == [t \in Rest |-> CHOOSE k \in Busy : monitor[k].token = t]
  <2>1. ASSUME NEW t \in Rest PROVE \E k \in Busy : monitor[k].token = t
    <3>1. PICK k \in Monitors : monitor[k].w = w /\ monitor[k].token = t
      OBVIOUS
    <3>2. k \notin FreeMonitors
      BY <3>1 DEF SetupInv, EndedIsFree, NoMonitor, FreeMonitors, Windows
    <3> QED
      BY <3>1, <3>2
  <2>2. \A t \in Rest : f[t] \in Busy /\ monitor[f[t]].token = t
    BY <2>1
  <2>3. f \in [Rest -> Busy]
    BY <2>1
  <2>4. Cardinality(Busy) < Cardinality(Rest)
    <3>1. Cardinality(Busy) \in Nat /\ Cardinality(Rest) \in Nat
      BY <1>5, <1>6, FS_CardinalityType
    <3> HIDE DEF Busy, Rest
    <3> QED
      BY <1>2, <1>5, <1>6, <3>1
  <2> HIDE DEF f, Busy, Rest
  <2>5. \E t, u \in Rest : t # u /\ f[t] = f[u]
    BY <1>5, <1>6, <2>3, <2>4, FS_PigeonHole
  <2> QED
    BY <2>2, <2>5
<1>8. NextToken(w) = Min(Left)
  BY DEF NextToken
<1>9. Left \subseteq Nat
  BY <1>2
<1>10. NextToken(w) \in Left
  <2> HIDE DEF Left
  <2> QED
    BY <1>7, <1>8, <1>9, MinLeast
<1> QED
  BY <1>10

\* Steps of the setup that change what is saved or what the panel shows of it.
LEMMA ConfStays ==
    ASSUME ConfTypes, UNCHANGED <<running, pending, conf, receipt, box, modals>>
    PROVE  ConfTypes'
BY DEF ConfTypes

LEMMA PanelKeeps ==
    ASSUME SetupInv, ConfTypes', UNCHANGED <<setup, monitor, install>>
    PROVE  SetupInv'
BY DEF SetupInv, WindowsFetch, WatchesDiffer, EndedIsFree

LEMMA FieldsTake ==
    ASSUME NEW v \in Fetching
    PROVE  /\ \A x \in Modes : [v EXCEPT !.mode = x] \in Fetching
           /\ \A x \in BOOLEAN : [v EXCEPT !.contribute = x] \in Fetching
           /\ \A x \in BOOLEAN : [v EXCEPT !.guild = x] \in Fetching
           /\ \A x \in SUBSET Models : [v EXCEPT !.posting = x] \in Fetching
           /\ [v EXCEPT !.st = "gone"] \in Fetching
           /\ [v EXCEPT !.st = "gone", !.token = 0] \in Fetching
           /\ \A x \in Service :
                [v EXCEPT !.fetch = FALSE, !.refreshing = FALSE, !.online = x] \in Fetching
           /\ \A m \in Models, x \in Installing : [v EXCEPT !.seen[m] = x] \in Fetching
           /\ v.contribute \in BOOLEAN /\ v.guild \in BOOLEAN /\ v.posting \in SUBSET Models
<1>1. 0 \in 0..(MaxMonitors + 1)
  BY SetupBounds
<1> QED
  BY <1>1 DEF Fetching, Window

\* The steps of a window alone.
LEMMA WindowSteps ==
    ASSUME SetupInv, NEW w \in Windows,
           \/ \E mode \in Modes : ShowMode(w, mode)
           \/ CheckAgain(w) \/ RefreshEnds(w)
           \/ TickContribution(w) \/ TickGuild(w) \/ DismissSetup(w)
           \/ \E m \in Models : InstallModel(w, m) \/ InstallRefused(w, m)
    PROVE  SetupInv'
<1>1. setup[w] \in Fetching
  BY WindowIs
<1>2. UNCHANGED <<running, pending, conf, receipt, box, modals, monitor, install>>
  BY DEF ShowMode, CheckAgain, RefreshEnds, TickContribution, TickGuild, DismissSetup,
         InstallModel, InstallRefused
<1>3. ConfTypes'
  BY <1>2, ConfStays DEF SetupInv
<1>4. ASSUME NEW v \in Fetching, setup' = [setup EXCEPT ![w] = v] PROVE SetupInv'
  BY <1>2, <1>3, <1>4, WindowChanges
<1>5. ASSUME NEW mode \in Modes, ShowMode(w, mode) PROVE SetupInv'
  <2> DEFINE v == [setup[w] EXCEPT !.mode = mode]
  <2>1. v \in Fetching
    BY <1>1, FieldsTake
  <2>2. Refreshed(v) \in Fetching
    BY <2>1, RefreshedFetches
  <2> QED
    BY <1>4, <1>5, <2>1, <2>2 DEF ShowMode
<1>6. CASE CheckAgain(w)
  BY <1>1, <1>4, <1>6, RefreshedFetches DEF CheckAgain
<1>7. CASE RefreshEnds(w)
  <2>1. PICK s \in Service :
          setup' = [setup EXCEPT ![w].fetch = FALSE, ![w].refreshing = FALSE, ![w].online = s]
    BY <1>7 DEF RefreshEnds
  <2>2. setup' = [setup EXCEPT ![w] =
          [setup[w] EXCEPT !.fetch = FALSE, !.refreshing = FALSE, !.online = s]]
    BY <2>1, <1>1 DEF SetupInv, WindowsFetch
  <2> QED
    BY <1>1, <1>4, <2>2, FieldsTake
<1>8. CASE TickContribution(w)
  BY <1>1, <1>4, <1>8, FieldsTake DEF TickContribution
<1>9. CASE TickGuild(w)
  BY <1>1, <1>4, <1>9, FieldsTake DEF TickGuild
<1>10. CASE DismissSetup(w)
  <2>1. setup' = [setup EXCEPT ![w] = [setup[w] EXCEPT !.st = "gone", !.token = 0]]
    BY <1>10, <1>1 DEF DismissSetup, SetupInv, WindowsFetch
  <2> QED
    BY <1>1, <1>4, <2>1, FieldsTake
<1>11. ASSUME NEW m \in Models, InstallModel(w, m) PROVE SetupInv'
  <2>1. setup[w].posting \cup {m} \in SUBSET Models
    BY <1>1, FieldsTake
  <2> QED
    BY <1>1, <1>4, <1>11, <2>1, FieldsTake DEF InstallModel
<1>12. ASSUME NEW m \in Models, InstallRefused(w, m) PROVE SetupInv'
  <2>1. setup[w].posting \ {m} \in SUBSET Models
    BY <1>1, FieldsTake
  <2> QED
    BY <1>1, <1>4, <1>12, <2>1, FieldsTake DEF InstallRefused
<1> QED
  BY <1>5, <1>6, <1>7, <1>8, <1>9, <1>10, <1>11, <1>12

LEMMA SaveKeeps == ASSUME SetupInv, NEW w \in Windows, SaveSetup(w) PROVE SetupInv'
<1>1. setup[w] \in Fetching
  BY WindowIs
<1>2. setup' = [setup EXCEPT ![w] = [setup[w] EXCEPT !.st = "gone", !.token = 0]]
  BY <1>1 DEF SaveSetup, SetupInv, WindowsFetch
<1>3. [setup[w] EXCEPT !.st = "gone", !.token = 0] \in Fetching
  BY <1>1, FieldsTake
<1>4. setup[w].mode \in Modes /\ setup[w].guild \in BOOLEAN /\ setup[w].contribute \in BOOLEAN
  BY <1>1 DEF Fetching, Window
<1>5. conf' \in Settings /\ receipt' \in [Keys -> BOOLEAN]
  BY <1>4 DEF SaveSetup, SetupInv, ConfTypes, Settings
<1>6. ConfTypes'
  BY <1>5 DEF SaveSetup, SetupInv, ConfTypes
<1>7. UNCHANGED <<monitor, install>>
  BY DEF SaveSetup
<1> QED
  BY <1>2, <1>3, <1>6, <1>7, WindowChanges

LEMMA PanelSteps ==
    ASSUME SetupInv,
           \/ OpenPanel \/ AllowServer \/ SetupStarts
           \/ \E mode \in Modes : SelectMode(mode)
           \/ \E k \in Keys : Tick(k) \/ Untick(k)
           \/ \E k \in Keys, agrees \in BOOLEAN : AnswerConsent(k, agrees)
    PROVE  SetupInv'
<1>0. MaxModals \in Nat
  BY SetupBounds
<1>1. UNCHANGED <<setup, monitor, install>>
  BY DEF OpenPanel, Tick, Untick, AnswerConsent, SelectMode, AllowServer, SetupStarts
<1>2. ASSUME NEW k \in Keys, NEW b \in BOOLEAN, NEW r \in BOOLEAN, FollowsBox(k, b, r)
      PROVE  /\ box' \in [Keys -> BOOLEAN] /\ conf' \in Settings
             /\ receipt' \in [Keys -> BOOLEAN]
  BY <1>2 DEF FollowsBox, SetupInv, ConfTypes, Settings, Keys
<1>3. CASE OpenPanel
  <2>1. box' \in [Keys -> BOOLEAN]
    BY <1>3 DEF OpenPanel, SetupInv, ConfTypes, Settings, Keys
  <2>2. ConfTypes'
    BY <1>3, <2>1 DEF OpenPanel, SetupInv, ConfTypes
  <2> QED
    BY <1>1, <2>2, PanelKeeps
<1>4. ASSUME NEW k \in Keys, Tick(k) PROVE SetupInv'
  <2>1. modals' \in [Keys -> 0..MaxModals]
    BY <1>0, <1>4 DEF Tick, SetupInv, ConfTypes
  <2>2. ConfTypes'
    BY <1>4, <2>1 DEF Tick, SetupInv, ConfTypes
  <2> QED
    BY <1>1, <2>2, PanelKeeps
<1>5. ASSUME NEW k \in Keys, Untick(k) PROVE SetupInv'
  <2>1. receipt[k] \in BOOLEAN
    BY DEF SetupInv, ConfTypes
  <2>2. ConfTypes'
    BY <1>2, <1>5, <2>1 DEF Untick, SetupInv, ConfTypes
  <2> QED
    BY <1>1, <2>2, PanelKeeps
<1>6. ASSUME NEW k \in Keys, NEW agrees \in BOOLEAN, AnswerConsent(k, agrees) PROVE SetupInv'
  <2>1. (box[k] /\ agrees) \in BOOLEAN /\ (agrees \/ receipt[k]) \in BOOLEAN
    OBVIOUS
  <2>2. modals' \in [Keys -> 0..MaxModals]
    BY <1>0, <1>6 DEF AnswerConsent, SetupInv, ConfTypes
  <2>3. FollowsBox(k, box[k] /\ agrees, agrees \/ receipt[k]) /\ UNCHANGED <<running, pending>>
    BY <1>6 DEF AnswerConsent
  <2>4. ConfTypes'
    BY <1>2, <2>1, <2>2, <2>3 DEF SetupInv, ConfTypes
  <2> QED
    BY <1>1, <2>4, PanelKeeps
<1>7. ASSUME AllowServer \/ SetupStarts \/ \E mode \in Modes : SelectMode(mode)
      PROVE  SetupInv'
  <2>1. conf' \in Settings
    BY <1>7 DEF SelectMode, AllowServer, SetupStarts, SetupInv, ConfTypes, Settings
  <2>2. ConfTypes'
    BY <1>7, <2>1 DEF SelectMode, AllowServer, SetupStarts, SetupInv, ConfTypes, Settings
  <2> QED
    BY <1>1, <2>2, PanelKeeps
<1> QED
  BY <1>3, <1>4, <1>5, <1>6, <1>7

\* A watch begins under a token that no other watch of its window has.
LEMMA InstallStartsKeeps ==
    ASSUME SetupInv, NEW w \in Windows, NEW m \in Models, InstallStarts(w, m)
    PROVE  SetupInv'
<1> DEFINE t == NextToken(w)
           k == Min(FreeMonitors)
           new == IF Shown(w) THEN [w |-> w, token |-> t, model |-> m, pc |-> "sent"]
                  ELSE NoMonitor
           v == [setup[w] EXCEPT !.posting = @ \ {m}, !.seen[m] = "active", !.token = t]
<1>1. /\ t \in 1..(MaxMonitors + 1)
      /\ \A j \in Monitors : monitor[j].w = w => monitor[j].token # t
  BY TokenLeft DEF InstallStarts
<1>2. k \in Monitors /\ k \in FreeMonitors
  <2>1. FreeMonitors \subseteq Nat /\ FreeMonitors # {}
    BY SetupBounds DEF FreeMonitors, Monitors, InstallStarts
  <2> QED
    BY <2>1, MinLeast DEF FreeMonitors
<1>3. /\ monitor' = [monitor EXCEPT ![k] = new]
      /\ install' = [install EXCEPT ![m] = "active"]
      /\ UNCHANGED <<running, pending, conf, receipt, box, modals>>
  BY DEF InstallStarts, NewToken
<1>4. setup[w] \in Fetching
  BY WindowIs
<1>5. setup' = [setup EXCEPT ![w] = v]
  BY <1>4 DEF InstallStarts, NewToken, SetupInv, WindowsFetch
<1> HIDE DEF t, k
<1>6. MaxMonitors \in Nat /\ t \in 0..(MaxMonitors + 1)
  BY <1>1, SetupBounds
<1>7. v \in Fetching
  BY <1>4, <1>6 DEF Fetching, Window, Installing
<1>8. new \in Watch
  BY <1>6 DEF Watch, NoMonitor
<1>9. ConfTypes'
  BY <1>3, ConfStays DEF SetupInv
<1>10. WindowsFetch'
  <2> HIDE DEF v
  <2> QED
    BY <1>5, <1>7 DEF SetupInv, WindowsFetch, Fetching
<1>11. monitor' \in [Monitors -> Watch] /\ install' \in [Models -> Installing]
  <2> HIDE DEF new
  <2> QED
    BY <1>3, <1>8 DEF SetupInv, Installing
<1>12. EndedIsFree'
  BY <1>2, <1>3 DEF SetupInv, EndedIsFree, NoMonitor
<1>13. WatchesDiffer'
  BY <1>1, <1>2, <1>3 DEF SetupInv, WatchesDiffer, NoMonitor
<1> QED
  BY <1>9, <1>10, <1>11, <1>12, <1>13 DEF SetupInv

LEMMA InstallEndsKeeps ==
    ASSUME SetupInv, NEW m \in Models, InstallEnds(m)
    PROVE  SetupInv'
<1>1. ConfTypes' /\ UNCHANGED <<setup, monitor>>
  BY ConfStays DEF SetupInv, InstallEnds
<1>2. install' \in [Models -> Installing]
  BY DEF SetupInv, InstallEnds, Installing
<1> QED
  BY <1>1, <1>2 DEF SetupInv, WindowsFetch, WatchesDiffer, EndedIsFree

\* A watch goes on, or ends.
LEMMA WatchKeeps ==
    ASSUME SetupInv, NEW k \in Monitors, monitor[k].pc # "idle",
           NEW pc \in {"sent", "sleep"}, NEW new \in {NoMonitor, [monitor[k] EXCEPT !.pc = pc]},
           monitor' = [monitor EXCEPT ![k] = new]
    PROVE  monitor' \in [Monitors -> Watch] /\ EndedIsFree' /\ WatchesDiffer'
<1>1. monitor[k] \in Watch
  BY DEF SetupInv
<1>2. new \in Watch
  <2>1. 0 \in 0..(MaxMonitors + 1)
    BY SetupBounds
  <2> QED
    BY <1>1, <2>1 DEF Watch, NoMonitor
<1>3. monitor' \in [Monitors -> Watch]
  BY <1>2 DEF SetupInv
<1>4. monitor[k] # NoMonitor
  BY DEF NoMonitor
<1>5. EndedIsFree'
  BY <1>1, <1>4 DEF SetupInv, EndedIsFree, Watch
<1>6. WatchesDiffer'
  BY <1>1 DEF SetupInv, WatchesDiffer, NoMonitor, Watch
<1> QED
  BY <1>3, <1>5, <1>6

LEMMA MonitorPollsKeeps == ASSUME SetupInv, NEW k \in Monitors, MonitorPolls(k) PROVE SetupInv'
<1> DEFINE v == monitor[k]
           s == install[v.model]
           x == [setup[v.w] EXCEPT !.seen[v.model] = s]
<1>1. v.pc = "sent" /\ UNCHANGED <<running, pending, conf, receipt, box, modals, install>>
  BY DEF MonitorPolls
<1>2. v.w \in Windows /\ v.model \in Models
  BY <1>1 DEF SetupInv, EndedIsFree, NoMonitor
<1>3. ConfTypes' /\ install' \in [Models -> Installing]
  BY <1>1, ConfStays DEF SetupInv
<1>4. x \in Fetching /\ Refreshed(x) \in Fetching
  <2>1. s \in Installing
    BY <1>2 DEF SetupInv
  <2>2. setup[v.w] \in Fetching
    BY <1>2, WindowIs
  <2>3. x \in Fetching
    BY <1>2, <2>1, <2>2, FieldsTake
  <2> QED
    BY <2>3, RefreshedFetches
<1>5. WindowsFetch'
  <2>1. CASE setup' = [setup EXCEPT ![v.w] = IF s = "completed" THEN Refreshed(x) ELSE x]
    <3> HIDE DEF x
    <3> QED
      BY <1>2, <1>4, <2>1 DEF SetupInv, WindowsFetch, Fetching
  <2>2. CASE UNCHANGED setup
    BY <2>2 DEF SetupInv, WindowsFetch
  <2> QED
    BY <2>1, <2>2 DEF MonitorPolls
<1>6. \E new \in {NoMonitor, [monitor[k] EXCEPT !.pc = "sleep"]} :
        monitor' = [monitor EXCEPT ![k] = new]
  BY DEF MonitorPolls
<1>7. monitor' \in [Monitors -> Watch] /\ EndedIsFree' /\ WatchesDiffer'
  BY <1>1, <1>6, WatchKeeps
<1> QED
  BY <1>3, <1>5, <1>7 DEF SetupInv

LEMMA MonitorWakesKeeps == ASSUME SetupInv, NEW k \in Monitors, MonitorWakes(k) PROVE SetupInv'
<1>1. /\ monitor[k].pc = "sleep"
      /\ UNCHANGED <<running, pending, conf, receipt, box, modals, setup, install>>
  BY DEF MonitorWakes
<1>2. ConfTypes' /\ install' \in [Models -> Installing] /\ WindowsFetch'
  BY <1>1, ConfStays DEF SetupInv, WindowsFetch
<1>3. \E new \in {NoMonitor, [monitor[k] EXCEPT !.pc = "sent"]} :
        monitor' = [monitor EXCEPT ![k] = new]
  BY DEF MonitorWakes
<1>4. monitor' \in [Monitors -> Watch] /\ EndedIsFree' /\ WatchesDiffer'
  BY <1>1, <1>3, WatchKeeps
<1> QED
  BY <1>2, <1>4 DEF SetupInv

LEMMA SetupStopsKeeps == ASSUME SetupInv, SetupStops PROVE SetupInv'
<1>1. ConfTypes' /\ UNCHANGED <<monitor, install>>
  BY DEF SetupStops, SetupInv, ConfTypes
<1>2. ASSUME NEW w \in Windows
      PROVE  setup[w] \in Fetching /\ [setup[w] EXCEPT !.st = "gone"] \in Fetching
  BY WindowIs, FieldsTake
<1>3. setup' \in [Windows -> Fetching]
  BY <1>2 DEF SetupStops
<1> QED
  BY <1>1, <1>3 DEF SetupInv, WindowsFetch, WatchesDiffer, EndedIsFree, Fetching

LEMMA SetupStepKeeps == ASSUME SetupInv, SetupStep PROVE SetupInv'
<1>1. ASSUME OpenTimer \/ OpenButton PROVE SetupInv'
  <2>1. OpenSetup /\ UNCHANGED <<conf, receipt, box, modals, running, monitor, install>>
    BY <1>1 DEF OpenTimer, OpenButton
  <2>2. pending' \in BOOLEAN
    BY <1>1 DEF OpenTimer, OpenButton, SetupInv, ConfTypes
  <2>3. ConfTypes'
    BY <2>1, <2>2 DEF SetupInv, ConfTypes
  <2> QED
    BY <2>1, <2>3, OpenKeeps
<1>2. ASSUME SetupActs(scene.use) PROVE SetupInv'
  <2>1. CASE OpenTimer \/ OpenButton
    BY <1>1, <2>1
  <2>2. ASSUME NEW w \in Windows,
               \/ \E mode \in Modes : ShowMode(w, mode)
               \/ CheckAgain(w) \/ TickContribution(w) \/ TickGuild(w) \/ DismissSetup(w)
               \/ \E m \in Models : InstallModel(w, m)
        PROVE  SetupInv'
    BY <2>2, WindowSteps
  <2>3. ASSUME NEW w \in Windows, SaveSetup(w) PROVE SetupInv'
    BY <2>3, SaveKeeps
  <2>4. CASE \/ OpenPanel \/ AllowServer
             \/ \E mode \in Modes : SelectMode(mode)
             \/ \E k \in Keys : Tick(k) \/ Untick(k)
    BY <2>4, PanelSteps
  <2> QED
    BY <1>2, <2>1, <2>2, <2>3, <2>4 DEF SetupActs
<1>3. ASSUME SetupGoesOn PROVE SetupInv'
  <2>1. ASSUME NEW w \in Windows,
               RefreshEnds(w) \/ \E m \in Models : InstallRefused(w, m)
        PROVE  SetupInv'
    BY <2>1, WindowSteps
  <2>2. ASSUME NEW w \in Windows, NEW m \in Models, InstallStarts(w, m) PROVE SetupInv'
    BY <2>2, InstallStartsKeeps
  <2>3. ASSUME NEW m \in Models, InstallEnds(m) PROVE SetupInv'
    BY <2>3, InstallEndsKeeps
  <2>4. ASSUME NEW k \in Monitors, MonitorPolls(k) \/ MonitorWakes(k) PROVE SetupInv'
    BY <2>4, MonitorPollsKeeps, MonitorWakesKeeps
  <2>5. CASE \E k \in Keys, agrees \in BOOLEAN : AnswerConsent(k, agrees)
    BY <2>5, PanelSteps
  <2> QED
    BY <1>3, <2>1, <2>2, <2>3, <2>4, <2>5 DEF SetupGoesOn
<1> QED
  BY <1>2, <1>3 DEF SetupStep

\* The requests open the setup and answer its consents.
LEMMA BeginKeeps ==
    ASSUME SetupInv, NEW f \in Requests, NEW kind \in Kinds, Begin(f, kind)
    PROVE  SetupInv'
<1>1. /\ UNCHANGED <<running, pending, conf, receipt, box, modals, monitor, install>>
      /\ OpenSetup \/ UNCHANGED setup
  BY DEF Begin
<1>2. ConfTypes'
  BY <1>1, ConfStays DEF SetupInv
<1> QED
  BY <1>1, <1>2, OpenKeeps, PanelKeeps

LEMMA AnswerDiagnosticsKeeps ==
    ASSUME SetupInv, NEW f \in Requests, NEW agrees \in BOOLEAN, AnswerDiagnostics(f, agrees)
    PROVE  SetupInv'
<1>1. UNCHANGED <<running, pending, box, modals, setup, monitor, install>>
  BY DEF AnswerDiagnostics
<1>2. conf' \in Settings /\ receipt' \in [Keys -> BOOLEAN]
  BY DEF AnswerDiagnostics, SetupInv, ConfTypes, Settings, Keys
<1>3. ConfTypes'
  BY <1>1, <1>2 DEF SetupInv, ConfTypes
<1> QED
  BY <1>1, <1>3, PanelKeeps

LEMMA InitSetup == Init => SetupInv
<1> SUFFICES ASSUME Init PROVE SetupInv
  OBVIOUS
<1>1. scene.left \subseteq Leftovers
  BY AccountBounds DEF Init
<1>2. PICK l \in scene.left :
         /\ conf = [done |-> l.done, mode |-> "local", guild |-> FALSE,
                    contribute |-> l.contribute, diagnostics |-> l.diagnostics]
         /\ receipt = [k \in Keys |-> k \in l.receipts]
         /\ box = [k \in Keys |-> k = "diagnostics" /\ l.diagnostics]
  BY DEF Init, SetupInit
<1>3. /\ running = FALSE /\ pending = FALSE
      /\ modals = [k \in Keys |-> 0]
      /\ setup = [w \in Windows |-> NoSetup]
      /\ monitor = [k \in Monitors |-> NoMonitor]
      /\ install = [m \in Models |-> "idle"]
  BY DEF Init, SetupInit
<1>4. 0 \in 0..MaxModals /\ 0 \in 0..(MaxMonitors + 1)
  BY SetupBounds
<1>5. l \in Leftovers
  BY <1>1
<1>6. conf \in Settings /\ receipt \in [Keys -> BOOLEAN]
  BY <1>2, <1>5 DEF Leftovers, Settings, Modes
<1>11. box \in [Keys -> BOOLEAN]
  BY <1>2, <1>5 DEF Leftovers
<1>7. ConfTypes
  BY <1>3, <1>4, <1>6, <1>11 DEF ConfTypes
<1>8. WindowsFetch
  BY <1>3, NoSetupFetches DEF WindowsFetch, Fetching
<1>9. monitor \in [Monitors -> Watch] /\ install \in [Models -> Installing]
  BY <1>3, <1>4 DEF Watch, NoMonitor, Installing
<1>10. WatchesDiffer /\ EndedIsFree
  BY <1>3 DEF WatchesDiffer, EndedIsFree, NoMonitor
<1> QED
  BY <1>7, <1>8, <1>9, <1>10 DEF SetupInv

\* The steps that leave the setup alone.
Elsewhere ==
    \/ \E f \in Requests :
         \/ \E agrees \in BOOLEAN : AnswerConnect(f, agrees) \/ AnswerBuy(f, agrees)
         \/ Abort(f) \/ Proceeds(f)
    \/ BrowserActs
    \/ \E e \in Enrollments : EnrollmentExpires(e)
    \/ GatewayRestarts \/ Payment
    \/ FlushAgain \/ ReportAccepted \/ ReportRefused
    \/ UNCHANGED vars

LEMMA ElsewhereIs == Elsewhere => UNCHANGED setupVars
BY DEF Elsewhere, AnswerConnect, AnswerBuy, Abort, Proceeds, SignInStarts, SignInPolls, StatusRead,
       TokenDelivered, PollTaken, PollLost, BalanceRead, Purchase, PaymentSeen, Post, GivesUp,
       BrowserActs, EnrollmentExpires, GatewayRestarts, Payment, FlushAgain, ReportAccepted,
       ReportRefused, vars

LEMMA NextSetup == SetupInv /\ [Next]_vars => SetupInv'
<1> SUFFICES ASSUME SetupInv, [Next]_vars PROVE SetupInv'
  OBVIOUS
<1>1. ASSUME UNCHANGED setupVars PROVE SetupInv'
  <2>1. ConfTypes'
    BY <1>1, ConfStays DEF setupVars, SetupInv
  <2> QED
    BY <1>1, <2>1, PanelKeeps DEF setupVars
<1>2. CASE Elsewhere
  BY <1>1, <1>2, ElsewhereIs
<1>3. CASE Stop
  BY <1>3, SetupStopsKeeps DEF Stop
<1>4. CASE Start
  BY <1>4, PanelSteps DEF Start
<1> QED
  BY <1>2, <1>3, <1>4, SetupStepKeeps, BeginKeeps, AnswerDiagnosticsKeeps DEF Next, Elsewhere

LEMMA InductiveSetup == Spec => []SetupInv
BY InitSetup, NextSetup, PTL DEF Spec

\* A setup window that says it is checking has a request under way, and it
\* follows one install at most.
THEOREM SetupGetsItsAnswer == Spec => []SetupNeverStuck
<1>1. SetupInv => SetupNeverStuck
  BY SetupInvIs
<1> QED
  BY <1>1, InductiveSetup, PTL

-----------------------------------------------------------------------------
(***************************************************************************)
(* Consents                                                                *)
(***************************************************************************)

\* What the theorem says of one step.
NoBareConsent ==
    \A k \in Keys : conf'[k] /\ ~receipt'[k] => conf[k] /\ ~receipt[k]

LEMMA ConsentUnmoved ==
    ASSUME UNCHANGED receipt,
           \/ UNCHANGED conf
           \/ \E x : conf' = [conf EXCEPT !.mode = x]
           \/ \E x : conf' = [conf EXCEPT !.guild = x]
           \/ conf' = [conf EXCEPT !.contribute = FALSE],
           ConfTypes
    PROVE  NoBareConsent
BY DEF NoBareConsent, ConfTypes, Settings, Keys

LEMMA SavedWithReceipt ==
    ASSUME SetupInv, NEW w \in Windows, SaveSetup(w)
    PROVE  NoBareConsent
<1>1. setup[w].contribute \in BOOLEAN
  BY WindowIs DEF Fetching, Window
<1>2. /\ conf'["contribute"] = setup[w].contribute
      /\ conf'["diagnostics"] = conf["diagnostics"]
  BY DEF SaveSetup, SetupInv, ConfTypes, Settings
<1>3. /\ receipt'["contribute"] = setup[w].contribute
      /\ receipt'["diagnostics"] = receipt["diagnostics"]
  BY DEF SaveSetup, SetupInv, ConfTypes, Keys
<1> QED
  BY <1>1, <1>2, <1>3 DEF NoBareConsent, Keys

LEMMA BoxWithReceipt ==
    ASSUME ConfTypes, NEW k \in Keys, NEW agrees \in BOOLEAN,
           Untick(k) \/ AnswerConsent(k, agrees)
    PROVE  NoBareConsent
<1>1. PICK b \in BOOLEAN, r \in BOOLEAN : FollowsBox(k, b, r) /\ (b => r)
  <2>1. CASE Untick(k)
    <3>1. receipt[k] \in BOOLEAN
      BY DEF ConfTypes
    <3> QED
      BY <2>1, <3>1 DEF Untick
  <2>2. CASE AnswerConsent(k, agrees)
    <3>1. (box[k] /\ agrees) \in BOOLEAN /\ (agrees \/ receipt[k]) \in BOOLEAN
      OBVIOUS
    <3> QED
      BY <2>2, <3>1 DEF AnswerConsent
  <2> QED
    BY <2>1, <2>2
<1>2. conf'[k] = b /\ \A j \in Keys : j # k => conf'[j] = conf[j]
  BY <1>1 DEF FollowsBox, ConfTypes, Settings, Keys
<1>3. (b => receipt'[k]) /\ \A j \in Keys : j # k => receipt'[j] = receipt[j]
  BY <1>1 DEF FollowsBox, ConfTypes, Keys
<1> QED
  BY <1>2, <1>3 DEF NoBareConsent

LEMMA AskedWithReceipt ==
    ASSUME ConfTypes, NEW f \in Requests, NEW agrees \in BOOLEAN, AnswerDiagnostics(f, agrees)
    PROVE  NoBareConsent
<1>1. /\ conf'["contribute"] = conf["contribute"]
      /\ conf'["diagnostics"] = (conf["diagnostics"] /\ agrees)
  BY DEF AnswerDiagnostics, ConfTypes, Settings
<1>2. /\ receipt'["contribute"] = receipt["contribute"]
      /\ receipt'["diagnostics"] = (receipt["diagnostics"] \/ agrees)
  BY DEF AnswerDiagnostics, ConfTypes, Keys
<1> QED
  BY <1>1, <1>2 DEF NoBareConsent, Keys

LEMMA NextConsent == SetupInv /\ [Next]_vars => NoBareConsent
<1> SUFFICES ASSUME SetupInv, [Next]_vars PROVE NoBareConsent
  OBVIOUS
<1>0. ConfTypes
  BY DEF SetupInv
<1>1. ASSUME UNCHANGED receipt,
             \/ UNCHANGED conf
             \/ \E x : conf' = [conf EXCEPT !.mode = x]
             \/ \E x : conf' = [conf EXCEPT !.guild = x]
             \/ conf' = [conf EXCEPT !.contribute = FALSE]
      PROVE  NoBareConsent
  BY <1>0, <1>1, ConsentUnmoved
<1>2. CASE Elsewhere
  BY <1>1, <1>2, ElsewhereIs DEF setupVars
<1>3. ASSUME NEW f \in Requests, NEW kind \in Kinds, Begin(f, kind) PROVE NoBareConsent
  BY <1>1, <1>3 DEF Begin
<1>4. CASE Stop \/ Start
  BY <1>1, <1>4 DEF Stop, Start, SetupStops, SetupStarts
<1>5. CASE SetupStep
  <2>1. ASSUME OpenTimer \/ OpenButton \/ OpenPanel \/ AllowServer
               \/ \E mode \in Modes : SelectMode(mode)
        PROVE  NoBareConsent
    BY <1>1, <2>1 DEF OpenTimer, OpenButton, OpenPanel, AllowServer, SelectMode
  <2>2. ASSUME NEW w \in Windows,
               \/ \E mode \in Modes : ShowMode(w, mode)
               \/ CheckAgain(w) \/ RefreshEnds(w) \/ TickContribution(w) \/ TickGuild(w)
               \/ DismissSetup(w)
               \/ \E m \in Models : InstallModel(w, m) \/ InstallRefused(w, m)
                                      \/ InstallStarts(w, m)
        PROVE  NoBareConsent
    BY <1>1, <2>2 DEF ShowMode, CheckAgain, RefreshEnds, TickContribution, TickGuild,
                     DismissSetup, InstallModel, InstallRefused, InstallStarts
  <2>3. ASSUME \/ \E m \in Models : InstallEnds(m)
               \/ \E k \in Monitors : MonitorPolls(k) \/ MonitorWakes(k)
        PROVE  NoBareConsent
    BY <1>1, <2>3 DEF InstallEnds, MonitorPolls, MonitorWakes
  <2>4. ASSUME NEW k \in Keys, Tick(k) \/ Untick(k) PROVE NoBareConsent
    <3>1. CASE Tick(k)
      BY <1>1, <3>1 DEF Tick
    <3> QED
      BY <1>0, <2>4, <3>1, BoxWithReceipt
  <2>5. ASSUME NEW k \in Keys, NEW agrees \in BOOLEAN, AnswerConsent(k, agrees)
        PROVE  NoBareConsent
    BY <1>0, <2>5, BoxWithReceipt
  <2>6. ASSUME NEW w \in Windows, SaveSetup(w) PROVE NoBareConsent
    BY <2>6, SavedWithReceipt
  <2>7. CASE SetupActs(scene.use)
    <3>1. ASSUME NEW w \in Windows,
                 \/ \E mode \in Modes : ShowMode(w, mode)
                 \/ CheckAgain(w) \/ TickContribution(w) \/ TickGuild(w) \/ DismissSetup(w)
                 \/ \E m \in Models : InstallModel(w, m)
          PROVE  NoBareConsent
      BY <2>2, <3>1
    <3>2. CASE OpenTimer \/ OpenButton \/ OpenPanel \/ AllowServer
      BY <2>1, <3>2
    <3>3. CASE \E mode \in Modes : SelectMode(mode)
      BY <2>1, <3>3
    <3> QED
      BY <2>4, <2>6, <2>7, <3>1, <3>2, <3>3 DEF SetupActs
  <2>8. CASE SetupGoesOn
    BY <2>2, <2>3, <2>5, <2>8 DEF SetupGoesOn
  <2> QED
    BY <1>5, <2>7, <2>8 DEF SetupStep
<1> QED
  BY <1>0, <1>2, <1>3, <1>4, <1>5, AskedWithReceipt DEF Next, Elsewhere

\* No consent is given without its receipt: a setting that is on either has its
\* receipt or was so left by an older release.
THEOREM ConsentsHaveReceipts == Spec => ConsentHasReceipt
<1>1. SetupInv /\ [Next]_vars => [NoBareConsent]_vars
  BY NextConsent
<1> QED
  BY <1>1, InductiveSetup, PTL DEF Spec, ConsentHasReceipt, NoBareConsent

-----------------------------------------------------------------------------
(***************************************************************************)
(* The outbox                                                              *)
(***************************************************************************)

\* Reports wait in the order of their numbers, no more than the limit.
Rising(q) == \A i, j \in 1..Len(q) : i < j => q[i] < q[j]

OutboxInv ==
    /\ reported \in Nat
    /\ queue \in Seq(Nat)
    /\ Len(queue) <= Outbox
    /\ \A i \in 1..Len(queue) : queue[i] <= reported
    /\ Rising(queue)

LEMMA OutboxIsLimit == Outbox \in Nat
BY AccountBounds

\* What was taken off the head.
LEMMA TailKeeps ==
    ASSUME OutboxInv, queue # <<>>, queue' = Tail(queue), UNCHANGED reported
    PROVE  OutboxInv' /\ Range(queue) \ Range(queue') \subseteq {Head(queue)}
<1> DEFINE t == Tail(queue)
<1>1. queue \in Seq(Nat)
  BY DEF OutboxInv
<1>2. /\ t \in Seq(Nat) /\ Len(t) = Len(queue) - 1 /\ Len(queue) \in Nat
      /\ \A i \in 1..Len(t) : t[i] = queue[i + 1]
      /\ Head(queue) = queue[1]
  BY <1>1, HeadTailProperties, LenProperties
<1>3. queue' = t
  OBVIOUS
<1> HIDE DEF t
<1>4. \A i \in 1..Len(t) : i + 1 \in 1..Len(queue)
  BY <1>2
<1>5. \A i \in 1..Len(t) : t[i] <= reported
  BY <1>2, <1>4 DEF OutboxInv
<1>6. Rising(t)
  <2> SUFFICES ASSUME NEW i \in 1..Len(t), NEW j \in 1..Len(t), i < j PROVE t[i] < t[j]
    BY DEF Rising
  <2>1. i + 1 \in 1..Len(queue) /\ j + 1 \in 1..Len(queue) /\ i + 1 < j + 1
    BY <1>4
  <2>2. queue[i + 1] < queue[j + 1]
    BY <2>1 DEF OutboxInv, Rising
  <2> QED
    BY <1>2, <2>2
<1>7. Len(t) <= Outbox
  BY <1>2, OutboxIsLimit DEF OutboxInv
<1>8. OutboxInv'
  BY <1>2, <1>3, <1>5, <1>6, <1>7 DEF OutboxInv
<1>9. ASSUME NEW r \in Range(queue), r \notin Range(t) PROVE r = Head(queue)
  <2>1. PICK k \in 1..Len(queue) : r = queue[k]
    BY <1>1, <1>9, LenProperties DEF Range
  <2>2. CASE k = 1
    BY <1>2, <2>1, <2>2
  <2>3. CASE k # 1
    <3>1. k - 1 \in 1..Len(t) /\ (k - 1) + 1 = k
      BY <1>2, <2>1, <2>3
    <3>2. t[k - 1] = r
      BY <1>2, <2>1, <3>1
    <3>3. r \in Range(t)
      BY <1>2, <3>1, <3>2, LenProperties DEF Range
    <3> QED
      BY <1>9, <3>3
  <2> QED
    BY <2>2, <2>3
<1> QED
  BY <1>3, <1>8, <1>9

\* A report joins; the oldest goes if there is no room.
LEMMA ReportedKeeps ==
    ASSUME OutboxInv, Reported
    PROVE  /\ OutboxInv'
           /\ \A r \in Range(queue) \ Range(queue') :
                Len(queue) = Outbox /\ r = Min(Range(queue))
<1> DEFINE q == Append(queue, reported + 1)
           m == Max({1, Len(q) - Outbox + 1})
           p == SubSeq(q, m, Len(q))
<1>1. queue \in Seq(Nat) /\ reported \in Nat /\ Len(queue) <= Outbox
  BY DEF OutboxInv
<1>2. /\ q \in Seq(Nat) /\ Len(q) = Len(queue) + 1 /\ Len(queue) \in Nat
      /\ \A i \in 1..Len(queue) : q[i] = queue[i]
      /\ q[Len(q)] = reported + 1
  <2>1. Len(queue) \in Nat /\ reported + 1 \in Nat
    BY <1>1, LenProperties
  <2> QED
    BY <1>1, <2>1, AppendProperties
<1>3. queue' = p /\ reported' = reported + 1
  BY DEF Reported, Trimmed
<1> HIDE DEF q
<1>4. /\ m \in {1, 2} /\ m <= Len(q) + 1
      /\ (m = 2 => Len(queue) = Outbox)
      /\ Len(q) - m + 1 <= Outbox
  <2> DEFINE x == Len(q) - Outbox + 1
  <2>1. x \in Int /\ x <= 2 /\ x <= Len(q) + 1
    BY <1>1, <1>2, OutboxIsLimit
  <2>2. m \in {1, x} /\ m >= 1 /\ m >= x
    <3>1. \E y \in {1, x} : \A z \in {1, x} : y >= z
      BY <2>1
    <3>2. m = Max({1, x})
      OBVIOUS
    <3> HIDE DEF x, m
    <3> QED
      BY <3>1, <3>2 DEF Max
  <2> HIDE DEF m
  <2> QED
    BY <1>1, <1>2, <2>1, <2>2, OutboxIsLimit
<1> HIDE DEF m
<1>5. \A i \in 1..Len(q) : q[i] \in Nat
  BY <1>2, ElementOfSeq
<1>6. /\ p \in Seq(Nat) /\ Len(p) = Len(q) - m + 1
      /\ \A i \in 1..Len(p) : p[i] = q[m + i - 1]
  <2>1. m \in Int /\ Len(q) \in Int /\ \A i \in m..Len(q) : q[i] \in Nat
    BY <1>2, <1>4, <1>5
  <2>2. /\ p \in Seq(Nat)
        /\ Len(p) = IF m <= Len(q) THEN Len(q) - m + 1 ELSE 0
        /\ \A i \in 1..(Len(q) - m + 1) : p[i] = q[m + i - 1]
    BY <2>1, SubSeqProperties
  <2> HIDE DEF p
  <2> QED
    BY <1>2, <1>4, <2>2
<1> HIDE DEF p
<1>7. \A i \in 1..Len(p) : m + i - 1 \in 1..Len(q)
  BY <1>2, <1>4, <1>6
<1>8. \A i \in 1..Len(q) : q[i] <= reported + 1
  BY <1>1, <1>2 DEF OutboxInv
<1>9. Rising(q)
  <2> SUFFICES ASSUME NEW i \in 1..Len(q), NEW j \in 1..Len(q), i < j PROVE q[i] < q[j]
    BY DEF Rising
  <2>1. i \in 1..Len(queue) /\ q[i] = queue[i]
    BY <1>2
  <2>2. queue[i] \in Nat /\ queue[i] <= reported
    BY <1>1, <2>1, ElementOfSeq DEF OutboxInv
  <2>3. CASE j = Len(q)
    BY <1>1, <1>2, <2>1, <2>2, <2>3
  <2>4. CASE j # Len(q)
    <3>1. j \in 1..Len(queue) /\ q[j] = queue[j]
      BY <1>2, <2>4
    <3> QED
      BY <2>1, <3>1 DEF OutboxInv, Rising
  <2> QED
    BY <2>3, <2>4
<1>10. OutboxInv'
  <2>1. \A i \in 1..Len(p) : p[i] <= reported + 1
    BY <1>6, <1>7, <1>8
  <2>2. Rising(p)
    <3> SUFFICES ASSUME NEW i \in 1..Len(p), NEW j \in 1..Len(p), i < j PROVE p[i] < p[j]
      BY DEF Rising
    <3>1. m + i - 1 \in 1..Len(q) /\ m + j - 1 \in 1..Len(q) /\ m + i - 1 < m + j - 1
      BY <1>4, <1>7
    <3>2. p[i] = q[m + i - 1] /\ p[j] = q[m + j - 1]
      BY <1>6
    <3> QED
      BY <1>9, <3>1, <3>2 DEF Rising
  <2>3. Len(p) <= Outbox /\ reported + 1 \in Nat
    BY <1>1, <1>4, <1>6
  <2> QED
    BY <1>3, <1>6, <2>1, <2>2, <2>3 DEF OutboxInv
<1>11. ASSUME NEW r \in Range(queue), r \notin Range(p)
       PROVE  Len(queue) = Outbox /\ r = Min(Range(queue))
  <2>1. PICK k \in 1..Len(queue) : r = queue[k]
    BY <1>1, <1>11, LenProperties DEF Range
  <2>2. k < m
    <3> SUFFICES ASSUME ~(k < m) PROVE FALSE
      OBVIOUS
    <3>1. k - m + 1 \in 1..Len(p) /\ m + (k - m + 1) - 1 = k
      BY <1>2, <1>4, <1>6, <2>1
    <3>2. p[k - m + 1] = q[m + (k - m + 1) - 1]
      BY <1>6, <3>1
    <3>3. p[k - m + 1] = r
      BY <1>2, <2>1, <3>1, <3>2
    <3>4. r \in Range(p)
      BY <1>6, <3>1, <3>3, LenProperties DEF Range
    <3> QED
      BY <1>11, <3>4
  <2>3. k = 1 /\ m = 2
    BY <1>4, <2>1, <2>2
  <2>4. Range(queue) \subseteq Nat /\ Range(queue) # {}
    BY <1>1, <2>1, LenProperties, ElementOfSeq DEF Range
  <2>5. \A y \in Range(queue) : r <= y
    <3> SUFFICES ASSUME NEW y \in Range(queue) PROVE r <= y
      OBVIOUS
    <3>1. PICK j \in 1..Len(queue) : y = queue[j]
      BY <1>1, LenProperties DEF Range
    <3>2. r \in Nat /\ y \in Nat
      BY <2>4, <1>11
    <3>3. j = 1 \/ 1 < j
      BY <3>1
    <3> QED
      BY <2>1, <2>3, <3>1, <3>2, <3>3 DEF OutboxInv, Rising
  <2>6. Min(Range(queue)) \in Range(queue) /\ \A y \in Range(queue) : Min(Range(queue)) <= y
    BY <2>4, MinLeast
  <2>7. r = Min(Range(queue))
    BY <1>11, <2>4, <2>5, <2>6
  <2> QED
    BY <1>4, <2>3, <2>7
<1> QED
  BY <1>3, <1>10, <1>11

\* What the theorem says of one step.
NoReportLost ==
    \A r \in Range(queue) \ Range(queue') :
        \/ r \in accepted'
        \/ ~running'
        \/ Moved
        \/ reported' > reported /\ Len(queue) = Outbox /\ r = Min(Range(queue))

LEMMA OutboxUnmoved ==
    ASSUME OutboxInv, UNCHANGED <<reported, queue>>
    PROVE  OutboxInv' /\ NoReportLost
BY DEF OutboxInv, NoReportLost

LEMMA AcceptedKeeps == ASSUME OutboxInv, ReportAccepted PROVE OutboxInv' /\ NoReportLost
<1>1. /\ Sending /\ UNCHANGED reported /\ accepted' = accepted \cup {flush.item}
      /\ queue' = IF queue = <<>> THEN <<>> ELSE Tail(queue)
  BY DEF ReportAccepted
<1>2. CASE queue = <<>>
  BY <1>1, <1>2, OutboxUnmoved
<1>3. CASE queue # <<>>
  <2>1. OutboxInv' /\ Range(queue) \ Range(queue') \subseteq {Head(queue)}
    BY <1>1, <1>3, TailKeeps
  <2>2. Moved \/ Head(queue) \in accepted'
    BY <1>1 DEF Moved
  <2> QED
    BY <2>1, <2>2 DEF NoReportLost
<1> QED
  BY <1>2, <1>3

LEMMA GivesUpKeeps ==
    ASSUME OutboxInv, NEW f \in Requests, GivesUp(f)
    PROVE  OutboxInv' /\ NoReportLost
<1>1. CASE UNCHANGED outbox
  BY <1>1, OutboxUnmoved DEF outbox
<1>2. CASE Reported
  <2>1. reported' > reported
    BY <1>2 DEF Reported, OutboxInv
  <2> QED
    BY <1>2, <2>1, ReportedKeeps DEF NoReportLost
<1> QED
  BY <1>1, <1>2 DEF GivesUp

LEMMA StopEmpties == ASSUME OutboxInv, Stop PROVE OutboxInv' /\ NoReportLost
<1>1. queue' = <<>> /\ UNCHANGED reported /\ running' = FALSE
  BY DEF Stop, SetupStops
<1>2. <<>> \in Seq(Nat) /\ Len(<<>>) = 0 /\ 1..0 = {}
  BY EmptySeq
<1>3. OutboxInv'
  BY <1>1, <1>2, OutboxIsLimit DEF OutboxInv, Rising
<1> QED
  BY <1>1, <1>3 DEF NoReportLost

\* The steps that leave the outbox alone.
OutboxAlone ==
    \/ SetupStep
    \/ \E f \in Requests :
         \/ \E kind \in Kinds : Begin(f, kind)
         \/ \E agrees \in BOOLEAN :
              AnswerDiagnostics(f, agrees) \/ AnswerConnect(f, agrees) \/ AnswerBuy(f, agrees)
         \/ Abort(f)
         \/ SignInStarts(f) \/ SignInPolls(f) \/ StatusRead(f) \/ TokenDelivered(f)
         \/ PollTaken(f) \/ PollLost(f)
         \/ BalanceRead(f) \/ Purchase(f) \/ PaymentSeen(f) \/ Post(f)
    \/ BrowserActs
    \/ \E e \in Enrollments : EnrollmentExpires(e)
    \/ GatewayRestarts \/ Payment
    \/ FlushAgain \/ ReportRefused
    \/ Start
    \/ UNCHANGED vars

LEMMA OutboxAloneIs == OutboxAlone => UNCHANGED <<reported, queue>>
BY DEF OutboxAlone, SetupStep, Begin, AnswerDiagnostics, AnswerConnect, AnswerBuy, Abort,
       SignInStarts, SignInPolls, StatusRead, TokenDelivered, PollTaken, PollLost, BalanceRead,
       Purchase, PaymentSeen, Post, BrowserActs, EnrollmentExpires, GatewayRestarts, Payment,
       FlushAgain, ReportRefused, Start, vars, outbox

LEMMA NextOutbox == OutboxInv /\ [Next]_vars => OutboxInv' /\ NoReportLost
<1> SUFFICES ASSUME OutboxInv, [Next]_vars PROVE OutboxInv' /\ NoReportLost
  OBVIOUS
<1>1. CASE OutboxAlone
  BY <1>1, OutboxAloneIs, OutboxUnmoved
<1>2. CASE ReportAccepted
  BY <1>2, AcceptedKeeps
<1>3. ASSUME NEW f \in Requests, GivesUp(f) PROVE OutboxInv' /\ NoReportLost
  BY <1>3, GivesUpKeeps
<1>4. CASE Stop
  BY <1>4, StopEmpties
<1>5. OutboxAlone \/ ReportAccepted \/ Stop \/ \E f \in Requests : GivesUp(f)
  BY DEF Next, OutboxAlone, Proceeds
<1> QED
  BY <1>1, <1>2, <1>3, <1>4, <1>5

LEMMA InitOutbox == Init => OutboxInv
<1> SUFFICES ASSUME Init PROVE OutboxInv
  OBVIOUS
<1>1. queue = <<>> /\ reported = 0
  BY DEF Init
<1> QED
  BY <1>1, EmptySeq, OutboxIsLimit DEF OutboxInv, Rising

\* A report leaves the outbox because it was accepted, because the limit took the
\* oldest, or because the plugin stopped; unless the outbox moved under a send.
THEOREM NoReportIsLost == Spec => ReportsKept
<1>1. OutboxInv /\ [Next]_vars => OutboxInv'
  BY NextOutbox
<1>2. OutboxInv /\ [Next]_vars => [NoReportLost]_vars
  BY NextOutbox
<1> QED
  BY <1>1, <1>2, InitOutbox, PTL DEF Spec, ReportsKept, NoReportLost

-----------------------------------------------------------------------------
(***************************************************************************)
(* The sign-in                                                             *)
(***************************************************************************)

\* A row of the gateway's licences.
Held == [status : {"none", "active", "suspended", "revoked"},
         user : {User, Gateway!Nobody}, install : {Computer, Gateway!Nowhere}]

Request ==
    [kind : Kinds \cup {"none"}, pc : Stages, diag : BOOLEAN, aborted : BOOLEAN,
     enr : Enrollments \cup {Gateway!NoEnrollment},
     lic : Licences \cup {0}, got : Licences \cup {0},
     reply : {"none", "lost", "pending", "denied", "gone", "complete"}]

\* The gateway's tables and threads, the requests, and what they have drawn.
GateTypes ==
    /\ enrollment \in [Enrollments -> Gateway!EnrollmentRow]
    /\ licences \in [Licences -> Held]
    /\ callback \in [{1} -> Gateway!CallbackState]
    /\ poll \in [Requests -> Gateway!PollState]

SignInTypes ==
    /\ licence \in Licences \cup {0}
    /\ overlap \in BOOLEAN
    /\ tabs \subseteq drawn
    /\ drawn \subseteq Enrollments
    /\ req \in [Requests -> Request]

\* The poll thread of f has read a licence; it may be for an earlier sign-in.
Loaded(f)   == poll[f] # Gateway!IdlePoll
PollsFor(f) == Loaded(f) /\ poll[f].enrollment = req[f].enr

\* Whoever names an enrollment names one that was drawn; the browser's callback
\* is for a page that is open.
NamesAreDrawn ==
    /\ callback[1].pc # "idle" => callback[1].enrollment \in tabs
    /\ \A f \in Requests :
         /\ req[f].pc \in {"connect", "asleep", "polling"} => req[f].enr \in drawn
         /\ Loaded(f) => poll[f].enrollment \in drawn

\* A licence that works, and no page is open whose approval would replace it.
Lasts(l) == tabs = {} /\ licences[l].status = "active"

\* One request signs in at a time, and only while no licence is saved.
OneSignsIn ==
    \A f \in Requests : req[f].pc \in SigningIn =>
        /\ licence = 0
        /\ \A g \in Requests : req[g].pc \in SigningIn => f = g

\* The sign-in at the connect modal has not begun in the browser.
NotBegun(f) ==
    /\ req[f].enr \notin tabs
    /\ enrollment[req[f].enr].status # "complete"
    /\ ~PollsFor(f)

\* A sign-in that waits has the only page that may be open, and whatever it is
\* told of a licence is of one that lasts.
ToldWell(f) ==
    /\ tabs \subseteq {req[f].enr}
    /\ enrollment[req[f].enr].status = "complete" => Lasts(enrollment[req[f].enr].licence)
    /\ PollsFor(f) => Lasts(poll[f].licence)
    /\ At(f, "polling") /\ req[f].reply = "complete" => Lasts(req[f].got)

Undivided ==
    /\ licence # 0 => Lasts(licence)
    /\ OneSignsIn
    /\ \A f \in Requests :
         /\ At(f, "connect") => NotBegun(f)
         /\ req[f].pc \in {"asleep", "polling"} => ToldWell(f)

SignInInv == GateTypes /\ SignInTypes /\ NamesAreDrawn /\ (~overlap => Undivided)

-----------------------------------------------------------------------------
\* What a request may become without a word from the gateway: it is past its
\* sign-in or over, as it was, or about to ask again.
Gentle(v, w) ==
    \/ w.pc \notin SigningIn
    \/ w.pc = v.pc /\ w.enr = v.enr /\ w.reply = v.reply /\ w.got = v.got
    \/ {v.pc, w.pc} \subseteq {"asleep", "polling"} /\ w.enr = v.enr /\ w.reply # "complete"

LEMMA GentleKeeps ==
    ASSUME SignInInv, UNCHANGED <<gate, licence, tabs, drawn>>, req' \in [Requests -> Request],
           overlap' \in BOOLEAN, overlap => overlap',
           \A f \in Requests : Gentle(req[f], req'[f])
    PROVE  SignInInv'
<1>1. GateTypes' /\ SignInTypes'
  BY DEF SignInInv, GateTypes, SignInTypes, gate
<1>2. ASSUME NEW f \in Requests, req'[f].pc \in SigningIn
      PROVE  /\ req[f].pc \in SigningIn
             /\ req'[f].enr = req[f].enr
             /\ req'[f].pc = "connect" => req[f].pc = "connect"
             /\ req'[f].pc \in {"asleep", "polling"} => req[f].pc \in {"asleep", "polling"}
             /\ req'[f].reply = "complete" => req'[f].pc = req[f].pc /\ req[f].reply = "complete"
                                              /\ req'[f].got = req[f].got
  <2>1. Gentle(req[f], req'[f])
    OBVIOUS
  <2> QED
    BY <1>2, <2>1 DEF Gentle, SigningIn
<1>3. NamesAreDrawn'
  <2>1. callback' = callback /\ tabs' = tabs /\ drawn' = drawn /\ poll' = poll /\ NamesAreDrawn
    BY DEF gate, SignInInv
  <2>2. ASSUME NEW f \in Requests, req'[f].pc \in {"connect", "asleep", "polling"}
        PROVE  req'[f].enr \in drawn
    BY <1>2, <2>1, <2>2 DEF NamesAreDrawn, SigningIn
  <2> QED
    BY <2>1, <2>2 DEF NamesAreDrawn, Loaded, Gateway!IdlePoll
<1>4. ASSUME ~overlap' PROVE Undivided'
  <2>1. Undivided /\ UNCHANGED <<enrollment, licences, poll, licence, tabs>>
    BY <1>4 DEF SignInInv, gate
  <2>2. (licence # 0 => Lasts(licence))' /\ \A l : Lasts(l)' <=> Lasts(l)
    BY <2>1 DEF Undivided, Lasts
  <2>3. OneSignsIn'
    BY <1>2, <2>1 DEF Undivided, OneSignsIn
  <2>4. ASSUME NEW f \in Requests, req'[f].pc = "connect" PROVE NotBegun(f)'
    <3>1. req[f].pc = "connect" /\ req'[f].enr = req[f].enr
      BY <1>2, <2>4 DEF SigningIn
    <3> QED
      BY <2>1, <3>1 DEF Undivided, NotBegun, PollsFor, Loaded, Gateway!IdlePoll, At
  <2>5. ASSUME NEW f \in Requests, req'[f].pc \in {"asleep", "polling"} PROVE ToldWell(f)'
    <3>1. /\ req[f].pc \in {"asleep", "polling"} /\ req'[f].enr = req[f].enr
          /\ req'[f].reply = "complete" => req'[f].pc = req[f].pc /\ req[f].reply = "complete"
                                           /\ req'[f].got = req[f].got
      BY <1>2, <2>5 DEF SigningIn
    <3>2. ToldWell(f)
      BY <2>1, <3>1 DEF Undivided
    <3> QED
      BY <2>1, <3>1, <3>2 DEF ToldWell, PollsFor, Loaded, Gateway!IdlePoll, At, Lasts
  <2> QED
    BY <2>2, <2>3, <2>4, <2>5 DEF Undivided, At
<1> QED
  BY <1>1, <1>3, <1>4 DEF SignInInv

LEMMA GentleIsReflexive == ASSUME NEW v PROVE Gentle(v, v)
BY DEF Gentle

\* One request moves gently.
LEMMA OneGentle ==
    ASSUME SignInInv, UNCHANGED <<gate, licence, tabs, drawn>>,
           overlap' \in BOOLEAN, overlap => overlap',
           NEW f \in Requests, NEW w \in Request, req' = [req EXCEPT ![f] = w],
           Gentle(req[f], w)
    PROVE  SignInInv'
<1>1. req \in [Requests -> Request]
  BY DEF SignInInv, SignInTypes
<1>2. req' \in [Requests -> Request]
  BY <1>1
<1>3. ASSUME NEW g \in Requests PROVE Gentle(req[g], req'[g])
  <2>1. CASE g = f
    BY <1>1, <2>1
  <2>2. CASE g # f
    BY <1>1, <2>2, GentleIsReflexive
  <2> QED
    BY <2>1, <2>2
<1> QED
  BY <1>2, <1>3, GentleKeeps

LEMMA RequestIs == ASSUME SignInInv, NEW f \in Requests PROVE req[f] \in Request
BY DEF SignInInv, SignInTypes

LEMMA NoRequestIs == NoRequest \in Request /\ NoRequest.pc \notin SigningIn
BY DEF NoRequest, Request, SigningIn, Stages, Gateway!NoEnrollment

LEMMA SignInUnmoved ==
    ASSUME SignInInv, UNCHANGED <<gate, licence, signIns, req>>
    PROVE  SignInInv'
<1>1. UNCHANGED <<licence, tabs, drawn>> /\ req' \in [Requests -> Request] /\ overlap' \in BOOLEAN
      /\ overlap' = overlap
  BY DEF signIns, SignInInv, SignInTypes
<1>2. \A f \in Requests : Gentle(req[f], req'[f])
  BY GentleIsReflexive
<1> QED
  BY <1>1, <1>2, GentleKeeps

\* A request moves on without the sign-in: another stage, a reply that brings
\* nothing, or its end.
LEMMA OverKeeps ==
    ASSUME SignInInv, UNCHANGED <<gate, licence, signIns>>, NEW f \in Requests, Over(f)
    PROVE  SignInInv'
<1>1. req' = [req EXCEPT ![f] = NoRequest] /\ Gentle(req[f], NoRequest)
  BY NoRequestIs DEF Over, Gentle
<1>2. UNCHANGED <<licence, tabs, drawn>> /\ overlap' \in BOOLEAN /\ overlap' = overlap
  BY DEF signIns, SignInInv, SignInTypes
<1> QED
  BY <1>1, <1>2, NoRequestIs, OneGentle

LEMMA GoesKeeps ==
    ASSUME SignInInv, UNCHANGED <<gate, licence, signIns>>, NEW f \in Requests,
           NEW pc \in Stages, Goes(f, pc), pc \notin SigningIn
    PROVE  SignInInv'
<1> DEFINE w == [req[f] EXCEPT !.pc = pc]
<1>1. w \in Request
  BY RequestIs DEF Request
<1>2. w.pc = pc
  BY RequestIs DEF Request
<1>3. req' = [req EXCEPT ![f] = w]
  BY DEF Goes, SignInInv, SignInTypes
<1>4. Gentle(req[f], w)
  BY <1>2 DEF Gentle
<1>5. UNCHANGED <<licence, tabs, drawn>> /\ overlap' \in BOOLEAN /\ overlap' = overlap
  BY DEF signIns, SignInInv, SignInTypes
<1> QED
  BY <1>1, <1>3, <1>4, <1>5, OneGentle

\* The same, but for the reply.
LEMMA ReplyKeeps ==
    ASSUME SignInInv, UNCHANGED <<gate, licence, signIns>>, NEW f \in Requests,
           NEW pc \in {"asleep", "polling"},
           NEW r \in {"none", "lost", "pending", "denied", "gone"},
           req[f].pc \in {"asleep", "polling"},
           req' = [req EXCEPT ![f] = [req[f] EXCEPT !.pc = pc, !.reply = r]]
    PROVE  SignInInv'
<1> DEFINE w == [req[f] EXCEPT !.pc = pc, !.reply = r]
<1>1. w \in Request
  BY RequestIs DEF Request, Stages
<1>2. w.pc = pc /\ w.reply = r /\ w.enr = req[f].enr
  BY RequestIs DEF Request
<1>4. Gentle(req[f], w)
  BY <1>2 DEF Gentle
<1>5. UNCHANGED <<licence, tabs, drawn>> /\ overlap' \in BOOLEAN /\ overlap' = overlap
  BY DEF signIns, SignInInv, SignInTypes
<1> QED
  BY <1>1, <1>4, <1>5, OneGentle

LEMMA AbortKeeps == ASSUME SignInInv, NEW f \in Requests, Abort(f) PROVE SignInInv'
<1> DEFINE w == [req[f] EXCEPT !.aborted = TRUE]
<1>1. w \in Request
  BY RequestIs DEF Request
<1>2. w.pc = req[f].pc /\ w.reply = req[f].reply /\ w.enr = req[f].enr /\ w.got = req[f].got
  BY RequestIs DEF Request
<1>3. req' = [req EXCEPT ![f] = w]
  BY DEF Abort, SignInInv, SignInTypes
<1>4. Gentle(req[f], w)
  BY <1>2 DEF Gentle
<1>5. UNCHANGED <<gate, licence, tabs, drawn>> /\ overlap' \in BOOLEAN /\ overlap' = overlap
  BY DEF Abort, signIns, SignInInv, SignInTypes
<1> QED
  BY <1>1, <1>3, <1>4, <1>5, OneGentle

LEMMA StopAborts == ASSUME SignInInv, Stop PROVE SignInInv'
<1>1. ASSUME NEW f \in Requests PROVE req'[f] \in Request /\ Gentle(req[f], req'[f])
  <2>1. CASE At(f, "idle")
    BY <2>1, RequestIs, GentleIsReflexive DEF Stop
  <2>2. CASE ~At(f, "idle")
    <3> DEFINE w == [req[f] EXCEPT !.aborted = TRUE]
    <3>1. w \in Request
      BY RequestIs DEF Request
    <3>2. w.pc = req[f].pc /\ w.reply = req[f].reply /\ w.enr = req[f].enr /\ w.got = req[f].got
      BY RequestIs DEF Request
    <3>3. req'[f] = w
      BY <2>2 DEF Stop
    <3>4. Gentle(req[f], w)
      BY <3>2 DEF Gentle
    <3> QED
      BY <3>1, <3>3, <3>4
  <2> QED
    BY <2>1, <2>2
<1>2. req' \in [Requests -> Request]
  BY <1>1 DEF Stop
<1>3. UNCHANGED <<gate, licence, tabs, drawn>> /\ overlap' \in BOOLEAN /\ overlap' = overlap
  BY DEF Stop, signIns, SignInInv, SignInTypes
<1> QED
  BY <1>1, <1>2, <1>3, GentleKeeps

\* A request that passes its consent may begin to sign in: beside another it
\* overlaps, and otherwise it is the only one.
LEMMA GoesOnKeeps ==
    ASSUME SignInInv, UNCHANGED <<gate, licence, tabs, drawn>>, NEW f \in Requests,
           NEW v \in Request, NEW pc \in {"start", "post", "balance"}, GoesOn(f, v, pc),
           pc = "start" => licence = 0
    PROVE  SignInInv'
<1> DEFINE w == [v EXCEPT !.pc = pc, !.lic = licence]
<1>1. w \in Request /\ w.pc = pc
  BY DEF Request, SignInInv, SignInTypes, Stages
<1>2. req' = [req EXCEPT ![f] = w] /\ req \in [Requests -> Request]
  BY DEF GoesOn, SignInInv, SignInTypes
<1>3. /\ overlap' \in BOOLEAN /\ (overlap => overlap')
      /\ pc = "start" /\ ~overlap' => \A g \in Requests \ {f} : req[g].pc \notin SigningIn
  BY DEF GoesOn, SignInInv, SignInTypes
<1> HIDE DEF w
<1>4. CASE pc # "start"
  <2>1. Gentle(req[f], w)
    BY <1>1, <1>4 DEF Gentle, SigningIn
  <2> QED
    BY <1>1, <1>2, <1>3, <2>1, OneGentle
<1>5. CASE pc = "start"
  <2>1. req' \in [Requests -> Request] /\ req'[f] = w
        /\ \A g \in Requests : g # f => req'[g] = req[g]
    BY <1>1, <1>2
  <2>2. GateTypes' /\ SignInTypes'
    <3>1. GateTypes'
      BY DEF SignInInv, GateTypes, gate
    <3>2. SignInTypes'
      BY <1>3, <2>1 DEF SignInInv, SignInTypes
    <3> QED
      BY <3>1, <3>2
  <2>3. NamesAreDrawn'
    BY <1>1, <1>5, <2>1 DEF SignInInv, NamesAreDrawn, gate, Loaded, Gateway!IdlePoll
  <2>4. ASSUME ~overlap' PROVE Undivided'
    <3>1. Undivided /\ licence = 0 /\ licence' = 0
          /\ \A g \in Requests \ {f} : req'[g].pc \notin SigningIn
      <4>1. \A g \in Requests \ {f} : req[g].pc \notin SigningIn /\ req'[g] = req[g]
        BY <1>3, <1>5, <2>1, <2>4
      <4>2. Undivided /\ licence = 0 /\ licence' = 0
        BY <1>3, <1>5, <2>4 DEF SignInInv
      <4> QED
        BY <4>1, <4>2
    <3> QED
      BY <1>1, <1>5, <2>1, <3>1 DEF Undivided, OneSignsIn, SigningIn, At
  <2> QED
    BY <2>2, <2>3, <2>4 DEF SignInInv
<1> QED
  BY <1>4, <1>5

LEMMA NeedsIs == ASSUME NEW kind PROVE /\ Needs(kind) \in {"start", "post", "balance"}
                                       /\ Needs(kind) = "start" => licence = 0
BY DEF Needs

LEMMA BeginSigns ==
    ASSUME SignInInv, NEW f \in Requests, NEW kind \in Kinds, Begin(f, kind)
    PROVE  SignInInv'
<1> DEFINE asks == kind \in Images /\ conf.diagnostics
           v == [NoRequest EXCEPT !.kind = kind, !.diag = asks /\ receipt["diagnostics"]]
           w == [v EXCEPT !.pc = "consent"]
<1>1. UNCHANGED <<gate, licence, tabs, drawn>>
  BY DEF Begin
<1>2. CASE UNCHANGED <<req, overlap>>
  BY <1>1, <1>2, SignInUnmoved DEF signIns
<1>3. CASE ~(kind \in Images /\ ~conf.done) /\ asks /\ ~receipt["diagnostics"]
  <2>1. v = [NoRequest EXCEPT !.kind = kind, !.diag = FALSE]
    BY <1>3
  <2>2. w \in Request /\ w.pc \notin SigningIn
    BY <2>1 DEF Request, NoRequest, Stages, AtModal, SigningIn, Gateway!NoEnrollment
  <2>3. req' = [req EXCEPT ![f] = w] /\ overlap' = overlap /\ overlap' \in BOOLEAN
    BY <1>3 DEF Begin, SignInInv, SignInTypes
  <2> QED
    BY <1>1, <2>2, <2>3, OneGentle DEF Gentle
<1>4. CASE ~(kind \in Images /\ ~conf.done) /\ ~(asks /\ ~receipt["diagnostics"])
  <2>1. asks => receipt["diagnostics"]
    BY <1>4
  <2>2. PICK b \in BOOLEAN : b = (asks /\ receipt["diagnostics"])
    BY Zenon
  <2>3. v = [NoRequest EXCEPT !.kind = kind, !.diag = b]
    BY <2>2
  <2>4. v \in Request
    BY <2>3 DEF Request, NoRequest, Stages, AtModal, Gateway!NoEnrollment
  <2>5. GoesOn(f, v, Needs(kind))
    BY <1>4 DEF Begin
  <2> HIDE DEF v
  <2> QED
    BY <1>1, <2>4, <2>5, NeedsIs, GoesOnKeeps
<1> QED
  BY <1>2, <1>3, <1>4 DEF Begin

LEMMA AnswerDiagnosticsSigns ==
    ASSUME SignInInv, NEW f \in Requests, NEW agrees \in BOOLEAN, AnswerDiagnostics(f, agrees)
    PROVE  SignInInv'
<1> DEFINE v == [req[f] EXCEPT !.diag = agrees]
<1>1. v \in Request
  BY RequestIs DEF Request
<1>2. UNCHANGED <<gate, licence, tabs, drawn>> /\ GoesOn(f, v, Needs(req[f].kind))
  BY DEF AnswerDiagnostics
<1> HIDE DEF v
<1> QED
  BY <1>1, <1>2, NeedsIs, GoesOnKeeps

\* The steps of a request that the sign-in does not notice.
LEMMA RequestsElsewhere ==
    ASSUME SignInInv, NEW f \in Requests,
           SignInPolls(f) \/ PollLost(f) \/ BalanceRead(f) \/ Purchase(f) \/ PaymentSeen(f)
             \/ Post(f) \/ GivesUp(f) \/ \E agrees \in BOOLEAN : AnswerBuy(f, agrees)
    PROVE  SignInInv'
<1>1. req \in [Requests -> Request]
  BY DEF SignInInv, SignInTypes
<1>2. CASE SignInPolls(f)
  <2>1. /\ req' = [req EXCEPT ![f] = [req[f] EXCEPT !.pc = "polling", !.reply = "none"]]
        /\ UNCHANGED <<gate, licence, signIns>> /\ req[f].pc \in {"asleep", "polling"}
    BY <1>1, <1>2 DEF SignInPolls, At
  <2> QED
    BY <2>1, ReplyKeeps
<1>3. CASE PollLost(f)
  <2>1. /\ req' = [req EXCEPT ![f] = [req[f] EXCEPT !.pc = "polling", !.reply = "lost"]]
        /\ UNCHANGED <<gate, licence, signIns>> /\ req[f].pc \in {"asleep", "polling"}
    BY <1>1, <1>3, RequestIs DEF PollLost, At, Request
  <2> QED
    BY <2>1, ReplyKeeps
<1>4. CASE \/ BalanceRead(f) \/ Purchase(f) \/ PaymentSeen(f)
           \/ \E agrees \in BOOLEAN : AnswerBuy(f, agrees) /\ agrees
  <2>1. PICK pc \in {"post", "buy", "unpaid", "purchase"} : Goes(f, pc)
    BY <1>4 DEF BalanceRead, Purchase, PaymentSeen, AnswerBuy
  <2>2. pc \in Stages /\ pc \notin SigningIn
    BY DEF Stages, SigningIn, AtModal
  <2>3. UNCHANGED <<gate, licence, signIns>>
    BY <1>4 DEF BalanceRead, Purchase, PaymentSeen, AnswerBuy
  <2> QED
    BY <2>1, <2>2, <2>3, GoesKeeps
<1>5. CASE Post(f) \/ GivesUp(f) \/ \E agrees \in BOOLEAN : AnswerBuy(f, agrees) /\ ~agrees
  <2>1. Over(f) /\ UNCHANGED <<gate, licence, signIns>>
    BY <1>5 DEF Post, GivesUp, AnswerBuy
  <2> QED
    BY <2>1, OverKeeps
<1> QED
  BY <1>2, <1>3, <1>4, <1>5

\* While sign-ins have not met, a request that signs in is the only one.
LEMMA Alone ==
    ASSUME SignInInv, ~overlap, NEW f \in Requests, req[f].pc \in SigningIn
    PROVE  licence = 0 /\ \A g \in Requests \ {f} : req[g].pc \notin SigningIn
BY DEF SignInInv, Undivided, OneSignsIn

\* An enrollment drawn anew is nobody else's.
LEMMA SignInStartsKeeps == ASSUME SignInInv, NEW f \in Requests, SignInStarts(f) PROVE SignInInv'
<1> DEFINE e == CHOOSE x \in Enrollments \ drawn : TRUE
           w == [req[f] EXCEPT !.pc = "connect", !.enr = e]
<1>1. req[f].pc = "start" /\ e \in Enrollments \ drawn /\ Gateway!StartOauth(e)
      /\ drawn' = drawn \cup {e} /\ UNCHANGED <<licence, tabs, overlap>>
  BY DEF SignInStarts, At, SignInInv, SignInTypes
<1>2. req' = [req EXCEPT ![f] = w]
  BY DEF SignInStarts, SignInInv, SignInTypes
<1> HIDE DEF e
<1>3. w \in Request /\ w.pc = "connect" /\ w.enr = e
  BY <1>1, RequestIs DEF Request, Stages, AtModal
<1> HIDE DEF w
<1>4. /\ req' \in [Requests -> Request] /\ req'[f] = w
      /\ \A g \in Requests : g # f => req'[g] = req[g]
  BY <1>2, <1>3 DEF SignInInv, SignInTypes
<1>5. UNCHANGED <<licences, callback, poll>> /\ enrollment' = [x \in Enrollments |->
         IF x = e THEN [Gateway!NoRow EXCEPT !.status = "pending"]
         ELSE IF enrollment[x].late THEN Gateway!NoRow ELSE enrollment[x]]
  BY <1>1 DEF Gateway!StartOauth
<1>6. GateTypes'
  <2>1. Gateway!NoRow \in Gateway!EnrollmentRow
        /\ [Gateway!NoRow EXCEPT !.status = "pending"] \in Gateway!EnrollmentRow
        /\ [Gateway!NoRow EXCEPT !.status = "pending"].status = "pending"
    BY DEF Gateway!NoRow, Gateway!EnrollmentRow, Gateway!NoLicenceId
  <2>2. enrollment' \in [Enrollments -> Gateway!EnrollmentRow]
    BY <1>5, <2>1 DEF SignInInv, GateTypes
  <2> QED
    BY <1>5, <2>2 DEF SignInInv, GateTypes
<1>7. SignInTypes'
  BY <1>1, <1>4 DEF SignInInv, SignInTypes
<1>8. NamesAreDrawn'
  BY <1>1, <1>3, <1>4, <1>5 DEF SignInInv, NamesAreDrawn, Loaded, Gateway!IdlePoll
<1>9. ASSUME ~overlap PROVE Undivided'
  <2>1. licence = 0 /\ \A g \in Requests \ {f} : req[g].pc \notin SigningIn
    BY <1>1, <1>9, Alone DEF SigningIn
  <2>2. NotBegun(f)'
    <3>1. e \notin tabs
      BY <1>1 DEF SignInInv, SignInTypes
    <3>2. enrollment'[e].status = "pending"
      BY <1>1, <1>5 DEF Gateway!NoRow
    <3>3. ~(poll[f] # Gateway!IdlePoll /\ poll[f].enrollment = e)
      BY <1>1 DEF SignInInv, NamesAreDrawn, Loaded
    <3> QED
      BY <1>1, <1>3, <1>4, <1>5, <3>1, <3>2, <3>3
      DEF NotBegun, PollsFor, Loaded, Gateway!IdlePoll
  <2> QED
    BY <1>1, <1>3, <1>4, <2>1, <2>2 DEF Undivided, OneSignsIn, SigningIn, At
<1> QED
  BY <1>1, <1>6, <1>7, <1>8, <1>9 DEF SignInInv

\* Its page is the only one, or sign-ins have met.
LEMMA AnswerConnectKeeps ==
    ASSUME SignInInv, NEW f \in Requests, NEW agrees \in BOOLEAN, AnswerConnect(f, agrees)
    PROVE  SignInInv'
<1>0. UNCHANGED <<gate, licence, drawn>>
  BY DEF AnswerConnect
<1>1. CASE ~agrees
  BY <1>0, <1>1, OverKeeps DEF AnswerConnect, signIns
<1>2. CASE agrees
  <2> DEFINE w == [req[f] EXCEPT !.pc = "asleep"]
  <2>1. /\ req[f].pc = "connect" /\ tabs' = tabs \cup {req[f].enr}
        /\ overlap' = (overlap \/ tabs # {})
    BY <1>2 DEF AnswerConnect, At, BrowserShows
  <2>2. req' = [req EXCEPT ![f] = w]
    BY <1>2 DEF AnswerConnect, Goes, SignInInv, SignInTypes
  <2>3. w \in Request /\ w.pc = "asleep" /\ w.enr = req[f].enr
    BY RequestIs DEF Request, Stages
  <2> HIDE DEF w
  <2>4. /\ req' \in [Requests -> Request] /\ req'[f] = w
        /\ \A g \in Requests : g # f => req'[g] = req[g]
    BY <2>2, <2>3 DEF SignInInv, SignInTypes
  <2>5. req[f].enr \in drawn
    BY <2>1 DEF SignInInv, NamesAreDrawn
  <2>6. GateTypes'
    BY <1>0 DEF SignInInv, GateTypes, gate
  <2>7. SignInTypes'
    BY <1>0, <2>1, <2>4, <2>5 DEF SignInInv, SignInTypes
  <2>8. NamesAreDrawn'
    BY <1>0, <2>1, <2>3, <2>4, <2>5 DEF SignInInv, NamesAreDrawn, Loaded, Gateway!IdlePoll, gate
  <2>9. ASSUME ~overlap' PROVE Undivided'
    <3>1. ~overlap /\ tabs = {} /\ tabs' = {req[f].enr}
      BY <2>1, <2>9
    <3>2. licence = 0 /\ \A g \in Requests \ {f} : req[g].pc \notin SigningIn
      BY <2>1, <3>1, Alone DEF SigningIn
    <3>3. NotBegun(f)
      BY <2>1, <3>1 DEF SignInInv, Undivided, At
    <3>4. ToldWell(f)'
      BY <1>0, <2>3, <2>4, <3>1, <3>3
      DEF ToldWell, NotBegun, PollsFor, Loaded, Gateway!IdlePoll, gate, At
    <3> QED
      BY <1>0, <2>3, <2>4, <3>2, <3>4 DEF Undivided, OneSignsIn, SigningIn, At
  <2> QED
    BY <2>6, <2>7, <2>8, <2>9 DEF SignInInv
<1> QED
  BY <1>1, <1>2

\* The gateway's threads may go, and what an enrollment says of its licence stays.
LEMMA GateKeeps ==
    ASSUME SignInInv, UNCHANGED <<licences, licence, signIns, req>>, GateTypes',
           callback'[1].pc # "idle" => callback'[1].enrollment \in tabs,
           \A e \in Enrollments : /\ enrollment'[e].status = enrollment[e].status
                                  /\ enrollment'[e].licence = enrollment[e].licence,
           \A f \in Requests : poll'[f] \in {poll[f], Gateway!IdlePoll}
    PROVE  SignInInv'
<1>1. SignInTypes'
  BY DEF SignInInv, SignInTypes, signIns
<1>2. ASSUME NEW f \in Requests, Loaded(f)' PROVE Loaded(f) /\ poll'[f] = poll[f]
  BY <1>2 DEF Loaded, Gateway!IdlePoll
<1>3. NamesAreDrawn'
  BY <1>2 DEF SignInInv, NamesAreDrawn, signIns
<1>4. ASSUME ~overlap' PROVE Undivided'
  <2>1. Undivided /\ UNCHANGED <<licences, licence, tabs, req>>
    BY <1>4 DEF SignInInv, signIns
  <2>2. ASSUME NEW f \in Requests, At(f, "connect") PROVE NotBegun(f)'
    <3>1. NotBegun(f) /\ req[f].enr \in Enrollments
      BY <2>1, <2>2 DEF Undivided, SignInInv, NamesAreDrawn, SignInTypes, At
    <3> QED
      BY <1>2, <2>1, <3>1 DEF NotBegun, PollsFor
  <2>3. ASSUME NEW f \in Requests, req[f].pc \in {"asleep", "polling"} PROVE ToldWell(f)'
    <3>1. ToldWell(f) /\ req[f].enr \in Enrollments
      BY <2>1, <2>3 DEF Undivided, SignInInv, NamesAreDrawn, SignInTypes
    <3> QED
      BY <1>2, <2>1, <3>1 DEF ToldWell, PollsFor, Lasts, At
  <2>4. (licence # 0 => Lasts(licence))' /\ OneSignsIn'
    BY <2>1 DEF Undivided, Lasts, OneSignsIn
  <2> QED
    BY <2>1, <2>2, <2>3, <2>4 DEF Undivided, At
<1> QED
  BY <1>1, <1>3, <1>4 DEF SignInInv

LEMMA RowChanges ==
    ASSUME NEW r \in Gateway!EnrollmentRow
    PROVE  /\ [r EXCEPT !.late = TRUE] \in Gateway!EnrollmentRow
           /\ [r EXCEPT !.late = TRUE].status = r.status
           /\ [r EXCEPT !.late = TRUE].licence = r.licence
           /\ [r EXCEPT !.delivered = TRUE] \in Gateway!EnrollmentRow
           /\ [r EXCEPT !.delivered = TRUE].status = r.status
           /\ [r EXCEPT !.delivered = TRUE].licence = r.licence
           /\ [r EXCEPT !.status = "denied"] \in Gateway!EnrollmentRow
           /\ [r EXCEPT !.status = "denied"].status = "denied"
BY DEF Gateway!EnrollmentRow

LEMMA ThreadTypes == /\ Gateway!IdleCallback \in Gateway!CallbackState
                     /\ Gateway!IdleCallback.pc = "idle"
                     /\ Gateway!IdlePoll \in Gateway!PollState
BY DEF Gateway!IdleCallback, Gateway!CallbackState, Gateway!IdlePoll, Gateway!PollState,
       Gateway!NoEnrollment, Gateway!Nobody, Gateway!NoLicenceId

LEMMA ExpiryKeeps ==
    ASSUME SignInInv, NEW e \in Enrollments, EnrollmentExpires(e)
    PROVE  SignInInv'
<1>1. /\ enrollment' = [enrollment EXCEPT ![e].late = TRUE]
      /\ UNCHANGED <<licences, callback, poll, licence, signIns, req>>
  BY DEF EnrollmentExpires, Gateway!Expire
<1>2. enrollment \in [Enrollments -> Gateway!EnrollmentRow] /\ GateTypes
  BY DEF SignInInv, GateTypes
<1>3. ASSUME NEW x \in Enrollments
      PROVE  /\ enrollment'[x] \in Gateway!EnrollmentRow
             /\ enrollment'[x].status = enrollment[x].status
             /\ enrollment'[x].licence = enrollment[x].licence
  BY <1>1, <1>2, RowChanges
<1>4. enrollment' \in [Enrollments -> Gateway!EnrollmentRow]
  BY <1>1, <1>2, <1>3
<1>5. GateTypes'
  BY <1>1, <1>2, <1>4 DEF GateTypes
<1>6. callback'[1].pc # "idle" => callback'[1].enrollment \in tabs
  BY <1>1 DEF SignInInv, NamesAreDrawn
<1> QED
  BY <1>1, <1>3, <1>5, <1>6, GateKeeps

LEMMA GatewayRestartsKeeps == ASSUME SignInInv, GatewayRestarts PROVE SignInInv'
<1>1. /\ callback' = [c \in {1} |-> Gateway!IdleCallback]
      /\ poll' = [p \in Requests |-> Gateway!IdlePoll]
      /\ UNCHANGED <<enrollment, licences, licence, signIns, req>>
  BY DEF GatewayRestarts, Gateway!Restart
<1>2. GateTypes'
  BY <1>1, ThreadTypes DEF SignInInv, GateTypes
<1>3. callback'[1].pc = "idle" /\ \A f \in Requests : poll'[f] = Gateway!IdlePoll
  BY <1>1, ThreadTypes
<1> QED
  BY <1>1, <1>2, <1>3, GateKeeps

\* The callback goes on, fails, or takes up a page that is open.
LEMMA CallbackGoesOn ==
    ASSUME SignInInv, UNCHANGED <<enrollment, licences, poll, licence, signIns, req>>,
           \/ \E e \in tabs, approved \in BOOLEAN : Gateway!CallbackRead(1, e, approved)
           \/ Gateway!Identify(1, User) \/ Gateway!IdentifyFails(1) \/ Gateway!CheckBan(1)
    PROVE  SignInInv'
<1> DEFINE old == callback[1]
<1>0. callback \in [{1} -> Gateway!CallbackState] /\ old \in Gateway!CallbackState
      /\ (old.pc # "idle" => old.enrollment \in tabs) /\ GateTypes
  BY DEF SignInInv, GateTypes, NamesAreDrawn
<1>1. PICK new \in Gateway!CallbackState :
        /\ callback' = [callback EXCEPT ![1] = new]
        /\ new.pc # "idle" => new.enrollment \in tabs
  <2>1. CASE \E e \in tabs, approved \in BOOLEAN : Gateway!CallbackRead(1, e, approved)
    <3>1. PICK e \in tabs, approved \in BOOLEAN : Gateway!CallbackRead(1, e, approved)
      BY <2>1
    <3> DEFINE new == [pc |-> IF approved THEN "exchanging" ELSE "denying", enrollment |-> e,
                       user |-> Gateway!Nobody]
    <3>2. callback' = [callback EXCEPT ![1] = new]
      BY <3>1 DEF Gateway!CallbackRead
    <3>3. new \in Gateway!CallbackState /\ new.enrollment \in tabs
      BY DEF Gateway!CallbackState, SignInInv, SignInTypes
    <3> QED
      BY <3>2, <3>3
  <2>2. CASE Gateway!Identify(1, User)
    <3> DEFINE new == [old EXCEPT !.pc = "checking", !.user = User]
    <3>1. callback' = [callback EXCEPT ![1] = new] /\ old.pc = "exchanging"
      BY <1>0, <2>2 DEF Gateway!Identify, Gateway!At
    <3>2. new \in Gateway!CallbackState /\ new.enrollment = old.enrollment
      BY <1>0 DEF Gateway!CallbackState
    <3> QED
      BY <1>0, <3>1, <3>2
  <2>3. CASE Gateway!IdentifyFails(1)
    BY <2>3, ThreadTypes DEF Gateway!IdentifyFails, Gateway!Return
  <2>4. CASE Gateway!CheckBan(1)
    <3>1. PICK pc \in {"denying", "issuing"} : callback' = [callback EXCEPT ![1].pc = pc]
      BY <2>4 DEF Gateway!CheckBan, Gateway!Goto
    <3> DEFINE new == [old EXCEPT !.pc = pc]
    <3>2. callback' = [callback EXCEPT ![1] = new] /\ old.pc = "checking"
      BY <1>0, <2>4, <3>1 DEF Gateway!CheckBan, Gateway!At
    <3>3. new \in Gateway!CallbackState /\ new.enrollment = old.enrollment
      BY <1>0 DEF Gateway!CallbackState
    <3> QED
      BY <1>0, <3>2, <3>3
  <2> QED
    BY <2>1, <2>2, <2>3, <2>4
<1>2. callback' \in [{1} -> Gateway!CallbackState] /\ callback'[1] = new
  BY <1>0, <1>1
<1>3. GateTypes'
  BY <1>0, <1>2 DEF GateTypes
<1> QED
  BY <1>1, <1>2, <1>3, GateKeeps

LEMMA DenyKeeps ==
    ASSUME SignInInv, UNCHANGED <<licence, drawn, overlap, req>>, Gateway!Deny(1),
           tabs' = tabs \ {callback[1].enrollment}
    PROVE  SignInInv'
<1> DEFINE e == callback[1].enrollment
<1>1. /\ callback' = [callback EXCEPT ![1] = Gateway!IdleCallback]
      /\ UNCHANGED <<licences, poll>>
      /\ enrollment' \in {enrollment, [enrollment EXCEPT ![e].status = "denied"]}
  BY DEF Gateway!Deny, Gateway!Return
<1>2. enrollment \in [Enrollments -> Gateway!EnrollmentRow] /\ GateTypes
  BY DEF SignInInv, GateTypes
<1>3. ASSUME NEW x \in Enrollments
      PROVE  /\ enrollment'[x] \in Gateway!EnrollmentRow
             /\ enrollment'[x] = enrollment[x] \/ enrollment'[x].status = "denied"
  <2>1. enrollment'[x] \in {enrollment[x], [enrollment[x] EXCEPT !.status = "denied"]}
    BY <1>1, <1>2
  <2>2. enrollment[x] \in Gateway!EnrollmentRow
    BY <1>2
  <2> QED
    BY <2>1, <2>2, RowChanges
<1>4. GateTypes' /\ callback'[1].pc = "idle"
  <2>1. enrollment' \in [Enrollments -> Gateway!EnrollmentRow]
    BY <1>1, <1>2, <1>3
  <2> QED
    BY <1>1, <1>2, <2>1, ThreadTypes DEF GateTypes
<1>5. SignInTypes'
  BY DEF SignInInv, SignInTypes
<1>6. NamesAreDrawn'
  BY <1>1, <1>4 DEF SignInInv, NamesAreDrawn, Loaded, Gateway!IdlePoll
<1>7. ASSUME ~overlap PROVE Undivided'
  <2>1. Undivided /\ tabs' \subseteq tabs
    BY <1>7 DEF SignInInv
  <2>2. (licence # 0 => Lasts(licence))' /\ OneSignsIn'
    BY <1>1, <2>1 DEF Undivided, Lasts, OneSignsIn
  <2>3. ASSUME NEW f \in Requests, At(f, "connect") PROVE NotBegun(f)'
    <3>1. NotBegun(f) /\ req[f].enr \in Enrollments
      BY <2>1, <2>3 DEF Undivided, SignInInv, NamesAreDrawn, SignInTypes, At
    <3> QED
      BY <1>1, <1>3, <2>1, <3>1 DEF NotBegun, PollsFor, Loaded, Gateway!IdlePoll
  <2>4. ASSUME NEW f \in Requests, req[f].pc \in {"asleep", "polling"} PROVE ToldWell(f)'
    <3>1. ToldWell(f) /\ req[f].enr \in Enrollments
      BY <2>1, <2>4 DEF Undivided, SignInInv, NamesAreDrawn, SignInTypes
    <3> QED
      BY <1>1, <1>3, <2>1, <3>1 DEF ToldWell, PollsFor, Loaded, Gateway!IdlePoll, Lasts, At
  <2> QED
    BY <2>2, <2>3, <2>4 DEF Undivided, At
<1> QED
  BY <1>4, <1>5, <1>6, <1>7 DEF SignInInv

\* The one step that replaces a licence: its page was open, so no licence that
\* lasts was known to anyone, and after it no page is.
LEMMA IssueKeeps ==
    ASSUME SignInInv, UNCHANGED <<licence, drawn, overlap, req>>, Gateway!Issue(1),
           tabs' = tabs \ {callback[1].enrollment}
    PROVE  SignInInv'
<1> DEFINE e == callback[1].enrollment
           u == callback[1].user
<1>1. e \in tabs /\ e \in Enrollments /\ u \in {User, Gateway!Nobody} /\ GateTypes
  BY DEF Gateway!Issue, Gateway!At, SignInInv, NamesAreDrawn, SignInTypes, GateTypes,
         Gateway!CallbackState
<1>2. PICK new \in Licences :
        /\ licences' = [l \in Licences |->
             IF l = new THEN [status |-> "active", user |-> u, install |-> Computer]
             ELSE IF Gateway!Replaced(u, Computer, l)
                  THEN [licences[l] EXCEPT !.status = "suspended"] ELSE licences[l]]
        /\ enrollment' =
             IF enrollment[e].status # "none"
             THEN [enrollment EXCEPT ![e].status = "complete", ![e].licence = new]
             ELSE enrollment
  BY <1>1 DEF Gateway!Issue, Gateway!Licence, Licences, Gateway!Exists
<1>3. callback' = [callback EXCEPT ![1] = Gateway!IdleCallback] /\ UNCHANGED poll
  BY DEF Gateway!Issue, Gateway!Return
<1>4. licences' \in [Licences -> Held] /\ licences'[new].status = "active"
  <2>1. ASSUME NEW l \in Licences PROVE [licences[l] EXCEPT !.status = "suspended"] \in Held
    BY <1>1 DEF GateTypes, Held
  <2>2. [status |-> "active", user |-> u, install |-> Computer] \in Held
    BY <1>1 DEF Held
  <2> QED
    BY <1>1, <1>2, <2>1, <2>2 DEF GateTypes
<1>5. ASSUME NEW x \in Enrollments
      PROVE  /\ enrollment'[x] \in Gateway!EnrollmentRow
             /\ x # e => enrollment'[x] = enrollment[x]
             /\ enrollment'[e].status = "complete" /\ enrollment[e].status # "complete"
                => enrollment'[e].licence = new
             /\ enrollment[e].status # "none" => enrollment'[e].licence = new
  BY <1>1, <1>2 DEF GateTypes, Gateway!EnrollmentRow, Gateway!Licence, Licences
<1>6. GateTypes' /\ callback'[1].pc = "idle"
  <2>1. enrollment' \in [Enrollments -> Gateway!EnrollmentRow]
    BY <1>1, <1>2, <1>5 DEF GateTypes
  <2> QED
    BY <1>1, <1>3, <1>4, <2>1, ThreadTypes DEF GateTypes
<1>7. SignInTypes'
  BY DEF SignInInv, SignInTypes
<1>8. NamesAreDrawn'
  BY <1>3, <1>6 DEF SignInInv, NamesAreDrawn, Loaded, Gateway!IdlePoll
<1>9. ASSUME ~overlap PROVE Undivided'
  <2>1. Undivided /\ tabs' = tabs \ {e} /\ tabs # {}
    BY <1>1, <1>9 DEF SignInInv
  <2>2. licence = 0 /\ OneSignsIn'
    BY <2>1 DEF Undivided, Lasts, OneSignsIn
  <2>3. ASSUME NEW f \in Requests, At(f, "connect") PROVE NotBegun(f)'
    <3>1. NotBegun(f) /\ req[f].enr \in Enrollments
      BY <2>1, <2>3 DEF Undivided, SignInInv, NamesAreDrawn, SignInTypes, At
    <3>2. req[f].enr # e
      BY <1>1, <3>1 DEF NotBegun
    <3> QED
      BY <1>3, <1>5, <2>1, <3>1, <3>2 DEF NotBegun, PollsFor, Loaded, Gateway!IdlePoll
  <2>4. ASSUME NEW f \in Requests, req[f].pc \in {"asleep", "polling"} PROVE ToldWell(f)'
    <3>1. ToldWell(f) /\ req[f].enr \in Enrollments
      BY <2>1, <2>4 DEF Undivided, SignInInv, NamesAreDrawn, SignInTypes
    <3>2. req[f].enr = e /\ tabs' = {} /\ enrollment[e].status # "complete" /\ ~PollsFor(f)
          /\ ~(At(f, "polling") /\ req[f].reply = "complete")
      BY <1>1, <2>1, <3>1 DEF ToldWell, Lasts
    <3> QED
      BY <1>1, <1>3, <1>4, <1>5, <3>2
      DEF ToldWell, PollsFor, Loaded, Gateway!IdlePoll, Lasts, At
  <2> QED
    BY <2>2, <2>3, <2>4 DEF Undivided, At
<1> QED
  BY <1>6, <1>7, <1>8, <1>9 DEF SignInInv

\* What the gateway answers; a licence is read for its token.
LEMMA StatusReadKeeps == ASSUME SignInInv, NEW f \in Requests, StatusRead(f) PROVE SignInInv'
<1> DEFINE e == req[f].enr
<1>1. /\ req[f].pc = "polling" /\ UNCHANGED <<licence, signIns>>
      /\ req \in [Requests -> Request] /\ GateTypes
      /\ e \in drawn /\ e \in Enrollments
  BY DEF StatusRead, At, SignInInv, SignInTypes, NamesAreDrawn
<1>2. CASE Status(e) # "complete"
  <2>1. req' = [req EXCEPT ![f].reply = Status(e)] /\ UNCHANGED gate
    BY <1>2 DEF StatusRead
  <2>2. Status(e) \in {"pending", "denied", "gone"}
    BY <1>1, <1>2 DEF Status, Gateway!Exists, GateTypes, Gateway!EnrollmentRow
  <2>3. PICK r \in {"pending", "denied", "gone"} : r = Status(e)
    BY <2>2
  <2>4. req' = [req EXCEPT ![f] = [req[f] EXCEPT !.pc = "polling", !.reply = r]]
    BY <1>1, <2>1, <2>3, RequestIs DEF Request
  <2> QED
    BY <1>1, <2>1, <2>4, ReplyKeeps
<1>3. CASE Status(e) = "complete"
  <2>1. /\ enrollment[e].status = "complete"
        /\ poll' = [poll EXCEPT ![f] = [enrollment |-> e, licence |-> enrollment[e].licence]]
        /\ UNCHANGED <<enrollment, licences, callback, licence, tabs, drawn, overlap, req>>
    BY <1>1, <1>3 DEF StatusRead, Gateway!PollRead, signIns
  <2>2. [enrollment |-> e, licence |-> enrollment[e].licence] \in Gateway!PollState
    BY <1>1 DEF GateTypes, Gateway!PollState, Gateway!EnrollmentRow
  <2>3. GateTypes' /\ poll'[f].enrollment = e /\ poll'[f].licence = enrollment[e].licence
        /\ \A g \in Requests : g # f => poll'[g] = poll[g]
    BY <1>1, <2>1, <2>2 DEF GateTypes
  <2>4. SignInTypes'
    BY <2>1 DEF SignInInv, SignInTypes
  <2>5. NamesAreDrawn'
    BY <1>1, <2>1, <2>3 DEF SignInInv, NamesAreDrawn, Loaded, Gateway!IdlePoll
  <2>6. ASSUME ~overlap PROVE Undivided'
    <3>1. Undivided /\ licence = 0 /\ \A g \in Requests \ {f} : req[g].pc \notin SigningIn
      BY <1>1, <2>6, Alone DEF SignInInv, SigningIn
    <3>2. ToldWell(f)
      BY <1>1, <3>1 DEF Undivided
    <3>3. ToldWell(f)'
      BY <1>1, <2>1, <2>3, <3>2 DEF ToldWell, PollsFor, Lasts, At
    <3>4. OneSignsIn'
      BY <2>1, <3>1 DEF Undivided, OneSignsIn
    <3> QED
      BY <1>1, <2>1, <3>1, <3>3, <3>4 DEF Undivided, SigningIn, At
  <2> QED
    BY <2>1, <2>3, <2>4, <2>5, <2>6 DEF SignInInv
<1> QED
  BY <1>2, <1>3

LEMMA TokenDeliveredKeeps ==
    ASSUME SignInInv, NEW f \in Requests, TokenDelivered(f)
    PROVE  SignInInv'
<1> DEFINE x == poll[f].enrollment
           l == poll[f].licence
<1>1. /\ Loaded(f) /\ UNCHANGED <<licences, callback, licence, tabs, drawn, overlap>>
      /\ enrollment' \in {enrollment, [enrollment EXCEPT ![x].delivered = TRUE]}
      /\ poll' = [poll EXCEPT ![f] = Gateway!IdlePoll]
  BY DEF TokenDelivered, Gateway!PollDeliver, Loaded, signIns
<1>2. req \in [Requests -> Request] /\ GateTypes /\ l \in Licences \cup {0}
  BY DEF SignInInv, SignInTypes, GateTypes, Gateway!PollState, Gateway!Licence,
         Gateway!NoLicenceId, Licences
<1>3. ASSUME NEW y \in Enrollments
      PROVE  /\ enrollment'[y] \in Gateway!EnrollmentRow
             /\ enrollment'[y].status = enrollment[y].status
             /\ enrollment'[y].licence = enrollment[y].licence
  <2>1. enrollment'[y] \in {enrollment[y], [enrollment[y] EXCEPT !.delivered = TRUE]}
    BY <1>1, <1>2 DEF GateTypes
  <2>2. enrollment[y] \in Gateway!EnrollmentRow
    BY <1>2 DEF GateTypes
  <2> QED
    BY <2>1, <2>2, RowChanges
<1>4. GateTypes'
  <2>1. enrollment' \in [Enrollments -> Gateway!EnrollmentRow]
    BY <1>1, <1>2, <1>3 DEF GateTypes
  <2> QED
    BY <1>1, <1>2, <2>1, ThreadTypes DEF GateTypes
<1>5. ~Loaded(f)' /\ \A g \in Requests : g # f => poll'[g] = poll[g]
  BY <1>1, <1>2 DEF GateTypes, Loaded, Gateway!IdlePoll
<1>6. PICK w \in Request :
        /\ req' = [req EXCEPT ![f] = w]
        /\ w.pc = req[f].pc /\ w.enr = req[f].enr
        /\ \/ w = req[f]
           \/ req[f].pc = "polling" /\ PollsFor(f) /\ (w.reply = "complete" => w.got = l)
  <2>1. CASE req' = req
    BY <1>2, <2>1
  <2>2. CASE req' # req
    <3>1. PICK lost \in BOOLEAN :
            req' = [req EXCEPT ![f].reply = IF lost THEN "lost" ELSE "complete", ![f].got = l]
      BY <2>2 DEF TokenDelivered
    <3>2. req[f].pc = "polling" /\ x = req[f].enr
      BY <2>2 DEF TokenDelivered, At
    <3>3. PICK r \in {"lost", "complete"} : req' = [req EXCEPT ![f].reply = r, ![f].got = l]
      BY <3>1
    <3> DEFINE w == [req[f] EXCEPT !.reply = r, !.got = l]
    <3>4. w \in Request /\ w.pc = req[f].pc /\ w.enr = req[f].enr /\ w.got = l
      BY <1>2, RequestIs DEF Request
    <3>5. req' = [req EXCEPT ![f] = w]
      BY <1>2, <3>3
    <3> QED
      BY <1>1, <3>2, <3>4, <3>5 DEF PollsFor
  <2> QED
    BY <2>1, <2>2
<1>7. /\ req' \in [Requests -> Request] /\ req'[f] = w
      /\ \A g \in Requests : g # f => req'[g] = req[g]
      /\ \A g \in Requests : req'[g].pc = req[g].pc /\ req'[g].enr = req[g].enr
  BY <1>2, <1>6
<1>8. SignInTypes'
  BY <1>1, <1>7 DEF SignInInv, SignInTypes
<1>9. NamesAreDrawn'
  <2>1. ASSUME NEW g \in Requests, Loaded(g)' PROVE poll'[g].enrollment \in drawn
    <3>1. g # f /\ Loaded(g) /\ poll'[g] = poll[g]
      BY <1>5, <2>1 DEF Loaded, Gateway!IdlePoll
    <3> QED
      BY <3>1 DEF SignInInv, NamesAreDrawn
  <2> QED
    BY <1>1, <1>7, <2>1 DEF SignInInv, NamesAreDrawn
<1>10. ASSUME ~overlap PROVE Undivided'
  <2>1. Undivided
    BY <1>10 DEF SignInInv
  <2>2. (licence # 0 => Lasts(licence))' /\ OneSignsIn'
    BY <1>1, <1>7, <2>1 DEF Undivided, Lasts, OneSignsIn
  <2>3. ASSUME NEW g \in Requests, PollsFor(g)' PROVE PollsFor(g) /\ poll'[g] = poll[g]
    BY <1>5, <1>7, <2>3 DEF PollsFor, Loaded, Gateway!IdlePoll
  <2>4. ASSUME NEW g \in Requests, req'[g].pc = "connect" PROVE NotBegun(g)'
    <3>1. NotBegun(g) /\ req[g].enr \in Enrollments
      BY <1>7, <2>1, <2>4 DEF Undivided, SignInInv, NamesAreDrawn, SignInTypes, At
    <3> QED
      BY <1>1, <1>3, <1>7, <2>3, <3>1 DEF NotBegun
  <2>5. ASSUME NEW g \in Requests, req'[g].pc \in {"asleep", "polling"} PROVE ToldWell(g)'
    <3>1. ToldWell(g) /\ req[g].enr \in Enrollments
      BY <1>7, <2>1, <2>5 DEF Undivided, SignInInv, NamesAreDrawn, SignInTypes
    <3>2. At(g, "polling")' /\ req'[g].reply = "complete" => Lasts(req'[g].got)
      BY <1>6, <1>7, <3>1 DEF ToldWell, At
    <3> QED
      BY <1>1, <1>3, <1>7, <2>3, <3>1, <3>2 DEF ToldWell, Lasts
  <2> QED
    BY <2>2, <2>4, <2>5 DEF Undivided, At
<1> QED
  BY <1>1, <1>4, <1>8, <1>9, <1>10 DEF SignInInv

LEMMA PollTakenKeeps == ASSUME SignInInv, NEW f \in Requests, PollTaken(f) PROVE SignInInv'
<1>1. /\ req[f].pc = "polling" /\ UNCHANGED <<gate, tabs, drawn, overlap>>
      /\ req \in [Requests -> Request] /\ req[f] \in Request
      /\ overlap \in BOOLEAN
  BY DEF PollTaken, At, signIns, SignInInv, SignInTypes
<1>2. CASE req[f].reply \in {"pending", "lost"}
  <2> DEFINE w == [req[f] EXCEPT !.pc = "asleep"]
  <2>1. Goes(f, "asleep") /\ UNCHANGED <<licence, signIns>>
    BY <1>1, <1>2 DEF PollTaken, signIns
  <2>2. req' = [req EXCEPT ![f] = w]
    BY <1>1, <2>1 DEF Goes
  <2>3. w \in Request /\ w.pc = "asleep" /\ w.enr = req[f].enr /\ w.reply = req[f].reply
    BY <1>1 DEF Request, Stages
  <2>4. Gentle(req[f], w)
    BY <1>1, <1>2, <2>3 DEF Gentle
  <2> HIDE DEF w
  <2> QED
    BY <1>1, <2>1, <2>2, <2>3, <2>4, OneGentle
<1>3. CASE req[f].reply \in {"denied", "gone"}
  <2>1. Over(f) /\ UNCHANGED <<licence, signIns>>
    BY <1>1, <1>3 DEF PollTaken, signIns
  <2> QED
    BY <1>1, <2>1, OverKeeps
<1>4. CASE req[f].reply = "complete"
  <2>1. licence' = req[f].got
    BY <1>1, <1>4 DEF PollTaken, Request
  <2>2. PICK w \in Request : req' = [req EXCEPT ![f] = w] /\ w.pc \in {"post", "balance"}
    <3> DEFINE v == [req[f] EXCEPT !.reply = "none"]
               pc == IF v.kind = "audit" THEN "post" ELSE "balance"
               w == [v EXCEPT !.pc = pc, !.lic = v.got, !.got = 0, !.enr = Gateway!NoEnrollment]
    <3>1. req' = [req EXCEPT ![f] = w]
      BY <1>1, <1>4 DEF PollTaken
    <3>2. v \in Request
      BY <1>1 DEF Request
    <3>3. pc \in {"post", "balance"} /\ v.got \in Licences \cup {0}
      BY <3>2 DEF Request
    <3> HIDE DEF v, pc
    <3>4. w \in Request /\ w.pc = pc
      BY <3>2, <3>3 DEF Request, Stages
    <3> QED
      BY <3>1, <3>3, <3>4
  <2>3. /\ req' \in [Requests -> Request] /\ req'[f] = w /\ w.pc \notin SigningIn
        /\ \A g \in Requests : g # f => req'[g] = req[g]
    BY <1>1, <2>2 DEF SigningIn
  <2>4. GateTypes' /\ UNCHANGED <<enrollment, licences, callback, poll>>
    BY <1>1 DEF SignInInv, GateTypes, gate
  <2>5. SignInTypes'
    BY <1>1, <2>1, <2>3 DEF SignInInv, SignInTypes, Request
  <2>6. NamesAreDrawn'
    BY <1>1, <2>3, <2>4 DEF SignInInv, NamesAreDrawn, Loaded, Gateway!IdlePoll, SigningIn
  <2>7. ASSUME ~overlap PROVE Undivided'
    <3>1. Undivided /\ \A g \in Requests : req'[g].pc \notin SigningIn
      BY <1>1, <2>3, <2>7, Alone DEF SignInInv, SigningIn
    <3>2. Lasts(req[f].got)
      BY <1>1, <1>4, <3>1 DEF Undivided, ToldWell, At
    <3>3. Lasts(licence)'
      BY <1>1, <2>1, <2>4, <3>2 DEF Lasts
    <3> QED
      BY <3>1, <3>3 DEF Undivided, OneSignsIn, SigningIn, At
  <2> QED
    BY <1>1, <2>4, <2>5, <2>6, <2>7 DEF SignInInv
<1> QED
  BY <1>1, <1>2, <1>3, <1>4 DEF PollTaken, Request

-----------------------------------------------------------------------------
LEMMA InitSignIn == Init => SignInInv
<1> SUFFICES ASSUME Init PROVE SignInInv
  OBVIOUS
<1>1. /\ enrollment = [e \in Enrollments |-> Gateway!NoRow]
      /\ licences = [l \in Licences |-> Gateway!NoLicence]
      /\ callback = [c \in {1} |-> Gateway!IdleCallback]
      /\ poll = [p \in Requests |-> Gateway!IdlePoll]
  BY DEF Init, Gateway!Init, Gateway!Licence, Licences
<1>2. GateTypes
  <2>1. Gateway!NoRow \in Gateway!EnrollmentRow
    BY DEF Gateway!NoRow, Gateway!EnrollmentRow, Gateway!NoLicenceId
  <2>2. Gateway!NoLicence \in Held
    BY DEF Gateway!NoLicence, Held
  <2> QED
    BY <1>1, <2>1, <2>2, ThreadTypes DEF GateTypes
<1>3. /\ licence = 0 /\ tabs = {} /\ drawn = {} /\ overlap = FALSE
      /\ \A f \in Requests : req[f] = NoRequest
  BY DEF Init
<1>4. SignInTypes
  BY <1>3, NoRequestIs DEF Init, SignInTypes
<1>5. NamesAreDrawn
  BY <1>1, <1>3, NoRequestIs, ThreadTypes DEF NamesAreDrawn, Loaded, SigningIn
<1>6. Undivided
  BY <1>3, NoRequestIs DEF Undivided, OneSignsIn, SigningIn, At
<1> QED
  BY <1>2, <1>4, <1>5, <1>6 DEF SignInInv

LEMMA NextSignIn == SignInInv /\ [Next]_vars => SignInInv'
<1> SUFFICES ASSUME SignInInv, [Next]_vars PROVE SignInInv'
  OBVIOUS
<1>1. CASE \/ SetupStep \/ Payment \/ FlushAgain \/ ReportAccepted \/ ReportRefused \/ Start
           \/ UNCHANGED vars
  <2>1. UNCHANGED <<gate, licence, signIns, req>>
    BY <1>1 DEF SetupStep, Payment, FlushAgain, ReportAccepted, ReportRefused, Start, vars
  <2> QED
    BY <2>1, SignInUnmoved
<1>2. ASSUME NEW f \in Requests,
             (\E kind \in Kinds : Begin(f, kind)) \/ Abort(f)
               \/ \E agrees \in BOOLEAN : AnswerDiagnostics(f, agrees) \/ AnswerConnect(f, agrees)
      PROVE  SignInInv'
  BY <1>2, BeginSigns, AbortKeeps, AnswerDiagnosticsSigns, AnswerConnectKeeps
<1>3. ASSUME NEW f \in Requests, Proceeds(f) \/ \E agrees \in BOOLEAN : AnswerBuy(f, agrees)
      PROVE  SignInInv'
  BY <1>3, SignInStartsKeeps, StatusReadKeeps, TokenDeliveredKeeps, PollTakenKeeps,
     RequestsElsewhere DEF Proceeds
<1>4. CASE BrowserActs
  <2>1. CASE \/ \E e \in tabs, approved \in BOOLEAN : Gateway!CallbackRead(1, e, approved)
             \/ Gateway!Identify(1, User) \/ Gateway!IdentifyFails(1) \/ Gateway!CheckBan(1)
    <3>1. UNCHANGED <<enrollment, licences, poll>>
      BY <2>1 DEF Gateway!CallbackRead, Gateway!Identify, Gateway!IdentifyFails, Gateway!CheckBan
    <3>2. callback[1].pc # "denying" /\ callback[1].pc # "issuing"
      BY <2>1 DEF Gateway!CallbackRead, Gateway!Identify, Gateway!IdentifyFails,
                  Gateway!CheckBan, Gateway!At
    <3>3. UNCHANGED <<licence, signIns, req>>
      BY <1>4, <3>2 DEF BrowserActs, signIns, Gateway!Deny, Gateway!Issue, Gateway!At
    <3> QED
      BY <2>1, <3>1, <3>3, CallbackGoesOn
  <2>2. CASE (Gateway!Deny(1) \/ Gateway!Issue(1)) /\ tabs' = tabs \ {callback[1].enrollment}
    BY <1>4, <2>2, DenyKeeps, IssueKeeps DEF BrowserActs
  <2> QED
    BY <1>4, <2>1, <2>2 DEF BrowserActs
<1>5. ASSUME NEW e \in Enrollments, EnrollmentExpires(e) PROVE SignInInv'
  BY <1>5, ExpiryKeeps
<1>6. CASE GatewayRestarts
  BY <1>6, GatewayRestartsKeeps
<1>7. CASE Stop
  BY <1>7, StopAborts
<1> QED
  BY <1>1, <1>2, <1>3, <1>4, <1>5, <1>6, <1>7 DEF Next

\* A saved licence is one that the gateway accepts, unless two sign-ins, or
\* their pages, have been open at once: whatever answers are lost, whichever
\* requests are aborted, and whatever expires or restarts in the middle.
THEOREM SavedLicenceWorks == Spec => []LicenceWorks
<1>1. SignInInv => LicenceWorks
  BY DEF SignInInv, Undivided, Lasts, LicenceWorks
<1> QED
  BY <1>1, InitSignIn, NextSignIn, PTL DEF Spec

=============================================================================
