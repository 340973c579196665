------------------------------- MODULE GpuProof -------------------------------
(***************************************************************************)
(* Theorems of the two GPUs: SharedGpu, the one of the user's PC, and      *)
(* DedicatedGpu, the gateway's, for any workers and clients.               *)
(***************************************************************************)
EXTENDS SharedGpu, DedicatedGpu, SequenceTheorems, FiniteSetTheorems, TLAPS

(***************************************************************************)
(* The shared GPU: each loaded model is in one hand, and a job runs the    *)
(* model it asked for, for any workers, models and room in VRAM.           *)
(*                                                                         *)
(* The queue does not enter: a provider is handed from one place to        *)
(* another inside critical sections of one lock, and the place a worker    *)
(* has reached says which hand of its own is empty.  That, and that no two *)
(* hands hold the same provider, is the inductive invariant.               *)
(***************************************************************************)

\* A provider is held by a job only from its hand-out to the end of its run.
JobPlace == {"running", "finished", "keeping", "unloading"}

\* A worker has detached a provider only until it has unloaded it.
DropPlace == {"discarding", "replacing", "evicting"}

MaybeProvider == Provider \cup {NoProvider}

ProviderTypes ==
    /\ pc \in [Worker -> Place]
    /\ using \in [Discord -> MaybeProvider]
    /\ dropping \in [Discord -> MaybeProvider]
    /\ Loaded \subseteq Provider
    /\ runs \in [Loaded -> Model]
    /\ warm \in MaybeProvider
    /\ evicting \in MaybeProvider

\* Hands that are full belong to workers that are where hands are full.
HandsByPlace ==
    /\ \A d \in Discord : using[d] # NoProvider => pc[d] \in JobPlace
    /\ \A d \in Discord : dropping[d] # NoProvider => pc[d] \in DropPlace
    /\ evicting # NoProvider => watcher = "unloading"

\* No two hands hold the same provider.
Apart ==
    /\ \A d, e \in Discord : d # e /\ using[d] # NoProvider => using[d] # using[e]
    /\ \A d, e \in Discord : d # e /\ dropping[d] # NoProvider => dropping[d] # dropping[e]
    /\ \A d, e \in Discord : using[d] # NoProvider => using[d] # dropping[e]
    /\ \A d \in Discord : using[d] # NoProvider => using[d] # warm /\ using[d] # evicting
    /\ \A d \in Discord : dropping[d] # NoProvider => dropping[d] # warm /\ dropping[d] # evicting
    /\ warm # NoProvider => warm # evicting

Held(p) ==
    \/ \E d \in Discord : using[d] = p
    \/ \E d \in Discord : dropping[d] = p
    \/ warm = p
    \/ evicting = p

\* What is in VRAM is held, and what is held is in VRAM.
HeldIsLoaded == \A p \in Provider : p \in Loaded <=> Held(p)

IInv == ProviderTypes /\ HandsByPlace /\ Apart /\ HeldIsLoaded /\ RunsWhatItWants

-----------------------------------------------------------------------------
LEMMA OneHandFollows == ProviderTypes /\ Apart /\ HeldIsLoaded => OneHand
<1> SUFFICES ASSUME ProviderTypes, Apart, HeldIsLoaded, NEW p \in Provider
             PROVE  Cardinality(Holders(p)) = (IF p \in Loaded THEN 1 ELSE 0)
  BY DEF OneHand
<1>1. p # NoProvider
  BY ProvidersAreReal
<1>2. CASE p \notin Loaded
  <2>1. Holders(p) = {}
    BY <1>2 DEF HeldIsLoaded, Held, Holders
  <2> QED
    BY <1>2, <2>1, FS_EmptySet
<1>3. CASE p \in Loaded
  <2>1. \E h : Holders(p) = {h}
    <3>1. CASE \E d \in Discord : using[d] = p
      <4>1. PICK d \in Discord : using[d] = p
        BY <3>1
      <4>2. /\ {e \in Discord : using[e] = p} = {d} /\ {e \in Discord : dropping[e] = p} = {}
            /\ warm # p /\ evicting # p
        BY <1>1, <4>1 DEF Apart
      <4>3. Holders(p) = {<<"job", d>>}
        BY <4>2 DEF Holders
      <4> QED
        BY <4>3
    <3>2. CASE \E d \in Discord : dropping[d] = p
      <4>1. PICK d \in Discord : dropping[d] = p
        BY <3>2
      <4>2. /\ {e \in Discord : using[e] = p} = {} /\ {e \in Discord : dropping[e] = p} = {d}
            /\ warm # p /\ evicting # p
        BY <1>1, <4>1 DEF Apart
      <4>3. Holders(p) = {<<"drop", d>>}
        BY <4>2 DEF Holders
      <4> QED
        BY <4>3
    <3>3. CASE warm = p
      <4>1. /\ {e \in Discord : using[e] = p} = {} /\ {e \in Discord : dropping[e] = p} = {}
            /\ evicting # p
        BY <1>1, <3>3 DEF Apart
      <4>2. Holders(p) = {<<"warm">>}
        BY <3>3, <4>1 DEF Holders
      <4> QED
        BY <4>2
    <3>4. CASE evicting = p
      <4>1. /\ {e \in Discord : using[e] = p} = {} /\ {e \in Discord : dropping[e] = p} = {}
            /\ warm # p
        BY <1>1, <3>4 DEF Apart
      <4>2. Holders(p) = {<<"watcher">>}
        BY <3>4, <4>1 DEF Holders
      <4> QED
        BY <4>2
    <3> QED
      BY <1>3, <3>1, <3>2, <3>3, <3>4 DEF HeldIsLoaded, Held
  <2> QED
    BY <1>3, <2>1, FS_Singleton
<1> QED
  BY <1>2, <1>3

LEMMA InitInv == Init => IInv
<1> SUFFICES ASSUME Init PROVE IInv
  OBVIOUS
<1>1. Loaded = {} /\ runs \in [Loaded -> Model]
  BY DEF Init, Loaded
<1>2. ProviderTypes
  BY <1>1 DEF Init, ProviderTypes, MaybeProvider, Place
<1>3. HandsByPlace /\ Apart /\ RunsWhatItWants
  BY DEF Init, HandsByPlace, Apart, RunsWhatItWants
<1>4. HeldIsLoaded
  BY <1>1, ProvidersAreReal DEF Init, HeldIsLoaded, Held
<1> QED
  BY <1>2, <1>3, <1>4 DEF IInv

-----------------------------------------------------------------------------
(***************************************************************************)
(* Steps that hand nothing over                                            *)
(***************************************************************************)

LEMMA NothingHandedOver ==
    ASSUME IInv, UNCHANGED <<using, dropping, runs, warm, evicting>>,
           pc' \in [Worker -> Place],
           \A d \in Discord : /\ pc[d] \in JobPlace => pc'[d] \in JobPlace
                              /\ pc[d] \in DropPlace => pc'[d] \in DropPlace,
           evicting # NoProvider => watcher' = watcher
    PROVE  IInv'
<1>1. Loaded' = Loaded
  BY DEF Loaded
<1>2. ProviderTypes' /\ HeldIsLoaded' /\ Apart' /\ RunsWhatItWants'
  BY <1>1 DEF IInv, ProviderTypes, HeldIsLoaded, Held, Apart, RunsWhatItWants
<1>3. HandsByPlace'
  BY DEF IInv, HandsByPlace
<1> QED
  BY <1>2, <1>3 DEF IInv

LEMMA Moves ==
    ASSUME ProviderTypes, NEW w \in Worker, NEW from, NEW to \in Place, Goto(w, from, to)
    PROVE  /\ pc[w] = from /\ pc'[w] = to
           /\ pc' \in [Worker -> Place]
           /\ \A v \in Worker : v # w => pc'[v] = pc[v]
BY DEF Goto, ProviderTypes

LEMMA MoveKeeps ==
    ASSUME IInv, NEW w \in Worker, NEW from, NEW to \in Place, Goto(w, from, to),
           from \in JobPlace => to \in JobPlace, from \notin DropPlace,
           UNCHANGED <<modelVars, warm, evicting, watcher>>
    PROVE  IInv'
<1>1. /\ pc[w] = from /\ pc'[w] = to
      /\ pc' \in [Worker -> Place]
      /\ \A v \in Worker : v # w => pc'[v] = pc[v]
  BY Moves DEF IInv
<1>2. \A d \in Discord : /\ pc[d] \in JobPlace => pc'[d] \in JobPlace
                         /\ pc[d] \in DropPlace => pc'[d] \in DropPlace
  BY <1>1 DEF Worker
<1> QED
  BY <1>1, <1>2, NothingHandedOver DEF modelVars

LEMMA QueueKeeps ==
    ASSUME IInv, NEW w \in Worker,
           \/ Draw(w) \/ Post(w) \/ TryLock(w) \/ Unlock(w) \/ RemoveTicket(w)
           \/ Generate(w) \/ HandoffFails(w) \/ Finish(w) \/ Fail(w) \/ RetainLook(w)
           \/ CancelWaiting(w) \/ CancelElsewhere(w)
    PROVE  IInv'
<1>1. UNCHANGED <<modelVars, warm, evicting, watcher>>
  BY DEF Draw, Post, TryLock, Unlock, RemoveTicket, Generate, HandoffFails, Finish, Fail,
         RetainLook, CancelWaiting, CancelElsewhere, warmVars
<1>2. CASE \E from \in Place \ (JobPlace \cup DropPlace), to \in Place : Goto(w, from, to)
  BY <1>1, <1>2, MoveKeeps
<1>3. CASE \E from \in JobPlace, to \in JobPlace : Goto(w, from, to)
  <2>1. PICK from \in JobPlace, to \in JobPlace : Goto(w, from, to)
    BY <1>3
  <2>2. from \notin DropPlace /\ to \in Place
    BY DEF JobPlace, DropPlace, Place
  <2> QED
    BY <1>1, <2>1, <2>2, MoveKeeps
<1>4. CASE Draw(w) \/ Post(w) \/ TryLock(w) \/ Unlock(w) \/ Generate(w) \/ HandoffFails(w)
  BY <1>2, <1>4
     DEF Draw, Post, TryLock, Unlock, Generate, HandoffFails, Place, JobPlace, DropPlace
<1>5. CASE RemoveTicket(w) \/ CancelWaiting(w) \/ CancelElsewhere(w)
  BY <1>2, <1>5 DEF RemoveTicket, CancelWaiting, CancelElsewhere, Place, JobPlace, DropPlace
<1>6. CASE Finish(w) \/ Fail(w) \/ RetainLook(w)
  BY <1>3, <1>6 DEF Finish, Fail, RetainLook, JobPlace
<1> QED
  BY <1>4, <1>5, <1>6

LEMMA LookKeeps ==
    ASSUME IInv, NEW w \in Worker, Look(w)
    PROVE  IInv'
<1>1. /\ UNCHANGED <<using, dropping, runs, warm, evicting, watcher>>
      /\ pc' \in [Worker -> Place]
  BY DEF Look, modelVars, warmVars, IInv, ProviderTypes, Place
<1>2. \A d \in Discord : pc'[d] = pc[d] \/ pc[d] \in {"crashed", "waiting"}
  BY DEF Look, Worker
<1> QED
  BY <1>1, <1>2, NothingHandedOver DEF JobPlace, DropPlace

LEMMA CrashKeeps ==
    ASSUME IInv, NEW o \in Other, Crash(o)
    PROVE  IInv'
<1>1. /\ UNCHANGED <<using, dropping, runs, warm, evicting, watcher>>
      /\ pc' \in [Worker -> Place]
  BY DEF Crash, modelVars, warmVars, IInv, ProviderTypes, Place, Worker
<1>2. \A d \in Discord : pc'[d] = pc[d]
  BY WorkersAreApart DEF Crash, Worker, IInv, ProviderTypes
<1> QED
  BY <1>1, <1>2, NothingHandedOver

LEMMA WatcherTurns ==
    ASSUME IInv, WarmTimeout \/ WatchNothing \/ WatchEnds
    PROVE  IInv'
<1>1. /\ UNCHANGED <<pc, using, dropping, runs, warm, evicting>>
      /\ watcher' = watcher \/ watcher # "unloading"
  BY DEF WarmTimeout, WatchNothing, WatchEnds, modelVars
<1>2. evicting # NoProvider => watcher' = watcher
  BY <1>1 DEF IInv, HandsByPlace
<1> QED
  BY <1>1, <1>2, NothingHandedOver DEF IInv, ProviderTypes

-----------------------------------------------------------------------------
(***************************************************************************)
(* Steps that hand a provider over                                         *)
(***************************************************************************)

LEMMA StopsOnly ==
    ASSUME ProviderTypes, NEW p, runs' = Stopped({p})
    PROVE  /\ Loaded' = Loaded \ {p}
           /\ runs' \in [Loaded' -> Model]
           /\ \A q \in Loaded' : runs'[q] = runs[q]
BY DEF ProviderTypes, Stopped, Restrict, Loaded

LEMMA CheckoutKeeps ==
    ASSUME IInv, NEW d \in Discord, Checkout(d)
    PROVE  IInv'
<1>1. /\ pc[d] = "owner" /\ pc' \in [Worker -> Place]
      /\ \A e \in Discord : e # d => pc'[e] = pc[e]
      /\ UNCHANGED <<runs, watcher, evicting>> /\ warm' = NoProvider /\ d \in Worker
  BY DEF Checkout, Goto, IInv, ProviderTypes, Place, Worker
<1>2. using[d] = NoProvider /\ dropping[d] = NoProvider
  BY <1>1 DEF IInv, HandsByPlace, JobPlace, DropPlace
<1>3. Loaded' = Loaded
  BY <1>1 DEF Loaded
<1>4. \/ /\ warm = NoProvider /\ UNCHANGED <<using, dropping>>
      \/ /\ warm # NoProvider /\ runs[warm] = Wants[d] /\ pc'[d] = "running"
         /\ using' = [using EXCEPT ![d] = warm] /\ UNCHANGED dropping
      \/ /\ warm # NoProvider /\ pc'[d] = "discarding"
         /\ dropping' = [dropping EXCEPT ![d] = warm] /\ UNCHANGED using
  BY <1>1 DEF Checkout, Goto, IInv, ProviderTypes
<1>5. ProviderTypes'
  BY <1>1, <1>3, <1>4 DEF IInv, ProviderTypes, MaybeProvider
<1>6. HandsByPlace'
  BY <1>1, <1>2, <1>4 DEF IInv, ProviderTypes, HandsByPlace, JobPlace, DropPlace
<1>7. Apart'
  BY <1>1, <1>2, <1>4 DEF IInv, ProviderTypes, Apart
<1>8. HeldIsLoaded'
  BY <1>1, <1>2, <1>3, <1>4, ProvidersAreReal DEF IInv, ProviderTypes, HeldIsLoaded, Held
<1>9. RunsWhatItWants'
  BY <1>1, <1>4 DEF IInv, ProviderTypes, RunsWhatItWants
<1> QED
  BY <1>5, <1>6, <1>7, <1>8, <1>9 DEF IInv

LEMMA DropKeeps ==
    ASSUME IInv, NEW d \in Discord, NEW from \in DropPlace, NEW to \in Place,
           Drop(d, from, to)
    PROVE  IInv'
<1>1. /\ pc[d] \in DropPlace /\ pc' \in [Worker -> Place]
      /\ \A e \in Discord : e # d => pc'[e] = pc[e]
      /\ runs' = Stopped({dropping[d]})
      /\ dropping' = [dropping EXCEPT ![d] = NoProvider]
      /\ UNCHANGED <<using, warm, watcher, evicting>> /\ d \in Worker
  BY DEF Drop, Goto, IInv, ProviderTypes, Worker, warmVars
<1>2. using[d] = NoProvider
  BY <1>1 DEF IInv, HandsByPlace, JobPlace, DropPlace
<1>3. /\ Loaded' = Loaded \ {dropping[d]} /\ runs' \in [Loaded' -> Model]
      /\ \A q \in Loaded' : runs'[q] = runs[q]
  BY <1>1, StopsOnly DEF IInv
<1>4. ProviderTypes'
  BY <1>1, <1>3 DEF IInv, ProviderTypes, MaybeProvider
<1>5. HandsByPlace'
  BY <1>1, <1>2 DEF IInv, ProviderTypes, HandsByPlace
<1>6. Apart'
  BY <1>1 DEF IInv, ProviderTypes, Apart
<1>7. HeldIsLoaded'
  BY <1>1, <1>3, ProvidersAreReal DEF IInv, ProviderTypes, HeldIsLoaded, Held, Apart
<1>8. RunsWhatItWants'
  <2> SUFFICES ASSUME NEW e \in Discord, using[e] # NoProvider
               PROVE  runs'[using[e]] = Wants[e]
    BY <1>1 DEF RunsWhatItWants
  <2>1. using[e] \in Loaded /\ using[e] # dropping[d]
    BY DEF IInv, ProviderTypes, MaybeProvider, HeldIsLoaded, Held, Apart
  <2> QED
    BY <1>3, <2>1 DEF IInv, RunsWhatItWants
<1> QED
  BY <1>4, <1>5, <1>6, <1>7, <1>8 DEF IInv

LEMMA UnloadKeeps ==
    ASSUME IInv, NEW d \in Discord, Unload(d)
    PROVE  IInv'
<1>1. /\ pc[d] = "unloading" /\ pc' \in [Worker -> Place]
      /\ \A e \in Discord : e # d => pc'[e] = pc[e]
      /\ runs' = Stopped({using[d]})
      /\ using' = [using EXCEPT ![d] = NoProvider]
      /\ UNCHANGED <<dropping, warm, watcher, evicting>> /\ d \in Worker
  BY DEF Unload, Goto, IInv, ProviderTypes, Place, Worker, warmVars
<1>2. dropping[d] = NoProvider
  BY <1>1 DEF IInv, HandsByPlace, DropPlace
<1>3. /\ Loaded' = Loaded \ {using[d]} /\ runs' \in [Loaded' -> Model]
      /\ \A q \in Loaded' : runs'[q] = runs[q]
  BY <1>1, StopsOnly DEF IInv
<1>4. ProviderTypes'
  BY <1>1, <1>3 DEF IInv, ProviderTypes, MaybeProvider
<1>5. HandsByPlace'
  BY <1>1, <1>2 DEF IInv, ProviderTypes, HandsByPlace
<1>6. Apart'
  BY <1>1 DEF IInv, ProviderTypes, Apart
<1>7. HeldIsLoaded'
  BY <1>1, <1>3, ProvidersAreReal DEF IInv, ProviderTypes, HeldIsLoaded, Held, Apart
<1>8. RunsWhatItWants'
  <2> SUFFICES ASSUME NEW e \in Discord, using'[e] # NoProvider
               PROVE  runs'[using'[e]] = Wants[e]
    BY DEF RunsWhatItWants
  <2>1. e # d /\ using'[e] = using[e]
    BY <1>1 DEF IInv, ProviderTypes
  <2>2. using[e] \in Loaded /\ using[e] # using[d]
    BY <2>1 DEF IInv, ProviderTypes, MaybeProvider, HeldIsLoaded, Held, Apart
  <2> QED
    BY <1>3, <2>1, <2>2 DEF IInv, RunsWhatItWants
<1> QED
  BY <1>4, <1>5, <1>6, <1>7, <1>8 DEF IInv

LEMMA LoadKeeps ==
    ASSUME IInv, NEW d \in Discord, Load(d)
    PROVE  IInv'
<1> DEFINE p == CHOOSE q \in Provider : q \notin Loaded
<1>1. /\ pc[d] = "handoff" /\ pc' = [pc EXCEPT ![d] = "running"]
      /\ Cardinality(Loaded) < Room
      /\ runs' = [q \in Loaded \cup {p} |-> IF q = p THEN Wants[d] ELSE runs[q]]
      /\ using' = [using EXCEPT ![d] = p]
      /\ UNCHANGED <<dropping, warm, watcher, evicting>>
  BY DEF Load, Goto, warmVars
<1>2. p \in Provider /\ p \notin Loaded
  <2>1. Loaded \subseteq Provider /\ IsFiniteSet(Loaded)
    BY ProvidersSuffice, FS_Subset DEF IInv, ProviderTypes
  <2>2. Loaded # Provider
    BY <1>1, <2>1, ProvidersSuffice, RoomIsPositive, FS_CardinalityType
  <2> QED
    BY <2>1, <2>2
<1> HIDE DEF p
<1>3. p # NoProvider /\ ~Held(p)
  BY <1>2, ProvidersAreReal DEF IInv, HeldIsLoaded
<1>4. using[d] = NoProvider /\ dropping[d] = NoProvider /\ d \in Worker
  BY <1>1 DEF IInv, HandsByPlace, JobPlace, DropPlace, Worker
<1>5. Loaded' = Loaded \cup {p} /\ runs'[p] = Wants[d] /\ \A q \in Loaded : runs'[q] = runs[q]
  BY <1>1, <1>2 DEF Loaded
<1>6. ProviderTypes'
  BY <1>1, <1>2, <1>5, WantsAreModels DEF IInv, ProviderTypes, MaybeProvider, Place
<1>7. HandsByPlace'
  BY <1>1, <1>4 DEF IInv, ProviderTypes, HandsByPlace, JobPlace
<1>8. Apart'
  BY <1>1, <1>3, <1>4 DEF IInv, ProviderTypes, Apart, Held
<1>9. HeldIsLoaded'
  BY <1>1, <1>3, <1>4, <1>5, ProvidersAreReal DEF IInv, ProviderTypes, HeldIsLoaded, Held
<1>10. RunsWhatItWants'
  <2> SUFFICES ASSUME NEW e \in Discord, using'[e] # NoProvider
               PROVE  runs'[using'[e]] = Wants[e]
    BY DEF RunsWhatItWants
  <2>1. CASE e = d
    BY <1>1, <1>5, <2>1 DEF IInv, ProviderTypes
  <2>2. CASE e # d
    <3>1. using'[e] = using[e]
      BY <1>1, <2>2 DEF IInv, ProviderTypes
    <3>2. using[e] \in Loaded
      BY <3>1 DEF IInv, ProviderTypes, MaybeProvider, HeldIsLoaded, Held
    <3> QED
      BY <1>5, <3>1, <3>2 DEF IInv, RunsWhatItWants
  <2> QED
    BY <2>1, <2>2
<1> QED
  BY <1>6, <1>7, <1>8, <1>9, <1>10 DEF IInv

LEMMA RetainKeeps ==
    ASSUME IInv, NEW d \in Discord, Retain(d)
    PROVE  IInv'
<1>1. /\ pc[d] = "keeping" /\ d \in Worker /\ pc' \in [Worker -> Place]
      /\ pc'[d] = (IF warm = NoProvider THEN "leaving" ELSE "replacing")
      /\ \A e \in Discord : e # d => pc'[e] = pc[e]
      /\ dropping' = [dropping EXCEPT ![d] = warm]
      /\ warm' = using[d]
      /\ using' = [using EXCEPT ![d] = NoProvider]
      /\ UNCHANGED <<runs, evicting>>
  BY DEF Retain, Goto, IInv, ProviderTypes, Place, Worker
<1>2. dropping[d] = NoProvider
  BY <1>1 DEF IInv, HandsByPlace, DropPlace
<1>3. evicting # NoProvider => watcher' = watcher
  BY DEF Retain, IInv, HandsByPlace
<1>4. Loaded' = Loaded
  BY <1>1 DEF Loaded
<1>5. ProviderTypes'
  BY <1>1, <1>4 DEF IInv, ProviderTypes, MaybeProvider
<1>6. HandsByPlace'
  BY <1>1, <1>3 DEF IInv, ProviderTypes, HandsByPlace, DropPlace
<1>7. Apart'
  BY <1>1, <1>2 DEF IInv, ProviderTypes, Apart
<1>8. HeldIsLoaded'
  BY <1>1, <1>2, <1>4, ProvidersAreReal DEF IInv, ProviderTypes, HeldIsLoaded, Held
<1>9. RunsWhatItWants'
  BY <1>1 DEF IInv, ProviderTypes, RunsWhatItWants
<1> QED
  BY <1>5, <1>6, <1>7, <1>8, <1>9 DEF IInv

LEMMA EvictKeeps ==
    ASSUME IInv, NEW d \in Discord, Evict(d)
    PROVE  IInv'
<1>1. /\ pc[d] = "cancelling" /\ d \in Worker /\ pc' \in [Worker -> Place]
      /\ pc'[d] = (IF warm = NoProvider THEN "idle" ELSE "evicting")
      /\ \A e \in Discord : e # d => pc'[e] = pc[e]
      /\ dropping' = [dropping EXCEPT ![d] = warm]
      /\ warm' = NoProvider
      /\ UNCHANGED <<using, runs, watcher, evicting>>
  BY DEF Evict, Goto, IInv, ProviderTypes, Place, Worker
<1>2. using[d] = NoProvider /\ dropping[d] = NoProvider
  BY <1>1 DEF IInv, HandsByPlace, JobPlace, DropPlace
<1>3. Loaded' = Loaded
  BY <1>1 DEF Loaded
<1>4. ProviderTypes'
  BY <1>1, <1>3 DEF IInv, ProviderTypes, MaybeProvider
<1>5. HandsByPlace'
  BY <1>1, <1>2 DEF IInv, ProviderTypes, HandsByPlace, DropPlace
<1>6. Apart'
  BY <1>1, <1>2 DEF IInv, ProviderTypes, Apart
<1>7. HeldIsLoaded'
  BY <1>1, <1>2, <1>3, ProvidersAreReal DEF IInv, ProviderTypes, HeldIsLoaded, Held
<1>8. RunsWhatItWants'
  BY <1>1 DEF IInv, RunsWhatItWants
<1> QED
  BY <1>4, <1>5, <1>6, <1>7, <1>8 DEF IInv

LEMMA DetachKeeps ==
    ASSUME IInv, WatchDetach
    PROVE  IInv'
<1>1. /\ watcher = "watching" /\ watcher' = "unloading"
      /\ evicting' = warm /\ warm' = NoProvider
      /\ UNCHANGED <<pc, using, dropping, runs>>
  BY DEF WatchDetach, modelVars
<1>2. evicting = NoProvider
  BY <1>1 DEF IInv, HandsByPlace
<1>3. Loaded' = Loaded
  BY <1>1 DEF Loaded
<1>4. ProviderTypes' /\ HandsByPlace' /\ RunsWhatItWants'
  BY <1>1, <1>3 DEF IInv, ProviderTypes, MaybeProvider, HandsByPlace, RunsWhatItWants
<1>5. Apart'
  BY <1>1, <1>2 DEF IInv, Apart
<1>6. HeldIsLoaded'
  BY <1>1, <1>2, <1>3, ProvidersAreReal DEF IInv, HeldIsLoaded, Held
<1> QED
  BY <1>4, <1>5, <1>6 DEF IInv

LEMMA WatchUnloadKeeps ==
    ASSUME IInv, WatchUnload
    PROVE  IInv'
<1>1. /\ runs' = Stopped({evicting}) /\ evicting' = NoProvider
      /\ UNCHANGED <<pc, using, dropping, warm>>
  BY DEF WatchUnload
<1>2. /\ Loaded' = Loaded \ {evicting} /\ runs' \in [Loaded' -> Model]
      /\ \A q \in Loaded' : runs'[q] = runs[q]
  BY <1>1, StopsOnly DEF IInv
<1>3. ProviderTypes'
  BY <1>1, <1>2 DEF IInv, ProviderTypes, MaybeProvider
<1>4. HandsByPlace' /\ Apart'
  BY <1>1 DEF IInv, HandsByPlace, Apart
<1>5. HeldIsLoaded'
  BY <1>1, <1>2, ProvidersAreReal DEF IInv, HeldIsLoaded, Held, Apart
<1>6. RunsWhatItWants'
  <2> SUFFICES ASSUME NEW e \in Discord, using[e] # NoProvider
               PROVE  runs'[using[e]] = Wants[e]
    BY <1>1 DEF RunsWhatItWants
  <2>1. using[e] \in Loaded /\ using[e] # evicting
    BY DEF IInv, ProviderTypes, MaybeProvider, HeldIsLoaded, Held, Apart
  <2> QED
    BY <1>2, <2>1 DEF IInv, RunsWhatItWants
<1> QED
  BY <1>3, <1>4, <1>5, <1>6 DEF IInv

-----------------------------------------------------------------------------
LEMMA ProceedKeeps ==
    ASSUME IInv, NEW w \in Worker, Proceed(w)
    PROVE  IInv'
<1>1. CASE \/ Post(w) \/ TryLock(w) \/ Unlock(w) \/ RemoveTicket(w)
           \/ Generate(w) \/ HandoffFails(w) \/ Finish(w) \/ Fail(w) \/ RetainLook(w)
  BY <1>1, QueueKeeps
<1>2. CASE Look(w)
  BY <1>2, LookKeeps
<1>3. CASE Checkout(w)
  BY <1>3, CheckoutKeeps DEF Checkout
<1>4. CASE Discard(w) \/ DropReplaced(w) \/ DropEvicted(w)
  <2>1. \E from \in DropPlace, to \in Place : Drop(w, from, to)
    BY <1>4 DEF Discard, DropReplaced, DropEvicted, DropPlace, Place
  <2>2. w \in Discord
    BY <2>1 DEF Drop
  <2> QED
    BY <2>1, <2>2, DropKeeps
<1>5. CASE Load(w)
  BY <1>5, LoadKeeps DEF Load
<1>6. CASE Retain(w)
  BY <1>6, RetainKeeps DEF Retain
<1>7. CASE Unload(w)
  BY <1>7, UnloadKeeps DEF Unload
<1>8. CASE Evict(w)
  BY <1>8, EvictKeeps DEF Evict
<1> QED
  BY <1>1, <1>2, <1>3, <1>4, <1>5, <1>6, <1>7, <1>8 DEF Proceed

LEMMA NextInv == IInv /\ [Next]_vars => IInv'
<1> SUFFICES ASSUME IInv, [Next]_vars PROVE IInv'
  OBVIOUS
<1>1. ASSUME NEW w \in Worker, Draw(w) \/ Proceed(w) PROVE IInv'
  BY <1>1, QueueKeeps, ProceedKeeps
<1>2. ASSUME NEW o \in Other, Crash(o) PROVE IInv'
  BY <1>2, CrashKeeps
<1>3. ASSUME NEW d \in Discord, CancelWaiting(d) \/ CancelElsewhere(d) PROVE IInv'
  <2>1. d \in Worker
    BY DEF Worker
  <2> QED
    BY <1>3, <2>1, QueueKeeps
<1>4. CASE WarmTimeout \/ Watch
  BY <1>4, WatcherTurns, DetachKeeps, WatchUnloadKeeps DEF Watch
<1>5. CASE UNCHANGED vars
  BY <1>5, NothingHandedOver DEF vars, modelVars, warmVars, IInv, ProviderTypes
<1> QED
  BY <1>1, <1>2, <1>3, <1>4, <1>5 DEF Next

LEMMA Inductive == Spec => []IInv
BY InitInv, NextInv, PTL DEF Spec

-----------------------------------------------------------------------------
\* Every provider in VRAM is in exactly one hand, and no other is in any: none is
\* unloaded under a job, twice, or never.
THEOREM OneHandEach == Spec => []OneHand
<1>1. IInv => OneHand
  BY OneHandFollows DEF IInv
<1> QED
  BY Inductive, <1>1, PTL

\* A job runs the model it asked for, warm or freshly loaded.
THEOREM RightModel == Spec => []RunsWhatItWants
<1>1. IInv => RunsWhatItWants
  BY DEF IInv
<1> QED
  BY Inductive, <1>1, PTL

-----------------------------------------------------------------------------
(***************************************************************************)
(* The dedicated GPU: its type invariant, and that the dedicated lock      *)
(* covers every request the worker has open, for any clients and however   *)
(* often streams are cancelled.                                            *)
(*                                                                         *)
(* Whoever is woken takes the lock, or enters its line, without a look at  *)
(* where it was: that it was not at the worker already follows from the    *)
(* two lines, whose members are distinct and all wait.  This is what the   *)
(* invariant adds.                                                         *)
(***************************************************************************)

\* Whoever stands in the line q is at the given place, and stands there once.
InLine(q, where, place) ==
    /\ \A i \in 1..Len(q) : where[q[i]] = place
    /\ \A i, j \in 1..Len(q) : q[i] = q[j] => i = j

GpuLine  == InLine(waiters, at, "waiting")
ChatLine == InLine(chatWaiters, at, "chatting")

LockInv == LockTypeOK /\ HeldByTheServed /\ GpuLine /\ ChatLine

-----------------------------------------------------------------------------
(***************************************************************************)
(* Lines                                                                   *)
(***************************************************************************)

\* A line stays as it is when somebody who is not in it moves.
LEMMA LineKept ==
    ASSUME NEW S, NEW q \in Seq(S), NEW f, NEW g, NEW place, NEW c, f[c] # place,
           \A d \in S : d # c => g[d] = f[d],
           InLine(q, f, place)
    PROVE  InLine(q, g, place)
<1>1. ASSUME NEW i \in 1..Len(q) PROVE g[q[i]] = place
  <2>1. q[i] \in S /\ f[q[i]] = place
    BY DEF InLine
  <2> QED
    BY <2>1
<1> QED
  BY <1>1 DEF InLine

\* The first in a line leaves it.
LEMMA LineShorter ==
    ASSUME NEW S, NEW q \in Seq(S), NEW f, NEW g, NEW place, q # <<>>,
           \A d \in S : d # Head(q) => g[d] = f[d],
           InLine(q, f, place)
    PROVE  /\ Head(q) \in S /\ f[Head(q)] = place
           /\ Tail(q) \in Seq(S) /\ InLine(Tail(q), g, place)
<1> DEFINE t == Tail(q)
<1>1. /\ Head(q) \in S /\ Head(q) = q[1]
      /\ t \in Seq(S) /\ Len(q) \in Nat \ {0}
      /\ Len(t) = Len(q) - 1
      /\ \A i \in 1..Len(t) : t[i] = q[i + 1]
  BY EmptySeq, HeadTailProperties, SMT
<1> HIDE DEF t
<1>2. 1 \in 1..Len(q)
  BY <1>1, SMT
<1>3. ASSUME NEW i \in 1..Len(t)
      PROVE  i + 1 \in 1..Len(q) /\ g[t[i]] = place
  <2>1. i + 1 \in 1..Len(q) /\ i + 1 # 1
    BY <1>1, SMT
  <2>2. t[i] = q[i + 1] /\ t[i] \in S
    BY <1>1, <2>1
  <2>3. t[i] # Head(q)
    BY <1>1, <1>2, <2>1, <2>2 DEF InLine
  <2>4. f[t[i]] = place
    BY <2>1, <2>2 DEF InLine
  <2> QED
    BY <2>1, <2>2, <2>3, <2>4
<1>4. ASSUME NEW i \in 1..Len(t), NEW j \in 1..Len(t), t[i] = t[j]
      PROVE  i = j
  <2>1. q[i + 1] = q[j + 1] /\ i + 1 \in 1..Len(q) /\ j + 1 \in 1..Len(q)
    BY <1>1, <1>3, <1>4
  <2>2. i + 1 = j + 1
    BY <2>1 DEF InLine
  <2> QED
    BY <2>2, SMT
<1> QED
  BY <1>1, <1>2, <1>3, <1>4 DEF InLine, t

\* Somebody who was elsewhere joins a line.
LEMMA LineLonger ==
    ASSUME NEW S, NEW q \in Seq(S), NEW f, NEW g, NEW place, NEW c \in S, f[c] # place,
           g[c] = place, \A d \in S : d # c => g[d] = f[d],
           InLine(q, f, place)
    PROVE  Append(q, c) \in Seq(S) /\ InLine(Append(q, c), g, place)
<1> DEFINE p == Append(q, c)
<1>1. /\ p \in Seq(S) /\ Len(q) \in Nat
      /\ Len(p) = Len(q) + 1
      /\ \A i \in 1..Len(q) : p[i] = q[i]
      /\ p[Len(q) + 1] = c
  BY AppendProperties
<1> HIDE DEF p
<1>2. ASSUME NEW i \in 1..Len(q)
      PROVE  q[i] # c /\ g[q[i]] = place
  <2>1. q[i] \in S /\ f[q[i]] = place
    BY DEF InLine
  <2> QED
    BY <2>1
<1>3. \A i \in 1..Len(p) : i \in 1..Len(q) \/ i = Len(q) + 1
  BY <1>1, SMT
<1>4. \A i \in 1..Len(p) : g[p[i]] = place
  BY <1>1, <1>2, <1>3
<1>5. \A i, j \in 1..Len(p) : p[i] = p[j] => i = j
  BY <1>1, <1>2, <1>3 DEF InLine
<1> QED
  BY <1>1, <1>4, <1>5 DEF InLine, p

-----------------------------------------------------------------------------
(***************************************************************************)
(* Entering, moving and leaving                                            *)
(***************************************************************************)

\* A caller that comes, or was woken with the chat lock, takes the lock or
\* stands in its line.
LEMMA EnterKeeps ==
    ASSUME LockInv, NEW c \in Caller, at[c] \in {"idle", "chatting"}, Enter(c)
    PROVE  /\ \A d \in Caller : d # c => at'[d] = at[d]
           /\ at' \in [Caller -> Stage]
           /\ holder' \in Caller \cup {NoCaller}
           /\ waiters' \in Seq(Caller)
           /\ depth' \in Nat
           /\ HeldByTheServed'
           /\ GpuLine'
<1>1. at \in [Caller -> Stage] /\ waiters \in Seq(Caller) /\ depth \in Nat
  BY DEF LockInv, LockTypeOK
<1>2. depth' \in Nat
  BY <1>1 DEF Enter
<1>3. CASE holder = NoCaller /\ holder' = c /\ at' = [at EXCEPT ![c] = Begun(c)]
           /\ UNCHANGED waiters
  <2>1. Begun(c) \in {"opening", "asking"}
    BY DEF Begun
  <2>2. \A d \in Caller : ~AtWorker(d) /\ at[d] # "abandoned"
    BY <1>3, CallersAreFinite DEF LockInv, HeldByTheServed
  <2>3. \A d \in Caller : d # c => at'[d] = at[d]
    BY <1>1, <1>3
  <2>4. HeldByTheServed'
    BY <1>1, <1>3, <2>1, <2>2 DEF HeldByTheServed, AtWorker
  <2>5. GpuLine'
    BY <1>1, <1>3, <2>3, LineKept DEF LockInv, GpuLine
  <2> QED
    BY <1>1, <1>2, <1>3, <2>1, <2>3, <2>4, <2>5 DEF Stage
<1>4. CASE waiters' = Append(waiters, c) /\ at' = [at EXCEPT ![c] = "waiting"]
           /\ UNCHANGED holder
  <2>1. \A d \in Caller : d # c => at'[d] = at[d]
    BY <1>1, <1>4
  <2>2. waiters' \in Seq(Caller) /\ GpuLine'
    BY <1>1, <1>4, <2>1, LineLonger DEF LockInv, GpuLine
  <2>3. holder # c
    BY DEF LockInv, HeldByTheServed, AtWorker
  <2>4. HeldByTheServed'
    BY <1>1, <1>4, <2>3 DEF LockInv, HeldByTheServed, AtWorker
  <2> QED
    BY <1>1, <1>2, <1>4, <2>1, <2>2, <2>4 DEF Stage, LockInv, LockTypeOK
<1> QED
  BY <1>3, <1>4 DEF Enter

\* Whoever is at the worker leaves: the lock is free and nobody else is there.
LEMMA LeaveKeeps ==
    ASSUME LockInv, NEW c \in Caller, AtWorker(c), Leave(c),
           UNCHANGED chatWaiters, chatHolder' \in {chatHolder, NoCaller}
    PROVE  LockInv'
<1>1. holder = c
  BY DEF LockInv, HeldByTheServed
<1>2. /\ at' = [at EXCEPT ![c] = "idle"] /\ at \in [Caller -> Stage]
      /\ holder' = NoCaller /\ UNCHANGED waiters
  BY DEF Leave, LockInv, LockTypeOK
<1>3. \A d \in Caller : d # c => at'[d] = at[d]
  BY <1>2
<1>4. depth' \in Nat
  <2>1. depth \in Nat
    BY DEF LockInv, LockTypeOK
  <2> QED
    BY <2>1, SMT DEF Leave, Corrected
<1>5. LockTypeOK'
  BY <1>2, <1>4 DEF Leave, LockInv, LockTypeOK, Stage
<1>6. HeldByTheServed'
  <2> SUFFICES ASSUME NEW d \in Caller
               PROVE  ~(AtWorker(d)') /\ at'[d] # "abandoned" /\ holder' # d
    BY DEF HeldByTheServed
  <2>1. holder' # d
    BY <1>2, CallersAreFinite
  <2>2. CASE d = c
    BY <1>2, <2>1, <2>2 DEF AtWorker
  <2>3. CASE d # c
    <3>1. ~AtWorker(d) /\ at[d] # "abandoned"
      BY <1>1, <2>3 DEF LockInv, HeldByTheServed
    <3> QED
      BY <1>3, <2>1, <2>3, <3>1 DEF AtWorker
  <2> QED
    BY <2>2, <2>3
<1>7. GpuLine' /\ ChatLine'
  <2>1. at[c] # "waiting" /\ at[c] # "chatting"
    BY DEF AtWorker
  <2>2. waiters \in Seq(Caller) /\ chatWaiters \in Seq(Caller)
    BY DEF LockInv, LockTypeOK, Caller
  <2> QED
    BY <1>2, <1>3, <2>1, <2>2, LineKept DEF LockInv, GpuLine, ChatLine
<1> QED
  BY <1>5, <1>6, <1>7 DEF LockInv

\* A stream moves on at the worker, and keeps the lock.
LEMMA StreamMoveKeeps ==
    ASSUME LockInv, NEW c \in Caller, NEW from, NEW to, Move(c, from, to),
           from \in {"opening", "reading", "sending", "document", "closing"},
           to \in {"reading", "sending", "document", "closing", "finalizing",
                   "failing", "abandoned"}
    PROVE  LockInv'
<1>1. /\ at' = [at EXCEPT ![c] = to] /\ at \in [Caller -> Stage] /\ at[c] = from
      /\ UNCHANGED <<gone, holder, waiters, chatHolder, chatWaiters, depth>>
  BY DEF Move, LockInv, LockTypeOK
<1>2. \A d \in Caller : d # c => at'[d] = at[d]
  BY <1>1
<1>3. LockTypeOK'
  BY <1>1 DEF LockInv, LockTypeOK, Stage
<1>4. HeldByTheServed'
  <2>1. AtWorker(c) /\ (AtWorker(c)' \/ at'[c] = "abandoned")
    BY <1>1 DEF AtWorker
  <2> QED
    BY <1>1, <1>2, <2>1 DEF LockInv, HeldByTheServed, AtWorker
<1>5. GpuLine' /\ ChatLine'
  <2>1. waiters \in Seq(Caller) /\ chatWaiters \in Seq(Caller)
    BY DEF LockInv, LockTypeOK, Caller
  <2> QED
    BY <1>1, <1>2, <2>1, LineKept DEF LockInv, GpuLine, ChatLine
<1> QED
  BY <1>3, <1>4, <1>5 DEF LockInv

-----------------------------------------------------------------------------
(***************************************************************************)
(* The steps                                                               *)
(***************************************************************************)

LEMMA LockInitInv == LockInit => LockInv
<1> SUFFICES ASSUME LockInit PROVE LockInv
  OBVIOUS
<1>1. LockTypeOK
  BY DEF LockInit, LockTypeOK, Stage
<1>2. HeldByTheServed
  BY CallersAreFinite DEF LockInit, HeldByTheServed, AtWorker
<1>3. GpuLine /\ ChatLine
  BY DEF LockInit, GpuLine, ChatLine, InLine
<1> QED
  BY <1>1, <1>2, <1>3 DEF LockInv

LEMMA RequestKeeps ==
    ASSUME LockInv, NEW c \in Caller, Request(c)
    PROVE  LockInv'
<1>1. at[c] = "idle" /\ Enter(c) /\ UNCHANGED <<gone, chatHolder, chatWaiters>>
  BY DEF Request
<1>2. chatWaiters \in Seq(Caller)
  BY DEF LockInv, LockTypeOK, Caller
<1>3. ChatLine'
  <2>1. \A d \in Caller : d # c => at'[d] = at[d]
    BY <1>1, EnterKeeps
  <2> QED
    BY <1>1, <1>2, <2>1, LineKept DEF LockInv, ChatLine
<1> QED
  BY <1>1, <1>3, EnterKeeps DEF LockInv, LockTypeOK

LEMMA ResumeKeeps ==
    ASSUME LockInv, NEW c \in Caller, Resume(c)
    PROVE  LockInv'
<1>1. /\ holder = NoCaller /\ waiters # <<>> /\ c = Head(waiters) /\ holder' = c
      /\ waiters' = Tail(waiters) /\ at' = [at EXCEPT ![c] = Begun(c)]
      /\ UNCHANGED <<gone, chatHolder, chatWaiters, depth>>
  BY DEF Resume
<1>2. /\ at \in [Caller -> Stage] /\ waiters \in Seq(Caller) /\ chatWaiters \in Seq(Caller)
      /\ GpuLine /\ ChatLine
  BY DEF LockInv, LockTypeOK, Caller
<1>3. Begun(c) \in {"opening", "asking"}
  BY DEF Begun
<1>4. \A d \in Caller : d # c => at'[d] = at[d]
  BY <1>1, <1>2
<1>5. at[c] = "waiting" /\ waiters' \in Seq(Caller) /\ GpuLine'
  <2>1. waiters \in Seq(Caller) /\ waiters # <<>> /\ InLine(waiters, at, "waiting")
    BY <1>1, <1>2 DEF GpuLine
  <2>2. \A d \in Caller : d # Head(waiters) => at'[d] = at[d]
    BY <1>1, <1>4
  <2>3. /\ at[Head(waiters)] = "waiting" /\ Tail(waiters) \in Seq(Caller)
        /\ InLine(Tail(waiters), at', "waiting")
    BY <2>1, <2>2, LineShorter
  <2> QED
    BY <1>1, <2>3 DEF GpuLine
<1>6. ChatLine'
  BY <1>1, <1>2, <1>4, <1>5, LineKept DEF ChatLine
<1>7. LockTypeOK'
  BY <1>1, <1>2, <1>3, <1>5 DEF LockInv, LockTypeOK, Stage
<1>8. HeldByTheServed'
  <2>1. \A d \in Caller : ~AtWorker(d) /\ at[d] # "abandoned"
    BY <1>1, CallersAreFinite DEF LockInv, HeldByTheServed
  <2> QED
    BY <1>1, <1>2, <1>3, <2>1 DEF HeldByTheServed, AtWorker
<1> QED
  BY <1>5, <1>6, <1>7, <1>8 DEF LockInv

LEMMA StartChatKeeps ==
    ASSUME LockInv, NEW c \in Caller, StartChat(c)
    PROVE  LockInv'
<1>1. c \in Chat /\ at[c] = "idle" /\ UNCHANGED gone
  BY DEF StartChat
<1>2. /\ at \in [Caller -> Stage] /\ waiters \in Seq(Caller)
      /\ chatWaiters \in Seq(Chat) /\ chatWaiters \in Seq(Caller)
      /\ GpuLine /\ ChatLine
  BY DEF LockInv, LockTypeOK, Caller
<1>3. CASE chatHolder' = c /\ Enter(c) /\ UNCHANGED chatWaiters
  <2>1. ChatLine'
    BY <1>1, <1>2, <1>3, EnterKeeps, LineKept DEF ChatLine
  <2> QED
    BY <1>1, <1>3, <2>1, EnterKeeps DEF LockInv, LockTypeOK
<1>4. CASE /\ chatWaiters' = Append(chatWaiters, c)
           /\ at' = [at EXCEPT ![c] = "chatting"]
           /\ UNCHANGED <<chatHolder, holder, waiters, depth>>
  <2>1. at'[c] = "chatting" /\ \A d \in Caller : d # c => at'[d] = at[d]
    BY <1>2, <1>4
  <2>2. chatWaiters' \in Seq(Chat)
    BY <1>1, <1>2, <1>4, AppendProperties
  <2>3. ChatLine'
    BY <1>1, <1>2, <1>4, <2>1, LineLonger DEF ChatLine
  <2>4. GpuLine'
    BY <1>1, <1>2, <1>4, <2>1, LineKept DEF GpuLine
  <2>5. LockTypeOK'
    BY <1>1, <1>2, <1>4, <2>2 DEF LockInv, LockTypeOK, Stage
  <2>6. HeldByTheServed'
    BY <1>1, <1>4, <2>1 DEF LockInv, HeldByTheServed, AtWorker
  <2> QED
    BY <2>3, <2>4, <2>5, <2>6 DEF LockInv
<1> QED
  BY <1>3, <1>4 DEF StartChat

LEMMA ResumeChatKeeps ==
    ASSUME LockInv, NEW c \in Caller, ResumeChat(c)
    PROVE  LockInv'
<1>1. /\ chatWaiters # <<>> /\ c = Head(chatWaiters) /\ chatWaiters' = Tail(chatWaiters)
      /\ chatHolder' = c /\ Enter(c) /\ UNCHANGED gone
  BY DEF ResumeChat
<1>2. chatWaiters \in Seq(Chat) /\ ChatLine /\ \A d \in Chat : d \in Caller
  BY DEF LockInv, LockTypeOK, Caller
<1>3. c \in Chat /\ at[c] = "chatting"
  BY <1>1, <1>2, LineShorter DEF ChatLine
<1>4. \A d \in Caller : d # c => at'[d] = at[d]
  BY <1>1, <1>3, EnterKeeps
<1>5. chatWaiters' \in Seq(Chat) /\ ChatLine'
  BY <1>1, <1>2, <1>4, LineShorter DEF ChatLine
<1> QED
  BY <1>1, <1>3, <1>5, EnterKeeps DEF LockInv, LockTypeOK

LEMMA ServeKeeps ==
    ASSUME LockInv, NEW c \in Caller, Serve(c)
    PROVE  LockInv'
<1>1. CASE Resume(c)
  BY <1>1, ResumeKeeps
<1>2. CASE ResumeChat(c)
  BY <1>2, ResumeChatKeeps
<1>3. CASE Answer(c) \/ AnswerChat(c) \/ OpenRaises(c) \/ StreamFails(c) \/ Close(c)
  <2>1. AtWorker(c)
    BY <1>3 DEF Answer, AnswerChat, OpenRaises, StreamFails, Close, AtWorker
  <2>2. Leave(c) /\ UNCHANGED chatWaiters /\ chatHolder' \in {chatHolder, NoCaller}
    BY <1>3 DEF Answer, AnswerChat, OpenRaises, StreamFails, Close
  <2> QED
    BY <2>1, <2>2, LeaveKeeps
<1>4. CASE OpenRefused(c) \/ OpenEvents(c) \/ OpenDocument(c) \/ Chunk(c) \/ Sent(c)
           \/ StreamEnds(c) \/ DocumentEnds(c) \/ CancelRead(c) \/ CancelSend(c)
           \/ CancelClose(c)
  BY <1>4, StreamMoveKeeps
     DEF OpenRefused, OpenEvents, OpenDocument, Chunk, Sent, StreamEnds, DocumentEnds,
         CancelRead, CancelSend, CancelClose
<1> QED
  BY <1>1, <1>2, <1>3, <1>4 DEF Serve

LEMMA LockNextInv == LockInv /\ [LockNext]_lockVars => LockInv'
<1> SUFFICES ASSUME LockInv, [LockNext]_lockVars PROVE LockInv'
  OBVIOUS
<1>1. ASSUME NEW c \in Caller, Disconnect(c) PROVE LockInv'
  BY <1>1 DEF Disconnect, LockInv, LockTypeOK, HeldByTheServed, AtWorker, GpuLine, ChatLine, InLine
<1>2. ASSUME UNCHANGED lockVars PROVE LockInv'
  BY <1>2 DEF lockVars, LockInv, LockTypeOK, HeldByTheServed, AtWorker, GpuLine, ChatLine, InLine
<1> QED
  BY <1>1, <1>2, RequestKeeps, StartChatKeeps, ServeKeeps DEF LockNext

LEMMA LockInductive == LockSpec => []LockInv
BY LockInitInv, LockNextInv, PTL DEF LockSpec

-----------------------------------------------------------------------------
(***************************************************************************)
(* The depth of the queue: each step that moves a request into the line or *)
(* out of it changes the depth by one, and no other step changes either.   *)
(***************************************************************************)
LEMMA CountedIsFinite == IsFiniteSet(Counted) /\ Cardinality(Counted) \in Nat
BY CallersAreFinite, FS_Subset, FS_CardinalityType DEF Counted

LEMMA EnterCounts ==
    ASSUME LockInv, DepthCounts, NEW c \in Caller, at[c] \in {"idle", "chatting"}, Enter(c)
    PROVE  DepthCounts'
<1>1. at \in [Caller -> Stage]
  BY DEF LockInv, LockTypeOK
<1>2. PICK s \in {"opening", "asking", "waiting"} : at' = [at EXCEPT ![c] = s]
  BY DEF Enter, Begun
<1>3. Counted' = Counted \cup {c} /\ c \notin Counted
  BY <1>1, <1>2 DEF Counted
<1>4. depth' = depth + 1
  BY DEF Enter
<1> QED
  BY <1>3, <1>4, CountedIsFinite, FS_AddElement DEF DepthCounts

LEMMA LeaveCounts ==
    ASSUME LockInv, DepthCounts, NEW c \in Caller, AtWorker(c), Leave(c)
    PROVE  DepthCounts'
<1>1. at \in [Caller -> Stage]
  BY DEF LockInv, LockTypeOK
<1>2. Counted' = Counted \ {c} /\ c \in Counted
  BY <1>1 DEF Leave, Counted, AtWorker
<1>3. /\ Cardinality(Counted \ {c}) = Cardinality(Counted) - 1
      /\ Cardinality(Counted \ {c}) \in Nat /\ Cardinality(Counted) \in Nat
  BY <1>2, CountedIsFinite, FS_RemoveElement, FS_CardinalityType
<1>4. depth > 0 /\ depth \in Nat
  BY <1>3, SMT DEF DepthCounts
<1>5. depth' = depth - 1
  BY <1>4 DEF Leave, Corrected
<1> QED
  BY <1>2, <1>3, <1>5 DEF DepthCounts

\* A request that moves on between two places counts as before.
LEMMA MoveCounts ==
    ASSUME LockInv, DepthCounts, NEW c \in Caller, NEW s,
           at' = [at EXCEPT ![c] = s], depth' = depth,
           at[c] \in {"idle", "chatting"} <=> s \in {"idle", "chatting"}
    PROVE  DepthCounts'
<1>1. at \in [Caller -> Stage]
  BY DEF LockInv, LockTypeOK
<1>2. Counted' = Counted
  BY <1>1 DEF Counted
<1> QED
  BY <1>2 DEF DepthCounts

LEMMA ServeCounts ==
    ASSUME LockInv, DepthCounts, NEW c \in Caller, Serve(c)
    PROVE  DepthCounts'
<1>1. CASE Resume(c)
  <2>1. /\ waiters # <<>> /\ c = Head(waiters) /\ at' = [at EXCEPT ![c] = Begun(c)]
        /\ depth' = depth
    BY <1>1 DEF Resume
  <2>2. at[c] = "waiting"
    BY <2>1, LineShorter DEF LockInv, LockTypeOK, GpuLine
  <2>3. Begun(c) \notin {"idle", "chatting"}
    BY DEF Begun
  <2> QED
    BY <2>1, <2>2, <2>3, MoveCounts
<1>2. CASE ResumeChat(c)
  <2>1. chatWaiters # <<>> /\ c = Head(chatWaiters) /\ Enter(c)
    BY <1>2 DEF ResumeChat
  <2>2. at[c] = "chatting"
    BY <2>1, LineShorter DEF LockInv, LockTypeOK, ChatLine
  <2> QED
    BY <2>1, <2>2, EnterCounts
<1>3. CASE Answer(c) \/ AnswerChat(c) \/ OpenRaises(c) \/ StreamFails(c) \/ Close(c)
  <2>1. AtWorker(c)
    BY <1>3 DEF Answer, AnswerChat, OpenRaises, StreamFails, Close, AtWorker
  <2>2. Leave(c)
    BY <1>3 DEF Answer, AnswerChat, OpenRaises, StreamFails, Close
  <2> QED
    BY <2>1, <2>2, LeaveCounts
<1>4. CASE OpenRefused(c) \/ OpenEvents(c) \/ OpenDocument(c) \/ Chunk(c) \/ Sent(c)
           \/ StreamEnds(c) \/ DocumentEnds(c) \/ CancelRead(c) \/ CancelSend(c)
           \/ CancelClose(c)
  <2>1. PICK from \in Stage \ {"idle", "chatting"}, to \in Stage \ {"idle", "chatting"} :
          Move(c, from, to)
    BY <1>4 DEF OpenRefused, OpenEvents, OpenDocument, Chunk, Sent, StreamEnds, DocumentEnds,
                CancelRead, CancelSend, CancelClose, Stage
  <2> QED
    BY <2>1, MoveCounts DEF Move
<1> QED
  BY <1>1, <1>2, <1>3, <1>4 DEF Serve

LEMMA DepthNext == LockInv /\ DepthCounts /\ [LockNext]_lockVars => DepthCounts'
<1> SUFFICES ASSUME LockInv, DepthCounts, [LockNext]_lockVars PROVE DepthCounts'
  OBVIOUS
<1>1. ASSUME NEW c \in Caller, Request(c) PROVE DepthCounts'
  BY <1>1, EnterCounts DEF Request
<1>2. ASSUME NEW c \in Caller, StartChat(c) PROVE DepthCounts'
  <2>1. at[c] = "idle"
    BY <1>2 DEF StartChat
  <2>2. CASE Enter(c)
    BY <2>1, <2>2, EnterCounts
  <2>3. CASE at' = [at EXCEPT ![c] = "chatting"] /\ depth' = depth
    BY <2>1, <2>3, MoveCounts
  <2> QED
    BY <1>2, <2>2, <2>3 DEF StartChat
<1>3. ASSUME UNCHANGED <<at, depth>> PROVE DepthCounts'
  BY <1>3 DEF DepthCounts, Counted
<1> QED
  BY <1>1, <1>2, <1>3, ServeCounts DEF LockNext, Disconnect, lockVars

LEMMA DepthInductive == LockSpec => [](LockInv /\ DepthCounts)
<1>1. LockInit => DepthCounts
  <2>1. LockInit => Counted = {}
    BY DEF LockInit, Counted
  <2> QED
    BY <2>1, FS_EmptySet DEF LockInit, DepthCounts
<1> QED
  BY <1>1, LockInitInv, LockNextInv, DepthNext, PTL DEF LockSpec

-----------------------------------------------------------------------------
\* Every variable keeps its type.
THEOREM LockTypeCorrect == LockSpec => []LockTypeOK
<1>1. LockInv => LockTypeOK
  BY DEF LockInv
<1> QED
  BY LockInductive, <1>1, PTL

\* The lock is held for exactly the request at the worker, or for one that was
\* abandoned there, and the depth is the number of requests that wait or are
\* served, whatever the clients and the worker do.
THEOREM LockCovers == LockSpec => []LockCoversService
<1>1. LockInv /\ DepthCounts => LockCoversService
  BY DEF LockInv, LockCoversService
<1> QED
  BY DepthInductive, <1>1, PTL

\* The router never has two requests open, so it never swaps its model under one.
THEOREM OneAtTheWorker ==
    LockSpec => [](\A c, d \in Caller : AtWorker(c) /\ AtWorker(d) => c = d)
<1>1. LockInv => \A c, d \in Caller : AtWorker(c) /\ AtWorker(d) => c = d
  BY DEF LockInv, HeldByTheServed
<1> QED
  BY LockInductive, <1>1, PTL

=============================================================================
