------------------------------ MODULE SharedGpu ------------------------------
(***************************************************************************)
(* The GPU of the user's PC: the ticket and file-lock queue that KREA2     *)
(* Vision shares with Forge (services/shared_queue.py), the slot a Discord *)
(* job runs its model in (services/pipeline.py, _provider_slot), and the   *)
(* model Vision may keep loaded between two jobs (HereticWarmResidency in  *)
(* services/discord_vision.py) with the thread that watches it.            *)
(*                                                                         *)
(* Discord workers are threads of the one Vision process; the others are   *)
(* processes that speak the same protocol (Forge, KreaForge), external,    *)
(* that may crash.  A ticket is named for the clock when it was drawn and  *)
(* exists from when its file is written: line is the order of the names,   *)
(* posted the files.  The clock tells two draws apart.                     *)
(***************************************************************************)
EXTENDS Naturals, Sequences, FiniteSets, Functions

CONSTANTS
    Discord,     \* threads that describe Discord images
    Other,       \* processes of other programs on the same GPU
    Model,       \* models a job may ask for
    Wants,       \* the model the jobs of a worker ask for
    Provider,    \* llama.cpp children
    NoProvider,
    NoWorker,
    Room         \* how many models the VRAM check lets in

Worker == Discord \cup Other

ASSUME RoomIsPositive == Room \in Nat \ {0}
ASSUME WorkersAreApart == Discord \cap Other = {} /\ NoWorker \notin Worker
ASSUME ProvidersAreReal == NoProvider \notin Provider
ASSUME ProvidersSuffice == IsFiniteSet(Provider) /\ Room <= Cardinality(Provider)
ASSUME WantsAreModels == Wants \in [Discord -> Model]

VARIABLES
    pc,        \* where a worker is
    line,      \* the tickets drawn, by name
    posted,    \* the tickets whose file exists
    lock,      \* who holds generation.lock
    using,     \* the provider a Discord job has
    dropping,  \* the provider a Discord worker has detached to unload it
    cancelled, \* Discord jobs that were cancelled
    runs,      \* the model each provider in VRAM runs
    warm,      \* the provider kept loaded: HereticWarmResidency._provider
    expired,   \* _warm_until has passed
    watcher,   \* the heretic-warm-watch thread
    evicting   \* the provider it unloads

queueVars == <<line, posted, lock>>
modelVars == <<using, dropping, runs>>
warmVars == <<warm, expired, watcher, evicting>>
vars == <<pc, queueVars, modelVars, warmVars, cancelled>>

Place == {"idle", "drawn", "waiting", "first", "owner", "discarding", "handoff",
          "running", "finished", "keeping", "replacing", "unloading", "leaving",
          "unlocked", "cancelling", "evicting", "crashed"}

Init ==
    /\ pc = [w \in Worker |-> "idle"]
    /\ line = <<>>
    /\ posted = {}
    /\ lock = NoWorker
    /\ using = [d \in Discord |-> NoProvider]
    /\ dropping = [d \in Discord |-> NoProvider]
    /\ cancelled = {}
    /\ runs = <<>>
    /\ warm = NoProvider
    /\ expired = TRUE
    /\ watcher = "dead"
    /\ evicting = NoProvider

Loaded == DOMAIN runs

(* The llama.cpp children in ps stop.                                      *)
Stopped(ps) == Restrict(runs, Loaded \ ps)

Goto(w, from, to) ==
    /\ pc[w] = from
    /\ pc' = [pc EXCEPT ![w] = to]

----------------------------------------------------------------------------
(* Tickets and the lock: SharedGenerationQueue.slot.                       *)

Live == {w \in posted : pc[w] # "crashed"}

(* The first of the tickets in the directory, sorted by name.              *)
IsFirst(w, tickets) ==
    /\ w \in tickets
    /\ Head(SelectSeq(line, LAMBDA v : v \in tickets)) = w

(* Tickets that go away, and with them their place in line.                *)
Withdraw(gone) ==
    /\ posted' = posted \ gone
    /\ line' = SelectSeq(line, LAMBDA v : v \notin gone)

(* The name of the ticket is made from the clock.                          *)
Draw(w) ==
    /\ Goto(w, "idle", "drawn")
    /\ line' = Append(line, w)
    /\ UNCHANGED <<posted, lock, modelVars, warmVars, cancelled>>

Post(w) ==
    /\ Goto(w, "drawn", "waiting")
    /\ posted' = posted \cup {w}
    /\ UNCHANGED <<line, lock, modelVars, warmVars, cancelled>>

(* Tickets of dead processes that nobody removes.                          *)
LookUncleanMutant(w) ==
    /\ IsFirst(w, posted)
    /\ Goto(w, "waiting", "first")
    /\ UNCHANGED <<queueVars, modelVars, warmVars, cancelled>>

(* One turn of the loop: remove the tickets of dead processes and look at  *)
(* the position.  A process whose ticket is gone may come back.            *)
Look(w) ==
    LET dead == {v \in posted : pc[v] = "crashed"}
        first == IsFirst(w, posted \ dead)
    IN  /\ pc[w] = "waiting"
        /\ first \/ dead # {}
        /\ Withdraw(dead)
        /\ pc' = [v \in Worker |->
                    IF v \in dead THEN "idle"
                    ELSE IF v = w /\ first THEN "first" ELSE pc[v]]
        /\ UNCHANGED <<lock, modelVars, warmVars, cancelled>>

(* The lock is tried by whoever found itself first, and only then.         *)
TryLock(w) ==
    /\ \/ /\ lock = NoWorker
          /\ Goto(w, "first", "owner")
          /\ lock' = w
       \/ /\ lock # NoWorker
          /\ Goto(w, "first", "waiting")
          /\ UNCHANGED lock
    /\ UNCHANGED <<line, posted, modelVars, warmVars, cancelled>>

(* The slot ends: the lock first, then the ticket.                         *)
Unlock(w) ==
    /\ Goto(w, "leaving", "unlocked")
    /\ lock' = NoWorker
    /\ UNCHANGED <<line, posted, modelVars, warmVars, cancelled>>

RemoveTicket(w) ==
    /\ Goto(w, "unlocked", IF w \in cancelled THEN "cancelling" ELSE "idle")
    /\ Withdraw({w})
    /\ UNCHANGED <<lock, modelVars, warmVars, cancelled>>

----------------------------------------------------------------------------
(* Other programs.                                                         *)

Generate(o) ==
    /\ o \in Other
    /\ Goto(o, "owner", "leaving")
    /\ UNCHANGED <<queueVars, modelVars, warmVars, cancelled>>

(* The operating system frees the lock of a process that dies; its ticket, *)
(* if written, stays.                                                      *)
Crash(o) ==
    /\ o \in Other
    /\ pc[o] \notin {"idle", "crashed"}
    /\ lock' = IF lock = o THEN NoWorker ELSE lock
    /\ IF o \in posted
       THEN /\ pc' = [pc EXCEPT ![o] = "crashed"]
            /\ UNCHANGED <<line, posted>>
       ELSE /\ pc' = [pc EXCEPT ![o] = "idle"]
            /\ Withdraw({o})
    /\ UNCHANGED <<modelVars, warmVars, cancelled>>

----------------------------------------------------------------------------
(* A Discord job in its slot.                                              *)

(* The user cancels: the job notices while it waits, and leaves the line.  *)
CancelWaiting(d) ==
    /\ d \in Discord
    /\ Goto(d, "waiting", "cancelling")
    /\ cancelled' = cancelled \cup {d}
    /\ Withdraw({d})
    /\ UNCHANGED <<lock, modelVars, warmVars>>

(* ... or before it draws a ticket, or when it has just got the lock.       *)
CancelElsewhere(d) ==
    /\ d \in Discord
    /\ Goto(d, "idle", "cancelling") \/ Goto(d, "owner", "leaving")
    /\ cancelled' = cancelled \cup {d}
    /\ UNCHANGED <<queueVars, modelVars, warmVars>>

(* A warm provider that is handed out and stays in the window.             *)
CheckoutSharedMutant(d) ==
    /\ d \in Discord
    /\ Goto(d, "owner", IF warm = NoProvider THEN "handoff" ELSE "running")
    /\ using' = [using EXCEPT ![d] = warm]
    /\ UNCHANGED <<queueVars, dropping, runs, warmVars, cancelled>>

(* A warm provider that is handed out whatever model it runs.              *)
CheckoutAnyMutant(d) ==
    /\ d \in Discord
    /\ Goto(d, "owner", IF warm = NoProvider THEN "handoff" ELSE "running")
    /\ using' = [using EXCEPT ![d] = warm]
    /\ warm' = NoProvider
    /\ expired' = TRUE
    /\ UNCHANGED <<queueVars, dropping, runs, watcher, evicting, cancelled>>

(* HereticWarmResidency.checkout: a matching provider is taken, another    *)
(* one or an expired one is detached to be unloaded.                       *)
Checkout(d) ==
    /\ d \in Discord
    /\ warm' = NoProvider
    /\ \/ /\ warm = NoProvider
          /\ Goto(d, "owner", "handoff")
          /\ UNCHANGED <<using, dropping>>
       \/ /\ warm # NoProvider
          /\ runs[warm] = Wants[d] /\ ~expired
          /\ Goto(d, "owner", "running")
          /\ using' = [using EXCEPT ![d] = warm]
          /\ UNCHANGED dropping
       \/ /\ warm # NoProvider
          /\ runs[warm] # Wants[d] \/ expired
          /\ Goto(d, "owner", "discarding")
          /\ dropping' = [dropping EXCEPT ![d] = warm]
          /\ UNCHANGED using
    /\ expired' = TRUE
    /\ UNCHANGED <<queueVars, runs, watcher, evicting, cancelled>>

(* The llama.cpp child of a detached provider stops.                       *)
Drop(d, from, to) ==
    /\ d \in Discord
    /\ Goto(d, from, to)
    /\ runs' = Stopped({dropping[d]})
    /\ dropping' = [dropping EXCEPT ![d] = NoProvider]
    /\ UNCHANGED <<queueVars, using, warmVars, cancelled>>

Discard(d) == Drop(d, "discarding", "handoff")
DropReplaced(d) == Drop(d, "replacing", "leaving")

(* Forge and Ollama have unloaded, the free VRAM suffices, and a new child *)
(* (whichever: they are alike) loads the model.                            *)
Load(d) ==
    LET p == CHOOSE q \in Provider : q \notin Loaded
    IN  /\ d \in Discord
        /\ Goto(d, "handoff", "running")
        /\ Cardinality(Loaded) < Room
        /\ runs' = [q \in Loaded \cup {p} |-> IF q = p THEN Wants[d] ELSE runs[q]]
        /\ using' = [using EXCEPT ![d] = p]
        /\ UNCHANGED <<queueVars, dropping, warmVars, cancelled>>

(* A hand-off not confirmed, too little VRAM, or a cancelled job.          *)
HandoffFails(d) ==
    /\ d \in Discord
    /\ Goto(d, "handoff", "leaving")
    /\ cancelled' \in {cancelled, cancelled \cup {d}}
    /\ UNCHANGED <<queueVars, modelVars, warmVars>>

Finish(d) ==
    /\ d \in Discord
    /\ Goto(d, "running", "finished")
    /\ UNCHANGED <<queueVars, modelVars, warmVars, cancelled>>

(* An error or a cancellation: nothing is retained.                        *)
Fail(d) ==
    /\ d \in Discord
    /\ Goto(d, "running", "unloading")
    /\ cancelled' \in {cancelled, cancelled \cup {d}}
    /\ UNCHANGED <<queueVars, modelVars, warmVars>>

(* retain looks for tickets of other programs before it takes its lock.    *)
OtherWaits == Live \cap Other # {}

RetainLook(d) ==
    /\ d \in Discord
    /\ Goto(d, "finished", IF OtherWaits THEN "unloading" ELSE "keeping")
    /\ UNCHANGED <<queueVars, modelVars, warmVars, cancelled>>

(* The watcher is started only if its last thread is no longer alive.      *)
Retain(d) ==
    /\ d \in Discord
    /\ Goto(d, "keeping", IF warm = NoProvider THEN "leaving" ELSE "replacing")
    /\ dropping' = [dropping EXCEPT ![d] = warm]
    /\ warm' = using[d]
    /\ using' = [using EXCEPT ![d] = NoProvider]
    /\ expired' = FALSE
    /\ watcher' = IF watcher = "dead" THEN "watching" ELSE watcher
    /\ UNCHANGED <<queueVars, runs, evicting, cancelled>>

Unload(d) ==
    /\ d \in Discord
    /\ Goto(d, "unloading", "leaving")
    /\ runs' = Stopped({using[d]})
    /\ using' = [using EXCEPT ![d] = NoProvider]
    /\ UNCHANGED <<queueVars, dropping, warmVars, cancelled>>

(* A cancelled job evicts the warm provider, whosever it was.              *)
Evict(d) ==
    /\ d \in Discord
    /\ Goto(d, "cancelling", IF warm = NoProvider THEN "idle" ELSE "evicting")
    /\ cancelled' = cancelled \ {d}
    /\ dropping' = [dropping EXCEPT ![d] = warm]
    /\ warm' = NoProvider
    /\ expired' = TRUE
    /\ UNCHANGED <<queueVars, using, runs, watcher, evicting>>

DropEvicted(d) == Drop(d, "evicting", "idle")

----------------------------------------------------------------------------
(* The watcher thread.                                                     *)

WarmTimeout ==
    /\ warm # NoProvider
    /\ ~expired
    /\ expired' = TRUE
    /\ UNCHANGED <<pc, queueVars, modelVars, warm, watcher, evicting, cancelled>>

(* Under its lock the watcher finds nothing to watch and returns: until    *)
(* the thread has ended, is_alive still says true.                         *)
WatchNothing ==
    /\ watcher = "watching"
    /\ warm = NoProvider
    /\ watcher' = "ending"
    /\ UNCHANGED <<pc, queueVars, modelVars, warm, expired, evicting, cancelled>>

(* Somebody else waits, or the window is over.                             *)
WatchDetach ==
    /\ watcher = "watching"
    /\ warm # NoProvider
    /\ OtherWaits \/ expired
    /\ evicting' = warm
    /\ warm' = NoProvider
    /\ expired' = TRUE
    /\ watcher' = "unloading"
    /\ UNCHANGED <<pc, queueVars, modelVars, cancelled>>

WatchUnload ==
    /\ watcher = "unloading"
    /\ runs' = Stopped({evicting})
    /\ evicting' = NoProvider
    /\ watcher' = "ending"
    /\ UNCHANGED <<pc, queueVars, using, dropping, warm, expired, cancelled>>

WatchEnds ==
    /\ watcher = "ending"
    /\ watcher' = "dead"
    /\ UNCHANGED <<pc, queueVars, modelVars, warm, expired, evicting, cancelled>>

Watch == WatchNothing \/ WatchDetach \/ WatchUnload \/ WatchEnds

----------------------------------------------------------------------------
(* What a worker that is in the queue or in its slot does next.            *)
Proceed(w) ==
    \/ Post(w) \/ Look(w) \/ TryLock(w) \/ Unlock(w) \/ RemoveTicket(w)
    \/ Generate(w) \/ Checkout(w) \/ Discard(w) \/ Load(w)
    \/ HandoffFails(w) \/ Finish(w) \/ Fail(w) \/ RetainLook(w) \/ Retain(w)
    \/ DropReplaced(w) \/ Unload(w) \/ Evict(w) \/ DropEvicted(w)

Next ==
    \/ \E w \in Worker : Draw(w) \/ Proceed(w)
    \/ \E o \in Other : Crash(o)
    \/ \E d \in Discord : CancelWaiting(d) \/ CancelElsewhere(d)
    \/ WarmTimeout
    \/ Watch

(* Every thread goes on with what it does: a job and an image end or fail, *)
(* the loop polls and the watcher runs.                                    *)
Spec ==
    /\ Init
    /\ [][Next]_vars
    /\ \A w \in Worker : WF_vars(Proceed(w))
    /\ WF_vars(Watch)

----------------------------------------------------------------------------
(* A worker has at most one ticket, and every file is a ticket drawn.      *)
TypeOK ==
    /\ pc \in [Worker -> Place]
    /\ line \in Seq(Worker)
    /\ \A i, j \in 1..Len(line) : line[i] = line[j] => i = j
    /\ posted \subseteq {line[i] : i \in 1..Len(line)}
    /\ lock \in Worker \cup {NoWorker}
    /\ using \in [Discord -> Provider \cup {NoProvider}]
    /\ dropping \in [Discord -> Provider \cup {NoProvider}]
    /\ cancelled \subseteq Discord
    /\ Loaded \subseteq Provider
    /\ runs \in [Loaded -> Model]
    /\ warm \in Provider \cup {NoProvider}
    /\ expired \in BOOLEAN
    /\ watcher \in {"dead", "watching", "unloading", "ending"}
    /\ evicting \in Provider \cup {NoProvider}

(* The places that may hold a provider.                                    *)
Holders(p) ==
    {<<"job", d>> : d \in {e \in Discord : using[e] = p}}
    \cup {<<"drop", d>> : d \in {e \in Discord : dropping[e] = p}}
    \cup (IF warm = p THEN {<<"warm">>} ELSE {})
    \cup (IF evicting = p THEN {<<"watcher">>} ELSE {})

(***************************************************************************)
(* A provider in VRAM is in one hand: the job that uses it, the warm       *)
(* window, or whoever unloads it.  So none is unloaded under a job that    *)
(* uses it, none is unloaded twice, and none is forgotten in VRAM          *)
(* (discord_vision.py:266-349).                                            *)
(***************************************************************************)
OneHand ==
    \A p \in Provider : Cardinality(Holders(p)) = (IF p \in Loaded THEN 1 ELSE 0)

(***************************************************************************)
(* A job runs the model it asked for, also when it reuses a provider.      *)
(***************************************************************************)
RunsWhatItWants ==
    \A d \in Discord : using[d] # NoProvider => runs[using[d]] = Wants[d]

(***************************************************************************)
(* Nobody waits for ever, whatever dies in line or in the slot, unless its *)
(* job is cancelled or it dies itself.                                     *)
(***************************************************************************)
Served ==
    \A w \in Worker : pc[w] = "waiting" ~> pc[w] \in {"owner", "cancelling", "crashed", "idle"}

=============================================================================
