----------------------------- MODULE PluginSetup -----------------------------
(***************************************************************************)
(* The plugin's first-time setup, its settings panel and its two consents. *)
(* A setup window asks the companion what it can run, lets the user pick a *)
(* mode, install models and save; a newer window takes an older one out of *)
(* the page while the older one's requests are still under way.  A consent *)
(* is a setting and a receipt, written at several places, some of them     *)
(* after a modal that may stay open across anything else.                  *)
(*                                                                         *)
(* The module has no behaviour of its own: PluginAccount composes its      *)
(* actions with the requests that read the settings and the consents.      *)
(***************************************************************************)
EXTENDS Integers, FiniteSets, FiniteSetsExt

CONSTANTS
    Models,       \* models the setup window installs
    MaxWindows,   \* bound: setup windows opened
    MaxMonitors,  \* bound: installs watched at a time
    MaxModals     \* bound: open consent modals of the settings panel, by key

Windows  == 1..MaxWindows
Monitors == 1..MaxMonitors
Keys     == {"contribute", "diagnostics"}

ASSUME SetupBounds == {MaxWindows, MaxMonitors, MaxModals} \subseteq Nat

VARIABLES
    running,   \* this.running
    pending,   \* onboardingTimer is set
    conf,      \* the settings, and whether the setup was completed
    receipt,   \* privacyReceipt and diagnosticPrivacyReceipt are current
    box,       \* the settings panel's checkboxes
    modals,    \* consent modals that the panel waits for, by key
    setup,     \* the setup windows, in order of opening
    monitor,   \* the loops of monitorInstall
    install    \* the companion's state of each model's install

setupVars == <<running, pending, conf, receipt, box, modals, setup, monitor, install>>

Modes      == {"local", "online"}
Service    == {"unknown", "ready", "unready"}   \* onlineAvailable
Installing == {"idle", "active", "completed", "error"}

NoSetup   == [st |-> "none", mode |-> "local", contribute |-> FALSE, guild |-> FALSE,
              online |-> "unknown", refreshing |-> FALSE, fetch |-> FALSE,
              token |-> 0, seen |-> [m \in Models |-> "idle"], posting |-> {}]
NoMonitor == [w |-> 0, token |-> 0, model |-> "none", pc |-> "idle"]

SetupTypes ==
    /\ {running, pending} \subseteq BOOLEAN
    /\ conf \in [done : BOOLEAN, mode : Modes, guild : BOOLEAN,
                 contribute : BOOLEAN, diagnostics : BOOLEAN]
    /\ receipt \in [Keys -> BOOLEAN]
    /\ box \in [Keys -> BOOLEAN]
    /\ modals \in [Keys -> 0..MaxModals]
    /\ setup \in [Windows ->
         [st : {"none", "shown", "gone"}, mode : Modes, contribute : BOOLEAN,
          guild : BOOLEAN, online : Service, refreshing : BOOLEAN, fetch : BOOLEAN,
          token : 0..(MaxMonitors + 1), seen : [Models -> Installing],
          posting : SUBSET Models]]
    /\ monitor \in [Monitors -> [w : Windows \cup {0}, token : 0..(MaxMonitors + 1),
                                 model : Models \cup {"none"}, pc : {"idle", "sent", "sleep"}]]
    /\ install \in [Models -> Installing]

\* What an earlier run may have left behind: a completed setup, or none or one
\* whose terms have changed; a consent with or without a current receipt.
Leftovers == [done : BOOLEAN, contribute : BOOLEAN, diagnostics : BOOLEAN,
              receipts : SUBSET Keys]

SetupInit(left) ==
    /\ running = FALSE
    /\ pending = FALSE
    /\ \E l \in left :
         /\ conf = [done |-> l.done, mode |-> "local", guild |-> FALSE,
                    contribute |-> l.contribute, diagnostics |-> l.diagnostics]
         /\ receipt = [k \in Keys |-> k \in l.receipts]
         /\ box = [k \in Keys |-> k = "diagnostics" /\ l.diagnostics]
    /\ modals = [k \in Keys |-> 0]
    /\ setup = [w \in Windows |-> NoSetup]
    /\ monitor = [k \in Monitors |-> NoMonitor]
    /\ install = [m \in Models |-> "idle"]

Shown(w) == setup[w].st = "shown"
ShowsMode(w, mode) == Shown(w) /\ setup[w].mode = mode

-----------------------------------------------------------------------------
(* The setup window *)

\* A fetch of /api/discord-models, unless one is under way.
Refreshed(v) ==
    IF v.refreshing THEN v ELSE [v EXCEPT !.refreshing = TRUE, !.fetch = TRUE]

\* The windows after openOnboarding: the old one leaves the page, the new one
\* shows the settings and asks the companion.
Opened(ss) ==
    LET new == Min({w \in Windows : ss[w].st = "none"}) IN
    [w \in Windows |->
        IF w = new THEN Refreshed([NoSetup EXCEPT !.st = "shown", !.mode = conf.mode,
                                                  !.contribute = conf.contribute])
        ELSE IF ss[w].st = "shown" THEN [ss[w] EXCEPT !.st = "gone"]
        ELSE ss[w]]

MayOpen == \E w \in Windows : setup[w].st = "none"

OpenSetup ==
    /\ MayOpen
    /\ setup' = Opened(setup)

\* The timer that start() sets when the current setup was never completed.
OpenTimer ==
    /\ running /\ pending
    /\ pending' = FALSE
    /\ OpenSetup
    /\ UNCHANGED <<running, conf, receipt, box, modals, monitor, install>>

\* "Review model & VRAM setup" in the settings panel.
OpenButton ==
    /\ running
    /\ OpenSetup
    /\ UNCHANGED <<running, pending, conf, receipt, box, modals, monitor, install>>

ShowMode(w, mode) ==
    /\ Shown(w)
    /\ LET v == [setup[w] EXCEPT !.mode = mode] IN
       setup' = [setup EXCEPT ![w] =
           IF mode = "online" /\ v.online = "unknown" THEN Refreshed(v) ELSE v]
    /\ UNCHANGED <<running, pending, conf, receipt, box, modals, monitor, install>>

CheckAgain(w) ==
    /\ ShowsMode(w, "local")
    /\ ~setup[w].refreshing
    /\ setup' = [setup EXCEPT ![w] = Refreshed(@)]
    /\ UNCHANGED <<running, pending, conf, receipt, box, modals, monitor, install>>

\* The companion says whether its remote worker is ready, or does not answer.
\* (The window may have left the page: nothing is drawn then.)
RefreshEnds(w) ==
    /\ setup[w].fetch
    /\ \E s \in Service :
         setup' = [setup EXCEPT ![w].fetch = FALSE,
                                ![w].refreshing = FALSE, ![w].online = s]
    /\ UNCHANGED <<running, pending, conf, receipt, box, modals, monitor, install>>

TickContribution(w) ==
    /\ Shown(w)
    /\ setup' = [setup EXCEPT ![w].contribute = ~@]
    /\ UNCHANGED <<running, pending, conf, receipt, box, modals, monitor, install>>

TickGuild(w) ==
    /\ Shown(w)
    /\ setup' = [setup EXCEPT ![w].guild = ~@]
    /\ UNCHANGED <<running, pending, conf, receipt, box, modals, monitor, install>>

\* The mode, the model, the contribution with its receipt and the server are
\* saved, the setup is complete and the window goes.
SaveSetup(w) ==
    /\ Shown(w)
    /\ setup[w].mode = "online" => setup[w].online = "ready"
    /\ conf' = [conf EXCEPT !.done = TRUE, !.mode = setup[w].mode,
                            !.guild = @ \/ setup[w].guild,
                            !.contribute = setup[w].contribute]
    /\ receipt' = [receipt EXCEPT !["contribute"] = setup[w].contribute]
    /\ setup' = [setup EXCEPT ![w].st = "gone", ![w].token = 0]
    /\ UNCHANGED <<running, pending, box, modals, monitor, install>>

DismissSetup(w) ==
    /\ Shown(w)
    /\ setup' = [setup EXCEPT ![w].st = "gone", ![w].token = 0]
    /\ UNCHANGED <<running, pending, conf, receipt, box, modals, monitor, install>>

-----------------------------------------------------------------------------
(* Installs *)

\* The button is disabled while the window knows of an active install.
InstallModel(w, m) ==
    /\ ShowsMode(w, "local")
    /\ setup[w].seen[m] # "active"
    /\ m \notin setup[w].posting
    /\ setup' = [setup EXCEPT ![w].posting = @ \cup {m}]
    /\ UNCHANGED <<running, pending, conf, receipt, box, modals, monitor, install>>

FreeMonitors == {k \in Monitors : monitor[k].pc = "idle"}

\* A token that no loop of the window holds: the newest.
NextToken(w) ==
    Min({t \in 1..(MaxMonitors + 1) :
           /\ t # setup[w].token
           /\ \A k \in Monitors : monitor[k].w = w => monitor[k].token # t})

\* Slip: a new watch keeps the token of the last one.
SameTokenMutant(w) == IF setup[w].token = 0 THEN 1 ELSE setup[w].token

\* The watch that the window follows from now on.
NewToken(w) == NextToken(w)

\* The companion starts the install, or says how far it is; it refuses while it
\* installs another model.  A first poll follows at once.
InstallStarts(w, m) ==
    /\ m \in setup[w].posting
    /\ FreeMonitors # {}
    /\ \A x \in Models \ {m} : install[x] # "active"
    /\ install' = [install EXCEPT ![m] = "active"]
    /\ setup' = [setup EXCEPT ![w].posting = @ \ {m},
                              ![w].seen[m] = "active",
                              ![w].token = NewToken(w)]
    /\ monitor' = [monitor EXCEPT ![Min(FreeMonitors)] =
         IF Shown(w) THEN [w |-> w, token |-> NewToken(w), model |-> m, pc |-> "sent"]
         ELSE NoMonitor]
    /\ UNCHANGED <<running, pending, conf, receipt, box, modals>>

InstallRefused(w, m) ==
    /\ m \in setup[w].posting
    /\ setup' = [setup EXCEPT ![w].posting = @ \ {m}]
    /\ UNCHANGED <<running, pending, conf, receipt, box, modals, monitor, install>>

\* The companion ends an install, or forgets it as its process ends.
InstallEnds(m) ==
    /\ install[m] = "active"
    /\ \E s \in {"completed", "error", "idle"} : install' = [install EXCEPT ![m] = s]
    /\ UNCHANGED <<running, pending, conf, receipt, box, modals, setup, monitor>>

\* The answer to a poll is taken; one that ends the install ends the loop, and
\* so does a failed poll.
MonitorPolls(k) ==
    LET v == monitor[k] IN
    /\ v.pc = "sent"
    /\ \/ LET s == install[v.model]
              x == [setup[v.w] EXCEPT !.seen[v.model] = s]
          IN /\ setup' = [setup EXCEPT ![v.w] = IF s = "completed" THEN Refreshed(x) ELSE x]
             /\ monitor' = [monitor EXCEPT ![k] =
                  IF s \in {"completed", "error"} THEN NoMonitor ELSE [v EXCEPT !.pc = "sleep"]]
       \/ monitor' = [monitor EXCEPT ![k] = NoMonitor] /\ UNCHANGED setup
    /\ UNCHANGED <<running, pending, conf, receipt, box, modals, install>>

\* A second later the loop goes on if its window is in the page and still
\* follows it.
MonitorWakes(k) ==
    LET v == monitor[k] IN
    /\ v.pc = "sleep"
    /\ monitor' = [monitor EXCEPT ![k] =
         IF Shown(v.w) /\ v.token = setup[v.w].token THEN [v EXCEPT !.pc = "sent"]
         ELSE NoMonitor]
    /\ UNCHANGED <<running, pending, conf, receipt, box, modals, setup, install>>

-----------------------------------------------------------------------------
(* The settings panel *)

\* The panel is built from the settings, once no modal of it is open.
OpenPanel ==
    /\ running
    /\ \A k \in Keys : modals[k] = 0
    /\ box # [k \in Keys |-> conf[k]]
    /\ box' = [k \in Keys |-> conf[k]]
    /\ UNCHANGED <<running, pending, conf, receipt, modals, setup, monitor, install>>

\* Ticking a consent asks for its receipt first.
Tick(k) ==
    /\ running
    /\ ~box[k]
    /\ modals[k] < MaxModals
    /\ box' = [box EXCEPT ![k] = TRUE]
    /\ modals' = [modals EXCEPT ![k] = @ + 1]
    /\ UNCHANGED <<running, pending, conf, receipt, setup, monitor, install>>

\* What the box's handler does last: the setting follows the box, and a box of
\* diagnostics that is off leaves no receipt.
FollowsBox(k, checked, kept) ==
    /\ box' = [box EXCEPT ![k] = checked]
    /\ conf' = [conf EXCEPT ![k] = checked]
    /\ receipt' = [receipt EXCEPT ![k] =
         IF k = "diagnostics" /\ ~checked THEN FALSE ELSE kept]

Untick(k) ==
    /\ running
    /\ box[k]
    /\ FollowsBox(k, FALSE, receipt[k])
    /\ UNCHANGED <<running, pending, modals, setup, monitor, install>>

\* Slip: the answer is not looked at.
AnswerConsentMutant(k, agrees) ==
    /\ modals[k] > 0
    /\ modals' = [modals EXCEPT ![k] = @ - 1]
    /\ FollowsBox(k, TRUE, agrees)
    /\ UNCHANGED <<running, pending, setup, monitor, install>>

\* The user answers a modal: an agreement writes the receipt, a refusal clears
\* the box; the box may have been unticked meanwhile.
AnswerConsent(k, agrees) ==
    /\ modals[k] > 0
    /\ modals' = [modals EXCEPT ![k] = @ - 1]
    /\ FollowsBox(k, box[k] /\ agrees, agrees \/ receipt[k])
    /\ UNCHANGED <<running, pending, setup, monitor, install>>

SelectMode(mode) ==
    /\ running
    /\ conf.mode # mode
    /\ conf' = [conf EXCEPT !.mode = mode]
    /\ UNCHANGED <<running, pending, receipt, box, modals, setup, monitor, install>>

AllowServer ==
    /\ running
    /\ ~conf.guild
    /\ conf' = [conf EXCEPT !.guild = TRUE]
    /\ UNCHANGED <<running, pending, receipt, box, modals, setup, monitor, install>>

-----------------------------------------------------------------------------
(* The plugin *)

\* start(): a contribution is never resumed; the timer is set for a setup that
\* is not the current one.  (The part of start() that PluginAccount composes.)
SetupStarts ==
    /\ ~running
    /\ running' = TRUE
    /\ conf' = [conf EXCEPT !.contribute = FALSE]
    /\ pending' = ~conf.done
    /\ UNCHANGED <<receipt, box, modals, setup, monitor, install>>

\* stop(): the setup window leaves the page; modals and requests stay.
SetupStops ==
    /\ running
    /\ running' = FALSE
    /\ pending' = FALSE
    /\ setup' = [w \in Windows |-> IF Shown(w) THEN [setup[w] EXCEPT !.st = "gone"]
                                   ELSE setup[w]]
    /\ UNCHANGED <<conf, receipt, box, modals, monitor, install>>

\* The actions by the control of the window or panel that a user reaches for.
SetupActs(use) ==
    \/ OpenTimer
    \/ "review" \in use /\ OpenButton
    \/ \E w \in Windows :
         \/ \E m \in Modes : "modes" \in use /\ ShowMode(w, m)
         \/ "check" \in use /\ CheckAgain(w)
         \/ "save" \in use /\ (TickContribution(w) \/ TickGuild(w) \/ SaveSetup(w))
         \/ DismissSetup(w)
         \/ \E m \in Models : "install" \in use /\ InstallModel(w, m)
    \/ "panel" \in use /\ (OpenPanel \/ AllowServer \/ \E m \in Modes : SelectMode(m))
    \/ \E k \in Keys : "consent" \in use /\ (Tick(k) \/ Untick(k))

\* The actions nobody clicks for.
SetupGoesOn ==
    \/ \E w \in Windows : RefreshEnds(w)
    \/ \E w \in Windows, m \in Models : InstallStarts(w, m) \/ InstallRefused(w, m)
    \/ \E m \in Models : InstallEnds(m)
    \/ \E k \in Monitors : MonitorPolls(k) \/ MonitorWakes(k)
    \/ \E k \in Keys, agrees \in BOOLEAN : AnswerConsent(k, agrees)
=============================================================================
