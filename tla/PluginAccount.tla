---------------------------- MODULE PluginAccount ----------------------------
(***************************************************************************)
(* How a request of the plugin gets to the Online API: the consent to      *)
(* diagnostics, the Discord sign-in, the credits, the purchase of more,    *)
(* and the post.  Each request goes through these on its own, with several *)
(* modals and browser tabs that nobody may ever answer; what it learnt     *)
(* early it uses late.  The reports of technical errors wait in an outbox  *)
(* of their own.                                                           *)
(*                                                                         *)
(* The sign-in is composed with the gateway's: every enrollment, licence,  *)
(* callback and poll below is that of OAuthEnrollment, for one user on one *)
(* installation.  A request is the gateway's poll thread of its own name.  *)
(***************************************************************************)
EXTENDS PluginSetup, Sequences, SequencesExt

CONSTANTS
    User,         \* the Discord account
    Computer,     \* remoteVisionInstallationId
    Enrollments,  \* bound: enrollment ids drawn, one licence each
    Requests,     \* bound: requests at a time
    MaxPayments,  \* bound: invoices paid
    Balances,     \* credits the account may start with
    Pack,         \* credits of a pack
    MaxReports,   \* bound: errors reported, in any scene
    Outbox,       \* MAX_PENDING_OPERATIONAL_ERRORS
    Scenes        \* bound: a user goes about the things of one of these

Licences == 1..Cardinality(Enrollments)
Reports  == 1..MaxReports
Kinds    == {"local", "image", "chat", "audit"}

ASSUME AccountBounds ==
    /\ {MaxPayments, Pack, MaxReports, Outbox} \subseteq Nat
    /\ Balances \subseteq Nat /\ IsFiniteSet(Enrollments)
    /\ \A s \in Scenes : /\ s.kinds \subseteq Kinds /\ {s.clicks, s.stops, s.reports} \subseteq Nat
                         /\ s.left \subseteq Leftovers

VARIABLES
    enrollment, licences, callback, poll,   \* the gateway: OAuthEnrollment
    balance,   \* the account's credits
    unpaid,    \* invoices whose checkout is open
    paid,      \* bound counter: payments
    scene,     \* the scene, and what is left of its clicks and stops
    licence,   \* settings.remoteLicense, or 0
    drawn,     \* enrollment ids drawn so far
    tabs,      \* enrollments whose sign-in page waits in the browser
    overlap,   \* two sign-ins, or their pages, have been open at once
    req,       \* the requests
    reported,  \* errors reported so far, numbered in that order
    queue,     \* pendingOperationalErrors
    flush,     \* the run of flushOperationalErrors
    accepted   \* reports that someone has accepted

gate    == <<enrollment, licences, callback, poll>>
credits == <<balance, unpaid, paid>>
signIns == <<drawn, tabs, overlap>>
outbox  == <<reported, queue, flush, accepted>>
vars    == <<setupVars, gate, credits, scene, licence, signIns, req, outbox>>

Gateway == INSTANCE OAuthEnrollment WITH
    User <- {User}, Installation <- {Computer}, Enrollment <- Enrollments,
    Home <- [e \in Enrollments |-> Computer], MaxLicences <- Cardinality(Enrollments),
    Callback <- {1}, Poll <- Requests

NoRequest == [kind |-> "none", pc |-> "idle", diag |-> FALSE, aborted |-> FALSE,
              enr |-> Gateway!NoEnrollment, reply |-> "none", got |-> 0, lic |-> 0]
NoFlush   == [item |-> 0, to |-> "nobody"]

\* Where a request is: at a modal, waiting for an answer, or asleep.
AtModal   == {"consent", "connect", "buy"}
Stages    == {"idle", "start", "asleep", "polling", "balance", "purchase",
              "unpaid", "post"} \cup AtModal
SigningIn == {"start", "connect", "asleep", "polling"}

TypeOK ==
    /\ SetupTypes
    /\ Gateway!TypeOK
    /\ balance \in Nat /\ unpaid \in Nat /\ paid \in 0..MaxPayments
    /\ scene.clicks \in Nat /\ scene.stops \in Nat
    /\ licence \in Licences \cup {0}
    /\ tabs \subseteq drawn /\ drawn \subseteq Enrollments
    /\ overlap \in BOOLEAN
    /\ req \in [Requests ->
         [kind : Kinds \cup {"none"}, pc : Stages, diag : BOOLEAN, aborted : BOOLEAN,
          enr : Enrollments \cup {Gateway!NoEnrollment},
          lic : Licences \cup {0}, got : Licences \cup {0},
          reply : {"none", "lost", "pending", "denied", "gone", "complete"}]]
    /\ reported \in 0..MaxReports
    /\ Len(queue) <= Outbox /\ Range(queue) \subseteq Reports
    /\ flush \in [item : 0..MaxReports, to : {"nobody", "companion", "gateway", "seedframe"}]
    /\ accepted \subseteq Reports

Init ==
    /\ scene \in Scenes
    /\ SetupInit(scene.left)
    /\ Gateway!Init
    /\ balance \in Balances
    /\ unpaid = 0 /\ paid = 0
    /\ licence = 0
    /\ drawn = {} /\ tabs = {}
    /\ overlap = FALSE
    /\ req = [f \in Requests |-> NoRequest]
    /\ reported = 0
    /\ queue = <<>>
    /\ flush = NoFlush
    /\ accepted = {}

\* A click of the user.
Clicks == /\ scene.clicks > 0
          /\ scene' = [scene EXCEPT !.clicks = @ - 1]

\* The gateway accepts the licence.
Accepted(l) == l # 0 /\ licences[l].status = "active"

-----------------------------------------------------------------------------
(* The outbox *)

Sending == flush.item # 0

\* flushOperationalErrors, given the outbox q: one run at a time, from the head.
Flushes(q) ==
    IF Sending \/ ~running \/ q = <<>> THEN flush
    ELSE [item |-> Head(q), to |-> "companion"]

\* The oldest reports give way.
Trimmed(q) == SubSeq(q, Max({1, Len(q) - Outbox + 1}), Len(q))

\* queueOperationalError: the report joins the outbox, and a flush is tried.
\* (A newer report of the same event would take the older one's place: every
\* submission draws an event of its own, so there is none.)
Reported ==
    LET q == Trimmed(Append(queue, reported + 1)) IN
    /\ reported' = reported + 1
    /\ queue' = q
    /\ flush' = Flushes(q)
    /\ UNCHANGED accepted

\* The end of refreshHistory sends what is left.
FlushAgain ==
    /\ Flushes(queue) # flush
    /\ flush' = Flushes(queue)
    /\ UNCHANGED <<setupVars, gate, credits, scene, licence, signIns, req,
                   reported, queue, accepted>>

\* What the loop does after the head of q was taken off.
Continues(q) ==
    IF running /\ q # <<>> THEN [item |-> Head(q), to |-> "companion"] ELSE NoFlush

\* The companion, the gateway's webhook or Seedframe accepts the report: the
\* head leaves the outbox, whatever the head is by now.
ReportAccepted ==
    LET q == IF queue = <<>> THEN <<>> ELSE Tail(queue) IN
    /\ Sending
    /\ flush.to = "gateway" => Accepted(licence)
    /\ accepted' = accepted \cup {flush.item}
    /\ queue' = q
    /\ flush' = Continues(q)
    /\ UNCHANGED <<setupVars, gate, credits, scene, licence, signIns, req, reported>>

\* Slip: a report that nobody accepts is dropped.
ReportRefusedMutant ==
    /\ Sending
    /\ IF flush.to = "seedframe"
       THEN queue' = (IF queue = <<>> THEN <<>> ELSE Tail(queue)) /\ flush' = NoFlush
       ELSE /\ flush' = [flush EXCEPT !.to = IF @ = "companion" THEN "gateway" ELSE "seedframe"]
            /\ UNCHANGED queue
    /\ UNCHANGED <<setupVars, gate, credits, scene, licence, signIns, req, reported, accepted>>

\* It is refused: the next of the three is tried, or the report stays.
ReportRefused ==
    /\ Sending
    /\ flush' = CASE flush.to = "companion" /\ licence # 0 -> [flush EXCEPT !.to = "gateway"]
                  [] flush.to = "companion" /\ licence = 0 -> [flush EXCEPT !.to = "seedframe"]
                  [] flush.to = "gateway"                  -> [flush EXCEPT !.to = "seedframe"]
                  [] OTHER                                 -> NoFlush
    /\ UNCHANGED <<setupVars, gate, credits, scene, licence, signIns, req,
                   reported, queue, accepted>>

-----------------------------------------------------------------------------
(* A request *)

At(f, pc) == req[f].pc = pc
Goes(f, pc) == req' = [req EXCEPT ![f].pc = pc]

\* A request ends, with its session or reply or with an error.
Over(f) == req' = [req EXCEPT ![f] = NoRequest]

Required(kind) == IF kind = "image" THEN 3 ELSE 1

\* Slip: a saved licence is not looked at.
NeedsMutant(kind) == IF kind = "local" THEN "post" ELSE "start"

\* Where a request goes once its consent is settled: a local image needs no
\* account, and a saved licence is used as it is.
Needs(kind) ==
    IF kind = "local" THEN "post"
    ELSE IF licence = 0 THEN "start"
    ELSE IF kind = "audit" THEN "post" ELSE "balance"

\* The request goes on at pc; a sign-in may begin beside another.
GoesOn(f, v, pc) ==
    /\ req' = [req EXCEPT ![f] = [v EXCEPT !.pc = pc, !.lic = licence]]
    /\ overlap' = (overlap \/ (pc = "start" /\ \E g \in Requests \ {f} : req[g].pc \in SigningIn))

Images == {"local", "image"}

\* requestVisionPrompt, or a message to Qwen.  An image needs the current setup,
\* and takes its consent to diagnostics along.  (kind is that of a free slot.)
Begin(f, kind) ==
    LET asks == kind \in Images /\ conf.diagnostics
        v    == [NoRequest EXCEPT !.kind = kind, !.diag = asks /\ receipt["diagnostics"]]
    IN
    /\ running
    /\ kind \in scene.kinds /\ Clicks
    /\ At(f, "idle")
    /\ IF kind \in Images /\ ~conf.done
       THEN OpenSetup /\ UNCHANGED <<req, overlap>>
       ELSE /\ UNCHANGED setup
            /\ IF asks /\ ~receipt["diagnostics"]
               THEN req' = [req EXCEPT ![f] = [v EXCEPT !.pc = "consent"]] /\ UNCHANGED overlap
               ELSE GoesOn(f, v, Needs(kind))
    /\ UNCHANGED <<running, pending, conf, receipt, box, modals, monitor, install,
                   gate, credits, licence, drawn, tabs, outbox>>

\* ensureDiagnosticConsent found no current receipt and asked.
AnswerDiagnostics(f, agrees) ==
    /\ At(f, "consent")
    /\ receipt' = [receipt EXCEPT !["diagnostics"] = @ \/ agrees]
    /\ conf' = [conf EXCEPT !.diagnostics = @ /\ agrees]
    /\ GoesOn(f, [req[f] EXCEPT !.diag = agrees], Needs(req[f].kind))
    /\ UNCHANGED <<running, pending, box, modals, setup, monitor, install,
                   gate, credits, scene, licence, drawn, tabs, outbox>>

\* The user closes the window or cancels the job the request belongs to.
Abort(f) ==
    /\ "abort" \in scene.use /\ Clicks
    /\ ~At(f, "idle") /\ ~req[f].aborted
    /\ req' = [req EXCEPT ![f].aborted = TRUE]
    /\ UNCHANGED <<setupVars, gate, credits, licence, signIns, outbox>>

-----------------------------------------------------------------------------
(* ensureRemoteLicense *)

\* POST oauth/start arrives with an id drawn at random, and its answer does.
SignInStarts(f) ==
    /\ At(f, "start") /\ ~req[f].aborted
    /\ drawn # Enrollments
    /\ LET e == CHOOSE x \in Enrollments \ drawn : TRUE IN
       /\ Gateway!StartOauth(e)
       /\ drawn' = drawn \cup {e}
       /\ req' = [req EXCEPT ![f].pc = "connect", ![f].enr = e]
    /\ UNCHANGED <<setupVars, credits, scene, licence, tabs, overlap, outbox>>

\* openVerifiedExternal: the browser's pages when it shows sign-in e too.  (A link
\* that does not open ends the request, as a refusal does.)
BrowserShows(e) == tabs \cup {e}

\* The modal waits whatever becomes of the request; a yes opens the browser.
AnswerConnect(f, agrees) ==
    /\ At(f, "connect")
    /\ IF agrees THEN /\ Goes(f, "asleep")
                      /\ tabs' = BrowserShows(req[f].enr)
                      /\ overlap' = (overlap \/ tabs # {})
       ELSE Over(f) /\ UNCHANGED <<tabs, overlap>>
    /\ UNCHANGED <<setupVars, gate, credits, scene, licence, drawn, outbox>>

\* Every 1.5 seconds until the deadline the request asks how the sign-in is.
SignInPolls(f) ==
    /\ At(f, "asleep") /\ ~req[f].aborted
    /\ req' = [req EXCEPT ![f].pc = "polling", ![f].reply = "none"]
    /\ UNCHANGED <<setupVars, gate, credits, scene, licence, signIns, outbox>>

\* The gateway's answer, but for a token: 'expired' is its 410.
Status(e) ==
    IF ~Gateway!Exists(e) \/ enrollment[e].late THEN "gone"
    ELSE CASE enrollment[e].status = "complete" /\ enrollment[e].delivered -> "gone"
           [] OTHER -> enrollment[e].status

StatusRead(f) ==
    /\ At(f, "polling") /\ req[f].reply = "none" /\ poll[f] = Gateway!IdlePoll
    /\ IF Status(req[f].enr) = "complete"
       THEN Gateway!PollRead(f, req[f].enr) /\ UNCHANGED req
       ELSE req' = [req EXCEPT ![f].reply = Status(req[f].enr)] /\ UNCHANGED gate
    /\ UNCHANGED <<setupVars, credits, scene, licence, signIns, outbox>>

\* The token is on its way; it may never arrive, or find its request over.
TokenDelivered(f) ==
    LET l == poll[f].licence IN
    /\ Gateway!PollDeliver(f)
    /\ \E lost \in BOOLEAN :
         req' = IF ~At(f, "polling") \/ poll[f].enrollment # req[f].enr THEN req
                ELSE [req EXCEPT ![f].reply = IF lost THEN "lost" ELSE "complete",
                                 ![f].got = l]
    /\ UNCHANGED <<setupVars, credits, scene, licence, signIns, outbox>>

\* The request itself, or its answer, is lost, or the gateway stops meanwhile.
PollLost(f) ==
    /\ At(f, "polling") /\ req[f].reply = "none" /\ poll[f] = Gateway!IdlePoll
    /\ req' = [req EXCEPT ![f].reply = "lost"]
    /\ UNCHANGED <<setupVars, gate, credits, scene, licence, signIns, outbox>>

PollTaken(f) ==
    LET v == [req[f] EXCEPT !.reply = "none"] IN
    /\ At(f, "polling") /\ req[f].reply # "none"
    /\ CASE req[f].reply \in {"pending", "lost"} -> Goes(f, "asleep") /\ UNCHANGED licence
         [] req[f].reply \in {"denied", "gone"}  -> Over(f) /\ UNCHANGED licence
         [] req[f].reply = "complete" ->
              /\ licence' = v.got   \* whichever sign-in comes last
              /\ req' = [req EXCEPT ![f] =
                   [v EXCEPT !.pc = IF v.kind = "audit" THEN "post" ELSE "balance",
                             !.lic = v.got, !.got = 0, !.enr = Gateway!NoEnrollment]]
    /\ UNCHANGED <<setupVars, gate, credits, scene, signIns, outbox>>

\* The browser and the gateway: the user approves or refuses, now or later.
BrowserActs ==
    /\ \/ /\ \/ \E e \in tabs, approved \in BOOLEAN : Gateway!CallbackRead(1, e, approved)
             \/ Gateway!Identify(1, User) \/ Gateway!IdentifyFails(1) \/ Gateway!CheckBan(1)
          /\ UNCHANGED tabs
       \/ /\ Gateway!Deny(1) \/ Gateway!Issue(1)
          /\ tabs' = tabs \ {callback[1].enrollment}
    /\ UNCHANGED <<setupVars, credits, scene, licence, drawn, overlap, req, outbox>>

EnrollmentExpires(e) ==
    /\ "expiry" \in scene.use
    /\ Gateway!Expire(e)
    /\ UNCHANGED <<setupVars, credits, scene, licence, signIns, req, outbox>>

GatewayRestarts ==
    /\ "expiry" \in scene.use
    /\ <<callback, poll>> # <<[c \in {1} |-> Gateway!IdleCallback],
                              [p \in Requests |-> Gateway!IdlePoll]>>
    /\ Gateway!Restart
    /\ UNCHANGED <<setupVars, credits, scene, licence, signIns, req, outbox>>

-----------------------------------------------------------------------------
(* ensureRemoteCredits, and the post *)

\* The balance suffices, or the user is asked to buy.
BalanceRead(f) ==
    /\ At(f, "balance") /\ ~req[f].aborted
    /\ Accepted(req[f].lic)
    /\ Goes(f, IF balance >= Required(req[f].kind) THEN "post" ELSE "buy")
    /\ UNCHANGED <<setupVars, gate, credits, scene, licence, signIns, outbox>>

AnswerBuy(f, agrees) ==
    /\ At(f, "buy")
    /\ IF agrees THEN Goes(f, "purchase") ELSE Over(f)
    /\ UNCHANGED <<setupVars, gate, credits, scene, licence, signIns, outbox>>

\* The gateway makes an invoice, the browser shows its checkout.
Purchase(f) ==
    /\ At(f, "purchase") /\ ~req[f].aborted
    /\ Accepted(req[f].lic)
    /\ unpaid' = Min({unpaid + 1, 1})
    /\ Goes(f, "unpaid")
    /\ UNCHANGED <<setupVars, gate, balance, paid, scene, licence, signIns, outbox>>

\* The user pays; the invoice settles.
Payment ==
    /\ unpaid > 0
    /\ paid < MaxPayments
    /\ unpaid' = unpaid - 1
    /\ paid' = paid + 1
    /\ balance' = balance + Pack
    /\ UNCHANGED <<setupVars, gate, scene, licence, signIns, req, outbox>>

\* Every 4 seconds until the deadline the balance is read again.
PaymentSeen(f) ==
    /\ At(f, "unpaid") /\ ~req[f].aborted
    /\ Accepted(req[f].lic)
    /\ balance >= Required(req[f].kind)
    /\ Goes(f, "post")
    /\ UNCHANGED <<setupVars, gate, credits, scene, licence, signIns, outbox>>

\* The session is issued and the image goes to the companion, or the chat's job
\* to the gateway, which holds its credits or refuses.
Post(f) ==
    LET v == req[f] IN
    /\ At(f, "post") /\ ~v.aborted
    /\ balance' = IF v.kind \in {"image", "chat"} /\ Accepted(v.lic)
                     /\ balance >= Required(v.kind)
                  THEN balance - Required(v.kind) ELSE balance
    /\ Over(f)
    /\ UNCHANGED <<setupVars, gate, unpaid, paid, scene, licence, signIns, outbox>>

\* Any other end: an answer of the gateway that is refused or does not come, a
\* link that does not open, a deadline, an abort.  A request at a modal waits on.
\* An image's error is reported, unless the plugin stopped meanwhile.
GivesUp(f) ==
    /\ req[f].pc \notin AtModal \cup {"idle"}
    /\ Over(f)
    /\ IF req[f].kind \in Images /\ ~req[f].aborted /\ reported < scene.reports
       THEN Reported ELSE UNCHANGED outbox
    /\ UNCHANGED <<setupVars, gate, credits, scene, licence, signIns>>

-----------------------------------------------------------------------------
(* The plugin *)

\* stop() aborts the requests and forgets the reports; a flush goes on.
Stop ==
    /\ scene.stops > 0
    /\ scene' = [scene EXCEPT !.stops = @ - 1]
    /\ SetupStops
    /\ req' = [f \in Requests |->
         IF At(f, "idle") THEN req[f] ELSE [req[f] EXCEPT !.aborted = TRUE]]
    /\ queue' = <<>>
    /\ UNCHANGED <<gate, credits, licence, signIns, reported, flush, accepted>>

Start ==
    /\ SetupStarts
    /\ UNCHANGED <<gate, credits, scene, licence, signIns, req, outbox>>

SetupStep ==
    /\ \/ SetupActs(scene.use) /\ Clicks
       \/ SetupGoesOn /\ UNCHANGED scene
    /\ UNCHANGED <<gate, credits, licence, signIns, req, outbox>>

\* A step of request f that nobody clicks for.
Proceeds(f) ==
    \/ SignInStarts(f) \/ SignInPolls(f) \/ StatusRead(f) \/ TokenDelivered(f)
    \/ PollTaken(f) \/ PollLost(f)
    \/ BalanceRead(f) \/ Purchase(f) \/ PaymentSeen(f) \/ Post(f) \/ GivesUp(f)

Next ==
    \/ SetupStep
    \/ \E f \in Requests :
         \/ \E kind \in Kinds : Begin(f, kind)
         \/ \E agrees \in BOOLEAN :
              AnswerDiagnostics(f, agrees) \/ AnswerConnect(f, agrees) \/ AnswerBuy(f, agrees)
         \/ Abort(f)
         \/ Proceeds(f)
    \/ BrowserActs
    \/ \E e \in Enrollments : EnrollmentExpires(e)
    \/ GatewayRestarts
    \/ Payment
    \/ FlushAgain \/ ReportAccepted \/ ReportRefused
    \/ Stop \/ Start

Spec == Init /\ [][Next]_vars

-----------------------------------------------------------------------------
(* Properties *)

\* A licence that the plugin has saved is one the gateway accepts, so that
\* "Connect Discord once" holds: lost answers, refusals, expiries and restarts
\* in the middle of a sign-in leave either none or a good one.  (Two sign-ins
\* at once do not: the second replaces the licence of the first, and the first
\* may be saved last.  Nor does the page of an abandoned sign-in, approved after
\* another sign-in has succeeded.)
LicenceWorks ==
    licence # 0 /\ ~overlap => licences[licence].status = "active"

\* No consent is ever given without its receipt: across two modals at once, the
\* setup window saved beside the panel and a request that asks, a setting that
\* is on either has its receipt or was so left by an older release.
ConsentHasReceipt ==
    [][\A k \in Keys : conf'[k] /\ ~receipt'[k] => conf[k] /\ ~receipt[k]]_vars

\* The head of the outbox is no longer the report that is being sent.
Moved == Sending /\ (queue = <<>> \/ Head(queue) # flush.item)

\* "Failed delivery stays only in a bounded in-memory retry queue": a report
\* leaves the outbox because it was accepted, because the limit took the oldest,
\* or because the plugin stopped; unless the outbox moved under a send, whose
\* acceptance then takes a report along that nobody has accepted.
ReportsKept ==
    [][\A r \in Range(queue) \ Range(queue') :
         \/ r \in accepted'
         \/ ~running'
         \/ Moved
         \/ reported' > reported /\ Len(queue) = Outbox /\ r = Min(Range(queue))]_vars

\* A setup window that says it is checking has a request under way, so that its
\* button comes back; and it follows one install at most, however often the
\* user asks for others.
SetupNeverStuck ==
    /\ \A w \in Windows : setup[w].refreshing = setup[w].fetch
    /\ \A j, k \in Monitors :
         /\ monitor[j].pc # "idle" /\ monitor[k].pc # "idle"
         /\ monitor[j].w = monitor[k].w /\ monitor[j].token = monitor[k].token
         => j = k

=============================================================================
