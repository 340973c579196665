---------------------------- MODULE PluginVision ----------------------------
(***************************************************************************)
(* The BetterDiscord plugin's way from a click to a prompt: the buttons it *)
(* puts on Discord's images, the metadata probe that looks for a prompt    *)
(* inside the image first, the serial queue of Vision requests, the        *)
(* Interrogate panel's uploads, the rows of the history rail that stand    *)
(* for requests not yet submitted, their cancellation, and the plugin's    *)
(* start and stop around all of it.                                        *)
(*                                                                         *)
(* The plugin runs in one JavaScript thread, so an action is what runs     *)
(* between two awaits; everything awaited (a download, a modal, a session, *)
(* the answer) may be overtaken by Discord changing the page, by a click,  *)
(* or by the plugin being stopped and started again.                       *)
(***************************************************************************)
EXTENDS Integers, Sequences, FiniteSets, SequencesExt

CONSTANTS
    Attachments,    \* the Discord attachments (and uploaded files)
    Trusted,        \* those whose channel belongs to the allowlisted server
    WithPrompt,     \* those whose bytes embed a usable prompt
    WithYaml,       \* those whose message carries a usable YAML sidecar
    Supported,      \* those whose bytes are PNG, JPEG or WebP
    Files,          \* those the user has as files to upload
    Images,         \* <img> elements of the message area
    Channels,       \* allowlisted channels
    MaxFlows,       \* bound: clicks and uploads of a behaviour
    MaxGenerations, \* bound: starts and stops of a behaviour
    MaxMoves,       \* bound: changes Discord makes to the page
    CacheSize,      \* MAX_CACHED_ORIGINALS
    None

ASSUME FlowBounds ==
    /\ MaxFlows \in Nat \ {0}
    /\ MaxGenerations \in Nat \ {0}
    /\ MaxMoves \in Nat
    /\ CacheSize \in Nat \ {0}
    /\ Trusted \cup WithPrompt \cup WithYaml \cup Supported \cup Files
          \subseteq Attachments
    /\ None \notin Attachments \cup Channels

VARIABLES
    running,        \* this.running
    generation,     \* this.generation, counts starts and stops
    shows,          \* element -> attachment its src names, None when detached
    channel,        \* the verified route's channel, None when it has none
    lastPath,       \* this.lastPathname
    moves,          \* bound counter of Discord's changes
    buttons,        \* kind -> element -> the button on it
    flow,           \* the asynchronous flows, by click
    queue,          \* visionFlowQueue: the flows chained on it, first runs
    rows,           \* localVisionSubmissions: status of a flow's row
    hashed,         \* rows whose image_hash is known
    cache,          \* originalCache, least recently used first
    modal,          \* attachment whose source prompt the modal shows
    upload,         \* the Interrogate panel's file: selection and preparing
    pending,        \* interrogatePendingCount
    diagnostics,    \* shareFailureDiagnostics and its receipt
    server          \* what the companion knows of a flow's job

page    == <<shows, channel, lastPath, moves>>
panel   == <<upload, pending>>
vars    == <<running, generation, page, buttons, flow, queue, rows, hashed,
             cache, modal, panel, diagnostics, server>>

Flows     == 1..MaxFlows
Kinds     == {"plus", "magnifier"}
Stages    == {"free", "inspect", "queued", "download", "consent", "session",
              "vision", "done"}
Active    == {"download", "consent", "session", "vision"}
NoButton  == [on |-> FALSE, key |-> None, flow |-> 0]
NoFlow    == [kind |-> "none", img |-> None, att |-> None, chan |-> None,
              gen |-> 0, pc |-> "free", aborted |-> FALSE, bytes |-> None,
              sent |-> None]
NoUpload  == [selection |-> None, preparing |-> None]

TypeOK ==
    /\ running \in BOOLEAN
    /\ generation \in 0..MaxGenerations
    /\ shows \in [Images -> Attachments \cup {None}]
    /\ channel \in Channels \cup {None}
    /\ lastPath \in Channels \cup {None}
    /\ moves \in 0..MaxMoves
    /\ buttons \in [Kinds -> [Images -> [on: BOOLEAN,
                                         key: Attachments \cup {None},
                                         flow: Flows \cup {0}]]]
    /\ flow \in [Flows -> [kind: Kinds \cup {"upload", "none"},
                           img: Images \cup {None},
                           att: Attachments \cup {None},
                           chan: Channels \cup {None},
                           gen: 0..MaxGenerations,
                           pc: Stages,
                           aborted: BOOLEAN,
                           bytes: Attachments \cup {None},
                           sent: Attachments \cup {None}]]
    /\ queue \in Seq(Flows)
    /\ rows \in [Flows -> {"none", "queued", "cancelled", "error"}]
    /\ hashed \subseteq Flows
    /\ cache \in Seq([key: Attachments, bytes: Attachments])
    /\ modal \in Attachments \cup {None}
    /\ upload \in [selection: Attachments \cup {None},
                   preparing: Attachments \cup {None}]
    /\ pending \in 0..MaxFlows
    /\ diagnostics \in {"off", "asked", "agreed"}
    /\ server \in [Flows -> {"none", "received", "cancelled", "answered"}]

-----------------------------------------------------------------------------
(* Buttons *)

\* An image gets buttons only when it is attached, the channel is verified
\* against the allowlist and its attachment belongs to that server.
Eligible(i) ==
    /\ channel # None
    /\ shows[i] \in Trusted

\* A button outlives a rescan only while it still names the image's source.
Enhance(b, i) ==
    IF ~Eligible(i) THEN NoButton
    ELSE IF b.on /\ b.key = shows[i] THEN b
    ELSE [on |-> TRUE, key |-> shows[i], flow |-> 0]

NoButtons == [k \in Kinds |-> [i \in Images |-> NoButton]]

\* The button a flow was started from is a DOM node of its own: once replaced
\* or detached with its image it is not connected, whatever replaced it.
Connected(f) ==
    /\ flow[f].kind \in Kinds
    /\ shows[flow[f].img] # None
    /\ buttons[flow[f].kind][flow[f].img].flow = f

\* button.dataset.busy = "false", on the button that started flow f.
Release(f) ==
    IF flow[f].kind \in Kinds /\ buttons[flow[f].kind][flow[f].img].flow = f
    THEN [buttons EXCEPT ![flow[f].kind][flow[f].img].flow = 0]
    ELSE buttons

\* scheduleScan: a changed page is due for one scan, unless the plugin stops
\* before its timer or its frame comes.
ScanDue == running

Scan ==
    /\ ScanDue
    /\ buttons' = [k \in Kinds |-> [i \in Images |-> Enhance(buttons[k][i], i)]]
    /\ UNCHANGED <<running, generation, page, flow, queue, rows, hashed, cache,
                   modal, panel, diagnostics, server>>

-----------------------------------------------------------------------------
(* Discord *)

\* Discord attaches, detaches or reuses an <img>; a detached one takes its
\* buttons with it.
Rerender(i) ==
    /\ moves < MaxMoves
    /\ \E a \in (Attachments \cup {None}) \ {shows[i]} :
          /\ shows' = [shows EXCEPT ![i] = a]
          /\ buttons' = IF a = None
                        THEN [k \in Kinds |-> [buttons[k] EXCEPT ![i] = NoButton]]
                        ELSE buttons
    /\ moves' = moves + 1
    /\ UNCHANGED <<running, generation, channel, lastPath, flow, queue, rows,
                   hashed, cache, modal, panel, diagnostics, server>>

Navigate ==
    /\ moves < MaxMoves
    /\ \E c \in (Channels \cup {None}) \ {channel} : channel' = c
    /\ moves' = moves + 1
    /\ UNCHANGED <<running, generation, shows, lastPath, buttons, flow, queue,
                   rows, hashed, cache, modal, panel, diagnostics, server>>

\* The one-second route timer.
RouteTick ==
    /\ running
    /\ lastPath # channel
    /\ lastPath' = channel
    /\ buttons' = NoButtons
    /\ UNCHANGED <<running, generation, shows, channel, moves, flow, queue, rows,
                   hashed, cache, modal, panel, diagnostics, server>>

-----------------------------------------------------------------------------
(* Selection and metadata *)

NewFlow == CHOOSE f \in Flows :
              /\ flow[f].pc = "free"
              /\ \A g \in Flows : flow[g].pc = "free" => f <= g

\* What the click froze: the source the image shows now, and the route.
CanCapture(i) == channel # None /\ shows[i] \in Trusted

\* The captured image must still be the one on the page.
SameSelection(f) ==
    /\ channel = flow[f].chan
    /\ shows[flow[f].img] = flow[f].att
    /\ flow[f].att \in Trusted

\* A redirect may answer with another attachment: only the same is kept.
KeepRedirectMutant(final, att) == final \in Attachments
DownloadKept(final, att) == final = att

CachedBytes(a) == {cache[n].bytes : n \in {m \in 1..Len(cache) : cache[m].key = a}}

\* What reading the original of a can give: the cached bytes, or a download,
\* None when it failed or changed identity.
Originals(a) ==
    IF CachedBytes(a) # {} THEN CachedBytes(a)
    ELSE {None} \cup {b \in Attachments : DownloadKept(b, a)}

\* cacheOriginal: the newest entry last, the oldest dropped beyond the limit.
Cached(a, b) ==
    LET old  == {n \in DOMAIN cache : cache[n].key = a}
        rest == IF old = {} THEN cache ELSE RemoveAt(cache, CHOOSE n \in old : TRUE)
        kept == Append(rest, [key |-> a, bytes |-> b])
    IN  IF Len(kept) > CacheSize THEN Tail(kept) ELSE kept

\* The embedded prompt of the bytes read, or the message's YAML.
Usable(a, b) == b \in WithPrompt \/ a \in WithYaml

StartInspect(i, kind) ==
    /\ running
    /\ shows[i] # None
    /\ buttons[kind][i].on
    /\ buttons[kind][i].flow = 0
    /\ CanCapture(i)
    /\ \E f \in Flows : flow[f].pc = "free"
    /\ flow' = [flow EXCEPT ![NewFlow] =
                  [NoFlow EXCEPT !.kind = kind, !.img = i, !.att = shows[i],
                                 !.chan = channel, !.gen = generation,
                                 !.pc = "inspect"]]
    /\ buttons' = [buttons EXCEPT ![kind][i].flow = NewFlow]
    /\ UNCHANGED <<running, generation, page, queue, rows, hashed, cache, modal,
                   panel, diagnostics, server>>

ClickPlus(i)      == StartInspect(i, "plus")
ClickMagnifier(i) == StartInspect(i, "magnifier")

\* The context menu's "Get prompt": an eligible image gets its buttons first.
ContextGetPrompt(i) ==
    /\ running
    /\ Eligible(i)
    /\ LET b == Enhance(buttons["magnifier"][i], i)
       IN  /\ b.flow = 0
           /\ \E f \in Flows : flow[f].pc = "free"
           /\ flow' = [flow EXCEPT ![NewFlow] =
                         [NoFlow EXCEPT !.kind = "magnifier", !.img = i,
                                        !.att = shows[i], !.chan = channel,
                                        !.gen = generation, !.pc = "inspect"]]
           /\ buttons' = [buttons EXCEPT
                            !["plus"][i] = Enhance(buttons["plus"][i], i),
                            !["magnifier"][i] = [b EXCEPT !.flow = NewFlow]]
    /\ UNCHANGED <<running, generation, page, queue, rows, hashed, cache, modal,
                   panel, diagnostics, server>>

\* addLocalVisionSubmission and the flow chained on visionFlowQueue.
Enqueue(f) ==
    /\ rows' = [rows EXCEPT ![f] = "queued"]
    /\ queue' = Append(queue, f)

\* showClassification: the button says why there is no prompt, and is free.
Classified(f) == Release(f)

\* The inspection answers, or its eight seconds pass first.
Inspected(f) ==
    /\ flow[f].pc = "inspect"
    /\ ~flow[f].aborted
    /\ \E late \in BOOLEAN : \E b \in Originals(flow[f].att) :
          LET usable == ~late /\ Usable(flow[f].att, b)
              on     == flow[f].kind = "magnifier" /\ ~usable
          IN  /\ cache' \in (IF b = None THEN {cache}
                             ELSE {Cached(flow[f].att, b)}
                                  \cup (IF late THEN {cache} ELSE {}))
              /\ modal' = IF usable THEN flow[f].att ELSE modal
              /\ flow' = [flow EXCEPT
                            ![f].pc = IF on THEN "queued" ELSE "done"]
              /\ IF on THEN Enqueue(f) /\ UNCHANGED buttons
                       ELSE /\ buttons' = IF usable THEN Release(f) ELSE Classified(f)
                            /\ UNCHANGED <<queue, rows>>
    /\ UNCHANGED <<running, generation, page, hashed, panel, diagnostics, server>>

\* stop() aborted it: the probe's flow clears its button, the magnifier's
\* returns silently.
InspectAborted(f) ==
    /\ flow[f].pc = "inspect"
    /\ flow[f].aborted
    /\ flow' = [flow EXCEPT ![f].pc = "done"]
    /\ buttons' = IF flow[f].kind = "plus" THEN Release(f) ELSE buttons
    /\ UNCHANGED <<running, generation, page, queue, rows, hashed, cache, modal,
                   panel, diagnostics, server>>

CloseModal ==
    /\ modal # None
    /\ modal' = None
    /\ UNCHANGED <<running, generation, page, buttons, flow, queue, rows, hashed,
                   cache, panel, diagnostics, server>>

-----------------------------------------------------------------------------
(* The serial Vision queue: the head of queue is the flow that runs *)

Current(f) == running /\ flow[f].gen = generation

AtHead(f, pc) == queue # <<>> /\ Head(queue) = f /\ flow[f].pc = pc

\* A flow's end: off the queue, its button free again, and for an upload one
\* less pending. row is what becomes of its row.
Settle(f, row) ==
    /\ flow' = [flow EXCEPT ![f].pc = "done"]
    /\ queue' = Tail(queue)
    /\ buttons' = Release(f)
    /\ rows' = [rows EXCEPT ![f] = IF @ = "none" THEN "none" ELSE row]
    /\ pending' = IF flow[f].kind = "upload" /\ pending > 0
                  THEN pending - 1 ELSE pending

\* What the catch of a flow does with its row: an error of the current
\* generation is shown on an upload's row; one of an image was already
\* handled by analyzeWithVision, and its row goes.
RowStaysMutant(f) == rows[f]
RowAfterError(f) ==
    IF Current(f) /\ flow[f].kind = "upload" THEN "error" ELSE "none"

\* Start of an image's turn: its page must still be the one clicked.  (The row
\* of a flow that waits is never an error: armLocalVisionSubmissionTimeout arms
\* no timer any more.  One that reads "cancelled" is not looked for.)
RunImage(f) ==
    /\ AtHead(f, "queued")
    /\ flow[f].kind = "magnifier"
    /\ IF ~Current(f) \/ ~Connected(f)
       THEN Settle(f, "none")
       ELSE IF ~SameSelection(f)
       THEN Settle(f, "error")
       ELSE /\ flow' = [flow EXCEPT ![f].pc = "download"]
            /\ UNCHANGED <<queue, buttons, rows, pending>>
    /\ UNCHANGED <<running, generation, page, hashed, cache, modal, upload,
                   diagnostics, server>>

\* Start of an upload's turn. A flow of an earlier generation returns before
\* the counter: stop() had reset it.
RunUpload(f) ==
    /\ AtHead(f, "queued")
    /\ flow[f].kind = "upload"
    /\ IF ~Current(f)
       THEN /\ flow' = [flow EXCEPT ![f].pc = "done"]
            /\ queue' = Tail(queue)
            /\ rows' = [rows EXCEPT ![f] = "none"]
            /\ UNCHANGED <<buttons, pending>>
       ELSE /\ flow' = [flow EXCEPT ![f].pc = "consent"]
            /\ UNCHANGED <<queue, buttons, rows, pending>>
    /\ UNCHANGED <<running, generation, page, hashed, cache, modal, upload,
                   diagnostics, server>>

\* analyzeWithVision reads the original. Without it, or with bytes Vision does
\* not take, or without a configured endpoint, the flow ends here.
Download(f) ==
    /\ AtHead(f, "download")
    /\ ~flow[f].aborted
    /\ \E b \in Originals(flow[f].att) :
          IF b = None
          THEN /\ Settle(f, RowAfterError(f))
               /\ UNCHANGED <<cache, hashed>>
          ELSE /\ cache' = Cached(flow[f].att, b)
               /\ hashed' = IF rows[f] # "none" THEN hashed \cup {f} ELSE hashed
               /\ \/ /\ b \in Supported
                     /\ flow' = [flow EXCEPT ![f].bytes = b, ![f].pc = "consent"]
                     /\ UNCHANGED <<queue, buttons, rows, pending>>
                  \/ Settle(f, "none")
    /\ UNCHANGED <<running, generation, page, modal, upload, diagnostics, server>>

\* requestVisionPrompt asks for the diagnostics consent if the setting is on
\* and no receipt is stored; refusing turns the setting off. The plugin may
\* be stopped while the modal is open.
Consent(f) ==
    /\ AtHead(f, "consent")
    /\ \/ /\ diagnostics # "asked"
          /\ UNCHANGED diagnostics
       \/ /\ diagnostics = "asked"
          /\ diagnostics' \in {"agreed", "off"}
    /\ flow' = [flow EXCEPT ![f].pc = "session"]
    /\ UNCHANGED <<running, generation, page, buttons, queue, rows, hashed,
                   cache, modal, panel, server>>

\* Setup not completed: the request is refused before anything is asked.
SetupIncomplete(f) ==
    /\ AtHead(f, "consent")
    /\ Settle(f, RowAfterError(f))
    /\ UNCHANGED <<running, generation, page, hashed, cache, modal, upload,
                   diagnostics, server>>

\* The broker's one-use session arrives, and the image is posted with it.
Session(f) ==
    /\ AtHead(f, "session")
    /\ ~flow[f].aborted
    /\ flow' = [flow EXCEPT ![f].pc = "vision", ![f].sent = flow[f].bytes]
    /\ server' = [server EXCEPT ![f] = "received"]
    /\ UNCHANGED <<running, generation, page, buttons, queue, rows, hashed,
                   cache, modal, panel, diagnostics>>

SessionRefused(f) ==
    /\ AtHead(f, "session")
    /\ ~flow[f].aborted
    /\ Settle(f, RowAfterError(f))
    /\ UNCHANGED <<running, generation, page, hashed, cache, modal, upload,
                   diagnostics, server>>

\* Vision answers: a prompt, or an error; a cancelled job answers an error.
Answer(f) ==
    /\ AtHead(f, "vision")
    /\ ~flow[f].aborted
    /\ \/ /\ server[f] = "received"
          /\ server' = [server EXCEPT ![f] = "answered"]
          /\ Settle(f, "none")
       \/ /\ Settle(f, RowAfterError(f))
          /\ UNCHANGED server
    /\ UNCHANGED <<running, generation, page, hashed, cache, modal, upload,
                   diagnostics>>

AbortedUnlessSessionMutant(f) ==
    /\ \E pc \in {"download", "vision"} : AtHead(f, pc)
    /\ flow[f].aborted
    /\ Settle(f, rows[f])
    /\ UNCHANGED <<running, generation, page, hashed, cache, modal, upload,
                   diagnostics, server>>

\* The rejection of an aborted fetch: silent, the row is left to stop().
Aborted(f) ==
    /\ \E pc \in {"download", "session", "vision"} : AtHead(f, pc)
    /\ flow[f].aborted
    /\ Settle(f, rows[f])
    /\ UNCHANGED <<running, generation, page, hashed, cache, modal, upload,
                   diagnostics, server>>

-----------------------------------------------------------------------------
(* The history rail's local rows and the Interrogate panel *)

\* cancelVisionJob on a local row. The companion is asked only when the row
\* carries an image hash; it knows the job only once it received it.
CancelRow(f) ==
    /\ running
    /\ rows[f] = "queued"
    /\ rows' = [rows EXCEPT ![f] = "cancelled"]
    /\ server' = IF f \in hashed /\ server[f] = "received"
                 THEN [server EXCEPT ![f] = "cancelled"] ELSE server
    /\ UNCHANGED <<running, generation, page, buttons, flow, queue, hashed,
                   cache, modal, panel, diagnostics>>

SelectFile(a) ==
    /\ running
    /\ upload.preparing = None
    /\ \E f \in Flows : flow[f].pc = "free"      \* bound: one is left to use it
    /\ upload' = [upload EXCEPT !.preparing = a]
    /\ UNCHANGED <<running, generation, page, buttons, flow, queue, rows, hashed,
                   cache, modal, pending, diagnostics, server>>

\* The file is read and is an image Vision takes, or it is refused; either
\* way an earlier selection is gone.
FileRead ==
    /\ upload.preparing # None
    /\ upload' = [selection |-> IF upload.preparing \in Supported
                                THEN upload.preparing ELSE None,
                  preparing |-> None]
    /\ UNCHANGED <<running, generation, page, buttons, flow, queue, rows, hashed,
                   cache, modal, pending, diagnostics, server>>

ClearSelection ==
    /\ running
    /\ upload.selection # None
    /\ upload' = [upload EXCEPT !.selection = None]
    /\ UNCHANGED <<running, generation, page, buttons, flow, queue, rows, hashed,
                   cache, modal, pending, diagnostics, server>>

\* The panel offers Start only for a selection that is not being replaced.
StartEnabled == upload.selection # None /\ upload.preparing = None

QueueUpload ==
    /\ running
    /\ StartEnabled
    /\ \E f \in Flows : flow[f].pc = "free"
    /\ flow' = [flow EXCEPT ![NewFlow] =
                  [NoFlow EXCEPT !.kind = "upload", !.att = upload.selection,
                                 !.gen = generation, !.pc = "queued",
                                 !.bytes = upload.selection]]
    /\ Enqueue(NewFlow)
    /\ hashed' = hashed \cup {NewFlow}
    /\ upload' = [upload EXCEPT !.selection = None]
    /\ pending' = pending + 1
    /\ UNCHANGED <<running, generation, page, buttons, cache, modal, diagnostics,
                   server>>

-----------------------------------------------------------------------------
(* Start and stop *)

Start ==
    /\ ~running
    /\ generation < MaxGenerations
    /\ running' = TRUE
    /\ generation' = generation + 1
    /\ lastPath' = channel
    /\ UNCHANGED <<shows, channel, moves, buttons, flow, queue, rows, hashed,
                   cache, modal, panel, diagnostics, server>>

\* A flow has an AbortController from the moment it runs.
ControllerOnceSentMutant(f) == flow[f].pc \in {"inspect", "vision"}
HasController(f) == flow[f].pc \in Active \cup {"inspect"}

Stop ==
    /\ running
    /\ generation < MaxGenerations
    /\ running' = FALSE
    /\ generation' = generation + 1
    /\ flow' = [f \in Flows |-> IF HasController(f)
                                THEN [flow[f] EXCEPT !.aborted = TRUE]
                                ELSE flow[f]]
    /\ rows' = [f \in Flows |-> "none"]
    /\ hashed' = {}
    /\ buttons' = NoButtons
    /\ cache' = <<>>
    /\ modal' = None
    /\ upload' = [upload EXCEPT !.selection = None]
    /\ pending' = 0
    /\ UNCHANGED <<page, queue, diagnostics, server>>

Init ==
    /\ running = FALSE
    /\ generation = 0
    /\ shows \in [Images -> Attachments \cup {None}]
    /\ channel \in Channels
    /\ lastPath = None
    /\ moves = 0
    /\ buttons = NoButtons
    /\ flow = [f \in Flows |-> NoFlow]
    /\ queue = <<>>
    /\ rows = [f \in Flows |-> "none"]
    /\ hashed = {}
    /\ cache = <<>>
    /\ modal = None
    /\ upload = NoUpload
    /\ pending = 0
    /\ diagnostics \in {"off", "asked"}
    /\ server = [f \in Flows |-> "none"]

FlowStep(f) ==
    \/ Inspected(f) \/ InspectAborted(f)
    \/ RunImage(f) \/ RunUpload(f)
    \/ Download(f)
    \/ Consent(f) \/ SetupIncomplete(f)
    \/ Session(f) \/ SessionRefused(f)
    \/ Answer(f) \/ Aborted(f)

Next ==
    \/ Start \/ Stop
    \/ Scan \/ RouteTick \/ Navigate \/ CloseModal
    \/ \E i \in Images : \/ Rerender(i)
                         \/ ClickPlus(i) \/ ClickMagnifier(i)
                         \/ ContextGetPrompt(i)
    \/ \E f \in Flows : FlowStep(f) \/ CancelRow(f)
    \/ \E a \in Files : SelectFile(a)
    \/ FileRead \/ ClearSelection \/ QueueUpload

\* Every request carries a timeout, so a flow that runs goes on; the user
\* answers a consent modal.
Fairness == \A f \in Flows : WF_vars(FlowStep(f))

Spec == Init /\ [][Next]_vars /\ Fairness

-----------------------------------------------------------------------------
(* Properties *)

\* What is posted to Vision for a click is the attachment that was under the
\* click, whatever Discord did to the page, to the redirect or to the cache
\* in between.
RightImage ==
    \A f \in Flows : flow[f].sent # None => flow[f].sent = flow[f].att

\* While the plugin runs, the rail's waiting rows are exactly the requests of
\* this generation that wait or run.
RowsMatchQueue ==
    running =>
      \A f \in Flows :
        rows[f] \in {"queued", "cancelled"}
            <=> /\ flow[f].gen = generation
                /\ flow[f].pc \in Active \cup {"queued"}

\* No image leaves the plugin after it was stopped, even for a request that
\* was waiting for a consent, a session or its turn when it was stopped, and
\* even if the plugin was started again meanwhile.
NothingAfterStop ==
    [][\A f \in Flows :
          flow[f].sent = None /\ flow'[f].sent # None
              => running /\ flow[f].gen = generation]_vars

\* Every click and every upload comes to an end.
Resolved == \A f \in Flows : (flow[f].pc # "free") ~> (flow[f].pc = "done")
=============================================================================
