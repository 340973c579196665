# Verification of the KREA2 Vision Suite

This directory holds TLA+ models of the KREA2 Vision Suite, TLC configurations
that check them on small instances, and proofs of the central theorems for
every instance, checked by TLAPS. Sources are named relative to the repository
root: `remote-gateway/app.py` is `src/remote-gateway/app.py` in `PROJECT.json`,
which names the lines every definition translates; a line number after
`plugin:` is one of
`betterdiscord-plugin/Krea2DiscordCollector.plugin.source.js`, after `parser:`
one of `betterdiscord-plugin/Krea2DiscordCollector.parser.js`.

Model-check with `tlc -config <cfg> <module>`, check the proofs with
`tlapm <module>Proof.tla`.

Contents: 1 the system and its components, 2 the modules and the code, 3 the
runs, 4 fairness, 5 the proofs, 6 disagreements found, 7 what is not modelled,
8 the plan.

## 1. The system

The BetterDiscord plugin submits images and prompt chats. It talks over
loopback HTTP to the *companion* (`vision-studio`, FastAPI), which runs a local
model in the PC's GPU or forwards the image to the *gateway* (`remote-gateway`,
one FastAPI process). The gateway keeps accounts and credits in SQLite and
sends work to a dedicated GPU (one llama.cpp router) or to Vast Serverless. It
calls Discord (sign-in), BTCPay (payments) and the GPU. Open WebUI reaches the
same dedicated GPU through a bridge.

### Gateway credits (`remote-gateway/app.py`)

* **State.** In SQLite `credit_accounts`, `credit_ledger`, `remote_jobs`,
  `prompt_chat_jobs`; in memory `_prompt_chat_runs`, the activation lock, the
  chat lock. A restart loses what is in memory.
* **Operations.** `infer` (preflight, route, reserve, infer, refund on
  failure), `complete_audit`, `fail_audit`, `submit_prompt_chat` and its
  background `prompt_chat` (reserve, settle, refund), `credit_status`, the
  two-hour sweep, the pruning of audits and results.
* **Interactions.** Plugin and companion call it; it drives the GPU lock.
* **Hard.** Transactions of one event loop and a thread pool interleave, and
  Python's sqlite3 opens a transaction only at the first write, so whatever is
  read before may be stale; several parties may decide one hold; clients repeat
  request ids; the process dies with holds open.
* **Correct when** no credit is created or lost, nobody computes unpaid, a reply
  costs what it says, and every hold is decided once, in the end.

### Gateway purchases (`remote-gateway/app.py`)

* **State.** `credit_invoices`, `btcpay_webhook_deliveries`, the ledger's
  purchase rows, `_credit_purchase_lock`.
* **Operations.** `create_credit_invoice`, `_reconcile_credit_invoices` (run by
  the balance poll and by a purchase), `accept_btcpay_webhook`.
* **Hard.** Answers of BTCPay are applied long after the row was read; webhooks
  are repeated, reordered or lost; a payment may be confirmed after the
  invoice expired; the process dies between the POST and the INSERT.
* **Correct when** each paid invoice is credited once and only if it is final,
  and no open invoice drops out of sight.

### Gateway licences (`remote-gateway/app.py`)

* **State.** `licenses`, `oauth_enrollments`.
* **Operations.** `start_oauth`, `oauth_callback`, `oauth_status`, `revoke`.
* **Hard.** Every one of them checks in one transaction and acts in another,
  with Discord's answer in between; the token must leave once.
* **Correct when** an installation has one active licence, revocation is final
  and a sign-in takes only the licence it replaces.

### Gateway dedicated GPU (`remote-gateway/app.py`)

* **State.** `_dedicated_inference_lock` and its waiters, `_prompt_chat_lock`,
  `_dedicated_queue_depth`.
* **Operations.** `_dedicated_completion` (image, chat),
  `_dedicated_completion_stream` and its generator (Open WebUI).
* **Hard.** A stream hands its lock to a generator that another task runs; the
  client may disconnect at every await.
* **Correct when** the lock is held exactly while the worker is used, each request
  is counted in and out of the queue once, and everybody is served.

### Companion: shared GPU and warm model (`vision-studio/app/services/shared_queue.py`, `pipeline.py`, `discord_vision.py`)

* **State.** Ticket files and `generation.lock` in a directory shared with
  Forge and KreaForge; the llama.cpp child of a job; `HereticWarmResidency`:
  one provider kept loaded for 15 s, its deadline, its watcher thread.
* **Operations.** Draw and post a ticket, poll, lock, unlock; check out, load,
  retain, evict, watch, unload.
* **Hard.** Several processes and no common lock but a file; processes die with
  a ticket in line; four parties may detach the warm model at once.
* **Correct when** the line is kept, nobody waits for ever, and each loaded
  model is in one hand.

### Plugin: image requests (`plugin.source.js`)

* **State.** In one JavaScript thread: the buttons on Discord's images, the
  serial chain of Vision flows (`visionFlowQueue`), the local rows of the rail,
  the cache of originals, the upload panel, `running` and `generation`.
* **Operations.** Scan, click, metadata check, enqueue, take one's turn, download,
  ask for consent, get a session, post, answer; cancel a row; upload; start, stop.
* **Interactions.** Reads Discord's page, asks the companion for a session and
  posts the image to it.
* **Hard.** Every await may be overtaken: Discord reuses the `<img>`, the route
  changes, the plugin is stopped and started again, the row is cancelled.
* **Correct when** the image posted is the one clicked, nothing leaves a stopped
  plugin, and every click ends.

### Plugin: prompt editor and chats

* **State.** Windows (closures with a copy of a conversation), the stored
  conversations and their index, debounced save timers, busy flags.
* **Operations.** Open, switch, create, compact, send, poll, stop, save, close.
* **Hard.** A reply comes after its window was hidden, replaced, switched to
  another conversation or lost with Discord.
* **Correct when** a reply lands below its question, compaction always makes room,
  and what a window shows is stored.

### Plugin: history rail

* **State.** Tabs, search, page, the rows last received, list requests under way,
  statuses seen, thumbnails and their object URLs, the detail window.
* **Operations.** Ask, answer, fail, page, search, clear, cancel, open a job, poll
  it, load and evict thumbnails, announce an ended job.
* **Hard.** Overlapping list requests, polls of rows that are gone, shared URLs.
* **Correct when** an ended job never reads as waiting, is announced once, no
  control waits for nothing, and no URL is lost or revoked while shown.

### Companion: jobs dashboard (`vision-studio/app/static/discord_jobs.js`)

* **State.** The filter and page chosen, the rows and details drawn, one refresh
  timer, two counters (`refreshToken`, `detailToken`).
* **Operations.** Refresh, schedule, filter, turn the page, choose a job, show the tab.
* **Interactions.** Reads the companion's list and one job, as the rail does.
* **Hard.** Nothing is aborted: answers of older requests arrive after newer ones
  and are told apart by a counter only; a page may disappear under its user.
* **Correct when** what is drawn is the newest answer that counts, for the filter
  and the job chosen, and the page goes on refreshing itself.

### Plugin: setup and account

* **State.** Setup windows and install watches, settings, consent receipts, the
  saved licence, sign-ins, open checkouts, the outbox of error reports.
* **Operations.** Set up, install, consent, sign in, poll the enrolment, read the
  balance, buy, post; queue, send and drop a report.
* **Interactions.** The sign-in meets the gateway's `OAuthEnrollment`.
* **Hard.** Two sign-ins, an abandoned browser page, modals open at once, a
  report being sent while the outbox moves.
* **Correct when** a saved licence works, a consent has its receipt, a report is
  not lost silently, and the setup window does not hang.

### Plugin: votes, guidance and interrogation

* **State.** The votes of the session, the settings captured at a click, the
  dislike question, the details of a job.
* **Hard.** Settings and votes change while a request waits; the companion may
  answer for something else than what was asked.
* **Correct when** what is accepted is what was asked for, the last vote stands,
  and what the details confirm is true.

### Plugin: metadata (`parser.js`)

* **State.** None that lasts: an inspection of a message, an image file and its
  companions.
* **Hard.** Damaged or oversized files, several candidates, several YAML files in a
  message, ComfyUI graphs with cycles and limits.
* **Correct when** a prompt is taken only if it is the one, and from the image's own
  metadata.

### Not modelled

| component | source | state | operations | hard behaviour | what should hold |
|---|---|---|---|---|---|
| companion jobs and sessions (their listing and their records are: `PluginHistory`, `JobRecords`) | `services/discord_jobs.py`, `discord_sessions.py`, `api/analyze.py` | SQLite jobs (queued, running, completed, rejected, error, cancelled), one-use sessions | issue, describe, progress, cancel, complete, clear, recover | a cancellation between the last check and the completion; failed writes that are swallowed; restarts | an active row has somebody working on it; an accepted cancellation never completes; an ended job never changes |
| suite updater | `services/release_updates.py` | state, maintenance flag, thread | check, start, wait for idle, install | jobs admitted before and created after the idle count; a second start after the launch | no installer over a running job, jobs accepted again in the end |
| model downloads | `services/model_downloads.py` | `.partial` and final files, status, thread | start, resume, verify, replace | death at every write; a server that refuses the range | a final file is verified; a download that can succeed does in the end |
| Vast activation | `remote-gateway/app.py` | activation floor, head-room, quarantine | raise, restore, replace, reconcile | cancelled calls whose thread goes on | the floor is lowered when the last call leaves |
| Open WebUI bridge | `openwebui-vast-bridge/bridge.py` | one request gate | forward, stream | a client that leaves opens the gate early | one request at the gateway at a time |

Prompt building, output repair and validation, datasets, contributions, pages,
the plugin's layout and markup, installers and worker scripts are sequential
transformations of text or files with no state shared between actors;
`PROJECT.json` lists each with its reason.

## 2. The modules and the code

| module | models | state | next-state relation |
|---|---|---|---|
| `RemoteCredits` | gateway credits | `db` is the database (accounts, job rows, ledger rows), `call` the coroutines and threads in progress, `run` is `_prompt_chat_runs` | one action per transaction, or per stretch of a coroutine between two awaits |
| `PrepaidWallet` | what the credits promise | wallet, held, spent, payer | one transaction that takes, spends or releases holds |
| `CreditInvoices` | gateway purchases | `row`, `ledger`, `received` are the tables; `btcpay` and `hook` the payment server; `thread` the handlers in progress | one action per transaction or network call |
| `OAuthEnrollment` | gateway licences | `enrollment`, `licences` are the tables; `callback` and `poll` the handlers in progress | one action per transaction or call to Discord |
| `DedicatedGpu` | gateway dedicated GPU | the two locks with their waiters, the depth, where each request is | one action per stretch between two awaits |
| `SharedGpu` | companion shared GPU, warm model | tickets drawn and posted, the file lock, the providers and who has them, the watcher | one action per file operation or critical section |
| `PluginVision` | plugin image requests | page, buttons, flows by click, queue, rows, cache, upload panel, generation | one action per stretch between two awaits |
| `PluginChats` | plugin editor, chat and audit | `win` the windows, `stored`, `index`, `active` the data file, `job` the gateway's chat jobs | one action per stretch between two awaits |
| `PluginHistory` | plugin history rail, with the companion's list of jobs (`discord_jobs.py`) | `srv` the companion's jobs, `flight` the list requests, `shown` the last answer taken, `detail`, `th` the thumbnails | one action per stretch between two awaits |
| `VisionDashboard` | companion's jobs dashboard, over the jobs of `PluginHistory` | `page` what is drawn and chosen, `calls` its requests | one action per stretch between two awaits |
| `PluginSetup` | plugin setup, settings and consents | settings, receipts, windows, install watches | actions only; composed by `PluginAccount` |
| `PluginAccount` | plugin account, with `PluginSetup` and `OAuthEnrollment` | requests with their stages, licence, credits, outbox, and the gateway's sign-in | one action per stretch between two awaits |
| `JobRecords` | what a job's record says | none: operators | |
| `PluginFeedback` | plugin votes, guidance, interrogation, with `JobRecords` | settings, flows, votes, the companion's rows and replies, the details on screen | one action per click or stretch between two awaits |
| `ComfyPrompt` | search of a ComfyUI graph | none: recursive operators | |
| `PromptMetadata` | an inspection of a message | the message, the scan of the file, candidates, the decision | one action per chunk, file or decision |
| `PromptInspection` | an inspection whose graphs `ComfyPrompt` searches | none: a property of both | |
| `CreditsProof` (credits and purchases), `OAuthEnrollmentProof`, `GpuProof` (both GPUs), `PluginImagesProof` (image requests and metadata), `PluginChatsProof`, `PluginHistoryProof`, `PluginAccountProof`, `PluginFeedbackProof` | theorems about the module each is named for | | |

Each `MC...` module is an instance for TLC. Compositions: `PluginAccount` runs its
sign-ins against the actions of `OAuthEnrollment` (one instance, one user on one
computer: each request is a poll thread of the gateway), with `PluginSetup`
extended; `VisionDashboard` adds the dashboard to the rail and the jobs of
`PluginHistory`; `RemoteCredits` implements `PrepaidWallet`; `PromptMetadata` takes
what a ComfyUI graph gives as a parameter, the operator `SearchGraph`, which the run
sets to the search of `ComfyPrompt` and the proofs leave open. Otherwise the modules
stand side by side: `RemoteCredits` contains the calls whose GPU time `DedicatedGpu`
orders, and knows the GPU only as "the call may now return or fail";
`CreditInvoices` and `OAuthEnrollment` write tables that `RemoteCredits` reads.
Purchases are not part of `RemoteCredits`' conservation: the sum there is over the
welcome grant. The plugin's modules know the companion and the gateway's credits as
external actors that answer at one moment and are heard at a later one.

### Points where the models follow the code closely

* **Transactions begin at the first write.** `complete_audit` is `CompleteRead`
  then `CompleteWrite`; `oauth_status` is `PollRead` then `PollDeliver`;
  `oauth_callback` looks the ban up (`CheckBan`) before its transaction
  (`Issue`). Operations whose check and write are in one transaction are one
  action.
* **Retries.** Every call may be sent with any request id at any time, so
  repeats, late answers and clients that came back after a restart are in the
  inputs, not in special actions.
* **Welcome credits and sweep** are part of every operation that performs them
  (`Grant`, `Sweep`), never steps of their own.
* **Sizes of holds.** A chat's hold is rounded up from tokens and cut down to
  the balance that was read *before* the chat lock was awaited; the limit sent
  to Qwen is derived from the hold, and the settlement reads the hold back from
  the ledger.
* **Sums** are written as sizes of sets of credit units, which the prover
  handles where a recursive sum would be out of its reach.
* **Cancellation of a stream.** Starlette runs the generator in an anyio scope
  and cancels it when the client is gone; anyio delivers the cancellation again
  at each later await of that task. A generator suspended at a `yield` is
  finalised in a task of its own. `CancelRead`, `CancelSend`, `CancelClose` and
  `Close` are these cases. Starlette, asyncio's lock and the worker are
  external, modelled from how the code uses them.
* **Tickets.** The name of a ticket is drawn from the clock (`Draw`) before its
  file exists (`Post`); position (`Look`) and lock (`TryLock`) are two steps.
  A process that dies loses its file lock, not its ticket.
* **The watcher** is "dead", "watching", "unloading" or "ending":
  `retain` starts a thread only if the last one is no longer alive, which stays
  true while it unloads and returns.

* **The plugin's thread.** JavaScript runs to the next await, so an action of a
  plugin module ends there: what is tested before an await and used after it is
  two actions. An aborted fetch is an action of its own, since the rejection
  runs only when the thread comes to it. Checks of `generation` are where the
  code has them, and nowhere else.
* **Closures.** A window of the editor keeps its own copy of its conversation
  and its timer; that several copies of a conversation exist is part of
  `PluginChats`. An installing loop keeps the window and the token it was started
  with (`monitor`), and goes on when both are gone.
* **Answers in two steps.** In `PluginHistory` and `VisionDashboard` the companion
  fixes an answer before it is taken, so a delayed answer is stale when used.
* **The list of jobs** is what `list_jobs` selects: filtered, then paged, the
  active rows first, by age; the ended ones are ordered by their last update, which
  may come after their end, so that the model allows every order of them.
* **The model that answers.** Whatever model the companion ran may answer a request;
  `parseVisionPromptResponse` checks the guidance, its digest and the number of
  prompts, not the model, and neither does the model's `Accepts`.
* **Texts as what is looked for in them.** A prompt is a set of claims, a failure's
  text the set of patterns it contains (`Signs`), a message a size. Sizes of
  messages are counted in units of about 3,776 tokens, with the worst cases of
  the code's character limits. A digest is the value it is computed from.
* **Graph search** in `ComfyPrompt` keeps the code's order (breadth first from
  each sampler), its shared counters and the three limits; node classes and titles
  are labels.

### Bounds

`MaxRestarts`, `MaxInvoices`, `MaxLicences`, the set `Delivery` and, in the
plugin's modules, the constants commented `bound` limit what would otherwise be
infinite. `PluginHistory`, `PluginAccount`, `PluginFeedback` and `PromptMetadata`
begin in one of several *scenes*: the controls a user goes for, how often, and
what an earlier session has left. A scene restricts only what users and the
outside do, never what the code does in reply. `Room`
in `SharedGpu` is the VRAM check: how many children fit. Times (two hours,
fifteen seconds, time-outs) are actions that may happen at any moment.

## 3. The runs

Twelve runs; "states" are distinct states.

| run | instance | states | what it shows |
|---|---|---|---|
| `credits` | one account, one image and one chat id, two calls at once, one restart, welcome credits 4, image 3, chat from 1 | 95,176 | the books balance, nothing is computed unpaid, an open hold has somebody who will decide it, every hold is decided; `RemoteCredits` implements `PrepaidWallet` |
| `credits_refund_not_final` | the same with two accounts | violation | a refunded image becomes charged |
| `invoices` | one account, starter and one regular pack, three invoices, two threads, one delivery id | 469,025 | payments are credited once; one open invoice; settlement is final |
| `enrollment` | one user, two installations, two enrollments, two callbacks at once, one poll, three licences | 860,005 | one active licence per installation; revocation is final but for a sign-in that had passed the ban check |
| `gpu_lock` | one image client, two chats, two streams | 4,479 | the lock covers the worker's use and the depth counts the requests; everybody is served unless a stream is abandoned |
| `shared_gpu` | two Discord jobs for different models, another program, two providers, room for two | 135,648 | everybody is served; each model is in one hand |
| `vision` | two attachments (one with an embedded prompt), one `<img>`, two flows, one change of the page, start, stop and start | 463,172 | the right image, rows that match the queue, nothing after a stop, an end for every click |
| `chats` | two requests, two conversations, two windows, one end of the plugin or of Discord | 1,133,996 | replies follow their questions, compaction suffices, what is shown is stored |
| `history` | two jobs on pages of one, two list requests at once, two URLs, six scenes of the rail and one of the dashboard | 1,455,617 | nothing reverts, is told twice, is stuck or lost; the dashboard keeps up |
| `account` | two requests, two sign-ins, one payment, four reports in an outbox of two, two models, two setup windows, seven scenes | 467,603 | licences work, consents have receipts, reports are kept, the setup does not hang |
| `metadata` | messages of up to three attachments, files of up to four chunks (five of some kinds), graphs of a sampler and three nodes | 828,796 | what is taken is what should be |
| `feedback` | one request after an earlier job, two votes, one change of a setting, room for one vote record | 1,759,414 | what was sent is what was chosen, what is accepted is what was asked for; votes and details are true |

### What the properties say

`credits`: *CreditsConserved*, each balance is what the account's ledger adds up to,
and never below zero; *HoldHasOwner*, a chat's open hold belongs to a call that will
decide it, or a restart lost that call; *HoldsMatchLedger*, the two records of a
hold agree at every moment another transaction can read them; *NoUnpaidInference*,
the GPU works for a payment of its own; *ReplyIsPaid*, a reply that can be fetched
is charged what it quotes; *ChargesAreFinal*, paid credits are never returned;
*HoldsResolve*; *RefinesWallet*.

`invoices`: *PaidOnce*, *OneOpenInvoice*, *SettledIsFinal*. `enrollment`:
*OneActive*; *RevocationIsFinal*, once an account is banned and none of its callbacks
is between the ban check and the issue, none gets there any more and no licence of it
becomes active. `gpu_lock`: *LockCoversService*, the lock is held for exactly the
request at the worker and the depth is the number of requests that wait or are
served; *ClientsServed*.
`shared_gpu`: *OneHand* (a loaded model is with exactly one of a job, the warm
window or whoever unloads it, so none is stopped under a job and none is
forgotten), *Served*.

`vision`: *RightImage*, what is posted for a click is the attachment that was
clicked, whatever Discord, a redirect or the cache did since; *RowsMatchQueue*,
the rail's waiting rows are the requests of this run of the plugin that wait;
*NothingAfterStop*; *Resolved*.

`chats`: *ReplyToAsker*, in a conversation of the editor or the chat, shown or stored,
an answer stands right below its request (an audit keeps no conversation; section
6 says what it shows); *NeverTooLong*, what is posted ends with the request and
fits both limits; *Saved*, an open window's conversation is stored or about to
be; *RepliesStayUndisturbed*, a stored reply stays, where no request of an
earlier run can still write (section 6 says why the exception).

`history`: *NeverReverts*, *ToldOnce*, *NoUrlLost*; *NeverStuck*, no control waits
for an answer nobody will give; *DashboardKeepsUp*, the companion's page goes on
asking, shows the details of the chosen job only, and its list never goes back.

`account`: *LicenceWorks*, a saved licence is one the gateway accepts, unless two
sign-ins overlapped; *ConsentHasReceipt*; *ReportsKept*; *SetupNeverStuck*.

`metadata`: *FirstUsableWins*, the text taken from a file is the first usable one
by the code's order, of a file read to its end within the limits;
*CompanionIsItsOwn*, no YAML is paired with two pictures; *GraphPromptIsTheOnlyOne*, a
prompt is taken only from a graph with nothing beyond the limits, and it is the only
text that the positive sides of the samplers without an image offer, if they offer
one. Unless a node joins both conditionings (section 6), it is also the only one
wanted: among conditioned branches a literal text is preferred to a referenced one,
and two wanted texts give none.
The reference definitions here quantify over chunks, attachments and closures of
a graph; the model's scan and searches are steps, loops and counters as in the
code.

`feedback`: *EachGetsWhatItAsked*, a request that succeeds has asked for the model and
profile of its click, and got the number of prompts chosen, the guidance sent and the
votes it was drawn from (not: the model that answered, which the code does not
compare); *LastVoteStands*; *ConfirmedIsActual*, the model that the details confirm
is the one that ran.

For every property there is a mutant of a mapped definition (a dropped guard, a
swapped order, a missing release) under which TLC finds it violated. A mutant
stands before the definition it alters, named `...Mutant`.

The type invariants `TypeOK` are in no configuration. Those of `RemoteCredits`,
`CreditInvoices`, `OAuthEnrollment` and `DedicatedGpu` are theorems. The others tell
the reader what the variables hold; TLC finds them true when they are added to the
configurations.

### Why the bounds are enough

* `credits`: two calls suffice for every race of two transactions on one hold,
  and with a restart for a third party that finds what both left. The welcome
  credits pay for an image and a small chat, but not for an image and a large
  one, so that refusals and cut-down holds happen. Accounts meet nowhere but in
  the sweep; the proofs have any number of them. Prices and tokens are small but
  keep the rounding: two tokens a credit, up to three tokens. The proofs remove
  these bounds for all but liveness.
* `invoices`: three invoices are the fewest for which a replaced starter, its
  successor and a regular one exist together; two threads give every stale
  answer; a LIMIT of two for two packs stands for the code's four for four.
* `enrollment`: a second sign-in on the same and on another installation, with
  two callbacks at once, covers each pair of transactions; with three licences a
  sign-in can follow two others. One status poll, since two are known to deliver
  one token twice (section 6).
* `gpu_lock`: two chats compete for the chat lock, two streams for the handover,
  an image is the third kind.
* `shared_gpu`: two models and two Discord jobs make a warm model both match and
  not match; one other program, which may die at any step and come back, stands
  for Forge and KreaForge. Room for two lets a warm model and a new one coexist.
* `vision`: the queue is serial, so that two flows show one running with one
  behind it; one `<img>` that Discord may give another attachment, or detach,
  between any two steps; three generations let a flow of the first run meet the
  second start. One embedded prompt makes both ways out of the metadata check.
* `chats`: a request and its successor, two conversations to switch between, and
  two windows of which one hides or replaces the other; four messages are one
  more than the limit of three, so that compaction happens; units are chosen so
  that the limit by size is met before and after that by number.
* `history`: two overlapping list requests show each order of answers; two jobs
  on pages of one show pages that shift; two URLs with room for one thumbnail
  show sharing and eviction; the two scenes with two URLs have one list request at a
  time. More than two requests add only older losers. Two calls
  of the dashboard are a refresh and its details, or a list overtaken by another.
* `account`: two requests are a pair of sign-ins, of modals, or of one with the
  other's licence; the outbox overflows while it is being sent.
* `metadata`: the limits on depth, resolving (one each), nodes (four), chunks
  (four), candidates (two) and text (three bytes) are met and passed. Three nodes
  besides a sampler make chains beyond the depth, diamonds and cycles.
* `feedback`: with room for one record the second vote overflows the store; a
  change may fall on either side of each step of the one request. The queue in
  front of it is that of `vision`.

`CHECK_DEADLOCK FALSE` stands in `MCDedicatedGpu.cfg`, since an abandoned stream
stops the system (section 6), and in the six configurations of the plugin,
where a stopped plugin whose bounds are used up has nothing left to do.

## 4. Fairness

* `RemoteCredits!FairSpec`: time passes for every hold, and some client of an
  account polls its balance now and then (the plugin does while Discord runs).
  The sweep runs inside that poll. No fairness is assumed of the calls
  themselves: they may hang for ever.
* `DedicatedGpu!LockSpec`: weak fairness of `Serve`, what the event loop and the
  worker do next: every HTTP call to the worker has a time-out. Strong fairness
  of `StreamEnds`: a completion has finitely many chunks, and the end is not
  enabled while a chunk is being sent. Clients need not send or disconnect.
* `SharedGpu!Spec`: weak fairness of `Proceed` for each worker (the loop polls,
  a job ends or fails, another program's image ends) and of `Watch`. Nobody is
  obliged to crash, cancel or draw a ticket. A program that hangs in its slot
  without dying is excluded: the code waits for it.
* `PluginVision!Spec`: weak fairness of each flow's next step. Every request
  carries a time-out or an abort signal, JavaScript runs what is due, and the
  user answers the modals a flow waits for. Start, stop, clicks, cancels and
  Discord's changes are free.

The other modules state safety only. Where something must not hang
(*NeverStuck*, *SetupNeverStuck*, *Saved*), the invariant says that whoever waits
has something under way that will end the wait.

## 5. The proofs

Forty-one theorems, each from the assumptions named in the modules (disjoint or
finite sets, positive prices, a user for each licence, as many runtimes to load as
VRAM has room for, URLs that name files there are, bounds that are naturals) and for
all values of the constants.

| module | theorem | property |
|---|---|---|
| `CreditsProof` | `TypeCorrect` | `Spec => []TypeOK` |
| | `Conservation` | `Spec => []CreditsConserved` |
| | `RowsAgree` | `Spec => []HoldsMatchLedger` |
| | `PaidInAdvance` | `Spec => []NoUnpaidInference` |
| | `RepliesArePaid` | `Spec => []ReplyIsPaid` |
| | `HoldSuffices` | `Spec => []HoldCoversReply` |
| | `HoldsAreOwned` | `Spec => []HoldHasOwner` |
| | `Finality` | `Spec => ChargesAreFinal` |
| | `IsPrepaidWallet` | `Spec => RefinesWallet`: the refinement of `PrepaidWallet` |
| | `PurchasesTypeCorrect` | `PurchasesSpec => []PurchasesTypeOK` |
| | `OneOpenInvoiceEach` | `PurchasesSpec => []OneOpenInvoice` |
| | `SettlementIsFinal` | `PurchasesSpec => SettledIsFinal` |
| | `InvoicesArePaidOnce` | `PurchasesSpec => []PaidOnce` |
| `OAuthEnrollmentProof` | `TypeCorrect` | `Spec => []TypeOK` |
| | `OneActiveLicence` | `Spec => []OneActive` |
| | `RevocationStands` | `Spec => RevocationIsFinal` |
| `GpuProof` | `LockTypeCorrect` | `LockSpec => []LockTypeOK` |
| | `LockCovers` | `LockSpec => []LockCoversService` |
| | `OneAtTheWorker` | the router never has two requests open |
| | `OneHandEach` | `Spec => []OneHand` |
| | `RightModel` | `Spec => []RunsWhatItWants` |
| `PluginImagesProof` | `NothingLeavesAfterStop` | `Spec => NothingAfterStop` |
| | `RowsAreTheWaiting` | `Spec => []RowsMatchQueue` |
| | `RightImageIsSent` | `Spec => []RightImage` |
| | `FirstUsablePrompt` | `InspectionSpec => []FirstUsableWins` |
| | `CompanionsAreTheirOwn` | `InspectionSpec => []CompanionIsItsOwn` |
| `PluginChatsProof` | `EachReplyBelowItsRequest` | `Spec => []ReplyToAsker` |
| | `EveryRequestFits` | `Spec => []NeverTooLong` |
| | `WhatIsShownIsSaved` | `Spec => []Saved` |
| | `RepliesStay` | `Spec => RepliesStayUndisturbed` |
| `PluginHistoryProof` | `AnnouncedOnce` | `Spec => []ToldOnce` |
| | `EndedStaysEnded` | `Spec => NeverReverts` |
| | `NobodyWaitsForNothing` | `Spec => []NeverStuck` |
| | `NoUrlIsLost` | `Spec => []NoUrlLost` |
| `PluginAccountProof` | `SetupGetsItsAnswer` | `Spec => []SetupNeverStuck` |
| | `ConsentsHaveReceipts` | `Spec => ConsentHasReceipt` |
| | `NoReportIsLost` | `Spec => ReportsKept` |
| | `SavedLicenceWorks` | `Spec => []LicenceWorks` |
| `PluginFeedbackProof` | `RequestsGetWhatTheyAsked` | `Spec => []EachGetsWhatItAsked` |
| | `VotesStand` | `Spec => []LastVoteStands` |
| | `ConfirmedModelRan` | `Spec => []ConfirmedIsActual` |

**Credits.** Two layers. *Values:* `DbInv` says a database is well typed, its rows
agree and its sums are right; one lemma per operator (`GrantKeeps`,
`RefundAllKeeps`, `ReserveKeeps`, `SettleKeeps`, ...) says that it preserves
`DbInv` and changes rows only in the allowed direction (`Evolves`; `Quiet` for
operators that only refund or grant). `RefundAllUnits` is the heart: the units
given back to an account are exactly those its open holds took out, so the sum
is kept even when a sweep refunds many holds at once. *Steps:* the inductive
invariant is

    IInv == TypeOK /\ DbInv(db) /\ CallsMatch /\ NoUnpaidInference
              /\ ReplyIsPaid /\ HoldHasOwner

`CallsMatch` is the strengthening: it says what each call in progress may rely
on although others change the database, above all that a call that works on a
GPU has a ledger row of its own user and a limit that its hold covers. Without
it neither *NoUnpaidInference* nor *HoldCoversReply* survives a step: the
database alone does not say what a coroutine read before it waited. *The wallet:*
the refinement needs no invariant of its own. `Evolves` says how each row may
move, and `RowMoves` reads off it that a request stays as it was, takes its hold,
releases it or spends it; the units held and spent are the units out of the
account (`WalletUnitsAreOut`), so its worth is the welcome grant before and after.

**Purchases.** A purchase decides on rows that it read before its POST, and
inserts its own row after it.

    PurchasesInv == PurchasesTypeOK /\ NoGaps /\ RowsAreMade /\ OneBuyer
                      /\ Undisturbed /\ OneOpen

`OneBuyer` is the purchase lock; `Undisturbed` says that what the buyer decided on
still holds while it posts, since everybody else only closes rows; `NoGaps` and
`RowsAreMade` say that the number BTCPay drew is nobody else's, so that the
insertion overwrites no row. *The sum:* what a user was credited is a fold over its
settled invoices, which the prover knows only as "take one, add the rest". That it
does not depend on which one is taken (`AnyOrder`) is shown by induction on the
size of the set; then the one invoice that a settlement adds to the set adds one
price (`SettleAddsOnce`), and a step that settles nothing changes neither side.

**Licences.** `IInv == TypeOK /\ CallbacksKnow /\ NoGaps /\ OneActive`:
`CallbacksKnow` says what a callback holds at each of its steps; licence numbers
have no gaps, so the number that `Issue` draws is free and its row can be neither
active nor revoked. The old licence is suspended in the very transaction that
inserts the new one, which is why two callbacks at once do no harm. *Revocation:*
what is banned stays banned, since a suspended or revoked row is never active
again (`TakenStays`); a
callback gets past the check only while its account is not (`NobodyPasses`); and
only such a callback makes a licence active (`OnlyIssueMakes`).

**GPU lock.** `LockInv == LockTypeOK /\ HeldByTheServed /\ GpuLine /\ ChatLine`.
Whoever is woken takes the lock without a look at where it was; the two lines, whose
members are distinct and all wait, say that it was not at the worker already. The
depth (`DepthCounts`) needs none of this: whatever enters or leaves the set of the
counted is one request, and the counter moves with it.

**Warm model.** The queue does not enter: four programs could hold its lock at once
and the runtimes would still be apart. A runtime is handed from one place to another
within critical sections of one lock (`checkout`, `retain`, `evict`, the watcher),
and the place that a worker has reached says which hand of its own is empty
(`HandsByPlace`). That, that no two hands hold the same runtime (`Apart`), and that
every loaded one is held, is the inductive invariant; that a job runs with the model
it asked for (`RunsWhatItWants`) is inductive with it. That somebody finds a runtime
to load when it needs one is a count: the other loaded ones are fewer than the room.

**Image requests.** The step that posts an image compares no generation.
`LiveIsCurrent` says why it need not: whatever has an abort controller and is not
aborted was started, or given its turn, since the plugin last started, because
`stop` aborts all the rest. Each flow is shown to keep its fields
(`FlowsAreRecords`), one lemma per kind of change. *The rows of the rail:* a
request of this generation that waits has its row, and whatever ends it takes
the row away. The one exception, an abort that leaves the row to `stop`, only
meets requests of earlier generations, for only `stop` aborts and it raises the
generation; while the plugin is stopped there are no rows at all. *The right
image:* the cache is shared by all flows and evicts by its own order, but only
ever holds bytes under the name of the image they are of. So does whatever
a flow has read, and both survive every change of the page.

**Metadata.** `FirstUsableWins` says what may be taken from a file as a whole, while
the scan sees one chunk at a time and stops where the file or a limit stops it.

    InspectionInv == SceneGiven /\ Chosen /\ Unread /\ ScanInv /\ JudgeInv
                       /\ FirstUsableWins /\ CompanionChosen

While the scan has met no damage and no limit (`Clean`), the candidates are the
legible chunks behind it, in the order of the file, and the bytes it counted are
theirs. Once it has, the file is `Beyond`: damaged, endless or over a limit as a
whole, whatever is still to come, because the sum of the bytes of more chunks is no
smaller. That is where the counters of the loop and the limits of the property,
a cardinality and a sum over a set, meet; the sum is a fold, reached like that of
the purchases. While the candidates are judged (`JudgeInv`), those left are in the
order of the file and every usable one is among them (`Remaining`), so that the
first usable candidate by `NextCandidate` is the best of the file. *The
companions:* an image is paired with a YAML of its own name only if no other
image has that name, and with one of another name only if it is the only image.

**Conversations.** A busy window ends with the question it asks
(`EndsWithQuestion`): while it is busy nothing is added to its turns, and no
other conversation is taken over. A reply therefore finds its question right
above its place, also in a window that was hidden, destroyed by `stop` or
replaced, and whatever it then saves is a conversation in which answers follow.
The data file only ever takes what a window holds (`GoodDisk`), so neither a
late save nor a crash can make a stored conversation worse than that. *The limits:*
compaction keeps as many of the newest messages as suit, none if need be. The weight
of a context is a fold over a sequence; that the summary alone and the request
fit (`ChatBounds`, the code's character limits) leaves it a way out, and the
question is appended after it.
*Windows and the data file* (`HInv`) owe each other: at most one open window of a
kind holds a conversation of that kind; while no request of an earlier run can
write it, what the window holds is on disk or its timer is armed; and no reply on
disk is missing in the window. With the second, what is shown is saved; with
the third, whatever is written keeps the replies. Each action is shown to keep
all three (`...Holds`), one lemma for each way a window may appear, change or go.

**History.** A job gets on: it waits, then it has ended (`Rank`). An answer says how
far each job was when the companion read it, and only the newest request, the
one that is not aborted, is ever taken (`NewestOnly`). So what the plugin knows
is not ahead of the answer on its way, and that is not ahead of the companion's
table (`InOrder`). A job is announced when the plugin learns that it has ended,
which can thus happen once. *The waits:* whatever says that the list is loading
puts a request on its way, and each end of a request, superseded or not, says
that loading is over; a detail window gives up its poll only when it shows a job
that has ended. *The URLs:* those alive are what the cache keeps and the preview, each
made once; a load that is under way counts for the one it will make. Rendering
begins a load for each image of the list, a fold over a set, which is followed
by the least set of images that would break the account.

**Setup and account.** *The windows* (`SetupInv`): a window has a request under way
exactly while it says that it is checking, and the loops that watch one install
go by different tokens, drawn in rising order; one more token than loops then
leaves a token that no loop has (a pigeonhole argument). *The consents:* whoever
writes a setting that needs consent writes its receipt in the same step, and the
step that goes on after a modal reads the box as it is then. *The outbox*
(`NoReportIsLost`): reports wait in rising order and never more than the limit,
so that the one trimmed is the least and the one removed after a send is either
the one accepted or a case the property names. *Signing in* (`SignInInv`): of all
steps only `Issue` replaces a licence, and it needs a sign-in page that is open.
As long as sign-ins have not met, at most one request signs in, the one open
page is its own, and nobody is told of a licence, let alone saves one, before no
page is left; so whatever is saved is the licence the gateway issued last.

**Votes and guidance.** `FeedbackInv == RowsKept /\ FlowsKept /\ WindowKept /\
VotesKept`. *The requests:* a flow carries what was chosen at its click until its
end, what it sends names that choice of model and profile, and has votes exactly
when guidance was on, and an answer is taken only if it confirms both (`FlowKept`).
*The votes:* the trim counts the newer records of the store, the property the newer
votes of all; a vote newer than one that stands stands itself (`NewerStand`), so the
two counts are of the same set. *The details:* what was polled of a completed job is
how the job still is, because a row is written once by its request and once by its
end (`RowsKept`); a detail window confirms a model only for such a row. The open
question that follows the tabs is about the very prompts shown (`WindowKept`), so
that its answer is a vote on a prompt.

Folds over data are within reach as long as one predicate is followed through them:
it becomes a set of numbers or of sets, and its least counterexample is refuted.
`SelectSeq`, of which the prover knows nothing, is not; where the code takes one
entry out of a list the model says so with `RemoveFirst` or `RemoveAt`.

Model-checked only: liveness (*HoldsResolve*, *ClientsServed*, *Served*, *Resolved*),
which needs fairness and ENABLED; *GraphPromptIsTheOnlyOne*, which rests on the
recursive operators of `ComfyPrompt`; and *DashboardKeepsUp*.

## 6. Disagreements found

**With a run.** `credits_refund_not_final`: `complete_audit` refuses a refunded row,
but reads it outside the transaction that writes: a refund may commit in between,
and the image ends charged with its credits returned (`remote-gateway/app.py:3279`,
3287). Conservation still holds, since the ledger records what was given back.

**Without a run**, met while the models were written. The models contain the
behaviour; the properties above leave these cases out where they would fail.

Gateway and companion:

* Nothing stops an expired starter invoice that is paid late from settling after
  its successor: the starter price is credited twice (`app.py:3393`).
* An expired row is never polled again, so a payment confirmed late is credited
  only if its webhook arrives (`app.py:3474`).
* `oauth_status` decides on a row of an earlier transaction: two polls at once
  both deliver the token that the README says is issued once (2135). When the
  one reply is lost, the next poll answers `delivered`, which the plugin takes for
  an expired sign-in (2136).
* A sign-in that had passed the ban check when its account's licence was revoked
  still issues a new one (2180).
* A repeated sign-in leaves a suspended licence, which the ban check counts for
  ever after, as if the user had been revoked (2180).
* A restart loses `_prompt_chat_runs`: a settled chat stays charged, its reply
  can no longer be fetched (2963).
* After a disconnect the await in the stream's `finally` is cancelled too, and
  the release is skipped: the dedicated GPU's lock is held by nobody until the
  process restarts (492).
* The watcher polls, so another program's turn may come before the warm model is
  evicted; and `retain` starts no watcher while the last one is still returning
  (`vision-studio/app/services/discord_vision.py:304`).
* Tickets are named for the clock before they exist, so that a later one may
  overtake (`shared_queue.py:119`).

Plugin:

* A row cancelled before its turn reads "Cancelled before submission" and is
  submitted all the same: the flow looks for an error or a time-out only
  (plugin:10531).
* A request that waits at a sign-in or purchase modal outlives a stop and start:
  its `finally` then saves its old copy over the conversation that a new window
  has continued (plugin:8589).
* An audit never hides or clears its answer: the last answer stands below the next
  question while that waits, and after it failed (plugin:7894, 7914).
* `parseVisionPromptResponse` never compares the model that answered with the one that
  was asked for; the details of the job say which it was.
* A second sign-in that overlaps the first, or the page of a given-up one
  approved later, suspends the licence just saved, and nothing clears
  `remoteLicense` (plugin:9346).
* `shift()` after a send removes the head of the outbox, which may no longer be
  the report that was sent: an overflow, or a stop and start, has moved it
  (plugin:9569; `README.md:256`).
* A companion that restarts during an install answers "idle" and the setup
  window watches on; a failed poll ends the watch with the button disabled.
* The hidden editor keeps `aria-modal`, so that Escape may not close the overlay;
  a search typed within the debounce may leave the rail at a page that no longer
  exists; the detail window polls a cleared job for ever.
* "ready" is found in "already": the gateway's "Remote request ID was already
  used" is diagnosed as missing GPU capacity, and the branch for request ids
  (plugin:3430) is never reached; a local "GPU not available" is advised on as a
  remote worker's (plugin:3416).
* A dislike is saved under the variant selected when its question is answered, not
  the one it was asked for (plugin:6477); the question does not keep the focus.
* `betterdiscord-plugin/README.md:80` says that the example counts are confirmed
  exactly; `normalizeDatasetGuidanceState` checks ranges.
* A node with positive and negative conditioning side by side offers the text of
  the negative edge too (parser:476), which may even be the one taken when its
  positive side offers none, against `betterdiscord-plugin/README.md:20` ("ignores
  negative conditioning and image-conditioned refiner branches"). When every branch
  has an image they are not ignored: a literal text of theirs is then preferred to
  texts reached by reference (parser:556). An oversized YAML is dropped before the
  YAML files are counted, so that another one is taken for the only one
  (README.md:22).

## 7. What is not modelled

* Within the gateway and companion: HTTP validation, rate limits, formatting and
  logs; the amount actually paid in bitcoin; licences that the administrator
  issues by hand; failure to stop a llama.cpp child (terminate, kill and the job
  object would all have to fail); the queue time-out of Prompt Studio's own jobs;
  tickets that grow stale after six hours; a second gateway process on the same
  database; restarts of the gateway in `DedicatedGpu` (a restart returns to its
  initial state, since the locks are in memory).
* Within the plugin: markup and styles, focus, texts of labels and errors, the
  bytes of PNG chunks (inflating, CRC and UTF-8 are external), the wording the
  consistency checks look for. Vote times are taken to grow; the clock may in
  fact go back. Only the first of three prompts is audited for contradictions, in
  the model as in the code.
* Plugin code that nothing live calls: the saved-image retry (plugin:6221-6290,
  `findSavedOriginalPath` always yields null), region analysis, model comparison
  and batches; the panels of `openProductTools` (7302-7658, 9578-9640) and
  `createJobProductTabs` (6661-7300); `ensureContributionConsent`,
  `saveOriginalImage`, `savePromptSidecar`, `saveVisionPromptSidecar`,
  `readReusableVisionPrompt`, `parseUploadResponse`, `recordSentHash`,
  `toggleHistoryFavorite`, `toggleBatchSelection`, `classifyPromptMetadata`,
  `validateEndpoint`, `disabledDatasetGuidanceState` and the prompt presets.
  `getOrQueueVisionJob` could share a job between flows, but the chain is serial and
  never gives it two.
* Components with status `not_modelled` in `PROJECT.json`: those of the table in
  section 1 are planned, the rest are sequential. Among them are hazards worth a
  model: `track_job` swallows failed writes of a job's end (`analyze.py:199`); a
  request is admitted before its row exists, so that the updater may not count
  it (`analyze.py:499`); an updater started again after its launch
  (`release_updates.py:246`); a `.partial` of full length asks for a range beyond the
  end for ever (`model_downloads.py:290`); the bridge's gate opens when a client
  leaves (`bridge.py:414`).
* Hazards without a property are in `PROJECT.json` with the reason.

## 8. The plan

In this order; each module comes with its MC module, run, mutants and, where
named, theorems.

1. **`StudioJobs`**: the companion's job rows, the describe handler step by step
   (admit, upload, create, progress, describe, last cancel check, complete),
   cancel, clear, restart and the updater's maintenance gate. Properties: an
   accepted cancellation never ends completed; an ended row never changes; the
   active limit; no installer over a running job. Two Discord requests, one
   limit slot fewer than requests, one restart.
2. **`ModelDownloads`**: two artifacts, lengths 0 to 2, right or wrong bytes,
   death at every write, a server that answers 200, 206 or 416; a final file is
   verified, a download that can succeed does.
3. **`VastActivation`**: the floor and the head-room against cancelled calls
   whose thread goes on.
4. **Compositions**: purchases into the accounts of `RemoteCredits`; the bridge's
   gate in front of `DedicatedGpu`; `StudioJobs` in front of `SharedGpu`, and
   behind `PluginVision` and `PluginHistory`. Abstract specifications: a FIFO
   resource, implemented by `DedicatedGpu` and `SharedGpu`; a job that ends once.
5. **Theorems**: the safety of `StudioJobs`; *DashboardKeepsUp*; the search of `ComfyPrompt`, once it is
   written without recursive operators.
