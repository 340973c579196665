---------------------------- MODULE RemoteCredits ----------------------------
(***************************************************************************)
(* The credit accounting of remote-gateway/app.py: every account, hold and *)
(* ledger row the gateway keeps in SQLite, and the HTTP calls that move    *)
(* credits through them - Vision images (infer, complete_audit,            *)
(* fail_audit), Qwen chats (submit_prompt_chat, prompt_chat) and the       *)
(* balance poll (credit_status).                                           *)
(*                                                                         *)
(* One action is one database transaction, or one stretch of a coroutine   *)
(* between two awaits.  The gateway runs one event loop (infer,            *)
(* prompt_chat, the webhook) beside a pool of threads (complete_audit,     *)
(* fail_audit, credit_status), so transactions of different calls          *)
(* interleave freely.  Python's sqlite3 opens a transaction at the first   *)
(* write: what a call SELECTs before that is not protected, which is why   *)
(* complete_audit is two steps here.                                       *)
(***************************************************************************)
EXTENDS Integers, FiniteSets

CONSTANTS
  User,                  \* discord_user_id values: the owners of credit accounts
  License,               \* license_id values a caller may present
  UserOf,                \* the account each license belongs to
  ImageId,               \* request ids of Vision images
  ChatId,                \* request ids of Qwen chats
  Call,                  \* HTTP calls in progress at once
  WELCOME_CREDITS,
  IMAGE_CREDIT_COST,
  PROMPT_CHAT_CREDIT_COST,
  PROMPT_CHAT_OUTPUT_TOKENS_PER_CREDIT,
  NoAccount,             \* the balance of a user without a credit_accounts row
  MaxTokens,             \* the largest max_tokens a chat may ask for
  TokensAsked,           \* the max_tokens values that chats do ask for
  MaxRestarts            \* bound: how often the gateway process dies

Request == ImageId \cup ChatId

NoLicense == "no license"
NoRequest == "no request"
NoUser == "no user"

\* The number of credits that pay for t output tokens.
CreditsFor(t) ==
  LET started == (t + PROMPT_CHAT_OUTPUT_TOKENS_PER_CREDIT - 1)
                   \div PROMPT_CHAT_OUTPUT_TOKENS_PER_CREDIT
  IN  IF started > PROMPT_CHAT_CREDIT_COST
      THEN started ELSE PROMPT_CHAT_CREDIT_COST

LargestHold ==
  IF CreditsFor(MaxTokens) > IMAGE_CREDIT_COST
  THEN CreditsFor(MaxTokens) ELSE IMAGE_CREDIT_COST

ASSUME SetsAreDisjoint ==
  /\ ImageId \cap ChatId = {}
  /\ NoLicense \notin License
  /\ NoRequest \notin Request
  /\ NoUser \notin User
ASSUME SetsAreFinite == IsFiniteSet(User) /\ IsFiniteSet(Request)
ASSUME AccountsAreNumbers == NoAccount \notin Int
ASSUME EveryLicenseHasAUser == UserOf \in [License -> User]
ASSUME CreditAmounts ==
  /\ WELCOME_CREDITS \in Nat
  /\ IMAGE_CREDIT_COST \in Nat \ {0}
  /\ PROMPT_CHAT_CREDIT_COST \in Nat \ {0}
  /\ PROMPT_CHAT_OUTPUT_TOKENS_PER_CREDIT \in Nat \ {0}
  /\ MaxTokens \in Nat \ {0} /\ TokensAsked \subseteq 1..MaxTokens
  /\ MaxRestarts \in Nat

VARIABLES
  db,         \* the SQLite file: survives a restart
  call,       \* the calls in progress: lost in a restart
  run,        \* _prompt_chat_runs, the polled chat results: lost in a restart
  dedicated,  \* dedicated_configured(): own GPU, or Vast Serverless
  restarts,
  orphaned    \* history: chats whose hold outlived the process that took it

vars == <<db, call, run, dedicated, restarts, orphaned>>

(***************************************************************************)
(* The database                                                            *)
(*                                                                         *)
(*   account[u]  available_credits, or NoAccount when u has no row.        *)
(*   job[r]      the remote_jobs or prompt_chat_jobs row of r.  "age" says *)
(*               whether the two-hour reservation limit has passed         *)
(*               ("stale") or, of a completed row, the audit retention     *)
(*               ("retired").                                              *)
(*   ledger      what the credit_ledger rows of r say, by idempotency key: *)
(*               0 means no such row.  reserve is the magnitude of a       *)
(*               negative delta; refund and unused give credits back.      *)
(*               user is the discord_user_id on those rows.                *)
(* The welcome row of the ledger is written with the account row, in one   *)
(* transaction, and is not repeated here.                                  *)
(***************************************************************************)
NoJob == [state |-> "none", license |-> NoLicense, done |-> FALSE, age |-> "fresh"]

EmptyDatabase ==
  [account |-> [u \in User |-> NoAccount],
   job     |-> [r \in Request |-> NoJob],
   ledger  |-> [reserve |-> [r \in Request |-> 0],
                refund  |-> [r \in Request |-> 0],
                unused  |-> [r \in Request |-> 0],
                user    |-> [r \in Request |-> NoUser]]]

Balance(d, u) == IF d.account[u] = NoAccount THEN 0 ELSE d.account[u]

\* A slip: a chat's hold is taken to be the price of the shortest chat.
HeldCreditsMutant(d, r) ==
  IF r \in ImageId THEN IMAGE_CREDIT_COST ELSE PROMPT_CHAT_CREDIT_COST

\* The credits a hold returns: a constant for an image, and for a chat what
\* _prompt_chat_reserved_credits reads back from the ledger.
HeldCredits(d, r) ==
  IF r \in ImageId THEN IMAGE_CREDIT_COST ELSE d.ledger.reserve[r]

\* A slip: INSERT OR REPLACE, so that every visit grants again.
GrantMutant(d, u) == [d EXCEPT !.account[u] = WELCOME_CREDITS]

Grant(d, u) ==
  IF d.account[u] = NoAccount
  THEN [d EXCEPT !.account[u] = WELCOME_CREDITS] ELSE d

\* The credit units that the holds in S took from u: the sum of their sizes,
\* counted instead of added up.
UnitsHeld(d, S, u) ==
  {x \in S \X (1..LargestHold) :
      /\ d.job[x[1]].license # NoLicense
      /\ UserOf[d.job[x[1]].license] = u
      /\ x[2] <= HeldCredits(d, x[1])}

Stale(d) == {r \in Request : d.job[r].state = "reserved" /\ d.job[r].age = "stale"}

\* Refund every hold in S.  The state changes only from "reserved", and the
\* refund row of a request exists at most once (INSERT OR IGNORE on its key).
RefundAll(d, S) ==
  [account |-> [u \in User |->
                  IF d.account[u] = NoAccount THEN NoAccount
                  ELSE d.account[u] + Cardinality(UnitsHeld(d, S, u))],
   job     |-> [r \in Request |->
                  IF r \in S THEN [d.job[r] EXCEPT !.state = "refunded"] ELSE d.job[r]],
   ledger  |-> [d.ledger EXCEPT !.refund =
                  [r \in Request |-> IF r \in S THEN HeldCredits(d, r) ELSE @[r]]]]

\* A slip in the sweep: it forgets the chats.
SweepMutant(d) == RefundAll(d, Stale(d) \cap ImageId)

Sweep(d) == RefundAll(d, Stale(d))

\* A slip: the refund does not look at the hold's state.
ReleaseMutant(d, l, r) ==
  IF d.job[r].license = l THEN RefundAll(d, {r}) ELSE d

Release(d, l, r) ==
  IF d.job[r].state = "reserved" /\ d.job[r].license = l
  THEN RefundAll(d, {r}) ELSE d

\* A slip: the hold was checked against the balance when it was sized, so here
\* any balance that passes the preflight will do.
MayReserveMutant(d, l, r, n) ==
  /\ d.job[r].state = "none"
  /\ d.ledger.reserve[r] = 0
  /\ Balance(Grant(d, UserOf[l]), UserOf[l]) >= PROMPT_CHAT_CREDIT_COST

\* What both reserve functions demand.  The ledger's unique key refuses an id
\* whose job row was pruned.
MayReserve(d, l, r, n) ==
  /\ d.job[r].state = "none"
  /\ d.ledger.reserve[r] = 0
  /\ Balance(Grant(d, UserOf[l]), UserOf[l]) >= n

Reserve(d, l, r, n) ==
  LET u == UserOf[l]
      g == Grant(d, u)
  IN  [account |-> [g.account EXCEPT ![u] = @ - n],
       job     |-> [g.job EXCEPT ![r] =
                      [state |-> "reserved", license |-> l, done |-> FALSE, age |-> "fresh"]],
       ledger  |-> [g.ledger EXCEPT !.reserve[r] = n, !.user[r] = u]]

\* A slip: the ledger gets its row, the account never gets its credits.
SettleMutant(d, l, r, n) ==
  [d EXCEPT !.job[r].state = "charged", !.ledger.unused[r] = d.ledger.reserve[r] - n]

Settle(d, l, r, n) ==
  LET unused == d.ledger.reserve[r] - n
  IN  [account |-> [d.account EXCEPT ![UserOf[l]] = @ + unused],
       job     |-> [d.job EXCEPT ![r].state = "charged"],
       ledger  |-> [d.ledger EXCEPT !.unused[r] = unused]]

(***************************************************************************)
(* Calls in progress                                                       *)
(*   admitted    infer passed its preflight                                *)
(*   routing     infer holds _activation_lock (Vast only)                  *)
(*   inferring   infer reserved its credits and waits for the GPU          *)
(*   completing  complete_audit has read a reserved, unfinished row        *)
(*   pruning     complete_audit has committed and calls prune_audits       *)
(*   submitted   prompt_chat is about to start                             *)
(*   waiting     prompt_chat sized its hold and waits for _prompt_chat_lock*)
(*   chatting    prompt_chat reserved its credits and waits for Qwen       *)
(* tracked: the chat runs as a background task whose result is polled.     *)
(***************************************************************************)
Idle == [pc |-> "idle", req |-> NoRequest, license |-> NoLicense,
         hold |-> 0, limit |-> 0, tracked |-> FALSE]

NoRun == [status |-> "none", charged |-> 0]

NewCall(pc, l, r, tracked) ==
  [pc |-> pc, req |-> r, license |-> l, hold |-> 0, limit |-> 0, tracked |-> tracked]

At(c, pc) == call[c].pc = pc

ActivationLockFree == dedicated \/ \A c \in Call : call[c].pc \notin {"routing", "inferring"}
PromptChatLockFree == \A c \in Call : ~At(c, "chatting")

Init ==
  /\ db = EmptyDatabase
  /\ call = [c \in Call |-> Idle]
  /\ run = [r \in ChatId |-> NoRun]
  /\ dedicated \in BOOLEAN
  /\ restarts = 0
  /\ orphaned = {}

Goto(c, pc) == call' = [call EXCEPT ![c].pc = pc]
Finish(c) == call' = [call EXCEPT ![c] = Idle]
Environment == <<dedicated, restarts, orphaned>>

-----------------------------------------------------------------------------
(***************************************************************************)
(* Vision images                                                           *)
(***************************************************************************)

\* A call that has not written yet and fails its checks rolls back: nothing
\* of the sweep stays.
MayInfer(d, l, r) ==
  /\ d.job[r].state = "none"
  /\ (IF d.account[UserOf[l]] = NoAccount THEN WELCOME_CREDITS
      ELSE d.account[UserOf[l]]) >= IMAGE_CREDIT_COST

\* infer: reject a replay or an empty account before any GPU is woken.
InferPreflight(c, l, r) ==
  /\ At(c, "idle")
  /\ MayInfer(Sweep(db), l, r)
  /\ db' = Sweep(db)
  /\ call' = [call EXCEPT ![c] = NewCall("admitted", l, r, FALSE)]
  /\ UNCHANGED <<run, Environment>>

\* infer on Vast: the call may have waited behind another image, so the whole
\* preflight is repeated once it holds _activation_lock.
InferAcquire(c) ==
  /\ ~dedicated
  /\ At(c, "admitted")
  /\ ActivationLockFree
  /\ MayInfer(Sweep(db), call[c].license, call[c].req)
  /\ db' = Sweep(db)
  /\ Goto(c, "routing")
  /\ UNCHANGED <<run, Environment>>

ReadyToReserve(c) == IF dedicated THEN At(c, "admitted") ELSE At(c, "routing")

\* A slip: the id's earlier use is judged by the job row alone, and the ledger
\* row is inserted with OR IGNORE.
InferReserveMutant(c) ==
  /\ ReadyToReserve(c)
  /\ Balance(db, UserOf[call[c].license]) >= IMAGE_CREDIT_COST
  /\ db' = Reserve(Sweep(db), call[c].license, call[c].req, IMAGE_CREDIT_COST)
  /\ Goto(c, "inferring")
  /\ UNCHANGED <<run, Environment>>

InferReserve(c) ==
  /\ ReadyToReserve(c)
  /\ MayReserve(Sweep(db), call[c].license, call[c].req, IMAGE_CREDIT_COST)
  /\ db' = Reserve(Sweep(db), call[c].license, call[c].req, IMAGE_CREDIT_COST)
  /\ Goto(c, "inferring")
  /\ UNCHANGED <<run, Environment>>

\* The checks fail after the preflight passed, or (Vast) no route comes up or
\* the call is cancelled before it has one: no credits are reserved.
InferReject(c) ==
  /\ call[c].pc \in {"admitted", "routing"}
  /\ \/ ~dedicated
     \/ ~MayReserve(Sweep(db), call[c].license, call[c].req, IMAGE_CREDIT_COST)
  /\ Finish(c)
  /\ UNCHANGED <<db, run, Environment>>

\* A completion reached the caller.  The hold stays until complete_audit,
\* fail_audit or the stale sweep decides it.
InferReturn(c) ==
  /\ At(c, "inferring")
  /\ Finish(c)
  /\ UNCHANGED <<db, run, Environment>>

\* The GPU failed.  The dedicated path refunds at once; the Vast path leaves
\* the hold to the pipeline's final decision.
InferFail(c) ==
  /\ At(c, "inferring")
  /\ db' = IF dedicated THEN Release(db, call[c].license, call[c].req) ELSE db
  /\ Finish(c)
  /\ UNCHANGED <<run, Environment>>

\* The coroutine is cancelled: either path refunds a hold it owns.
InferCancel(c) ==
  /\ At(c, "inferring")
  /\ db' = Release(db, call[c].license, call[c].req)
  /\ Finish(c)
  /\ UNCHANGED <<run, Environment>>

\* complete_audit, the SELECT: the row is the caller's, not completed and not
\* refunded.  (A charged row is always completed.)
CompleteRead(c, l, r) ==
  /\ At(c, "idle")
  /\ db.job[r].license = l
  /\ ~db.job[r].done
  /\ db.job[r].state = "reserved"
  /\ call' = [call EXCEPT ![c] = NewCall("completing", l, r, FALSE)]
  /\ UNCHANGED <<db, run, Environment>>

\* complete_audit, the UPDATEs: they name the request id and no state, and
\* touch no row when the id is gone.
CompleteWrite(c) ==
  /\ At(c, "completing")
  /\ db' = IF db.job[call[c].req].state = "none" THEN db
           ELSE [db EXCEPT !.job[call[c].req].state = "charged",
                           !.job[call[c].req].done = TRUE]
  /\ Goto(c, "pruning")
  /\ UNCHANGED <<run, Environment>>

\* prune_audits: completed rows past the retention disappear.
PruneAudits(c) ==
  /\ At(c, "pruning")
  /\ db' = [db EXCEPT !.job =
              [r \in Request |-> IF r \in ImageId /\ @[r].age = "retired" THEN NoJob ELSE @[r]]]
  /\ Finish(c)
  /\ UNCHANGED <<run, Environment>>

FailAudit(l, r) ==
  /\ db' = Release(db, l, r)
  /\ UNCHANGED <<call, run, Environment>>

-----------------------------------------------------------------------------
(***************************************************************************)
(* Qwen chats                                                              *)
(***************************************************************************)

\* submit_prompt_chat: a new id with a balance becomes a queued run and a
\* background task.
SubmitPromptChat(c, l, r) ==
  LET d == Grant(db, UserOf[l]) IN
  /\ At(c, "idle")
  /\ run[r].status = "none"
  /\ db.job[r].state = "none"
  /\ Balance(d, UserOf[l]) >= PROMPT_CHAT_CREDIT_COST
  /\ db' = d
  /\ run' = [run EXCEPT ![r] = [status |-> "queued", charged |-> 0]]
  /\ call' = [call EXCEPT ![c] = NewCall("submitted", l, r, TRUE)]
  /\ UNCHANGED Environment

\* The synchronous completions route runs prompt_chat without a run.
DirectPromptChat(c, l, r) ==
  /\ At(c, "idle")
  /\ call' = [call EXCEPT ![c] = NewCall("submitted", l, r, FALSE)]
  /\ UNCHANGED <<db, run, Environment>>

SetRun(c, status, charged) ==
  run' = IF call[c].tracked
         THEN [run EXCEPT ![call[c].req].status = status, ![call[c].req].charged = charged]
         ELSE run

LesserOf(a, b) == IF a < b THEN a ELSE b

MayChat(d, r, u) ==
  d.job[r].state = "none" /\ Balance(Grant(d, u), u) >= PROMPT_CHAT_CREDIT_COST

ChatPreflight(c, maxTokens) ==
  LET u == UserOf[call[c].license]
      d == Sweep(db)
      hold == LesserOf(CreditsFor(maxTokens), Balance(Grant(d, u), u))
  IN
  /\ At(c, "submitted")
  /\ MayChat(d, call[c].req, u)
  /\ db' = Grant(d, u)
  /\ call' = [call EXCEPT ![c].pc = "waiting", ![c].hold = hold,
                ![c].limit = LesserOf(maxTokens, hold * PROMPT_CHAT_OUTPUT_TOKENS_PER_CREDIT)]
  /\ SetRun(c, "running", 0)
  /\ UNCHANGED Environment

ChatReserve(c) ==
  /\ At(c, "waiting")
  /\ PromptChatLockFree
  /\ MayReserve(Sweep(db), call[c].license, call[c].req, call[c].hold)
  /\ db' = Reserve(Sweep(db), call[c].license, call[c].req, call[c].hold)
  /\ Goto(c, "chatting")
  /\ UNCHANGED <<run, Environment>>

\* 402 or 409 before anything was reserved: the transaction rolls back and a
\* tracked run reports the error.
ChatReject(c) ==
  LET r == call[c].req
      u == UserOf[call[c].license]
  IN
  /\ \/ At(c, "submitted") /\ ~MayChat(Sweep(db), r, u)
     \/ /\ At(c, "waiting")
        /\ PromptChatLockFree
        /\ ~MayReserve(Sweep(db), call[c].license, r, call[c].hold)
  /\ SetRun(c, "error", 0)
  /\ Finish(c)
  /\ UNCHANGED <<db, Environment>>

\* A slip: the settlement does not ask whether the hold is still there.
ChatSettleMutant(c, t) ==
  LET r == call[c].req IN
  /\ At(c, "chatting")
  /\ t <= call[c].limit
  /\ CreditsFor(t) <= HeldCredits(db, r)
  /\ db' = Settle(db, call[c].license, r, CreditsFor(t))
  /\ SetRun(c, "completed", CreditsFor(t))
  /\ Finish(c)
  /\ UNCHANGED Environment

\* A valid reply of t tokens: charge it and give the rest of the hold back.
ChatSettle(c, t) ==
  LET r == call[c].req IN
  /\ At(c, "chatting")
  /\ t <= call[c].limit
  /\ db.job[r].state = "reserved"
  /\ CreditsFor(t) <= HeldCredits(db, r)
  /\ db' = Settle(db, call[c].license, r, CreditsFor(t))
  /\ SetRun(c, "completed", CreditsFor(t))
  /\ Finish(c)
  /\ UNCHANGED Environment

\* A slip: the error is reported and the hold is forgotten.
ChatFailMutant(c) ==
  /\ At(c, "chatting")
  /\ SetRun(c, "error", 0)
  /\ Finish(c)
  /\ UNCHANGED <<db, Environment>>

\* No valid reply: every exit but success gives the hold back.
ChatFail(c) ==
  /\ At(c, "chatting")
  /\ db' = Release(db, call[c].license, call[c].req)
  /\ SetRun(c, "error", 0)
  /\ Finish(c)
  /\ UNCHANGED Environment

\* Cancelled while it waits for the lock or for the GPU: a hold it owns is
\* refunded, and the task's run keeps the status it had.
ChatCancel(c) ==
  /\ call[c].pc \in {"waiting", "chatting"}
  /\ db' = IF At(c, "chatting") THEN Release(db, call[c].license, call[c].req) ELSE db
  /\ Finish(c)
  /\ UNCHANGED <<run, Environment>>

\* _prune_prompt_chat_runs: a result is kept for thirty minutes after its task
\* has ended.
PruneRun(r) ==
  /\ run[r].status # "none"
  /\ \A c \in Call : ~(call[c].tracked /\ call[c].req = r)
  /\ run' = [run EXCEPT ![r] = NoRun]
  /\ UNCHANGED <<db, call, Environment>>

-----------------------------------------------------------------------------
(***************************************************************************)
(* Everything else                                                         *)
(***************************************************************************)

\* The plugin's balance poll.
CreditStatus(l) ==
  /\ db' = Grant(Sweep(db), UserOf[l])
  /\ UNCHANGED <<call, run, Environment>>

\* Time passes: the reservation limit of a hold, the retention of an audit.
Age(r) ==
  /\ \/ /\ db.job[r].state = "reserved" /\ db.job[r].age = "fresh"
        /\ db' = [db EXCEPT !.job[r].age = "stale"]
     \/ /\ db.job[r].done /\ db.job[r].age # "retired"
        /\ db' = [db EXCEPT !.job[r].age = "retired"]
  /\ UNCHANGED <<call, run, Environment>>

\* The process dies and systemd restarts it: only the database is left.
Restart ==
  /\ restarts < MaxRestarts
  /\ restarts' = restarts + 1
  /\ orphaned' = orphaned \cup {r \in ChatId : db.job[r].state = "reserved"}
  /\ call' = [c \in Call |-> Idle]
  /\ run' = [r \in ChatId |-> NoRun]
  /\ UNCHANGED <<db, dedicated>>

ImageStep ==
  \/ \E c \in Call : InferAcquire(c) \/ InferReserve(c) \/ InferReject(c)
  \/ \E c \in Call : InferReturn(c) \/ InferFail(c) \/ InferCancel(c)
  \/ \E c \in Call : CompleteWrite(c) \/ PruneAudits(c)
  \/ \E c \in Call, l \in License, r \in ImageId : InferPreflight(c, l, r) \/ CompleteRead(c, l, r)
  \/ \E l \in License, r \in ImageId : FailAudit(l, r)

ChatStep ==
  \/ \E c \in Call, l \in License, r \in ChatId : SubmitPromptChat(c, l, r) \/ DirectPromptChat(c, l, r)
  \/ \E c \in Call, t \in TokensAsked : ChatPreflight(c, t)
  \/ \E c \in Call, t \in 1..MaxTokens : ChatSettle(c, t)
  \/ \E c \in Call : ChatReserve(c) \/ ChatReject(c) \/ ChatFail(c) \/ ChatCancel(c)
  \/ \E r \in ChatId : PruneRun(r)

Next ==
  \/ ImageStep
  \/ ChatStep
  \/ \E l \in License : CreditStatus(l)
  \/ \E r \in Request : Age(r)
  \/ Restart

Spec == Init /\ [][Next]_vars

\* Time passes for every hold, and some client keeps polling its balance (any
\* call of any account that reaches the database would do).
FairSpec ==
  /\ Spec
  /\ \A r \in Request : WF_vars(Age(r))
  /\ \A l \in License : WF_vars(CreditStatus(l))

-----------------------------------------------------------------------------
(***************************************************************************)
(* Properties                                                              *)
(***************************************************************************)
JobRow == [state : {"none", "reserved", "charged", "refunded"},
           license : License \cup {NoLicense}, done : BOOLEAN,
           age : {"fresh", "stale", "retired"}]

Ledger == [reserve : [Request -> Nat], refund : [Request -> Nat],
           unused : [Request -> Nat], user : [Request -> User \cup {NoUser}]]

Database == [account : [User -> Nat \cup {NoAccount}], job : [Request -> JobRow],
             ledger : Ledger]

CallRecord == [pc : {"idle", "admitted", "routing", "inferring", "completing", "pruning",
                     "submitted", "waiting", "chatting"},
               req : Request \cup {NoRequest}, license : License \cup {NoLicense},
               hold : Nat, limit : Nat, tracked : BOOLEAN]

\* Every variable has its type.
TypeOK ==
  /\ db \in Database
  /\ call \in [Call -> CallRecord]
  /\ run \in [ChatId -> [status : {"none", "queued", "running", "completed", "error"},
                         charged : Nat]]
  /\ dedicated \in BOOLEAN
  /\ restarts \in 0..MaxRestarts
  /\ orphaned \in SUBSET ChatId

\* The credits that the ledger says u has spent or has on hold.
UnitsOut(d, u) ==
  {x \in Request \X (1..LargestHold) :
      /\ d.ledger.user[x[1]] = u
      /\ x[2] <= d.ledger.reserve[x[1]] - d.ledger.refund[x[1]] - d.ledger.unused[x[1]]}

Conserved(d) ==
  \A u \in User :
    IF d.account[u] = NoAccount THEN UnitsOut(d, u) = {}
    ELSE d.account[u] + Cardinality(UnitsOut(d, u)) = WELCOME_CREDITS

\* No interleaving of reservations, settlements, refunds and sweeps creates or
\* loses a credit, or spends one twice: each balance is exactly what the
\* account's ledger rows add up to, and never below zero, although a chat's
\* hold is sized from a balance read before its wait for the lock (_reserve_*,
\* _release_*, _settle_*, _refund_* of app.py).
CreditsConserved ==
  /\ Conserved(db)
  /\ \A u \in User : Balance(db, u) >= 0

HoldMatchesRow(d, r) ==
  LET j == d.job[r]
      reserve == d.ledger.reserve[r]
      refund == d.ledger.refund[r]
      unused == d.ledger.unused[r]
  IN
  /\ reserve <= LargestHold
  /\ refund + unused <= reserve
  /\ reserve > 0 <=> d.ledger.user[r] \in User
  /\ j.state # "none" => reserve > 0 /\ j.license \in License /\ d.ledger.user[r] = UserOf[j.license]
  /\ j.state = "none" /\ r \in ChatId => reserve = 0
  /\ r \in ImageId /\ reserve > 0 => reserve = IMAGE_CREDIT_COST
  /\ j.state = "reserved" => refund = 0 /\ unused = 0
  /\ j.state = "refunded" => refund = reserve
  /\ j.state = "charged" /\ r \in ChatId =>
       refund = 0 /\ reserve - unused >= PROMPT_CHAT_CREDIT_COST

\* The two records of a hold, its job row and its ledger rows, agree at every
\* moment another transaction can read them: an open hold has given nothing
\* back, a refunded one everything, a charged chat keeps at least its price.
HoldsMatchLedger == \A r \in Request : HoldMatchesRow(db, r)

\* A GPU works only for calls that paid in advance, and never twice on one
\* payment, although a client may send an id again at any time: during the
\* first call, after its audit row was pruned, or after a restart.
NoUnpaidInference ==
  \A c \in Call : call[c].pc \in {"inferring", "chatting"} =>
    /\ db.ledger.reserve[call[c].req] > 0
    /\ db.ledger.user[call[c].req] = UserOf[call[c].license]
    /\ \A b \in Call \ {c} :
         call[b].pc \in {"inferring", "chatting"} => call[b].req # call[c].req

\* A reply the client can fetch has been charged, once, the price it quotes;
\* in particular no sweep or failure handler gave the credits back.
ReplyIsPaid ==
  \A r \in ChatId : run[r].status = "completed" =>
    /\ db.job[r].state = "charged"
    /\ db.ledger.refund[r] = 0
    /\ run[r].charged = db.ledger.reserve[r] - db.ledger.unused[r]

\* The reply limit sent to Qwen never lets a reply outgrow its hold: the
\* settlement's "exceeded its reserved credit ceiling" cannot be the reason a
\* finished reply is thrown away.
HoldCoversReply ==
  \A c \in Call : At(c, "chatting") /\ db.job[call[c].req].state = "reserved" =>
    CreditsFor(call[c].limit) <= HeldCredits(db, call[c].req)

\* A chat hold is open only while its call is still waiting for Qwen; only a
\* restart can leave one behind for the two-hour sweep.
HoldHasOwner ==
  \A r \in ChatId : db.job[r].state = "reserved" =>
    r \in orphaned \/ \E c \in Call : At(c, "chatting") /\ call[c].req = r

\* What was charged stays charged, and ledger rows are only ever added: a late
\* failure report, sweep or cancellation never returns paid credits.
ChargesAreFinal ==
  [][\A r \in Request :
       /\ db.job[r].state = "charged" =>
            db'.ledger.refund[r] = db.ledger.refund[r] /\ db'.ledger.unused[r] = db.ledger.unused[r]
       /\ db.ledger.reserve[r] > 0 => db'.ledger.reserve[r] = db.ledger.reserve[r]
       /\ db.ledger.refund[r] > 0 => db'.ledger.refund[r] = db.ledger.refund[r]]_vars

\* "A refunded remote image cannot be marked complete." (complete_audit)
RefundsAreFinal ==
  [][\A r \in ImageId : db.job[r].state = "refunded" => db'.job[r].state = "refunded"]_vars

Wallet == INSTANCE PrepaidWallet WITH
  InitialCredits <- WELCOME_CREDITS,
  wallet <- db.account,
  held   <- [r \in Request |-> IF db.job[r].state = "reserved" THEN db.ledger.reserve[r] ELSE 0],
  spent  <- [r \in Request |-> IF db.job[r].state = "reserved" THEN 0
               ELSE db.ledger.reserve[r] - db.ledger.refund[r] - db.ledger.unused[r]],
  payer  <- db.ledger.user

\* Seen through its accounts and ledger the gateway is a prepaid wallet: each
\* request id takes at most one hold ever, which is spent or released once.
RefinesWallet == Wallet!Spec

\* Every hold is decided in the end, even if its client, or the gateway
\* process that took it, is gone.
HoldsResolve ==
  \A r \in Request : db.job[r].state = "reserved" ~> db.job[r].state # "reserved"
=============================================================================
