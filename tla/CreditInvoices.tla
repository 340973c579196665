---------------------------- MODULE CreditInvoices ----------------------------
(***************************************************************************)
(* Buying credit packs: create_credit_invoice, the balance poll's          *)
(* _reconcile_credit_invoices and accept_btcpay_webhook of                 *)
(* remote-gateway/app.py, against a BTCPay server that takes payments,     *)
(* expires invoices and delivers webhooks late, twice or never.            *)
(*                                                                         *)
(* The purchase and the poll run in threads of the pool, the webhook on    *)
(* the event loop.  Reconciliation reads the pending rows in one           *)
(* transaction, asks BTCPay about each one without any lock or             *)
(* transaction, and applies each answer in a transaction of its own, so    *)
(* every answer may be stale when it is applied.                           *)
(***************************************************************************)
EXTENDS Integers, FiniteSets, FiniteSetsExt

CONSTANTS
  Buyer,
  Pack,             \* the keys of CREDIT_PACKS
  INTRO,            \* INTRO_CREDIT_PACK_ID: one-time, and the first purchase
  Credits,          \* the credits of each pack
  MaxInvoices,      \* bound: how many invoices BTCPay creates
  Delivery,         \* bound: the webhook deliveries of BTCPay
  PENDING_LIMIT,    \* the LIMIT of the reconciliation's query
  Thread

ASSUME PacksHaveAnIntro == INTRO \in Pack /\ Credits \in [Pack -> Nat \ {0}]
ASSUME Bounds == MaxInvoices \in Nat /\ PENDING_LIMIT \in Nat \ {0}

\* Invoices are numbered as BTCPay creates them, so a larger one is newer.
Invoice == 1..MaxInvoices
NoInvoice == 0
Nobody == "nobody"

VARIABLES
  row,        \* credit_invoices: the gateway's row of each invoice
  paid,       \* the credits that bitcoin_purchase ledger rows gave each user
  ledger,     \* the invoices with a ledger row "invoice:<id>"
  received,   \* btcpay_webhook_deliveries
  btcpay,     \* BTCPay's own record of each invoice
  hook,       \* what BTCPay delivers under a delivery id, once it has sent it
  thread      \* the purchases and polls in progress

purchaseVars == <<row, paid, ledger, received, btcpay, hook, thread>>
gateway == <<row, paid, ledger, received>>
external == <<btcpay, hook>>

NoRow == [status |-> "none", user |-> Nobody, pack |-> INTRO]
NoHook == [type |-> "none", invoice |-> NoInvoice]

\* A thread: todo are the pending invoices it has still to ask about, asked the
\* one it is asking about and answer what BTCPay said.
IdleThread == [pc |-> "idle", user |-> Nobody, pack |-> INTRO, todo |-> {},
               asked |-> NoInvoice, answer |-> "none"]

PurchasesInit ==
  /\ row = [i \in Invoice |-> NoRow]
  /\ paid = [u \in Buyer |-> 0]
  /\ ledger = {}
  /\ received = {}
  /\ btcpay = [i \in Invoice |-> NoRow]
  /\ hook = [d \in Delivery |-> NoHook]
  /\ thread = [t \in Thread |-> IdleThread]

ThreadAt(t, pc) == thread[t].pc = pc

Rows(u, p, status) == {i \in Invoice : row[i] = [status |-> status, user |-> u, pack |-> p]}

IntroUsed(u) == Rows(u, INTRO, "settled") # {}

AllPending(u) == UNION {Rows(u, p, "new") : p \in Pack}

\* ORDER BY created_at DESC LIMIT.
Pending(u) ==
  {i \in AllPending(u) : Cardinality({j \in AllPending(u) : j > i}) < PENDING_LIMIT}

-----------------------------------------------------------------------------
(***************************************************************************)
(* Reconciliation                                                          *)
(***************************************************************************)

\* A slip: nothing asks whether the invoice was settled before, and the ledger
\* row is inserted with OR IGNORE.
SettleRowMutant(i) ==
  IF row[i].status \notin {"none"}
  THEN /\ row' = [row EXCEPT ![i].status = "settled"]
       /\ paid' = [paid EXCEPT ![row[i].user] = @ + Credits[row[i].pack]]
       /\ ledger' = ledger \cup {i}
  ELSE UNCHANGED <<row, paid, ledger>>

\* _settle_credit_invoice_locked.  An expired row may still be settled.
SettleRow(i) ==
  IF row[i].status \notin {"none", "settled"}
  THEN /\ row' = [row EXCEPT ![i].status = "settled"]
       /\ paid' = [paid EXCEPT ![row[i].user] = @ + Credits[row[i].pack]]
       /\ ledger' = ledger \cup {i}
  ELSE UNCHANGED <<row, paid, ledger>>

\* credit_status: poll the account's pending invoices.
BeginPoll(t, u) ==
  /\ ThreadAt(t, "idle")
  /\ thread' = [thread EXCEPT ![t] =
       [IdleThread EXCEPT !.pc = "polling", !.user = u, !.todo = Pending(u)]]
  /\ UNCHANGED <<gateway, external>>

Buying == {"reconciling", "posting", "inserting"}
PurchaseLockFree == \A t \in Thread : thread[t].pc \notin Buying

\* A slip: the lock is taken for the reconciliation alone.
BeginPurchaseMutant(t, u, p) ==
  /\ ThreadAt(t, "idle")
  /\ \A s \in Thread : ~ThreadAt(s, "reconciling")
  /\ thread' = [thread EXCEPT ![t] =
       [IdleThread EXCEPT !.pc = "reconciling", !.user = u, !.pack = p, !.todo = Pending(u)]]
  /\ UNCHANGED <<gateway, external>>

\* create_credit_invoice: under _credit_purchase_lock, first reconcile.
BeginPurchase(t, u, p) ==
  /\ ThreadAt(t, "idle")
  /\ PurchaseLockFree
  /\ thread' = [thread EXCEPT ![t] =
       [IdleThread EXCEPT !.pc = "reconciling", !.user = u, !.pack = p, !.todo = Pending(u)]]
  /\ UNCHANGED <<gateway, external>>

\* GET the invoice: BTCPay answers with the status it has now.
Ask(t, i) ==
  /\ thread[t].asked = NoInvoice /\ i \in thread[t].todo
  /\ thread' = [thread EXCEPT ![t].todo = @ \ {i}, ![t].asked = i,
                  ![t].answer = btcpay[i].status]
  /\ UNCHANGED <<gateway, external>>

\* The GET fails: this invoice is left to a later poll.
AskInVain(t, i) ==
  /\ thread[t].asked = NoInvoice /\ i \in thread[t].todo
  /\ thread' = [thread EXCEPT ![t].todo = @ \ {i}]
  /\ UNCHANGED <<gateway, external>>

Answered(t) == thread' = [thread EXCEPT ![t].asked = NoInvoice, ![t].answer = "none"]

\* A slip: the expiry overwrites whatever status the row has by now.
ApplyMutant(t) ==
  LET i == thread[t].asked IN
  /\ thread[t].pc \in {"polling", "reconciling"} /\ i # NoInvoice
  /\ CASE thread[t].answer = "settled" -> SettleRow(i)
       [] thread[t].answer = "expired" ->
            /\ row' = [row EXCEPT ![i].status = "expired"]
            /\ UNCHANGED <<paid, ledger>>
       [] OTHER -> UNCHANGED <<row, paid, ledger>>
  /\ Answered(t)
  /\ UNCHANGED <<received, external>>

\* Apply the answer: settle, or expire a row that is still new.
Apply(t) ==
  LET i == thread[t].asked IN
  /\ thread[t].pc \in {"polling", "reconciling"} /\ i # NoInvoice
  /\ CASE thread[t].answer = "settled" -> SettleRow(i)
       [] thread[t].answer = "expired" /\ row[i].status = "new" ->
            /\ row' = [row EXCEPT ![i].status = "expired"]
            /\ UNCHANGED <<paid, ledger>>
       [] OTHER -> UNCHANGED <<row, paid, ledger>>
  /\ Answered(t)
  /\ UNCHANGED <<received, external>>

Reconciled(t) == thread[t].todo = {} /\ thread[t].asked = NoInvoice

EndPoll(t) ==
  /\ ThreadAt(t, "polling") /\ Reconciled(t)
  /\ thread' = [thread EXCEPT ![t] = IdleThread]
  /\ UNCHANGED <<gateway, external>>

-----------------------------------------------------------------------------
(***************************************************************************)
(* Purchases                                                               *)
(***************************************************************************)

\* The starter once, and nothing else before it.
MayBuy(u, p) == p = INTRO <=> ~IntroUsed(u)

\* 409, or the checkout of a pending invoice of the same pack is shown again.
EndPurchase(t) ==
  /\ ThreadAt(t, "reconciling") /\ Reconciled(t)
  /\ \/ ~MayBuy(thread[t].user, thread[t].pack)
     \/ Rows(thread[t].user, thread[t].pack, "new") # {}
  /\ thread' = [thread EXCEPT ![t] = IdleThread]
  /\ UNCHANGED <<gateway, external>>

DecideToPost(t) ==
  /\ ThreadAt(t, "reconciling") /\ Reconciled(t)
  /\ MayBuy(thread[t].user, thread[t].pack)
  /\ Rows(thread[t].user, thread[t].pack, "new") = {}
  /\ thread' = [thread EXCEPT ![t].pc = "posting"]
  /\ UNCHANGED <<gateway, external>>

\* POST the invoice.  The answer may be lost or unusable (503): the invoice then
\* exists at BTCPay alone and nobody has its checkout link.
PostInvoice(t, answered) ==
  LET made == {i \in Invoice : btcpay[i].status # "none"}
      i == Cardinality(made) + 1
  IN
  /\ ThreadAt(t, "posting")
  /\ i \in Invoice
  /\ btcpay' = [btcpay EXCEPT ![i] =
       [status |-> "new", user |-> thread[t].user, pack |-> thread[t].pack]]
  /\ thread' = [thread EXCEPT ![t] =
       IF answered THEN [thread[t] EXCEPT !.pc = "inserting", !.asked = i] ELSE IdleThread]
  /\ UNCHANGED <<gateway, hook>>

PostInVain(t) ==
  /\ ThreadAt(t, "posting")
  /\ thread' = [thread EXCEPT ![t] = IdleThread]
  /\ UNCHANGED <<gateway, external>>

InsertRow(t) ==
  LET i == thread[t].asked IN
  /\ ThreadAt(t, "inserting")
  /\ row' = [row EXCEPT ![i] =
       [status |-> "new", user |-> thread[t].user, pack |-> thread[t].pack]]
  /\ thread' = [thread EXCEPT ![t] = IdleThread]
  /\ UNCHANGED <<paid, ledger, received, external>>

-----------------------------------------------------------------------------
(***************************************************************************)
(* Webhooks                                                                *)
(***************************************************************************)

\* accept_btcpay_webhook, one transaction: a delivery id counts once, and only
\* InvoiceSettled of a known invoice settles.
ReceiveWebhook(d) ==
  /\ hook[d] # NoHook
  /\ received' = received \cup {d}
  /\ IF d \notin received /\ hook[d].type = "InvoiceSettled"
     THEN SettleRow(hook[d].invoice) ELSE UNCHANGED <<row, paid, ledger>>
  /\ UNCHANGED <<external, thread>>

-----------------------------------------------------------------------------
(***************************************************************************)
(* BTCPay and its customers                                                *)
(***************************************************************************)

\* The checkout link leaves the gateway with the row.
LinkShown(i) == row[i].status # "none"

Move(i, from, to) ==
  /\ btcpay[i].status = from
  /\ btcpay' = [btcpay EXCEPT ![i].status = to]

Pay(i) == LinkShown(i) /\ Move(i, "new", "processing") /\ UNCHANGED <<gateway, hook, thread>>

\* The payment is confirmed, or is replaced and never confirms.
Confirm(i) == Move(i, "processing", "settled") /\ UNCHANGED <<gateway, hook, thread>>
PaymentFails(i) == Move(i, "processing", "expired") /\ UNCHANGED <<gateway, hook, thread>>

Expire(i) == Move(i, "new", "expired") /\ UNCHANGED <<gateway, hook, thread>>

\* A payment arrives after the expiry, and the store's owner marks it settled.
PayLate(i) == LinkShown(i) /\ Move(i, "expired", "settled") /\ UNCHANGED <<gateway, hook, thread>>

\* BTCPay announces a status under a fresh delivery id; the announcement may
\* be repeated, delayed past other changes, or never arrive.
Announce(d, i) ==
  /\ hook[d] = NoHook
  /\ \/ btcpay[i].status = "settled" /\ hook' = [hook EXCEPT ![d] = [type |-> "InvoiceSettled", invoice |-> i]]
     \/ btcpay[i].status = "processing" /\ hook' = [hook EXCEPT ![d] = [type |-> "InvoiceProcessing", invoice |-> i]]
  /\ UNCHANGED <<gateway, btcpay, thread>>

\* The process dies: its threads and its lock are gone.
GatewayRestart ==
  /\ \E t \in Thread : thread[t] # IdleThread
  /\ thread' = [t \in Thread |-> IdleThread]
  /\ UNCHANGED <<gateway, external>>

Reconcile(t) ==
  \/ \E i \in Invoice : Ask(t, i) \/ AskInVain(t, i)
  \/ Apply(t)

Purchase(t) ==
  \/ \E u \in Buyer, p \in Pack : BeginPurchase(t, u, p)
  \/ EndPurchase(t) \/ DecideToPost(t) \/ PostInVain(t) \/ InsertRow(t)
  \/ \E answered \in BOOLEAN : PostInvoice(t, answered)

Btcpay ==
  \/ \E i \in Invoice : Pay(i) \/ Confirm(i) \/ PaymentFails(i) \/ Expire(i) \/ PayLate(i)
  \/ \E d \in Delivery, i \in Invoice : Announce(d, i)

PurchasesNext ==
  \/ \E t \in Thread, u \in Buyer : BeginPoll(t, u)
  \/ \E t \in Thread : Reconcile(t) \/ EndPoll(t) \/ Purchase(t)
  \/ \E d \in Delivery : ReceiveWebhook(d)
  \/ Btcpay
  \/ GatewayRestart

PurchasesSpec == PurchasesInit /\ [][PurchasesNext]_purchaseVars

-----------------------------------------------------------------------------
(***************************************************************************)
(* Properties                                                              *)
(***************************************************************************)
RowStatus == {"none", "new", "settled", "expired"}
Status == RowStatus \cup {"processing"}
Record(statuses) == [status : statuses, user : Buyer \cup {Nobody}, pack : Pack]

\* Each variable has its type; a row never takes a status that is not final
\* for the gateway, so it is pending, settled or given up.
PurchasesTypeOK ==
  /\ row \in [Invoice -> Record(RowStatus)]
  /\ paid \in [Buyer -> Nat]
  /\ ledger \in SUBSET Invoice
  /\ received \in SUBSET Delivery
  /\ btcpay \in [Invoice -> Record(Status)]
  /\ hook \in [Delivery -> [type : {"InvoiceSettled", "InvoiceProcessing"},
                            invoice : Invoice] \cup {NoHook}]
  /\ thread \in [Thread -> [pc : {"idle", "polling"} \cup Buying, user : Buyer \cup {Nobody},
                            pack : Pack, todo : SUBSET Invoice,
                            asked : Invoice \cup {NoInvoice}, answer : Status]]

CreditsOf(S) == MapThenSumSet(LAMBDA i : Credits[row[i].pack], S)

\* "The gateway ... credits an invoice once": what a user received is the price
\* of the settled invoices, however often webhook and poll report each.
PaidOnce ==
  \A u \in Buyer :
    paid[u] = CreditsOf({i \in Invoice : row[i].status = "settled" /\ row[i].user = u})

\* "Reopening the starter checkout reuses its pending invoice": a user has at
\* most one open invoice of a pack, however the purchases interleave.
OneOpenInvoice ==
  \A u \in Buyer, p \in Pack : Cardinality(Rows(u, p, "new")) <= 1

\* A settled invoice stays settled, however late an expiry is applied.
SettledIsFinal ==
  [][\A i \in Invoice : row[i].status = "settled" => row'[i].status = "settled"]_purchaseVars

=============================================================================
