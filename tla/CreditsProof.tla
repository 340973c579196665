----------------------------- MODULE CreditsProof -----------------------------
(***************************************************************************)
(* What the credits of the gateway keep, for every set of accounts,        *)
(* licenses, request ids and concurrent calls and for every price: the     *)
(* theorems of RemoteCredits, and after them those of CreditInvoices, for  *)
(* any buyers, packs, threads, deliveries and number of invoices.          *)
(*                                                                         *)
(* RemoteCredits.  The argument has two layers.  The lemmas on database    *)
(* values show that each operator a transaction is built from (Grant,      *)
(* RefundAll, Reserve, Settle, ...) keeps the database consistent and      *)
(* changes rows only in the allowed direction; sums are cardinalities of   *)
(* sets of credit units, so that the theorems on finite sets apply.  The   *)
(* inductive invariant then adds what each call in progress relies on.     *)
(* The refinement of PrepaidWallet is read off the direction in which the  *)
(* rows moved.                                                             *)
(*                                                                         *)
(* CreditInvoices.  A purchase decides on rows it reads before its POST    *)
(* and inserts its own row afterwards.  The invariant says why nothing     *)
(* comes in between: one thread buys at a time, what it decided on still   *)
(* holds while it posts, and the number BTCPay drew is nobody else's, so   *)
(* that its row is new and overwrites none.  What a buyer was credited is  *)
(* a sum over the settled invoices.  It does not depend on the order of    *)
(* its terms, so a settlement, which adds one invoice to the set and       *)
(* changes the price of none, adds one term.                               *)
(***************************************************************************)
EXTENDS RemoteCredits, CreditInvoices, FiniteSetTheorems, WellFoundedInduction, TLAPS

-----------------------------------------------------------------------------
(***************************************************************************)
(* Arithmetic of prices                                                    *)
(***************************************************************************)

\* Rounding up to started units never rounds past a whole number of units.
LEMMA CeilingBound ==
  ASSUME NEW k \in Nat \ {0}, NEW t \in Nat, NEW h \in Nat, t <= h * k
  PROVE  (t + k - 1) \div k <= h
<1> DEFINE q == (t + k - 1) \div k
<1>1. q \in Int /\ q * k <= t + k - 1
  BY SMT
<1>2. q * k < (h + 1) * k
  BY <1>1, SMT
<1>3. q < h + 1
  BY <1>1, <1>2, SMT
<1> QED
  BY <1>1, <1>3, SMT

LEMMA CreditsForType ==
  ASSUME NEW t \in Nat
  PROVE  CreditsFor(t) \in Nat /\ CreditsFor(t) >= PROMPT_CHAT_CREDIT_COST
<1> DEFINE k == PROMPT_CHAT_OUTPUT_TOKENS_PER_CREDIT
<1>1. k \in Nat \ {0} /\ PROMPT_CHAT_CREDIT_COST \in Nat \ {0}
  BY CreditAmounts
<1>2. (t + k - 1) \div k \in Int
  BY <1>1, SMT
<1> QED
  BY <1>1, <1>2, SMT DEF CreditsFor

LEMMA CreditsForMonotone ==
  ASSUME NEW s \in Nat, NEW t \in Nat, s <= t
  PROVE  CreditsFor(s) <= CreditsFor(t)
<1> DEFINE k == PROMPT_CHAT_OUTPUT_TOKENS_PER_CREDIT
           p == (s + k - 1) \div k
           q == (t + k - 1) \div k
<1>1. k \in Nat \ {0} /\ PROMPT_CHAT_CREDIT_COST \in Nat \ {0}
  BY CreditAmounts
<1>2. p \in Int /\ q \in Nat /\ t <= q * k
  BY <1>1, SMT
<1>3. p <= q
  BY <1>1, <1>2, CeilingBound
<1> HIDE DEF p, q
<1>4. CreditsFor(s) = IF p > PROMPT_CHAT_CREDIT_COST THEN p ELSE PROMPT_CHAT_CREDIT_COST
  BY DEF CreditsFor, p
<1>5. CreditsFor(t) = IF q > PROMPT_CHAT_CREDIT_COST THEN q ELSE PROMPT_CHAT_CREDIT_COST
  BY DEF CreditsFor, q
<1> QED
  BY <1>1, <1>2, <1>3, <1>4, <1>5, SMT

\* A reply within the limit derived from a hold is paid for by that hold.
LEMMA HoldPays ==
  ASSUME NEW h \in Nat, h >= PROMPT_CHAT_CREDIT_COST,
         NEW t \in Nat, t <= h * PROMPT_CHAT_OUTPUT_TOKENS_PER_CREDIT
  PROVE  CreditsFor(t) <= h
<1> DEFINE k == PROMPT_CHAT_OUTPUT_TOKENS_PER_CREDIT
           q == (t + k - 1) \div k
<1>1. k \in Nat \ {0} /\ PROMPT_CHAT_CREDIT_COST \in Nat \ {0}
  BY CreditAmounts
<1>2. q \in Int /\ q <= h
  BY <1>1, CeilingBound, SMT
<1> HIDE DEF q
<1>3. CreditsFor(t) = IF q > PROMPT_CHAT_CREDIT_COST THEN q ELSE PROMPT_CHAT_CREDIT_COST
  BY DEF CreditsFor, q
<1> QED
  BY <1>1, <1>2, <1>3, SMT

LEMMA Prices ==
  /\ LargestHold \in Nat
  /\ IMAGE_CREDIT_COST \in Nat \ {0} /\ IMAGE_CREDIT_COST <= LargestHold
  /\ \A t \in 1..MaxTokens : CreditsFor(t) \in 1..LargestHold
<1>1. MaxTokens \in Nat /\ IMAGE_CREDIT_COST \in Nat \ {0} /\ PROMPT_CHAT_CREDIT_COST \in Nat \ {0}
  BY CreditAmounts
<1>2. CreditsFor(MaxTokens) \in Nat
  BY <1>1, CreditsForType
<1>3. ASSUME NEW t \in 1..MaxTokens
      PROVE  CreditsFor(t) \in Nat /\ CreditsFor(t) >= 1 /\ CreditsFor(t) <= CreditsFor(MaxTokens)
  BY <1>1, CreditsForType, CreditsForMonotone
<1> QED
  BY <1>1, <1>2, <1>3 DEF LargestHold

-----------------------------------------------------------------------------
(***************************************************************************)
(* Credit units                                                            *)
(***************************************************************************)
AllUnits == Request \X (1..LargestHold)

LEMMA UnitsFinite ==
  /\ IsFiniteSet(AllUnits)
  /\ \A S \in SUBSET AllUnits : IsFiniteSet(S) /\ Cardinality(S) \in Nat
<1>1. IsFiniteSet(1..LargestHold)
  BY Prices, FS_Interval
<1>2. IsFiniteSet(AllUnits)
  BY <1>1, SetsAreFinite, FS_Product DEF AllUnits
<1> QED
  BY <1>2, FS_Subset, FS_CardinalityType

\* The units a+1..b of one request's hold.
Slice(r, a, b) == {r} \X ((a + 1)..b)

LEMMA SliceSize ==
  ASSUME NEW r \in Request, NEW a \in Nat, NEW b \in Nat, a <= b, b <= LargestHold
  PROVE  /\ Slice(r, a, b) \in SUBSET AllUnits
         /\ Cardinality(Slice(r, a, b)) = b - a
<1>1. IsFiniteSet({r}) /\ Cardinality({r}) = 1
  BY FS_Singleton
<1>2. IsFiniteSet((a + 1)..b) /\ Cardinality((a + 1)..b) = b - a
  <2>1. a + 1 \in Int /\ b \in Int
    OBVIOUS
  <2>2. IsFiniteSet((a + 1)..b)
        /\ Cardinality((a + 1)..b) = IF a + 1 > b THEN 0 ELSE b - (a + 1) + 1
    BY <2>1, FS_Interval
  <2> QED
    BY <2>2
<1>3. Cardinality(Slice(r, a, b)) = 1 * (b - a)
  <2> DEFINE S == {r}
             T == (a + 1)..b
  <2>1. IsFiniteSet(S) /\ Cardinality(S) = 1 /\ IsFiniteSet(T) /\ Cardinality(T) = b - a
    BY <1>1, <1>2
  <2>2. Slice(r, a, b) = S \X T
    BY DEF Slice
  <2> HIDE DEF S, T
  <2>3. Cardinality(S \X T) = Cardinality(S) * Cardinality(T)
    BY <2>1, FS_Product
  <2> QED
    BY <2>1, <2>2, <2>3
<1>4. Slice(r, a, b) \subseteq AllUnits
  BY Prices DEF Slice, AllUnits
<1> QED
  BY <1>3, <1>4

-----------------------------------------------------------------------------
(***************************************************************************)
(* Databases                                                               *)
(***************************************************************************)
DbInv(d) ==
  /\ d \in Database
  /\ \A r \in Request : HoldMatchesRow(d, r)
  /\ Conserved(d)

\* Which way the rows of a request may move in a transaction.
RowEvolves(d, e, r) ==
  /\ d.ledger.reserve[r] > 0 => /\ e.ledger.reserve[r] = d.ledger.reserve[r]
                                /\ e.ledger.user[r] = d.ledger.user[r]
  /\ d.ledger.reserve[r] = 0 /\ e.ledger.reserve[r] > 0 => e.job[r].state = "reserved"
  /\ d.ledger.refund[r] > 0 => e.ledger.refund[r] = d.ledger.refund[r]
  /\ d.job[r].state # "reserved" /\ d.ledger.reserve[r] > 0 =>
       e.ledger.refund[r] = d.ledger.refund[r] /\ e.ledger.unused[r] = d.ledger.unused[r]
  /\ d.ledger.reserve[r] > 0 => e.job[r].state \in {d.job[r].state, "none", "charged", "refunded"}
  /\ r \in ChatId /\ d.job[r].state # "none" =>
       e.job[r].license = d.job[r].license /\ e.job[r].state # "none"
  /\ r \in ChatId /\ d.job[r].state \notin {"none", "reserved"} => e.job[r].state = d.job[r].state

AccountsStay(d, e) == \A u \in User : d.account[u] # NoAccount => e.account[u] # NoAccount

SameReserves(d, e) == \A r \in Request : e.ledger.reserve[r] = d.ledger.reserve[r]

Evolves(d, e) == AccountsStay(d, e) /\ \A r \in Request : RowEvolves(d, e, r)

LEMMA EvolvesRefl == ASSUME NEW d \in Database PROVE Evolves(d, d)
  BY DEF Evolves, AccountsStay, RowEvolves, Database, Ledger, JobRow

LEMMA Fields ==
  ASSUME NEW d \in Database
  PROVE  /\ d.account \in [User -> Nat \cup {NoAccount}]
         /\ d.job \in [Request -> JobRow]
         /\ d.ledger.reserve \in [Request -> Nat]
         /\ d.ledger.refund \in [Request -> Nat]
         /\ d.ledger.unused \in [Request -> Nat]
         /\ d.ledger.user \in [Request -> User \cup {NoUser}]
  BY DEF Database, Ledger

LEMMA OutIsFinite ==
  ASSUME NEW d, NEW u
  PROVE  /\ UnitsOut(d, u) \in SUBSET AllUnits
         /\ IsFiniteSet(UnitsOut(d, u)) /\ Cardinality(UnitsOut(d, u)) \in Nat
<1>1. UnitsOut(d, u) \in SUBSET AllUnits
  BY DEF UnitsOut, AllUnits
<1> QED
  BY <1>1, UnitsFinite

\* An open hold: both of its records, read together.
LEMMA OpenHold ==
  ASSUME NEW d, DbInv(d), NEW r \in Request, d.job[r].state = "reserved"
  PROVE  /\ HeldCredits(d, r) = d.ledger.reserve[r]
         /\ d.ledger.reserve[r] \in 1..LargestHold
         /\ d.ledger.refund[r] = 0 /\ d.ledger.unused[r] = 0
         /\ d.job[r].license \in License
         /\ d.ledger.user[r] = UserOf[d.job[r].license]
         /\ d.ledger.user[r] \in User
<1>1. HoldMatchesRow(d, r) /\ d.ledger.reserve[r] \in Nat
  BY Fields DEF DbInv
<1>2. r \in ImageId => d.ledger.reserve[r] = IMAGE_CREDIT_COST
  BY <1>1 DEF HoldMatchesRow
<1> QED
  BY <1>1, <1>2, Prices, EveryLicenseHasAUser DEF HoldMatchesRow, HeldCredits

LEMMA RefundAllUnits ==
  ASSUME NEW d, DbInv(d), NEW S \in SUBSET Request, NEW u \in User,
         \A r \in S : d.job[r].state = "reserved"
  PROVE  /\ UnitsHeld(d, S, u) \subseteq UnitsOut(d, u)
         /\ UnitsOut(RefundAll(d, S), u) = UnitsOut(d, u) \ UnitsHeld(d, S, u)
<1> DEFINE e == RefundAll(d, S)
<1>1. \A r \in S : /\ HeldCredits(d, r) = d.ledger.reserve[r]
                   /\ d.ledger.reserve[r] \in Nat
                   /\ d.ledger.refund[r] = 0 /\ d.ledger.unused[r] = 0
                   /\ d.job[r].license \in License
                   /\ d.ledger.user[r] = UserOf[d.job[r].license]
  BY OpenHold
<1>2. d \in Database
  BY DEF DbInv
<1>3. \A r \in Request :
        /\ e.ledger.reserve[r] = d.ledger.reserve[r]
        /\ e.ledger.unused[r] = d.ledger.unused[r]
        /\ e.ledger.user[r] = d.ledger.user[r]
        /\ e.ledger.refund[r] = IF r \in S THEN HeldCredits(d, r) ELSE d.ledger.refund[r]
  BY <1>2, Fields DEF RefundAll, Database, Ledger
<1>4. ASSUME NEW x \in AllUnits
      PROVE  /\ x \in UnitsHeld(d, S, u) <=> x[1] \in S /\ x \in UnitsOut(d, u)
             /\ x \in UnitsOut(e, u) <=> x[1] \notin S /\ x \in UnitsOut(d, u)
  <2>1. x[1] \in Request /\ x[2] \in 1..LargestHold /\ x = <<x[1], x[2]>>
    BY DEF AllUnits
  <2>2. x \in UnitsHeld(d, S, u) <=>
          /\ x[1] \in S
          /\ d.job[x[1]].license # NoLicense
          /\ UserOf[d.job[x[1]].license] = u
          /\ x[2] <= HeldCredits(d, x[1])
    BY <2>1 DEF UnitsHeld
  <2>3. \A f : x \in UnitsOut(f, u) <=>
          /\ f.ledger.user[x[1]] = u
          /\ x[2] <= f.ledger.reserve[x[1]] - f.ledger.refund[x[1]] - f.ledger.unused[x[1]]
    BY <2>1 DEF UnitsOut
  <2>4. CASE x[1] \in S
    <3>1. d.job[x[1]].license # NoLicense
      BY <2>4, <1>1, SetsAreDisjoint
    <3>2. x[2] <= d.ledger.reserve[x[1]] <=>
          x[2] <= d.ledger.reserve[x[1]] - d.ledger.refund[x[1]] - d.ledger.unused[x[1]]
      BY <2>4, <1>1, <2>1
    <3>3. ~(x[2] <= e.ledger.reserve[x[1]] - e.ledger.refund[x[1]] - e.ledger.unused[x[1]])
      BY <2>4, <1>1, <1>3, <2>1, Prices
    <3> QED
      BY <2>4, <3>1, <3>2, <3>3, <2>2, <2>3, <1>1
  <2>5. CASE x[1] \notin S
    BY <2>5, <2>1, <2>2, <2>3, <1>3
  <2> QED
    BY <2>4, <2>5
<1>5. UnitsHeld(d, S, u) \subseteq AllUnits
  BY DEF UnitsHeld, AllUnits
<1>6. UnitsOut(d, u) \subseteq AllUnits /\ UnitsOut(e, u) \subseteq AllUnits
  BY OutIsFinite
<1> QED
  BY <1>4, <1>5, <1>6

\* Refunding open holds keeps the database consistent, moves rows forward only,
\* and lowers no balance.
LEMMA RefundAllKeeps ==
  ASSUME NEW d, DbInv(d), NEW S \in SUBSET Request,
         \A r \in S : d.job[r].state = "reserved"
  PROVE  /\ DbInv(RefundAll(d, S))
         /\ Evolves(d, RefundAll(d, S)) /\ SameReserves(d, RefundAll(d, S))
<1> DEFINE e == RefundAll(d, S)
<1>1. d \in Database
  BY DEF DbInv
<1>2. /\ \A u \in User : e.account[u] = IF d.account[u] = NoAccount THEN NoAccount
                                          ELSE d.account[u] + Cardinality(UnitsHeld(d, S, u))
      /\ \A r \in Request :
           e.job[r] = IF r \in S THEN [d.job[r] EXCEPT !.state = "refunded"] ELSE d.job[r]
      /\ \A r \in Request :
           e.ledger.refund[r] = IF r \in S THEN d.ledger.reserve[r] ELSE d.ledger.refund[r]
      /\ e.ledger.reserve = d.ledger.reserve
      /\ e.ledger.unused = d.ledger.unused
      /\ e.ledger.user = d.ledger.user
  BY <1>1, Fields, OpenHold DEF RefundAll, Database, Ledger
<1>3. ASSUME NEW u \in User
      PROVE  IF d.account[u] = NoAccount
             THEN e.account[u] = NoAccount /\ UnitsOut(e, u) = {}
             ELSE /\ e.account[u] \in Nat
                  /\ e.account[u] + Cardinality(UnitsOut(e, u)) = WELCOME_CREDITS
  <2>1. /\ UnitsHeld(d, S, u) \subseteq UnitsOut(d, u)
        /\ UnitsOut(e, u) = UnitsOut(d, u) \ UnitsHeld(d, S, u)
    BY RefundAllUnits
  <2>2. /\ IsFiniteSet(UnitsOut(d, u)) /\ Cardinality(UnitsOut(d, u)) \in Nat
        /\ IsFiniteSet(UnitsHeld(d, S, u)) /\ Cardinality(UnitsHeld(d, S, u)) \in Nat
    BY <2>1, OutIsFinite, FS_Subset, FS_CardinalityType
  <2>3. Cardinality(UnitsOut(e, u)) = Cardinality(UnitsOut(d, u)) - Cardinality(UnitsHeld(d, S, u))
    <3>1. UnitsOut(d, u) \cap UnitsHeld(d, S, u) = UnitsHeld(d, S, u)
      BY <2>1
    <3> QED
      BY <2>1, <2>2, <3>1, FS_Difference
  <2>4. d.account[u] \in Nat \cup {NoAccount}
    BY <1>1, Fields
  <2>5. CASE d.account[u] = NoAccount
    <3>1. UnitsOut(d, u) = {}
      BY <2>5 DEF DbInv, Conserved
    <3>2. UnitsHeld(d, S, u) = {} /\ UnitsOut(e, u) = {}
      BY <3>1, <2>1
    <3> QED
      BY <2>5, <3>2, <1>2
  <2>6. CASE d.account[u] # NoAccount
    <3>1. d.account[u] + Cardinality(UnitsOut(d, u)) = WELCOME_CREDITS
      BY <2>6 DEF DbInv, Conserved
    <3> QED
      BY <2>2, <2>3, <2>4, <2>6, <3>1, <1>2
  <2> QED
    BY <2>5, <2>6
<1>4. e \in Database
  <2>1. \A u \in User : e.account[u] \in Nat \cup {NoAccount}
    BY <1>3
  <2>2. ASSUME NEW r \in Request PROVE e.job[r] \in JobRow
    <3>1. d.job[r] \in JobRow
      BY <1>1, Fields
    <3>2. [d.job[r] EXCEPT !.state = "refunded"] \in JobRow
      BY <3>1 DEF JobRow
    <3> QED
      BY <3>1, <3>2, <1>2
  <2>3. \A r \in Request : e.ledger.refund[r] \in Nat
    BY <1>1, <1>2, Fields
  <2> QED
    BY <1>1, <2>1, <2>2, <2>3 DEF RefundAll, Database, Ledger
<1>5. ASSUME NEW r \in Request
      PROVE  HoldMatchesRow(e, r)
  <2>1. HoldMatchesRow(d, r) /\ d.job[r] \in JobRow
    BY <1>1, Fields DEF DbInv
  <2>2. CASE r \in S
    <3>1. e.job[r].state = "refunded" /\ e.job[r].license = d.job[r].license
      BY <2>1, <2>2, <1>2 DEF JobRow
    <3>2. d.ledger.reserve[r] \in Nat /\ d.ledger.refund[r] = 0 /\ d.ledger.unused[r] = 0
      BY <2>2, OpenHold
    <3> QED
      BY <2>1, <2>2, <3>1, <3>2, <1>2 DEF HoldMatchesRow
  <2>3. CASE r \notin S
    BY <2>1, <2>3, <1>2 DEF HoldMatchesRow
  <2> QED
    BY <2>2, <2>3
<1>6. Conserved(e)
  BY <1>3, AccountsAreNumbers DEF Conserved
<1>7. ASSUME NEW r \in Request
      PROVE  RowEvolves(d, e, r)
  <2>1. HoldMatchesRow(d, r) /\ d.job[r] \in JobRow
    BY <1>1, Fields DEF DbInv
  <2>2. CASE r \in S
    <3>1. e.job[r].state = "refunded" /\ e.job[r].license = d.job[r].license
      BY <2>1, <2>2, <1>2 DEF JobRow
    <3>2. d.job[r].state = "reserved" /\ d.ledger.refund[r] = 0
      BY <2>2, OpenHold
    <3> QED
      BY <3>1, <3>2, <1>2 DEF RowEvolves
  <2>3. CASE r \notin S
    <3>1. d.ledger.reserve[r] \in Nat /\ e.ledger.reserve[r] = d.ledger.reserve[r]
      BY <1>1, <1>2, Fields
    <3>2. /\ e.job[r] = d.job[r] /\ e.ledger.refund[r] = d.ledger.refund[r]
          /\ e.ledger.user[r] = d.ledger.user[r] /\ e.ledger.unused[r] = d.ledger.unused[r]
      BY <2>3, <1>2
    <3> HIDE DEF e
    <3> QED
      BY <3>1, <3>2 DEF RowEvolves
  <2> QED
    BY <2>2, <2>3
<1>8. AccountsStay(d, e)
  BY <1>3, AccountsAreNumbers DEF AccountsStay
<1>9. SameReserves(d, e)
  BY <1>2 DEF SameReserves
<1> QED
  BY <1>4, <1>5, <1>6, <1>7, <1>8, <1>9 DEF DbInv, Evolves

LEMMA SweepKeeps ==
  ASSUME NEW d, DbInv(d)
  PROVE  DbInv(Sweep(d)) /\ Evolves(d, Sweep(d))
  BY RefundAllKeeps DEF Sweep, Stale

LEMMA ReleaseKeeps ==
  ASSUME NEW d, DbInv(d), NEW l, NEW r \in Request
  PROVE  DbInv(Release(d, l, r)) /\ Evolves(d, Release(d, l, r))
<1>1. CASE d.job[r].state = "reserved" /\ d.job[r].license = l
  BY <1>1, RefundAllKeeps DEF Release
<1>2. CASE ~(d.job[r].state = "reserved" /\ d.job[r].license = l)
  BY <1>2, EvolvesRefl DEF Release, DbInv
<1> QED
  BY <1>1, <1>2

LEMMA EvolvesTrans ==
  ASSUME NEW d, NEW e, NEW f, Evolves(d, e), SameReserves(d, e), Evolves(e, f)
  PROVE  Evolves(d, f)
<1>1. AccountsStay(d, f)
  BY DEF Evolves, AccountsStay
<1>2. ASSUME NEW r \in Request PROVE RowEvolves(d, f, r)
  <2>1. RowEvolves(d, e, r) /\ RowEvolves(e, f, r) /\ e.ledger.reserve[r] = d.ledger.reserve[r]
    BY DEF Evolves, SameReserves
  <2> QED
    BY <2>1 DEF RowEvolves
<1> QED
  BY <1>1, <1>2 DEF Evolves

\* Nothing was taken on the way from d to e, and no hold opened.
NoNewHold(d, e) ==
  /\ SameReserves(d, e)
  /\ \A r \in Request : e.job[r].state = "reserved" => d.job[r].state = "reserved"

LEMMA GrantKeeps ==
  ASSUME NEW d, DbInv(d), NEW u \in User
  PROVE  /\ DbInv(Grant(d, u)) /\ Evolves(d, Grant(d, u))
         /\ Grant(d, u).job = d.job /\ Grant(d, u).ledger = d.ledger
         /\ Grant(d, u).account[u] \in Nat
<1> DEFINE e == Grant(d, u)
<1>1. d \in Database /\ WELCOME_CREDITS \in Nat
  BY CreditAmounts DEF DbInv
<1>2. CASE d.account[u] # NoAccount
  BY <1>1, <1>2, EvolvesRefl, Fields DEF Grant
<1>3. CASE d.account[u] = NoAccount
  <2>1. /\ e.job = d.job /\ e.ledger = d.ledger
        /\ e.account = [d.account EXCEPT ![u] = WELCOME_CREDITS]
    BY <1>1, <1>3 DEF Grant, Database
  <2>2. e \in Database
    BY <1>1, <1>3 DEF Grant, Database
  <2>3. \A r \in Request : HoldMatchesRow(e, r)
    BY <2>1 DEF DbInv, HoldMatchesRow
  <2>4. ASSUME NEW v \in User
        PROVE  IF e.account[v] = NoAccount THEN UnitsOut(e, v) = {}
               ELSE e.account[v] + Cardinality(UnitsOut(e, v)) = WELCOME_CREDITS
    <3>1. UnitsOut(e, v) = UnitsOut(d, v)
      BY <2>1 DEF UnitsOut
    <3>2. CASE v = u
      <4>1. UnitsOut(e, v) = {}
        BY <3>1, <3>2, <1>3 DEF DbInv, Conserved
      <4>2. Cardinality(UnitsOut(e, v)) = 0
        BY <4>1, FS_EmptySet
      <4>3. e.account[v] = WELCOME_CREDITS
        BY <1>1, <2>1, <3>2, Fields
      <4> QED
        BY <4>1, <4>2, <4>3, <1>1
    <3>3. CASE v # u
      <4>1. e.account[v] = d.account[v]
        BY <1>1, <2>1, <3>3, Fields
      <4> QED
        BY <4>1, <3>1 DEF DbInv, Conserved
    <3> QED
      BY <3>2, <3>3
  <2>5. Conserved(e)
    BY <2>4 DEF Conserved
  <2>6. Evolves(d, e)
    <3>1. AccountsStay(d, e)
      BY <2>1, <1>1, AccountsAreNumbers, Fields DEF AccountsStay
    <3> QED
      BY <1>1, <2>1, <3>1, EvolvesRefl DEF Evolves, RowEvolves
  <2>7. e.account[u] \in Nat
    BY <1>1, <2>1, Fields
  <2> QED
    BY <2>1, <2>2, <2>3, <2>5, <2>6, <2>7 DEF DbInv
<1> QED
  BY <1>2, <1>3

\* A reservation needs no other fact than what the code checks: an unused id
\* and a sufficient balance.
LEMMA ReserveKeeps ==
  ASSUME NEW d, DbInv(d), NEW l \in License, NEW r \in Request,
         NEW n \in 1..LargestHold, MayReserve(d, l, r, n),
         r \in ImageId => n = IMAGE_CREDIT_COST
  PROVE  /\ DbInv(Reserve(d, l, r, n)) /\ Evolves(d, Reserve(d, l, r, n))
         /\ Reserve(d, l, r, n).ledger.reserve[r] = n
         /\ Reserve(d, l, r, n).ledger.user[r] = UserOf[l]
         /\ Reserve(d, l, r, n).job[r].license = l
         /\ Reserve(d, l, r, n).job[r].state = "reserved"
         /\ \A q \in Request \ {r} : Reserve(d, l, r, n).job[q] = d.job[q]
<1> DEFINE u == UserOf[l]
           g == Grant(d, u)
           e == Reserve(d, l, r, n)
           jobRow == [state |-> "reserved", license |-> l, done |-> FALSE, age |-> "fresh"]
<1>1. u \in User /\ n \in Nat /\ n > 0 /\ n <= LargestHold
  BY EveryLicenseHasAUser, Prices
<1>2. /\ DbInv(g) /\ Evolves(d, g) /\ g.job = d.job /\ g.ledger = d.ledger
      /\ g.account[u] \in Nat
  BY <1>1, GrantKeeps
<1>3. g \in Database /\ d \in Database
  BY <1>2 DEF DbInv
<1>4. /\ g.job[r].state = "none" /\ g.ledger.reserve[r] = 0
      /\ g.account[u] >= n
  <2>1. Balance(g, u) = g.account[u]
    BY <1>2, AccountsAreNumbers DEF Balance
  <2> QED
    BY <1>2, <2>1 DEF MayReserve
<1> HIDE DEF g
<1>5. /\ g.ledger.refund[r] = 0 /\ g.ledger.unused[r] = 0
      /\ g.ledger.user[r] = NoUser
  <2>1. HoldMatchesRow(g, r)
    BY <1>2 DEF DbInv
  <2>2. g.ledger.user[r] \in User \cup {NoUser} /\ g.ledger.refund[r] \in Nat /\ g.ledger.unused[r] \in Nat
    BY <1>3, Fields
  <2> QED
    BY <1>4, <2>1, <2>2 DEF HoldMatchesRow
<1>6. /\ e.account = [g.account EXCEPT ![u] = @ - n]
      /\ e.job = [g.job EXCEPT ![r] = jobRow]
      /\ e.ledger = [g.ledger EXCEPT !.reserve[r] = n, !.user[r] = u]
  BY DEF Reserve, g
<1>7. /\ e.ledger.reserve = [g.ledger.reserve EXCEPT ![r] = n]
      /\ e.ledger.user = [g.ledger.user EXCEPT ![r] = u]
      /\ e.ledger.refund = g.ledger.refund
      /\ e.ledger.unused = g.ledger.unused
  BY <1>3, <1>6 DEF Database, Ledger
<1>8. jobRow \in JobRow
  BY DEF JobRow
<1>9. e.ledger \in Ledger
  <2>1. g.ledger \in Ledger
    BY <1>3 DEF Database
  <2>2. [g.ledger EXCEPT !.reserve[r] = n, !.user[r] = u] \in Ledger
    BY <2>1, <1>1 DEF Ledger
  <2> QED
    BY <2>2, <1>6
<1>10. e.job \in [Request -> JobRow]
  BY <1>3, <1>6, <1>8, Fields
<1>11. e.account \in [User -> Nat \cup {NoAccount}] /\ e.account[u] = g.account[u] - n
  BY <1>1, <1>2, <1>3, <1>4, <1>6, Fields
<1>12. e \in Database
  <2>1. e = [account |-> e.account, job |-> e.job, ledger |-> e.ledger]
    BY DEF Reserve
  <2> QED
    BY <2>1, <1>9, <1>10, <1>11 DEF Database
<1> HIDE DEF e
<1>13. /\ e.job[r] = jobRow /\ e.ledger.reserve[r] = n /\ e.ledger.user[r] = u
       /\ \A q \in Request \ {r} : /\ e.job[q] = g.job[q]
                                   /\ e.ledger.reserve[q] = g.ledger.reserve[q]
                                   /\ e.ledger.user[q] = g.ledger.user[q]
  BY <1>3, <1>6, <1>7, Fields
<1>14. ASSUME NEW q \in Request
       PROVE  HoldMatchesRow(e, q)
  <2>1. HoldMatchesRow(g, q)
    BY <1>2 DEF DbInv
  <2>2. CASE q = r
    BY <2>2, <1>1, <1>5, <1>7, <1>13 DEF HoldMatchesRow
  <2>3. CASE q # r
    BY <2>1, <2>3, <1>7, <1>13 DEF HoldMatchesRow
  <2> QED
    BY <2>2, <2>3
<1>15. ASSUME NEW v \in User, v # u
       PROVE  UnitsOut(e, v) = UnitsOut(g, v)
  <2>1. ASSUME NEW x \in Request \X (1..LargestHold)
        PROVE  (/\ e.ledger.user[x[1]] = v
                /\ x[2] <= e.ledger.reserve[x[1]] - e.ledger.refund[x[1]] - e.ledger.unused[x[1]])
               <=>
               (/\ g.ledger.user[x[1]] = v
                /\ x[2] <= g.ledger.reserve[x[1]] - g.ledger.refund[x[1]] - g.ledger.unused[x[1]])
    BY <1>5, <1>7, <1>13, <1>15, SetsAreDisjoint
  <2> QED
    BY <2>1 DEF UnitsOut
<1>16. /\ UnitsOut(e, u) = UnitsOut(g, u) \cup Slice(r, 0, n)
       /\ UnitsOut(g, u) \cap Slice(r, 0, n) = {}
  <2>1. ASSUME NEW x \in AllUnits
        PROVE  /\ x \in Slice(r, 0, n) <=> x[1] = r /\ x[2] <= n
               /\ x \in UnitsOut(g, u) => x[1] # r
               /\ x \in UnitsOut(e, u) <=> x \in UnitsOut(g, u) \/ (x[1] = r /\ x[2] <= n)
    <3>1. x[1] \in Request /\ x[2] \in 1..LargestHold /\ x = <<x[1], x[2]>>
      BY DEF AllUnits
    <3>2. x \in Slice(r, 0, n) <=> x[1] = r /\ x[2] <= n
      BY <3>1, <1>1, Prices DEF Slice
    <3>3. /\ x \in UnitsOut(g, u) <=>
               /\ g.ledger.user[x[1]] = u
               /\ x[2] <= g.ledger.reserve[x[1]] - g.ledger.refund[x[1]] - g.ledger.unused[x[1]]
          /\ x \in UnitsOut(e, u) <=>
               /\ e.ledger.user[x[1]] = u
               /\ x[2] <= e.ledger.reserve[x[1]] - e.ledger.refund[x[1]] - e.ledger.unused[x[1]]
      BY <3>1 DEF UnitsOut
    <3>4. x[1] = r => x \notin UnitsOut(g, u)
      BY <3>3, <1>1, <1>5, SetsAreDisjoint
    <3>5. x[1] = r => (x \in UnitsOut(e, u) <=> x[2] <= n)
      <4>1. ASSUME x[1] = r
            PROVE  e.ledger.reserve[x[1]] - e.ledger.refund[x[1]] - e.ledger.unused[x[1]] = n
        BY <4>1, <1>1, <1>5, <1>7, <1>13
      <4> QED
        BY <4>1, <3>3, <1>13
    <3>6. x[1] # r => (x \in UnitsOut(e, u) <=> x \in UnitsOut(g, u))
      <4>1. ASSUME x[1] # r
            PROVE  /\ e.ledger.user[x[1]] = g.ledger.user[x[1]]
                   /\ e.ledger.reserve[x[1]] = g.ledger.reserve[x[1]]
                   /\ e.ledger.refund[x[1]] = g.ledger.refund[x[1]]
                   /\ e.ledger.unused[x[1]] = g.ledger.unused[x[1]]
        BY <4>1, <3>1, <1>7, <1>13
      <4> QED
        BY <4>1, <3>3
    <3> QED
      BY <3>2, <3>4, <3>5, <3>6
  <2>2. Slice(r, 0, n) \subseteq AllUnits
    BY <1>1, SliceSize
  <2>3. UnitsOut(g, u) \subseteq AllUnits /\ UnitsOut(e, u) \subseteq AllUnits
    BY OutIsFinite
  <2> QED
    BY <2>1, <2>2, <2>3
<1>17. Cardinality(UnitsOut(e, u)) = Cardinality(UnitsOut(g, u)) + n
  <2>1. IsFiniteSet(UnitsOut(g, u)) /\ Cardinality(UnitsOut(g, u)) \in Nat
    BY OutIsFinite
  <2>2. Slice(r, 0, n) \in SUBSET AllUnits /\ Cardinality(Slice(r, 0, n)) = n
    BY <1>1, SliceSize
  <2>3. IsFiniteSet(Slice(r, 0, n))
    BY <2>2, UnitsFinite
  <2>4. Cardinality(UnitsOut(g, u) \cup Slice(r, 0, n)) =
          Cardinality(UnitsOut(g, u)) + Cardinality(Slice(r, 0, n))
          - Cardinality(UnitsOut(g, u) \cap Slice(r, 0, n))
    BY <2>1, <2>3, FS_Union
  <2>5. Cardinality(UnitsOut(g, u) \cap Slice(r, 0, n)) = 0
    BY <1>16, FS_EmptySet
  <2> QED
    BY <2>1, <2>2, <2>4, <2>5, <1>1, <1>16
<1>18. ASSUME NEW v \in User
       PROVE  IF e.account[v] = NoAccount THEN UnitsOut(e, v) = {}
              ELSE e.account[v] + Cardinality(UnitsOut(e, v)) = WELCOME_CREDITS
  <2>1. IF g.account[v] = NoAccount THEN UnitsOut(g, v) = {}
        ELSE g.account[v] + Cardinality(UnitsOut(g, v)) = WELCOME_CREDITS
    BY <1>2 DEF DbInv, Conserved
  <2>2. CASE v = u
    <3>1. g.account[u] # NoAccount /\ e.account[u] # NoAccount
      BY <1>1, <1>2, <1>4, <1>11, AccountsAreNumbers
    <3>2. Cardinality(UnitsOut(g, u)) \in Nat
      BY OutIsFinite
    <3> QED
      BY <2>1, <2>2, <3>1, <3>2, <1>1, <1>2, <1>11, <1>17
  <2>3. CASE v # u
    <3>1. e.account[v] = g.account[v]
      BY <1>3, <1>6, <2>3, Fields
    <3> QED
      BY <2>1, <2>3, <3>1, <1>15
  <2> QED
    BY <2>2, <2>3
<1>19. Conserved(e)
  BY <1>18 DEF Conserved
<1>20. ASSUME NEW q \in Request
       PROVE  RowEvolves(g, e, q)
  <2>1. CASE q = r
    BY <2>1, <1>4, <1>5, <1>7, <1>13 DEF RowEvolves
  <2>2. CASE q # r
    BY <2>2, <1>7, <1>13 DEF RowEvolves
  <2> QED
    BY <2>1, <2>2
<1>21. Evolves(d, e)
  <2>1. AccountsStay(g, e)
    BY <1>1, <1>2, <1>3, <1>4, <1>6, <1>11, AccountsAreNumbers, Fields DEF AccountsStay
  <2>2. SameReserves(d, g)
    BY <1>2 DEF SameReserves
  <2>3. Evolves(g, e)
    BY <1>20, <2>1 DEF Evolves
  <2> QED
    BY <1>2, <2>2, <2>3, EvolvesTrans
<1>22. DbInv(e)
  BY <1>12, <1>14, <1>19 DEF DbInv
<1> QED
  BY <1>2, <1>13, <1>21, <1>22 DEF e

\* Settling a chat keeps n credits of an open hold and returns the others.
LEMMA SettleKeeps ==
  ASSUME NEW d, DbInv(d), NEW r \in ChatId, d.job[r].state = "reserved",
         NEW n \in Nat, n >= PROMPT_CHAT_CREDIT_COST, n <= d.ledger.reserve[r]
  PROVE  LET e == Settle(d, d.job[r].license, r, n) IN
         /\ DbInv(e) /\ Evolves(d, e) /\ NoNewHold(d, e)
         /\ e.job[r].state = "charged" /\ e.ledger.refund[r] = 0
         /\ e.ledger.reserve[r] - e.ledger.unused[r] = n
<1> DEFINE u == UserOf[d.job[r].license]
           reserve == d.ledger.reserve[r]
           back == reserve - n
           e == Settle(d, d.job[r].license, r, n)
<1>1. d \in Database /\ r \in Request
  BY DEF DbInv, Request
<1>2. /\ reserve \in 1..LargestHold /\ d.ledger.refund[r] = 0 /\ d.ledger.unused[r] = 0
      /\ d.ledger.user[r] = u /\ u \in User /\ d.job[r].license \in License
  BY <1>1, OpenHold
<1>3. n > 0 /\ back \in Nat /\ reserve \in Nat /\ reserve <= LargestHold
  BY <1>2, CreditAmounts, Prices
<1> HIDE DEF u
<1>4. /\ e.account = [d.account EXCEPT ![u] = @ + back]
      /\ e.job = [d.job EXCEPT ![r] = [@ EXCEPT !.state = "charged"]]
      /\ e.ledger = [d.ledger EXCEPT !.unused[r] = back]
  BY <1>1 DEF Settle, Database, u
<1>5. /\ e.ledger.reserve = d.ledger.reserve
      /\ e.ledger.user = d.ledger.user
      /\ e.ledger.refund = d.ledger.refund
      /\ e.ledger.unused = [d.ledger.unused EXCEPT ![r] = back]
  BY <1>1, <1>4 DEF Database, Ledger
<1>6. /\ e.job[r] = [d.job[r] EXCEPT !.state = "charged"] /\ e.ledger.unused[r] = back
      /\ \A q \in Request \ {r} : e.job[q] = d.job[q] /\ e.ledger.unused[q] = d.ledger.unused[q]
  BY <1>1, <1>4, <1>5, Fields
<1>7. d.job[r] \in JobRow /\ e.job[r] \in JobRow /\ e.job[r].state = "charged"
      /\ e.job[r].license = d.job[r].license
  BY <1>1, <1>6, Fields DEF JobRow
<1>8. /\ d.account[u] # NoAccount /\ d.account[u] \in Nat
      /\ d.account[u] + Cardinality(UnitsOut(d, u)) = WELCOME_CREDITS
  <2>1. <<r, 1>> \in UnitsOut(d, u)
    <3>1. 1 <= d.ledger.reserve[r] - d.ledger.refund[r] - d.ledger.unused[r]
      BY <1>2, Prices
    <3>2. <<r, 1>> \in Request \X (1..LargestHold)
      BY <1>1, <1>3, Prices
    <3> QED
      BY <3>1, <3>2, <1>2 DEF UnitsOut
  <2>2. d.account[u] # NoAccount
    BY <1>2, <2>1 DEF DbInv, Conserved
  <2> QED
    BY <1>1, <1>2, <2>2, Fields DEF DbInv, Conserved
<1>9. e.account \in [User -> Nat \cup {NoAccount}] /\ e.account[u] = d.account[u] + back
  BY <1>1, <1>2, <1>3, <1>4, <1>8, Fields
<1>10. e \in Database
  <2>1. e = [account |-> e.account, job |-> e.job, ledger |-> e.ledger]
    BY DEF Settle
  <2>2. e.job \in [Request -> JobRow]
    BY <1>1, <1>4, <1>6, <1>7, Fields
  <2>3. e.ledger \in Ledger
    <3>1. d.ledger \in Ledger
      BY <1>1 DEF Database
    <3>2. [d.ledger EXCEPT !.unused[r] = back] \in Ledger
      BY <3>1, <1>3 DEF Ledger
    <3> QED
      BY <3>2, <1>4
  <2> QED
    BY <2>1, <2>2, <2>3, <1>9 DEF Database
<1> HIDE DEF e
<1>11. ASSUME NEW q \in Request
       PROVE  HoldMatchesRow(e, q)
  <2>1. HoldMatchesRow(d, q)
    BY DEF DbInv
  <2>2. CASE q = r
    BY <2>1, <2>2, <1>2, <1>3, <1>5, <1>6, <1>7, SetsAreDisjoint, SMTT(30) DEF HoldMatchesRow
  <2>3. CASE q # r
    BY <2>1, <2>3, <1>5, <1>6 DEF HoldMatchesRow
  <2> QED
    BY <2>2, <2>3
<1>12. /\ UnitsOut(e, u) = UnitsOut(d, u) \ Slice(r, n, reserve)
       /\ UnitsOut(d, u) \cap Slice(r, n, reserve) = Slice(r, n, reserve)
  <2>1. ASSUME NEW x \in AllUnits
        PROVE  /\ x \in Slice(r, n, reserve) => x \in UnitsOut(d, u)
               /\ x \in UnitsOut(e, u) <=> x \in UnitsOut(d, u) /\ x \notin Slice(r, n, reserve)
    <3>1. x[1] \in Request /\ x[2] \in 1..LargestHold /\ x = <<x[1], x[2]>>
      BY DEF AllUnits
    <3>2. x \in Slice(r, n, reserve) <=> x[1] = r /\ x[2] > n /\ x[2] <= reserve
      BY <3>1, <1>3, Prices DEF Slice
    <3>3. /\ x \in UnitsOut(d, u) <=>
               /\ d.ledger.user[x[1]] = u
               /\ x[2] <= d.ledger.reserve[x[1]] - d.ledger.refund[x[1]] - d.ledger.unused[x[1]]
          /\ x \in UnitsOut(e, u) <=>
               /\ e.ledger.user[x[1]] = u
               /\ x[2] <= e.ledger.reserve[x[1]] - e.ledger.refund[x[1]] - e.ledger.unused[x[1]]
      BY <3>1 DEF UnitsOut
    <3>4. CASE x[1] = r
      <4>1. /\ d.ledger.reserve[x[1]] - d.ledger.refund[x[1]] - d.ledger.unused[x[1]] = reserve
            /\ e.ledger.reserve[x[1]] - e.ledger.refund[x[1]] - e.ledger.unused[x[1]] = n
        BY <3>4, <1>2, <1>3, <1>5, <1>6
      <4> QED
        BY <3>1, <3>2, <3>3, <3>4, <4>1, <1>2, <1>3, <1>5, Prices
    <3>5. CASE x[1] # r
      <4>1. /\ e.ledger.user[x[1]] = d.ledger.user[x[1]]
            /\ e.ledger.reserve[x[1]] = d.ledger.reserve[x[1]]
            /\ e.ledger.refund[x[1]] = d.ledger.refund[x[1]]
            /\ e.ledger.unused[x[1]] = d.ledger.unused[x[1]]
        BY <3>1, <3>5, <1>5, <1>6
      <4> QED
        BY <3>2, <3>3, <3>5, <4>1
    <3> QED
      BY <3>4, <3>5
  <2>2. Slice(r, n, reserve) \subseteq AllUnits
    BY <1>1, <1>3, SliceSize
  <2>3. UnitsOut(d, u) \subseteq AllUnits /\ UnitsOut(e, u) \subseteq AllUnits
    BY OutIsFinite
  <2> QED
    BY <2>1, <2>2, <2>3
<1>13. Cardinality(UnitsOut(e, u)) = Cardinality(UnitsOut(d, u)) - back
  <2>1. IsFiniteSet(UnitsOut(d, u)) /\ Cardinality(UnitsOut(d, u)) \in Nat
    BY OutIsFinite
  <2>2. Slice(r, n, reserve) \in SUBSET AllUnits /\ Cardinality(Slice(r, n, reserve)) = back
    BY <1>1, <1>3, SliceSize
  <2>3. IsFiniteSet(Slice(r, n, reserve))
    BY <2>2, UnitsFinite
  <2>4. Cardinality(UnitsOut(d, u) \ Slice(r, n, reserve)) =
          Cardinality(UnitsOut(d, u)) - Cardinality(UnitsOut(d, u) \cap Slice(r, n, reserve))
    BY <2>1, <2>3, FS_Difference
  <2> QED
    BY <2>1, <2>2, <2>4, <1>12
<1>14. ASSUME NEW v \in User
       PROVE  IF e.account[v] = NoAccount THEN UnitsOut(e, v) = {}
              ELSE e.account[v] + Cardinality(UnitsOut(e, v)) = WELCOME_CREDITS
  <2>1. CASE v = u
    <3>1. e.account[u] # NoAccount
      BY <1>3, <1>8, <1>9, AccountsAreNumbers
    <3>2. Cardinality(UnitsOut(d, u)) \in Nat
      BY OutIsFinite
    <3> QED
      BY <2>1, <3>1, <3>2, <1>3, <1>8, <1>9, <1>13
  <2>2. CASE v # u
    <3>1. e.account[v] = d.account[v]
      BY <1>1, <1>4, <2>2, Fields
    <3>2. UnitsOut(e, v) = UnitsOut(d, v)
      <4>1. ASSUME NEW x \in Request \X (1..LargestHold)
            PROVE  (/\ e.ledger.user[x[1]] = v
                    /\ x[2] <= e.ledger.reserve[x[1]] - e.ledger.refund[x[1]] - e.ledger.unused[x[1]])
                   <=>
                   (/\ d.ledger.user[x[1]] = v
                    /\ x[2] <= d.ledger.reserve[x[1]] - d.ledger.refund[x[1]] - d.ledger.unused[x[1]])
        BY <1>2, <1>5, <1>6, <2>2
      <4> QED
        BY <4>1 DEF UnitsOut
    <3> QED
      BY <3>1, <3>2 DEF DbInv, Conserved
  <2> QED
    BY <2>1, <2>2
<1>15. DbInv(e)
  BY <1>10, <1>11, <1>14 DEF DbInv, Conserved
<1>16. ASSUME NEW q \in Request
       PROVE  RowEvolves(d, e, q) /\ (e.job[q].state = "reserved" => d.job[q].state = "reserved")
  <2>1. CASE q = r
    BY <2>1, <1>2, <1>5, <1>7 DEF RowEvolves
  <2>2. CASE q # r
    BY <2>2, <1>5, <1>6 DEF RowEvolves
  <2> QED
    BY <2>1, <2>2
<1>17. e.ledger.refund[r] = 0 /\ e.ledger.reserve[r] - e.ledger.unused[r] = n
  BY <1>2, <1>3, <1>5, <1>6
<1>18. AccountsStay(d, e) /\ SameReserves(d, e)
  BY <1>1, <1>3, <1>4, <1>5, <1>8, <1>9, AccountsAreNumbers, Fields DEF AccountsStay, SameReserves
<1> QED
  BY <1>7, <1>15, <1>16, <1>17, <1>18 DEF Evolves, NoNewHold, e

\* A transaction that touches job rows alone.
LEMMA JobsOnly ==
  ASSUME NEW d, DbInv(d), NEW job \in [Request -> JobRow],
         LET e == [d EXCEPT !.job = job] IN \A r \in Request : HoldMatchesRow(e, r)
  PROVE  LET e == [d EXCEPT !.job = job] IN
         /\ DbInv(e) /\ e.job = job /\ e.ledger = d.ledger
<1> DEFINE e == [d EXCEPT !.job = job]
<1>1. d \in Database
  BY DEF DbInv
<1>2. e.account = d.account /\ e.job = job /\ e.ledger = d.ledger /\ e \in Database
  BY <1>1 DEF Database
<1>3. \A u \in User : UnitsOut(e, u) = UnitsOut(d, u)
  BY <1>2 DEF UnitsOut
<1>4. Conserved(e)
  BY <1>2, <1>3 DEF DbInv, Conserved
<1> QED
  BY <1>2, <1>4 DEF DbInv

-----------------------------------------------------------------------------
(***************************************************************************)
(* Transactions that take no new hold                                      *)
(***************************************************************************)
Quiet(d, e) == DbInv(e) /\ Evolves(d, e) /\ NoNewHold(d, e)

LEMMA QuietRefl == ASSUME NEW d, DbInv(d) PROVE Quiet(d, d)
  BY EvolvesRefl DEF Quiet, NoNewHold, SameReserves, DbInv

LEMMA QuietTrans ==
  ASSUME NEW d, NEW e, NEW f, Quiet(d, e), Quiet(e, f)
  PROVE  Quiet(d, f)
  BY EvolvesTrans DEF Quiet, NoNewHold, SameReserves

LEMMA RefundAllQuiet ==
  ASSUME NEW d, DbInv(d), NEW S \in SUBSET Request,
         \A r \in S : d.job[r].state = "reserved"
  PROVE  Quiet(d, RefundAll(d, S)) /\ \A r \in S : RefundAll(d, S).job[r].state # "reserved"
<1>1. ASSUME NEW r \in Request
      PROVE  RefundAll(d, S).job[r] = IF r \in S THEN [d.job[r] EXCEPT !.state = "refunded"] ELSE d.job[r]
  BY DEF RefundAll
<1>2. ASSUME NEW r \in S
      PROVE  RefundAll(d, S).job[r].state = "refunded"
  <2>1. d.job[r] \in JobRow
    BY Fields DEF DbInv
  <2> QED
    BY <2>1, <1>1 DEF JobRow
<1>3. NoNewHold(d, RefundAll(d, S))
  BY <1>1, <1>2, RefundAllKeeps DEF NoNewHold
<1> QED
  BY <1>2, <1>3, RefundAllKeeps DEF Quiet

LEMMA SweepQuiet == ASSUME NEW d, DbInv(d) PROVE Quiet(d, Sweep(d))
  BY RefundAllQuiet DEF Sweep, Stale

LEMMA ReleaseQuiet ==
  ASSUME NEW d, DbInv(d), NEW l, NEW r \in Request
  PROVE  /\ Quiet(d, Release(d, l, r))
         /\ d.job[r].license = l => Release(d, l, r).job[r].state # "reserved"
<1>1. CASE d.job[r].state = "reserved" /\ d.job[r].license = l
  <2>1. {r} \in SUBSET Request /\ \A q \in {r} : d.job[q].state = "reserved"
    BY <1>1
  <2> QED
    BY <1>1, <2>1, RefundAllQuiet DEF Release
<1>2. CASE ~(d.job[r].state = "reserved" /\ d.job[r].license = l)
  BY <1>2, QuietRefl DEF Release
<1> QED
  BY <1>1, <1>2

LEMMA GrantQuiet ==
  ASSUME NEW d, DbInv(d), NEW u \in User
  PROVE  Quiet(d, Grant(d, u))
  BY GrantKeeps DEF Quiet, NoNewHold, SameReserves

LEMMA GrantSweepQuiet ==
  ASSUME NEW d, DbInv(d), NEW u \in User
  PROVE  Quiet(d, Grant(Sweep(d), u))
<1>1. Quiet(d, Sweep(d)) /\ DbInv(Sweep(d))
  BY SweepQuiet DEF Quiet
<1> QED
  BY <1>1, GrantQuiet, QuietTrans

-----------------------------------------------------------------------------
(***************************************************************************)
(* The inductive invariant                                                 *)
(***************************************************************************)
Working == {"inferring", "chatting"}

\* What a call in progress relies on while other transactions run.
CallMatches(d, k) ==
  LET r == k.req
      reserve == d.ledger.reserve[r]
  IN
  /\ k.pc # "idle" => k.license \in License
  /\ k.pc \in {"admitted", "routing", "inferring", "completing", "pruning"} => r \in ImageId
  /\ k.pc \in {"submitted", "waiting", "chatting"} => r \in ChatId
  /\ k.pc \in {"waiting", "chatting"} =>
       /\ k.hold \in 1..LargestHold /\ k.hold >= PROMPT_CHAT_CREDIT_COST
       /\ k.limit <= k.hold * PROMPT_CHAT_OUTPUT_TOKENS_PER_CREDIT
  /\ k.pc \in Working => reserve > 0 /\ d.ledger.user[r] = UserOf[k.license]
  /\ k.pc = "chatting" =>
       reserve = k.hold /\ d.job[r].state # "none" /\ d.job[r].license = k.license

CallsMatch == \A c \in Call : CallMatches(db, call[c])

IInv ==
  /\ TypeOK
  /\ DbInv(db)
  /\ CallsMatch
  /\ NoUnpaidInference
  /\ ReplyIsPaid
  /\ HoldHasOwner

\* What a call relies on survives every transaction of the others.
LEMMA CallMatchesStable ==
  ASSUME NEW d, NEW e, DbInv(d), DbInv(e), Evolves(d, e), NEW k \in CallRecord, CallMatches(d, k)
  PROVE  CallMatches(e, k)
<1>1. CASE k.req \in Request
  <2>1. RowEvolves(d, e, k.req)
    BY <1>1 DEF Evolves
  <2> QED
    BY <2>1 DEF CallMatches, RowEvolves, Working
<1>2. CASE k.req \notin Request
  <2>1. k.req \notin ImageId /\ k.req \notin ChatId
    BY <1>2 DEF Request
  <2> QED
    BY <2>1 DEF CallMatches, Working
<1> QED
  BY <1>1, <1>2

\* A reply that was paid for stays paid for.
LEMMA PaidStable ==
  ASSUME NEW d, NEW e, DbInv(d), Evolves(d, e), NEW r \in ChatId, NEW n,
         d.job[r].state = "charged", d.ledger.refund[r] = 0,
         n = d.ledger.reserve[r] - d.ledger.unused[r]
  PROVE  /\ e.job[r].state = "charged" /\ e.ledger.refund[r] = 0
         /\ n = e.ledger.reserve[r] - e.ledger.unused[r]
<1>1. r \in Request /\ HoldMatchesRow(d, r) /\ RowEvolves(d, e, r)
  BY DEF DbInv, Evolves, Request
<1>2. d.ledger.reserve[r] > 0
  BY <1>1 DEF HoldMatchesRow
<1> QED
  BY <1>1, <1>2 DEF RowEvolves

RunRecord == [status : {"none", "queued", "running", "completed", "error"}, charged : Nat]

\* One call moves to the record k while its transaction turns db into db'.
LEMMA CallStep ==
  ASSUME IInv, NEW c \in Call, NEW k \in CallRecord,
         call' = [call EXCEPT ![c] = k],
         DbInv(db'), Evolves(db, db'),
         CallMatches(db', k),
         run' \in [ChatId -> RunRecord], ReplyIsPaid',
         dedicated' = dedicated, restarts' = restarts, orphaned' = orphaned,
         k.pc \in Working => db.ledger.reserve[k.req] = 0,
         \A r \in ChatId : db'.job[r].state = "reserved" =>
            \/ db.job[r].state = "reserved" /\ ~(At(c, "chatting") /\ call[c].req = r)
            \/ k.pc = "chatting" /\ k.req = r
  PROVE  IInv'
<1>1. TypeOK'
  <2>1. call' \in [Call -> CallRecord]
    BY DEF IInv, TypeOK
  <2>2. db' \in Database
    BY DEF DbInv
  <2> QED
    BY <2>1, <2>2 DEF IInv, TypeOK, RunRecord
<1>2. call'[c] = k /\ \A b \in Call \ {c} : call'[b] = call[b]
  BY DEF IInv, TypeOK
<1>3. CallsMatch'
  <2>1. ASSUME NEW b \in Call \ {c}
        PROVE  CallMatches(db', call'[b])
    <3>1. call[b] \in CallRecord /\ CallMatches(db, call[b]) /\ DbInv(db)
      BY DEF IInv, TypeOK, CallsMatch
    <3> QED
      BY <3>1, <1>2, CallMatchesStable
  <2> QED
    BY <2>1, <1>2 DEF CallsMatch
<1>4. NoUnpaidInference'
  <2>1. ASSUME NEW b \in Call, call'[b].pc \in Working
        PROVE  /\ db'.ledger.reserve[call'[b].req] > 0
               /\ db'.ledger.user[call'[b].req] = UserOf[call'[b].license]
    BY <1>3, <2>1 DEF CallsMatch, CallMatches
  <2>2. ASSUME NEW b \in Call \ {c}, call[b].pc \in Working
        PROVE  db.ledger.reserve[call[b].req] > 0
    BY <2>2 DEF IInv, NoUnpaidInference, Working
  <2>3. ASSUME NEW a \in Call, NEW b \in Call, a # b,
               call'[a].pc \in Working, call'[b].pc \in Working
        PROVE  call'[a].req # call'[b].req
    <3>1. CASE a = c
      BY <3>1, <2>2, <2>3, <1>2
    <3>2. CASE b = c
      BY <3>2, <2>2, <2>3, <1>2
    <3>3. CASE a # c /\ b # c
      <4>1. call'[a] = call[a] /\ call'[b] = call[b]
        BY <3>3, <1>2
      <4> QED
        BY <4>1, <2>3 DEF IInv, NoUnpaidInference, Working
    <3> QED
      BY <3>1, <3>2, <3>3
  <2> QED
    BY <2>1, <2>3 DEF NoUnpaidInference, Working
<1>5. HoldHasOwner'
  <2> SUFFICES ASSUME NEW r \in ChatId, db'.job[r].state = "reserved"
               PROVE  r \in orphaned \/ \E b \in Call : call'[b].pc = "chatting" /\ call'[b].req = r
    BY DEF HoldHasOwner, At
  <2>1. CASE k.pc = "chatting" /\ k.req = r
    BY <2>1, <1>2
  <2>2. CASE db.job[r].state = "reserved" /\ ~(At(c, "chatting") /\ call[c].req = r)
    <3>1. r \in orphaned \/ \E b \in Call : At(b, "chatting") /\ call[b].req = r
      BY <2>2 DEF IInv, HoldHasOwner
    <3> QED
      BY <3>1, <2>2, <1>2 DEF At
  <2> QED
    BY <2>1, <2>2
<1> QED
  BY <1>1, <1>3, <1>4, <1>5 DEF IInv

\* A transaction that takes no hold and moves no call.
LEMMA QuietStep ==
  ASSUME IInv, Quiet(db, db'), UNCHANGED <<call, Environment>>,
         run' \in [ChatId -> RunRecord], ReplyIsPaid'
  PROVE  IInv'
<1>1. DbInv(db) /\ DbInv(db') /\ Evolves(db, db') /\ NoNewHold(db, db')
  BY DEF IInv, Quiet
<1>2. TypeOK'
  BY <1>1 DEF IInv, TypeOK, Environment, RunRecord, DbInv
<1>3. CallsMatch'
  <2>1. ASSUME NEW b \in Call
        PROVE  CallMatches(db', call[b])
    BY <1>1, CallMatchesStable DEF IInv, TypeOK, CallsMatch
  <2> QED
    BY <2>1 DEF CallsMatch
<1>4. NoUnpaidInference'
  <2>1. ASSUME NEW b \in Call, call[b].pc \in Working
        PROVE  /\ db'.ledger.reserve[call[b].req] > 0
               /\ db'.ledger.user[call[b].req] = UserOf[call[b].license]
    BY <1>3, <2>1 DEF CallsMatch, CallMatches
  <2> QED
    BY <2>1 DEF IInv, NoUnpaidInference, Working
<1>5. HoldHasOwner'
  <2>1. ChatId \subseteq Request
    BY DEF Request
  <2> QED
    BY <1>1, <2>1 DEF IInv, HoldHasOwner, NoNewHold, At, Environment
<1> QED
  BY <1>1, <1>2, <1>3, <1>4, <1>5 DEF IInv

\* Results that no step completes stay paid for.
LEMMA RepliesKept ==
  ASSUME IInv, Evolves(db, db'),
         \A r \in ChatId : run'[r].status = "completed" => run'[r] = run[r]
  PROVE  ReplyIsPaid'
<1> SUFFICES ASSUME NEW r \in ChatId, run'[r].status = "completed"
             PROVE  /\ db'.job[r].state = "charged"
                    /\ db'.ledger.refund[r] = 0
                    /\ run'[r].charged = db'.ledger.reserve[r] - db'.ledger.unused[r]
  BY DEF ReplyIsPaid
<1>1. run'[r] = run[r]
  OBVIOUS
<1>2. /\ db.job[r].state = "charged" /\ db.ledger.refund[r] = 0
      /\ run[r].charged = db.ledger.reserve[r] - db.ledger.unused[r]
  BY <1>1 DEF IInv, ReplyIsPaid
<1>3. DbInv(db)
  BY DEF IInv
<1> QED
  BY <1>1, <1>2, <1>3, PaidStable

LEMMA SetRunEffect ==
  ASSUME IInv, NEW c \in Call, call[c].req \in ChatId,
         NEW status \in {"running", "completed", "error"}, NEW n \in Nat,
         SetRun(c, status, n)
  PROVE  /\ run' \in [ChatId -> RunRecord]
         /\ \A r \in ChatId : \/ run'[r] = run[r]
                              \/ /\ r = call[c].req
                                 /\ run'[r].status = status /\ run'[r].charged = n
<1>1. run \in [ChatId -> RunRecord]
  BY DEF IInv, TypeOK, RunRecord
<1>2. CASE ~call[c].tracked
  BY <1>1, <1>2 DEF SetRun
<1>3. CASE call[c].tracked
  <2> DEFINE q == call[c].req
  <2>1. run' = [run EXCEPT ![q].status = status, ![q].charged = n]
    BY <1>3 DEF SetRun
  <2>2. run[q] \in RunRecord
    BY <1>1
  <2> HIDE DEF q
  <2>3. q \in ChatId
    BY DEF q
  <2>4. run'[q] = [run[q] EXCEPT !.status = status, !.charged = n]
    BY <1>1, <2>1, <2>3
  <2>5. run'[q] \in RunRecord /\ run'[q].status = status /\ run'[q].charged = n
    BY <2>2, <2>4 DEF RunRecord
  <2>6. \A r \in ChatId : r # q => run'[r] = run[r]
    BY <1>1, <2>1
  <2>7. run' \in [ChatId -> RunRecord]
    BY <1>1, <2>1, <2>3, <2>5, <2>6
  <2> QED
    BY <2>5, <2>6, <2>7 DEF q
<1> QED
  BY <1>2, <1>3

CallPc == {"idle", "admitted", "routing", "inferring", "completing", "pruning",
           "submitted", "waiting", "chatting"}

\* The records that calls move to.
LEMMA GotoRecord ==
  ASSUME NEW k \in CallRecord, NEW pc \in CallPc
  PROVE  LET m == [k EXCEPT !.pc = pc] IN
         /\ m \in CallRecord /\ m.pc = pc
         /\ m.req = k.req /\ m.license = k.license /\ m.hold = k.hold /\ m.limit = k.limit
  BY DEF CallRecord, CallPc

LEMMA IdleRecord == Idle \in CallRecord /\ Idle.pc = "idle"
  BY DEF Idle, CallRecord

\* The call c ends: it holds nothing that its transaction left reserved.
LEMMA FinishStep ==
  ASSUME IInv, NEW c \in Call, Finish(c), Quiet(db, db'), UNCHANGED Environment,
         run' \in [ChatId -> RunRecord], ReplyIsPaid',
         At(c, "chatting") => db'.job[call[c].req].state # "reserved"
  PROVE  IInv'
<1>1. /\ DbInv(db') /\ Evolves(db, db') /\ NoNewHold(db, db')
      /\ call' = [call EXCEPT ![c] = Idle]
      /\ dedicated' = dedicated /\ restarts' = restarts /\ orphaned' = orphaned
  BY DEF Quiet, Finish, Environment
<1>2. Idle \in CallRecord /\ CallMatches(db', Idle) /\ Idle.pc \notin Working
  BY IdleRecord DEF CallMatches, Working
<1>3. \A r \in ChatId : db'.job[r].state = "reserved" =>
         db.job[r].state = "reserved" /\ ~(At(c, "chatting") /\ call[c].req = r)
  BY <1>1 DEF NoNewHold, Request
<1> QED
  BY <1>1, <1>2, <1>3, CallStep

\* The call c goes on to the record k without touching a GPU.
LEMMA GoOnStep ==
  ASSUME IInv, NEW c \in Call, NEW k \in CallRecord, call' = [call EXCEPT ![c] = k],
         ~At(c, "chatting"), k.pc \notin Working, CallMatches(db', k),
         Quiet(db, db'), UNCHANGED Environment,
         run' \in [ChatId -> RunRecord], ReplyIsPaid'
  PROVE  IInv'
<1>1. /\ DbInv(db') /\ Evolves(db, db') /\ NoNewHold(db, db')
      /\ dedicated' = dedicated /\ restarts' = restarts /\ orphaned' = orphaned
  BY DEF Quiet, Environment
<1>2. \A r \in ChatId : db'.job[r].state = "reserved" =>
         db.job[r].state = "reserved" /\ ~(At(c, "chatting") /\ call[c].req = r)
  BY <1>1 DEF NoNewHold, Request
<1> QED
  BY <1>1, <1>2, CallStep

\* The call c takes a hold of n credits and starts its work at pc.
LEMMA StartWork ==
  ASSUME IInv, NEW c \in Call, NEW pc \in Working, NEW n \in 1..LargestHold,
         call[c].req \in Request, call[c].license \in License, call[c].pc \notin Working,
         call[c].req \in ImageId => pc = "inferring" /\ n = IMAGE_CREDIT_COST,
         call[c].req \in ChatId => /\ pc = "chatting" /\ n = call[c].hold
                                   /\ n >= PROMPT_CHAT_CREDIT_COST
                                   /\ call[c].limit <= n * PROMPT_CHAT_OUTPUT_TOKENS_PER_CREDIT,
         MayReserve(Sweep(db), call[c].license, call[c].req, n),
         db' = Reserve(Sweep(db), call[c].license, call[c].req, n),
         Goto(c, pc), UNCHANGED <<run, Environment>>
  PROVE  IInv' /\ Evolves(db, db')
<1> DEFINE r == call[c].req
           k == [call[c] EXCEPT !.pc = pc]
<1>1. Quiet(db, Sweep(db)) /\ DbInv(Sweep(db)) /\ DbInv(db) /\ Evolves(db, Sweep(db))
  BY SweepQuiet DEF IInv, Quiet
<1>2. /\ DbInv(db') /\ Evolves(Sweep(db), db')
      /\ db'.ledger.reserve[r] = n /\ db'.ledger.user[r] = UserOf[call[c].license]
      /\ db'.job[r].license = call[c].license /\ db'.job[r].state = "reserved"
      /\ \A q \in Request \ {r} : db'.job[q] = Sweep(db).job[q]
  BY <1>1, ReserveKeeps
<1>3. Evolves(db, db')
  BY <1>1, <1>2, EvolvesTrans DEF Quiet, NoNewHold
<1>4. db.ledger.reserve[r] = 0
  <2>1. Sweep(db).ledger.reserve[r] = 0
    BY DEF MayReserve
  <2>2. db.ledger.reserve[r] \in Nat
    BY <1>1, Fields DEF DbInv
  <2> QED
    BY <1>1, <2>1, <2>2 DEF Evolves, RowEvolves
<1>5. call[c] \in CallRecord /\ call' = [call EXCEPT ![c] = k]
  BY DEF IInv, TypeOK, Goto
<1>6. k \in CallRecord /\ k.pc = pc /\ k.req = r /\ k.license = call[c].license
      /\ k.hold = call[c].hold /\ k.limit = call[c].limit
  <2>1. pc \in CallPc
    BY DEF Working, CallPc
  <2> QED
    BY <1>5, <2>1, GotoRecord
<1> HIDE DEF k, r
<1>7. CallMatches(db', k)
  <2>1. CASE r \in ImageId
    <3>1. k.pc = "inferring"
      BY <2>1, <1>6 DEF r
    <3> QED
      BY <2>1, <3>1, <1>2, <1>6 DEF CallMatches, Working
  <2>2. CASE r \in ChatId
    <3>1. k.pc = "chatting" /\ n = k.hold
      BY <2>2, <1>6 DEF r
    <3>2. k.hold \in 1..LargestHold /\ k.hold >= PROMPT_CHAT_CREDIT_COST
          /\ k.limit <= k.hold * PROMPT_CHAT_OUTPUT_TOKENS_PER_CREDIT
      BY <2>2, <3>1, <1>6 DEF r
    <3>3. /\ db'.ledger.reserve[k.req] = k.hold /\ db'.ledger.reserve[k.req] > 0
          /\ db'.ledger.user[k.req] = UserOf[k.license]
          /\ db'.job[k.req].state # "none" /\ db'.job[k.req].license = k.license
          /\ k.license \in License /\ k.req \in ChatId
      <4>1. n > 0 /\ db'.ledger.reserve[k.req] = n
        BY <1>2, <1>6, Prices
      <4> QED
        BY <2>2, <3>1, <4>1, <1>2, <1>6
    <3> QED
      BY <3>1, <3>2, <3>3 DEF CallMatches
  <2> QED
    BY <2>1, <2>2 DEF Request, r
<1>8. run' \in [ChatId -> RunRecord] /\ ReplyIsPaid'
  <2>1. run' = run
    OBVIOUS
  <2> QED
    BY <2>1, <1>3, RepliesKept DEF IInv, TypeOK, RunRecord
<1>9. \A q \in ChatId : db'.job[q].state = "reserved" =>
        \/ db.job[q].state = "reserved" /\ ~(At(c, "chatting") /\ call[c].req = q)
        \/ k.pc = "chatting" /\ k.req = q
  <2> SUFFICES ASSUME NEW q \in ChatId, db'.job[q].state = "reserved"
               PROVE  \/ db.job[q].state = "reserved" /\ ~(At(c, "chatting") /\ call[c].req = q)
                      \/ k.pc = "chatting" /\ k.req = q
    OBVIOUS
  <2>1. CASE q = r
    BY <2>1, <1>6 DEF r
  <2>2. CASE q # r
    <3>1. q \in Request
      BY DEF Request
    <3>2. db.job[q].state = "reserved"
      BY <1>1, <1>2, <2>2, <3>1 DEF Quiet, NoNewHold
    <3> QED
      BY <3>2, <2>2 DEF r
  <2> QED
    BY <2>1, <2>2
<1>10. IInv'
  <2>1. dedicated' = dedicated /\ restarts' = restarts /\ orphaned' = orphaned
    BY DEF Environment
  <2>2. k.pc \in Working => db.ledger.reserve[k.req] = 0
    BY <1>4, <1>6
  <2> QED
    BY <1>2, <1>3, <1>5, <1>6, <1>7, <1>8, <1>9, <2>1, <2>2, CallStep
<1> QED
  BY <1>3, <1>10

\* A transaction that only moves job rows on: an image row may be charged or
\* removed, and every row may grow older.
LEMMA JobsQuiet ==
  ASSUME NEW d, DbInv(d), NEW job \in [Request -> JobRow],
         \A r \in Request :
           \/ job[r].state = d.job[r].state /\ job[r].license = d.job[r].license
           \/ /\ r \in ImageId
              /\ \/ job[r].state = "none"
                 \/ job[r].state = "charged" /\ d.job[r].state # "none" /\ job[r].license = d.job[r].license
  PROVE  Quiet(d, [d EXCEPT !.job = job])
<1> DEFINE e == [d EXCEPT !.job = job]
<1>1. d \in Database
  BY DEF DbInv
<1>2. e.job = job /\ e.ledger = d.ledger
  BY <1>1 DEF Database
<1> HIDE DEF e
<1>3. ASSUME NEW r \in Request
      PROVE  HoldMatchesRow(e, r) /\ RowEvolves(d, e, r)
             /\ (e.job[r].state = "reserved" => d.job[r].state = "reserved")
  <2>1. HoldMatchesRow(d, r) /\ (r \in ImageId => r \notin ChatId)
    BY SetsAreDisjoint DEF DbInv
  <2>2. CASE e.job[r].state = d.job[r].state /\ e.job[r].license = d.job[r].license
    BY <2>1, <2>2, <1>2 DEF HoldMatchesRow, RowEvolves
  <2>3. CASE r \in ImageId /\ e.job[r].state = "none"
    BY <2>1, <2>3, <1>2 DEF HoldMatchesRow, RowEvolves
  <2>4. CASE /\ r \in ImageId
             /\ e.job[r].state = "charged" /\ d.job[r].state # "none" /\ e.job[r].license = d.job[r].license
    BY <2>1, <2>4, <1>2 DEF HoldMatchesRow, RowEvolves
  <2> QED
    BY <2>2, <2>3, <2>4, <1>2
<1>4. DbInv(e)
  BY <1>3, JobsOnly DEF e
<1>5. AccountsStay(d, e) /\ SameReserves(d, e)
  BY <1>1, <1>2 DEF AccountsStay, SameReserves, Database, e
<1> QED
  BY <1>3, <1>4, <1>5 DEF Quiet, Evolves, NoNewHold, e

\* A transaction that changes one job row.
LEMMA RowQuiet ==
  ASSUME NEW d, DbInv(d), NEW r \in Request, NEW jobRow \in JobRow,
         jobRow.license = d.job[r].license,
         \/ jobRow.state = d.job[r].state
         \/ r \in ImageId /\ jobRow.state = "charged" /\ d.job[r].state # "none"
  PROVE  Quiet(d, [d EXCEPT !.job[r] = jobRow])
<1> DEFINE job == [d.job EXCEPT ![r] = jobRow]
<1>1. d \in Database /\ d.job \in [Request -> JobRow]
  BY Fields DEF DbInv
<1>2. job \in [Request -> JobRow]
  BY <1>1
<1>3. \A q \in Request : job[q] = IF q = r THEN jobRow ELSE d.job[q]
  BY <1>1
<1>4. [d EXCEPT !.job[r] = jobRow] = [d EXCEPT !.job = job]
  OBVIOUS
<1> HIDE DEF job
<1>5. \A q \in Request :
           \/ job[q].state = d.job[q].state /\ job[q].license = d.job[q].license
           \/ /\ q \in ImageId
              /\ \/ job[q].state = "none"
                 \/ job[q].state = "charged" /\ d.job[q].state # "none" /\ job[q].license = d.job[q].license
  BY <1>3
<1> QED
  BY <1>2, <1>4, <1>5, JobsQuiet

-----------------------------------------------------------------------------
(***************************************************************************)
(* Every step                                                              *)
(***************************************************************************)
LEMMA SameRun ==
  ASSUME IInv, Evolves(db, db'), run' = run
  PROVE  run' \in [ChatId -> RunRecord] /\ ReplyIsPaid'
  BY RepliesKept DEF IInv, TypeOK, RunRecord

LEMMA ImageStepKeeps ==
  ASSUME IInv, ImageStep
  PROVE  IInv' /\ Evolves(db, db')
<1>1. DbInv(db) /\ Quiet(db, Sweep(db))
  BY SweepQuiet DEF IInv
<1>2. \A d : Quiet(db, d) => Evolves(db, d)
  BY DEF Quiet
<1>3. ChatId \subseteq Request /\ ImageId \subseteq Request
  BY DEF Request
<1>4. \A c \in Call : call[c] \in CallRecord /\ CallMatches(db, call[c])
  BY DEF IInv, TypeOK, CallsMatch
<1>5. ASSUME NEW c \in Call, NEW l \in License, NEW r \in ImageId, InferPreflight(c, l, r)
      PROVE  IInv' /\ Evolves(db, db')
  <2> DEFINE k == NewCall("admitted", l, r, FALSE)
  <2>1. Quiet(db, db') /\ run' = run /\ UNCHANGED Environment /\ call' = [call EXCEPT ![c] = k]
    BY <1>1, <1>5 DEF InferPreflight
  <2>2. ~At(c, "chatting")
    BY <1>5 DEF InferPreflight, At
  <2>3. k \in CallRecord /\ k.pc = "admitted" /\ k.license = l /\ k.req = r
    BY <1>3 DEF NewCall, CallRecord
  <2> HIDE DEF k
  <2>4. CallMatches(db', k) /\ k.pc \notin Working
    BY <2>3 DEF CallMatches, Working
  <2> QED
    BY <2>1, <2>2, <2>3, <2>4, <1>2, SameRun, GoOnStep
<1>6. ASSUME NEW c \in Call, InferAcquire(c)
      PROVE  IInv' /\ Evolves(db, db')
  <2> DEFINE k == [call[c] EXCEPT !.pc = "routing"]
  <2>1. Quiet(db, db') /\ run' = run /\ UNCHANGED Environment /\ call' = [call EXCEPT ![c] = k]
    BY <1>1, <1>6 DEF InferAcquire, Goto
  <2>2. call[c].pc = "admitted" /\ ~At(c, "chatting")
    BY <1>6 DEF InferAcquire, At
  <2>3. k \in CallRecord /\ k.pc = "routing" /\ k.license = call[c].license /\ k.req = call[c].req
    BY <1>4, GotoRecord DEF CallPc
  <2> HIDE DEF k
  <2>4. CallMatches(db', k) /\ k.pc \notin Working
    BY <2>2, <2>3, <1>4 DEF CallMatches, Working
  <2> QED
    BY <2>1, <2>2, <2>3, <2>4, <1>2, SameRun, GoOnStep
<1>7. ASSUME NEW c \in Call, InferReserve(c)
      PROVE  IInv' /\ Evolves(db, db')
  <2>1. call[c].pc \in {"admitted", "routing"}
    BY <1>7 DEF InferReserve, ReadyToReserve, At
  <2>2. call[c].license \in License /\ call[c].req \in ImageId /\ call[c].pc \notin Working
    BY <2>1, <1>4 DEF CallMatches, Working
  <2>3. IMAGE_CREDIT_COST \in 1..LargestHold /\ call[c].req \notin ChatId
    BY <2>2, Prices, SetsAreDisjoint
  <2> QED
    BY <2>2, <2>3, <1>3, <1>7, StartWork DEF InferReserve, Working
<1>8. ASSUME NEW c \in Call, InferReject(c) \/ InferReturn(c)
      PROVE  IInv' /\ Evolves(db, db')
  <2>1. Finish(c) /\ db' = db /\ run' = run /\ UNCHANGED Environment /\ ~At(c, "chatting")
    BY <1>8 DEF InferReject, InferReturn, At
  <2>2. Quiet(db, db')
    BY <2>1, <1>1, QuietRefl
  <2> QED
    BY <2>1, <2>2, <1>2, SameRun, FinishStep
<1>9. ASSUME NEW c \in Call, InferFail(c) \/ InferCancel(c)
      PROVE  IInv' /\ Evolves(db, db')
  <2>1. /\ Finish(c) /\ run' = run /\ UNCHANGED Environment /\ At(c, "inferring")
        /\ db' = db \/ db' = Release(db, call[c].license, call[c].req)
    BY <1>9 DEF InferFail, InferCancel
  <2>2. call[c].req \in Request /\ ~At(c, "chatting")
    BY <2>1, <1>3, <1>4 DEF CallMatches, At
  <2>3. Quiet(db, db')
    BY <2>1, <2>2, <1>1, QuietRefl, ReleaseQuiet
  <2> QED
    BY <2>1, <2>2, <2>3, <1>2, SameRun, FinishStep
<1>10. ASSUME NEW c \in Call, NEW l \in License, NEW r \in ImageId, CompleteRead(c, l, r)
       PROVE  IInv' /\ Evolves(db, db')
  <2> DEFINE k == NewCall("completing", l, r, FALSE)
  <2>1. db' = db /\ run' = run /\ UNCHANGED Environment /\ call' = [call EXCEPT ![c] = k]
    BY <1>10 DEF CompleteRead
  <2>2. ~At(c, "chatting")
    BY <1>10 DEF CompleteRead, At
  <2>3. k \in CallRecord /\ k.pc = "completing" /\ k.license = l /\ k.req = r
    BY <1>3 DEF NewCall, CallRecord
  <2> HIDE DEF k
  <2>4. CallMatches(db', k) /\ k.pc \notin Working
    BY <2>3 DEF CallMatches, Working
  <2>5. Quiet(db, db')
    BY <2>1, <1>1, QuietRefl
  <2> QED
    BY <2>1, <2>2, <2>3, <2>4, <2>5, <1>2, SameRun, GoOnStep
<1>11. ASSUME NEW c \in Call, CompleteWrite(c)
       PROVE  IInv' /\ Evolves(db, db')
  <2> DEFINE k == [call[c] EXCEPT !.pc = "pruning"]
             r == call[c].req
             jobRow == [db.job[r] EXCEPT !.state = "charged", !.done = TRUE]
  <2>1. /\ run' = run /\ UNCHANGED Environment /\ call' = [call EXCEPT ![c] = k]
        /\ db' = IF db.job[r].state = "none" THEN db ELSE [db EXCEPT !.job[r] = jobRow]
    BY <1>11 DEF CompleteWrite, Goto
  <2>2. call[c].pc = "completing" /\ ~At(c, "chatting")
    BY <1>11 DEF CompleteWrite, At
  <2>3. k \in CallRecord /\ k.pc = "pruning" /\ k.license = call[c].license /\ k.req = r
    BY <1>4, GotoRecord DEF CallPc
  <2> HIDE DEF k
  <2>4. CallMatches(db', k) /\ k.pc \notin Working /\ r \in ImageId
    BY <2>2, <2>3, <1>4 DEF CallMatches, Working
  <2>5. Quiet(db, db')
    <3>1. db.job[r] \in JobRow
      BY <2>4, <1>1, <1>3, Fields DEF DbInv
    <3>2. jobRow \in JobRow /\ jobRow.license = db.job[r].license /\ jobRow.state = "charged"
      BY <3>1 DEF JobRow
    <3> HIDE DEF jobRow
    <3>3. CASE db.job[r].state = "none"
      BY <3>3, <2>1, <1>1, QuietRefl
    <3>4. CASE db.job[r].state # "none"
      BY <3>2, <3>4, <2>1, <2>4, <1>1, <1>3, RowQuiet
    <3> QED
      BY <3>3, <3>4
  <2> QED
    BY <2>1, <2>2, <2>3, <2>4, <2>5, <1>2, SameRun, GoOnStep
<1>12. ASSUME NEW c \in Call, PruneAudits(c)
       PROVE  IInv' /\ Evolves(db, db')
  <2> DEFINE job == [r \in Request |-> IF r \in ImageId /\ db.job[r].age = "retired"
                                       THEN NoJob ELSE db.job[r]]
  <2>1. /\ Finish(c) /\ run' = run /\ UNCHANGED Environment /\ ~At(c, "chatting")
        /\ db' = [db EXCEPT !.job = job]
    BY <1>12 DEF PruneAudits, At
  <2>2. db.job \in [Request -> JobRow] /\ NoJob \in JobRow /\ NoJob.state = "none"
    BY <1>1, Fields DEF DbInv, NoJob, JobRow
  <2>3. \A r \in Request : job[r] = IF r \in ImageId /\ db.job[r].age = "retired"
                                    THEN NoJob ELSE db.job[r]
    OBVIOUS
  <2>4. job \in [Request -> JobRow]
    BY <2>2
  <2> HIDE DEF job
  <2>5. \A r \in Request :
           \/ job[r].state = db.job[r].state /\ job[r].license = db.job[r].license
           \/ r \in ImageId /\ job[r].state = "none"
    BY <2>2, <2>3
  <2>6. Quiet(db, [db EXCEPT !.job = job])
    BY <2>4, <2>5, <1>1, JobsQuiet
  <2> QED
    BY <2>1, <2>6, <1>2, SameRun, FinishStep
<1>13. ASSUME NEW l \in License, NEW r \in ImageId, FailAudit(l, r)
       PROVE  IInv' /\ Evolves(db, db')
  <2>1. db' = Release(db, l, r) /\ run' = run /\ UNCHANGED <<call, Environment>>
    BY <1>13 DEF FailAudit
  <2>2. Quiet(db, db')
    BY <2>1, <1>1, <1>3, ReleaseQuiet
  <2> QED
    BY <2>1, <2>2, <1>2, SameRun, QuietStep
<1> QED
  BY <1>5, <1>6, <1>7, <1>8, <1>9, <1>10, <1>11, <1>12, <1>13 DEF ImageStep

LEMMA ChatStepKeeps ==
  ASSUME IInv, ChatStep
  PROVE  IInv' /\ Evolves(db, db')
<1>1. DbInv(db) /\ Quiet(db, Sweep(db)) /\ Quiet(db, db)
  BY SweepQuiet, QuietRefl DEF IInv
<1>2. \A d : Quiet(db, d) => Evolves(db, d)
  BY DEF Quiet
<1>3. ChatId \subseteq Request /\ ImageId \subseteq Request
  BY DEF Request
<1>4. \A c \in Call : call[c] \in CallRecord /\ CallMatches(db, call[c])
  BY DEF IInv, TypeOK, CallsMatch
<1>5. ASSUME NEW c \in Call, NEW l \in License, NEW r \in ChatId, SubmitPromptChat(c, l, r)
      PROVE  IInv' /\ Evolves(db, db')
  <2> DEFINE k == NewCall("submitted", l, r, TRUE)
             queued == [status |-> "queued", charged |-> 0]
  <2>1. /\ db' = Grant(db, UserOf[l]) /\ run' = [run EXCEPT ![r] = queued]
        /\ UNCHANGED Environment /\ call' = [call EXCEPT ![c] = k]
    BY <1>5 DEF SubmitPromptChat
  <2>2. ~At(c, "chatting")
    BY <1>5 DEF SubmitPromptChat, At
  <2>3. k \in CallRecord /\ k.pc = "submitted" /\ k.license = l /\ k.req = r
    BY <1>3 DEF NewCall, CallRecord
  <2> HIDE DEF k
  <2>4. CallMatches(db', k) /\ k.pc \notin Working
    BY <2>3 DEF CallMatches, Working
  <2>5. Quiet(db, db')
    <3>1. UserOf[l] \in User
      BY EveryLicenseHasAUser
    <3> QED
      BY <2>1, <3>1, <1>1, GrantQuiet
  <2>6. run' \in [ChatId -> RunRecord] /\ ReplyIsPaid'
    <3>1. run \in [ChatId -> RunRecord] /\ queued \in RunRecord /\ queued.status # "completed"
      BY DEF IInv, TypeOK, RunRecord
    <3> HIDE DEF queued
    <3>2. \A q \in ChatId : run'[q].status = "completed" => run'[q] = run[q]
      BY <2>1, <3>1
    <3>3. Evolves(db, db')
      BY <2>5, <1>2
    <3> QED
      BY <2>1, <3>1, <3>2, <3>3, RepliesKept
  <2> QED
    BY <2>1, <2>2, <2>3, <2>4, <2>5, <2>6, <1>2, GoOnStep
<1>6. ASSUME NEW c \in Call, NEW l \in License, NEW r \in ChatId, DirectPromptChat(c, l, r)
      PROVE  IInv' /\ Evolves(db, db')
  <2> DEFINE k == NewCall("submitted", l, r, FALSE)
  <2>1. db' = db /\ run' = run /\ UNCHANGED Environment /\ call' = [call EXCEPT ![c] = k]
    BY <1>6 DEF DirectPromptChat
  <2>2. ~At(c, "chatting")
    BY <1>6 DEF DirectPromptChat, At
  <2>3. k \in CallRecord /\ k.pc = "submitted" /\ k.license = l /\ k.req = r
    BY <1>3 DEF NewCall, CallRecord
  <2> HIDE DEF k
  <2>4. CallMatches(db', k) /\ k.pc \notin Working
    BY <2>3 DEF CallMatches, Working
  <2>5. Quiet(db, db')
    BY <2>1, <1>1
  <2> QED
    BY <2>1, <2>2, <2>3, <2>4, <2>5, <1>2, SameRun, GoOnStep
<1>7. ASSUME NEW c \in Call, NEW t \in 1..MaxTokens, ChatPreflight(c, t)
      PROVE  IInv' /\ Evolves(db, db')
  <2> DEFINE r == call[c].req
             u == UserOf[call[c].license]
             balance == Balance(Grant(Sweep(db), u), u)
             hold == LesserOf(CreditsFor(t), balance)
             limit == LesserOf(t, hold * PROMPT_CHAT_OUTPUT_TOKENS_PER_CREDIT)
             k == [call[c] EXCEPT !.pc = "waiting", !.hold = hold, !.limit = limit]
  <2>1. /\ db' = Grant(Sweep(db), u) /\ SetRun(c, "running", 0)
        /\ UNCHANGED Environment /\ call[c].pc = "submitted"
        /\ balance >= PROMPT_CHAT_CREDIT_COST
        /\ call' = [call EXCEPT ![c] = k]
    BY <1>7 DEF ChatPreflight, MayChat, At
  <2>2. r \in ChatId /\ call[c].license \in License /\ ~At(c, "chatting")
    BY <2>1, <1>4 DEF CallMatches, At
  <2>3. u \in User
    BY <2>2, EveryLicenseHasAUser
  <2>4. Quiet(db, db') /\ Evolves(db, db')
    BY <2>1, <2>3, <1>1, GrantSweepQuiet DEF Quiet
  <2>5. balance \in Nat
    <3>1. DbInv(Sweep(db))
      BY <1>1 DEF Quiet
    <3> QED
      BY <2>3, <3>1, GrantKeeps, AccountsAreNumbers DEF Balance
  <2> HIDE DEF balance
  <2>6. CreditsFor(t) \in 1..LargestHold /\ CreditsFor(t) >= PROMPT_CHAT_CREDIT_COST /\ t \in Nat
    <3>1. t \in Nat
      BY CreditAmounts
    <3> QED
      BY <3>1, Prices, CreditsForType
  <2>7. hold \in 1..LargestHold /\ hold >= PROMPT_CHAT_CREDIT_COST
    BY <2>1, <2>5, <2>6, CreditAmounts, Prices DEF LesserOf
  <2> HIDE DEF hold
  <2>8. limit \in Nat /\ limit <= hold * PROMPT_CHAT_OUTPUT_TOKENS_PER_CREDIT
    BY <2>6, <2>7, CreditAmounts, Prices DEF LesserOf
  <2> HIDE DEF limit
  <2>9. /\ k \in CallRecord /\ k.pc = "waiting" /\ k.hold = hold /\ k.limit = limit
        /\ k.req = r /\ k.license = call[c].license
    <3>1. hold \in Nat /\ call[c] \in CallRecord
      BY <2>7, <1>4, Prices
    <3> QED
      BY <3>1, <2>8 DEF CallRecord
  <2> HIDE DEF k
  <2>10. CallMatches(db', k) /\ k.pc \notin Working
    BY <2>2, <2>7, <2>8, <2>9 DEF CallMatches, Working
  <2>11. /\ run' \in [ChatId -> RunRecord]
         /\ \A q \in ChatId : run'[q] = run[q] \/ run'[q].status = "running"
    BY <2>1, <2>2, SetRunEffect
  <2>12. ReplyIsPaid'
    BY <2>4, <2>11, RepliesKept
  <2> QED
    BY <2>1, <2>2, <2>4, <2>9, <2>10, <2>11, <2>12, GoOnStep
<1>8. ASSUME NEW c \in Call, ChatReserve(c)
      PROVE  IInv' /\ Evolves(db, db')
  <2>1. call[c].pc = "waiting" /\ call[c].pc \notin Working
    BY <1>8 DEF ChatReserve, At, Working
  <2>2. /\ call[c].req \in ChatId /\ call[c].license \in License
        /\ call[c].hold \in 1..LargestHold /\ call[c].hold >= PROMPT_CHAT_CREDIT_COST
        /\ call[c].limit <= call[c].hold * PROMPT_CHAT_OUTPUT_TOKENS_PER_CREDIT
    BY <2>1, <1>4 DEF CallMatches
  <2>3. call[c].req \in Request /\ call[c].req \notin ImageId
    BY <2>2, <1>3, SetsAreDisjoint
  <2> QED
    BY <2>1, <2>2, <2>3, <1>8, StartWork DEF ChatReserve, Working
<1>9. ASSUME NEW c \in Call, ChatReject(c)
      PROVE  IInv' /\ Evolves(db, db')
  <2>1. /\ Finish(c) /\ db' = db /\ SetRun(c, "error", 0) /\ UNCHANGED Environment
        /\ call[c].pc \in {"submitted", "waiting"}
    BY <1>9 DEF ChatReject, At
  <2>2. call[c].req \in ChatId /\ ~At(c, "chatting") /\ Quiet(db, db') /\ Evolves(db, db')
    BY <2>1, <1>1, <1>2, <1>4 DEF CallMatches, At
  <2>3. /\ run' \in [ChatId -> RunRecord]
        /\ \A q \in ChatId : run'[q] = run[q] \/ run'[q].status = "error"
    BY <2>1, <2>2, SetRunEffect
  <2>4. ReplyIsPaid'
    BY <2>2, <2>3, RepliesKept
  <2> QED
    BY <2>1, <2>2, <2>3, <2>4, FinishStep
<1>10. ASSUME NEW c \in Call, NEW t \in 1..MaxTokens, ChatSettle(c, t)
       PROVE  IInv' /\ Evolves(db, db')
  <2> DEFINE r == call[c].req
  <2>1. /\ Finish(c) /\ SetRun(c, "completed", CreditsFor(t)) /\ UNCHANGED Environment
        /\ call[c].pc = "chatting" /\ db.job[r].state = "reserved"
        /\ CreditsFor(t) <= HeldCredits(db, r)
        /\ db' = Settle(db, call[c].license, r, CreditsFor(t))
    BY <1>10 DEF ChatSettle, At
  <2>2. r \in ChatId /\ r \in Request /\ db.job[r].license = call[c].license
    BY <2>1, <1>3, <1>4 DEF CallMatches
  <2>3. CreditsFor(t) \in Nat /\ CreditsFor(t) >= PROMPT_CHAT_CREDIT_COST
        /\ CreditsFor(t) <= db.ledger.reserve[r]
    <3>1. t \in Nat
      BY CreditAmounts
    <3>2. HeldCredits(db, r) = db.ledger.reserve[r]
      BY <2>1, <2>2, <1>1, OpenHold
    <3> QED
      BY <2>1, <3>1, <3>2, CreditsForType
  <2>4. /\ Quiet(db, db') /\ Evolves(db, db') /\ db'.job[r].state = "charged" /\ db'.ledger.refund[r] = 0
        /\ db'.ledger.reserve[r] - db'.ledger.unused[r] = CreditsFor(t)
    <3> DEFINE n == CreditsFor(t)
               e == Settle(db, db.job[r].license, r, n)
    <3>1. /\ DbInv(db) /\ db.job[r].state = "reserved" /\ r \in ChatId
          /\ n \in Nat /\ n >= PROMPT_CHAT_CREDIT_COST /\ n <= db.ledger.reserve[r]
      BY <2>1, <2>2, <2>3, <1>1
    <3>2. db' = e
      BY <2>1, <2>2
    <3> HIDE DEF n, r
    <3>3. /\ DbInv(e) /\ Evolves(db, e) /\ NoNewHold(db, e)
          /\ e.job[r].state = "charged" /\ e.ledger.refund[r] = 0
          /\ e.ledger.reserve[r] - e.ledger.unused[r] = n
      BY <3>1, SettleKeeps
    <3> HIDE DEF e
    <3> QED
      BY <3>2, <3>3 DEF Quiet, n
  <2>5. /\ run' \in [ChatId -> RunRecord]
        /\ \A q \in ChatId : run'[q] = run[q] \/ (q = r /\ run'[q].charged = CreditsFor(t))
    BY <2>1, <2>2, <2>3, SetRunEffect
  <2>6. ReplyIsPaid'
    <3> SUFFICES ASSUME NEW q \in ChatId, run'[q].status = "completed"
                 PROVE  /\ db'.job[q].state = "charged"
                        /\ db'.ledger.refund[q] = 0
                        /\ run'[q].charged = db'.ledger.reserve[q] - db'.ledger.unused[q]
      BY DEF ReplyIsPaid
    <3>1. CASE run'[q] = run[q]
      <4>1. /\ db.job[q].state = "charged" /\ db.ledger.refund[q] = 0
            /\ run[q].charged = db.ledger.reserve[q] - db.ledger.unused[q]
        BY <3>1 DEF IInv, ReplyIsPaid
      <4> QED
        BY <3>1, <4>1, <2>4, <1>1, PaidStable
    <3>2. CASE q = r /\ run'[q].charged = CreditsFor(t)
      BY <3>2, <2>4
    <3> QED
      BY <3>1, <3>2, <2>5
  <2>7. db'.job[r].state # "reserved"
    BY <2>4
  <2> QED
    BY <2>1, <2>4, <2>5, <2>6, <2>7, FinishStep
<1>11. ASSUME NEW c \in Call, ChatFail(c) \/ (ChatCancel(c) /\ At(c, "chatting"))
       PROVE  IInv' /\ Evolves(db, db')
  <2> DEFINE r == call[c].req
  <2>1. /\ Finish(c) /\ UNCHANGED Environment
        /\ call[c].pc = "chatting" /\ db' = Release(db, call[c].license, r)
        /\ SetRun(c, "error", 0) \/ run' = run
    BY <1>11 DEF ChatFail, ChatCancel, At
  <2>2. r \in ChatId /\ r \in Request /\ db.job[r].license = call[c].license
    BY <2>1, <1>3, <1>4 DEF CallMatches
  <2>3. Quiet(db, db') /\ Evolves(db, db') /\ db'.job[r].state # "reserved"
    BY <2>1, <2>2, <1>1, <1>2, ReleaseQuiet
  <2>4. /\ run' \in [ChatId -> RunRecord]
        /\ \A q \in ChatId : run'[q] = run[q] \/ run'[q].status = "error"
    BY <2>1, <2>2, SetRunEffect DEF IInv, TypeOK, RunRecord
  <2>5. ReplyIsPaid'
    BY <2>3, <2>4, RepliesKept
  <2> QED
    BY <2>1, <2>3, <2>4, <2>5, FinishStep
<1>12. ASSUME NEW r \in ChatId, PruneRun(r)
       PROVE  IInv' /\ Evolves(db, db')
  <2>1. db' = db /\ UNCHANGED <<call, Environment>> /\ run' = [run EXCEPT ![r] = NoRun]
    BY <1>12 DEF PruneRun
  <2>2. run \in [ChatId -> RunRecord] /\ NoRun \in RunRecord /\ NoRun.status # "completed"
    BY DEF IInv, TypeOK, RunRecord, NoRun
  <2>3. \A q \in ChatId : run'[q].status = "completed" => run'[q] = run[q]
    BY <2>1, <2>2
  <2>4. Quiet(db, db') /\ Evolves(db, db')
    BY <2>1, <1>1, <1>2
  <2> QED
    BY <2>1, <2>2, <2>3, <2>4, RepliesKept, QuietStep
<1>13. ASSUME NEW c \in Call, ChatCancel(c), ~At(c, "chatting")
       PROVE  IInv' /\ Evolves(db, db')
  <2>1. Finish(c) /\ db' = db /\ run' = run /\ UNCHANGED Environment
    BY <1>13 DEF ChatCancel
  <2>2. Quiet(db, db')
    BY <2>1, <1>1
  <2> QED
    BY <2>1, <2>2, <1>2, <1>13, SameRun, FinishStep
<1> QED
  <2>1. TokensAsked \subseteq 1..MaxTokens
    BY CreditAmounts
  <2> QED
    BY <2>1, <1>5, <1>6, <1>7, <1>8, <1>9, <1>10, <1>11, <1>12, <1>13 DEF ChatStep

LEMMA OtherStepsKeep ==
  ASSUME IInv,
         \/ \E l \in License : CreditStatus(l)
         \/ \E r \in Request : Age(r)
         \/ Restart
  PROVE  IInv' /\ Evolves(db, db')
<1>1. DbInv(db) /\ Quiet(db, Sweep(db)) /\ Quiet(db, db)
  BY SweepQuiet, QuietRefl DEF IInv
<1>2. \A d : Quiet(db, d) => Evolves(db, d)
  BY DEF Quiet
<1>3. ASSUME NEW l \in License, CreditStatus(l)
      PROVE  IInv' /\ Evolves(db, db')
  <2>1. db' = Grant(Sweep(db), UserOf[l]) /\ run' = run /\ UNCHANGED <<call, Environment>>
    BY <1>3 DEF CreditStatus
  <2>2. UserOf[l] \in User
    BY EveryLicenseHasAUser
  <2>3. Quiet(db, db')
    BY <2>1, <2>2, <1>1, GrantSweepQuiet
  <2> QED
    BY <2>1, <2>3, <1>2, SameRun, QuietStep
<1>4. ASSUME NEW r \in Request, Age(r)
      PROVE  IInv' /\ Evolves(db, db')
  <2>1. run' = run /\ UNCHANGED <<call, Environment>>
    BY <1>4 DEF Age
  <2>2. \E age \in {"stale", "retired"} : db' = [db EXCEPT !.job[r] = [db.job[r] EXCEPT !.age = age]]
    BY <1>4 DEF Age
  <2>3. PICK age \in {"stale", "retired"} : db' = [db EXCEPT !.job[r] = [db.job[r] EXCEPT !.age = age]]
    BY <2>2
  <2> DEFINE jobRow == [db.job[r] EXCEPT !.age = age]
  <2>4. db.job[r] \in JobRow
    BY <1>1, Fields DEF DbInv
  <2>5. jobRow \in JobRow /\ jobRow.state = db.job[r].state /\ jobRow.license = db.job[r].license
    BY <2>4 DEF JobRow
  <2> HIDE DEF jobRow
  <2>6. Quiet(db, [db EXCEPT !.job[r] = jobRow])
    BY <2>5, <1>1, RowQuiet
  <2>7. Quiet(db, db')
    BY <2>3, <2>6 DEF jobRow
  <2> QED
    BY <2>1, <2>7, <1>2, SameRun, QuietStep
<1>5. CASE Restart
  <2>1. /\ db' = db /\ call' = [c \in Call |-> Idle] /\ run' = [r \in ChatId |-> NoRun]
        /\ restarts < MaxRestarts /\ restarts' = restarts + 1 /\ dedicated' = dedicated
        /\ orphaned' = orphaned \cup {r \in ChatId : db.job[r].state = "reserved"}
    BY <1>5 DEF Restart
  <2>2. TypeOK'
    <3>1. call' \in [Call -> CallRecord]
      BY <2>1, IdleRecord
    <3>2. run' \in [ChatId -> RunRecord]
      BY <2>1 DEF NoRun, RunRecord
    <3>3. restarts' \in 0..MaxRestarts
      BY <2>1, CreditAmounts DEF IInv, TypeOK
    <3> QED
      BY <2>1, <3>1, <3>2, <3>3 DEF IInv, TypeOK, RunRecord
  <2>3. CallsMatch' /\ NoUnpaidInference'
    BY <2>1, IdleRecord DEF CallsMatch, CallMatches, Working, NoUnpaidInference
  <2>4. ReplyIsPaid'
    BY <2>1 DEF ReplyIsPaid, NoRun
  <2>5. HoldHasOwner'
    BY <2>1 DEF HoldHasOwner
  <2> QED
    BY <2>1, <2>2, <2>3, <2>4, <2>5, <1>1, <1>2 DEF IInv
<1> QED
  BY <1>3, <1>4, <1>5

LEMMA InitIInv == Init => IInv
<1> SUFFICES ASSUME Init PROVE IInv
  OBVIOUS
<1>1. /\ db = EmptyDatabase /\ call = [c \in Call |-> Idle] /\ run = [r \in ChatId |-> NoRun]
      /\ dedicated \in BOOLEAN /\ restarts = 0 /\ orphaned = {}
  BY DEF Init
<1>2. /\ \A u \in User : db.account[u] = NoAccount
      /\ \A r \in Request : db.job[r] = NoJob
      /\ \A r \in Request : /\ db.ledger.reserve[r] = 0 /\ db.ledger.refund[r] = 0
                            /\ db.ledger.unused[r] = 0 /\ db.ledger.user[r] = NoUser
  BY <1>1 DEF EmptyDatabase
<1>3. db \in Database
  <2>1. NoJob \in JobRow
    BY DEF NoJob, JobRow
  <2> QED
    BY <1>1, <2>1 DEF EmptyDatabase, Database, Ledger
<1>4. TypeOK
  <2>1. call \in [Call -> CallRecord]
    BY <1>1, IdleRecord
  <2>2. run \in [ChatId -> RunRecord]
    BY <1>1 DEF NoRun, RunRecord
  <2> QED
    BY <1>1, <1>3, <2>1, <2>2, CreditAmounts DEF TypeOK, RunRecord
<1>5. ASSUME NEW r \in Request PROVE HoldMatchesRow(db, r)
  <2>1. db.job[r].state = "none"
    BY <1>2 DEF NoJob
  <2> QED
    BY <1>2, <2>1, SetsAreDisjoint, Prices DEF HoldMatchesRow
<1>6. Conserved(db)
  <2>1. ASSUME NEW u \in User PROVE UnitsOut(db, u) = {}
    <3>1. \A r \in Request : db.ledger.user[r] # u
      BY <1>2, SetsAreDisjoint
    <3> QED
      BY <3>1 DEF UnitsOut
  <2> QED
    BY <2>1, <1>2 DEF Conserved
<1>7. CallsMatch /\ NoUnpaidInference
  BY <1>1, IdleRecord DEF CallsMatch, CallMatches, Working, NoUnpaidInference
<1>8. ReplyIsPaid
  BY <1>1 DEF ReplyIsPaid, NoRun
<1>9. HoldHasOwner
  BY <1>2 DEF HoldHasOwner, NoJob, Request
<1> QED
  BY <1>3, <1>4, <1>5, <1>6, <1>7, <1>8, <1>9 DEF IInv, DbInv

LEMMA StepKeeps == IInv /\ [Next]_vars => IInv' /\ Evolves(db, db')
<1> SUFFICES ASSUME IInv, [Next]_vars PROVE IInv' /\ Evolves(db, db')
  OBVIOUS
<1>1. CASE UNCHANGED vars
  <2>1. /\ db' = db /\ call' = call /\ run' = run
        /\ dedicated' = dedicated /\ restarts' = restarts /\ orphaned' = orphaned
    BY <1>1 DEF vars
  <2>2. Quiet(db, db') /\ Evolves(db, db')
    BY <2>1, QuietRefl DEF IInv, Quiet
  <2>3. UNCHANGED <<call, Environment>>
    BY <2>1 DEF Environment
  <2> QED
    BY <2>1, <2>2, <2>3, SameRun, QuietStep
<1>2. CASE ImageStep
  BY <1>2, ImageStepKeeps
<1>3. CASE ChatStep
  BY <1>3, ChatStepKeeps
<1>4. CASE \/ \E l \in License : CreditStatus(l)
           \/ \E r \in Request : Age(r)
           \/ Restart
  BY <1>4, OtherStepsKeep
<1> QED
  BY <1>1, <1>2, <1>3, <1>4 DEF Next

LEMMA Inductive == Spec => []IInv
<1>1. IInv /\ [Next]_vars => IInv'
  BY StepKeeps
<1> QED
  BY InitIInv, <1>1, PTL DEF Spec

-----------------------------------------------------------------------------
(***************************************************************************)
(* The prepaid wallet                                                      *)
(***************************************************************************)
HeldNow(d, r) == IF d.job[r].state = "reserved" THEN d.ledger.reserve[r] ELSE 0

SpentNow(d, r) ==
  IF d.job[r].state = "reserved" THEN 0
  ELSE d.ledger.reserve[r] - d.ledger.refund[r] - d.ledger.unused[r]

WalletUnits(d, u) ==
  {x \in Request \X (1..LargestHold) :
      d.ledger.user[x[1]] = u /\ x[2] <= HeldNow(d, x[1]) + SpentNow(d, x[1])}

\* What is held or spent is what the ledger says is out.
LEMMA WalletUnitsAreOut ==
  ASSUME NEW d, DbInv(d), NEW u \in User
  PROVE  WalletUnits(d, u) = UnitsOut(d, u)
<1>1. ASSUME NEW r \in Request
      PROVE  HeldNow(d, r) + SpentNow(d, r) =
               d.ledger.reserve[r] - d.ledger.refund[r] - d.ledger.unused[r]
  <2>1. /\ d.ledger.reserve[r] \in Nat /\ d.ledger.refund[r] \in Nat /\ d.ledger.unused[r] \in Nat
        /\ d.job[r].state = "reserved" => d.ledger.refund[r] = 0 /\ d.ledger.unused[r] = 0
    BY Fields, OpenHold DEF DbInv
  <2> QED
    BY <2>1 DEF HeldNow, SpentNow
<1>2. ASSUME NEW x \in Request \X (1..LargestHold)
      PROVE  HeldNow(d, x[1]) + SpentNow(d, x[1]) =
               d.ledger.reserve[x[1]] - d.ledger.refund[x[1]] - d.ledger.unused[x[1]]
  BY <1>1
<1> QED
  BY <1>2 DEF WalletUnits, UnitsOut

\* A transaction leaves a request as it was, or takes its hold, or releases or
\* spends it.
LEMMA RowMoves ==
  ASSUME NEW d, NEW e, DbInv(d), DbInv(e), Evolves(d, e), NEW r \in Request
  PROVE  \/ /\ HeldNow(e, r) = HeldNow(d, r) /\ SpentNow(e, r) = SpentNow(d, r)
            /\ e.ledger.user[r] = d.ledger.user[r]
         \/ /\ d.ledger.user[r] = NoUser /\ e.ledger.user[r] \in User
            /\ HeldNow(e, r) \in 1..LargestHold /\ SpentNow(e, r) = 0
         \/ /\ HeldNow(d, r) > 0 /\ HeldNow(e, r) = 0
            /\ SpentNow(e, r) \in 0..HeldNow(d, r)
            /\ e.ledger.user[r] = d.ledger.user[r]
<1>1. /\ d.ledger.reserve[r] \in Nat /\ d.ledger.refund[r] \in Nat /\ d.ledger.unused[r] \in Nat
      /\ e.ledger.reserve[r] \in Nat /\ e.ledger.refund[r] \in Nat /\ e.ledger.unused[r] \in Nat
      /\ d.ledger.user[r] \in User \cup {NoUser} /\ e.ledger.user[r] \in User \cup {NoUser}
  BY Fields DEF DbInv
<1>2. HoldMatchesRow(d, r) /\ HoldMatchesRow(e, r) /\ RowEvolves(d, e, r)
  BY DEF DbInv, Evolves
<1>3. CASE d.ledger.reserve[r] = 0
  <2>1. /\ d.job[r].state # "reserved" /\ d.ledger.user[r] = NoUser
        /\ d.ledger.refund[r] = 0 /\ d.ledger.unused[r] = 0
    BY <1>1, <1>2, <1>3 DEF HoldMatchesRow
  <2>2. CASE e.ledger.reserve[r] = 0
    <3>1. /\ e.job[r].state # "reserved" /\ e.ledger.user[r] = NoUser
          /\ e.ledger.refund[r] = 0 /\ e.ledger.unused[r] = 0
      BY <1>1, <1>2, <2>2 DEF HoldMatchesRow
    <3> QED
      BY <3>1, <2>1, <2>2, <1>3 DEF HeldNow, SpentNow
  <2>3. CASE e.ledger.reserve[r] > 0
    <3>1. e.job[r].state = "reserved" /\ e.ledger.user[r] \in User /\ e.ledger.reserve[r] <= LargestHold
      BY <1>2, <1>3, <2>3 DEF HoldMatchesRow, RowEvolves
    <3> QED
      BY <3>1, <2>1, <2>3, <1>1, Prices DEF HeldNow, SpentNow
  <2> QED
    BY <2>2, <2>3, <1>1
<1>4. CASE d.ledger.reserve[r] > 0
  <2>1. e.ledger.reserve[r] = d.ledger.reserve[r] /\ e.ledger.user[r] = d.ledger.user[r]
    BY <1>2, <1>4 DEF RowEvolves
  <2>2. CASE d.job[r].state = "reserved"
    <3>1. CASE e.job[r].state = "reserved"
      BY <3>1, <2>1, <2>2 DEF HeldNow, SpentNow
    <3>2. CASE e.job[r].state # "reserved"
      <4>1. e.ledger.refund[r] + e.ledger.unused[r] <= e.ledger.reserve[r]
        BY <1>2 DEF HoldMatchesRow
      <4> QED
        BY <3>2, <4>1, <2>1, <2>2, <1>1, <1>4 DEF HeldNow, SpentNow
    <3> QED
      BY <3>1, <3>2
  <2>3. CASE d.job[r].state # "reserved"
    <3>1. /\ e.ledger.refund[r] = d.ledger.refund[r] /\ e.ledger.unused[r] = d.ledger.unused[r]
          /\ e.job[r].state # "reserved"
      BY <1>2, <1>4, <2>3 DEF RowEvolves
    <3> QED
      BY <3>1, <2>1, <2>3 DEF HeldNow, SpentNow
  <2> QED
    BY <2>2, <2>3
<1> QED
  BY <1>1, <1>3, <1>4

LEMMA InitIsWalletInit == Init => Wallet!Init
<1> SUFFICES ASSUME Init PROVE Wallet!Init
  OBVIOUS
<1>1. db = EmptyDatabase
  BY DEF Init
<1> QED
  BY <1>1 DEF Wallet!Init, EmptyDatabase, NoJob

LEMMA StepIsTransaction == IInv /\ [Next]_vars => Wallet!Transact
<1> SUFFICES ASSUME IInv, [Next]_vars PROVE Wallet!Transact
  OBVIOUS
<1>1. DbInv(db) /\ DbInv(db') /\ Evolves(db, db')
  BY StepKeeps DEF IInv
<1>2. ASSUME NEW r \in Request
      PROVE  Wallet!Unmoved(r) \/ Wallet!Take(r) \/ Wallet!Release(r) \/ Wallet!Spend(r)
  <2>1. CASE /\ HeldNow(db', r) = HeldNow(db, r) /\ SpentNow(db', r) = SpentNow(db, r)
             /\ db'.ledger.user[r] = db.ledger.user[r]
    BY <2>1 DEF Wallet!Unmoved, HeldNow, SpentNow
  <2>2. CASE /\ db.ledger.user[r] = NoUser /\ db'.ledger.user[r] \in User
             /\ HeldNow(db', r) \in 1..LargestHold /\ SpentNow(db', r) = 0
    BY <2>2 DEF Wallet!Take, HeldNow, SpentNow
  <2>3. CASE /\ HeldNow(db, r) > 0 /\ HeldNow(db', r) = 0
             /\ SpentNow(db', r) \in 0..HeldNow(db, r)
             /\ db'.ledger.user[r] = db.ledger.user[r]
    <3>1. HeldNow(db, r) \in Nat
      BY <1>1, Fields DEF HeldNow, DbInv
    <3>2. CASE SpentNow(db', r) = 0
      BY <2>3, <3>2 DEF Wallet!Release, HeldNow, SpentNow
    <3>3. CASE SpentNow(db', r) \in 1..HeldNow(db, r)
      BY <2>3, <3>3 DEF Wallet!Spend, HeldNow, SpentNow
    <3> QED
      BY <2>3, <3>1, <3>2, <3>3
  <2> QED
    BY <1>1, <2>1, <2>2, <2>3, RowMoves
<1>3. ASSUME NEW u \in User
      PROVE  IF db.account[u] = NoAccount
             THEN db'.account[u] = NoAccount \/ Wallet!Worth(u)' = WELCOME_CREDITS
             ELSE db'.account[u] >= 0 /\ Wallet!Worth(u)' = Wallet!Worth(u)
  <2>1. /\ Wallet!Worth(u) = db.account[u] + Cardinality(WalletUnits(db, u))
        /\ Wallet!Worth(u)' = db'.account[u] + Cardinality(WalletUnits(db', u))
    <3>1. Wallet!Units(u) = WalletUnits(db, u)
      <4>1. ASSUME NEW x \in Request \X (1..LargestHold) PROVE x[1] \in Request
        OBVIOUS
      <4> QED
        BY <4>1 DEF Wallet!Units, WalletUnits, HeldNow, SpentNow
    <3>2. Wallet!Units(u)' = WalletUnits(db', u)
      <4>1. ASSUME NEW x \in Request \X (1..LargestHold) PROVE x[1] \in Request
        OBVIOUS
      <4> QED
        BY <4>1 DEF Wallet!Units, WalletUnits, HeldNow, SpentNow
    \* The instance has a Cardinality of its own, by the same definition.
    <3> QED
      BY <3>1, <3>2, Zenon DEF Wallet!Worth, Wallet!Cardinality, Cardinality
  <2>2. /\ WalletUnits(db, u) = UnitsOut(db, u)
        /\ WalletUnits(db', u) = UnitsOut(db', u)
    BY <1>1, WalletUnitsAreOut
  <2>3. /\ db.account[u] # NoAccount => db'.account[u] # NoAccount
        /\ db.account[u] # NoAccount =>
             db.account[u] + Cardinality(UnitsOut(db, u)) = WELCOME_CREDITS
        /\ db'.account[u] # NoAccount =>
             db'.account[u] + Cardinality(UnitsOut(db', u)) = WELCOME_CREDITS
        /\ db'.account[u] \in Nat \cup {NoAccount}
    BY <1>1, Fields DEF DbInv, Conserved, Evolves, AccountsStay
  <2> QED
    BY <2>1, <2>2, <2>3
<1> QED
  BY <1>2, <1>3 DEF Wallet!Transact

-----------------------------------------------------------------------------
(***************************************************************************)
(* The theorems                                                            *)
(***************************************************************************)

\* Every variable keeps its type.
THEOREM TypeCorrect == Spec => []TypeOK
<1>1. IInv => TypeOK
  BY DEF IInv
<1> QED
  BY Inductive, <1>1, PTL

\* No credit is created or lost, whatever transactions interleave, and no
\* stored balance is ever negative, so that the CHECK constraint of
\* credit_accounts never fires.
THEOREM Conservation == Spec => []CreditsConserved
<1>1. ASSUME IInv PROVE CreditsConserved
  <2>1. db \in Database /\ Conserved(db)
    BY <1>1 DEF IInv, DbInv
  <2>2. ASSUME NEW u \in User PROVE Balance(db, u) >= 0
    BY <2>1, Fields DEF Balance
  <2> QED
    BY <2>1, <2>2 DEF CreditsConserved
<1> QED
  BY Inductive, <1>1, PTL

\* The job rows and the ledger never disagree about a hold.
THEOREM RowsAgree == Spec => []HoldsMatchLedger
<1>1. IInv => HoldsMatchLedger
  BY DEF IInv, DbInv, HoldsMatchLedger
<1> QED
  BY Inductive, <1>1, PTL

\* A GPU works only on a payment of its own.
THEOREM PaidInAdvance == Spec => []NoUnpaidInference
<1>1. IInv => NoUnpaidInference
  BY DEF IInv
<1> QED
  BY Inductive, <1>1, PTL

\* A reply the client can fetch has been charged what it quotes.
THEOREM RepliesArePaid == Spec => []ReplyIsPaid
<1>1. IInv => ReplyIsPaid
  BY DEF IInv
<1> QED
  BY Inductive, <1>1, PTL

\* The reply limit keeps every reply within its hold.
THEOREM HoldSuffices == Spec => []HoldCoversReply
<1>1. IInv => HoldCoversReply
  <2> SUFFICES ASSUME IInv, NEW c \in Call, At(c, "chatting"),
                      db.job[call[c].req].state = "reserved"
               PROVE  CreditsFor(call[c].limit) <= HeldCredits(db, call[c].req)
    BY DEF HoldCoversReply
  <2>1. call[c] \in CallRecord /\ CallMatches(db, call[c]) /\ call[c].pc = "chatting"
    BY DEF IInv, TypeOK, CallsMatch, At
  <2>2. /\ call[c].req \in ChatId /\ call[c].hold \in 1..LargestHold
        /\ call[c].hold >= PROMPT_CHAT_CREDIT_COST
        /\ call[c].limit <= call[c].hold * PROMPT_CHAT_OUTPUT_TOKENS_PER_CREDIT
        /\ db.ledger.reserve[call[c].req] = call[c].hold
    BY <2>1 DEF CallMatches
  <2>3. call[c].limit \in Nat /\ call[c].hold \in Nat
    BY <2>1 DEF CallRecord
  <2>4. HeldCredits(db, call[c].req) = call[c].hold
    BY <2>2, OpenHold DEF IInv, Request
  <2> QED
    BY <2>2, <2>3, <2>4, HoldPays
<1> QED
  BY Inductive, <1>1, PTL

\* Every open chat hold has a call that will decide it, or outlived a restart.
THEOREM HoldsAreOwned == Spec => []HoldHasOwner
<1>1. IInv => HoldHasOwner
  BY DEF IInv
<1> QED
  BY Inductive, <1>1, PTL

\* What was charged is never returned, and ledger rows are only added.
THEOREM Finality == Spec => ChargesAreFinal
<1>1. IInv /\ [Next]_vars =>
        [\A r \in Request :
           /\ db.job[r].state = "charged" =>
                db'.ledger.refund[r] = db.ledger.refund[r] /\ db'.ledger.unused[r] = db.ledger.unused[r]
           /\ db.ledger.reserve[r] > 0 => db'.ledger.reserve[r] = db.ledger.reserve[r]
           /\ db.ledger.refund[r] > 0 => db'.ledger.refund[r] = db.ledger.refund[r]]_vars
  <2> SUFFICES ASSUME IInv, [Next]_vars, NEW r \in Request
               PROVE  /\ db.job[r].state = "charged" =>
                           /\ db'.ledger.refund[r] = db.ledger.refund[r]
                           /\ db'.ledger.unused[r] = db.ledger.unused[r]
                      /\ db.ledger.reserve[r] > 0 => db'.ledger.reserve[r] = db.ledger.reserve[r]
                      /\ db.ledger.refund[r] > 0 => db'.ledger.refund[r] = db.ledger.refund[r]
    OBVIOUS
  <2>1. RowEvolves(db, db', r) /\ HoldMatchesRow(db, r)
    BY StepKeeps DEF Evolves, IInv, DbInv
  <2> QED
    BY <2>1 DEF RowEvolves, HoldMatchesRow
<1> QED
  BY Inductive, <1>1, PTL DEF Spec, ChargesAreFinal

\* Seen through its accounts and ledger the gateway is a prepaid wallet: a
\* request takes at most one hold, which is spent or released once, and nobody
\* else's credits move.
THEOREM IsPrepaidWallet == Spec => RefinesWallet
<1>1. IInv /\ [Next]_vars => [Wallet!Transact]_(Wallet!walletVars)
  BY StepIsTransaction
<1> QED
  BY InitIsWalletInit, Inductive, <1>1, PTL DEF Spec, RefinesWallet, Wallet!Spec

-----------------------------------------------------------------------------
(***************************************************************************)
(* Credit purchases                                                        *)
(***************************************************************************)

Made == {i \in Invoice : btcpay[i].status # "none"}

\* BTCPay draws a number once.
NoGaps == \E n \in 0..MaxInvoices : Made = 1..n

\* The gateway has rows of BTCPay's invoices only.
RowsAreMade == \A i \in Invoice : row[i].status # "none" => i \in Made

\* _credit_purchase_lock.
OneBuyer == \A s, t \in Thread : thread[s].pc \in Buying /\ thread[t].pc \in Buying => s = t

\* Between its decision and its row a purchase has no open invoice beside it,
\* and the invoice whose row it inserts has none yet.
Undisturbed ==
  \A t \in Thread :
    /\ ThreadAt(t, "posting") \/ ThreadAt(t, "inserting") =>
         /\ thread[t].todo = {}
         /\ Rows(thread[t].user, thread[t].pack, "new") = {}
    /\ ThreadAt(t, "inserting") =>
         /\ thread[t].asked \in Made
         /\ row[thread[t].asked].status = "none"

OneOpen ==
  \A u \in Buyer, p \in Pack : \A i, j \in Rows(u, p, "new") : i = j

PurchasesInv == PurchasesTypeOK /\ NoGaps /\ RowsAreMade /\ OneBuyer /\ Undisturbed /\ OneOpen

-----------------------------------------------------------------------------
(***************************************************************************)
(* What the rows, the threads and BTCPay may each do alone                 *)
(***************************************************************************)

\* A settlement or an expiry: no row is opened, none that is settled changes.
Closes ==
  /\ row' \in [Invoice -> Record(RowStatus)]
  /\ \A i \in Invoice :
       \/ row'[i] = row[i]
       \/ /\ row[i].status \notin {"none", "settled"}
          /\ row'[i].status \in {"settled", "expired"}

LEMMA SettleCloses ==
  ASSUME PurchasesTypeOK, NEW i \in Invoice \cup {NoInvoice}, SettleRow(i), i \in Invoice
  PROVE  Closes /\ paid' \in [Buyer -> Nat] /\ ledger' \in SUBSET Invoice
<1>1. row \in [Invoice -> Record(RowStatus)] /\ paid \in [Buyer -> Nat] /\ ledger \in SUBSET Invoice
  BY DEF PurchasesTypeOK
<1>2. CASE row[i].status \notin {"none", "settled"}
  <2>1. /\ row' = [row EXCEPT ![i].status = "settled"]
        /\ paid' = [paid EXCEPT ![row[i].user] = @ + Credits[row[i].pack]]
        /\ ledger' = ledger \cup {i}
    BY <1>2 DEF SettleRow
  <2>2. row[i].pack \in Pack
    BY <1>1 DEF Record
  <2>3. Credits[row[i].pack] \in Nat
    BY <2>2, PacksHaveAnIntro
  <2>4. paid' \in [Buyer -> Nat]
    <3>1. CASE row[i].user \in Buyer
      <4>1. paid[row[i].user] + Credits[row[i].pack] \in Nat
        BY <1>1, <2>3, <3>1
      <4> QED
        BY <1>1, <2>1, <4>1
    <3>2. CASE row[i].user \notin Buyer
      BY <1>1, <2>1, <3>2
    <3> QED
      BY <3>1, <3>2
  <2>5. Closes
    BY <1>1, <1>2, <2>1 DEF Closes, Record, RowStatus
  <2> QED
    BY <1>1, <2>1, <2>4, <2>5
<1>3. CASE row[i].status \in {"none", "settled"}
  BY <1>1, <1>3 DEF SettleRow, Closes
<1> QED
  BY <1>2, <1>3

\* Closing rows disturbs nothing that a purchase relies on.
LEMMA ClosesKeeps ==
  ASSUME PurchasesInv, Closes, UNCHANGED btcpay,
         \A t \in Thread :
           \/ thread'[t] = thread[t]
           \/ thread'[t].pc = thread[t].pc /\ thread[t].pc \in {"polling", "reconciling"}
  PROVE  NoGaps' /\ RowsAreMade' /\ OneBuyer' /\ Undisturbed' /\ OneOpen'
<1>1. Made' = Made
  BY DEF Made
<1>2. NoGaps'
  BY <1>1 DEF PurchasesInv, NoGaps
<1>3. RowsAreMade'
  BY <1>1 DEF PurchasesInv, RowsAreMade, Closes
<1>4. OneBuyer'
  BY DEF PurchasesInv, OneBuyer
<1>5. ASSUME NEW u, NEW p PROVE Rows(u, p, "new")' \subseteq Rows(u, p, "new")
  BY DEF Closes, Rows
<1>6. Undisturbed'
  BY <1>1, <1>5 DEF PurchasesInv, Undisturbed, ThreadAt, Closes, Made
<1>7. OneOpen'
  BY <1>5 DEF PurchasesInv, OneOpen
<1> QED
  BY <1>2, <1>3, <1>4, <1>6, <1>7

\* Steps of threads alone: whoever buys then bought before, or is the only one,
\* and whoever posts has just found no open invoice, or posted already.
LEMMA ThreadsKeep ==
  ASSUME PurchasesInv, UNCHANGED <<row, btcpay>>, OneBuyer',
         \A t \in Thread :
           thread'[t].pc \in {"posting", "inserting"} =>
             \/ /\ thread'[t].pc = "posting" /\ thread'[t].todo = {}
                /\ Rows(thread'[t].user, thread'[t].pack, "new") = {}
             \/ thread'[t] = thread[t]
  PROVE  NoGaps' /\ RowsAreMade' /\ Undisturbed' /\ OneOpen'
<1>1. Made' = Made /\ \A u, p : Rows(u, p, "new")' = Rows(u, p, "new")
  BY DEF Made, Rows
<1>2. NoGaps' /\ RowsAreMade' /\ OneOpen'
  BY <1>1 DEF PurchasesInv, NoGaps, RowsAreMade, OneOpen
<1>3. Undisturbed'
  BY <1>1 DEF PurchasesInv, Undisturbed, ThreadAt
<1> QED
  BY <1>2, <1>3

\* BTCPay changes the status of an invoice that exists.
LEMMA BtcpayKeeps ==
  ASSUME PurchasesInv, UNCHANGED <<row, thread>>, Made' = Made
  PROVE  NoGaps' /\ RowsAreMade' /\ OneBuyer' /\ Undisturbed' /\ OneOpen'
BY DEF PurchasesInv, NoGaps, RowsAreMade, OneBuyer, Undisturbed, OneOpen, ThreadAt, Rows

LEMMA NextNumber ==
  ASSUME NoGaps
  PROVE  /\ Cardinality(Made) \in Nat
         /\ Made = 1..Cardinality(Made)
<1>1. PICK n \in 0..MaxInvoices : Made = 1..n
  BY DEF NoGaps
<1>2. n \in Nat
  BY <1>1, Bounds
<1>3. Cardinality(1..n) = n
  BY <1>2, FS_Interval, SMT
<1> QED
  BY <1>1, <1>2, <1>3

-----------------------------------------------------------------------------
(***************************************************************************)
(* The steps                                                               *)
(***************************************************************************)

LEMMA InitInv == PurchasesInit => PurchasesInv
<1> SUFFICES ASSUME PurchasesInit PROVE PurchasesInv
  OBVIOUS
<1>1. PurchasesTypeOK
  BY PacksHaveAnIntro
     DEF PurchasesInit, PurchasesTypeOK, NoRow, NoHook, IdleThread, Record, RowStatus,
         Status, Buying
<1>2. NoGaps
  <2>1. Made = {}
    BY DEF PurchasesInit, Made, NoRow
  <2>2. 0 \in 0..MaxInvoices /\ 1..0 = {}
    BY Bounds, SMT
  <2> QED
    BY <2>1, <2>2 DEF NoGaps
<1>3. RowsAreMade
  BY DEF PurchasesInit, RowsAreMade, NoRow
<1>4. OneBuyer /\ Undisturbed
  BY DEF PurchasesInit, OneBuyer, Undisturbed, ThreadAt, IdleThread, Buying
<1>5. OneOpen
  BY DEF PurchasesInit, OneOpen, Rows, NoRow
<1> QED
  BY <1>1, <1>2, <1>3, <1>4, <1>5 DEF PurchasesInv

\* A step of one thread alone.
LEMMA ThreadStep ==
  ASSUME PurchasesInv, NEW t \in Thread, UNCHANGED <<gateway, external>>,
         NEW new \in [pc : {"idle", "polling"} \cup Buying, user : Buyer \cup {Nobody},
                      pack : Pack, todo : SUBSET Invoice,
                      asked : Invoice \cup {NoInvoice}, answer : Status],
         thread' = [thread EXCEPT ![t] = new],
         new.pc \in Buying => thread[t].pc \in Buying \/ PurchaseLockFree,
         new.pc \in {"posting", "inserting"} =>
           /\ new.pc = "posting" /\ new.todo = {}
           /\ Rows(new.user, new.pack, "new") = {}
  PROVE  PurchasesInv'
<1>1. PurchasesTypeOK'
  BY DEF PurchasesInv, PurchasesTypeOK, gateway, external
<1>2. thread \in [Thread -> [pc : {"idle", "polling"} \cup Buying, user : Buyer \cup {Nobody},
                             pack : Pack, todo : SUBSET Invoice,
                             asked : Invoice \cup {NoInvoice}, answer : Status]]
  BY DEF PurchasesInv, PurchasesTypeOK
<1>3. thread'[t] = new /\ \A s \in Thread : s # t => thread'[s] = thread[s]
  BY <1>2
<1>4. OneBuyer'
  BY <1>3 DEF PurchasesInv, OneBuyer, PurchaseLockFree
<1>5. NoGaps' /\ RowsAreMade' /\ Undisturbed' /\ OneOpen'
  BY <1>3, <1>4, ThreadsKeep DEF gateway, external
<1> QED
  BY <1>1, <1>4, <1>5 DEF PurchasesInv

LEMMA IdleType ==
  IdleThread \in [pc : {"idle", "polling"} \cup Buying, user : Buyer \cup {Nobody},
                  pack : Pack, todo : SUBSET Invoice,
                  asked : Invoice \cup {NoInvoice}, answer : Status]
BY PacksHaveAnIntro DEF IdleThread, Status, RowStatus

LEMMA PendingType ==
  ASSUME NEW u PROVE Pending(u) \in SUBSET Invoice
BY DEF Pending, AllPending, Rows

LEMMA BeginKeeps ==
  ASSUME PurchasesInv, NEW t \in Thread, NEW u \in Buyer,
         BeginPoll(t, u) \/ \E p \in Pack : BeginPurchase(t, u, p)
  PROVE  PurchasesInv'
<1>1. CASE BeginPoll(t, u)
  <2> DEFINE new == [IdleThread EXCEPT !.pc = "polling", !.user = u, !.todo = Pending(u)]
  <2>1. new \in [pc : {"idle", "polling"} \cup Buying, user : Buyer \cup {Nobody},
                 pack : Pack, todo : SUBSET Invoice,
                 asked : Invoice \cup {NoInvoice}, answer : Status]
    BY IdleType, PendingType
  <2>2. new.pc = "polling"
    BY DEF IdleThread
  <2>3. thread' = [thread EXCEPT ![t] = new] /\ UNCHANGED <<gateway, external>>
    BY <1>1 DEF BeginPoll
  <2> HIDE DEF new
  <2> QED
    BY <2>1, <2>2, <2>3, ThreadStep DEF Buying
<1>2. ASSUME NEW p \in Pack, BeginPurchase(t, u, p) PROVE PurchasesInv'
  <2> DEFINE new == [IdleThread EXCEPT !.pc = "reconciling", !.user = u, !.pack = p,
                                       !.todo = Pending(u)]
  <2>1. new \in [pc : {"idle", "polling"} \cup Buying, user : Buyer \cup {Nobody},
                 pack : Pack, todo : SUBSET Invoice,
                 asked : Invoice \cup {NoInvoice}, answer : Status]
    BY IdleType, PendingType DEF Buying
  <2>2. new.pc = "reconciling"
    BY DEF IdleThread
  <2>3. /\ thread' = [thread EXCEPT ![t] = new] /\ UNCHANGED <<gateway, external>>
        /\ PurchaseLockFree
    BY <1>2 DEF BeginPurchase
  <2> HIDE DEF new
  <2> QED
    BY <2>1, <2>2, <2>3, ThreadStep
<1> QED
  BY <1>1, <1>2

LEMMA AskKeeps ==
  ASSUME PurchasesInv, NEW t \in Thread, NEW i \in Invoice, Ask(t, i) \/ AskInVain(t, i)
  PROVE  PurchasesInv'
<1>1. thread[t] \in [pc : {"idle", "polling"} \cup Buying, user : Buyer \cup {Nobody},
                     pack : Pack, todo : SUBSET Invoice,
                     asked : Invoice \cup {NoInvoice}, answer : Status]
  BY DEF PurchasesInv, PurchasesTypeOK
<1>2. thread[t].pc \notin {"posting", "inserting"}
  BY DEF Ask, AskInVain, PurchasesInv, Undisturbed, ThreadAt
<1>3. btcpay[i].status \in Status
  BY DEF PurchasesInv, PurchasesTypeOK, Record
<1>4. CASE Ask(t, i)
  <2> DEFINE new == [thread[t] EXCEPT !.todo = @ \ {i}, !.asked = i,
                                      !.answer = btcpay[i].status]
  <2>1. new \in [pc : {"idle", "polling"} \cup Buying, user : Buyer \cup {Nobody},
                 pack : Pack, todo : SUBSET Invoice,
                 asked : Invoice \cup {NoInvoice}, answer : Status]
    BY <1>1, <1>3
  <2>2. new.pc = thread[t].pc
    BY <1>1
  <2>3. thread' = [thread EXCEPT ![t] = new] /\ UNCHANGED <<gateway, external>>
    BY <1>4 DEF Ask, PurchasesInv, PurchasesTypeOK
  <2> HIDE DEF new
  <2> QED
    BY <1>2, <2>1, <2>2, <2>3, ThreadStep
<1>5. CASE AskInVain(t, i)
  <2> DEFINE new == [thread[t] EXCEPT !.todo = @ \ {i}]
  <2>1. new \in [pc : {"idle", "polling"} \cup Buying, user : Buyer \cup {Nobody},
                 pack : Pack, todo : SUBSET Invoice,
                 asked : Invoice \cup {NoInvoice}, answer : Status]
    BY <1>1
  <2>2. new.pc = thread[t].pc
    BY <1>1
  <2>3. thread' = [thread EXCEPT ![t] = new] /\ UNCHANGED <<gateway, external>>
    BY <1>5 DEF AskInVain, PurchasesInv, PurchasesTypeOK
  <2> HIDE DEF new
  <2> QED
    BY <1>2, <2>1, <2>2, <2>3, ThreadStep
<1> QED
  BY <1>4, <1>5

LEMMA EndKeeps ==
  ASSUME PurchasesInv, NEW t \in Thread, EndPoll(t) \/ EndPurchase(t) \/ PostInVain(t)
  PROVE  PurchasesInv'
<1>1. thread' = [thread EXCEPT ![t] = IdleThread] /\ UNCHANGED <<gateway, external>>
  BY DEF EndPoll, EndPurchase, PostInVain
<1>2. IdleThread.pc = "idle"
  BY DEF IdleThread
<1> QED
  BY <1>1, <1>2, IdleType, ThreadStep DEF Buying

LEMMA DecideKeeps ==
  ASSUME PurchasesInv, NEW t \in Thread, DecideToPost(t)
  PROVE  PurchasesInv'
<1> DEFINE new == [thread[t] EXCEPT !.pc = "posting"]
<1>1. thread[t] \in [pc : {"idle", "polling"} \cup Buying, user : Buyer \cup {Nobody},
                     pack : Pack, todo : SUBSET Invoice,
                     asked : Invoice \cup {NoInvoice}, answer : Status]
  BY DEF PurchasesInv, PurchasesTypeOK
<1>2. new \in [pc : {"idle", "polling"} \cup Buying, user : Buyer \cup {Nobody},
               pack : Pack, todo : SUBSET Invoice,
               asked : Invoice \cup {NoInvoice}, answer : Status]
  BY <1>1 DEF Buying
<1>3. /\ new.pc = "posting" /\ new.todo = {} /\ thread[t].pc \in Buying
      /\ Rows(new.user, new.pack, "new") = {}
  BY <1>1 DEF DecideToPost, Reconciled, ThreadAt, Buying
<1>4. thread' = [thread EXCEPT ![t] = new] /\ UNCHANGED <<gateway, external>>
  BY DEF DecideToPost, PurchasesInv, PurchasesTypeOK
<1> HIDE DEF new
<1> QED
  BY <1>2, <1>3, <1>4, ThreadStep

LEMMA RestartKeeps ==
  ASSUME PurchasesInv, GatewayRestart
  PROVE  PurchasesInv'
<1>1. /\ thread' = [t \in Thread |-> IdleThread]
      /\ UNCHANGED <<row, paid, ledger, received, btcpay, hook>>
  BY DEF GatewayRestart, gateway, external
<1>2. \A t \in Thread : thread'[t].pc = "idle"
  BY <1>1 DEF IdleThread
<1>3. PurchasesTypeOK'
  BY <1>1, IdleType DEF PurchasesInv, PurchasesTypeOK
<1>4. OneBuyer'
  BY <1>2 DEF OneBuyer, Buying
<1>5. NoGaps' /\ RowsAreMade' /\ Undisturbed' /\ OneOpen'
  BY <1>1, <1>2, <1>4, ThreadsKeep
<1> QED
  BY <1>3, <1>4, <1>5 DEF PurchasesInv

LEMMA ApplyKeeps ==
  ASSUME PurchasesInv, NEW t \in Thread, Apply(t)
  PROVE  PurchasesInv' /\ Closes
<1> DEFINE i == thread[t].asked
<1>1. /\ i \in Invoice /\ thread[t].pc \in {"polling", "reconciling"}
      /\ UNCHANGED <<received, btcpay, hook>>
  BY DEF Apply, external, PurchasesInv, PurchasesTypeOK
<1>2. thread \in [Thread -> [pc : {"idle", "polling"} \cup Buying, user : Buyer \cup {Nobody},
                             pack : Pack, todo : SUBSET Invoice,
                             asked : Invoice \cup {NoInvoice}, answer : Status]]
  BY DEF PurchasesInv, PurchasesTypeOK
<1>3. thread' = [thread EXCEPT ![t].asked = NoInvoice, ![t].answer = "none"]
  BY DEF Apply, Answered
<1>4. Closes /\ paid' \in [Buyer -> Nat] /\ ledger' \in SUBSET Invoice
  <2>1. CASE SettleRow(i)
    BY <1>1, <2>1, SettleCloses DEF PurchasesInv
  <2>2. CASE /\ row[i].status = "new" /\ row' = [row EXCEPT ![i].status = "expired"]
             /\ UNCHANGED <<paid, ledger>>
    BY <1>1, <2>2 DEF Closes, PurchasesInv, PurchasesTypeOK, Record, RowStatus
  <2>3. CASE UNCHANGED <<row, paid, ledger>>
    BY <2>3 DEF Closes, PurchasesInv, PurchasesTypeOK
  <2> QED
    BY <2>1, <2>2, <2>3 DEF Apply
<1>5. \A s \in Thread :
        \/ thread'[s] = thread[s]
        \/ thread'[s].pc = thread[s].pc /\ thread[s].pc \in {"polling", "reconciling"}
  BY <1>1, <1>2, <1>3
<1>6. thread' \in [Thread -> [pc : {"idle", "polling"} \cup Buying, user : Buyer \cup {Nobody},
                              pack : Pack, todo : SUBSET Invoice,
                              asked : Invoice \cup {NoInvoice}, answer : Status]]
  <2> DEFINE Types == [pc : {"idle", "polling"} \cup Buying, user : Buyer \cup {Nobody},
                       pack : Pack, todo : SUBSET Invoice,
                       asked : Invoice \cup {NoInvoice}, answer : Status]
             x == [thread[t] EXCEPT !.asked = NoInvoice, !.answer = "none"]
  <2>1. "none" \in Status
    BY DEF Status, RowStatus
  <2>2. x \in Types
    BY <1>2, <2>1
  <2>3. thread' = [thread EXCEPT ![t] = x]
    BY <1>3
  <2>4. thread \in [Thread -> Types]
    BY <1>2
  <2> HIDE DEF Types, x
  <2>5. thread' \in [Thread -> Types]
    BY <2>2, <2>3, <2>4
  <2> QED
    BY <2>5 DEF Types
<1>7. PurchasesTypeOK'
  BY <1>1, <1>4, <1>6 DEF PurchasesInv, PurchasesTypeOK, Closes
<1>8. NoGaps' /\ RowsAreMade' /\ OneBuyer' /\ Undisturbed' /\ OneOpen'
  BY <1>1, <1>4, <1>5, ClosesKeeps
<1> QED
  BY <1>4, <1>7, <1>8 DEF PurchasesInv

LEMMA WebhookKeeps ==
  ASSUME PurchasesInv, NEW d \in Delivery, ReceiveWebhook(d)
  PROVE  PurchasesInv' /\ Closes
<1> DEFINE i == hook[d].invoice
<1>1. /\ i \in Invoice /\ UNCHANGED <<btcpay, hook, thread>>
      /\ received' = received \cup {d}
  BY DEF ReceiveWebhook, external, PurchasesInv, PurchasesTypeOK
<1>2. Closes /\ paid' \in [Buyer -> Nat] /\ ledger' \in SUBSET Invoice
  <2>1. CASE SettleRow(i)
    BY <1>1, <2>1, SettleCloses DEF PurchasesInv
  <2>2. CASE UNCHANGED <<row, paid, ledger>>
    BY <2>2 DEF Closes, PurchasesInv, PurchasesTypeOK
  <2> QED
    BY <2>1, <2>2 DEF ReceiveWebhook
<1>3. PurchasesTypeOK'
  BY <1>1, <1>2 DEF PurchasesInv, PurchasesTypeOK, Closes
<1>4. NoGaps' /\ RowsAreMade' /\ OneBuyer' /\ Undisturbed' /\ OneOpen'
  BY <1>1, <1>2, ClosesKeeps
<1> QED
  BY <1>2, <1>3, <1>4 DEF PurchasesInv

LEMMA PostKeeps ==
  ASSUME PurchasesInv, NEW t \in Thread, NEW answered \in BOOLEAN, PostInvoice(t, answered)
  PROVE  PurchasesInv'
<1> DEFINE i == Cardinality(Made) + 1
           bill == [status |-> "new", user |-> thread[t].user, pack |-> thread[t].pack]
           new == IF answered THEN [thread[t] EXCEPT !.pc = "inserting", !.asked = i]
                  ELSE IdleThread
<1>1. /\ ThreadAt(t, "posting") /\ i \in Invoice
      /\ btcpay' = [btcpay EXCEPT ![i] = bill]
      /\ thread' = [thread EXCEPT ![t] = new]
      /\ UNCHANGED <<row, paid, ledger, received, hook>>
  BY DEF PostInvoice, Made, gateway
<1>2. /\ thread \in [Thread -> [pc : {"idle", "polling"} \cup Buying, user : Buyer \cup {Nobody},
                                pack : Pack, todo : SUBSET Invoice,
                                asked : Invoice \cup {NoInvoice}, answer : Status]]
      /\ btcpay \in [Invoice -> Record(Status)]
  BY DEF PurchasesInv, PurchasesTypeOK
<1>3. /\ Cardinality(Made) \in Nat /\ Made = 1..Cardinality(Made)
  BY NextNumber DEF PurchasesInv
<1>4. i \notin Made /\ Made \cup {i} = 1..i
  BY <1>3, SMT
<1>5. bill \in Record(Status) /\ bill.status = "new"
  BY <1>2 DEF Record, Status, RowStatus
<1>6. new \in [pc : {"idle", "polling"} \cup Buying, user : Buyer \cup {Nobody},
               pack : Pack, todo : SUBSET Invoice,
               asked : Invoice \cup {NoInvoice}, answer : Status]
  BY <1>1, <1>2, IdleType DEF Buying
<1>7. /\ new.pc = "inserting" \/ new.pc = "idle"
      /\ new.pc = "inserting" =>
           /\ new.asked = i /\ new.todo = thread[t].todo
           /\ new.user = thread[t].user /\ new.pack = thread[t].pack
  BY <1>2 DEF IdleThread
<1> HIDE DEF i, bill, new
<1>8. thread'[t] = new /\ \A s \in Thread : s # t => thread'[s] = thread[s]
  BY <1>1, <1>2
<1>9. Made' = Made \cup {i}
  BY <1>1, <1>2, <1>5 DEF Made
<1>10. PurchasesTypeOK'
  BY <1>1, <1>2, <1>5, <1>6 DEF PurchasesInv, PurchasesTypeOK
<1>11. NoGaps'
  <2>1. i \in 0..MaxInvoices
    BY <1>1, Bounds DEF Invoice
  <2> QED
    BY <1>4, <1>9, <2>1 DEF NoGaps
<1>12. RowsAreMade'
  BY <1>1, <1>9 DEF PurchasesInv, RowsAreMade
<1>13. OneBuyer'
  BY <1>1, <1>7, <1>8 DEF PurchasesInv, OneBuyer, ThreadAt, Buying
<1>14. row[i].status = "none"
  BY <1>1, <1>4 DEF PurchasesInv, RowsAreMade
<1>15. \A u, p : Rows(u, p, "new")' = Rows(u, p, "new")
  BY <1>1 DEF Rows
<1>16. Undisturbed'
  <2>1. thread[t].todo = {} /\ Rows(thread[t].user, thread[t].pack, "new") = {}
    BY <1>1 DEF PurchasesInv, Undisturbed
  <2> SUFFICES ASSUME NEW s \in Thread
               PROVE  /\ thread'[s].pc \in {"posting", "inserting"} =>
                           /\ thread'[s].todo = {}
                           /\ Rows(thread'[s].user, thread'[s].pack, "new") = {}
                      /\ thread'[s].pc = "inserting" =>
                           /\ thread'[s].asked \in Made'
                           /\ row[thread'[s].asked].status = "none"
    BY <1>1, <1>15 DEF Undisturbed, ThreadAt
  <2>2. CASE s = t
    BY <2>1, <2>2, <1>7, <1>8, <1>9, <1>14
  <2>3. CASE s # t
    BY <2>3, <1>8, <1>9 DEF PurchasesInv, Undisturbed, ThreadAt
  <2> QED
    BY <2>2, <2>3
<1>17. OneOpen'
  BY <1>15 DEF PurchasesInv, OneOpen
<1> QED
  BY <1>10, <1>11, <1>12, <1>13, <1>16, <1>17 DEF PurchasesInv

\* The row is inserted under a number that had none.
LEMMA InsertKeeps ==
  ASSUME PurchasesInv, NEW t \in Thread, InsertRow(t)
  PROVE  /\ PurchasesInv'
         /\ \A i \in Invoice : row[i].status = "settled" => row'[i] = row[i]
<1> DEFINE n == thread[t].asked
           u == thread[t].user
           p == thread[t].pack
           open == [status |-> "new", user |-> u, pack |-> p]
<1>1. /\ ThreadAt(t, "inserting")
      /\ row' = [row EXCEPT ![n] = open]
      /\ thread' = [thread EXCEPT ![t] = IdleThread]
      /\ UNCHANGED <<paid, ledger, received, btcpay, hook>>
  BY DEF InsertRow, external
<1>2. /\ thread \in [Thread -> [pc : {"idle", "polling"} \cup Buying, user : Buyer \cup {Nobody},
                                pack : Pack, todo : SUBSET Invoice,
                                asked : Invoice \cup {NoInvoice}, answer : Status]]
      /\ row \in [Invoice -> Record(RowStatus)]
  BY DEF PurchasesInv, PurchasesTypeOK
<1>3. n \in Made /\ row[n].status = "none" /\ Rows(u, p, "new") = {}
  BY <1>1 DEF PurchasesInv, Undisturbed
<1>4. n \in Invoice /\ open \in Record(RowStatus)
  BY <1>2, <1>3 DEF Made, Record, RowStatus
<1> HIDE DEF n, u, p
<1>5. /\ thread'[t].pc = "idle"
      /\ \A s \in Thread : s # t => thread'[s] = thread[s]
  BY <1>1, <1>2 DEF IdleThread
<1>6. /\ row'[n] = open
      /\ \A i \in Invoice : i # n => row'[i] = row[i]
  BY <1>1, <1>2, <1>4
<1>7. PurchasesTypeOK'
  BY <1>1, <1>2, <1>4, IdleType DEF PurchasesInv, PurchasesTypeOK
<1>8. NoGaps' /\ RowsAreMade'
  BY <1>1, <1>3, <1>6 DEF PurchasesInv, NoGaps, RowsAreMade, Made
<1>9. OneBuyer'
  BY <1>5 DEF PurchasesInv, OneBuyer, Buying
<1>10. \A s \in Thread : thread'[s].pc \notin {"posting", "inserting"}
  <2> SUFFICES ASSUME NEW s \in Thread, s # t
               PROVE  thread[s].pc \notin Buying
    BY <1>5 DEF Buying
  <2>1. thread[t].pc \in Buying
    BY <1>1 DEF ThreadAt, Buying
  <2> QED
    BY <2>1 DEF PurchasesInv, OneBuyer
<1>11. Undisturbed'
  BY <1>10 DEF Undisturbed, ThreadAt
<1>12. OneOpen'
  <2> SUFFICES ASSUME NEW v \in Buyer, NEW q \in Pack,
                      NEW i \in Rows(v, q, "new")', NEW j \in Rows(v, q, "new")'
               PROVE  i = j
    BY DEF OneOpen
  <2>1. /\ i \in Invoice /\ row'[i] = [status |-> "new", user |-> v, pack |-> q]
        /\ j \in Invoice /\ row'[j] = [status |-> "new", user |-> v, pack |-> q]
    BY DEF Rows
  <2>2. CASE v = u /\ q = p
    BY <2>1, <2>2, <1>3, <1>6 DEF Rows
  <2>3. CASE v # u \/ q # p
    <3>1. i # n /\ j # n
      BY <2>1, <2>3, <1>6
    <3> QED
      BY <2>1, <3>1, <1>6 DEF PurchasesInv, OneOpen, Rows
  <2> QED
    BY <2>2, <2>3
<1>13. \A i \in Invoice : row[i].status = "settled" => row'[i] = row[i]
  BY <1>3, <1>6
<1> QED
  BY <1>7, <1>8, <1>9, <1>11, <1>12, <1>13 DEF PurchasesInv

LEMMA BtcpayStepKeeps ==
  ASSUME PurchasesInv, Btcpay
  PROVE  PurchasesInv' /\ UNCHANGED row
<1>1. ASSUME NEW i \in Invoice, NEW from, NEW to, Move(i, from, to), from # "none",
             to \in Status \ {"none"}, UNCHANGED <<gateway, hook, thread>>
      PROVE  PurchasesInv' /\ UNCHANGED row
  <2>1. btcpay \in [Invoice -> Record(Status)]
    BY DEF PurchasesInv, PurchasesTypeOK
  <2>2. /\ btcpay[i].status = from /\ btcpay' = [btcpay EXCEPT ![i].status = to]
        /\ UNCHANGED <<row, paid, ledger, received, hook, thread>>
    BY <1>1 DEF Move, gateway
  <2>3. btcpay' \in [Invoice -> Record(Status)]
    BY <1>1, <2>1, <2>2 DEF Record
  <2>4. \A j \in Invoice : btcpay'[j].status = IF j = i THEN to ELSE btcpay[j].status
    BY <2>1, <2>2 DEF Record
  <2>5. Made' = Made
    BY <1>1, <2>2, <2>4 DEF Made
  <2>6. PurchasesTypeOK'
    BY <2>2, <2>3 DEF PurchasesInv, PurchasesTypeOK
  <2> QED
    BY <2>2, <2>5, <2>6, BtcpayKeeps DEF PurchasesInv
<1>2. {"new", "processing", "settled", "expired"} \subseteq Status \ {"none"}
  BY DEF Status, RowStatus
<1>3. ASSUME NEW i \in Invoice, Pay(i) \/ Confirm(i) \/ PaymentFails(i) \/ Expire(i) \/ PayLate(i)
      PROVE  PurchasesInv' /\ UNCHANGED row
  BY <1>1, <1>2, <1>3 DEF Pay, Confirm, PaymentFails, Expire, PayLate
<1>4. ASSUME NEW d \in Delivery, NEW i \in Invoice, Announce(d, i)
      PROVE  PurchasesInv' /\ UNCHANGED row
  <2>1. UNCHANGED <<row, paid, ledger, received, btcpay, thread>>
    BY <1>4 DEF Announce, gateway
  <2>2. PurchasesTypeOK'
    BY <1>4, <2>1 DEF Announce, PurchasesInv, PurchasesTypeOK
  <2>3. Made' = Made
    BY <2>1 DEF Made
  <2> QED
    BY <2>1, <2>2, <2>3, BtcpayKeeps DEF PurchasesInv
<1> QED
  BY <1>3, <1>4 DEF Btcpay

LEMMA NextInv == PurchasesInv /\ [PurchasesNext]_purchaseVars => PurchasesInv'
<1> SUFFICES ASSUME PurchasesInv, [PurchasesNext]_purchaseVars PROVE PurchasesInv'
  OBVIOUS
<1>1. ASSUME NEW t \in Thread, Reconcile(t) PROVE PurchasesInv'
  BY <1>1, AskKeeps, ApplyKeeps DEF Reconcile
<1>2. ASSUME NEW t \in Thread, Purchase(t) PROVE PurchasesInv'
  BY <1>2, BeginKeeps, EndKeeps, DecideKeeps, InsertKeeps, PostKeeps DEF Purchase
<1>3. ASSUME UNCHANGED purchaseVars PROVE PurchasesInv'
  <2>1. PurchasesTypeOK'
    BY <1>3 DEF purchaseVars, PurchasesInv, PurchasesTypeOK
  <2>2. Made' = Made
    BY <1>3 DEF purchaseVars, Made
  <2> QED
    BY <1>3, <2>1, <2>2, BtcpayKeeps DEF purchaseVars, PurchasesInv
<1> QED
  BY <1>1, <1>2, <1>3, BeginKeeps, EndKeeps, WebhookKeeps, BtcpayStepKeeps, RestartKeeps
     DEF PurchasesNext

LEMMA PurchasesInductive == PurchasesSpec => []PurchasesInv
BY InitInv, NextInv, PTL DEF PurchasesSpec

-----------------------------------------------------------------------------
\* Every variable keeps its type.
THEOREM PurchasesTypeCorrect == PurchasesSpec => []PurchasesTypeOK
<1>1. PurchasesInv => PurchasesTypeOK
  BY DEF PurchasesInv
<1> QED
  BY PurchasesInductive, <1>1, PTL

\* A user has at most one open invoice of a pack, whatever purchases, polls,
\* webhooks, lost answers and restarts of the gateway interleave.
THEOREM OneOpenInvoiceEach == PurchasesSpec => []OneOpenInvoice
<1>1. ASSUME PurchasesInv, NEW u \in Buyer, NEW p \in Pack
      PROVE  Cardinality(Rows(u, p, "new")) <= 1
  <2>1. CASE Rows(u, p, "new") = {}
    BY <2>1, FS_EmptySet
  <2>2. CASE Rows(u, p, "new") # {}
    <3>1. PICK i : i \in Rows(u, p, "new")
      BY <2>2
    <3>2. Rows(u, p, "new") = {i}
      BY <1>1, <3>1 DEF PurchasesInv, OneOpen
    <3>3. Cardinality({i}) = 1
      BY FS_Singleton
    <3> QED
      BY <3>2, <3>3
  <2> QED
    BY <2>1, <2>2
<1>2. PurchasesInv => OneOpenInvoice
  BY <1>1 DEF OneOpenInvoice
<1> QED
  BY PurchasesInductive, <1>2, PTL

\* A settlement is final: no stale answer, late expiry or new row undoes it.
THEOREM SettlementIsFinal == PurchasesSpec => SettledIsFinal
<1>1. ASSUME PurchasesInv, [PurchasesNext]_purchaseVars, NEW i \in Invoice, row[i].status = "settled"
      PROVE  row'[i].status = "settled"
  <2>1. ASSUME Closes PROVE row'[i].status = "settled"
    BY <1>1, <2>1 DEF Closes
  <2>2. ASSUME UNCHANGED row PROVE row'[i].status = "settled"
    BY <1>1, <2>2
  <2>3. ASSUME NEW t \in Thread, Reconcile(t) PROVE row'[i].status = "settled"
    BY <1>1, <2>1, <2>2, <2>3, ApplyKeeps DEF Reconcile, Ask, AskInVain, gateway
  <2>4. ASSUME NEW t \in Thread, Purchase(t) PROVE row'[i].status = "settled"
    <3>1. CASE InsertRow(t)
      BY <1>1, <3>1, InsertKeeps
    <3>2. CASE ~InsertRow(t)
      BY <2>2, <2>4, <3>2
         DEF Purchase, BeginPurchase, EndPurchase, DecideToPost, PostInVain, PostInvoice, gateway
    <3> QED
      BY <3>1, <3>2
  <2>5. ASSUME NEW d \in Delivery, ReceiveWebhook(d) PROVE row'[i].status = "settled"
    BY <1>1, <2>1, <2>5, WebhookKeeps
  <2>6. ASSUME Btcpay PROVE row'[i].status = "settled"
    BY <1>1, <2>2, <2>6, BtcpayStepKeeps
  <2> QED
    BY <1>1, <2>2, <2>3, <2>4, <2>5, <2>6
       DEF PurchasesNext, purchaseVars, BeginPoll, EndPoll, GatewayRestart, gateway
<1>2. PurchasesInv /\ [PurchasesNext]_purchaseVars =>
        [\A i \in Invoice : row[i].status = "settled" => row'[i].status = "settled"]_purchaseVars
  BY <1>1
<1> QED
  BY PurchasesInductive, <1>2, PTL DEF PurchasesSpec, SettledIsFinal

-----------------------------------------------------------------------------
(***************************************************************************)
(* What the settled invoices of a user come to                             *)
(***************************************************************************)

Price(r, i) == Credits[r[i].pack]

\* What the sum does, for the rows r and the sets of invoices D.
IsTotal(r, g, D) ==
    g = [T \in D |-> IF T = {} THEN 0
                     ELSE Price(r, CHOOSE x \in T : TRUE) + g[T \ {CHOOSE x \in T : TRUE}]]

TotalOf(r, S) == CHOOSE g : IsTotal(r, g, SUBSET S)

LEMMA CreditsAre == ASSUME NEW S PROVE CreditsOf(S) = TotalOf(row, S)[S]
BY Zenon DEF CreditsOf, MapThenSumSet, MapThenFoldSet, TotalOf, IsTotal, Price

\* What a user has settled.
Settled(r, u) == {i \in Invoice : r[i].status = "settled" /\ r[i].user = u}

LEMMA PaidIs ==
    PaidOnce <=> \A u \in Buyer : paid[u] = TotalOf(row, Settled(row, u))[Settled(row, u)]
BY CreditsAre DEF PaidOnce, Settled

LEMMA PaidIsNext ==
    PaidOnce' <=> \A u \in Buyer : paid'[u] = TotalOf(row', Settled(row', u))[Settled(row', u)]
BY Zenon DEF PaidOnce, CreditsOf, MapThenSumSet, MapThenFoldSet, TotalOf, IsTotal, Price, Settled

LEMMA LessThan == OpToRel(<, Nat) = {ss \in Nat \X Nat : ss[1] < ss[2]}
  BY Zenon DEF OpToRel

\* What holds of 0 and of the successor of each natural it holds of, holds of all.
LEMMA AllNaturals ==
    ASSUME NEW Good \in SUBSET Nat, 0 \in Good, \A n \in Good : n + 1 \in Good
    PROVE  Good = Nat
<1> DEFINE R == {ss \in Nat \X Nat : ss[1] < ss[2]}
           Bad == Nat \ Good
<1> SUFFICES ASSUME Bad # {} PROVE FALSE
  OBVIOUS
<1>1. IsWellFoundedOn(R, Nat)
  BY NatLessThanWellFounded, LessThan
<1>2. PICK x \in Bad : \A y \in Bad : ~(<<y, x>> \in R)
  <2>1. Bad \subseteq Nat
    OBVIOUS
  <2> HIDE DEF R, Bad
  <2> QED
    BY <1>1, <2>1, WFMin
<1>3. x \in Nat /\ x # 0
  OBVIOUS
<1>4. x - 1 \in Nat /\ x - 1 < x /\ (x - 1) + 1 = x
  BY <1>3
<1>5. <<x - 1, x>> \in R
  BY <1>3, <1>4
<1>6. x - 1 \in Good
  BY <1>2, <1>4, <1>5
<1> QED
  BY <1>4, <1>6

Small(S, n) == {T \in SUBSET S : Cardinality(T) <= n}

LEMMA OneLess ==
    ASSUME NEW S, IsFiniteSet(S), NEW T \in SUBSET S, NEW x \in T
    PROVE  /\ T \ {x} \in SUBSET S /\ Cardinality(T) \in Nat \ {0}
           /\ Cardinality(T \ {x}) = Cardinality(T) - 1
<1>1. IsFiniteSet(T)
  BY FS_Subset
<1>2. Cardinality(T \ {x}) = Cardinality(T) - 1
  BY <1>1, FS_RemoveElement
<1>3. Cardinality(T) \in Nat /\ Cardinality(T) # 0
  BY <1>1, FS_CardinalityType, FS_EmptySet
<1> QED
  BY <1>2, <1>3

LEMMA SmallSets ==
    ASSUME NEW S, IsFiniteSet(S)
    PROVE  /\ Small(S, 0) = {{}}
           /\ Small(S, Cardinality(S)) = SUBSET S
           /\ \A n \in Nat : Small(S, n) \subseteq Small(S, n + 1)
           /\ \A n \in Nat : \A T \in Small(S, n + 1) : \A x \in T : T \ {x} \in Small(S, n)
<1>1. ASSUME NEW T \in SUBSET S PROVE IsFiniteSet(T) /\ Cardinality(T) \in Nat
  BY FS_Subset, FS_CardinalityType
<1>2. Small(S, 0) = {{}}
  <2>1. ASSUME NEW T \in Small(S, 0) PROVE T = {}
    <3>1. IsFiniteSet(T) /\ Cardinality(T) = 0
      BY <1>1 DEF Small
    <3> QED
      BY <3>1, FS_EmptySet
  <2>2. {} \in Small(S, 0)
    BY FS_EmptySet DEF Small
  <2> QED
    BY <2>1, <2>2
<1>3. Small(S, Cardinality(S)) = SUBSET S
  BY FS_Subset DEF Small
<1>4. ASSUME NEW n \in Nat PROVE Small(S, n) \subseteq Small(S, n + 1)
  <2> SUFFICES ASSUME NEW T \in SUBSET S, Cardinality(T) <= n PROVE Cardinality(T) <= n + 1
    BY DEF Small
  <2>1. Cardinality(T) \in Nat
    BY <1>1
  <2> QED
    BY <2>1
<1>5. ASSUME NEW n \in Nat, NEW T \in Small(S, n + 1), NEW x \in T PROVE T \ {x} \in Small(S, n)
  <2>1. T \in SUBSET S /\ Cardinality(T) <= n + 1
    BY DEF Small
  <2>2. /\ T \ {x} \in SUBSET S /\ Cardinality(T) \in Nat
        /\ Cardinality(T \ {x}) = Cardinality(T) - 1
    BY <2>1, OneLess
  <2>3. Cardinality(T \ {x}) <= n
    BY <2>1, <2>2
  <2> QED
    BY <2>2, <2>3 DEF Small
<1> QED
  BY <1>2, <1>3, <1>4, <1>5

\* What holds of the empty set, and of a set if it does of the set without any
\* one of its members, holds of every finite set.
LEMMA FiniteSetsAll ==
    ASSUME NEW S, IsFiniteSet(S), NEW Good \in SUBSET SUBSET S, {} \in Good,
           \A T \in SUBSET S : T # {} /\ (\A x \in T : T \ {x} \in Good) => T \in Good
    PROVE  Good = SUBSET S
<1> DEFINE Levels == {n \in Nat : Small(S, n) \subseteq Good}
<1>1. 0 \in Levels
  BY SmallSets
<1>2. ASSUME NEW n \in Levels PROVE n + 1 \in Levels
  <2> SUFFICES ASSUME NEW T \in Small(S, n + 1), T # {} PROVE T \in Good
    OBVIOUS
  <2>1. T \in SUBSET S
    BY DEF Small
  <2>2. \A x \in T : T \ {x} \in Small(S, n)
    BY SmallSets
  <2> QED
    BY <2>1, <2>2
<1>3. Levels = Nat
  <2>1. Levels \in SUBSET Nat
    OBVIOUS
  <2> HIDE DEF Levels
  <2> QED
    BY <1>1, <1>2, <2>1, AllNaturals
<1>4. Cardinality(S) \in Levels
  BY <1>3, FS_CardinalityType
<1> QED
  BY <1>4, SmallSets

LEMMA TotalUpTo ==
    ASSUME NEW r, NEW S, IsFiniteSet(S), NEW n \in Nat
    PROVE  \E g : IsTotal(r, g, Small(S, n))
<1> DEFINE Levels == {m \in Nat : \E g : IsTotal(r, g, Small(S, m))}
<1>1. 0 \in Levels
  <2> DEFINE g == [T \in Small(S, 0) |-> 0]
  <2>1. \A T \in Small(S, 0) : T = {}
    BY SmallSets
  <2>2. IsTotal(r, g, Small(S, 0))
    BY <2>1 DEF IsTotal
  <2> QED
    BY <2>2
<1>2. ASSUME NEW m \in Levels PROVE m + 1 \in Levels
  <2> DEFINE D == Small(S, m + 1)
             E == Small(S, m)
             Rest(T) == T \ {CHOOSE x \in T : TRUE}
             P(T) == Price(r, CHOOSE x \in T : TRUE)
  <2>1. PICK g : IsTotal(r, g, E)
    OBVIOUS
  <2> DEFINE h == [T \in D |-> IF T = {} THEN 0 ELSE P(T) + g[Rest(T)]]
             k == [T \in D |-> IF T = {} THEN 0 ELSE P(T) + h[Rest(T)]]
  <2>2. m \in Nat /\ m + 1 \in Nat
    OBVIOUS
  <2>3. \A T \in E : g[T] = IF T = {} THEN 0 ELSE P(T) + g[Rest(T)]
    BY <2>1, Zenon DEF IsTotal
  <2>4. E \subseteq D /\ \A T \in D : T # {} => Rest(T) \in E
    BY <2>2, SmallSets
  <2> HIDE DEF D, E, P, Rest
  <2>5. \A T \in E : h[T] = g[T]
    BY <2>3, <2>4
  <2>6. \A T \in D : h[T] = k[T]
    BY <2>4, <2>5
  <2>7. h = [T \in D |-> h[T]] /\ k = [T \in D |-> k[T]]
    OBVIOUS
  <2>8. h = k
    <3> HIDE DEF h, k
    <3> QED
      BY <2>6, <2>7
  <2>9. h = [T \in D |-> IF T = {} THEN 0 ELSE P(T) + h[Rest(T)]]
    BY <2>8 DEF k
  <2> HIDE DEF h
  <2>10. IsTotal(r, h, D)
    BY <2>9, Zenon DEF IsTotal, P, Rest
  <2> QED
    BY <2>2, <2>10 DEF D
<1>3. Levels = Nat
  <2>1. Levels \in SUBSET Nat
    OBVIOUS
  <2> HIDE DEF Levels
  <2> QED
    BY <1>1, <1>2, <2>1, AllNaturals
<1> QED
  BY <1>3

\* The invoice added last, and the sums as equations.
Last(T) == CHOOSE x \in T : TRUE

Sums(r, g, D) ==
    \A T \in D : g[T] = IF T = {} THEN 0 ELSE Price(r, Last(T)) + g[T \ {Last(T)}]

LEMMA TotalExists ==
    ASSUME NEW r, NEW S, IsFiniteSet(S)
    PROVE  Sums(r, TotalOf(r, S), SUBSET S)
<1>1. Cardinality(S) \in Nat
  BY FS_CardinalityType
<1>2. Small(S, Cardinality(S)) = SUBSET S
  BY SmallSets
<1>3. \E g : IsTotal(r, g, SUBSET S)
  <2>1. \E g : IsTotal(r, g, Small(S, Cardinality(S)))
    BY <1>1, TotalUpTo
  <2> QED
    BY <1>2, <2>1
<1>4. IsTotal(r, TotalOf(r, S), SUBSET S)
  BY <1>3, Zenon DEF TotalOf
<1> QED
  BY <1>4, Zenon DEF IsTotal, Sums, Last

LEMMA TotalsAreCredits ==
    ASSUME NEW r, NEW S, IsFiniteSet(S), \A i \in S : Price(r, i) \in Nat
    PROVE  \A T \in SUBSET S : TotalOf(r, S)[T] \in Nat
<1> DEFINE g == TotalOf(r, S)
           Good == {T \in SUBSET S : g[T] \in Nat}
<1>1. Sums(r, g, SUBSET S)
  BY TotalExists
<1> HIDE DEF g
<1>2. {} \in Good
  BY <1>1 DEF Sums
<1>3. ASSUME NEW T \in SUBSET S, T # {}, \A x \in T : T \ {x} \in Good
      PROVE  T \in Good
  <2> DEFINE c == Last(T)
  <2>1. c \in T /\ c \in S
    BY <1>3 DEF Last
  <2>2. g[T] = Price(r, c) + g[T \ {c}]
    BY <1>1, <1>3 DEF Sums
  <2> HIDE DEF c
  <2>3. Price(r, c) \in Nat /\ g[T \ {c}] \in Nat
    BY <1>3, <2>1
  <2> QED
    BY <2>2, <2>3
<1>4. Good = SUBSET S
  <2>1. Good \in SUBSET SUBSET S
    OBVIOUS
  <2> HIDE DEF Good
  <2> QED
    BY <1>2, <1>3, <2>1, FiniteSetsAll
<1> QED
  BY <1>4 DEF g

\* The order in which the invoices are added up does not matter.
LEMMA AnyOrder ==
    ASSUME NEW r, NEW S, IsFiniteSet(S), \A i \in S : Price(r, i) \in Nat
    PROVE  \A T \in SUBSET S : \A x \in T :
             TotalOf(r, S)[T] = Price(r, x) + TotalOf(r, S)[T \ {x}]
<1> DEFINE g == TotalOf(r, S)
           Good == {T \in SUBSET S : \A x \in T : g[T] = Price(r, x) + g[T \ {x}]}
<1>0. \A T \in SUBSET S : g[T] \in Nat
  BY TotalsAreCredits
<1>1. Sums(r, g, SUBSET S)
  BY TotalExists
<1> HIDE DEF g
<1>2. {} \in Good
  OBVIOUS
<1>3. ASSUME NEW T \in SUBSET S, T # {}, \A x \in T : T \ {x} \in Good
      PROVE  T \in Good
  <2> DEFINE c == Last(T)
  <2>1. c \in T /\ c \in S
    BY <1>3 DEF Last
  <2>2. g[T] = Price(r, c) + g[T \ {c}]
    BY <1>1, <1>3 DEF Sums
  <2> HIDE DEF c
  <2>3. ASSUME NEW x \in T, x # c PROVE g[T] = Price(r, x) + g[T \ {x}]
    <3> DEFINE R == (T \ {c}) \ {x}
    <3>1. R = (T \ {x}) \ {c} /\ R \in SUBSET S /\ x \in T \ {c} /\ c \in T \ {x}
      BY <2>1, <2>3
    <3>2. T \ {c} \in Good /\ T \ {x} \in Good
      BY <1>3, <2>1
    <3>3. g[T \ {c}] = Price(r, x) + g[R]
      BY <3>1, <3>2
    <3>4. g[T \ {x}] = Price(r, c) + g[(T \ {x}) \ {c}]
      BY <3>1, <3>2
    <3>5. Price(r, x) \in Nat /\ Price(r, c) \in Nat /\ g[R] \in Nat
      BY <1>0, <2>1, <3>1
    <3>6. g[T \ {x}] = Price(r, c) + g[R]
      BY <3>1, <3>4
    <3> HIDE DEF R
    <3>7. g[T] = Price(r, c) + (Price(r, x) + g[R])
      BY <2>2, <3>3
    <3> QED
      BY <3>5, <3>6, <3>7
  <2> QED
    BY <2>2, <2>3
<1>4. Good = SUBSET S
  <2>1. Good \in SUBSET SUBSET S
    OBVIOUS
  <2> HIDE DEF Good
  <2> QED
    BY <1>2, <1>3, <2>1, FiniteSetsAll
<1> QED
  BY <1>4 DEF g

\* A total depends on the prices alone, and on the invoices added up.
LEMMA SameTotal ==
    ASSUME NEW r, NEW S, IsFiniteSet(S), NEW q, NEW U, IsFiniteSet(U), S \subseteq U,
           \A i \in S : Price(q, i) = Price(r, i)
    PROVE  TotalOf(q, U)[S] = TotalOf(r, S)[S]
<1> DEFINE g == TotalOf(r, S)
           h == TotalOf(q, U)
           Good == {T \in SUBSET S : h[T] = g[T]}
<1>1. Sums(r, g, SUBSET S)
  BY TotalExists
<1>2. Sums(q, h, SUBSET U)
  BY TotalExists
<1> HIDE DEF g, h
<1>3. {} \in Good
  BY <1>1, <1>2 DEF Sums
<1>4. ASSUME NEW T \in SUBSET S, T # {}, \A x \in T : T \ {x} \in Good
      PROVE  T \in Good
  <2> DEFINE c == Last(T)
  <2>1. c \in T /\ c \in S
    BY <1>4 DEF Last
  <2>2. g[T] = Price(r, c) + g[T \ {c}]
    BY <1>1, <1>4 DEF Sums
  <2>3. h[T] = Price(q, c) + h[T \ {c}]
    BY <1>2, <1>4 DEF Sums
  <2> HIDE DEF c
  <2>4. h[T \ {c}] = g[T \ {c}]
    BY <1>4, <2>1
  <2> QED
    BY <2>1, <2>2, <2>3, <2>4
<1>5. Good = SUBSET S
  <2>1. Good \in SUBSET SUBSET S
    OBVIOUS
  <2> HIDE DEF Good
  <2> QED
    BY <1>3, <1>4, <2>1, FiniteSetsAll
<1> QED
  BY <1>5 DEF g, h

-----------------------------------------------------------------------------
(***************************************************************************)
(* What a step does to the sums                                            *)
(***************************************************************************)

LEMMA SettledFinite == \A r, u : IsFiniteSet(Settled(r, u))
<1> TAKE r, u
<1>1. IsFiniteSet(Invoice)
  BY Bounds, FS_Interval, SMT DEF Invoice
<1>2. Settled(r, u) \subseteq Invoice
  BY DEF Settled
<1> QED
  BY <1>1, <1>2, FS_Subset

\* Rows that are settled before and after keep their account and their pack,
\* and no other row is settled: every sum stays.
LEMMA SumsStay ==
    ASSUME PaidOnce, UNCHANGED paid,
           \A i \in Invoice :
             \/ row'[i] = row[i]
             \/ row[i].status # "settled" /\ row'[i].status # "settled"
    PROVE  PaidOnce'
<1> SUFFICES ASSUME NEW u \in Buyer
             PROVE  paid[u] = TotalOf(row', Settled(row', u))[Settled(row', u)]
  BY PaidIsNext
<1> DEFINE S == Settled(row, u)
<1>1. Settled(row', u) = S
  BY DEF Settled
<1>2. IsFiniteSet(S)
  BY SettledFinite
<1>3. \A i \in S : Price(row', i) = Price(row, i)
  BY DEF Settled, Price
<1>4. paid[u] = TotalOf(row, S)[S]
  BY PaidIs
<1> HIDE DEF S
<1>5. TotalOf(row', S)[S] = TotalOf(row, S)[S]
  BY <1>2, <1>3, SameTotal
<1> QED
  BY <1>1, <1>4, <1>5

\* A settlement adds the price of its invoice to the sum of its account alone.
LEMMA SettleAddsOnce ==
    ASSUME PurchasesTypeOK, PaidOnce, NEW i \in Invoice, SettleRow(i)
    PROVE  PaidOnce'
<1>1. row \in [Invoice -> Record(RowStatus)] /\ paid \in [Buyer -> Nat]
  BY DEF PurchasesTypeOK
<1>2. CASE row[i].status \in {"none", "settled"}
  BY <1>1, <1>2, SumsStay DEF SettleRow
<1>3. CASE row[i].status \notin {"none", "settled"}
  <2>1. /\ row' = [row EXCEPT ![i].status = "settled"]
        /\ paid' = [paid EXCEPT ![row[i].user] = @ + Credits[row[i].pack]]
    BY <1>3 DEF SettleRow
  <2>2. /\ row'[i] = [row[i] EXCEPT !.status = "settled"]
        /\ \A j \in Invoice : j # i => row'[j] = row[j]
    BY <1>1, <2>1
  <2>3. /\ row'[i].status = "settled" /\ row'[i].user = row[i].user
        /\ row'[i].pack = row[i].pack
    BY <1>1, <2>2 DEF Record
  <2>4. \A j \in Invoice : Price(row, j) \in Nat /\ Price(row', j) = Price(row, j)
    BY <1>1, <2>2, <2>3, PacksHaveAnIntro DEF Price, Record
  <2> SUFFICES ASSUME NEW u \in Buyer
               PROVE  paid'[u] = TotalOf(row', Settled(row', u))[Settled(row', u)]
    BY PaidIsNext
  <2> DEFINE S == Settled(row, u)
             U == Settled(row', u)
  <2>5. IsFiniteSet(S) /\ IsFiniteSet(U) /\ S \subseteq Invoice /\ U \subseteq Invoice
    BY SettledFinite DEF Settled
  <2>6. paid[u] = TotalOf(row, S)[S]
    BY PaidIs
  <2>7. U = IF u = row[i].user THEN S \cup {i} ELSE S
    BY <1>3, <2>2, <2>3 DEF Settled
  <2>8. i \notin S
    BY <1>3 DEF Settled
  <2> HIDE DEF S, U
  <2>9. TotalOf(row', U)[S] = TotalOf(row, S)[S]
    <3>1. S \subseteq U /\ \A j \in S : Price(row', j) = Price(row, j)
      BY <2>4, <2>5, <2>7
    <3> QED
      BY <2>5, <3>1, SameTotal
  <2>10. CASE u = row[i].user
    <3>1. U = S \cup {i} /\ U \ {i} = S
      BY <2>7, <2>8, <2>10
    <3>2. \A j \in U : Price(row', j) \in Nat
      BY <2>4, <2>5
    <3>3. TotalOf(row', U)[U] = Price(row', i) + TotalOf(row', U)[U \ {i}]
      BY <2>5, <3>1, <3>2, AnyOrder
    <3>4. TotalOf(row', U)[U] = Price(row, i) + paid[u]
      BY <2>4, <2>6, <2>9, <3>1, <3>3
    <3>5. paid'[u] = paid[u] + Price(row, i)
      BY <1>1, <2>1, <2>10 DEF Price
    <3>6. paid[u] \in Nat /\ Price(row, i) \in Nat
      BY <1>1, <2>4
    <3> QED
      BY <3>4, <3>5, <3>6 DEF U
  <2>11. CASE u # row[i].user
    <3>1. paid'[u] = paid[u] /\ U = S
      BY <1>1, <2>1, <2>7, <2>11
    <3> QED
      BY <2>6, <2>9, <3>1 DEF U
  <2> QED
    BY <2>10, <2>11
<1> QED
  BY <1>2, <1>3

LEMMA InitPaid == PurchasesInit => PaidOnce
<1> SUFFICES ASSUME PurchasesInit, NEW u \in Buyer
             PROVE  paid[u] = TotalOf(row, Settled(row, u))[Settled(row, u)]
  BY PaidIs
<1> DEFINE S == Settled(row, u)
<1>1. S = {}
  BY DEF PurchasesInit, NoRow, Settled
<1>2. IsFiniteSet(S)
  BY SettledFinite
<1> HIDE DEF S
<1>3. TotalOf(row, S)[S] = 0
  BY <1>1, <1>2, TotalExists DEF Sums
<1> QED
  BY <1>3 DEF PurchasesInit, S

LEMMA NextPaid == PurchasesInv /\ PaidOnce /\ [PurchasesNext]_purchaseVars => PaidOnce'
<1> SUFFICES ASSUME PurchasesInv, PaidOnce, [PurchasesNext]_purchaseVars PROVE PaidOnce'
  OBVIOUS
<1>1. PurchasesTypeOK /\ row \in [Invoice -> Record(RowStatus)]
  BY DEF PurchasesInv, PurchasesTypeOK
<1>2. ASSUME UNCHANGED <<row, paid>> PROVE PaidOnce'
  BY <1>2, SumsStay
<1>3. ASSUME NEW t \in Thread, Apply(t) PROVE PaidOnce'
  <2> DEFINE i == thread[t].asked
  <2>1. i \in Invoice
    BY <1>1, <1>3 DEF Apply, PurchasesTypeOK
  <2>2. CASE SettleRow(i)
    BY <1>1, <2>1, <2>2, SettleAddsOnce
  <2>3. CASE /\ row[i].status = "new" /\ row' = [row EXCEPT ![i].status = "expired"]
             /\ UNCHANGED <<paid, ledger>>
    <3>1. row'[i].status = "expired" /\ \A j \in Invoice : j # i => row'[j] = row[j]
      BY <1>1, <2>1, <2>3 DEF Record
    <3> QED
      BY <2>3, <3>1, SumsStay
  <2>4. CASE UNCHANGED <<row, paid, ledger>>
    BY <1>2, <2>4
  <2> QED
    BY <1>3, <2>2, <2>3, <2>4 DEF Apply
<1>4. ASSUME NEW d \in Delivery, ReceiveWebhook(d) PROVE PaidOnce'
  <2>1. hook[d].invoice \in Invoice
    BY <1>1, <1>4 DEF ReceiveWebhook, PurchasesTypeOK
  <2>2. SettleRow(hook[d].invoice) \/ UNCHANGED <<row, paid>>
    BY <1>4 DEF ReceiveWebhook
  <2> QED
    BY <1>1, <1>2, <2>1, <2>2, SettleAddsOnce
<1>5. ASSUME NEW t \in Thread, InsertRow(t) PROVE PaidOnce'
  <2> DEFINE n == thread[t].asked
  <2>1. UNCHANGED paid
    BY <1>5 DEF InsertRow
  <2>2. \A j \in Invoice :
          \/ row'[j] = row[j]
          \/ row[j].status # "settled" /\ row'[j].status # "settled"
    <3>1. n \in Invoice /\ row[n].status = "none"
      BY <1>5 DEF InsertRow, PurchasesInv, Undisturbed, Made
    <3>2. row'[n].status = "new" /\ \A j \in Invoice : j # n => row'[j] = row[j]
      BY <1>1, <1>5, <3>1 DEF InsertRow
    <3> QED
      BY <3>1, <3>2
  <2> QED
    BY <2>1, <2>2, SumsStay
<1>6. ASSUME NEW t \in Thread, Reconcile(t) PROVE PaidOnce'
  BY <1>2, <1>3, <1>6 DEF Reconcile, Ask, AskInVain, gateway
<1>7. ASSUME NEW t \in Thread, Purchase(t) PROVE PaidOnce'
  BY <1>2, <1>5, <1>7
     DEF Purchase, BeginPurchase, EndPurchase, DecideToPost, PostInVain, PostInvoice, gateway
<1>8. ASSUME Btcpay PROVE PaidOnce'
  BY <1>2, <1>8 DEF Btcpay, Pay, Confirm, PaymentFails, Expire, PayLate, Announce, gateway
<1> QED
  BY <1>2, <1>4, <1>6, <1>7, <1>8
     DEF PurchasesNext, purchaseVars, BeginPoll, EndPoll, GatewayRestart, gateway

\* A settled invoice is credited once: what purchases gave a user is the price
\* of its settled invoices, however often, however late and in whatever order
\* webhooks and polls report each of them.
THEOREM InvoicesArePaidOnce == PurchasesSpec => []PaidOnce
BY InitPaid, NextPaid, PurchasesInductive, PTL DEF PurchasesSpec

=============================================================================
