---------------------------- MODULE PrepaidWallet ----------------------------
(***************************************************************************)
(* What the gateway promises about prepaid credits, without its calls,     *)
(* rows and races: a request takes one hold on one account; the hold is    *)
(* either spent, in whole or in part, or released, once; and no step       *)
(* creates or loses a credit.  RemoteCredits implements this.              *)
(***************************************************************************)
EXTENDS Integers, FiniteSets

CONSTANTS User, Request, NoUser, NoAccount,
          InitialCredits,   \* the grant that opens an account
          LargestHold

VARIABLES
  wallet,   \* the credits an account may still hold, or NoAccount
  held,     \* the credits on hold for a request
  spent,    \* the credits a request has cost
  payer     \* the account a request took its hold from

walletVars == <<wallet, held, spent, payer>>

Units(u) ==
  {x \in Request \X (1..LargestHold) : payer[x[1]] = u /\ x[2] <= held[x[1]] + spent[x[1]]}

Worth(u) == wallet[u] + Cardinality(Units(u))

Init ==
  /\ wallet = [u \in User |-> NoAccount]
  /\ held = [r \in Request |-> 0]
  /\ spent = [r \in Request |-> 0]
  /\ payer = [r \in Request |-> NoUser]

Unmoved(r) == held'[r] = held[r] /\ spent'[r] = spent[r] /\ payer'[r] = payer[r]

Take(r) ==
  /\ payer[r] = NoUser /\ payer'[r] \in User
  /\ held'[r] \in 1..LargestHold /\ spent'[r] = 0

Release(r) ==
  /\ held[r] > 0 /\ held'[r] = 0
  /\ spent'[r] = 0 /\ payer'[r] = payer[r]

Spend(r) ==
  /\ held[r] > 0 /\ held'[r] = 0
  /\ spent'[r] \in 1..held[r] /\ payer'[r] = payer[r]

\* A transaction may decide many holds at once (the stale sweep) and open an
\* account on the way; the worth of an open account never changes.
Transact ==
  /\ \A r \in Request : Unmoved(r) \/ Take(r) \/ Release(r) \/ Spend(r)
  /\ \A u \in User :
       IF wallet[u] = NoAccount
       THEN wallet'[u] = NoAccount \/ Worth(u)' = InitialCredits
       ELSE wallet'[u] >= 0 /\ Worth(u)' = Worth(u)

Spec == Init /\ [][Transact]_walletVars
=============================================================================
