--------------------------- MODULE MCCreditInvoices ---------------------------
(***************************************************************************)
(* One account, the starter pack and one regular pack, three invoices, two *)
(* threads of the pool and a webhook delivery, which may be repeated.  A   *)
(* LIMIT of two for two packs stands for the code's four for four.         *)
(***************************************************************************)
EXTENDS CreditInvoices, TLC

CONSTANTS intro, regular, t1, t2

MCCredits == [p \in Pack |-> IF p = intro THEN 2 ELSE 3]

MCSymmetry == Permutations({t1, t2})
=============================================================================
