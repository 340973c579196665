-------------------------- MODULE MCOAuthEnrollment --------------------------
(***************************************************************************)
(* Two installations of a Discord account, two enrollments, two callbacks  *)
(* at once.                                                                *)
(***************************************************************************)
EXTENDS OAuthEnrollment, TLC

CONSTANTS i1, i2, e1, e2, c1, c2

MCHome == [e \in Enrollment |-> IF e = e2 THEN i2 ELSE i1]

MCSymmetry == Permutations({c1, c2})
=============================================================================
