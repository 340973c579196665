----------------------------- MODULE MCSharedGpu -----------------------------
(***************************************************************************)
(* Two Discord jobs of different models and one other program, with room   *)
(* for two models in VRAM.                                                 *)
(***************************************************************************)
EXTENDS SharedGpu, TLC

CONSTANTS d1, d2, o1, m1, m2, p1, p2

MCWants == [d \in Discord |-> IF d = d1 THEN m1 ELSE m2]

=============================================================================
