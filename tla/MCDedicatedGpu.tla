--------------------------- MODULE MCDedicatedGpu ---------------------------
(***************************************************************************)
(* One image client, two prompt chats and two streaming clients.           *)
(***************************************************************************)
EXTENDS DedicatedGpu, TLC

CONSTANTS i1, q1, q2, s1, s2

=============================================================================
