--------------------------- MODULE MCRemoteCredits ---------------------------
(***************************************************************************)
(* Small instances of RemoteCredits: one account (two in the run about     *)
(* refunds), one image and one chat request id, two calls in progress and  *)
(* one restart.  The welcome grant pays for an image and a one-credit      *)
(* chat, or for two two-credit chats, so that 402s happen.                 *)
(***************************************************************************)
EXTENDS RemoteCredits, TLC

CONSTANTS l1, l2, u1, u2, c1, c2

MCUserOf == [l \in License |-> IF l = l1 THEN u1 ELSE u2]

\* The calls in progress are interchangeable.
CallSymmetry == Permutations({c1, c2})
=============================================================================
