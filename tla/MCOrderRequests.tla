--------------------------- MODULE MCOrderRequests ---------------------------
(* An instance of OrderRequests for TLC. *)
EXTENDS OrderRequests, TLC

CallSymmetry == Permutations(Call)
=============================================================================
