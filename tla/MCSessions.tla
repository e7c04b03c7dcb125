------------------------------ MODULE MCSessions ------------------------------
(* An instance of Sessions for TLC: users and requests are alike. *)
EXTENDS Sessions, TLC

Alike == Permutations(Request) \cup Permutations(Email)
=============================================================================
