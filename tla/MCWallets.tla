------------------------------ MODULE MCWallets ------------------------------
(* An instance of Wallets for TLC. *)
EXTENDS Wallets, TLC

Symmetry == Permutations(Request) \cup Permutations(User)
=============================================================================
