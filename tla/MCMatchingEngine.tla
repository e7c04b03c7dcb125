-------------------------- MODULE MCMatchingEngine --------------------------
(* Instances of MatchingEngine for TLC. *)
EXTENDS MatchingEngineProperties, TLC

CONSTANTS BaseFunds, QuoteFunds    \* every user starts with these

MCInitBalances ==
  {[acc \in Account |-> [available |-> IF acc[2] = "base" THEN BaseFunds ELSE QuoteFunds,
                         locked |-> 0]]}

NoDelta == {}
WithdrawAndDeposit == {-1, 1}

UserSymmetry == Permutations(User)
=============================================================================
