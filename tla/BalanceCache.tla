---------------------------- MODULE BalanceCache ----------------------------
(***************************************************************************)
(* The in-memory balances of the engine: a map from (user, mint) to an     *)
(* available and a locked amount (engine/balance_cache.rs).  A missing key *)
(* reads as a zero balance, so the map is total here.                      *)
(*                                                                         *)
(* Every fallible operation is a pair: a guard that is TRUE exactly when   *)
(* the code does not bail!, and the cache after the operation.             *)
(*                                                                         *)
(* Amounts are integers that count units of the smallest Decimal step.     *)
(***************************************************************************)
EXTENDS EngineTypes

Account == User \X Mint

Balance == [available : Int, locked : Int]
BalanceCacheType == [Account -> Balance]
-----------------------------------------------------------------------------

CanLock(cache, acc, amount) == cache[acc].available >= amount

(* Mutant: the lock takes the funds but does not record them as locked.    *)
LockBalanceForgets(cache, acc, amount) ==
  [cache EXCEPT ![acc] = [available |-> @.available - amount, locked |-> @.locked]]

LockBalance(cache, acc, amount) ==
  [cache EXCEPT ![acc] = [available |-> @.available - amount,
                          locked    |-> @.locked + amount]]

CanUnlock(cache, acc, amount) == cache[acc].locked >= amount

UnlockBalance(cache, acc, amount) ==
  [cache EXCEPT ![acc] = [available |-> @.available + amount,
                          locked    |-> @.locked - amount]]

(* Settlement always debits the locked part (from_locked = true).  The     *)
(* sender is debited before the receiver is credited.                      *)
CanTransfer(cache, from, amount) == cache[from].locked >= amount

(* Mutant: the receiver is credited, the sender keeps the funds.           *)
TransferWithoutDebit(cache, from, to, amount) ==
  [cache EXCEPT ![to] = [available |-> @.available + amount, locked |-> @.locked]]

Transfer(cache, from, to, amount) ==
  LET debited == [cache EXCEPT ![from] =
                    [available |-> @.available, locked |-> @.locked - amount]]
  IN  [debited EXCEPT ![to] =
         [available |-> @.available + amount, locked |-> @.locked]]

(* Mutant: a withdrawal may exceed the balance.                            *)
AddAvailableUnclamped(cache, acc, delta) ==
  [cache EXCEPT ![acc] = [available |-> @.available + delta, locked |-> @.locked]]

(* Deposits and withdrawals: a result below zero is clamped to zero.       *)
AddAvailable(cache, acc, delta) ==
  LET sum == cache[acc].available + delta
  IN  [cache EXCEPT ![acc] =
         [available |-> IF sum < 0 THEN 0 ELSE sum, locked |-> @.locked]]

=============================================================================
