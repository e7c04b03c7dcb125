----------------------- MODULE EngineRuntimeProperties -----------------------
(***************************************************************************)
(* What callers may expect of the engine behind its mutex and its queues.  *)
(***************************************************************************)
EXTENDS EngineRuntime

Busy == {"lock", "reply", "ok", "error"}
Outcomes == {"none", "resting", "filled", "rejected", "cancelled", "forgotten"}

(* The type invariant of the tasks, the queues and the engine thread.      *)
TypeOK ==
  /\ mutex \in Seq(Task)
  /\ pc \in [Task -> Busy \cup {"idle", "done", "failed"}]
  /\ orders \in Seq(Command) /\ Len(orders) <= OrderCapacity
  /\ balances \in Seq(Command) /\ Len(balances) <= BalanceCapacity
  /\ thread \in {"check", "wait", "stopped"}
  /\ {running, open} \subseteq BOOLEAN
  /\ available \in Int /\ deposited \in Int
  /\ order \in [Order -> Outcomes]
  /\ timeouts \in 0 .. MaxTimeouts /\ crashes \in 0 .. MaxCrashes

(* The account is never overdrawn, although check_balance's answer is out  *)
(* of date when the spawned submission arrives, and although deposits and  *)
(* withdrawals overtake the orders that wait.  And what an order takes is  *)
(* given back once at most: by its cancellation, be it late or timed out,  *)
(* or by the restart that forgets it (start() adds the locked funds to the *)
(* available ones), not by both.                                           *)
Held == {o \in Order : order[o] \in {"resting", "filled"}}

FundsAccounted ==
  /\ available >= 0
  /\ available + Cardinality(Held) = InitFunds + deposited

(* Each live command belongs to the one caller who holds the mutex: an     *)
(* answer finds its caller waiting, and a command whose caller gave up     *)
(* answers nobody, not even a later call of the same client.               *)
Commands == {orders[i] : i \in DOMAIN orders} \cup {balances[i] : i \in DOMAIN balances}

LiveCommandsHaveCallers ==
  /\ \A c \in Commands : c.live => pc[c.task] = "reply" /\ Holder(c.task)
  /\ \A t \in Task : pc[t] \in {"reply", "ok", "error"} => Holder(t)

(* A cancellation that was answered with success is final: the order was   *)
(* resting, has left the book, and no late submission brings it back.      *)
CancelIsFinal ==
  \A o \in Order : pc[<<"cancel", o>>] \in {"ok", "done"} => order[o] = "cancelled"

(* Every call returns, also when the engine is stopped, when the holder of *)
(* the mutex waits for room in a full queue, or when nobody sends orders;  *)
(* and stop() itself returns.                                              *)
CallsReturn == \A t \in Task : pc[t] \in Busy ~> pc[t] \notin Busy

(* An accepted order whose submission is not made yet or still queued      *)
(* reaches the engine thread, unless the engine stops or the process       *)
(* restarts first, even if deposits, which have priority, never cease.     *)
OnItsWay(o) ==
  /\ pc[<<"create", o>>] = "done"
  /\ pc[<<"submit", o>>] # "done" \/ \E c \in Commands : c.task = <<"submit", o>>

AcceptedOrdersTaken ==
  \A o \in Order, n \in 0 .. MaxCrashes :
     OnItsWay(o) /\ crashes = n ~>
       order[o] # "none" \/ ~running \/ pc[<<"submit", o>>] = "failed" \/ crashes > n

=============================================================================
