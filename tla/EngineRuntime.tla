---------------------------- MODULE EngineRuntime ----------------------------
(***************************************************************************)
(* How requests reach the engine thread: the tasks of the API server share *)
(* the engine behind one tokio Mutex, send commands into two bounded       *)
(* queues, and wait for the answer with a timeout while they hold the      *)
(* mutex (engine/runtime/engine.rs, services/order_service.rs,             *)
(* handlers/balance_handler.rs, engine_thread_loop of                      *)
(* engine/runtime/threads.rs).                                             *)
(*                                                                         *)
(* Matching is left to MatchingEngine.  Here there is one account, each    *)
(* order costs one unit of it, and all that counts of an order is what the *)
(* engine made of it.                                                      *)
(***************************************************************************)
EXTENDS Integers, Sequences, FiniteSets

CONSTANTS Order,            \* the orders clients create, each once
          Depositor,        \* callers of the balance endpoint, each again and again
          OrderCapacity,    \* capacity of the order queue
          BalanceCapacity,  \* capacity of the balance queue
          InitFunds,        \* the account's balance at the start
          MaxFunds,         \* bound: deposits stop there
          MaxTimeouts,      \* bound: calls that time out
          MaxCrashes        \* bound: restarts of the process

ASSUME RuntimeAssumption ==
  /\ {OrderCapacity, BalanceCapacity} \subseteq Nat \ {0}
  /\ {InitFunds, MaxFunds, MaxTimeouts, MaxCrashes} \subseteq Nat

(* create_order and cancel_order of the service, the task create_order     *)
(* spawns to submit the order, sync_balance, and a caller of stop().       *)
Create == {"create"} \X Order
Submit == {"submit"} \X Order
Cancel == {"cancel"} \X Order
Deposit == {"deposit"} \X Depositor
Stop == <<"stop", "engine">>
Task == Create \cup Submit \cup Cancel \cup Deposit \cup {Stop}

(* live: the caller still holds the receiving end of the oneshot channel.  *)
Command == [task : Task, live : BOOLEAN]

VARIABLES mutex,      \* tasks at the engine's mutex, in turn; the first holds it
          pc,         \* task -> where it stands
          orders,     \* order_rx
          balances,   \* balance_rx
          thread,     \* where the engine thread stands
          running,    \* the running flag
          open,       \* the engine still has its senders
          available,  \* the account's available balance
          deposited,  \* deposits less withdrawals so far, for the properties
          order,      \* order -> what the engine made of it
          timeouts,   \* calls that timed out so far
          crashes     \* restarts so far

queues == <<orders, balances>>
engine == <<thread, running, open>>
vars == <<mutex, pc, queues, engine, available, deposited, order, timeouts, crashes>>

Holder(t) == mutex # << >> /\ Head(mutex) = t

-----------------------------------------------------------------------------
(* The tasks.                                                              *)

(* A client may cancel an order once create_order has returned it; the     *)
(* submission is spawned just before that.                                 *)
MayStart(t) ==
  t \in Submit \cup Cancel => pc[<<"create", t[2]>>] = "done"

(* engine.lock().await: tokio's mutex serves its waiters first in, first   *)
(* out.                                                                    *)
Lock(t) ==
  /\ pc[t] = "idle" /\ MayStart(t)
  /\ pc' = [pc EXCEPT ![t] = "lock"]
  /\ mutex' = Append(mutex, t)
  /\ UNCHANGED <<queues, engine, available, deposited, order, timeouts, crashes>>

(* A finished call drops the guard.  A depositor may come back.            *)
Finish(t, result) ==
  /\ pc' = [pc EXCEPT ![t] = IF t \in Deposit THEN "idle" ELSE result]
  /\ mutex' = Tail(mutex)

(* Mutant: the guard is dropped before the answer is awaited.              *)
AwaitUnlocked(t) ==
  /\ pc' = [pc EXCEPT ![t] = "reply"]
  /\ mutex' = Tail(mutex)

Await(t) ==
  /\ pc' = [pc EXCEPT ![t] = "reply"]
  /\ UNCHANGED mutex

(* Mutant: the queue is found full one command late.                       *)
RoomForOneMore(queue, capacity) == Len(queue) <= capacity
HasRoom(queue, capacity) == Len(queue) < capacity

(* Mutant: update_balance returns once the command is sent.                *)
WaitsForOrders(t) == t \in Create \cup Cancel
Waits(t) == t \notin Submit

(* send() blocks while the queue is full.  A submission does not wait for  *)
(* an answer.                                                              *)
Send(t) ==
  LET command == [task |-> t, live |-> Waits(t)]
  IN  /\ pc[t] = "lock" /\ Holder(t) /\ t # Stop /\ open
      /\ IF t \in Deposit
         THEN /\ HasRoom(balances, BalanceCapacity)
              /\ balances' = Append(balances, command) /\ UNCHANGED orders
         ELSE /\ HasRoom(orders, OrderCapacity)
              /\ orders' = Append(orders, command) /\ UNCHANGED balances
      /\ IF Waits(t) THEN Await(t) ELSE Finish(t, "done")
      /\ UNCHANGED <<engine, available, deposited, order, timeouts, crashes>>

(* After stop() the sender is None and unwrap() panics: the task is gone.  *)
Panic(t) ==
  /\ pc[t] = "lock" /\ Holder(t) /\ ~open
  /\ Finish(t, "failed")
  /\ UNCHANGED <<queues, engine, available, deposited, order, timeouts, crashes>>

(* The answer arrived.                                                     *)
Return(t) ==
  /\ pc[t] \in {"ok", "error"} /\ Holder(t)
  /\ Finish(t, IF pc[t] = "ok" THEN "done" ELSE "failed")
  /\ UNCHANGED <<queues, engine, available, deposited, order, timeouts, crashes>>

Orphaned(queue, t) ==
  [i \in DOMAIN queue |-> IF queue[i].task = t THEN [queue[i] EXCEPT !.live = FALSE]
                                               ELSE queue[i]]

(* The timer fires first: the receiving end is dropped, the command stays. *)
TimeOut(t) ==
  /\ pc[t] = "reply" /\ t # Stop /\ timeouts < MaxTimeouts
  /\ timeouts' = timeouts + 1
  /\ Finish(t, "failed")
  /\ orders' = Orphaned(orders, t) /\ balances' = Orphaned(balances, t)
  /\ UNCHANGED <<engine, available, deposited, order, crashes>>

(* stop(): clear the flag, drop the senders, join the thread.              *)
ClearFlag ==
  /\ pc[Stop] = "lock" /\ Holder(Stop) /\ open
  /\ running' = FALSE /\ open' = FALSE
  /\ Await(Stop)
  /\ UNCHANGED <<queues, thread, available, deposited, order, timeouts, crashes>>

Join ==
  /\ pc[Stop] = "reply" /\ thread = "stopped"
  /\ Finish(Stop, "done")
  /\ UNCHANGED <<queues, engine, available, deposited, order, timeouts, crashes>>

-----------------------------------------------------------------------------
(* The engine thread.                                                      *)

Answer(command, result) ==
  pc' = IF command.live THEN [pc EXCEPT ![command.task] = result] ELSE pc

(* The balance queue comes first, and again after each balance command.    *)
TakeBalance ==
  /\ thread = "check" /\ running /\ balances # << >>
  /\ balances' = Tail(balances)
  /\ \E delta \in {-1, 1} :
       /\ available + delta <= MaxFunds
       /\ available' = IF available + delta < 0 THEN 0 ELSE available + delta
       /\ deposited' = deposited + available' - available
  /\ Answer(Head(balances), "ok")
  /\ UNCHANGED <<mutex, orders, engine, order, timeouts, crashes>>

(* Empty or closed: on to the order queue, for a millisecond.              *)
BalancesEmpty ==
  /\ thread = "check" /\ running /\ balances = << >>
  /\ thread' = "wait"
  /\ UNCHANGED <<mutex, pc, queues, running, open, available, deposited, order,
                 timeouts, crashes>>

(* Mutant: the thread blocks on the order queue until an order comes.      *)
WakesForOrders == orders # << >> \/ ~open
Wakes == thread = "wait"

WaitExpires ==
  /\ thread = "wait" /\ orders = << >> /\ Wakes
  /\ thread' = "check"
  /\ UNCHANGED <<mutex, pc, queues, running, open, available, deposited, order,
                 timeouts, crashes>>

CanLock(o) == o \in Order /\ available >= 1

(* Its funds are locked, and it trades or rests; or it is dropped.         *)
HandleSubmit(o) ==
  IF CanLock(o)
  THEN /\ available' = available - 1
       /\ \E result \in {"resting", "filled"} : order' = [order EXCEPT ![o] = result]
  ELSE /\ order' = [order EXCEPT ![o] = "rejected"]
       /\ UNCHANGED available

(* Mutant: what a restart gave back is given back by a cancellation again. *)
RefundsForgotten(o) ==
  IF order[o] \in {"resting", "forgotten"}
  THEN available' = available + 1 /\ order' = [order EXCEPT ![o] = "cancelled"]
  ELSE UNCHANGED <<available, order>>

HandleCancel(o) ==
  IF order[o] = "resting"
  THEN available' = available + 1 /\ order' = [order EXCEPT ![o] = "cancelled"]
  ELSE UNCHANGED <<available, order>>

(* Mutant: an order the engine does not know counts as cancelled.          *)
OutcomeIfUnknown(t) ==
  IF t \in Cancel /\ order[t[2]] = "filled" THEN "error" ELSE "ok"

(* create_order's check_balance compares the balance the engine reported.  *)
Outcome(t) ==
  CASE t \in Create -> IF available >= 1 THEN "ok" ELSE "error"
    [] t \in Cancel -> IF order[t[2]] = "resting" THEN "ok" ELSE "error"
    [] OTHER        -> "ok"

TakeOrder ==
  LET t == Head(orders).task
  IN  /\ thread = "wait" /\ running /\ orders # << >>
      /\ orders' = Tail(orders)
      /\ thread' = "check"
      /\ CASE t \in Submit -> HandleSubmit(t[2])
           [] t \in Cancel -> HandleCancel(t[2])
           [] OTHER        -> UNCHANGED <<available, order>>
      /\ Answer(Head(orders), Outcome(t))
      /\ UNCHANGED <<mutex, balances, running, open, deposited, timeouts, crashes>>

(* The flag is looked at before each round and after receiving an order,   *)
(* which is then dropped; what is still queued is never taken.             *)
EndThread ==
  /\ ~running
  /\ \/ thread = "check" /\ UNCHANGED orders
     \/ thread = "wait" /\ orders # << >> /\ orders' = Tail(orders)
  /\ thread' = "stopped"
  /\ UNCHANGED <<mutex, pc, balances, running, open, available, deposited, order,
                 timeouts, crashes>>

ThreadStep ==
  TakeBalance \/ BalancesEmpty \/ WaitExpires \/ TakeOrder \/ EndThread

-----------------------------------------------------------------------------
(* The process dies, or a new engine replaces a stopped one: start() loads *)
(* the balances, with what was locked, and begins with an empty book.  The *)
(* stored balances are taken to be up to date.                             *)
Resting == {o \in Order : order[o] = "resting"}

Lost(t) ==
  \/ pc[t] \in {"lock", "reply", "ok", "error"}
  \/ t \in Submit /\ pc[t] = "idle" /\ MayStart(t)

Restart ==
  /\ crashes < MaxCrashes
  /\ crashes' = crashes + 1
  /\ mutex' = << >> /\ orders' = << >> /\ balances' = << >>
  /\ pc' = [t \in Task |-> IF t \in Deposit \cup {Stop} THEN "idle"
                           ELSE IF Lost(t) THEN "failed" ELSE pc[t]]
  /\ thread' = "check" /\ running' = TRUE /\ open' = TRUE
  /\ available' = available + Cardinality(Resting)
  /\ order' = [o \in Order |-> IF o \in Resting THEN "forgotten" ELSE order[o]]
  /\ UNCHANGED <<deposited, timeouts>>

Init ==
  /\ mutex = << >> /\ pc = [t \in Task |-> "idle"]
  /\ orders = << >> /\ balances = << >>
  /\ thread = "check" /\ running = TRUE /\ open = TRUE
  /\ available = InitFunds /\ deposited = 0
  /\ order = [o \in Order |-> "none"]
  /\ timeouts = 0 /\ crashes = 0

TaskStep(t) == Send(t) \/ Panic(t) \/ Return(t) \/ TimeOut(t)

Next ==
  \/ \E t \in Task : Lock(t) \/ TaskStep(t)
  \/ ClearFlag \/ Join
  \/ ThreadStep
  \/ Restart

Spec == Init /\ [][Next]_vars

(* The thread and the tasks that have begun go on; spawned submissions     *)
(* begin.  Nobody has to call, to time out or to crash.  The thread looks  *)
(* at the balance queue again as soon as it has answered, while the next   *)
(* deposit waits for the answered caller to wake and to drop the guard:    *)
(* that deposit does not win every time.                                   *)
FairSpec ==
  /\ Spec
  /\ WF_vars(ThreadStep) /\ SF_vars(BalancesEmpty)
  /\ WF_vars(ClearFlag) /\ WF_vars(Join)
  /\ \A t \in Task : WF_vars(Send(t) \/ Panic(t) \/ Return(t))
  /\ \A t \in Submit : WF_vars(Lock(t))

=============================================================================
