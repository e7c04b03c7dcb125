--------------------------- MODULE EngineRuntime_proofs ---------------------------
(***************************************************************************)
(* Proofs about EngineRuntime: types, answers find their callers, the      *)
(* account's funds are accounted for, and a confirmed cancellation is      *)
(* final, for every number of orders, callers, timeouts and restarts.      *)
(***************************************************************************)
EXTENDS EngineRuntimeProperties, SequenceTheorems, FiniteSetTheorems, TLAPS

OrderTask == Create \cup Submit \cup Cancel
Waiting == {"reply", "ok", "error"}
PcState == Busy \cup {"idle", "done", "failed"}

(* Which tasks send into which queue.  Nobody waits for a submission.      *)
QueueTasks ==
  /\ \A i \in DOMAIN orders : /\ orders[i].task \in OrderTask
                              /\ orders[i].task \in Submit => ~orders[i].live
  /\ \A i \in DOMAIN balances : balances[i].task \in Deposit

(* Only the holder of the mutex waits, so that one command is live.        *)
OneLive ==
  /\ \A i, j \in DOMAIN orders : orders[i].live /\ orders[j].live => i = j
  /\ \A i, j \in DOMAIN balances : balances[i].live /\ balances[j].live => i = j
  /\ \A i \in DOMAIN orders, j \in DOMAIN balances : ~(orders[i].live /\ balances[j].live)

(* The engine knows nothing of an order before it takes its submission,    *)
(* which is sent once.                                                     *)
SubmittedOnce ==
  /\ \A i \in DOMAIN orders : orders[i].task \in Submit =>
       pc[orders[i].task] = "done" /\ order[orders[i].task[2]] = "none"
  /\ \A i, j \in DOMAIN orders :
       orders[i].task \in Submit /\ orders[i].task = orders[j].task => i = j
  /\ \A o \in Order : pc[<<"submit", o>>] \in {"idle", "lock"} => order[o] = "none"

(* Only finitely many orders hold funds, so that they can be counted.      *)
FiniteHeld == IsFiniteSet(Held)

Callers == QueueTasks /\ OneLive /\ LiveCommandsHaveCallers
IInv ==
  TypeOK /\ Callers /\ SubmittedOnce /\ CancelIsFinal /\ FiniteHeld /\ FundsAccounted

-----------------------------------------------------------------------------
(* Sequences and tasks.                                                    *)

(* What Tail leaves.                                                       *)
LEMMA TailOf ==
  ASSUME NEW S, NEW q \in Seq(S), q # << >>
  PROVE  /\ Head(q) = q[1] /\ Head(q) \in S
         /\ Tail(q) \in Seq(S) /\ Len(Tail(q)) = Len(q) - 1 /\ Len(q) \in Nat \ {0}
         /\ DOMAIN q = 1 .. Len(q) /\ 1 \in DOMAIN q
         /\ \A i \in DOMAIN Tail(q) :
              i \in Nat /\ i + 1 \in DOMAIN q /\ i + 1 # 1 /\ Tail(q)[i] = q[i + 1]
<1>1. /\ Head(q) \in S /\ Tail(q) \in Seq(S) /\ Len(Tail(q)) = Len(q) - 1
      /\ \A i \in 1 .. Len(Tail(q)) : Tail(q)[i] = q[i + 1]
  BY HeadTailProperties
<1>2. Len(q) \in Nat \ {0} /\ DOMAIN q = 1 .. Len(q)
  BY EmptySeq, LenProperties
<1>3. DOMAIN Tail(q) = 1 .. Len(q) - 1
  BY <1>1, LenProperties
<1>4. Head(q) = q[1]
  OBVIOUS
<1>. QED
  BY <1>1, <1>2, <1>3, <1>4

(* What Append adds.                                                       *)
LEMMA AppendOf ==
  ASSUME NEW S, NEW q \in Seq(S), NEW x \in S
  PROVE  /\ Append(q, x) \in Seq(S) /\ Len(Append(q, x)) = Len(q) + 1
         /\ Len(q) \in Nat /\ Append(q, x) # << >>
         /\ DOMAIN q = 1 .. Len(q) /\ DOMAIN Append(q, x) = 1 .. Len(q) + 1
         /\ Append(q, x)[Len(q) + 1] = x
         /\ \A i \in DOMAIN q : Append(q, x)[i] = q[i]
<1>1. /\ Append(q, x) \in Seq(S) /\ Len(Append(q, x)) = Len(q) + 1
      /\ \A i \in 1 .. Len(q) : Append(q, x)[i] = q[i]
      /\ Append(q, x)[Len(q) + 1] = x
  BY AppendProperties
<1>2. /\ Len(q) \in Nat /\ DOMAIN q = 1 .. Len(q)
      /\ DOMAIN Append(q, x) = 1 .. Len(q) + 1
  BY <1>1, LenProperties
<1>3. Append(q, x) # << >>
  BY <1>1, <1>2, EmptySeq
<1>. QED
  BY <1>1, <1>2, <1>3

(* Orphaning a task's commands leaves everything but their liveness.       *)
LEMMA OrphanedCommands ==
  ASSUME NEW q \in Seq(Command), NEW t
  PROVE  /\ Orphaned(q, t) \in Seq(Command) /\ Len(Orphaned(q, t)) = Len(q)
         /\ DOMAIN Orphaned(q, t) = DOMAIN q
         /\ \A i \in DOMAIN q : /\ Orphaned(q, t)[i].task = q[i].task
                                /\ Orphaned(q, t)[i].live => q[i].live /\ q[i].task # t
<1>1. /\ Len(q) \in Nat /\ DOMAIN q = 1 .. Len(q)
      /\ \A i \in DOMAIN q : q[i] \in Command
  BY LenProperties
<1>2. DOMAIN Orphaned(q, t) = DOMAIN q
  BY DEF Orphaned
<1>3. ASSUME NEW i \in DOMAIN q
      PROVE  /\ Orphaned(q, t)[i] \in Command
             /\ Orphaned(q, t)[i].task = q[i].task
             /\ Orphaned(q, t)[i].live => q[i].live /\ q[i].task # t
  <2>1. q[i] \in Command
    BY <1>1
  <2>2. CASE q[i].task = t
    <3>1. Orphaned(q, t)[i] = [q[i] EXCEPT !.live = FALSE]
      BY <2>2 DEF Orphaned
    <3>. QED
      BY <2>1, <3>1 DEF Command
  <2>3. CASE q[i].task # t
    <3>1. Orphaned(q, t)[i] = q[i]
      BY <2>3 DEF Orphaned
    <3>. QED
      BY <2>1, <2>3, <3>1
  <2>. QED
    BY <2>2, <2>3
<1>4. Orphaned(q, t) \in [1 .. Len(q) -> Command]
  BY <1>1, <1>2, <1>3 DEF Orphaned
<1>5. Orphaned(q, t) \in Seq(Command) /\ Len(Orphaned(q, t)) = Len(q)
  BY <1>1, <1>4
<1>. QED
  BY <1>2, <1>3, <1>5

(* The kinds of tasks are apart, and name their orders.                    *)
LEMMA Kinds ==
  /\ Create \subseteq Task /\ Submit \subseteq Task /\ Cancel \subseteq Task
  /\ Deposit \subseteq Task /\ Stop \in Task
  /\ Submit \cap Create = {} /\ Submit \cap Cancel = {} /\ Submit \cap Deposit = {}
  /\ Cancel \cap Create = {} /\ Cancel \cap Deposit = {} /\ Create \cap Deposit = {}
  /\ Stop \notin OrderTask \cup Deposit
  /\ Task = OrderTask \cup Deposit \cup {Stop}
  /\ \A t \in OrderTask : t[2] \in Order
  /\ \A t \in Submit : t = <<"submit", t[2]>>
  /\ \A t \in Cancel : t = <<"cancel", t[2]>>
  /\ \A o \in Order : /\ <<"create", o>> \in Create /\ <<"submit", o>> \in Submit
                      /\ <<"cancel", o>> \in Cancel /\ <<"cancel", o>>[2] = o
BY DEF Create, Submit, Cancel, Deposit, Stop, Task, OrderTask

-----------------------------------------------------------------------------
(* The type invariant.                                                     *)

(* The parts of the types that one kind of step or another leaves alone.   *)
TaskTypes == mutex \in Seq(Task) /\ pc \in [Task -> PcState]

QueueTypes ==
  /\ orders \in Seq(Command) /\ Len(orders) <= OrderCapacity
  /\ balances \in Seq(Command) /\ Len(balances) <= BalanceCapacity

EngineTypes ==
  /\ thread \in {"check", "wait", "stopped"}
  /\ running \in BOOLEAN /\ open \in BOOLEAN

AccountTypes ==
  available \in Int /\ deposited \in Int /\ order \in [Order -> Outcomes]
BoundTypes == timeouts \in 0 .. MaxTimeouts /\ crashes \in 0 .. MaxCrashes

LEMMA TypesAre ==
  TypeOK <=> TaskTypes /\ QueueTypes /\ EngineTypes /\ AccountTypes /\ BoundTypes
BY DEF TypeOK, TaskTypes, QueueTypes, EngineTypes, AccountTypes, BoundTypes, PcState

(* Their primed forms.                                                     *)
LEMMA TypesAreNext ==
  TaskTypes' /\ QueueTypes' /\ EngineTypes' /\ AccountTypes' /\ BoundTypes' => TypeOK'
BY TypesAre, PTL


(* Giving the mutex back, and waiting with it.                             *)
LEMMA MutexTypes ==
  ASSUME TaskTypes, NEW t \in Task
  PROVE  /\ \A result \in {"done", "failed"} :
              Finish(t, result) /\ mutex # << >> => TaskTypes'
         /\ Await(t) => TaskTypes'
<1>1. ASSUME NEW result \in {"done", "failed"}, Finish(t, result), mutex # << >>
      PROVE  TaskTypes'
  <2>1. mutex' \in Seq(Task)
    BY <1>1, TailOf DEF TaskTypes, Finish
  <2>2. pc' \in [Task -> PcState]
    BY <1>1 DEF TaskTypes, Finish, PcState
  <2>. QED
    BY <2>1, <2>2 DEF TaskTypes
<1>2. ASSUME Await(t) PROVE TaskTypes'
  BY <1>2 DEF TaskTypes, Await, PcState, Busy
<1>. QED
  BY <1>1, <1>2

(* The steps of a task.                                                    *)
LEMMA TaskStepTypes ==
  ASSUME TypeOK, LiveCommandsHaveCallers, NEW t \in Task, Lock(t) \/ TaskStep(t)
  PROVE  TypeOK'
<1>. USE TypesAre
<1>1. CASE Lock(t)
  <2>1. TaskTypes'
    BY <1>1, AppendOf DEF TaskTypes, Lock, PcState, Busy
  <2>2. QueueTypes' /\ EngineTypes' /\ AccountTypes' /\ BoundTypes'
    BY <1>1 DEF QueueTypes, EngineTypes, AccountTypes, BoundTypes, Lock, queues, engine
  <2>. QED
    BY <2>1, <2>2, TypesAreNext
<1>2. CASE Send(t)
  <2>. DEFINE command == [task |-> t, live |-> Waits(t)]
  <2>1. command \in Command
    BY DEF Command, Waits
  <2>2. TaskTypes'
    BY <1>2, MutexTypes DEF Send, Holder
  <2>3. QueueTypes'
    <3>1. CASE t \in Deposit
      <4>1. balances' = Append(balances, command) /\ orders' = orders /\ HasRoom(balances, BalanceCapacity)
        BY <1>2, <3>1 DEF Send
      <4>. HIDE DEF command
      <4>2. balances' \in Seq(Command) /\ Len(balances') = Len(balances) + 1
        BY <2>1, <4>1, AppendOf DEF QueueTypes
      <4>. QED
        BY <4>1, <4>2, RuntimeAssumption, LenProperties DEF QueueTypes, HasRoom
    <3>2. CASE t \notin Deposit
      <4>1. orders' = Append(orders, command) /\ balances' = balances /\ HasRoom(orders, OrderCapacity)
        BY <1>2, <3>2 DEF Send
      <4>. HIDE DEF command
      <4>2. orders' \in Seq(Command) /\ Len(orders') = Len(orders) + 1
        BY <2>1, <4>1, AppendOf DEF QueueTypes
      <4>. QED
        BY <4>1, <4>2, RuntimeAssumption, LenProperties DEF QueueTypes, HasRoom
    <3>. QED
      BY <3>1, <3>2
  <2>4. EngineTypes' /\ AccountTypes' /\ BoundTypes'
    BY <1>2 DEF EngineTypes, AccountTypes, BoundTypes, Send, engine
  <2>. QED
    BY <2>2, <2>3, <2>4, TypesAreNext
<1>3. CASE Panic(t) \/ Return(t)
  <2>1. TaskTypes'
    BY <1>3, MutexTypes DEF Panic, Return, Holder
  <2>2. QueueTypes' /\ EngineTypes' /\ AccountTypes' /\ BoundTypes'
    BY <1>3 DEF QueueTypes, EngineTypes, AccountTypes, BoundTypes, Panic, Return, queues, engine
  <2>. QED
    BY <2>1, <2>2, TypesAreNext
<1>4. CASE TimeOut(t)
  <2>1. TaskTypes'
    BY <1>4, MutexTypes DEF TimeOut, LiveCommandsHaveCallers, Holder
  <2>2. QueueTypes'
    BY <1>4, OrphanedCommands DEF QueueTypes, TimeOut
  <2>3. EngineTypes' /\ AccountTypes' /\ BoundTypes'
    BY <1>4, RuntimeAssumption DEF EngineTypes, AccountTypes, BoundTypes, TimeOut, engine
  <2>. QED
    BY <2>1, <2>2, <2>3, TypesAreNext
<1>. QED
  BY <1>1, <1>2, <1>3, <1>4 DEF TaskStep

(* stop().                                                                 *)
LEMMA StopTypes ==
  ASSUME TypeOK, LiveCommandsHaveCallers, ClearFlag \/ Join
  PROVE  TypeOK'
<1>. USE TypesAre, Kinds
<1>1. CASE ClearFlag
  <2>1. TaskTypes'
    BY <1>1, MutexTypes DEF ClearFlag
  <2>2. QueueTypes' /\ AccountTypes' /\ BoundTypes'
    BY <1>1 DEF QueueTypes, AccountTypes, BoundTypes, ClearFlag, queues
  <2>3. EngineTypes'
    BY <1>1 DEF EngineTypes, ClearFlag
  <2>. QED
    BY <2>1, <2>2, <2>3, TypesAreNext
<1>2. CASE Join
  <2>1. TaskTypes'
    BY <1>2, MutexTypes DEF Join, LiveCommandsHaveCallers, Holder
  <2>2. QueueTypes' /\ EngineTypes' /\ AccountTypes' /\ BoundTypes'
    BY <1>2 DEF QueueTypes, EngineTypes, AccountTypes, BoundTypes, Join, queues, engine
  <2>. QED
    BY <2>1, <2>2, TypesAreNext
<1>. QED
  BY <1>1, <1>2

(* An answer goes to a task.                                               *)
LEMMA AnswerTypes ==
  ASSUME TaskTypes, NEW command \in Command, NEW result \in {"ok", "error"},
         Answer(command, result), mutex' = mutex
  PROVE  TaskTypes'
BY DEF TaskTypes, Answer, Command, PcState, Busy

(* The steps of the engine thread.                                         *)
LEMMA ThreadStepTypes ==
  ASSUME TypeOK, QueueTasks, ThreadStep
  PROVE  TypeOK'
<1>. USE TypesAre
<1>1. CASE TakeBalance
  <2>1. Head(balances) \in Command /\ balances' \in Seq(Command) /\ Len(balances') <= BalanceCapacity
    BY <1>1, TailOf, RuntimeAssumption DEF QueueTypes, TakeBalance
  <2>2. TaskTypes'
    BY <1>1, <2>1, AnswerTypes DEF TakeBalance
  <2>3. QueueTypes' /\ EngineTypes' /\ BoundTypes'
    BY <1>1, <2>1 DEF QueueTypes, EngineTypes, BoundTypes, TakeBalance, engine
  <2>4. AccountTypes'
    BY <1>1 DEF AccountTypes, TakeBalance
  <2>. QED
    BY <2>2, <2>3, <2>4, TypesAreNext
<1>2. CASE BalancesEmpty \/ WaitExpires
  <2>1. TaskTypes' /\ QueueTypes' /\ AccountTypes' /\ BoundTypes'
    BY <1>2 DEF TaskTypes, QueueTypes, AccountTypes, BoundTypes, BalancesEmpty, WaitExpires, queues
  <2>2. EngineTypes'
    BY <1>2 DEF EngineTypes, BalancesEmpty, WaitExpires
  <2>. QED
    BY <2>1, <2>2, TypesAreNext
<1>3. CASE TakeOrder
  <2>. DEFINE t == Head(orders).task
  <2>1. /\ Head(orders) \in Command /\ orders' \in Seq(Command) /\ Len(orders') <= OrderCapacity
        /\ t \in OrderTask
    BY <1>3, TailOf, RuntimeAssumption DEF QueueTypes, TakeOrder, QueueTasks
  <2>2. t[2] \in Order
    BY <2>1, Kinds
  <2>3. TaskTypes'
    <3>1. Outcome(t) \in {"ok", "error"}
      BY DEF Outcome
    <3>. QED
      BY <1>3, <2>1, <3>1, AnswerTypes DEF TakeOrder
  <2>4. QueueTypes' /\ EngineTypes' /\ BoundTypes'
    BY <1>3, <2>1 DEF QueueTypes, EngineTypes, BoundTypes, TakeOrder
  <2>5. AccountTypes'
    <3>0. deposited' = deposited
      BY <1>3 DEF TakeOrder
    <3>1. HandleSubmit(t[2]) => AccountTypes'
      BY <2>2, <3>0 DEF AccountTypes, HandleSubmit, Outcomes
    <3>2. HandleCancel(t[2]) => AccountTypes'
      BY <2>2, <3>0 DEF AccountTypes, HandleCancel, Outcomes
    <3>3. UNCHANGED <<available, order>> => AccountTypes'
      BY <3>0 DEF AccountTypes
    <3>. QED
      BY <1>3, <3>1, <3>2, <3>3 DEF TakeOrder
  <2>. QED
    BY <2>3, <2>4, <2>5, TypesAreNext
<1>4. CASE EndThread
  <2>1. TaskTypes' /\ AccountTypes' /\ BoundTypes'
    BY <1>4 DEF TaskTypes, AccountTypes, BoundTypes, EndThread
  <2>2. QueueTypes'
    <3>1. orders # << >> /\ orders' = Tail(orders)
             => orders' \in Seq(Command) /\ Len(orders') <= OrderCapacity
      BY TailOf, RuntimeAssumption DEF QueueTypes
    <3>. QED
      BY <1>4, <3>1 DEF QueueTypes, EndThread
  <2>3. EngineTypes'
    BY <1>4 DEF EngineTypes, EndThread
  <2>. QED
    BY <2>1, <2>2, <2>3, TypesAreNext
<1>. QED
  BY <1>1, <1>2, <1>3, <1>4 DEF ThreadStep

(* A restart.  Only finitely many orders rest, so that they have a number. *)
LEMMA RestartTypes ==
  ASSUME TypeOK, FiniteHeld, Restart
  PROVE  TypeOK'
<1>. USE TypesAre
<1>1. << >> \in Seq(Task) /\ << >> \in Seq(Command) /\ Len(<< >>) = 0
  BY EmptySeq
<1>2. TaskTypes'
  <2>1. mutex' \in Seq(Task)
    BY <1>1 DEF Restart
  <2>2. pc' \in [Task -> PcState]
    BY DEF Restart, TaskTypes, PcState
  <2>. QED
    BY <2>1, <2>2 DEF TaskTypes
<1>3. QueueTypes'
  BY <1>1, RuntimeAssumption DEF Restart, QueueTypes
<1>4. EngineTypes'
  BY DEF Restart, EngineTypes
<1>5. AccountTypes'
  <2>1. Cardinality(Resting) \in Nat
    BY FS_Subset, FS_CardinalityType DEF FiniteHeld, Held, Resting
  <2>2. available' \in Int /\ deposited' \in Int
    BY <2>1 DEF Restart, AccountTypes
  <2>3. order' \in [Order -> Outcomes]
    BY DEF Restart, AccountTypes, Outcomes
  <2>. QED
    BY <2>2, <2>3 DEF AccountTypes
<1>6. BoundTypes'
  BY RuntimeAssumption DEF Restart, BoundTypes
<1>. QED
  BY <1>2, <1>3, <1>4, <1>5, <1>6, TypesAreNext


-----------------------------------------------------------------------------
(* Live commands and their callers.                                        *)

LiveIn(queue) ==
  \A i \in DOMAIN queue : queue[i].live =>
     pc[queue[i].task] = "reply" /\ Holder(queue[i].task)

WaitersHold == \A t \in Task : pc[t] \in Waiting => Holder(t)

NoneLive ==
  /\ \A i \in DOMAIN orders : ~orders[i].live
  /\ \A i \in DOMAIN balances : ~balances[i].live

LEMMA CallersAre ==
  LiveCommandsHaveCallers <=> LiveIn(orders) /\ LiveIn(balances) /\ WaitersHold
BY DEF LiveCommandsHaveCallers, Commands, LiveIn, WaitersHold, Waiting

LEMMA CallersAreNext ==
  LiveIn(orders)' /\ LiveIn(balances)' /\ WaitersHold' => LiveCommandsHaveCallers'
BY CallersAre, PTL

(* While the holder of the mutex does not wait, no command is live.        *)
LEMMA NobodyWaits ==
  ASSUME LiveCommandsHaveCallers, NEW t \in Task, Holder(t), pc[t] # "reply"
  PROVE  NoneLive
BY CallersAre DEF LiveIn, NoneLive, Holder

(* A caller that gives the mutex back leaves no live command behind.       *)
LEMMA FinishLeavesNone ==
  ASSUME TypeOK, LiveCommandsHaveCallers, NEW t \in Task, Holder(t),
         NEW result \in {"done", "failed"}, Finish(t, result), NoneLive'
  PROVE  OneLive' /\ LiveCommandsHaveCallers'
<1>1. OneLive'
  BY DEF NoneLive, OneLive
<1>2. LiveIn(orders)' /\ LiveIn(balances)'
  BY DEF NoneLive, LiveIn
<1>3. WaitersHold'
  <2>. SUFFICES ASSUME NEW u \in Task, pc'[u] \in Waiting PROVE FALSE
    BY DEF WaitersHold
  <2>1. u # t /\ pc[u] \in Waiting
    BY TypesAre DEF TaskTypes, Finish, Waiting
  <2>2. Holder(u)
    BY <2>1, CallersAre DEF WaitersHold
  <2>. QED
    BY <2>1, <2>2 DEF Holder
<1>. QED
  BY <1>1, <1>2, <1>3, CallersAreNext

(* The steps of a task.                                                    *)
LEMMA TaskStepCallers ==
  ASSUME TypeOK, Callers, NEW t \in Task, Lock(t) \/ TaskStep(t)
  PROVE  Callers'
<1>. USE DEF Callers
<1>1. CASE Lock(t)
  <2>1. UNCHANGED queues /\ t \in Task
    BY <1>1 DEF Lock
  <2>2. QueueTasks' /\ OneLive'
    BY <2>1 DEF QueueTasks, OneLive, queues
  <2>3. \A u \in Task : /\ pc[u] \in Waiting => pc'[u] = pc[u]
                        /\ pc'[u] \in Waiting => pc[u] \in Waiting
    BY <1>1, TypesAre DEF Lock, TaskTypes, Waiting
  <2>4. \A u \in Task : Holder(u) => Holder(u)'
    <3>1. mutex # << >> => mutex' # << >> /\ Head(mutex') = Head(mutex)
      <4>1. mutex \in Seq(Task) /\ mutex' = Append(mutex, t)
        BY <1>1, TypesAre DEF Lock, TaskTypes
      <4>2. mutex' \in Seq(Task) /\ mutex' # << >>
        BY <4>1, AppendOf
      <4>3. ASSUME mutex # << >> PROVE mutex'[1] = mutex[1]
        BY <4>1, <4>3, AppendOf, TailOf
      <4>. QED
        BY <4>1, <4>2, <4>3, TailOf
    <3>. QED
      BY <3>1 DEF Holder
  <2>5. LiveIn(orders)' /\ LiveIn(balances)'
    <3>1. \A i \in DOMAIN orders : orders[i].task \in Task
      BY Kinds DEF QueueTasks, OrderTask
    <3>2. \A i \in DOMAIN balances : balances[i].task \in Task
      BY Kinds DEF QueueTasks
    <3>. QED
      BY <2>1, <2>3, <2>4, <3>1, <3>2, CallersAre DEF LiveIn, queues, Waiting
  <2>6. WaitersHold'
    BY <2>3, <2>4, CallersAre DEF WaitersHold
  <2>. QED
    BY <2>2, <2>5, <2>6, CallersAreNext
<1>2. CASE Send(t)
  <2>. DEFINE command == [task |-> t, live |-> Waits(t)]
  <2>1. /\ command \in Command /\ command.task = t /\ command.live = Waits(t)
        /\ Holder(t) /\ pc[t] = "lock" /\ t # Stop
    BY <1>2 DEF Command, Waits, Send
  <2>2. NoneLive
    BY <2>1, NobodyWaits
  <2>3. /\ orders \in Seq(Command) /\ balances \in Seq(Command)
    BY TypesAre DEF QueueTypes
  <2>4. \/ /\ t \in Deposit /\ balances' = Append(balances, command) /\ orders' = orders
        \/ /\ t \in OrderTask /\ orders' = Append(orders, command) /\ balances' = balances
    BY <1>2, <2>1, Kinds DEF Send
  <2>. HIDE DEF command
  <2>5. QueueTasks'
    <3>1. CASE t \in Deposit /\ balances' = Append(balances, command) /\ orders' = orders
      BY <2>1, <2>3, <3>1, AppendOf DEF QueueTasks
    <3>2. CASE t \in OrderTask /\ orders' = Append(orders, command) /\ balances' = balances
      <4>1. t \in Submit => ~command.live
        BY <2>1 DEF Waits
      <4>2. /\ DOMAIN orders' = 1 .. Len(orders) + 1 /\ DOMAIN orders = 1 .. Len(orders)
            /\ Len(orders) \in Nat /\ orders'[Len(orders) + 1] = command
            /\ \A i \in DOMAIN orders : orders'[i] = orders[i]
        BY <2>1, <2>3, <3>2, AppendOf
      <4>. QED
        BY <2>1, <3>2, <4>1, <4>2 DEF QueueTasks
    <3>. QED
      BY <2>4, <3>1, <3>2
  <2>6. CASE Waits(t)
    <3>1. pc' = [pc EXCEPT ![t] = "reply"] /\ mutex' = mutex
      BY <1>2, <2>6 DEF Send, Await
    <3>2. pc'[t] = "reply" /\ \A u \in Task \ {t} : pc'[u] = pc[u]
      BY <3>1, TypesAre DEF TaskTypes
    <3>3. /\ \A i \in DOMAIN orders' : orders'[i].live =>
               t \in OrderTask /\ i = Len(orders) + 1 /\ orders'[i] = command
          /\ \A i \in DOMAIN balances' : balances'[i].live =>
               t \in Deposit /\ i = Len(balances) + 1 /\ balances'[i] = command
      <4>1. CASE t \in Deposit /\ balances' = Append(balances, command) /\ orders' = orders
        BY <2>1, <2>2, <2>3, <4>1, AppendOf DEF NoneLive
      <4>2. CASE t \in OrderTask /\ orders' = Append(orders, command) /\ balances' = balances
        BY <2>1, <2>2, <2>3, <4>2, AppendOf DEF NoneLive
      <4>. QED
        BY <2>4, <4>1, <4>2
    <3>4. t \notin OrderTask \cap Deposit
      BY Kinds DEF OrderTask
    <3>5. OneLive'
      BY <3>3, <3>4 DEF OneLive
    <3>6. LiveIn(orders)' /\ LiveIn(balances)'
      BY <2>1, <3>1, <3>2, <3>3 DEF LiveIn, Holder
    <3>7. WaitersHold'
      BY <2>1, <3>1, <3>2, CallersAre DEF WaitersHold, Holder
    <3>. QED
      BY <2>5, <3>5, <3>6, <3>7, CallersAreNext
  <2>7. CASE ~Waits(t)
    <3>1. Finish(t, "done")
      BY <1>2, <2>7 DEF Send
    <3>2. NoneLive'
      <4>1. CASE t \in Deposit /\ balances' = Append(balances, command) /\ orders' = orders
        BY <2>1, <2>2, <2>3, <2>7, <4>1, AppendOf DEF NoneLive
      <4>2. CASE t \in OrderTask /\ orders' = Append(orders, command) /\ balances' = balances
        BY <2>1, <2>2, <2>3, <2>7, <4>2, AppendOf DEF NoneLive
      <4>. QED
        BY <2>4, <4>1, <4>2
    <3>. QED
      BY <2>1, <2>5, <3>1, <3>2, FinishLeavesNone
  <2>. QED
    BY <2>6, <2>7
<1>3. CASE Panic(t) \/ Return(t)
  <2>1. UNCHANGED queues /\ Holder(t) /\ pc[t] # "reply"
    BY <1>3 DEF Panic, Return
  <2>2. NoneLive'
    BY <2>1, NobodyWaits DEF NoneLive, queues
  <2>3. QueueTasks'
    BY <2>1 DEF QueueTasks, queues
  <2>4. \E result \in {"done", "failed"} : Finish(t, result)
    BY <1>3 DEF Panic, Return
  <2>. QED
    BY <2>1, <2>2, <2>3, <2>4, FinishLeavesNone
<1>4. CASE TimeOut(t)
  <2>1. Holder(t)
    BY <1>4, CallersAre DEF TimeOut, WaitersHold, Waiting
  <2>2. /\ orders \in Seq(Command) /\ balances \in Seq(Command)
        /\ orders' = Orphaned(orders, t) /\ balances' = Orphaned(balances, t)
    BY <1>4, TypesAre DEF QueueTypes, TimeOut
  <2>3. /\ \A i \in DOMAIN orders : orders[i].live => orders[i].task = t
        /\ \A i \in DOMAIN balances : balances[i].live => balances[i].task = t
    BY <2>1, CallersAre DEF LiveIn, Holder
  <2>4. NoneLive'
    <3>1. \A i \in DOMAIN orders' : ~orders'[i].live
      BY <2>2, <2>3, OrphanedCommands
    <3>2. \A i \in DOMAIN balances' : ~balances'[i].live
      BY <2>2, <2>3, OrphanedCommands
    <3>. QED
      BY <3>1, <3>2 DEF NoneLive
  <2>5. QueueTasks'
    BY <2>2, OrphanedCommands DEF QueueTasks
  <2>. QED
    BY <1>4, <2>1, <2>4, <2>5, FinishLeavesNone DEF TimeOut
<1>. QED
  BY <1>1, <1>2, <1>3, <1>4 DEF TaskStep

(* stop().                                                                 *)
LEMMA StopCallers ==
  ASSUME TypeOK, Callers, ClearFlag \/ Join
  PROVE  Callers'
<1>. USE DEF Callers
<1>1. UNCHANGED queues /\ Stop \in Task
  BY Kinds DEF ClearFlag, Join
<1>2. QueueTasks' /\ OneLive'
  BY <1>1 DEF QueueTasks, OneLive, queues
<1>3. CASE ClearFlag
  <2>1. Holder(Stop) /\ pc[Stop] = "lock" /\ mutex' = mutex
    BY <1>3 DEF ClearFlag, Await
  <2>2. NoneLive
    BY <1>1, <2>1, NobodyWaits
  <2>3. LiveIn(orders)' /\ LiveIn(balances)'
    BY <1>1, <2>2 DEF NoneLive, LiveIn, queues
  <2>4. \A u \in Task \ {Stop} : pc'[u] = pc[u]
    BY <1>3, TypesAre DEF ClearFlag, Await, TaskTypes
  <2>5. WaitersHold'
    BY <2>1, <2>4, CallersAre DEF WaitersHold, Holder
  <2>. QED
    BY <1>2, <2>3, <2>5, CallersAreNext
<1>4. CASE Join
  <2>1. Holder(Stop)
    BY <1>1, <1>4, CallersAre DEF Join, WaitersHold, Waiting
  <2>2. NoneLive
    BY <2>1, CallersAre, Kinds DEF NoneLive, LiveIn, Holder, QueueTasks
  <2>3. NoneLive' /\ Finish(Stop, "done")
    BY <1>1, <1>4, <2>2 DEF NoneLive, queues, Join
  <2>. QED
    BY <1>1, <1>2, <2>1, <2>3, FinishLeavesNone
<1>. QED
  BY <1>3, <1>4


(* The engine thread answers the first command of a queue: if it is live   *)
(* none of the others is.                                                  *)
LEMMA AnswerCallers ==
  ASSUME TypeOK, LiveCommandsHaveCallers, NEW command \in Command,
         NEW result \in {"ok", "error"}, Answer(command, result), mutex' = mutex,
         command.live => Holder(command.task) /\ NoneLive',
         \A i \in DOMAIN orders' : \E j \in DOMAIN orders : orders'[i] = orders[j],
         \A i \in DOMAIN balances' : \E j \in DOMAIN balances : balances'[i] = balances[j]
  PROVE  LiveCommandsHaveCallers'
<1>1. CASE command.live
  <2>1. LiveIn(orders)' /\ LiveIn(balances)'
    BY <1>1 DEF NoneLive, LiveIn
  <2>2. /\ \A u \in Task \ {command.task} : pc'[u] = pc[u]
        /\ Holder(command.task)
    BY <1>1, TypesAre DEF TaskTypes, Answer
  <2>3. WaitersHold'
    BY <2>2, CallersAre DEF WaitersHold, Holder
  <2>. QED
    BY <2>1, <2>3, CallersAreNext
<1>2. CASE ~command.live
  <2>1. pc' = pc
    BY <1>2 DEF Answer
  <2>2. LiveIn(orders)' /\ LiveIn(balances)'
    BY <2>1, CallersAre DEF LiveIn, Holder
  <2>3. WaitersHold'
    BY <2>1, CallersAre DEF WaitersHold, Holder
  <2>. QED
    BY <2>2, <2>3, CallersAreNext
<1>. QED
  BY <1>1, <1>2

(* The steps of the engine thread.                                         *)
LEMMA ThreadStepCallers ==
  ASSUME TypeOK, Callers, ThreadStep
  PROVE  Callers'
<1>. USE DEF Callers
<1>0. orders \in Seq(Command) /\ balances \in Seq(Command)
  BY TypesAre DEF QueueTypes
<1>1. CASE TakeBalance
  <2>. DEFINE command == Head(balances)
  <2>1. /\ command \in Command /\ command = balances[1] /\ 1 \in DOMAIN balances
        /\ \A i \in DOMAIN balances' : i + 1 \in DOMAIN balances /\ i + 1 # 1
                                       /\ balances'[i] = balances[i + 1] /\ i \in Nat
        /\ orders' = orders
    BY <1>0, <1>1, TailOf DEF TakeBalance
  <2>2. Answer(command, "ok") /\ mutex' = mutex
    BY <1>1 DEF TakeBalance
  <2>. HIDE DEF command
  <2>3. command.live => Holder(command.task) /\ NoneLive'
    BY <2>1, CallersAre DEF LiveIn, OneLive, NoneLive
  <2>4. LiveCommandsHaveCallers'
    BY <2>1, <2>2, <2>3, AnswerCallers
  <2>5. QueueTasks'
    BY <2>1 DEF QueueTasks
  <2>6. OneLive'
    <3>1. \A i, j \in DOMAIN balances' : balances'[i].live /\ balances'[j].live => i = j
      BY <2>1 DEF OneLive
    <3>2. \A i \in DOMAIN orders', j \in DOMAIN balances' :
             ~(orders'[i].live /\ balances'[j].live)
      BY <2>1 DEF OneLive
    <3>. QED
      BY <2>1, <3>1, <3>2 DEF OneLive
  <2>. QED
    BY <2>4, <2>5, <2>6
<1>2. CASE BalancesEmpty \/ WaitExpires
  <2>1. UNCHANGED <<mutex, pc, orders, balances>>
    BY <1>2 DEF BalancesEmpty, WaitExpires, queues
  <2>2. LiveIn(orders)' /\ LiveIn(balances)' /\ WaitersHold'
    BY <2>1, CallersAre DEF LiveIn, WaitersHold, Holder
  <2>. QED
    BY <2>1, <2>2, CallersAreNext DEF QueueTasks, OneLive
<1>3. ASSUME orders # << >>, orders' = Tail(orders), balances' = balances, mutex' = mutex
      PROVE  /\ QueueTasks' /\ OneLive'
             /\ \A i \in DOMAIN orders' : \E j \in DOMAIN orders : orders'[i] = orders[j]
             /\ \A i \in DOMAIN balances' : \E j \in DOMAIN balances : balances'[i] = balances[j]
             /\ Head(orders) \in Command
             /\ Head(orders).live => Holder(Head(orders).task) /\ NoneLive'
  <2>. DEFINE command == Head(orders)
  <2>1. /\ command \in Command /\ command = orders[1] /\ 1 \in DOMAIN orders
        /\ \A i \in DOMAIN orders' : i + 1 \in DOMAIN orders /\ i + 1 # 1
                                     /\ orders'[i] = orders[i + 1] /\ i \in Nat
    BY <1>0, <1>3, TailOf
  <2>. HIDE DEF command
  <2>2. command.live => Holder(command.task) /\ NoneLive'
    BY <1>3, <2>1, CallersAre DEF LiveIn, OneLive, NoneLive
  <2>3. QueueTasks'
    BY <1>3, <2>1 DEF QueueTasks
  <2>4. OneLive'
    <3>1. \A i, j \in DOMAIN orders' : orders'[i].live /\ orders'[j].live => i = j
      BY <2>1 DEF OneLive
    <3>2. \A i \in DOMAIN orders', j \in DOMAIN balances' :
             ~(orders'[i].live /\ balances'[j].live)
      BY <1>3, <2>1 DEF OneLive
    <3>. QED
      BY <1>3, <3>1, <3>2 DEF OneLive
  <2>. QED
    BY <1>3, <2>1, <2>2, <2>3, <2>4 DEF command
<1>4. CASE TakeOrder
  <2>1. \E result \in {"ok", "error"} : Answer(Head(orders), result)
    <3>1. Outcome(Head(orders).task) \in {"ok", "error"}
      BY DEF Outcome
    <3>. QED
      BY <1>4, <3>1 DEF TakeOrder
  <2>2. orders # << >> /\ orders' = Tail(orders) /\ balances' = balances /\ mutex' = mutex
    BY <1>4 DEF TakeOrder
  <2>. QED
    BY <1>3, <2>1, <2>2, AnswerCallers
<1>5. CASE EndThread
  <2>1. UNCHANGED <<mutex, pc, balances>>
    BY <1>5 DEF EndThread
  <2>2. CASE orders' = orders
    <3>1. LiveIn(orders)' /\ LiveIn(balances)' /\ WaitersHold'
      BY <2>1, <2>2, CallersAre DEF LiveIn, WaitersHold, Holder
    <3>. QED
      BY <2>1, <2>2, <3>1, CallersAreNext DEF QueueTasks, OneLive
  <2>3. CASE orders # << >> /\ orders' = Tail(orders)
    <3>1. /\ QueueTasks' /\ OneLive'
          /\ \A i \in DOMAIN orders' : \E j \in DOMAIN orders : orders'[i] = orders[j]
      BY <1>3, <2>1, <2>3
    <3>2. LiveIn(orders)' /\ LiveIn(balances)' /\ WaitersHold'
      BY <2>1, <3>1, CallersAre DEF LiveIn, WaitersHold, Holder
    <3>. QED
      BY <3>1, <3>2, CallersAreNext
  <2>. QED
    BY <1>5, <2>2, <2>3 DEF EndThread
<1>. QED
  BY <1>1, <1>2, <1>4, <1>5 DEF ThreadStep

(* After a restart nobody waits.                                           *)
LEMMA RestartCallers ==
  ASSUME TypeOK, Restart
  PROVE  Callers'
<1>1. DOMAIN orders' = {} /\ DOMAIN balances' = {}
  BY EmptySeq, LenProperties DEF Restart
<1>2. \A t \in Task : pc'[t] \notin Waiting
  BY DEF Restart, Lost, Waiting
<1>3. LiveIn(orders)' /\ LiveIn(balances)' /\ WaitersHold'
  BY <1>1, <1>2 DEF LiveIn, WaitersHold
<1>. QED
  BY <1>1, <1>3, CallersAreNext DEF Callers, QueueTasks, OneLive

-----------------------------------------------------------------------------
(* Submissions and cancellations.                                          *)

(* No step takes back what the invariant says of orders if it sends no     *)
(* submission and no order's state and no submission's place changes.      *)
LEMMA SubmittedOnceKept ==
  ASSUME SubmittedOnce, order' = order,
         \A t \in Submit : pc'[t] = pc[t],
         \A i \in DOMAIN orders' : orders'[i].task \in Submit =>
           i \in DOMAIN orders /\ orders'[i].task = orders[i].task
  PROVE  SubmittedOnce'
<1>1. \A i \in DOMAIN orders' : orders'[i].task \in Submit =>
        pc'[orders'[i].task] = "done" /\ order'[orders'[i].task[2]] = "none"
  BY DEF SubmittedOnce
<1>2. \A i, j \in DOMAIN orders' :
        orders'[i].task \in Submit /\ orders'[i].task = orders'[j].task => i = j
  BY DEF SubmittedOnce
<1>3. \A o \in Order : pc'[<<"submit", o>>] \in {"idle", "lock"} => order'[o] = "none"
  BY Kinds DEF SubmittedOnce
<1>. QED
  BY <1>1, <1>2, <1>3 DEF SubmittedOnce

(* The same for confirmed cancellations.                                   *)
LEMMA OrdersKept ==
  ASSUME CancelIsFinal, order' = order,
         \A t \in Cancel : pc'[t] \in {"ok", "done"} => pc[t] \in {"ok", "done"}
  PROVE  CancelIsFinal'
BY Kinds DEF CancelIsFinal

(* Steps of a task.                                                        *)
LEMMA TaskStepOrders ==
  ASSUME TypeOK, Callers, SubmittedOnce, CancelIsFinal,
         NEW t \in Task, Lock(t) \/ TaskStep(t)
  PROVE  SubmittedOnce' /\ CancelIsFinal'
<1>0. /\ pc \in [Task -> PcState] /\ orders \in Seq(Command) /\ order' = order
  BY TypesAre DEF TaskTypes, QueueTypes, Lock, TaskStep, Send, Panic, Return, TimeOut
<1>1. \A u \in Task \ {t} : pc'[u] = pc[u]
  <2>1. \E state : pc' = [pc EXCEPT ![t] = state]
    BY DEF Lock, TaskStep, Send, Panic, Return, TimeOut, Finish, Await
  <2>. QED
    BY <1>0, <2>1
<1>2. CancelIsFinal'
  <2>1. ASSUME NEW u \in Cancel, pc'[u] \in {"ok", "done"}
        PROVE  pc[u] \in {"ok", "done"}
    <3>1. u \in Task /\ u \notin Submit /\ u \notin Deposit
      BY Kinds
    <3>2. CASE u # t
      BY <1>1, <2>1, <3>1, <3>2
    <3>3. CASE u = t
      <4>1. ~Lock(t) /\ ~Panic(t) /\ ~TimeOut(t)
        BY <1>0, <2>1, <3>1, <3>3 DEF Lock, Panic, TimeOut, Finish
      <4>2. ~Send(t)
        BY <1>0, <2>1, <3>1, <3>3 DEF Send, Waits, Await
      <4>3. Return(t)
        BY <4>1, <4>2 DEF TaskStep
      <4>. QED
        BY <1>0, <2>1, <3>1, <3>3, <4>3 DEF Return, Finish
    <3>. QED
      BY <3>2, <3>3
  <2>. QED
    BY <1>0, <2>1, OrdersKept
<1>3. CASE t \notin Submit
  <2>1. \A u \in Submit : pc'[u] = pc[u]
    BY <1>1, <1>3, Kinds
  <2>2. ASSUME NEW i \in DOMAIN orders', orders'[i].task \in Submit
        PROVE  i \in DOMAIN orders /\ orders'[i].task = orders[i].task
    <3>1. CASE orders' = orders
      BY <3>1
    <3>2. CASE orders' = Orphaned(orders, t)
      BY <1>0, <3>2, OrphanedCommands
    <3>3. CASE orders' = Append(orders, [task |-> t, live |-> Waits(t)])
      <4>. DEFINE command == [task |-> t, live |-> Waits(t)]
      <4>1. command \in Command /\ command.task = t
        BY DEF Command, Waits
      <4>2. orders' = Append(orders, command)
        BY <3>3
      <4>. HIDE DEF command
      <4>. QED
        BY <1>0, <1>3, <2>2, <4>1, <4>2, AppendOf
    <3>. QED
      <4>1. Lock(t) \/ Panic(t) \/ Return(t) => orders' = orders
        BY DEF Lock, Panic, Return, queues
      <4>2. TimeOut(t) => orders' = Orphaned(orders, t)
        BY DEF TimeOut
      <4>3. Send(t) => \/ orders' = orders
                       \/ orders' = Append(orders, [task |-> t, live |-> Waits(t)])
        BY DEF Send
      <4>. QED
        BY <3>1, <3>2, <3>3, <4>1, <4>2, <4>3 DEF TaskStep
  <2>. QED
    BY <1>0, <1>2, <2>1, <2>2, SubmittedOnceKept
<1>4. CASE t \in Submit
  <2>0. /\ t \in OrderTask /\ t = <<"submit", t[2]>> /\ t[2] \in Order /\ t \notin Deposit
        /\ \A o \in Order : <<"submit", o>> \in Task
    BY <1>4, Kinds DEF OrderTask
  <2>1. CASE Lock(t)
    <3>1. orders' = orders /\ pc[t] = "idle" /\ pc'[t] = "lock"
      BY <1>0, <2>1 DEF Lock, queues
    <3>. QED
      BY <1>0, <1>1, <1>2, <2>0, <3>1, Kinds, SMTT(30)
         DEF SubmittedOnce, Callers, QueueTasks, OrderTask
  <2>2. CASE Send(t)
    <3>. DEFINE command == [task |-> t, live |-> Waits(t)]
    <3>1. command \in Command /\ command.task = t
      BY DEF Command, Waits
    <3>2. orders' = Append(orders, command) /\ pc[t] = "lock" /\ pc'[t] = "done"
      BY <1>0, <1>4, <2>0, <2>2 DEF Send, Waits, Finish
    <3>. HIDE DEF command
    <3>3. order[t[2]] = "none"
      BY <2>0, <3>2 DEF SubmittedOnce
    <3>4. \A i \in DOMAIN orders : orders[i].task # t
      BY <1>4, <3>2 DEF SubmittedOnce
    <3>5. /\ DOMAIN orders' = 1 .. Len(orders) + 1 /\ DOMAIN orders = 1 .. Len(orders)
          /\ Len(orders) \in Nat /\ orders'[Len(orders) + 1].task = t
          /\ \A i \in DOMAIN orders : orders'[i] = orders[i]
      BY <1>0, <3>1, <3>2, AppendOf
    <3>6. \A i \in DOMAIN orders' : orders'[i].task \in Submit =>
            pc'[orders'[i].task] = "done" /\ order'[orders'[i].task[2]] = "none"
      BY <1>0, <1>1, <3>2, <3>3, <3>5, Kinds DEF SubmittedOnce
    <3>7. \A i, j \in DOMAIN orders' :
            orders'[i].task \in Submit /\ orders'[i].task = orders'[j].task => i = j
      BY <3>4, <3>5 DEF SubmittedOnce
    <3>8. \A o \in Order : pc'[<<"submit", o>>] \in {"idle", "lock"} => order'[o] = "none"
      BY <1>0, <1>1, <2>0, <3>3, <3>2 DEF SubmittedOnce
    <3>. QED
      BY <1>2, <3>6, <3>7, <3>8 DEF SubmittedOnce
  <2>3. CASE Panic(t) \/ Return(t) \/ TimeOut(t)
    <3>1. pc'[t] \in {"done", "failed"} /\ pc[t] # "done"
      BY <1>0, <2>0, <2>3 DEF Panic, Return, TimeOut, Finish
    <3>2. /\ DOMAIN orders' = DOMAIN orders
          /\ \A i \in DOMAIN orders : orders'[i].task = orders[i].task
      <4>1. orders' = orders \/ orders' = Orphaned(orders, t)
        BY <2>3 DEF Panic, Return, TimeOut, queues
      <4>. QED
        BY <1>0, <4>1, OrphanedCommands
    <3>3. \A i \in DOMAIN orders : orders[i].task # t
      BY <1>4, <3>1 DEF SubmittedOnce
    <3>4. \A i \in DOMAIN orders' : orders'[i].task \in Submit =>
            pc'[orders'[i].task] = "done" /\ order'[orders'[i].task[2]] = "none"
      BY <1>0, <1>1, <3>2, <3>3, Kinds DEF SubmittedOnce
    <3>5. \A i, j \in DOMAIN orders' :
            orders'[i].task \in Submit /\ orders'[i].task = orders'[j].task => i = j
      BY <3>2 DEF SubmittedOnce
    <3>6. \A o \in Order : pc'[<<"submit", o>>] \in {"idle", "lock"} => order'[o] = "none"
      BY <1>0, <1>1, <2>0, <3>1 DEF SubmittedOnce
    <3>. QED
      BY <1>2, <3>4, <3>5, <3>6 DEF SubmittedOnce
  <2>. QED
    BY <2>1, <2>2, <2>3 DEF TaskStep
<1>. QED
  BY <1>2, <1>3, <1>4


(* stop() and the steps of the thread that only look.                      *)
LEMMA OtherStepsOrders ==
  ASSUME TypeOK, SubmittedOnce, CancelIsFinal,
         ClearFlag \/ Join \/ TakeBalance \/ BalancesEmpty \/ WaitExpires \/ EndThread,
         QueueTasks
  PROVE  SubmittedOnce' /\ CancelIsFinal'
<1>0. /\ pc \in [Task -> PcState] /\ order' = order
      /\ orders \in Seq(Command) /\ balances \in Seq(Command)
  BY TypesAre DEF TaskTypes, QueueTypes, ClearFlag, Join, TakeBalance, BalancesEmpty,
                  WaitExpires, EndThread
<1>1. \A t \in Submit \cup Cancel : pc'[t] = pc[t]
  <2>. SUFFICES ASSUME NEW t \in Submit \cup Cancel PROVE pc'[t] = pc[t]
    OBVIOUS
  <2>1. t \in Task /\ t # Stop /\ t \notin Deposit
    BY Kinds DEF OrderTask
  <2>2. CASE ClearFlag \/ Join
    BY <1>0, <2>1, <2>2 DEF ClearFlag, Join, Await, Finish
  <2>3. CASE TakeBalance
    <3>1. Head(balances).task \in Deposit
      BY <1>0, <2>3, TailOf DEF TakeBalance, QueueTasks
    <3>. QED
      BY <1>0, <2>1, <2>3, <3>1 DEF TakeBalance, Answer
  <2>4. CASE BalancesEmpty \/ WaitExpires \/ EndThread
    BY <2>4 DEF BalancesEmpty, WaitExpires, EndThread
  <2>. QED
    BY <2>2, <2>3, <2>4
<1>2. CancelIsFinal'
  BY <1>0, <1>1, OrdersKept
<1>3. CASE orders' = orders
  BY <1>0, <1>1, <1>2, <1>3, SubmittedOnceKept
<1>4. CASE orders # << >> /\ orders' = Tail(orders)
  <2>1. \A i \in DOMAIN orders' : i \in Nat /\ i + 1 \in DOMAIN orders
                                  /\ orders'[i] = orders[i + 1]
    BY <1>0, <1>4, TailOf
  <2>2. \A i \in DOMAIN orders' : orders'[i].task \in Submit =>
          pc'[orders'[i].task] = "done" /\ order'[orders'[i].task[2]] = "none"
    BY <1>0, <1>1, <2>1 DEF SubmittedOnce
  <2>3. \A i, j \in DOMAIN orders' :
          orders'[i].task \in Submit /\ orders'[i].task = orders'[j].task => i = j
    BY <2>1 DEF SubmittedOnce
  <2>4. \A o \in Order : pc'[<<"submit", o>>] \in {"idle", "lock"} => order'[o] = "none"
    BY <1>0, <1>1, Kinds DEF SubmittedOnce
  <2>. QED
    BY <1>2, <2>2, <2>3, <2>4 DEF SubmittedOnce
<1>. QED
  BY <1>3, <1>4 DEF ClearFlag, Join, TakeBalance, BalancesEmpty, WaitExpires, EndThread, queues

(* The step that makes something of an order: a submission finds an order  *)
(* the engine does not know, a cancellation one that rests.                *)
LEMMA TakeOrderOrders ==
  ASSUME TypeOK, QueueTasks, SubmittedOnce, CancelIsFinal, TakeOrder
  PROVE  SubmittedOnce' /\ CancelIsFinal'
<1>. DEFINE command == Head(orders)
            t == command.task
            o == t[2]
<1>0. /\ pc \in [Task -> PcState] /\ orders \in Seq(Command)
      /\ order \in [Order -> Outcomes]
  BY TypesAre DEF TaskTypes, QueueTypes, AccountTypes
<1>1. /\ command \in Command /\ command = orders[1] /\ 1 \in DOMAIN orders
      /\ \A i \in DOMAIN orders' : i \in Nat /\ i + 1 \in DOMAIN orders /\ i + 1 # 1
                                   /\ orders'[i] = orders[i + 1]
  BY <1>0, TailOf DEF TakeOrder
<1>2. t \in OrderTask /\ o \in Order /\ t \in Task
  BY <1>1, Kinds DEF QueueTasks, OrderTask
<1>3. \A u \in Task : pc'[u] = IF command.live /\ u = t THEN Outcome(t) ELSE pc[u]
  BY <1>0, <1>2 DEF TakeOrder, Answer
<1>4. \A u \in Submit : pc'[u] = pc[u]
  BY <1>1, <1>3, Kinds DEF QueueTasks
<1>5. \A u \in Cancel \ {t} : pc'[u] = pc[u]
  BY <1>3, Kinds
<1>6. CASE t \in Submit
  <2>1. t = <<"submit", o>> /\ order[o] = "none" /\ pc[t] = "done"
    BY <1>1, <1>6, Kinds DEF SubmittedOnce
  <2>2. \E result \in {"resting", "filled", "rejected"} :
          order' = [order EXCEPT ![o] = result]
    BY <1>6, Kinds DEF TakeOrder, HandleSubmit
  <2>3. \A p \in Order \ {o} : order'[p] = order[p]
    BY <1>0, <2>2
  <2>4. \A i \in DOMAIN orders' : orders'[i].task # t
    BY <1>1, <1>6 DEF SubmittedOnce
  <2>5. SubmittedOnce'
    <3>1. ASSUME NEW i \in DOMAIN orders', orders'[i].task \in Submit
          PROVE  pc'[orders'[i].task] = "done" /\ order'[orders'[i].task[2]] = "none"
      <4>1. i + 1 \in DOMAIN orders /\ orders'[i] = orders[i + 1] /\ orders'[i].task # t
        BY <1>1, <2>4
      <4>2. orders'[i].task[2] \in Order /\ orders'[i].task[2] # o
        BY <2>1, <3>1, <4>1, Kinds DEF OrderTask
      <4>. QED
        BY <1>4, <2>3, <3>1, <4>1, <4>2 DEF SubmittedOnce
    <3>2. \A i, j \in DOMAIN orders' :
            orders'[i].task \in Submit /\ orders'[i].task = orders'[j].task => i = j
      BY <1>1 DEF SubmittedOnce
    <3>3. \A p \in Order : pc'[<<"submit", p>>] \in {"idle", "lock"} => order'[p] = "none"
      <4>. SUFFICES ASSUME NEW p \in Order, pc'[<<"submit", p>>] \in {"idle", "lock"}
                    PROVE  order'[p] = "none"
        OBVIOUS
      <4>1. pc[<<"submit", p>>] \in {"idle", "lock"}
        BY <1>4, Kinds
      <4>2. p # o
        BY <2>1, <4>1
      <4>. QED
        BY <2>3, <4>1, <4>2 DEF SubmittedOnce
    <3>. QED
      BY <3>1, <3>2, <3>3 DEF SubmittedOnce
  <2>6. CancelIsFinal'
    <3>1. t \notin Cancel
      BY <1>6, Kinds
    <3>2. \A u \in Cancel : pc'[u] = pc[u]
      BY <1>5, <3>1
    <3>3. \A p \in Order : pc'[<<"cancel", p>>] = pc[<<"cancel", p>>]
      BY <3>2, Kinds
    <3>. QED
      BY <2>1, <2>3, <3>3 DEF CancelIsFinal
  <2>. QED
    BY <2>5, <2>6
<1>7. CASE t \in Cancel /\ order[o] = "resting"
  <2>1. t = <<"cancel", o>> /\ order' = [order EXCEPT ![o] = "cancelled"]
    BY <1>7, Kinds DEF TakeOrder, HandleCancel
  <2>2. order'[o] = "cancelled" /\ \A p \in Order \ {o} : order'[p] = order[p]
    BY <1>0, <1>2, <2>1
  <2>3. SubmittedOnce'
    <3>1. ASSUME NEW i \in DOMAIN orders', orders'[i].task \in Submit
          PROVE  pc'[orders'[i].task] = "done" /\ order'[orders'[i].task[2]] = "none"
      <4>1. i + 1 \in DOMAIN orders /\ orders'[i] = orders[i + 1]
        BY <1>1
      <4>2. orders'[i].task[2] \in Order /\ order[orders'[i].task[2]] = "none"
        BY <3>1, <4>1, Kinds DEF SubmittedOnce, OrderTask
      <4>. QED
        BY <1>4, <1>7, <2>2, <3>1, <4>1, <4>2 DEF SubmittedOnce
    <3>2. \A i, j \in DOMAIN orders' :
            orders'[i].task \in Submit /\ orders'[i].task = orders'[j].task => i = j
      BY <1>1 DEF SubmittedOnce
    <3>3. \A p \in Order : pc'[<<"submit", p>>] \in {"idle", "lock"} => order'[p] = "none"
      <4>. SUFFICES ASSUME NEW p \in Order, pc'[<<"submit", p>>] \in {"idle", "lock"}
                    PROVE  order'[p] = "none"
        OBVIOUS
      <4>1. order[p] = "none"
        BY <1>4, Kinds DEF SubmittedOnce
      <4>2. p # o
        BY <1>7, <4>1
      <4>. QED
        BY <2>2, <4>1, <4>2
    <3>. QED
      BY <3>1, <3>2, <3>3 DEF SubmittedOnce
  <2>4. CancelIsFinal'
    BY <1>5, <2>1, <2>2, Kinds, ZenonT(30) DEF CancelIsFinal
  <2>. QED
    BY <2>3, <2>4
<1>8. CASE t \notin Submit /\ (t \in Cancel => order[o] # "resting")
  <2>1. order' = order
    BY <1>8 DEF TakeOrder, HandleCancel
  <2>2. \A u \in Cancel : pc'[u] \in {"ok", "done"} => pc[u] \in {"ok", "done"}
    <3>1. t \in Cancel => Outcome(t) = "error"
      BY <1>8, Kinds DEF Outcome
    <3>. QED
      BY <1>3, <1>5, <3>1, Kinds
  <2>3. SubmittedOnce'
    <3>1. \A i \in DOMAIN orders' : orders'[i].task \in Submit =>
            pc'[orders'[i].task] = "done" /\ order'[orders'[i].task[2]] = "none"
      BY <1>1, <1>4, <2>1 DEF SubmittedOnce
    <3>2. \A i, j \in DOMAIN orders' :
            orders'[i].task \in Submit /\ orders'[i].task = orders'[j].task => i = j
      BY <1>1 DEF SubmittedOnce
    <3>3. \A p \in Order : pc'[<<"submit", p>>] \in {"idle", "lock"} => order'[p] = "none"
      BY <1>4, <2>1, Kinds DEF SubmittedOnce
    <3>. QED
      BY <3>1, <3>2, <3>3 DEF SubmittedOnce
  <2>. QED
    BY <2>1, <2>2, <2>3, OrdersKept
<1>. QED
  BY <1>6, <1>7, <1>8

(* A restart forgets resting orders and every submission on its way.       *)
LEMMA RestartOrders ==
  ASSUME TypeOK, SubmittedOnce, CancelIsFinal, Restart
  PROVE  SubmittedOnce' /\ CancelIsFinal'
<1>0. DOMAIN orders' = {} /\ order \in [Order -> Outcomes]
  BY EmptySeq, LenProperties, TypesAre DEF Restart, AccountTypes
<1>1. \A o \in Order :
        order'[o] = IF order[o] = "resting" THEN "forgotten" ELSE order[o]
  BY <1>0 DEF Restart, Resting
<1>2. \A t \in Submit \cup Cancel :
        /\ pc'[t] \in {"idle", "lock"} => pc[t] = "idle"
        /\ pc'[t] \in {"ok", "done"} => pc[t] = "done"
  <2>1. \A t \in Submit \cup Cancel :
          t \in Task /\ pc'[t] = IF Lost(t) THEN "failed" ELSE pc[t]
    BY Kinds DEF Restart, OrderTask
  <2>. QED
    BY <2>1 DEF Lost
<1>3. SubmittedOnce'
  BY <1>0, <1>1, <1>2, Kinds DEF SubmittedOnce
<1>4. CancelIsFinal'
  BY <1>1, <1>2, Kinds DEF CancelIsFinal
<1>. QED
  BY <1>3, <1>4

-----------------------------------------------------------------------------
(* The account.                                                            *)

(* As long as no order changes, what the orders hold does not either.      *)
LEMMA HeldKept ==
  ASSUME FiniteHeld, FundsAccounted, order' = order, available' = available,
         deposited' = deposited
  PROVE  FiniteHeld' /\ FundsAccounted'
BY DEF FiniteHeld, FundsAccounted, Held

(* An order that starts or ceases to hold its unit.                        *)
LEMMA HeldChanges ==
  ASSUME FiniteHeld, order \in [Order -> Outcomes], NEW o \in Order, NEW outcome,
         order' = [order EXCEPT ![o] = outcome]
  PROVE  /\ FiniteHeld' /\ Cardinality(Held) \in Nat
         /\ o \notin Held /\ outcome \in {"resting", "filled"} =>
              Cardinality(Held') = Cardinality(Held) + 1
         /\ o \in Held /\ outcome \notin {"resting", "filled"} =>
              Cardinality(Held') = Cardinality(Held) - 1
         /\ o \notin Held /\ outcome \notin {"resting", "filled"} => Held' = Held
<1>1. \A p \in Order : order'[p] = IF p = o THEN outcome ELSE order[p]
  OBVIOUS
<1>2. Held' = IF outcome \in {"resting", "filled"} THEN Held \cup {o} ELSE Held \ {o}
  BY <1>1 DEF Held
<1>3. /\ IsFiniteSet(Held \cup {o}) /\ IsFiniteSet(Held \ {o})
      /\ Cardinality(Held) \in Nat
      /\ o \notin Held => Cardinality(Held \cup {o}) = Cardinality(Held) + 1
      /\ o \in Held => Cardinality(Held \ {o}) = Cardinality(Held) - 1
  BY FS_AddElement, FS_RemoveElement, FS_CardinalityType DEF FiniteHeld
<1>4. o \notin Held => Held \ {o} = Held
  OBVIOUS
<1>. QED
  BY <1>2, <1>3, <1>4 DEF FiniteHeld

(* Funds are taken only as far as they are there, clamped at zero, and     *)
(* given back by an order that held them.                                  *)
LEMMA StepFunds ==
  ASSUME TypeOK, QueueTasks, SubmittedOnce, FiniteHeld, FundsAccounted, [Next]_vars
  PROVE  FiniteHeld' /\ FundsAccounted'
<1>0. /\ available \in Int /\ deposited \in Int /\ InitFunds \in Int
      /\ order \in [Order -> Outcomes] /\ Cardinality(Held) \in Nat
  BY TypesAre, RuntimeAssumption, FS_CardinalityType DEF AccountTypes, FiniteHeld
<1>1. \/ order' = order /\ available' = available /\ deposited' = deposited
      \/ TakeBalance \/ TakeOrder \/ Restart
  BY DEF Next, Lock, TaskStep, Send, Panic, Return, TimeOut, ClearFlag, Join, ThreadStep,
         BalancesEmpty, WaitExpires, EndThread, vars
<1>2. CASE order' = order /\ available' = available /\ deposited' = deposited
  BY <1>2, HeldKept
<1>3. CASE TakeBalance
  <2>1. /\ order' = order /\ deposited' = deposited + available' - available
        /\ \E delta \in {-1, 1} :
             available' = IF available + delta < 0 THEN 0 ELSE available + delta
    BY <1>3 DEF TakeBalance
  <2>2. available' \in Int /\ available' >= 0
    BY <1>0, <2>1
  <2>3. Held' = Held
    BY <2>1 DEF Held
  <2>. QED
    BY <1>0, <2>1, <2>2, <2>3 DEF FiniteHeld, FundsAccounted
<1>4. CASE TakeOrder
  <2>. DEFINE t == Head(orders).task
              o == t[2]
  <2>1. Head(orders) = orders[1] /\ 1 \in DOMAIN orders
    BY <1>4, TypesAre, TailOf DEF TakeOrder, QueueTypes
  <2>2. t \in OrderTask /\ o \in Order /\ deposited' = deposited
    BY <1>4, <2>1, Kinds DEF QueueTasks, TakeOrder
  <2>3. CASE t \in Submit /\ CanLock(o)
    <3>1. o \notin Held
      BY <2>1, <2>3 DEF SubmittedOnce, Held
    <3>2. PICK result \in {"resting", "filled"} : order' = [order EXCEPT ![o] = result]
      BY <1>4, <2>3, Kinds DEF TakeOrder, HandleSubmit
    <3>3. available' = available - 1 /\ available >= 1
      BY <1>4, <2>3, Kinds DEF TakeOrder, HandleSubmit, CanLock
    <3>4. FiniteHeld' /\ Cardinality(Held') = Cardinality(Held) + 1
      BY <1>0, <2>2, <3>1, <3>2, HeldChanges
    <3>. QED
      BY <1>0, <2>2, <3>3, <3>4 DEF FundsAccounted
  <2>4. CASE t \in Submit /\ ~CanLock(o)
    <3>1. o \notin Held
      BY <2>1, <2>4 DEF SubmittedOnce, Held
    <3>2. order' = [order EXCEPT ![o] = "rejected"] /\ available' = available
      BY <1>4, <2>4, Kinds DEF TakeOrder, HandleSubmit
    <3>3. PICK outcome : outcome = "rejected" /\ outcome \notin {"resting", "filled"}
      OBVIOUS
    <3>4. FiniteHeld' /\ Held' = Held
      BY <1>0, <2>2, <3>1, <3>2, <3>3, HeldChanges
    <3>. QED
      BY <2>2, <3>2, <3>4 DEF FundsAccounted
  <2>5. CASE t \in Cancel /\ order[o] = "resting"
    <3>1. o \in Held
      BY <2>2, <2>5 DEF Held
    <3>2. order' = [order EXCEPT ![o] = "cancelled"] /\ available' = available + 1
      BY <1>4, <2>5, Kinds DEF TakeOrder, HandleCancel
    <3>3. PICK outcome : outcome = "cancelled" /\ outcome \notin {"resting", "filled"}
      OBVIOUS
    <3>4. FiniteHeld' /\ Cardinality(Held') = Cardinality(Held) - 1
      BY <1>0, <2>2, <3>1, <3>2, <3>3, HeldChanges
    <3>. QED
      BY <1>0, <2>2, <3>2, <3>4 DEF FundsAccounted
  <2>6. CASE t \notin Submit /\ ~(t \in Cancel /\ order[o] = "resting")
    <3>1. order' = order /\ available' = available
      BY <1>4, <2>6 DEF TakeOrder, HandleCancel
    <3>. QED
      BY <2>2, <3>1, HeldKept
  <2>. QED
    BY <2>3, <2>4, <2>5, <2>6
<1>5. CASE Restart
  <2>1. \A o \in Order : order'[o] = IF o \in Resting THEN "forgotten" ELSE order[o]
    BY <1>5 DEF Restart
  <2>2. Resting \subseteq Held /\ Held' = Held \ Resting
    BY <2>1 DEF Held, Resting
  <2>3. /\ IsFiniteSet(Resting) /\ Cardinality(Resting) \in Nat /\ IsFiniteSet(Held')
        /\ Cardinality(Held') = Cardinality(Held) - Cardinality(Resting)
    <3>1. IsFiniteSet(Resting) /\ Cardinality(Resting) \in Nat
      BY <2>2, FS_Subset, FS_CardinalityType DEF FiniteHeld
    <3>2. /\ IsFiniteSet(Held \ Resting)
          /\ Cardinality(Held \ Resting) = Cardinality(Held) - Cardinality(Held \cap Resting)
      BY FS_Difference DEF FiniteHeld
    <3>3. Held \cap Resting = Resting
      BY <2>2
    <3>. QED
      BY <2>2, <3>1, <3>2, <3>3
  <2>4. available' = available + Cardinality(Resting) /\ deposited' = deposited
    BY <1>5 DEF Restart
  <2>5. PICK m \in Nat, n \in Int : m = Cardinality(Resting) /\ n = Cardinality(Held)
    BY <1>0, <2>3
  <2>6. /\ available >= 0 /\ available + n = InitFunds + deposited
        /\ available' = available + m /\ Cardinality(Held') = n - m
    BY <2>3, <2>4, <2>5 DEF FundsAccounted
  <2>7. available' >= 0 /\ available' + (n - m) = InitFunds + deposited
    BY <1>0, <2>6
  <2>. QED
    BY <2>3, <2>4, <2>6, <2>7 DEF FiniteHeld, FundsAccounted
<1>. QED
  BY <1>1, <1>2, <1>3, <1>4, <1>5

-----------------------------------------------------------------------------
(* The theorems.                                                           *)

LEMMA InitInvariant == Init => IInv
<1>. SUFFICES ASSUME Init PROVE IInv
  OBVIOUS
<1>1. /\ << >> \in Seq(Task) /\ << >> \in Seq(Command) /\ Len(<< >>) = 0
      /\ DOMAIN << >> = {}
  BY EmptySeq, LenProperties
<1>2. TypeOK
  <2>1. TaskTypes
    BY <1>1 DEF Init, TaskTypes, PcState
  <2>2. QueueTypes
    BY <1>1, RuntimeAssumption DEF Init, QueueTypes
  <2>3. EngineTypes
    BY DEF Init, EngineTypes
  <2>4. AccountTypes
    BY RuntimeAssumption DEF Init, AccountTypes, Outcomes
  <2>5. BoundTypes
    BY RuntimeAssumption DEF Init, BoundTypes
  <2>. QED
    BY <2>1, <2>2, <2>3, <2>4, <2>5, TypesAre
<1>3. DOMAIN orders = {} /\ DOMAIN balances = {}
  BY <1>1 DEF Init
<1>4. Callers
  <2>1. LiveIn(orders) /\ LiveIn(balances)
    BY <1>3 DEF LiveIn
  <2>2. WaitersHold
    BY DEF Init, WaitersHold, Waiting
  <2>. QED
    BY <1>3, <2>1, <2>2, CallersAre DEF Callers, QueueTasks, OneLive
<1>5. SubmittedOnce
  BY <1>3 DEF Init, SubmittedOnce
<1>6. CancelIsFinal
  BY Kinds DEF Init, CancelIsFinal
<1>7. FiniteHeld /\ FundsAccounted
  <2>1. Held = {}
    BY DEF Init, Held
  <2>2. IsFiniteSet({}) /\ Cardinality({}) = 0
    BY FS_EmptySet
  <2>. QED
    BY <2>1, <2>2, RuntimeAssumption DEF Init, FiniteHeld, FundsAccounted
<1>. QED
  BY <1>2, <1>4, <1>5, <1>6, <1>7 DEF IInv

LEMMA StepInvariant == IInv /\ [Next]_vars => IInv'
<1>. SUFFICES ASSUME IInv, [Next]_vars PROVE IInv'
  OBVIOUS
<1>. USE DEF IInv
<1>0. FiniteHeld' /\ FundsAccounted' /\ LiveCommandsHaveCallers /\ QueueTasks
  BY StepFunds DEF Callers
<1>1. ASSUME NEW t \in Task, Lock(t) \/ TaskStep(t) PROVE IInv'
  BY <1>0, <1>1, TaskStepTypes, TaskStepCallers, TaskStepOrders
<1>2. CASE ClearFlag \/ Join
  BY <1>0, <1>2, StopTypes, StopCallers, OtherStepsOrders
<1>3. CASE ThreadStep
  <2>1. TypeOK' /\ Callers'
    BY <1>0, <1>3, ThreadStepTypes, ThreadStepCallers
  <2>. QED
    BY <1>0, <1>3, <2>1, OtherStepsOrders, TakeOrderOrders DEF ThreadStep
<1>4. CASE Restart
  BY <1>0, <1>4, RestartTypes, RestartCallers, RestartOrders
<1>5. CASE UNCHANGED vars
  <2>1. UNCHANGED <<mutex, pc, orders, balances, thread, running, open, available, deposited,
                    order, timeouts, crashes>>
    BY <1>5 DEF vars, queues, engine
  <2>2. TypeOK'
    BY <2>1, TypesAre, TypesAreNext
       DEF TaskTypes, QueueTypes, EngineTypes, AccountTypes, BoundTypes
  <2>3. Callers'
    <3>1. LiveIn(orders)' /\ LiveIn(balances)' /\ WaitersHold'
      BY <1>0, <2>1, CallersAre DEF LiveIn, WaitersHold, Holder
    <3>. QED
      BY <2>1, <3>1, CallersAreNext DEF Callers, QueueTasks, OneLive
  <2>4. SubmittedOnce' /\ CancelIsFinal'
    BY <2>1 DEF SubmittedOnce, CancelIsFinal, Resting
  <2>. QED
    BY <1>0, <2>2, <2>3, <2>4
<1>. QED
  BY <1>1, <1>2, <1>3, <1>4, <1>5 DEF Next

(* The inductive invariant holds.                                          *)
THEOREM Invariant == Spec => []IInv
BY InitInvariant, StepInvariant, PTL DEF Spec

(* Tasks, queues and the engine thread have their types; both queues keep  *)
(* their capacity (send() waits for room).                                 *)
THEOREM RuntimeTypeCorrect == Spec => []TypeOK
<1>1. IInv => TypeOK
  BY DEF IInv
<1>. QED
  BY <1>1, Invariant, PTL

(* An answer finds its caller waiting with the mutex, and an orphaned      *)
(* command answers nobody (submit_order, cancel_order, get_balance and     *)
(* update_balance of engine.rs).                                           *)
THEOREM AnswersFindCallers == Spec => []LiveCommandsHaveCallers
<1>1. IInv => LiveCommandsHaveCallers
  BY DEF IInv, Callers
<1>. QED
  BY <1>1, Invariant, PTL

(* The account is never overdrawn, whatever was checked before and however *)
(* old the answer was, and what an order took is given back once at most   *)
(* (process_submit_order locks or rejects, handle_cancel_order gives back  *)
(* what rests, start() what rested).                                       *)
THEOREM FundsAlwaysAccounted == Spec => []FundsAccounted
<1>1. IInv => FundsAccounted
  BY DEF IInv
<1>. QED
  BY <1>1, Invariant, PTL

(* A cancellation answered with success is final: the submission of its    *)
(* order has been taken, and there is no second one (handle_cancel_order). *)
THEOREM CancellationsFinal == Spec => []CancelIsFinal
<1>1. IInv => CancelIsFinal
  BY DEF IInv
<1>. QED
  BY <1>1, Invariant, PTL


===============================================================================
