-------------------------- MODULE OrderStatus_proofs --------------------------
(***************************************************************************)
(* Proofs about OrderStatus: the type invariant, the refinement of         *)
(* StatusStore, and that a filled order stays filled.                      *)
(***************************************************************************)
EXTENDS OrderStatus, SequenceTheorems, FiniteSetTheorems, TLAPS

LateSteps == {"none", "asked"}

(* The statuses a sequence of commands carries are those the engine        *)
(* reported.                                                               *)
Faithful(s) ==
  \A c \in Range(s) : IsStatus(c) => c.status = reported[c.order_id]

(* An order is reported once, when its submission ends, and a filled one   *)
(* is out of the engine for good.                                          *)
ReportedOnce ==
  \A o \in OrderId :
     /\ stage[o] \in {"new", "submitted", "traded"} =>
          reported[o] = "none" /\ cancel[o] \in LateSteps
     /\ reported[o] = "filled" => stage[o] = "gone" /\ cancel[o] \in LateSteps

(* What is queued, batched, written and committed is what was reported.    *)
OnlyReported ==
  /\ Faithful(queue) /\ Faithful(batch)
  /\ \A o \in OrderId :
        /\ written[o] # NotWritten => written[o] = reported[o]
        /\ rows[o] = "filled" => reported[o] = "filled"
        /\ o \in recorded => reported[o] # "none"

(* The thread stops only when the channel is closed, and loses its batch   *)
(* only then.                                                              *)
LostAtTheEnd ==
  /\ "stopped" \in {phase, after} => closed
  /\ lost => phase = "stopped"

IInv == TypeOK /\ ReportedOnce /\ OnlyReported /\ LostAtTheEnd

-----------------------------------------------------------------------------
(* Sequences of commands, seen as the sets of their elements.              *)

(* The order a command reports the status of, if it does.                  *)
Reports(c) == IF IsStatus(c) THEN {c.order_id} ELSE {}

(* The elements of a sequence are what its indices up to its length hold.  *)
LEMMA RangeMember ==
  ASSUME NEW s \in Seq(Command), NEW c
  PROVE  c \in Range(s) <=> \E i \in 1 .. Len(s) : s[i] = c
BY LenProperties DEF Range

(* The orders reported in a sequence are those of its elements.            *)
LEMMA StatusesMember ==
  ASSUME NEW s, NEW o
  PROVE  o \in StatusesIn(s) <=> \E c \in Range(s) : o \in Reports(c)
BY DEF StatusesIn, Reports, Range

(* The statuses grow and shrink with the elements.                         *)
LEMMA StatusesUnion ==
  ASSUME NEW s, NEW t, NEW c, Range(t) = Range(s) \cup {c}
  PROVE  StatusesIn(t) = StatusesIn(s) \cup Reports(c)
<1>1. ASSUME NEW o PROVE o \in StatusesIn(t) <=> o \in StatusesIn(s) \cup Reports(c)
  BY StatusesMember
<1> QED BY <1>1

(* Sending appends one element.                                            *)
LEMMA AppendCommand ==
  ASSUME NEW s \in Seq(Command), NEW c \in Command
  PROVE  /\ Append(s, c) \in Seq(Command)
         /\ Len(Append(s, c)) = Len(s) + 1
         /\ Range(Append(s, c)) = Range(s) \cup {c}
<1>1. PICK t : t = Append(s, c)
  OBVIOUS
<1>2. /\ t \in Seq(Command) /\ Len(t) = Len(s) + 1 /\ t[Len(s) + 1] = c
      /\ \A i \in 1 .. Len(s) : t[i] = s[i]
  BY <1>1, AppendProperties
<1>3. Len(s) \in Nat
  BY LenProperties
<1>4. ASSUME NEW d PROVE d \in Range(t) <=> d \in Range(s) \cup {c}
  <2>1. d \in Range(t) <=> \E i \in 1 .. Len(s) + 1 : t[i] = d
    BY <1>2, RangeMember
  <2>2. d \in Range(s) <=> \E i \in 1 .. Len(s) : s[i] = d
    BY RangeMember
  <2> QED BY <1>2, <1>3, <2>1, <2>2
<1> QED BY <1>1, <1>2, <1>4

(* Receiving removes one element, the first one.                           *)
LEMMA ReceiveCommand ==
  ASSUME NEW s \in Seq(Command), s # << >>
  PROVE  /\ Head(s) \in Command /\ Tail(s) \in Seq(Command)
         /\ Len(Tail(s)) = Len(s) - 1
         /\ Range(s) = Range(Tail(s)) \cup {Head(s)}
<1>1. PICK t, h : t = Tail(s) /\ h = Head(s)
  OBVIOUS
<1>2. /\ h \in Command /\ t \in Seq(Command) /\ Len(t) = Len(s) - 1 /\ h = s[1]
      /\ \A i \in 1 .. Len(t) : t[i] = s[i + 1]
  BY <1>1, HeadTailProperties
<1>3. Len(s) \in Nat \ {0}
  BY EmptySeq
<1>4. ASSUME NEW d PROVE d \in Range(s) <=> d \in Range(t) \cup {h}
  <2>1. d \in Range(t) <=> \E i \in 1 .. Len(s) - 1 : t[i] = d
    BY <1>2, RangeMember
  <2>2. d \in Range(s) <=> \E i \in 1 .. Len(s) : s[i] = d
    BY RangeMember
  <2>3. ASSUME NEW i \in 1 .. Len(s), i # 1 PROVE i - 1 \in 1 .. Len(s) - 1 /\ t[i - 1] = s[i]
    <3>1. i - 1 \in 1 .. Len(s) - 1 /\ (i - 1) + 1 = i
      BY <1>3, <2>3
    <3> QED BY <1>2, <3>1
  <2>4. ASSUME NEW i \in 1 .. Len(s) - 1 PROVE i + 1 \in 1 .. Len(s) /\ t[i] = s[i + 1]
    BY <1>2, <1>3
  <2>5. 1 \in 1 .. Len(s)
    BY <1>3
  <2> QED BY <1>2, <2>1, <2>2, <2>3, <2>4, <2>5
<1> QED BY <1>1, <1>2, <1>4

(* What a commit leaves in the batch was in it before.                     *)
LEMMA LeftoverCommands ==
  ASSUME NEW s \in Seq(Command), NEW k \in Nat
  PROVE  /\ SubSeq(s, k + 1, Len(s)) \in Seq(Command)
         /\ Range(SubSeq(s, k + 1, Len(s))) \subseteq Range(s)
<1>1. PICK t : t = SubSeq(s, k + 1, Len(s))
  OBVIOUS
<1>2. Len(s) \in Nat /\ \A i \in 1 .. Len(s) : s[i] \in Command
  BY LenProperties, ElementOfSeq
<1>3. /\ t \in Seq(Command)
      /\ Len(t) = IF k + 1 <= Len(s) THEN Len(s) - (k + 1) + 1 ELSE 0
      /\ \A i \in 1 .. Len(s) - (k + 1) + 1 : t[i] = s[k + 1 + i - 1]
  <2>1. \A i \in k + 1 .. Len(s) : s[i] \in Command
    BY <1>2
  <2> QED BY <1>1, <1>2, <2>1, SubSeqProperties
<1>4. ASSUME NEW d \in Range(t) PROVE d \in Range(s)
  <2>1. PICK i \in 1 .. Len(t) : t[i] = d
    BY <1>3, RangeMember
  <2>2. /\ i \in 1 .. Len(s) - (k + 1) + 1
        /\ i + k \in 1 .. Len(s) /\ k + 1 + i - 1 = i + k
    BY <1>2, <1>3
  <2>3. s[i + k] = d
    BY <1>3, <2>1, <2>2
  <2> QED BY <2>2, <2>3, RangeMember
<1> QED BY <1>1, <1>3, <1>4

-----------------------------------------------------------------------------
(* Type correctness.                                                       *)

(* While no transaction is open, none of its state is set.                 *)
LEMMA NoTransaction ==
  ASSUME TransactionOK, phase # "execute"
  PROVE  executed = {} /\ RowLocks = {}
BY DEF TransactionOK, StatusesAt

(* Without executed commands and row locks there is no transaction. *)
LEMMA StaysClosed ==
  ASSUME executed' = {}, RowLocks' = {}
  PROVE  TransactionOK'
BY DEF TransactionOK, StatusesAt

(* A transaction that begins has written no row. *)
LEMMA NothingWrittenLocksNothing ==
  /\ NothingWritten \in [OrderId -> Status \cup {NotWritten}]
  /\ written' = NothingWritten => RowLocks' = {}
BY DEF NothingWritten, RowLocks

(* A step that leaves the batch and the transaction alone keeps the        *)
(* positions valid, unless it leaves an open transaction behind.           *)
LEMMA TransactionKept ==
  ASSUME TransactionOK, UNCHANGED <<batch, flushVars>>,
         phase = "execute" => phase' = "execute"
  PROVE  TransactionOK'
<1>1. RowLocks' = RowLocks /\ StatusesAt(executed)' = StatusesAt(executed) /\ ToExecute' = ToExecute
  BY DEF flushVars, RowLocks, StatusesAt, IsStatus, ToExecute
<1> QED BY <1>1 DEF TransactionOK, flushVars

(* How a failed step of flush_batch ends: the transaction is rolled back,  *)
(* the batch is kept, and the flush starts again or is over.               *)
LEMMA ErrorKeepsBatch ==
  ASSUME TypeOK, Retry \/ FlushFails
  PROVE  /\ executed' = {} /\ written' = NothingWritten /\ batch' = batch
         /\ retries' \in 0 .. MaxRetries
         /\ \/ phase' = "begin" /\ after' = after /\ lost' = lost
            \/ phase' = after /\ after' = "receive" /\ lost' = (lost \/ after = "stopped")
<1>1. MaxRetries \in Nat
  BY WriterAssumption
<1> QED BY <1>1 DEF TypeOK, Retry, FlushFails, EndFlush, MayRetry, BatchAfterError

(* A failure in flush_batch either starts the next attempt or ends the flush. *)
LEMMA EitherEnd ==
  ASSUME NEW step, NEW fault, RetryOrFail(step, fault)
  PROVE  Retry \/ FlushFails
BY DEF RetryOrFail

(* TypeOK is inductive: it holds initially and every step preserves it.    *)
LEMMA TypeInit == Init => TypeOK
<1> SUFFICES ASSUME Init PROVE TypeOK
  OBVIOUS
<1> USE DEF Init, WriterInit
<1>1. queue \in Seq(Command) /\ Len(queue) <= QueueCapacity /\ batch \in Seq(Command)
  BY EmptySeq, WriterAssumption
<1>2. TransactionOK /\ written \in [OrderId -> Status \cup {NotWritten}]
  BY DEF TransactionOK, RowLocks, NothingWritten, StatusesAt
<1>3. retries \in 0 .. MaxRetries /\ faults \in 0 .. MaxFaults
  BY WriterAssumption
<1>4. rows \in [OrderId -> Status] /\ {closed, lost} \subseteq BOOLEAN
  BY DEF Status
<1> QED BY <1>1, <1>2, <1>3, <1>4 DEF TypeOK, Stage, CancelStep

(* A command the engine sends is appended to the queue.                    *)
LEMMA TypeSend ==
  ASSUME TypeOK, NEW kind \in {"UpdateBalance", "UpdateOrderStatus", "InsertTrade"},
         NEW o \in OrderId, NEW status \in Status, SendCommand(kind, o, status),
         stage' \in [OrderId -> Stage],
         reported' \in [OrderId -> {"none", "partial", "filled"}],
         cancel' \in [OrderId -> CancelStep]
  PROVE  TypeOK'
<1>1. PICK c : c = [kind |-> kind, order_id |-> o, status |-> status]
  OBVIOUS
<1>2. c \in Command
  BY <1>1 DEF Command
<1>3. queue' = Append(queue, c) /\ Len(queue) < QueueCapacity
  BY <1>1 DEF SendCommand, Send
<1>4. queue' \in Seq(Command) /\ Len(queue') <= QueueCapacity
  <2>1. Len(queue) \in Nat /\ QueueCapacity \in Nat
    BY LenProperties, WriterAssumption DEF TypeOK
  <2> QED BY <1>2, <1>3, <2>1, AppendCommand DEF TypeOK
<1>5. TransactionOK'
  BY TransactionKept DEF SendCommand, TypeOK
<1> QED BY <1>4, <1>5 DEF SendCommand, TypeOK, flushVars

(* The engine thread's sends: lock, trade, status report. *)
LEMMA TypeEngine == TypeOK /\ EngineStep => TypeOK'
<1> SUFFICES ASSUME TypeOK, NEW o \in OrderId,
                    \/ LockFunds(o) \/ SettleTrade(o)
                    \/ \E s \in {"partial", "filled"} : ReportStatus(o, s)
                    \/ EndUntraded(o) \/ MakerFilled(o)
             PROVE  TypeOK'
  BY DEF EngineStep
<1>1. CASE LockFunds(o)
  <2>1. SendCommand("UpdateBalance", o, "pending")
    BY <1>1 DEF LockFunds
  <2>2. /\ stage' \in [OrderId -> Stage] /\ reported' = reported /\ cancel' = cancel
    BY <1>1 DEF LockFunds, TypeOK, Stage
  <2> QED BY <2>1, <2>2, TypeSend DEF TypeOK, Status
<1>2. CASE SettleTrade(o)
  <2>1. SendCommand("InsertTrade", o, "pending")
    BY <1>2 DEF SettleTrade
  <2>2. /\ stage' \in [OrderId -> Stage] /\ reported' = reported /\ cancel' = cancel
    BY <1>2 DEF SettleTrade, TypeOK, Stage
  <2> QED BY <2>1, <2>2, TypeSend DEF TypeOK, Status
<1>3. ASSUME NEW s \in {"partial", "filled"}, ReportStatus(o, s) PROVE TypeOK'
  <2>1. SendCommand("UpdateOrderStatus", o, s)
    BY <1>3 DEF ReportStatus
  <2>2. /\ stage' \in [OrderId -> Stage] /\ cancel' = cancel
        /\ reported' \in [OrderId -> {"none", "partial", "filled"}]
    BY <1>3 DEF ReportStatus, TypeOK, Stage
  <2> QED BY <2>1, <2>2, TypeSend DEF TypeOK, Status
<1>4. CASE EndUntraded(o) \/ MakerFilled(o)
  <2>1. TransactionOK'
    BY <1>4, TransactionKept DEF EndUntraded, MakerFilled, TypeOK, writerVars
  <2> QED BY <1>4, <2>1 DEF EndUntraded, MakerFilled, TypeOK, writerVars, flushVars, Stage
<1> QED BY <1>1, <1>2, <1>3, <1>4

(* cancel_order's steps and stop(). *)
LEMMA TypeService == TypeOK /\ (StopEngine \/ ServiceStep) => TypeOK'
<1> SUFFICES ASSUME TypeOK, StopEngine \/ ServiceStep PROVE TypeOK'
  OBVIOUS
<1>1. CASE StopEngine
  <2>1. TransactionOK'
    BY <1>1, TransactionKept DEF StopEngine, Close, TypeOK
  <2> QED BY <1>1, <2>1 DEF StopEngine, Close, TypeOK, flushVars
<1>2. ASSUME NEW o \in OrderId, AskCancel(o) \/ EngineCancels(o) PROVE TypeOK'
  <2>1. TransactionOK'
    BY <1>2, TransactionKept DEF AskCancel, EngineCancels, TypeOK, writerVars
  <2>2. stage' \in [OrderId -> Stage] /\ cancel' \in [OrderId -> CancelStep]
    BY <1>2 DEF AskCancel, EngineCancels, TypeOK, Stage, CancelStep
  <2> QED BY <1>2, <2>1, <2>2 DEF AskCancel, EngineCancels, TypeOK, writerVars, flushVars
<1>3. ASSUME NEW o \in OrderId, WriteCancelled(o) PROVE TypeOK'
  <2>1. TransactionOK'
    BY <1>3, TransactionKept DEF WriteCancelled, TypeOK
  <2>2. rows' \in [OrderId -> Status] /\ cancel' \in [OrderId -> CancelStep]
    BY <1>3 DEF WriteCancelled, TypeOK, Status, CancelStep
  <2> QED BY <1>3, <2>1, <2>2 DEF WriteCancelled, TypeOK, flushVars
<1>4. ASSUME NEW o \in OrderId, WriteCancelledFails(o) PROVE TypeOK'
  <2>1. TransactionOK'
    BY <1>4, TransactionKept DEF WriteCancelledFails, TypeOK
  <2>2. faults' \in 0 .. MaxFaults /\ cancel' \in [OrderId -> CancelStep]
    BY <1>4, WriterAssumption DEF WriteCancelledFails, FaultOccurs, TypeOK, CancelStep
  <2> QED BY <1>4, <2>1, <2>2 DEF WriteCancelledFails, FaultOccurs, TypeOK, flushVars
<1> QED BY <1>1, <1>2, <1>3, <1>4 DEF ServiceStep

(* The steps of the writer thread that receive and start a flush.          *)
LEMMA TypeReceiving ==
  ASSUME TypeOK, UNCHANGED <<stage, reported, cancel>>,
         Receive \/ TimerExpires \/ Recheck \/ Disconnected
  PROVE  TypeOK'
<1>1. executed' = {} /\ RowLocks' = {} /\ written' = written /\ retries' = retries
  <2>1. executed = {} /\ RowLocks = {}
    BY NoTransaction DEF TypeOK, Receive, TimerExpires, Recheck, Disconnected
  <2>2. UNCHANGED flushVars
    BY DEF Receive, TimerExpires, Recheck, Disconnected, StartFlush
  <2> QED BY <2>1, <2>2 DEF flushVars, RowLocks
<1>2. TransactionOK'
  BY <1>1, StaysClosed
<1>3. /\ queue' \in Seq(Command) /\ Len(queue') <= QueueCapacity /\ batch' \in Seq(Command)
  <2>1. CASE UNCHANGED <<queue, batch>>
    BY <2>1 DEF TypeOK
  <2>2. CASE queue # << >> /\ queue' = Tail(queue) /\ batch' = Append(batch, Head(queue))
    <3>1. Len(queue) \in Nat /\ QueueCapacity \in Nat
      BY LenProperties, WriterAssumption DEF TypeOK
    <3> QED BY <2>2, <3>1, ReceiveCommand, AppendCommand DEF TypeOK
  <2> QED BY <2>1, <2>2 DEF Receive, TimerExpires, Recheck, Disconnected
<1>4. /\ phase' \in {"receive", "recheck", "begin", "execute", "stopped"}
      /\ after' \in {"receive", "recheck", "stopped"}
  BY DEF Receive, TimerExpires, Recheck, Disconnected, StartFlush, AfterLastFlush, TypeOK
<1>5. UNCHANGED <<rows, faults, recorded, lost, closed>>
  BY DEF Receive, TimerExpires, Recheck, Disconnected
<1> QED BY <1>1, <1>2, <1>3, <1>4, <1>5 DEF TypeOK

(* A flush opens its transaction and executes a command in it.             *)
LEMMA TypeTransaction ==
  ASSUME TypeOK, UNCHANGED <<stage, reported, cancel>>,
         Begin \/ \E i \in DOMAIN batch : Execute(i)
  PROVE  TypeOK'
<1>1. CASE Begin
  <2>1. TransactionOK'
    BY <1>1, TransactionKept DEF Begin, TypeOK
  <2> QED BY <1>1, <2>1 DEF Begin, TypeOK, flushVars
<1>2. ASSUME NEW i \in DOMAIN batch, Execute(i) PROVE TypeOK'
  <2>1. i \in ToExecute /\ batch[i] \in Command
    BY <1>2, LenProperties, ElementOfSeq DEF Execute, NextCommand, TypeOK
  <2>2. written' \in [OrderId -> Status \cup {NotWritten}]
    BY <1>2, <2>1 DEF Execute, Command, TypeOK
  <2>3. phase = "execute" /\ phase' = phase /\ batch' = batch /\ executed' = executed \cup {i}
    BY <1>2 DEF Execute
  <2>4. executed' \subseteq ToExecute'
    BY <2>1, <2>3 DEF TypeOK, TransactionOK, ToExecute
  <2>5. StatusesAt(executed)' = StatusesAt(executed) \cup Reports(batch[i])
    BY <2>3 DEF StatusesAt, Reports, IsStatus
  <2>6. RowLocks' = RowLocks \cup Reports(batch[i])
    <3>1. batch[i].order_id \in OrderId /\ batch[i].status \in Status
      BY <2>1 DEF Command
    <3>2. NotWritten \notin Status
      BY DEF NotWritten, Status
    <3> QED BY <1>2, <3>1, <3>2 DEF Execute, RowLocks, Reports, TypeOK
  <2>7. TransactionOK'
    BY <2>3, <2>4, <2>5, <2>6 DEF TypeOK, TransactionOK
  <2> QED BY <1>2, <2>2, <2>7 DEF Execute, TypeOK
<1> QED BY <1>1, <1>2

(* A flush ends with a commit or with a failure.                           *)
LEMMA CommittedRowsType ==
  ASSUME TypeOK
  PROVE  CommittedRows \in [OrderId -> Status]
BY DEF TypeOK, CommittedRows, RowLocks

(* Whatever positions were executed, what is left was in the batch.        *)
LEMMA LeftoverOfBatch ==
  ASSUME TypeOK
  PROVE  Leftover \in Seq(Command) /\ Range(Leftover) \subseteq Range(batch)
<1>1. batch \in Seq(Command) /\ Len(batch) \in Nat
  BY LenProperties DEF TypeOK
<1>2. executed \in SUBSET (1 .. Len(batch))
  BY LenProperties DEF TypeOK, TransactionOK, ToExecute
<1>3. IsFiniteSet(1 .. Len(batch))
  BY <1>1, FS_Interval
<1>4. Cardinality(executed) \in Nat
  BY <1>2, <1>3, FS_Subset, FS_CardinalityType
<1> QED BY <1>1, <1>4, LeftoverCommands DEF Leftover

(* A commit, with the removal by index. *)
LEMMA TypeCommit ==
  ASSUME TypeOK, UNCHANGED <<stage, reported, cancel>>, Commit
  PROVE  TypeOK'
<1>1. executed' = {} /\ written' = NothingWritten /\ retries' = 0
  BY DEF Commit, EndFlush
<1>2. TransactionOK'
  BY <1>1, NothingWrittenLocksNothing, StaysClosed
<1>3. batch' \in Seq(Command)
  BY LeftoverOfBatch DEF Commit
<1>4. recorded' \subseteq OrderId /\ rows' \in [OrderId -> Status]
  BY CommittedRowsType DEF Commit, RowLocks, TypeOK
<1>5. retries' \in 0 .. MaxRetries
  BY <1>1, WriterAssumption
<1> QED BY <1>1, <1>2, <1>3, <1>4, <1>5, NothingWrittenLocksNothing DEF Commit, EndFlush, TypeOK

(* Every failure the database may answer with. *)
LEMMA TypeFails ==
  ASSUME TypeOK, UNCHANGED <<stage, reported, cancel>>, DatabaseFails
  PROVE  TypeOK'
<1>1. Retry \/ FlushFails
  BY EitherEnd DEF DatabaseFails, BeginFails, ExecuteFails, CommitFails
<1>2. /\ executed' = {} /\ written' = NothingWritten /\ batch' = batch
      /\ retries' \in 0 .. MaxRetries
      /\ phase' \in {"begin", after} /\ after' \in {after, "receive"} /\ lost' \in BOOLEAN
  BY <1>1, ErrorKeepsBatch DEF TypeOK
<1>3. TransactionOK'
  BY <1>2, NothingWrittenLocksNothing, StaysClosed
<1>4. FaultOccurs
  BY DEF DatabaseFails, BeginFails, ExecuteFails, CommitFails
<1>5. queue' = queue /\ closed' = closed /\ faults' \in 0 .. MaxFaults
  BY <1>4, WriterAssumption DEF FaultOccurs, TypeOK
<1>6. recorded' \subseteq OrderId /\ rows' \in [OrderId -> Status]
  BY CommittedRowsType DEF DatabaseFails, BeginFails, ExecuteFails, CommitFails, RowLocks, TypeOK
<1> QED BY <1>2, <1>3, <1>5, <1>6, NothingWrittenLocksNothing DEF TypeOK

(* Every step of engine, service and writer thread preserves the type invariant. *)
LEMMA TypeNext == TypeOK /\ [Next]_vars => TypeOK'
<1> SUFFICES ASSUME TypeOK, [Next]_vars PROVE TypeOK'
  OBVIOUS
<1>1. CASE UNCHANGED vars
  <2>1. TransactionOK'
    BY <1>1, TransactionKept DEF vars, writerVars, TypeOK
  <2> QED BY <1>1, <2>1 DEF vars, writerVars, flushVars, TypeOK
<1>2. CASE Writer
  BY <1>2, TypeReceiving, TypeTransaction, TypeCommit, TypeFails DEF Writer, WriterStep
<1> QED BY <1>1, <1>2, TypeEngine, TypeService DEF Next

(* Every variable stays in its type, whatever the database does: each      *)
(* retry loop is bounded by MaxRetries, and a transaction's locks are      *)
(* always those of the commands it executed.                               *)
THEOREM StatusTypeCorrect == Spec => []TypeOK
  BY TypeInit, TypeNext, PTL DEF Spec

-----------------------------------------------------------------------------
(* The statuses that travel are those that were reported.                  *)

(* The elements of the queue and of the batch only travel.                 *)
Moves ==
  /\ reported' = reported
  /\ Range(queue') \cup Range(batch') \subseteq Range(queue) \cup Range(batch)

(* Receiving, batching and keeping move commands and invent none. *)
LEMMA MovesFaithful ==
  ASSUME OnlyReported, Moves
  PROVE  Faithful(queue)' /\ Faithful(batch)'
BY DEF OnlyReported, Moves, Faithful, IsStatus

(* The invariant holds initially.                                          *)
LEMMA InvInit == Init => IInv
<1> SUFFICES ASSUME Init PROVE IInv
  OBVIOUS
<1>1. Range(queue) = {} /\ Range(batch) = {}
  BY DEF Init, WriterInit, Range
<1>2. Faithful(queue) /\ Faithful(batch)
  BY <1>1 DEF Faithful
<1>3. ReportedOnce /\ LostAtTheEnd
  BY DEF Init, WriterInit, ReportedOnce, LateSteps, LostAtTheEnd
<1>4. OnlyReported
  BY <1>2 DEF OnlyReported, Init, WriterInit, NothingWritten
<1> QED BY <1>3, <1>4, TypeInit DEF IInv

(* A command that reports no status disturbs nothing but the queue.        *)
LEMMA SendOther ==
  ASSUME IInv, NEW kind \in {"UpdateBalance", "InsertTrade"}, NEW o \in OrderId,
         SendCommand(kind, o, "pending"), reported' = reported
  PROVE  OnlyReported' /\ LostAtTheEnd'
<1>1. PICK c : c = [kind |-> kind, order_id |-> o, status |-> "pending"]
  OBVIOUS
<1>2. c \in Command /\ ~IsStatus(c)
  BY <1>1 DEF Command, Status, IsStatus
<1>3. queue' = Append(queue, c) /\ queue \in Seq(Command)
  BY <1>1 DEF SendCommand, Send, IInv, TypeOK
<1>4. Range(queue') = Range(queue) \cup {c}
  BY <1>2, <1>3, AppendCommand
<1>5. Faithful(queue)' /\ Faithful(batch)'
  BY <1>2, <1>4 DEF SendCommand, IInv, OnlyReported, Faithful, IsStatus
<1> QED BY <1>5 DEF SendCommand, IInv, OnlyReported, LostAtTheEnd, flushVars

(* A report is the first and only one of its order.                        *)
LEMMA SendReport ==
  ASSUME IInv, NEW o \in OrderId, NEW s \in {"partial", "filled"}, ReportStatus(o, s)
  PROVE  /\ ReportedOnce' /\ OnlyReported' /\ LostAtTheEnd'
         /\ o \notin StatusesIn(queue) \cup StatusesIn(batch) \cup recorded
         /\ StatusesIn(queue') = StatusesIn(queue) \cup {o}
<1>1. PICK c : c = [kind |-> "UpdateOrderStatus", order_id |-> o, status |-> s]
  OBVIOUS
<1>2. c \in Command /\ Reports(c) = {o}
  BY <1>1 DEF Command, Status, Reports, IsStatus
<1>3. queue' = Append(queue, c) /\ queue \in Seq(Command)
  BY <1>1 DEF ReportStatus, SendCommand, Send, IInv, TypeOK
<1>4. Range(queue') = Range(queue) \cup {c}
  BY <1>2, <1>3, AppendCommand
<1>5. reported[o] = "none" /\ cancel[o] \in LateSteps
  BY DEF IInv, ReportedOnce, ReportStatus
<1>6. /\ batch' = batch /\ rows' = rows /\ written' = written /\ recorded' = recorded
      /\ cancel' = cancel
      /\ reported' = [reported EXCEPT ![o] = s]
      /\ stage' = [stage EXCEPT ![o] = IF s = "filled" THEN "gone" ELSE "resting"]
  BY DEF ReportStatus, SendCommand, flushVars
<1>7. reported' [o] = s /\ \A p \in OrderId : p # o => reported'[p] = reported[p]
  BY <1>6 DEF IInv, TypeOK
<1>8. ASSUME NEW d \in Range(queue) \cup Range(batch), IsStatus(d)
      PROVE  d \in Command /\ d.order_id # o /\ d.status = reported[d.order_id]
  <2>1. d \in Command
    BY <1>8, RangeOfSeq DEF IInv, TypeOK
  <2>2. d.status = reported[d.order_id]
    BY <1>8 DEF IInv, OnlyReported, Faithful
  <2> QED BY <1>5, <2>1, <2>2 DEF Command, Status
<1>9. Faithful(queue)' /\ Faithful(batch)'
  <2>1. ASSUME NEW d \in Range(queue) \cup Range(batch), IsStatus(d)
        PROVE  d.status = reported'[d.order_id]
    <3>1. d.order_id \in OrderId /\ d.order_id # o /\ d.status = reported[d.order_id]
      BY <1>8, <2>1 DEF Command
    <3> QED BY <1>7, <3>1
  <2>2. c.status = reported'[c.order_id]
    BY <1>1, <1>7
  <2> QED BY <1>4, <1>6, <2>1, <2>2 DEF Faithful, IsStatus
<1>10. ReportedOnce'
  <2>1. ASSUME NEW p \in OrderId
        PROVE  /\ stage'[p] \in {"new", "submitted", "traded"} =>
                    reported'[p] = "none" /\ cancel'[p] \in LateSteps
               /\ reported'[p] = "filled" => stage'[p] = "gone" /\ cancel'[p] \in LateSteps
    <3>1. CASE p = o
      BY <1>5, <1>6, <1>7, <3>1 DEF IInv, TypeOK
    <3>2. CASE p # o
      BY <1>6, <1>7, <3>2 DEF IInv, TypeOK, ReportedOnce
    <3> QED BY <3>1, <3>2
  <2> QED BY <2>1 DEF ReportedOnce
<1>11. OnlyReported'
  <2>1. written[o] = NotWritten /\ rows[o] # "filled" /\ o \notin recorded
    BY <1>5 DEF IInv, OnlyReported, TypeOK, Status, NotWritten
  <2> QED BY <1>6, <1>7, <1>9, <2>1 DEF IInv, OnlyReported
<1>12. LostAtTheEnd'
  BY DEF IInv, LostAtTheEnd, ReportStatus, SendCommand
<1>13. o \notin StatusesIn(queue) \cup StatusesIn(batch) \cup recorded
  <2>1. o \notin recorded
    BY <1>5 DEF IInv, OnlyReported
  <2> QED BY <1>8, <2>1, StatusesMember DEF Reports
<1>14. StatusesIn(queue') = StatusesIn(queue) \cup {o}
  BY <1>2, <1>4, StatusesUnion
<1> QED BY <1>10, <1>11, <1>12, <1>13, <1>14

(* The engine thread reports each order's end once, as what happened. *)
LEMMA InvEngine == IInv /\ EngineStep => IInv'
<1> SUFFICES ASSUME IInv, NEW o \in OrderId,
                    \/ LockFunds(o) \/ SettleTrade(o)
                    \/ \E s \in {"partial", "filled"} : ReportStatus(o, s)
                    \/ EndUntraded(o) \/ MakerFilled(o)
             PROVE  ReportedOnce' /\ OnlyReported' /\ LostAtTheEnd'
  BY TypeEngine DEF EngineStep, IInv
<1>1. CASE LockFunds(o)
  <2>1. OnlyReported' /\ LostAtTheEnd'
    BY <1>1, SendOther DEF LockFunds
  <2>2. ReportedOnce'
    BY <1>1 DEF LockFunds, IInv, TypeOK, ReportedOnce
  <2> QED BY <2>1, <2>2
<1>2. CASE SettleTrade(o)
  <2>1. OnlyReported' /\ LostAtTheEnd'
    BY <1>2, SendOther DEF SettleTrade
  <2>2. ReportedOnce'
    BY <1>2 DEF SettleTrade, IInv, TypeOK, ReportedOnce
  <2> QED BY <2>1, <2>2
<1>3. ASSUME NEW s \in {"partial", "filled"}, ReportStatus(o, s)
      PROVE  ReportedOnce' /\ OnlyReported' /\ LostAtTheEnd'
  BY <1>3, SendReport
<1>4. CASE EndUntraded(o) \/ MakerFilled(o)
  <2>1. UNCHANGED <<writerVars, reported, cancel>>
    BY <1>4 DEF EndUntraded, MakerFilled
  <2>2. OnlyReported' /\ LostAtTheEnd'
    BY <2>1, MovesFaithful
       DEF IInv, OnlyReported, LostAtTheEnd, Moves, writerVars, flushVars
  <2>3. ReportedOnce'
    BY <1>4, <2>1 DEF EndUntraded, MakerFilled, IInv, TypeOK, ReportedOnce
  <2> QED BY <2>2, <2>3
<1> QED BY <1>1, <1>2, <1>3, <1>4

(* Asking to cancel and stopping report nothing. *)
LEMMA InvService == IInv /\ (StopEngine \/ ServiceStep) => IInv'
<1> SUFFICES ASSUME IInv, StopEngine \/ ServiceStep
             PROVE  ReportedOnce' /\ OnlyReported' /\ LostAtTheEnd'
  BY TypeService DEF IInv
<1>1. UNCHANGED <<queue, batch, phase, after, written, recorded, lost, reported>>
  BY DEF StopEngine, Close, ServiceStep, AskCancel, EngineCancels, WriteCancelled,
         WriteCancelledFails, FaultOccurs, writerVars, flushVars
<1>2. Faithful(queue)' /\ Faithful(batch)'
  BY <1>1, MovesFaithful DEF Moves, IInv
<1>3. closed => closed'
  BY DEF StopEngine, Close, ServiceStep, AskCancel, EngineCancels, WriteCancelled,
         WriteCancelledFails, FaultOccurs, writerVars
<1>4. LostAtTheEnd'
  BY <1>1, <1>3 DEF IInv, LostAtTheEnd
<1>5. CASE StopEngine
  <2>1. UNCHANGED <<rows, stage, cancel>>
    BY <1>5 DEF StopEngine, Close
  <2> QED BY <1>1, <1>2, <1>4, <2>1 DEF IInv, OnlyReported, ReportedOnce
<1>6. ASSUME NEW o \in OrderId, AskCancel(o) PROVE ReportedOnce' /\ OnlyReported'
  <2>1. UNCHANGED <<rows, stage>> /\ cancel' = [cancel EXCEPT ![o] = "asked"]
    BY <1>6 DEF AskCancel, writerVars
  <2>2. ReportedOnce'
    BY <1>1, <2>1 DEF IInv, TypeOK, ReportedOnce, LateSteps
  <2> QED BY <1>1, <1>2, <2>1, <2>2 DEF IInv, OnlyReported
<1>7. ASSUME NEW o \in OrderId, EngineCancels(o) PROVE ReportedOnce' /\ OnlyReported'
  <2>1. rows' = rows
    BY <1>7 DEF EngineCancels, writerVars
  <2>2. ReportedOnce'
    <3>1. CASE Cancellable(o)
      BY <1>1, <1>7, <3>1 DEF EngineCancels, Cancellable, IInv, TypeOK, ReportedOnce, LateSteps
    <3>2. CASE ~Cancellable(o)
      BY <1>1, <1>7, <3>2 DEF EngineCancels, IInv, TypeOK, ReportedOnce, LateSteps
    <3> QED BY <3>1, <3>2
  <2> QED BY <1>1, <1>2, <2>1, <2>2 DEF IInv, OnlyReported
<1>8. ASSUME NEW o \in OrderId, WriteCancelled(o) PROVE ReportedOnce' /\ OnlyReported'
  <2>1. /\ rows' = [rows EXCEPT ![o] = "cancelled"] /\ stage' = stage
        /\ cancel' = [cancel EXCEPT ![o] = "cancelled"] /\ cancel[o] = "removed"
    BY <1>8 DEF WriteCancelled
  <2>2. ReportedOnce'
    BY <1>1, <2>1 DEF IInv, TypeOK, ReportedOnce, LateSteps
  <2>3. \A p \in OrderId : rows'[p] = "filled" => rows[p] = "filled"
    BY <2>1 DEF IInv, TypeOK
  <2> QED BY <1>1, <1>2, <2>2, <2>3 DEF IInv, OnlyReported
<1>9. ASSUME NEW o \in OrderId, WriteCancelledFails(o) PROVE ReportedOnce' /\ OnlyReported'
  <2>1. /\ UNCHANGED <<rows, stage>> /\ cancel[o] = "removed"
        /\ cancel' = [cancel EXCEPT ![o] = "unrecorded"]
    BY <1>9 DEF WriteCancelledFails
  <2>2. ReportedOnce'
    BY <1>1, <2>1 DEF IInv, TypeOK, ReportedOnce, LateSteps
  <2> QED BY <1>1, <1>2, <2>1, <2>2 DEF IInv, OnlyReported
<1> QED BY <1>4, <1>5, <1>6, <1>7, <1>8, <1>9 DEF ServiceStep

(* The writer thread moves commands from the queue to the batch, writes    *)
(* what the batch says, and commits what it wrote.                         *)
LEMMA ReceivingMoves ==
  ASSUME IInv, UNCHANGED <<stage, reported, cancel>>,
         Receive \/ TimerExpires \/ Recheck \/ Disconnected
  PROVE  /\ Moves
         /\ StatusesIn(queue') \cup StatusesIn(batch') = StatusesIn(queue) \cup StatusesIn(batch)
         /\ UNCHANGED <<written, rows, recorded, closed, lost>> /\ phase # "stopped"
         /\ "stopped" \in {phase', after'} => closed \/ after = "stopped"
<1>1. UNCHANGED <<written, rows, recorded, closed, lost>> /\ phase # "stopped"
  BY DEF Receive, TimerExpires, Recheck, Disconnected, StartFlush, flushVars
<1>2. "stopped" \in {phase', after'} => closed \/ after = "stopped"
  BY DEF Receive, TimerExpires, Recheck, Disconnected, StartFlush, AfterLastFlush
<1>3. /\ Range(queue') \cup Range(batch') \subseteq Range(queue) \cup Range(batch)
      /\ StatusesIn(queue') \cup StatusesIn(batch') = StatusesIn(queue) \cup StatusesIn(batch)
  <2>1. CASE UNCHANGED <<queue, batch>>
    BY <2>1 DEF StatusesIn, IsStatus
  <2>2. CASE queue # << >> /\ queue' = Tail(queue) /\ batch' = Append(batch, Head(queue))
    <3>1. Head(queue) \in Command /\ Range(queue) = Range(Tail(queue)) \cup {Head(queue)}
      BY <2>2, ReceiveCommand DEF IInv, TypeOK
    <3>2. Range(Append(batch, Head(queue))) = Range(batch) \cup {Head(queue)}
      BY <3>1, AppendCommand DEF IInv, TypeOK
    <3>3. /\ StatusesIn(queue) = StatusesIn(Tail(queue)) \cup Reports(Head(queue))
          /\ StatusesIn(Append(batch, Head(queue))) = StatusesIn(batch) \cup Reports(Head(queue))
      BY <3>1, <3>2, StatusesUnion
    <3>4. /\ StatusesIn(queue') = StatusesIn(Tail(queue))
          /\ StatusesIn(batch') = StatusesIn(Append(batch, Head(queue)))
      BY <2>2
    <3> QED BY <2>2, <3>1, <3>2, <3>3, <3>4
  <2> QED BY <2>1, <2>2 DEF Receive, TimerExpires, Recheck, Disconnected
<1> QED BY <1>1, <1>2, <1>3 DEF Moves

(* What a transaction commits was reported, and it un-fills no row.        *)
LEMMA CommittedRowsFaithful ==
  ASSUME IInv
  PROVE  /\ RowLocks \subseteq StatusesIn(batch)
         /\ \A o \in OrderId :
               /\ CommittedRows[o] = "filled" => reported[o] = "filled"
               /\ rows[o] = "filled" => CommittedRows[o] = "filled"
               /\ o \in RowLocks => reported[o] # "none"
<1>1. RowLocks \subseteq StatusesIn(batch)
  <2>1. RowLocks = StatusesAt(executed) /\ executed \subseteq DOMAIN batch
    BY DEF IInv, TypeOK, TransactionOK, ToExecute
  <2> QED BY <2>1 DEF StatusesAt, StatusesIn
<1>2. ASSUME NEW o \in OrderId, o \in RowLocks
      PROVE  written[o] = reported[o] /\ reported[o] # "none"
  BY <1>2 DEF IInv, OnlyReported, TypeOK, RowLocks, NotWritten, Status
<1>3. ASSUME NEW o \in OrderId
      PROVE  /\ CommittedRows[o] = "filled" => reported[o] = "filled"
             /\ rows[o] = "filled" => CommittedRows[o] = "filled"
  BY <1>2 DEF IInv, OnlyReported, CommittedRows
<1> QED BY <1>1, <1>2, <1>3

(* What a commit records are statuses that were reported. *)
LEMMA CommitRecords ==
  ASSUME IInv, Commit
  PROVE  /\ queue' = queue /\ Range(batch') \subseteq Range(batch)
         /\ RowLocks = StatusesIn(batch) /\ StatusesIn(batch') \subseteq StatusesIn(batch)
<1>1. queue' = queue /\ batch' = Leftover
  BY DEF Commit
<1>2. Range(batch') \subseteq Range(batch)
  BY <1>1, LeftoverOfBatch DEF IInv
<1>3. StatusesIn(batch') \subseteq StatusesIn(batch)
  <2>1. ASSUME NEW o \in StatusesIn(batch') PROVE o \in StatusesIn(batch)
    BY <1>2, <2>1, StatusesMember
  <2> QED BY <2>1
<1>4. RowLocks = StatusesIn(batch)
  <2>1. RowLocks = StatusesAt(ToExecute)
    BY DEF Commit, AllExecuted, IInv, TypeOK, TransactionOK
  <2>2. StatusesAt(ToExecute) = StatusesIn(batch)
    BY DEF StatusesAt, StatusesIn, ToExecute, IsStatus
  <2> QED BY <2>1, <2>2
<1> QED BY <1>1, <1>2, <1>3, <1>4

(* A commit writes statuses that were reported; other steps leave the rows alone. *)
LEMMA InvCommitted ==
  ASSUME IInv, UNCHANGED <<stage, reported, cancel>>, Moves, written' = NothingWritten,
         \/ UNCHANGED <<rows, recorded>>
         \/ rows' = CommittedRows /\ recorded' = recorded \cup RowLocks
  PROVE  OnlyReported'
<1>1. Faithful(queue)' /\ Faithful(batch)'
  BY MovesFaithful DEF IInv
<1>2. \A o \in OrderId : rows'[o] = "filled" => reported[o] = "filled"
  BY CommittedRowsFaithful DEF IInv, OnlyReported
<1>3. \A o \in OrderId : o \in recorded' => reported[o] # "none"
  BY CommittedRowsFaithful DEF IInv, OnlyReported
<1>4. \A o \in OrderId : written'[o] = NotWritten
  BY DEF NothingWritten
<1> QED BY <1>1, <1>2, <1>3, <1>4 DEF OnlyReported

(* The writer thread's steps preserve the part of the invariant about it. *)
LEMMA InvWriter == IInv /\ Writer => IInv'
<1> SUFFICES ASSUME IInv, Writer PROVE OnlyReported' /\ LostAtTheEnd'
  <2>1. ASSUME IInv, Writer PROVE TypeOK' /\ ReportedOnce'
    BY <2>1, TypeNext DEF IInv, Next, Writer, ReportedOnce
  <2> QED BY <2>1 DEF IInv
<1>1. UNCHANGED <<stage, reported, cancel>>
  BY DEF Writer
<1>2. CASE Receive \/ TimerExpires \/ Recheck \/ Disconnected
  <2>1. /\ Moves /\ UNCHANGED <<written, rows, recorded, closed, lost>> /\ phase # "stopped"
        /\ "stopped" \in {phase', after'} => closed \/ after = "stopped"
    BY <1>1, <1>2, ReceivingMoves
  <2>2. Faithful(queue)' /\ Faithful(batch)'
    BY <2>1, MovesFaithful DEF IInv
  <2> QED BY <1>1, <2>1, <2>2 DEF IInv, OnlyReported, LostAtTheEnd
<1>3. CASE Begin
  <2>1. Moves
    BY <1>1, <1>3 DEF Begin, Moves
  <2>2. Faithful(queue)' /\ Faithful(batch)'
    BY <2>1, MovesFaithful DEF IInv
  <2> QED BY <1>1, <1>3, <2>2 DEF Begin, IInv, OnlyReported, LostAtTheEnd, flushVars
<1>4. ASSUME NEW i \in DOMAIN batch, Execute(i) PROVE OnlyReported' /\ LostAtTheEnd'
  <2>1. Moves
    BY <1>1, <1>4 DEF Execute, Moves
  <2>2. Faithful(queue)' /\ Faithful(batch)'
    BY <2>1, MovesFaithful DEF IInv
  <2>3. batch[i] \in Range(batch) /\ batch[i] \in Command
    BY <1>4, LenProperties, ElementOfSeq DEF Range, IInv, TypeOK
  <2>4. IsStatus(batch[i]) => batch[i].status = reported[batch[i].order_id]
    BY <2>3 DEF IInv, OnlyReported, Faithful
  <2>5. \A o \in OrderId : written'[o] # NotWritten => written'[o] = reported[o]
    BY <1>4, <2>3, <2>4 DEF Execute, Command, IInv, OnlyReported, TypeOK
  <2> QED BY <1>1, <1>4, <2>2, <2>5 DEF Execute, IInv, OnlyReported, LostAtTheEnd
<1>5. CASE Commit
  <2>1. Moves
    BY <1>1, <1>5, CommitRecords DEF Moves
  <2>2. OnlyReported'
    BY <1>1, <1>5, <2>1, InvCommitted DEF Commit, EndFlush
  <2>3. phase = "execute" /\ phase' = after /\ after' = "receive" /\ UNCHANGED <<closed, lost>>
    BY <1>5 DEF Commit, EndFlush, AllExecuted
  <2> QED BY <2>2, <2>3 DEF IInv, LostAtTheEnd
<1>6. CASE DatabaseFails
  <2>1. Retry \/ FlushFails
    BY <1>6, EitherEnd DEF DatabaseFails, BeginFails, ExecuteFails, CommitFails
  <2>2. /\ written' = NothingWritten /\ batch' = batch
        /\ \/ phase' = "begin" /\ after' = after /\ lost' = lost
           \/ phase' = after /\ after' = "receive" /\ lost' = (lost \/ after = "stopped")
    BY <2>1, ErrorKeepsBatch DEF IInv
  <2>3. phase \in {"begin", "execute"} /\ queue' = queue /\ closed' = closed
    BY <1>6 DEF DatabaseFails, BeginFails, ExecuteFails, CommitFails, AllExecuted, FaultOccurs
  <2>4. Moves
    BY <1>1, <2>2, <2>3 DEF Moves
  <2>5. \/ UNCHANGED <<rows, recorded>>
        \/ rows' = CommittedRows /\ recorded' = recorded \cup RowLocks
    BY <1>6 DEF DatabaseFails, BeginFails, ExecuteFails, CommitFails
  <2>6. OnlyReported'
    BY <1>1, <2>2, <2>4, <2>5, InvCommitted
  <2>7. ~lost /\ ("stopped" \in {phase, after} => closed)
    BY <2>3 DEF IInv, LostAtTheEnd
  <2>8. CASE phase' = "begin" /\ after' = after /\ lost' = lost
    BY <2>3, <2>6, <2>7, <2>8 DEF LostAtTheEnd
  <2>9. CASE phase' = after /\ after' = "receive" /\ lost' = (lost \/ after = "stopped")
    <3>1. lost' => after = "stopped"
      BY <2>7, <2>9
    <3> QED BY <2>3, <2>6, <2>7, <2>9, <3>1 DEF LostAtTheEnd
  <2> QED BY <2>2, <2>8, <2>9
<1> QED BY <1>2, <1>3, <1>4, <1>5, <1>6 DEF Writer, WriterStep

(* The invariant is inductive.                                             *)
LEMMA InvNext == IInv /\ [Next]_vars => IInv'
<1>1. IInv /\ UNCHANGED vars => IInv'
  <2> SUFFICES ASSUME IInv, UNCHANGED vars PROVE IInv'
    OBVIOUS
  <2>1. TypeOK' /\ ReportedOnce' /\ LostAtTheEnd'
    BY TypeNext DEF IInv, vars, writerVars, flushVars, ReportedOnce, LostAtTheEnd
  <2>2. Faithful(queue)' /\ Faithful(batch)'
    BY MovesFaithful DEF IInv, Moves, vars, writerVars
  <2> QED BY <2>1, <2>2 DEF IInv, OnlyReported, vars, writerVars, flushVars
<1> QED BY <1>1, InvEngine, InvService, InvWriter DEF Next

(* The inductive invariant holds in every state engine, service and writer reach. *)
LEMMA Invariance == Spec => []IInv
  BY InvInit, InvNext, PTL DEF Spec

-----------------------------------------------------------------------------
(* The theorems.                                                           *)

LEMMA FilledStep ==
  ASSUME IInv, [Next]_vars, NEW o \in OrderId, rows[o] = "filled"
  PROVE  rows'[o] = "filled"
<1>1. reported[o] = "filled" /\ cancel[o] \in LateSteps
  BY DEF IInv, OnlyReported, ReportedOnce
<1>2. CASE UNCHANGED rows
  BY <1>2
<1>3. CASE rows' = CommittedRows
  BY <1>3, CommittedRowsFaithful
<1>4. ASSUME NEW p \in OrderId, WriteCancelled(p) PROVE rows'[o] = "filled"
  <2>1. p # o
    BY <1>1, <1>4 DEF WriteCancelled, LateSteps
  <2> QED BY <1>4, <2>1 DEF WriteCancelled, IInv, TypeOK
<1>5. EngineStep \/ StopEngine => UNCHANGED rows
  BY DEF EngineStep, LockFunds, SettleTrade, ReportStatus, EndUntraded, MakerFilled,
         StopEngine, Close, SendCommand, writerVars
<1>6. ServiceStep => UNCHANGED rows \/ \E p \in OrderId : WriteCancelled(p)
  BY DEF ServiceStep, AskCancel, EngineCancels, WriteCancelledFails, writerVars
<1>7. Writer => UNCHANGED rows \/ rows' = CommittedRows
  BY DEF Writer, WriterStep, Receive, TimerExpires, Recheck, Disconnected, Begin, Commit,
         Execute, DatabaseFails, BeginFails, ExecuteFails, CommitFails
<1> QED BY <1>2, <1>3, <1>4, <1>5, <1>6, <1>7 DEF Next, vars, writerVars

(* A filled order stays filled, for every number of orders, every batch    *)
(* and queue size, and every failure of the database: an out-of-date check *)
(* by cancel_order cannot overwrite a fill.                                *)
THEOREM FillsAreFinal == Spec => FilledStaysFilled
<1>1. IInv /\ [Next]_vars =>
        [\A o \in OrderId : rows[o] = "filled" => rows'[o] = "filled"]_vars
  BY FilledStep
<1> QED BY <1>1, Invariance, PTL DEF Spec, FilledStaysFilled

(* The refinement: what waits, what is done, and whether it was abandoned. *)
Waiting == IF lost THEN {} ELSE (StatusesIn(queue) \cup StatusesIn(batch)) \ recorded

(* What neither records nor loses a status is a stutter of the store. *)
LEMMA StoreStutters ==
  ASSUME UNCHANGED <<recorded, lost>>,
         StatusesIn(queue') \cup StatusesIn(batch') = StatusesIn(queue) \cup StatusesIn(batch)
  PROVE  UNCHANGED <<Waiting, recorded, lost>>
<1>1. StatusesIn(queue)' = StatusesIn(queue') /\ StatusesIn(batch)' = StatusesIn(batch')
  BY DEF StatusesIn, IsStatus
<1> QED BY <1>1 DEF Waiting

(* A flush that ends records what it committed, and gives the rest up only *)
(* when the thread stops.                                                  *)
StoreStep ==
  \/ \E o \in OrderId : /\ o \notin Waiting \cup recorded
                        /\ Waiting' = Waiting \cup {o} /\ UNCHANGED <<recorded, lost>>
  \/ \E S \in SUBSET Waiting :
       \/ S # {} /\ Waiting' = Waiting \ S /\ recorded' = recorded \cup S /\ lost' = lost
       \/ ~lost /\ lost' = TRUE /\ Waiting' = {} /\ recorded' = recorded \cup S
  \/ UNCHANGED <<Waiting, recorded, lost>>

(* A commit records some of the waiting statuses, as the store may. *)
LEMMA CommitStoreStep ==
  ASSUME IInv, Commit
  PROVE  StoreStep
<1>1. /\ queue' = queue /\ RowLocks = StatusesIn(batch)
      /\ StatusesIn(batch') \subseteq StatusesIn(batch)
  BY CommitRecords
<1>2. ~lost /\ lost' = lost /\ recorded' = recorded \cup RowLocks
  BY DEF IInv, LostAtTheEnd, Commit, AllExecuted
<1>3. StatusesIn(queue)' = StatusesIn(queue) /\ StatusesIn(batch)' = StatusesIn(batch')
  BY <1>1 DEF StatusesIn, IsStatus
<1>4. PICK S : S = RowLocks \ recorded
  OBVIOUS
<1>5. S \in SUBSET Waiting /\ Waiting' = Waiting \ S /\ recorded' = recorded \cup S
  BY <1>1, <1>2, <1>3, <1>4 DEF Waiting
<1> QED BY <1>2, <1>5 DEF StoreStep

(* A failed attempt stutters, and at the end of the thread gives statuses up. *)
LEMMA FailStoreStep ==
  ASSUME IInv, DatabaseFails
  PROVE  StoreStep
<1>1. Retry \/ FlushFails
  BY EitherEnd DEF DatabaseFails, BeginFails, ExecuteFails, CommitFails
<1>2. /\ batch' = batch
      /\ \/ lost' = lost
         \/ lost' = (lost \/ after = "stopped")
  BY <1>1, ErrorKeepsBatch DEF IInv
<1>3. ~lost /\ queue' = queue
  BY DEF DatabaseFails, BeginFails, ExecuteFails, CommitFails, AllExecuted, FaultOccurs,
         IInv, LostAtTheEnd
<1>4. recorded' = recorded \/ recorded' = recorded \cup RowLocks
  BY DEF DatabaseFails, BeginFails, ExecuteFails, CommitFails
<1>5. StatusesIn(queue)' = StatusesIn(queue) /\ StatusesIn(batch)' = StatusesIn(batch)
  BY <1>2, <1>3 DEF StatusesIn, IsStatus
<1>6. RowLocks \subseteq StatusesIn(batch)
  BY CommittedRowsFaithful
<1>7. PICK S : S = recorded' \ recorded
  OBVIOUS
<1>8. S \in SUBSET Waiting /\ recorded' = recorded \cup S
  BY <1>3, <1>4, <1>6, <1>7 DEF Waiting
<1>9. CASE ~lost'
  <2>1. lost' = FALSE /\ lost = FALSE
    BY <1>2, <1>3, <1>9 DEF IInv, TypeOK
  <2>2. Waiting' = Waiting \ S
    BY <1>3, <1>5, <1>7, <1>8, <1>9 DEF Waiting
  <2> QED BY <1>8, <2>1, <2>2 DEF StoreStep
<1>10. CASE lost'
  BY <1>3, <1>8, <1>10 DEF StoreStep, Waiting
<1> QED BY <1>9, <1>10

(* Steps that move commands within the thread are stutters of the store. *)
LEMMA OtherStoreStep ==
  ASSUME IInv, UNCHANGED <<batch, recorded, lost>>,
         StatusesIn(queue') = StatusesIn(queue)
  PROVE  StoreStep
<1>1. StatusesIn(batch') = StatusesIn(batch)
  BY DEF StatusesIn, IsStatus
<1> QED BY <1>1, StoreStutters DEF StoreStep

(* Sending a command that is no status report is a stutter of the store. *)
LEMMA SendStoreStep ==
  ASSUME IInv, NEW kind \in {"UpdateBalance", "InsertTrade"}, NEW o \in OrderId,
         SendCommand(kind, o, "pending")
  PROVE  StoreStep
<1>1. PICK c : c = [kind |-> kind, order_id |-> o, status |-> "pending"]
  OBVIOUS
<1>2. c \in Command /\ Reports(c) = {}
  BY <1>1 DEF Command, Status, IsStatus, Reports
<1>3. queue' = Append(queue, c) /\ queue \in Seq(Command)
  BY <1>1 DEF SendCommand, Send, IInv, TypeOK
<1>4. StatusesIn(queue') = StatusesIn(queue)
  <2>1. Range(Append(queue, c)) = Range(queue) \cup {c}
    BY <1>2, <1>3, AppendCommand
  <2>2. StatusesIn(Append(queue, c)) = StatusesIn(queue) \cup Reports(c)
    BY <2>1, StatusesUnion
  <2> QED BY <1>2, <1>3, <2>2
<1> QED BY <1>4, OtherStoreStep DEF SendCommand

(* Every step is a step of the abstract store, or a stutter. *)
LEMMA NextStoreStep ==
  ASSUME IInv, [Next]_vars
  PROVE  StoreStep
<1>1. CASE UNCHANGED vars
  BY <1>1, OtherStoreStep DEF vars, writerVars
<1>2. CASE EngineStep
  <2> PICK o \in OrderId :
         \/ LockFunds(o) \/ SettleTrade(o)
         \/ \E s \in {"partial", "filled"} : ReportStatus(o, s)
         \/ EndUntraded(o) \/ MakerFilled(o)
    BY <1>2 DEF EngineStep
  <2>1. CASE LockFunds(o) \/ SettleTrade(o)
    BY <2>1, SendStoreStep DEF LockFunds, SettleTrade
  <2>2. ASSUME NEW s \in {"partial", "filled"}, ReportStatus(o, s) PROVE StoreStep
    <3>1. /\ o \notin StatusesIn(queue) \cup StatusesIn(batch) \cup recorded
          /\ StatusesIn(queue') = StatusesIn(queue) \cup {o}
      BY <2>2, SendReport
    <3>2. ~lost /\ lost' = lost /\ batch' = batch /\ recorded' = recorded
      BY <2>2 DEF ReportStatus, SendCommand, Send, IInv, LostAtTheEnd
    <3>3. StatusesIn(queue)' = StatusesIn(queue') /\ StatusesIn(batch)' = StatusesIn(batch)
      BY <3>2 DEF StatusesIn, IsStatus
    <3>4. Waiting' = Waiting \cup {o} /\ o \notin Waiting \cup recorded
      BY <3>1, <3>2, <3>3 DEF Waiting
    <3> QED BY <3>2, <3>4 DEF StoreStep
  <2>3. CASE EndUntraded(o) \/ MakerFilled(o)
    BY <2>3, OtherStoreStep DEF EndUntraded, MakerFilled, writerVars
  <2> QED BY <2>1, <2>2, <2>3
<1>3. CASE StopEngine \/ ServiceStep
  BY <1>3, OtherStoreStep
     DEF StopEngine, Close, ServiceStep, AskCancel, EngineCancels, WriteCancelled,
         WriteCancelledFails, FaultOccurs, writerVars
<1>4. CASE Receive \/ TimerExpires \/ Recheck \/ Disconnected
  <2>1. CASE UNCHANGED <<stage, reported, cancel>>
    BY <1>4, <2>1, ReceivingMoves, StoreStutters DEF StoreStep
  <2>2. CASE ~UNCHANGED <<stage, reported, cancel>>
    BY <1>1, <1>2, <1>3, <2>2 DEF Next, Writer
  <2> QED BY <2>1, <2>2
<1>5. CASE Begin \/ \E i \in DOMAIN batch : Execute(i)
  BY <1>5, OtherStoreStep DEF Begin, Execute
<1>6. CASE Commit \/ DatabaseFails
  BY <1>6, CommitStoreStep, FailStoreStep
<1> QED BY <1>1, <1>2, <1>3, <1>4, <1>5, <1>6 DEF Next, Writer, WriterStep

(* The writer thread implements StatusStore: no reported status leaves the *)
(* batch before a transaction that contains it commits, none is recorded   *)
(* that was not reported, and none is given up before the thread stops -   *)
(* although flush_batch removes commands by the indices of another list.   *)
THEOREM WriterImplementsStore == Spec => ImplementsStatusStore
<1>1. Init => Store!Init
  <2> SUFFICES ASSUME Init PROVE Store!Init
    OBVIOUS
  <2>1. StatusesIn(queue) = {} /\ StatusesIn(batch) = {}
    BY DEF Init, WriterInit, StatusesIn
  <2> QED BY <2>1 DEF Init, WriterInit, Store!Init
<1>2. IInv /\ [Next]_vars => [Store!Next]_Store!store
  <2> SUFFICES ASSUME IInv, [Next]_vars PROVE [Store!Next]_Store!store
    OBVIOUS
  <2>1. StoreStep
    BY NextStoreStep
  <2>2. lost \in BOOLEAN /\ lost' \in BOOLEAN
    BY TypeNext DEF IInv, TypeOK
  <2> QED BY <2>1, <2>2
          DEF StoreStep, Waiting, Store!Next, Store!Report, Store!Record, Store!Abandon,
              Store!store
<1> QED BY <1>1, <1>2, Invariance, PTL DEF Spec, ImplementsStatusStore, Store!Spec

=============================================================================
