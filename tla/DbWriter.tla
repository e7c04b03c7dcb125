------------------------------ MODULE DbWriter ------------------------------
(***************************************************************************)
(* The DB writer thread: it collects the commands of the engine thread in  *)
(* a batch and writes each batch in one transaction                        *)
(* (db_writer_thread_loop, flush_batch and process_db_command of           *)
(* engine/runtime/threads.rs).                                             *)
(*                                                                         *)
(* flush_batch executes a filtered and sorted copy of the batch, but       *)
(* removes by the copy's indices from the batch itself.                    *)
(*                                                                         *)
(* The database is external.  A transaction holds the locks of the rows it *)
(* updated until it commits or rolls back, so its effect is that of the    *)
(* commands executed so far.  The database fails at most MaxFaults times,  *)
(* with a deadlock or with another error.                                  *)
(***************************************************************************)
EXTENDS Naturals, Sequences, FiniteSets

CONSTANTS MaxOrders,     \* bound: orders the engine accepts
          QueueCapacity, \* capacity of the channel from the engine thread
          BatchLimit,    \* batch_size_limit
          MaxRetries,    \* MAX_RETRIES
          MaxFaults      \* bound: failures of the database

ASSUME WriterAssumption ==
  /\ {MaxOrders, MaxRetries, MaxFaults} \subseteq Nat
  /\ {QueueCapacity, BatchLimit} \subseteq Nat \ {0}

OrderId == 1 .. MaxOrders
Status == {"pending", "partial", "filled", "cancelled"}
Fault == {"deadlock", "other"}

NotWritten == "unwritten"
NothingWritten == [o \in OrderId |-> NotWritten]

(* The commands the engine sends; it no longer sends InsertOrder.  status  *)
(* means something only in an UpdateOrderStatus.                           *)
Command == [kind : {"UpdateBalance", "UpdateOrderStatus", "InsertTrade"},
            order_id : OrderId, status : Status]

VARIABLES queue,     \* the channel db_rx receives from
          closed,    \* every sender is dropped
          batch,     \* batch
          phase,     \* where the thread stands
          after,     \* where it goes on when the flush returns
          retries,   \* retry_count
          executed,  \* successful_indices, as positions in the batch
          rows,      \* the status column of orders
          written,   \* order -> its status in the open transaction, if updated
          faults,    \* failures of the database so far
          recorded,  \* history: orders whose reported status was committed
          lost       \* history: the last flush failed and its batch is gone

flushVars == <<retries, executed, written>>
writerVars == <<queue, closed, batch, phase, after, flushVars, rows, faults,
                recorded, lost>>

-----------------------------------------------------------------------------
(* Which commands of the batch flush_batch executes, and in which order:   *)
(* UpdateBalance is filtered out, and the stable sort by priority puts     *)
(* every UpdateOrderStatus before every InsertTrade.                       *)

IsStatus(c) == c.kind = "UpdateOrderStatus"

ToExecute == {i \in DOMAIN batch : batch[i].kind # "UpdateBalance"}

Before(i, j) == IF IsStatus(batch[i]) = IsStatus(batch[j]) THEN i < j
                                                           ELSE IsStatus(batch[i])

NextCommand(i) ==
  /\ i \in ToExecute \ executed
  /\ \A j \in ToExecute \ executed : j # i => Before(i, j)

(* The rows the open transaction has updated, and so locked.               *)
RowLocks == {o \in OrderId : written[o] # NotWritten}

CommittedRows ==
  [o \in OrderId |-> IF o \in RowLocks THEN written[o] ELSE rows[o]]

(* The code collects the positions in the sorted copy, 0 .. k - 1, and     *)
(* removes them from the batch itself: that drops the first k commands of  *)
(* the batch, whichever ones were executed.                                *)
Leftover == SubSeq(batch, Cardinality(executed) + 1, Len(batch))

(* process_db_command wraps an error with context(), and to_string() shows *)
(* the context only; a commit error is passed on as it is.                 *)
ErrorText(step, fault) == IF step = "execute" THEN "other" ELSE fault
IsDeadlockError(text) == text = "deadlock"

-----------------------------------------------------------------------------
(* Receiving.                                                              *)

(* Used by the engine thread: a send blocks while the channel is full.     *)
Send(c) ==
  /\ ~closed /\ Len(queue) < QueueCapacity
  /\ queue' = Append(queue, c)

Close ==
  /\ ~closed
  /\ closed' = TRUE
  /\ UNCHANGED <<queue, batch, phase, after, flushVars, rows, faults, recorded, lost>>

StartFlush(return) ==
  /\ phase' = "begin" /\ after' = return
  /\ UNCHANGED flushVars

EndFlush ==
  /\ phase' = after /\ after' = "receive"
  /\ retries' = 0 /\ executed' = {} /\ written' = NothingWritten

(* A command that fills the batch up makes the thread flush it.            *)
Receive ==
  /\ phase = "receive" /\ queue # << >>
  /\ queue' = Tail(queue)
  /\ batch' = Append(batch, Head(queue))
  /\ IF Len(batch') >= BatchLimit
     THEN StartFlush("receive")
     ELSE UNCHANGED <<phase, after, flushVars>>
  /\ UNCHANGED <<closed, rows, faults, recorded, lost>>

(* Mutant: the timer is not looked at, only the size of the batch.         *)
TimerDueBySize == Len(batch) >= BatchLimit
TimerDue == batch # << >>

(* The time limit passes while the channel is empty.  When it had passed   *)
(* before the thread looked, the thread polls the channel once more.       *)
TimerExpires ==
  /\ phase = "receive" /\ queue = << >> /\ ~closed
  /\ \E next \in {"receive", "recheck"} :
       IF TimerDue THEN StartFlush(next)
                   ELSE phase' = next /\ UNCHANGED <<after, flushVars>>
  /\ UNCHANGED <<queue, closed, batch, rows, faults, recorded, lost>>

(* That poll does not look at the size of the batch.                       *)
Recheck ==
  /\ phase = "recheck"
  /\ ~(closed /\ queue = << >>)
  /\ phase' = "receive"
  /\ IF queue = << >> THEN UNCHANGED <<queue, batch>>
                      ELSE /\ queue' = Tail(queue)
                           /\ batch' = Append(batch, Head(queue))
  /\ UNCHANGED <<closed, after, flushVars, rows, faults, recorded, lost>>

(* Mutant: the thread goes on until the batch is empty.                    *)
FlushAgain == "receive"
AfterLastFlush == "stopped"

(* The channel is closed and drained: one last flush.                      *)
Disconnected ==
  /\ phase \in {"receive", "recheck"} /\ closed /\ queue = << >>
  /\ IF batch = << >>
     THEN phase' = "stopped" /\ UNCHANGED <<after, flushVars>>
     ELSE StartFlush(AfterLastFlush)
  /\ UNCHANGED <<queue, closed, batch, rows, faults, recorded, lost>>

-----------------------------------------------------------------------------
(* flush_batch.                                                            *)

Begin ==
  /\ phase = "begin"
  /\ phase' = "execute"
  /\ UNCHANGED <<queue, closed, batch, after, flushVars, rows, faults, recorded, lost>>

Execute(i) ==
  /\ phase = "execute"
  /\ NextCommand(i)
  /\ executed' = executed \cup {i}
  /\ written' = IF IsStatus(batch[i])
                THEN [written EXCEPT ![batch[i].order_id] = batch[i].status]
                ELSE written
  /\ UNCHANGED <<queue, closed, batch, phase, after, retries, rows, faults, recorded, lost>>

AllExecuted == phase = "execute" /\ executed = ToExecute

Commit ==
  /\ AllExecuted
  /\ rows' = CommittedRows
  /\ recorded' = recorded \cup RowLocks
  /\ batch' = Leftover
  /\ EndFlush
  /\ UNCHANGED <<queue, closed, faults, lost>>

(* Mutant: the batch was drained before it was executed.                   *)
DrainedBatch == << >>
BatchAfterError == batch

(* The flush returns an error: the batch is kept for the next flush, but   *)
(* there is none when the thread is about to stop.                         *)
FlushFails ==
  /\ EndFlush
  /\ batch' = BatchAfterError
  /\ lost' = (lost \/ after = "stopped")

(* Mutant: one retry too many.                                             *)
MayRetryOnceMore == retries <= MaxRetries
MayRetry == retries < MaxRetries

Retry ==
  IF MayRetry
  THEN /\ phase' = "begin"
       /\ retries' = retries + 1
       /\ executed' = {} /\ written' = NothingWritten
       /\ UNCHANGED <<after, batch, lost>>
  ELSE FlushFails

RetryOrFail(step, fault) ==
  IF IsDeadlockError(ErrorText(step, fault)) THEN Retry ELSE FlushFails

FaultOccurs ==
  /\ faults < MaxFaults
  /\ faults' = faults + 1
  /\ UNCHANGED <<queue, closed>>

BeginFails ==
  /\ phase = "begin" /\ FaultOccurs
  /\ Retry
  /\ UNCHANGED <<rows, recorded>>

(* Only an UpdateOrderStatus touches the database.                         *)
ExecuteFails(fault) ==
  /\ phase = "execute" /\ FaultOccurs
  /\ \E i \in DOMAIN batch : NextCommand(i) /\ IsStatus(batch[i])
  /\ RetryOrFail("execute", fault)
  /\ UNCHANGED <<rows, recorded>>

(* When the connection breaks during the commit, the transaction may have  *)
(* been committed all the same.                                            *)
CommitFails(fault) ==
  /\ AllExecuted /\ FaultOccurs
  /\ RetryOrFail("commit", fault)
  /\ \/ UNCHANGED <<rows, recorded>>
     \/ /\ fault = "other"
        /\ rows' = CommittedRows
        /\ recorded' = recorded \cup RowLocks

DatabaseFails ==
  BeginFails \/ \E fault \in Fault : ExecuteFails(fault) \/ CommitFails(fault)

WriterStep ==
  \/ Receive \/ TimerExpires \/ Recheck \/ Disconnected
  \/ Begin \/ Commit
  \/ \E i \in DOMAIN batch : Execute(i)
  \/ DatabaseFails

WriterInit ==
  /\ queue = << >> /\ closed = FALSE
  /\ batch = << >> /\ phase = "receive" /\ after = "receive"
  /\ retries = 0 /\ executed = {} /\ written = NothingWritten
  /\ rows = [o \in OrderId |-> "pending"]
  /\ faults = 0 /\ recorded = {} /\ lost = FALSE

=============================================================================
