----------------------------- MODULE OrderStatus -----------------------------
(***************************************************************************)
(* Who writes the status of an order: the engine thread reports it to the  *)
(* DB writer (process_submit_order, engine/runtime/threads.rs), and the    *)
(* order service writes "cancelled" itself after the engine has taken the  *)
(* order out of its book (cancel_order, services/order_service.rs).        *)
(*                                                                         *)
(* The engine is abstracted to where each order stands: a submission sends *)
(* UpdateBalance, then one InsertTrade for a limit order that trades, then *)
(* its status.  Orders filled later as makers are not reported.            *)
(***************************************************************************)
EXTENDS DbWriter

VARIABLES stage,     \* order -> where it stands in the engine
          reported,  \* history: order -> the status sent to the writer
          cancel     \* order -> how far its cancellation got

vars == <<writerVars, stage, reported, cancel>>

Stage == {"new", "submitted", "traded", "resting", "gone"}
CancelStep == {"none", "asked", "removed", "cancelled", "unrecorded"}

EngineIdle == \A o \in OrderId : stage[o] \notin {"submitted", "traded"}

-----------------------------------------------------------------------------
(* The engine thread.  Every send may block on a full channel.             *)

SendCommand(kind, o, status) ==
  /\ Send([kind |-> kind, order_id |-> o, status |-> status])
  /\ UNCHANGED <<closed, batch, phase, after, flushVars, rows, faults, recorded, lost>>

(* Order ids grow, as the service that creates the rows assigns them.      *)
LockFunds(o) ==
  /\ EngineIdle
  /\ stage[o] = "new" /\ \A p \in OrderId : p < o => stage[p] # "new"
  /\ SendCommand("UpdateBalance", o, "pending")
  /\ stage' = [stage EXCEPT ![o] = "submitted"]
  /\ UNCHANGED <<reported, cancel>>

SettleTrade(o) ==
  /\ stage[o] = "submitted"
  /\ SendCommand("InsertTrade", o, "pending")
  /\ stage' = [stage EXCEPT ![o] = "traded"]
  /\ UNCHANGED <<reported, cancel>>

(* A limit order that traded is reported when its submission ends.         *)
ReportStatus(o, status) ==
  /\ stage[o] = "traded"
  /\ SendCommand("UpdateOrderStatus", o, status)
  /\ stage' = [stage EXCEPT ![o] = IF status = "filled" THEN "gone" ELSE "resting"]
  /\ reported' = [reported EXCEPT ![o] = status]
  /\ UNCHANGED cancel

(* An untraded limit order rests; a market order is gone.                  *)
EndUntraded(o) ==
  /\ stage[o] = "submitted"
  /\ \E next \in {"resting", "gone"} : stage' = [stage EXCEPT ![o] = next]
  /\ UNCHANGED <<writerVars, reported, cancel>>

MakerFilled(o) ==
  /\ EngineIdle
  /\ stage[o] = "resting"
  /\ stage' = [stage EXCEPT ![o] = "gone"]
  /\ UNCHANGED <<writerVars, reported, cancel>>

(* stop() drops the senders once the engine thread has ended.              *)
StopEngine ==
  /\ EngineIdle
  /\ Close
  /\ UNCHANGED <<stage, reported, cancel>>

-----------------------------------------------------------------------------
(* OrderService::cancel_order: check the row, ask the engine, write.       *)

AskCancel(o) ==
  /\ cancel[o] = "none"
  /\ rows[o] \in {"pending", "partial"}
  /\ cancel' = [cancel EXCEPT ![o] = "asked"]
  /\ UNCHANGED <<writerVars, stage, reported>>

(* Mutant: the engine does not care whether the order rests.               *)
CancellableAlways(o) == o \in OrderId
Cancellable(o) == stage[o] = "resting"

EngineCancels(o) ==
  /\ EngineIdle /\ ~closed
  /\ cancel[o] = "asked"
  /\ IF Cancellable(o)
     THEN /\ stage' = [stage EXCEPT ![o] = "gone"]
          /\ cancel' = [cancel EXCEPT ![o] = "removed"]
     ELSE /\ cancel' = [cancel EXCEPT ![o] = "none"]
          /\ UNCHANGED stage
  /\ UNCHANGED <<writerVars, reported>>

(* update_status waits for the row's lock.                                 *)
WriteCancelled(o) ==
  /\ cancel[o] = "removed"
  /\ o \notin RowLocks
  /\ rows' = [rows EXCEPT ![o] = "cancelled"]
  /\ cancel' = [cancel EXCEPT ![o] = "cancelled"]
  /\ UNCHANGED <<queue, closed, batch, phase, after, flushVars, faults, recorded, lost,
                 stage, reported>>

(* The write fails: nothing brings the order back or tries again.          *)
WriteCancelledFails(o) ==
  /\ cancel[o] = "removed" /\ FaultOccurs
  /\ cancel' = [cancel EXCEPT ![o] = "unrecorded"]
  /\ UNCHANGED <<batch, phase, after, flushVars, rows, recorded, lost, stage, reported>>

-----------------------------------------------------------------------------

Init ==
  /\ WriterInit
  /\ stage = [o \in OrderId |-> "new"]
  /\ reported = [o \in OrderId |-> "none"]
  /\ cancel = [o \in OrderId |-> "none"]

EngineStep ==
  \E o \in OrderId :
     \/ LockFunds(o) \/ SettleTrade(o)
     \/ \E s \in {"partial", "filled"} : ReportStatus(o, s)
     \/ EndUntraded(o) \/ MakerFilled(o)

ServiceStep ==
  \E o \in OrderId :
     AskCancel(o) \/ EngineCancels(o) \/ WriteCancelled(o) \/ WriteCancelledFails(o)

Writer == WriterStep /\ UNCHANGED <<stage, reported, cancel>>

Next == EngineStep \/ StopEngine \/ ServiceStep \/ Writer

Spec == Init /\ [][Next]_vars

(* The writer thread keeps running until it stops by itself.               *)
FairSpec == Spec /\ WF_vars(Writer)

-----------------------------------------------------------------------------
(* Properties.                                                             *)

StatusesIn(s) == {s[i].order_id : i \in {j \in DOMAIN s : IsStatus(s[j])}}
StatusesAt(I) == {batch[i].order_id : i \in {j \in I : IsStatus(batch[j])}}

(* While a transaction is open, executed holds positions of the batch, and *)
(* the rows it has locked are those of the statuses at these positions.    *)
TransactionOK ==
  /\ executed \subseteq IF phase = "execute" THEN ToExecute ELSE {}
  /\ RowLocks = StatusesAt(executed)

(* The type invariant of the engine's orders, the writer thread and the    *)
(* rows.                                                                   *)
TypeOK ==
  /\ queue \in Seq(Command) /\ Len(queue) <= QueueCapacity
  /\ batch \in Seq(Command)
  /\ phase \in {"receive", "recheck", "begin", "execute", "stopped"}
  /\ after \in {"receive", "recheck", "stopped"}
  /\ retries \in 0 .. MaxRetries
  /\ written \in [OrderId -> Status \cup {NotWritten}]
  /\ TransactionOK
  /\ rows \in [OrderId -> Status]
  /\ faults \in 0 .. MaxFaults
  /\ recorded \subseteq OrderId
  /\ {closed, lost} \subseteq BOOLEAN
  /\ reported \in [OrderId -> {"none", "partial", "filled"}]
  /\ stage \in [OrderId -> Stage] /\ cancel \in [OrderId -> CancelStep]

(* The batch that flush_batch shortens by the wrong indices never loses a  *)
(* status that was not committed, whatever fails and whenever it stops:    *)
(* statuses are recorded like those of a StatusStore.                      *)
Store == INSTANCE StatusStore
           WITH waiting   <- IF lost THEN {}
                             ELSE (StatusesIn(queue) \cup StatusesIn(batch)) \ recorded,
                done      <- recorded,
                abandoned <- lost

ImplementsStatusStore == Store!Spec

(* A filled order stays filled: a cancellation whose check of the row is   *)
(* out of date is refused by the engine before anything is written.        *)
FilledStaysFilled ==
  [][\A o \in OrderId : rows[o] = "filled" => rows'[o] = "filled"]_vars

(* Every status the engine reports is recorded sooner or later, after at   *)
(* most MaxFaults failures, unless the writer stops with a failed flush.   *)
StatusRecorded ==
  \A o \in OrderId : reported[o] # "none" ~> o \in recorded \/ lost

(* stop() returns: once the channel is closed the writer thread ends, even *)
(* when the database keeps failing (MAX_RETRIES bounds each flush).        *)
WriterStops == closed ~> phase = "stopped"

(* order_service.rs: cancel_order records the order as cancelled.  Nothing *)
(* revives a cancelled order's row.                                        *)
CancelledStays ==
  [][\A o \in OrderId : rows[o] = "cancelled" => rows'[o] = "cancelled"]_vars

=============================================================================
