----------------------------- MODULE TradeEvents -----------------------------
(***************************************************************************)
(* The events the engine thread publishes to Kafka for the Java server:    *)
(* trade_executed, with the balances of both parties, and order_cancelled  *)
(* (the publications of engine/runtime/threads.rs, shared/kafka).          *)
(*                                                                         *)
(* The engine thread is a counter of the changes it made to the balances;  *)
(* what a trade changes is left to MatchingEngine.  Each event is sent by  *)
(* an operating system thread of its own, which gives up after 100 ms; the *)
(* producer library it leaves the record with does not.                    *)
(*                                                                         *)
(* The library and the broker are external: records that wait at the same  *)
(* time may land in any order, one whose acknowledgement is lost is sent   *)
(* again (no idempotence is asked for), and a leader that fails takes the  *)
(* end of its log along, for it alone acknowledges (acks = 1).             *)
(***************************************************************************)
EXTENDS Integers, Sequences, FiniteSets

CONSTANTS Trader,       \* user ids
          MaxCommands,  \* bound: commands the engine thread handles
          MaxEvents,    \* bound: events published
          MaxFaults     \* bound: faults of the library and the broker

ASSUME EventsAssumption == {MaxCommands, MaxEvents, MaxFaults} \subseteq Nat

VARIABLES phase,     \* where the engine thread stands
          commands,  \* commands taken so far
          market,    \* the submission is a market order
          matches,   \* its matches
          settled,   \* how many of them are executed
          spawned,   \* how many of them have their thread
          changes,   \* changes of balances so far
          events,    \* the events, in the order their threads were spawned
          threads,   \* event -> where its thread stands
          unsent,    \* events whose record the producer library holds
          log,       \* partition -> events, as a consumer reads them
          faults     \* faults so far

submission == <<market, matches, settled, spawned>>
engine == <<phase, commands, submission, changes, events>>
kafka == <<unsent, log, faults>>
vars == <<engine, threads, kafka>>

Match == [buyer_id : Trader, seller_id : Trader]
EventId == 1 .. MaxEvents

(* after is a history variable: the events acknowledged before this one's  *)
(* thread was spawned.                                                     *)
Event == [type : {"trade_executed", "order_cancelled"}, command : 1 .. MaxCommands,
          user_id : Trader, seller_id : Trader, snapshot : Nat, after : SUBSET EventId]

-----------------------------------------------------------------------------
(* The engine thread.                                                      *)

Acknowledged == {e \in DOMAIN threads : threads[e] = "acknowledged"}

(* std::thread::spawn: the engine thread does not wait for it.             *)
Spawn(event) ==
  /\ events' = Append(events, event)
  /\ threads' = Append(threads, "spawned")

(* A taker's funds are locked and it meets makers.                         *)
SubmitOrder(taker, type, makers) ==
  /\ phase = "idle" /\ commands < MaxCommands
  /\ commands' = commands + 1
  /\ matches' = [i \in DOMAIN makers |->
                   IF type = "buy" THEN [buyer_id |-> taker, seller_id |-> makers[i]]
                                   ELSE [buyer_id |-> makers[i], seller_id |-> taker]]
  /\ market' \in BOOLEAN
  /\ settled' = 0 /\ spawned' = 0
  /\ changes' = changes + 1
  /\ phase' = "executing"
  /\ UNCHANGED <<events, threads, kafka>>

ExecuteTrade ==
  /\ phase = "executing" /\ settled < Len(matches)
  /\ settled' = settled + 1
  /\ changes' = changes + 1
  /\ UNCHANGED <<phase, commands, market, matches, spawned, events, threads, kafka>>

(* A market order's rest is unlocked before its events are made.           *)
FinishExecuting ==
  /\ phase = "executing" /\ settled = Len(matches)
  /\ phase' = "publishing"
  /\ changes' \in IF market THEN {changes, changes + 1} ELSE {changes}
  /\ UNCHANGED <<commands, submission, events, threads, kafka>>

(* Mutant: the events of a match are made before it is executed.           *)
MayPublishMatched == phase \in {"executing", "publishing"} /\ spawned < Len(matches)
(* Mutant: an event is made as soon as its trade is executed.              *)
MayPublishAtOnce == phase \in {"executing", "publishing"} /\ spawned < settled
MayPublish == phase = "publishing" /\ spawned < Len(matches)

(* One turn of the loop that reads the four balances and spawns a thread.  *)
PublishTrade ==
  /\ MayPublish
  /\ spawned' = spawned + 1
  /\ LET match == matches[spawned + 1]
     IN  Spawn([type |-> "trade_executed", command |-> commands,
                user_id |-> match.buyer_id, seller_id |-> match.seller_id,
                snapshot |-> changes, after |-> Acknowledged])
  /\ UNCHANGED <<phase, commands, market, matches, settled, changes, kafka>>

(* A limit order that is filled gets the rest of its lock back only now.   *)
FinishOrder ==
  /\ phase = "publishing" /\ spawned = Len(matches)
  /\ phase' = "idle"
  /\ changes' \in IF market THEN {changes} ELSE {changes, changes + 1}
  /\ matches' = << >> /\ market' = FALSE /\ settled' = 0 /\ spawned' = 0
  /\ UNCHANGED <<commands, events, threads, kafka>>

(* The funds are unlocked, then the event is made, then the caller gets    *)
(* the answer.                                                             *)
CancelOrder(user) ==
  /\ phase = "idle" /\ commands < MaxCommands /\ Len(events) < MaxEvents
  /\ commands' = commands + 1
  /\ changes' = changes + 1
  /\ Spawn([type |-> "order_cancelled", command |-> commands + 1, user_id |-> user,
            seller_id |-> user, snapshot |-> 0, after |-> Acknowledged])
  /\ UNCHANGED <<phase, submission, kafka>>

-----------------------------------------------------------------------------
(* A publishing thread.                                                    *)

(* Mutant: trades are partitioned by their seller.                         *)
SellerKey(e) == events[e].seller_id

(* The buyer of a trade, the owner of a cancelled order.                   *)
PartitionKey(e) == events[e].user_id

(* send: the library takes the record, or its queue is full.               *)
Send(e) ==
  /\ threads[e] = "spawned"
  /\ \/ /\ threads' = [threads EXCEPT ![e] = "sending"]
        /\ unsent' = unsent \cup {e}
        /\ UNCHANGED faults
     \/ /\ faults < MaxFaults /\ faults' = faults + 1
        /\ threads' = [threads EXCEPT ![e] = "failed"]
        /\ UNCHANGED unsent
  /\ UNCHANGED <<engine, log>>

(* Mutant: the thread waits for the library, however long that takes.      *)
TimesOutWithLibrary(e) == threads[e] = "sending" /\ e \notin unsent
TimesOut(e) == threads[e] = "sending"

(* The 100 ms are over; publish answers Ok all the same.                   *)
GiveUp(e) ==
  /\ TimesOut(e)
  /\ threads' = [threads EXCEPT ![e] = "failed"]
  /\ UNCHANGED <<engine, kafka>>

-----------------------------------------------------------------------------
(* The producer library and the broker.                                    *)

Answer(e, result) ==
  threads' = [threads EXCEPT ![e] = IF @ = "sending" THEN result ELSE @]

Appended(e) == log' = [log EXCEPT ![PartitionKey(e)] = Append(@, e)]

Deliver(e) ==
  /\ e \in unsent /\ unsent' = unsent \ {e}
  /\ Appended(e)
  /\ Answer(e, "acknowledged")
  /\ UNCHANGED <<engine, faults>>

Fault == faults < MaxFaults /\ faults' = faults + 1 /\ UNCHANGED engine

(* The record lands and its acknowledgement is lost: it is sent again.     *)
DeliverUnacknowledged(e) ==
  /\ Fault
  /\ e \in unsent
  /\ Appended(e)
  /\ UNCHANGED <<threads, unsent>>

(* message.timeout.ms, or no retry left.                                   *)
Expire(e) ==
  /\ Fault
  /\ e \in unsent /\ unsent' = unsent \ {e}
  /\ Answer(e, "failed")
  /\ UNCHANGED log

LeaderFails(p) ==
  /\ Fault
  /\ log[p] # << >> /\ log' = [log EXCEPT ![p] = SubSeq(@, 1, Len(@) - 1)]
  /\ UNCHANGED <<threads, unsent>>

-----------------------------------------------------------------------------
Init ==
  /\ phase = "idle" /\ commands = 0 /\ changes = 0
  /\ market = FALSE /\ matches = << >> /\ settled = 0 /\ spawned = 0
  /\ events = << >> /\ threads = << >>
  /\ unsent = {} /\ log = [p \in Trader |-> << >>] /\ faults = 0

SubmissionStep == ExecuteTrade \/ FinishExecuting \/ PublishTrade \/ FinishOrder
ThreadStep(e) == e \in DOMAIN threads /\ (Send(e) \/ GiveUp(e))

BrokerStep ==
  \/ \E e \in unsent : Deliver(e) \/ DeliverUnacknowledged(e) \/ Expire(e)
  \/ \E p \in Trader : LeaderFails(p)

Next ==
  \/ \E taker \in Trader, type \in {"buy", "sell"}, n \in 0 .. MaxEvents - Len(events) :
       \E makers \in [1 .. n -> Trader \ {taker}] : SubmitOrder(taker, type, makers)
  \/ \E user \in Trader : CancelOrder(user)
  \/ SubmissionStep
  \/ \E e \in EventId : ThreadStep(e)
  \/ BrokerStep

Spec == Init /\ [][Next]_vars

(* The engine thread finishes what it began, and publishing threads run.   *)
(* Nothing is asked of the library and the broker.                         *)
FairSpec ==
  /\ Spec
  /\ WF_vars(SubmissionStep)
  /\ \A e \in EventId : WF_vars(ThreadStep(e))

-----------------------------------------------------------------------------
TypeOK ==
  /\ phase \in {"idle", "executing", "publishing"}
  /\ commands \in 0 .. MaxCommands /\ market \in BOOLEAN
  /\ matches \in Seq(Match)
  /\ spawned <= settled /\ settled <= Len(matches)
  /\ changes \in Nat
  /\ events \in Seq(Event) /\ Len(events) = Len(threads)
  /\ threads \in Seq({"spawned", "sending", "acknowledged", "failed"})
  /\ unsent \subseteq DOMAIN events
  /\ \A p \in Trader : \A i \in DOMAIN log[p] : log[p][i] \in DOMAIN events
  /\ faults \in 0 .. MaxFaults

(* The events of one submission carry the same balances: those after the   *)
(* last of its trades, and no event of a later command carries older ones. *)
(* What is lost or late can be made up for by a later event of the same    *)
(* users (events.rs: the balances after the trade).                        *)
IsTrade(e) == events[e].type = "trade_executed"

SnapshotsAgree ==
  \A e, f \in {e \in DOMAIN events : IsTrade(e)} :
     /\ events[e].command = events[f].command => events[e].snapshot = events[f].snapshot
     /\ events[e].command < events[f].command => events[e].snapshot < events[f].snapshot

(* When an event is acknowledged before another of the same buyer is made, *)
(* a consumer reads them in that order, however often either is resent and *)
(* whatever a leader loses: they share a partition (producer.rs: events of *)
(* a user keep their order).  Events whose threads overlap may swap.       *)
AcknowledgedComeFirst ==
  \A p, q \in Trader : \A i \in DOMAIN log[p], j \in DOMAIN log[q] :
     LET e == log[p][i]
         f == log[q][j]
     IN  e \in events[f].after /\ events[e].user_id = events[f].user_id => p = q /\ i < j

(* The engine thread finishes every submission and every publishing thread *)
(* ends, although the broker may never answer (producer.rs: publishing     *)
(* must not slow the engine down).                                         *)
NobodyWaitsForKafka ==
  /\ phase # "idle" ~> phase = "idle"
  /\ \A e \in EventId :
       (e \in DOMAIN threads /\ threads[e] \in {"spawned", "sending"})
         ~> (e \in DOMAIN threads /\ threads[e] \in {"acknowledged", "failed"})

=============================================================================
