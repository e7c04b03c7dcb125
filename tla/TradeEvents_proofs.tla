-------------------------- MODULE TradeEvents_proofs --------------------------
(***************************************************************************)
(* Proofs about TradeEvents: the type invariant, that the snapshots of a   *)
(* submission agree, and that what is acknowledged comes first.            *)
(***************************************************************************)
EXTENDS TradeEvents, SequenceTheorems, TLAPS

ThreadState == {"spawned", "sending", "acknowledged", "failed"}

(* The engine thread's part of the types.                                  *)
EngineTypeOK ==
  /\ phase \in {"idle", "executing", "publishing"}
  /\ commands \in 0 .. MaxCommands /\ (phase # "idle" => commands > 0)
  /\ market \in BOOLEAN
  /\ matches \in Seq(Match)
  /\ settled \in Nat /\ spawned \in Nat
  /\ spawned <= settled /\ settled <= Len(matches)
  /\ phase = "idle" => Len(matches) = 0
  /\ phase = "publishing" => settled = Len(matches)
  /\ changes \in Nat

(* The events a submission still has to publish fit under the bound.       *)
EventsTypeOK ==
  /\ events \in Seq(Event)
  /\ threads \in Seq(ThreadState)
  /\ Len(events) = Len(threads)
  /\ Len(events) + (Len(matches) - spawned) <= MaxEvents

KafkaTypeOK ==
  /\ unsent \subseteq DOMAIN events
  /\ log \in [Trader -> Seq(DOMAIN events)]
  /\ faults \in 0 .. MaxFaults

Types == EngineTypeOK /\ EventsTypeOK /\ KafkaTypeOK

(* A trade's snapshot is the last change of its submission, and older than *)
(* what the engine thread does next.                                       *)
OlderSnapshots ==
  \A e \in DOMAIN events : IsTrade(e) =>
     /\ events[e].command <= commands /\ events[e].snapshot <= changes
     /\ phase = "executing" =>
          events[e].command < commands /\ events[e].snapshot < changes
     /\ phase = "publishing" =>
          IF events[e].command = commands THEN events[e].snapshot = changes
                                          ELSE events[e].snapshot < changes

Snapshots == OlderSnapshots /\ SnapshotsAgree

(* What an event comes after has been acknowledged and is gone from the    *)
(* producer library.                                                       *)
Settled ==
  /\ \A e \in unsent : threads[e] # "acknowledged"
  /\ \A f \in DOMAIN events : \A e \in events[f].after :
        e \in DOMAIN events /\ e < f /\ threads[e] = "acknowledged"

(* Each partition holds its own users' events, no event before one that it *)
(* comes after.                                                            *)
Ordered ==
  \A p \in Trader :
     /\ \A i \in DOMAIN log[p] : PartitionKey(log[p][i]) = p
     /\ \A i, j \in DOMAIN log[p] :
          log[p][i] \in events[log[p][j]].after => i < j

IInv == Types /\ Snapshots /\ Settled /\ Ordered

-----------------------------------------------------------------------------
(* Sequences.                                                              *)

(* A function on 1 .. n is a sequence of length n.                         *)
LEMMA FunctionIsSeq ==
  ASSUME NEW S, NEW n \in Nat, NEW f \in [1 .. n -> S]
  PROVE  f \in Seq(S) /\ Len(f) = n
OBVIOUS

(* A sequence over a set is one over any larger set.                       *)
LEMMA SeqGrows ==
  ASSUME NEW S, NEW T, S \subseteq T, NEW s \in Seq(S)
  PROVE  s \in Seq(T)
BY SeqMonotonic

(* Dropping the last element.                                              *)
LEMMA ShorterSeq ==
  ASSUME NEW S, NEW s \in Seq(S), s # << >>
  PROVE  LET t == SubSeq(s, 1, Len(s) - 1)
         IN  /\ t \in Seq(S) /\ Len(t) = Len(s) - 1
             /\ \A i \in 1 .. Len(s) - 1 : t[i] = s[i]
<1>0. Len(s) \in Nat \ {0}
  BY EmptySeq
<1>1. \A i \in 1 .. Len(s) - 1 : s[i] \in S
  BY <1>0, LenProperties
<1>. DEFINE n == Len(s) - 1
<1>2. n \in Nat
  BY <1>0
<1>. HIDE DEF n
<1>3. n - 1 + 1 = n /\ \A i \in 1 .. n : 1 + i - 1 = i
  BY <1>2
<1>4. \A i \in 1 .. n : s[i] \in S
  BY <1>1 DEF n
<1>5. /\ SubSeq(s, 1, n) \in Seq(S)
      /\ Len(SubSeq(s, 1, n)) = IF 1 <= n THEN n - 1 + 1 ELSE 0
      /\ \A i \in 1 .. n - 1 + 1 : SubSeq(s, 1, n)[i] = s[1 + i - 1]
  BY <1>2, <1>4, SubSeqProperties
<1>6. Len(SubSeq(s, 1, n)) = n
  <2>1. CASE 1 <= n
    BY <1>3, <1>5, <2>1
  <2>2. CASE ~(1 <= n)
    BY <1>2, <1>5, <2>2
  <2>. QED
    BY <2>1, <2>2
<1>7. \A i \in 1 .. n : SubSeq(s, 1, n)[i] = s[i]
  BY <1>3, <1>5
<1>. QED
  BY <1>5, <1>6, <1>7 DEF n

-----------------------------------------------------------------------------
(* What the steps that touch sequences do to them.                         *)

(* Spawning a thread adds an event at the end and leaves the others.       *)
LEMMA Spawned ==
  ASSUME EventsTypeOK, NEW event \in Event, Spawn(event)
  PROVE  /\ events' \in Seq(Event) /\ threads' \in Seq(ThreadState)
         /\ Len(events') = Len(events) + 1 /\ Len(threads') = Len(threads) + 1
         /\ DOMAIN events = 1 .. Len(events) /\ DOMAIN threads = 1 .. Len(events)
         /\ DOMAIN events' = 1 .. Len(events) + 1
         /\ events'[Len(events) + 1] = event
         /\ \A e \in DOMAIN events : events'[e] = events[e] /\ threads'[e] = threads[e]
<1>1. "spawned" \in ThreadState
  BY DEF ThreadState
<1>2. /\ events' \in Seq(Event) /\ Len(events') = Len(events) + 1
      /\ events'[Len(events) + 1] = event
      /\ \A e \in 1 .. Len(events) : events'[e] = events[e]
  BY AppendProperties DEF EventsTypeOK, Spawn
<1>3. /\ threads' \in Seq(ThreadState) /\ Len(threads') = Len(threads) + 1
      /\ \A e \in 1 .. Len(threads) : threads'[e] = threads[e]
  BY <1>1, AppendProperties DEF EventsTypeOK, Spawn
<1>4. /\ DOMAIN events = 1 .. Len(events) /\ DOMAIN threads = 1 .. Len(threads)
      /\ DOMAIN events' = 1 .. Len(events')
  BY <1>2, LenProperties DEF EventsTypeOK
<1>. QED
  BY <1>2, <1>3, <1>4 DEF EventsTypeOK

(* A record that lands is the last of its partition.                       *)
LEMMA Landed ==
  ASSUME Types, NEW e \in unsent, Appended(e)
  PROVE  /\ PartitionKey(e) \in Trader
         /\ log' \in [Trader -> Seq(DOMAIN events)]
         /\ \A p \in Trader \ {PartitionKey(e)} : log'[p] = log[p]
         /\ LET p == PartitionKey(e)
            IN  /\ DOMAIN log[p] = 1 .. Len(log[p]) /\ Len(log[p]) \in Nat
                /\ DOMAIN log'[p] = 1 .. Len(log[p]) + 1
                /\ log'[p][Len(log[p]) + 1] = e
                /\ \A i \in DOMAIN log[p] : log'[p][i] = log[p][i]
<1>. DEFINE p == PartitionKey(e)
<1>1. e \in DOMAIN events /\ events[e] \in Event
  BY LenProperties DEF Types, KafkaTypeOK, EventsTypeOK
<1>2. p \in Trader
  BY <1>1 DEF PartitionKey, Event
<1>. HIDE DEF p
<1>3. log[p] \in Seq(DOMAIN events)
  BY <1>2 DEF Types, KafkaTypeOK
<1>4. log' = [log EXCEPT ![p] = Append(log[p], e)]
  BY <1>2 DEF Appended, p
<1>5. log'[p] = Append(log[p], e) /\ \A q \in Trader \ {p} : log'[q] = log[q]
  BY <1>2, <1>4 DEF Types, KafkaTypeOK
<1>6. /\ log'[p] \in Seq(DOMAIN events) /\ Len(log'[p]) = Len(log[p]) + 1
      /\ log'[p][Len(log[p]) + 1] = e
      /\ \A i \in 1 .. Len(log[p]) : log'[p][i] = log[p][i]
  BY <1>1, <1>3, <1>5, AppendProperties
<1>7. /\ Len(log[p]) \in Nat /\ DOMAIN log[p] = 1 .. Len(log[p])
      /\ DOMAIN log'[p] = 1 .. Len(log'[p])
  BY <1>3, <1>6, LenProperties
<1>8. log' \in [Trader -> Seq(DOMAIN events)]
  BY <1>2, <1>4, <1>5, <1>6 DEF Types, KafkaTypeOK
<1>. QED
  BY <1>2, <1>5, <1>6, <1>7, <1>8 DEF p

(* A failing leader takes the last record of its partition.                *)
LEMMA Dropped ==
  ASSUME Types, NEW p \in Trader, LeaderFails(p)
  PROVE  /\ log' \in [Trader -> Seq(DOMAIN events)]
         /\ \A q \in Trader : /\ DOMAIN log'[q] \subseteq DOMAIN log[q]
                              /\ \A i \in DOMAIN log'[q] : log'[q][i] = log[q][i]
<1>. DEFINE t == SubSeq(log[p], 1, Len(log[p]) - 1)
<1>1. log[p] \in Seq(DOMAIN events) /\ log[p] # << >>
  BY DEF Types, KafkaTypeOK, LeaderFails
<1>2. /\ t \in Seq(DOMAIN events) /\ Len(t) = Len(log[p]) - 1
      /\ \A i \in 1 .. Len(log[p]) - 1 : t[i] = log[p][i]
  BY <1>1, ShorterSeq
<1>3. /\ Len(log[p]) \in Nat
      /\ DOMAIN t = 1 .. Len(log[p]) - 1 /\ DOMAIN log[p] = 1 .. Len(log[p])
  BY <1>1, <1>2, LenProperties
<1>4. log' = [log EXCEPT ![p] = t]
  BY DEF LeaderFails
<1>. HIDE DEF t
<1>5. log'[p] = t /\ \A q \in Trader \ {p} : log'[q] = log[q]
  BY <1>4 DEF Types, KafkaTypeOK
<1>6. log' \in [Trader -> Seq(DOMAIN events)]
  BY <1>2, <1>4 DEF Types, KafkaTypeOK
<1>7. DOMAIN t \subseteq DOMAIN log[p] /\ \A i \in DOMAIN t : t[i] = log[p][i]
  BY <1>2, <1>3
<1>. QED
  BY <1>5, <1>6, <1>7

(* Answering a thread and ending it leave all others as they are; an       *)
(* acknowledged one stays so.                                              *)
LEMMA ThreadMoves ==
  ASSUME EventsTypeOK, NEW e \in DOMAIN threads, NEW result \in ThreadState,
         threads[e] \in {"spawned", "sending"} \/ result = threads[e],
         threads' = [threads EXCEPT ![e] = result]
  PROVE  /\ threads' \in Seq(ThreadState) /\ Len(threads') = Len(threads)
         /\ threads'[e] = result
         /\ \A f \in DOMAIN threads \ {e} : threads'[f] = threads[f]
         /\ \A f \in DOMAIN threads :
              threads[f] = "acknowledged" => threads'[f] = "acknowledged"
<1>1. /\ threads' \in Seq(ThreadState) /\ Len(threads') = Len(threads)
  BY ExceptSeq DEF EventsTypeOK
<1>2. /\ threads'[e] = result
      /\ \A f \in DOMAIN threads \ {e} : threads'[f] = threads[f]
  BY DEF EventsTypeOK
<1>. QED
  BY <1>1, <1>2

-----------------------------------------------------------------------------
(* The type invariant.                                                     *)

(* The empty sequence.                                                     *)
LEMMA NoneYet ==
  /\ << >> \in Seq(Match) /\ << >> \in Seq(Event) /\ << >> \in Seq(ThreadState)
  /\ << >> \in Seq({}) /\ Len(<< >>) = 0 /\ DOMAIN << >> = {}
BY EmptySeq, LenProperties

LEMMA InitTypes == Init => Types
<1>. SUFFICES ASSUME Init PROVE Types
  OBVIOUS
<1>0. {MaxCommands, MaxEvents, MaxFaults} \subseteq Nat
  BY EventsAssumption
<1>1. EngineTypeOK
  <2>1. matches \in Seq(Match) /\ Len(matches) = 0
    BY NoneYet DEF Init
  <2>2. /\ phase = "idle" /\ commands = 0 /\ changes = 0
        /\ settled = 0 /\ spawned = 0
    BY DEF Init
  <2>3. market \in BOOLEAN
    BY DEF Init
  <2>. QED
    BY <1>0, <2>1, <2>2, <2>3 DEF EngineTypeOK
<1>2. EventsTypeOK
  BY <1>0, NoneYet DEF Init, EventsTypeOK
<1>3. KafkaTypeOK
  BY <1>0, NoneYet DEF Init, KafkaTypeOK
<1>. QED
  BY <1>1, <1>2, <1>3 DEF Types

(* A submission's matches are well formed and its events fit.              *)
LEMMA SubmitTypes ==
  ASSUME Types, NEW taker \in Trader, NEW type \in {"buy", "sell"},
         NEW n \in 0 .. MaxEvents - Len(events),
         NEW makers \in [1 .. n -> Trader \ {taker}],
         SubmitOrder(taker, type, makers)
  PROVE  Types'
<1>1. matches' \in [1 .. n -> Match]
  <2>1. DOMAIN makers = 1 .. n /\ \A i \in 1 .. n : makers[i] \in Trader
    OBVIOUS
  <2>. QED
    BY <2>1 DEF SubmitOrder, Match
<1>2. /\ Len(events) \in Nat /\ n \in Nat /\ Len(events) + n <= MaxEvents
  BY EventsAssumption, LenProperties DEF Types, EventsTypeOK
<1>3. matches' \in Seq(Match) /\ Len(matches') = n
  BY <1>1, <1>2, FunctionIsSeq
<1>4. EngineTypeOK'
  <2>1. commands' \in 0 .. MaxCommands /\ commands' > 0
    BY EventsAssumption DEF Types, EngineTypeOK, SubmitOrder
  <2>2. settled' = 0 /\ spawned' = 0 /\ phase' = "executing" /\ market' \in BOOLEAN
    BY DEF SubmitOrder
  <2>3. changes' \in Nat
    BY DEF Types, EngineTypeOK, SubmitOrder
  <2>. QED
    BY <1>2, <1>3, <2>1, <2>2, <2>3 DEF EngineTypeOK
<1>5. EventsTypeOK'
  <2>1. UNCHANGED <<events, threads>> /\ spawned' = 0
    BY DEF SubmitOrder
  <2>. QED
    BY <1>2, <1>3, <2>1 DEF Types, EventsTypeOK
<1>6. KafkaTypeOK'
  BY DEF Types, KafkaTypeOK, SubmitOrder, kafka
<1>. QED
  BY <1>4, <1>5, <1>6 DEF Types

(* The event of the next match.                                            *)
LEMMA TradeEvent ==
  ASSUME Types, PublishTrade
  PROVE  LET match == matches[spawned + 1]
             event == [type |-> "trade_executed", command |-> commands,
                       user_id |-> match.buyer_id, seller_id |-> match.seller_id,
                       snapshot |-> changes, after |-> Acknowledged]
         IN  event \in Event /\ Spawn(event)
<1>. DEFINE match == matches[spawned + 1]
            event == [type |-> "trade_executed", command |-> commands,
                      user_id |-> match.buyer_id, seller_id |-> match.seller_id,
                      snapshot |-> changes, after |-> Acknowledged]
<1>. USE DEF Types
<1>0. Len(matches) \in Nat /\ Len(events) \in Nat
  BY LenProperties DEF EngineTypeOK, EventsTypeOK
<1>1. spawned + 1 \in 1 .. Len(matches) /\ phase = "publishing"
  BY <1>0 DEF EngineTypeOK, PublishTrade, MayPublish
<1>2. match \in Match
  BY <1>1, ElementOfSeq DEF EngineTypeOK
<1>3. Acknowledged \subseteq EventId
  BY <1>0, <1>1, LenProperties, EventsAssumption
     DEF EngineTypeOK, EventsTypeOK, Acknowledged, EventId
<1>4. event \in Event
  BY <1>1, <1>2, <1>3 DEF EngineTypeOK, Event, Match
<1>5. Spawn(event)
  BY DEF PublishTrade
<1>. QED
  BY <1>4, <1>5

(* The event of a cancelled order.                                         *)
LEMMA CancelledEvent ==
  ASSUME Types, NEW user \in Trader, CancelOrder(user)
  PROVE  LET event == [type |-> "order_cancelled", command |-> commands + 1,
                       user_id |-> user, seller_id |-> user, snapshot |-> 0,
                       after |-> Acknowledged]
         IN  event \in Event /\ Spawn(event)
<1>0. Len(matches) \in Nat /\ Len(events) \in Nat
  BY LenProperties DEF Types, EngineTypeOK, EventsTypeOK
<1>1. Acknowledged \subseteq EventId
  BY <1>0, LenProperties, EventsAssumption
     DEF Types, EngineTypeOK, EventsTypeOK, Acknowledged, EventId
<1>2. commands + 1 \in 1 .. MaxCommands
  BY EventsAssumption DEF Types, EngineTypeOK, CancelOrder
<1>. QED
  BY <1>1, <1>2 DEF CancelOrder, Event

(* The other steps of a submission.                                        *)
LEMMA SubmissionTypes ==
  ASSUME Types, SubmissionStep
  PROVE  Types'
<1>. USE DEF Types
<1>0. Len(matches) \in Nat /\ Len(events) \in Nat
  BY LenProperties DEF EngineTypeOK, EventsTypeOK
<1>1. CASE ExecuteTrade
  <2>1. EngineTypeOK'
    BY <1>0, <1>1 DEF EngineTypeOK, ExecuteTrade
  <2>2. EventsTypeOK' /\ KafkaTypeOK'
    BY <1>1 DEF EventsTypeOK, KafkaTypeOK, ExecuteTrade, kafka
  <2>. QED
    BY <2>1, <2>2
<1>2. CASE FinishExecuting
  <2>1. EngineTypeOK'
    BY <1>2 DEF EngineTypeOK, FinishExecuting, submission
  <2>2. EventsTypeOK' /\ KafkaTypeOK'
    BY <1>2 DEF EventsTypeOK, KafkaTypeOK, FinishExecuting, kafka, submission
  <2>. QED
    BY <2>1, <2>2
<1>3. CASE FinishOrder
  <2>1. EngineTypeOK'
    <3>1. matches' \in Seq(Match) /\ Len(matches') = 0
      BY <1>3, NoneYet DEF FinishOrder
    <3>2. /\ phase' = "idle" /\ settled' = 0 /\ spawned' = 0
          /\ commands' = commands /\ changes' \in {changes, changes + 1}
      BY <1>3 DEF FinishOrder
    <3>3. market' \in BOOLEAN
      BY <1>3 DEF FinishOrder
    <3>. QED
      BY <3>1, <3>2, <3>3 DEF EngineTypeOK
  <2>2. EventsTypeOK' /\ KafkaTypeOK'
    <3>1. Len(matches') = 0 /\ spawned' = 0 /\ UNCHANGED <<events, threads>>
      BY <1>3, NoneYet DEF FinishOrder
    <3>2. UNCHANGED <<unsent, log, faults>>
      BY <1>3 DEF FinishOrder, kafka
    <3>3. KafkaTypeOK'
      BY <3>1, <3>2 DEF KafkaTypeOK
    <3>. QED
      BY <1>0, <3>1, <3>3, EventsAssumption DEF EngineTypeOK, EventsTypeOK
  <2>. QED
    BY <2>1, <2>2
<1>4. CASE PublishTrade
  <2>. DEFINE match == matches[spawned + 1]
              event == [type |-> "trade_executed", command |-> commands,
                        user_id |-> match.buyer_id, seller_id |-> match.seller_id,
                        snapshot |-> changes, after |-> Acknowledged]
  <2>1. spawned + 1 \in 1 .. Len(matches) /\ phase = "publishing"
    BY <1>0, <1>4 DEF EngineTypeOK, PublishTrade, MayPublish
  <2>4. event \in Event /\ Spawn(event)
    BY <1>4, TradeEvent
  <2>. HIDE DEF event, match
  <2>6. /\ events' \in Seq(Event) /\ threads' \in Seq(ThreadState)
        /\ Len(events') = Len(events) + 1 /\ Len(threads') = Len(threads) + 1
        /\ DOMAIN events = 1 .. Len(events) /\ DOMAIN events' = 1 .. Len(events) + 1
    BY <2>4, Spawned
  <2>7. EngineTypeOK'
    BY <1>0, <1>4, <2>1 DEF EngineTypeOK, PublishTrade, MayPublish
  <2>8. EventsTypeOK'
    BY <1>0, <1>4, <2>1, <2>6 DEF EngineTypeOK, EventsTypeOK, PublishTrade
  <2>9. KafkaTypeOK'
    <3>1. DOMAIN events \subseteq DOMAIN events'
      BY <1>0, <2>6
    <3>2. \A p \in Trader : log[p] \in Seq(DOMAIN events')
      BY <3>1, SeqGrows DEF KafkaTypeOK
    <3>. QED
      BY <1>4, <3>1, <3>2 DEF KafkaTypeOK, PublishTrade, kafka
  <2>. QED
    BY <2>7, <2>8, <2>9
<1>. QED
  BY <1>1, <1>2, <1>3, <1>4 DEF SubmissionStep

LEMMA CancelTypes ==
  ASSUME Types, NEW user \in Trader, CancelOrder(user)
  PROVE  Types'
<1>. DEFINE event == [type |-> "order_cancelled", command |-> commands + 1,
                      user_id |-> user, seller_id |-> user, snapshot |-> 0,
                      after |-> Acknowledged]
<1>0. Len(matches) \in Nat /\ Len(events) \in Nat
  BY LenProperties DEF Types, EngineTypeOK, EventsTypeOK
<1>1. event \in Event /\ Spawn(event)
  BY CancelledEvent
<1>2. commands + 1 \in 1 .. MaxCommands
  BY EventsAssumption DEF Types, EngineTypeOK, CancelOrder
<1>. HIDE DEF event
<1>5. /\ events' \in Seq(Event) /\ threads' \in Seq(ThreadState)
      /\ Len(events') = Len(events) + 1 /\ Len(threads') = Len(threads) + 1
      /\ DOMAIN events = 1 .. Len(events) /\ DOMAIN events' = 1 .. Len(events) + 1
  BY <1>1, Spawned DEF Types
<1>6. EngineTypeOK'
  BY <1>2 DEF Types, EngineTypeOK, CancelOrder, submission
<1>7. EventsTypeOK'
  <2>1. Len(matches) = 0 /\ spawned = 0 /\ Len(events) < MaxEvents
    BY <1>0 DEF Types, EngineTypeOK, CancelOrder
  <2>2. matches' = matches /\ spawned' = spawned
    BY DEF CancelOrder, submission
  <2>3. MaxEvents \in Nat /\ Len(events) = Len(threads)
    BY EventsAssumption DEF Types, EventsTypeOK
  <2>. QED
    BY <1>0, <1>5, <2>1, <2>2, <2>3 DEF EventsTypeOK
<1>8. KafkaTypeOK'
  <2>1. DOMAIN events \subseteq DOMAIN events'
    BY <1>0, <1>5
  <2>2. \A p \in Trader : log[p] \in Seq(DOMAIN events')
    BY <2>1, SeqGrows DEF Types, KafkaTypeOK
  <2>. QED
    BY <2>1, <2>2 DEF Types, KafkaTypeOK, CancelOrder, kafka
<1>. QED
  BY <1>6, <1>7, <1>8 DEF Types

(* Answering a thread only ends it if it waits.                            *)
LEMMA Answered ==
  ASSUME EventsTypeOK, NEW e \in DOMAIN threads, NEW result \in ThreadState,
         Answer(e, result)
  PROVE  /\ threads' \in Seq(ThreadState) /\ Len(threads') = Len(threads)
         /\ \A f \in DOMAIN threads \ {e} : threads'[f] = threads[f]
         /\ \A f \in DOMAIN threads :
              threads[f] = "acknowledged" => threads'[f] = "acknowledged"
         /\ threads'[e] \in {result, threads[e]}
<1>. DEFINE ending == IF threads[e] = "sending" THEN result ELSE threads[e]
<1>1. ending \in ThreadState /\ (threads[e] \in {"spawned", "sending"} \/ ending = threads[e])
  BY ElementOfSeq, LenProperties DEF EventsTypeOK
<1>2. threads' = [threads EXCEPT ![e] = ending]
  BY DEF Answer
<1>3. ending \in {result, threads[e]}
  OBVIOUS
<1>. HIDE DEF ending
<1>. QED
  BY <1>1, <1>2, <1>3, ThreadMoves

(* What a step of a thread or of the broker may do.                        *)
KafkaMoves ==
  /\ UNCHANGED engine
  /\ threads' \in Seq(ThreadState) /\ Len(threads') = Len(threads)
  /\ \A f \in DOMAIN threads :
       threads[f] = "acknowledged" => threads'[f] = "acknowledged"
  /\ unsent' \subseteq DOMAIN events
  /\ \A f \in unsent' : threads'[f] = "acknowledged" =>
                         f \in unsent /\ threads[f] = "acknowledged"
  /\ log' \in [Trader -> Seq(DOMAIN events)]
  /\ faults' \in 0 .. MaxFaults

(* The steps of a publishing thread.                                       *)
LEMMA ThreadMovesKafka ==
  ASSUME Types, NEW e \in DOMAIN threads, Send(e) \/ GiveUp(e)
  PROVE  KafkaMoves /\ log' = log
<1>0. DOMAIN threads = DOMAIN events
  BY LenProperties DEF Types, EventsTypeOK
<1>1. threads[e] \in {"spawned", "sending"} /\ UNCHANGED engine /\ log' = log
  BY DEF Send, GiveUp, TimesOut, kafka
<1>2. PICK result \in ThreadState \ {"acknowledged"} :
        threads' = [threads EXCEPT ![e] = result]
  BY DEF Send, GiveUp, ThreadState
<1>3. /\ threads' \in Seq(ThreadState) /\ Len(threads') = Len(threads)
      /\ threads'[e] = result
      /\ \A f \in DOMAIN threads \ {e} : threads'[f] = threads[f]
      /\ \A f \in DOMAIN threads :
           threads[f] = "acknowledged" => threads'[f] = "acknowledged"
  BY <1>1, <1>2, ThreadMoves DEF Types
<1>4. unsent' \subseteq unsent \cup {e} /\ unsent' \subseteq DOMAIN events
  BY <1>0 DEF Send, GiveUp, kafka, Types, KafkaTypeOK
<1>5. faults' \in 0 .. MaxFaults
  BY EventsAssumption DEF Send, GiveUp, kafka, Types, KafkaTypeOK
<1>6. \A f \in unsent' : threads'[f] = "acknowledged" =>
                         f \in unsent /\ threads[f] = "acknowledged"
  BY <1>0, <1>2, <1>3, <1>4
<1>. QED
  BY <1>1, <1>3, <1>4, <1>5, <1>6 DEF KafkaMoves, Types, KafkaTypeOK

(* The steps of the library and the broker.                                *)
LEMMA BrokerMovesKafka ==
  ASSUME Types, BrokerStep
  PROVE  KafkaMoves
<1>0. DOMAIN threads = DOMAIN events /\ unsent \subseteq DOMAIN events
  BY LenProperties DEF Types, EventsTypeOK, KafkaTypeOK
<1>1. "acknowledged" \in ThreadState /\ "failed" \in ThreadState
  BY DEF ThreadState
<1>2. Fault => UNCHANGED engine /\ faults' \in 0 .. MaxFaults
  BY EventsAssumption DEF Fault, Types, KafkaTypeOK
<1>3. ASSUME NEW e \in unsent, Deliver(e)
      PROVE  KafkaMoves
  <2>1. /\ threads' \in Seq(ThreadState) /\ Len(threads') = Len(threads)
        /\ \A f \in DOMAIN threads \ {e} : threads'[f] = threads[f]
        /\ \A f \in DOMAIN threads :
             threads[f] = "acknowledged" => threads'[f] = "acknowledged"
    BY <1>0, <1>1, <1>3, Answered DEF Deliver, Types
  <2>2. unsent' = unsent \ {e} /\ UNCHANGED engine /\ faults' = faults
    BY <1>3 DEF Deliver
  <2>3. log' \in [Trader -> Seq(DOMAIN events)]
    BY <1>3, Landed DEF Deliver
  <2>. QED
    BY <1>0, <2>1, <2>2, <2>3 DEF KafkaMoves, Types, KafkaTypeOK
<1>4. ASSUME NEW e \in unsent, DeliverUnacknowledged(e)
      PROVE  KafkaMoves
  <2>1. log' \in [Trader -> Seq(DOMAIN events)]
    BY <1>4, Landed DEF DeliverUnacknowledged
  <2>2. UNCHANGED <<threads, unsent>> /\ Fault
    BY <1>4 DEF DeliverUnacknowledged
  <2>. QED
    BY <1>0, <1>2, <2>1, <2>2 DEF KafkaMoves, Types, EventsTypeOK
<1>5. ASSUME NEW e \in unsent, Expire(e)
      PROVE  KafkaMoves
  <2>1. /\ threads' \in Seq(ThreadState) /\ Len(threads') = Len(threads)
        /\ \A f \in DOMAIN threads \ {e} : threads'[f] = threads[f]
        /\ \A f \in DOMAIN threads :
             threads[f] = "acknowledged" => threads'[f] = "acknowledged"
    BY <1>0, <1>1, <1>5, Answered DEF Expire, Types
  <2>2. unsent' = unsent \ {e} /\ Fault /\ log' = log
    BY <1>5 DEF Expire
  <2>. QED
    BY <1>0, <1>2, <2>1, <2>2 DEF KafkaMoves, Types, KafkaTypeOK
<1>6. ASSUME NEW p \in Trader, LeaderFails(p)
      PROVE  KafkaMoves
  <2>1. log' \in [Trader -> Seq(DOMAIN events)]
    BY <1>6, Dropped
  <2>2. UNCHANGED <<threads, unsent>> /\ Fault
    BY <1>6 DEF LeaderFails
  <2>. QED
    BY <1>0, <1>2, <2>1, <2>2 DEF KafkaMoves, Types, EventsTypeOK
<1>. QED
  BY <1>3, <1>4, <1>5, <1>6 DEF BrokerStep

(* They leave the types as they are.                                       *)
LEMMA KafkaTypes ==
  ASSUME Types, KafkaMoves
  PROVE  Types'
<1>1. UNCHANGED <<phase, commands, market, matches, settled, spawned, changes, events>>
  BY DEF KafkaMoves, engine, submission
<1>2. EngineTypeOK'
  BY <1>1 DEF Types, EngineTypeOK
<1>3. EventsTypeOK'
  BY <1>1 DEF Types, EventsTypeOK, KafkaMoves
<1>4. KafkaTypeOK'
  BY <1>1 DEF KafkaTypeOK, KafkaMoves
<1>. QED
  BY <1>2, <1>3, <1>4 DEF Types

(* Every step is one of these.                                             *)
LEMMA StepTypes == Types /\ [Next]_vars => Types'
<1>. SUFFICES ASSUME Types, [Next]_vars PROVE Types'
  OBVIOUS
<1>1. ASSUME NEW e \in EventId, ThreadStep(e) PROVE Types'
  BY <1>1, ThreadMovesKafka, KafkaTypes DEF ThreadStep
<1>2. CASE BrokerStep
  BY <1>2, BrokerMovesKafka, KafkaTypes
<1>3. CASE UNCHANGED vars
  <2>1. UNCHANGED <<phase, commands, market, matches, settled, spawned, changes,
                    events, threads, unsent, log, faults>>
    BY <1>3 DEF vars, engine, submission, kafka
  <2>. QED
    BY <2>1 DEF Types, EngineTypeOK, EventsTypeOK, KafkaTypeOK
<1>. QED
  BY <1>1, <1>2, <1>3, SubmitTypes, CancelTypes, SubmissionTypes DEF Next


-----------------------------------------------------------------------------
(* Snapshots.                                                              *)

(* A spawned event keeps the snapshots in order if it is no trade, or one  *)
(* of the current command with the newest balances.                        *)
LEMMA SpawnedSnapshots ==
  ASSUME Types, Snapshots, NEW event \in Event, Spawn(event),
         event.type = "trade_executed" =>
           /\ phase = "publishing" /\ UNCHANGED <<phase, commands, changes>>
           /\ event.command = commands /\ event.snapshot = changes,
         event.type # "trade_executed" =>
           /\ phase' = "idle" /\ commands' >= commands /\ changes' >= changes
           /\ commands' \in Nat /\ changes' \in Nat
  PROVE  Snapshots'
<1>. DEFINE new == Len(events) + 1
<1>1. /\ DOMAIN events = 1 .. Len(events) /\ DOMAIN events' = 1 .. new
      /\ events'[new] = event /\ Len(events) \in Nat
      /\ \A e \in DOMAIN events : events'[e] = events[e]
  BY Spawned, LenProperties DEF Types, EventsTypeOK
<1>2. commands \in Nat /\ changes \in Nat /\ commands' \in Nat /\ changes' \in Nat
  BY EventsAssumption DEF Types, EngineTypeOK
<1>3. \A e \in DOMAIN events : events[e].command \in Nat /\ events[e].snapshot \in Nat
  <2>. SUFFICES ASSUME NEW e \in DOMAIN events
                PROVE  events[e].command \in Nat /\ events[e].snapshot \in Nat
    OBVIOUS
  <2>1. events[e] \in Event
    BY <1>1, ElementOfSeq DEF Types, EventsTypeOK
  <2>. QED
    BY <2>1, EventsAssumption DEF Event
<1>. DEFINE new_is_trade == event.type = "trade_executed"
<1>4. /\ \A e \in DOMAIN events' : e \in DOMAIN events \/ e = new
      /\ \A e \in DOMAIN events :
           events'[e].type = "trade_executed" <=> events[e].type = "trade_executed"
      /\ events'[new].type = "trade_executed" <=> new_is_trade
  BY <1>1 DEF IsTrade
<1>. HIDE DEF new
<1>5. CASE new_is_trade
  <2>1. /\ phase = "publishing" /\ phase' = phase
        /\ commands' = commands /\ changes' = changes
        /\ event.command = commands /\ event.snapshot = changes
    BY <1>5
  <2>2. \A e \in DOMAIN events : IsTrade(e) =>
          /\ events[e].command <= commands /\ events[e].snapshot <= changes
          /\ IF events[e].command = commands THEN events[e].snapshot = changes
                                             ELSE events[e].snapshot < changes
    BY <2>1 DEF Snapshots, OlderSnapshots
  <2>3. OlderSnapshots'
    BY <1>1, <1>2, <1>4, <2>1, <2>2 DEF OlderSnapshots, IsTrade
  <2>4. SnapshotsAgree'
    <3>. SUFFICES ASSUME NEW e \in DOMAIN events', NEW f \in DOMAIN events',
                         IsTrade(e)', IsTrade(f)'
                  PROVE  /\ events'[e].command = events'[f].command =>
                              events'[e].snapshot = events'[f].snapshot
                         /\ events'[e].command < events'[f].command =>
                              events'[e].snapshot < events'[f].snapshot
      BY DEF SnapshotsAgree
    <3>1. CASE e \in DOMAIN events /\ f \in DOMAIN events
      <4>1. events'[e] = events[e] /\ events'[f] = events[f]
        BY <1>1, <3>1
      <4>2. IsTrade(e) /\ IsTrade(f)
        BY <4>1 DEF IsTrade
      <4>3. /\ events[e].command = events[f].command =>
                 events[e].snapshot = events[f].snapshot
            /\ events[e].command < events[f].command =>
                 events[e].snapshot < events[f].snapshot
        BY <3>1, <4>2 DEF Snapshots, SnapshotsAgree
      <4>. QED
        BY <4>1, <4>3
    <3>2. CASE e \in DOMAIN events /\ f = new
      <4>1. events'[e] = events[e] /\ events'[f] = event
        BY <1>1, <3>2
      <4>2. IF events[e].command = commands THEN events[e].snapshot = changes
                                            ELSE events[e].snapshot < changes
        BY <2>2, <3>2, <4>1 DEF IsTrade
      <4>3. events[e].command \in Nat /\ events[e].snapshot \in Nat
        BY <1>3, <3>2
      <4>. QED
        BY <1>2, <2>1, <4>1, <4>2, <4>3
    <3>3. CASE e = new /\ f \in DOMAIN events
      <4>1. events'[f] = events[f] /\ events'[e] = event
        BY <1>1, <3>3
      <4>2. /\ events[f].command <= commands
            /\ events[f].command = commands => events[f].snapshot = changes
        BY <2>2, <3>3, <4>1 DEF IsTrade
      <4>3. events[f].command \in Nat /\ events[f].snapshot \in Nat
        BY <1>3, <3>3
      <4>. QED
        BY <1>2, <2>1, <4>1, <4>2, <4>3
    <3>4. CASE e = new /\ f = new
      BY <1>1, <1>2, <2>1, <3>4
    <3>. QED
      BY <1>4, <3>1, <3>2, <3>3, <3>4
  <2>. QED
    BY <2>3, <2>4 DEF Snapshots
<1>6. CASE ~new_is_trade
  <2>1. phase' = "idle" /\ commands' >= commands /\ changes' >= changes
    BY <1>6
  <2>2. OlderSnapshots'
    BY <1>1, <1>2, <1>3, <1>4, <1>6, <2>1
       DEF Snapshots, OlderSnapshots, IsTrade
  <2>3. SnapshotsAgree'
    BY <1>1, <1>4, <1>6 DEF Snapshots, SnapshotsAgree, IsTrade
  <2>. QED
    BY <2>2, <2>3 DEF Snapshots
<1>. QED
  BY <1>5, <1>6

(* Every step keeps the snapshots in order.                                *)
LEMMA StepSnapshots == Types /\ Snapshots /\ [Next]_vars => Snapshots'
<1>. SUFFICES ASSUME Types, Snapshots, [Next]_vars PROVE Snapshots'
  OBVIOUS
<1>1. commands \in Nat /\ changes \in Nat
  BY EventsAssumption DEF Types, EngineTypeOK
<1>2. \A e \in DOMAIN events : events[e].command \in Nat /\ events[e].snapshot \in Nat
  <2>. SUFFICES ASSUME NEW e \in DOMAIN events
                PROVE  events[e].command \in Nat /\ events[e].snapshot \in Nat
    OBVIOUS
  <2>1. events[e] \in Event
    BY ElementOfSeq, LenProperties DEF Types, EventsTypeOK
  <2>. QED
    BY <2>1, EventsAssumption DEF Event
(* Without a new event it is enough that the engine thread moves forward.  *)
<1>3. ASSUME events' = events, OlderSnapshots' PROVE Snapshots'
  BY <1>3 DEF Snapshots, SnapshotsAgree, IsTrade
<1>4. ASSUME NEW taker \in Trader, NEW type \in {"buy", "sell"},
             NEW n \in 0 .. MaxEvents - Len(events),
             NEW makers \in [1 .. n -> Trader \ {taker}],
             SubmitOrder(taker, type, makers)
      PROVE  Snapshots'
  <2>1. /\ phase' = "executing" /\ events' = events
        /\ commands' = commands + 1 /\ changes' = changes + 1
    BY <1>4 DEF SubmitOrder
  <2>. QED
    BY <1>1, <1>2, <1>3, <2>1 DEF Snapshots, OlderSnapshots, IsTrade
<1>5. ASSUME NEW user \in Trader, CancelOrder(user)
      PROVE  Snapshots'
  <2>. DEFINE event == [type |-> "order_cancelled", command |-> commands + 1,
                        user_id |-> user, seller_id |-> user, snapshot |-> 0,
                        after |-> Acknowledged]
  <2>1. event \in Event /\ Spawn(event)
    BY <1>5, CancelledEvent
  <2>2. phase' = "idle" /\ commands' = commands + 1 /\ changes' = changes + 1
    BY <1>5 DEF CancelOrder
  <2>3. event.type # "trade_executed"
    OBVIOUS
  <2>. HIDE DEF event
  <2>. QED
    BY <1>1, <2>1, <2>2, <2>3, SpawnedSnapshots
<1>6. CASE ExecuteTrade
  <2>1. /\ phase = "executing" /\ phase' = phase /\ events' = events
        /\ commands' = commands /\ changes' = changes + 1
    BY <1>6 DEF ExecuteTrade
  <2>. QED
    BY <1>1, <1>2, <1>3, <2>1 DEF Snapshots, OlderSnapshots, IsTrade
<1>7. CASE FinishExecuting
  <2>1. /\ phase = "executing" /\ phase' = "publishing" /\ events' = events
        /\ commands' = commands /\ changes' \in {changes, changes + 1}
    BY <1>7 DEF FinishExecuting
  <2>. QED
    BY <1>1, <1>2, <1>3, <2>1 DEF Snapshots, OlderSnapshots, IsTrade
<1>8. CASE FinishOrder
  <2>1. /\ phase' = "idle" /\ events' = events
        /\ commands' = commands /\ changes' \in {changes, changes + 1}
    BY <1>8 DEF FinishOrder
  <2>. QED
    BY <1>1, <1>2, <1>3, <2>1 DEF Snapshots, OlderSnapshots, IsTrade
<1>9. CASE PublishTrade
  <2>. DEFINE match == matches[spawned + 1]
              event == [type |-> "trade_executed", command |-> commands,
                        user_id |-> match.buyer_id, seller_id |-> match.seller_id,
                        snapshot |-> changes, after |-> Acknowledged]
  <2>1. event \in Event /\ Spawn(event)
    BY <1>9, TradeEvent
  <2>2. phase = "publishing" /\ UNCHANGED <<phase, commands, changes>>
    BY <1>9 DEF PublishTrade, MayPublish
  <2>3. /\ event.type = "trade_executed"
        /\ event.command = commands /\ event.snapshot = changes
    OBVIOUS
  <2>. HIDE DEF event
  <2>. QED
    BY <2>1, <2>2, <2>3, SpawnedSnapshots
<1>10. ASSUME UNCHANGED engine PROVE Snapshots'
  <2>1. UNCHANGED <<phase, commands, changes, events>>
    BY <1>10 DEF engine
  <2>. QED
    BY <1>3, <2>1 DEF Snapshots, OlderSnapshots, IsTrade
<1>11. ASSUME NEW e \in EventId, ThreadStep(e) PROVE Snapshots'
  BY <1>10, <1>11 DEF ThreadStep, Send, GiveUp
<1>12. CASE BrokerStep
  BY <1>10, <1>12, BrokerMovesKafka DEF KafkaMoves
<1>13. CASE UNCHANGED vars
  BY <1>10, <1>13 DEF vars
<1>. QED
  BY <1>4, <1>5, <1>6, <1>7, <1>8, <1>9, <1>11, <1>12, <1>13 DEF Next, SubmissionStep


-----------------------------------------------------------------------------
(* What is acknowledged stays behind what comes after it.                  *)

(* Spawning a thread.                                                      *)
LEMMA SpawnedSettled ==
  ASSUME Types, Settled, Ordered, NEW event \in Event, event.after = Acknowledged,
         Spawn(event), UNCHANGED kafka
  PROVE  Settled' /\ Ordered'
<1>. DEFINE new == Len(events) + 1
<1>1. /\ DOMAIN events = 1 .. Len(events) /\ DOMAIN events' = 1 .. new
      /\ DOMAIN threads = 1 .. Len(events) /\ Len(events) \in Nat
      /\ events'[new] = event
      /\ \A e \in DOMAIN events : events'[e] = events[e] /\ threads'[e] = threads[e]
  BY Spawned, LenProperties DEF Types, EventsTypeOK
<1>. HIDE DEF new
<1>2. new \in Nat /\ \A e \in DOMAIN events : e < new /\ e \in DOMAIN events'
  BY <1>1 DEF new
<1>3. unsent' = unsent /\ log' = log /\ unsent \subseteq DOMAIN events
  BY DEF kafka, Types, KafkaTypeOK
<1>4. \A e \in Acknowledged : e \in DOMAIN events /\ threads[e] = "acknowledged"
  BY <1>1 DEF Acknowledged
<1>5. \A f \in DOMAIN events' : f \in DOMAIN events \/ f = new
  BY <1>1 DEF new
<1>6. Settled'
  <2>1. \A e \in unsent' : threads'[e] # "acknowledged"
    BY <1>1, <1>3 DEF Settled
  <2>2. ASSUME NEW f \in DOMAIN events', NEW e \in events'[f].after
        PROVE  e \in DOMAIN events' /\ e < f /\ threads'[e] = "acknowledged"
    <3>1. CASE f \in DOMAIN events
      BY <1>1, <1>2, <2>2, <3>1 DEF Settled
    <3>2. CASE f = new
      BY <1>1, <1>2, <1>4, <2>2, <3>2
    <3>. QED
      BY <1>5, <3>1, <3>2
  <2>. QED
    BY <2>1, <2>2 DEF Settled
<1>7. Ordered'
  <2>1. \A p \in Trader : \A i \in DOMAIN log[p] : log[p][i] \in DOMAIN events
    BY ElementOfSeq, LenProperties DEF Types, KafkaTypeOK
  <2>. QED
    BY <1>1, <1>3, <2>1 DEF Ordered, PartitionKey
<1>. QED
  BY <1>6, <1>7

(* Threads and the broker take no acknowledgement back.                    *)
LEMMA KafkaSettled ==
  ASSUME Types, Settled, KafkaMoves
  PROVE  Settled'
<1>1. events' = events /\ DOMAIN threads = DOMAIN events
  BY LenProperties DEF KafkaMoves, engine, Types, EventsTypeOK
<1>. QED
  BY <1>1 DEF KafkaMoves, Settled

(* A record that lands goes behind all that it comes after, and nothing    *)
(* that lies there comes after it: it is not acknowledged.                 *)
LEMMA LandedOrdered ==
  ASSUME Types, Settled, Ordered, NEW e \in unsent, Appended(e), UNCHANGED engine
  PROVE  Ordered'
<1>. DEFINE p == PartitionKey(e)
            last == Len(log[p]) + 1
<1>1. /\ p \in Trader /\ Len(log[p]) \in Nat
      /\ \A q \in Trader \ {p} : log'[q] = log[q]
      /\ DOMAIN log[p] = 1 .. Len(log[p]) /\ DOMAIN log'[p] = 1 .. last
      /\ log'[p][last] = e
      /\ \A i \in DOMAIN log[p] : log'[p][i] = log[p][i]
  BY Landed
<1>2. events' = events /\ events[e].user_id = p
  BY DEF engine, PartitionKey
<1>3. threads[e] # "acknowledged" /\ e \in DOMAIN events
  BY DEF Settled, Types, KafkaTypeOK
<1>4. \A i \in DOMAIN log[p] : log[p][i] \in DOMAIN events
  BY <1>1, ElementOfSeq DEF Types, KafkaTypeOK
<1>5. \A f \in DOMAIN events : e \notin events[f].after
  BY <1>3 DEF Settled
<1>6. /\ last \in Nat
      /\ \A i \in DOMAIN log'[p] : i \in DOMAIN log[p] \/ i = last
      /\ \A i \in DOMAIN log[p] : i < last
  BY <1>1
<1>. HIDE DEF p, last
<1>7. ASSUME NEW q \in Trader, q # p
      PROVE  /\ \A i \in DOMAIN log'[q] : events'[log'[q][i]].user_id = q
             /\ \A i, j \in DOMAIN log'[q] :
                  log'[q][i] \in events'[log'[q][j]].after => i < j
  BY <1>1, <1>2, <1>7 DEF Ordered, PartitionKey
<1>8. \A i \in DOMAIN log'[p] : events'[log'[p][i]].user_id = p
  BY <1>1, <1>2, <1>6 DEF Ordered, PartitionKey
<1>9. ASSUME NEW i \in DOMAIN log'[p], NEW j \in DOMAIN log'[p],
             log'[p][i] \in events'[log'[p][j]].after
      PROVE  i < j
  <2>1. log'[p][j] \in DOMAIN events
    BY <1>1, <1>3, <1>4, <1>6
  <2>2. i \in DOMAIN log[p]
    BY <1>1, <1>2, <1>5, <1>6, <1>9, <2>1
  <2>3. CASE j \in DOMAIN log[p]
    BY <1>1, <1>2, <1>9, <2>2, <2>3 DEF Ordered
  <2>4. CASE j = last
    BY <1>6, <2>2, <2>4
  <2>. QED
    BY <1>6, <2>3, <2>4
<1>. QED
  BY <1>7, <1>8, <1>9 DEF Ordered, PartitionKey

(* A record that is lost leaves the others in their order.                 *)
LEMMA DroppedOrdered ==
  ASSUME Types, Ordered, NEW p \in Trader, LeaderFails(p)
  PROVE  Ordered'
<1>1. \A q \in Trader : /\ DOMAIN log'[q] \subseteq DOMAIN log[q]
                        /\ \A i \in DOMAIN log'[q] : log'[q][i] = log[q][i]
  BY Dropped
<1>2. events' = events
  BY DEF LeaderFails, Fault, engine
<1>. QED
  BY <1>1, <1>2 DEF Ordered, PartitionKey

(* Every step keeps the acknowledged in front.                             *)
LEMMA StepOrdered ==
  Types /\ Settled /\ Ordered /\ [Next]_vars => Settled' /\ Ordered'
<1>. SUFFICES ASSUME Types, Settled, Ordered, [Next]_vars PROVE Settled' /\ Ordered'
  OBVIOUS
<1>1. ASSUME UNCHANGED <<events, threads, kafka>> PROVE Settled' /\ Ordered'
  BY <1>1 DEF kafka, Settled, Ordered, PartitionKey
<1>2. ASSUME NEW user \in Trader, CancelOrder(user)
      PROVE  Settled' /\ Ordered'
  <2>. DEFINE event == [type |-> "order_cancelled", command |-> commands + 1,
                        user_id |-> user, seller_id |-> user, snapshot |-> 0,
                        after |-> Acknowledged]
  <2>1. event \in Event /\ Spawn(event) /\ event.after = Acknowledged
    BY <1>2, CancelledEvent
  <2>2. UNCHANGED kafka
    BY <1>2 DEF CancelOrder
  <2>. HIDE DEF event
  <2>. QED
    BY <2>1, <2>2, SpawnedSettled
<1>3. CASE PublishTrade
  <2>. DEFINE match == matches[spawned + 1]
              event == [type |-> "trade_executed", command |-> commands,
                        user_id |-> match.buyer_id, seller_id |-> match.seller_id,
                        snapshot |-> changes, after |-> Acknowledged]
  <2>1. event \in Event /\ Spawn(event) /\ event.after = Acknowledged
    BY <1>3, TradeEvent
  <2>2. UNCHANGED kafka
    BY <1>3 DEF PublishTrade
  <2>. HIDE DEF event
  <2>. QED
    BY <2>1, <2>2, SpawnedSettled
<1>4. CASE ExecuteTrade \/ FinishExecuting \/ FinishOrder
  BY <1>1, <1>4 DEF ExecuteTrade, FinishExecuting, FinishOrder
<1>5. ASSUME NEW e \in EventId, ThreadStep(e) PROVE Settled' /\ Ordered'
  <2>1. KafkaMoves /\ log' = log
    BY <1>5, ThreadMovesKafka DEF ThreadStep
  <2>2. events' = events
    BY <2>1 DEF KafkaMoves, engine
  <2>. QED
    BY <2>1, <2>2, KafkaSettled DEF Ordered, PartitionKey
<1>6. CASE BrokerStep
  <2>1. Settled'
    BY <1>6, BrokerMovesKafka, KafkaSettled
  <2>2. ASSUME NEW e \in unsent, Deliver(e) \/ DeliverUnacknowledged(e) PROVE Ordered'
    BY <2>2, LandedOrdered DEF Deliver, DeliverUnacknowledged, Fault
  <2>3. ASSUME NEW e \in unsent, Expire(e) PROVE Ordered'
    BY <2>3 DEF Expire, Fault, engine, Ordered, PartitionKey
  <2>. QED
    BY <1>6, <2>1, <2>2, <2>3, DroppedOrdered DEF BrokerStep
<1>7. CASE UNCHANGED vars
  BY <1>1, <1>7 DEF vars, engine
<1>8. ASSUME NEW taker \in Trader, NEW type \in {"buy", "sell"},
             NEW n \in 0 .. MaxEvents - Len(events),
             NEW makers \in [1 .. n -> Trader \ {taker}],
             SubmitOrder(taker, type, makers)
      PROVE  Settled' /\ Ordered'
  BY <1>1, <1>8 DEF SubmitOrder
<1>. QED
  BY <1>2, <1>3, <1>4, <1>5, <1>6, <1>7, <1>8 DEF Next, SubmissionStep

-----------------------------------------------------------------------------
(* The theorems.                                                           *)

(* The inductive invariant.                                                *)
THEOREM Invariant == Spec => []IInv
<1>1. Init => IInv
  <2>. SUFFICES ASSUME Init PROVE IInv
    OBVIOUS
  <2>1. Types
    BY InitTypes
  <2>2. DOMAIN events = {} /\ unsent = {} /\ \A p \in Trader : DOMAIN log[p] = {}
    BY NoneYet DEF Init
  <2>. QED
    BY <2>1, <2>2
       DEF IInv, Snapshots, OlderSnapshots, SnapshotsAgree, Settled, Ordered
<1>2. IInv /\ [Next]_vars => IInv'
  BY StepTypes, StepSnapshots, StepOrdered DEF IInv
<1>. QED
  BY <1>1, <1>2, PTL DEF Spec

(* The variables of the engine thread, the threads and the broker have     *)
(* their types, and every event in a partition was spawned.                *)
THEOREM TypesCorrect == Spec => []TypeOK
<1>1. IInv => TypeOK
  <2>. SUFFICES ASSUME IInv PROVE TypeOK
    OBVIOUS
  <2>1. /\ \A p \in Trader : \A i \in DOMAIN log[p] : log[p][i] \in DOMAIN events
        /\ unsent \subseteq DOMAIN events /\ faults \in 0 .. MaxFaults
    BY ElementOfSeq, LenProperties DEF IInv, Types, KafkaTypeOK
  <2>2. /\ events \in Seq(Event) /\ Len(events) = Len(threads)
        /\ threads \in Seq({"spawned", "sending", "acknowledged", "failed"})
    BY DEF IInv, Types, EventsTypeOK, ThreadState
  <2>3. EngineTypeOK
    BY DEF IInv, Types
  <2>. QED
    BY <2>1, <2>2, <2>3 DEF TypeOK, EngineTypeOK
<1>. QED
  BY <1>1, Invariant, PTL

(* The balances in the events of one submission are the same, those after  *)
(* its last trade, and newer than those of every earlier one: the reads of *)
(* publish_trade come after the last execution.                            *)
THEOREM SnapshotsAlwaysAgree == Spec => []SnapshotsAgree
<1>1. IInv => SnapshotsAgree
  BY DEF IInv, Snapshots
<1>. QED
  BY <1>1, Invariant, PTL

(* An event acknowledged before another of the same buyer was made is read *)
(* before it, whatever the library resends and a leader loses: they share  *)
(* the partition of their key, and what is acknowledged is never resent.   *)
THEOREM AcknowledgedAlwaysFirst == Spec => []AcknowledgedComeFirst
<1>1. IInv => AcknowledgedComeFirst
  <2>. SUFFICES ASSUME IInv, NEW p \in Trader, NEW q \in Trader,
                       NEW i \in DOMAIN log[p], NEW j \in DOMAIN log[q],
                       log[p][i] \in events[log[q][j]].after,
                       events[log[p][i]].user_id = events[log[q][j]].user_id
                PROVE  p = q /\ i < j
    BY DEF AcknowledgedComeFirst
  <2>1. p = q
    BY DEF IInv, Ordered, PartitionKey
  <2>. QED
    BY <2>1 DEF IInv, Ordered
<1>. QED
  BY <1>1, Invariant, PTL


===============================================================================
