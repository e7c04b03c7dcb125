------------------------ MODULE MatchingEngine_proofs ------------------------
(***************************************************************************)
(* Theorems about MatchingEngine, for every set of users and prices and    *)
(* for every bound.  TypeOK is inductive by itself; the other invariants   *)
(* are inductive relative to it.                                           *)
(*                                                                         *)
(* The second half is about funds: locked funds cover what the orders of   *)
(* an account owe, hence no settlement fails half-way, holds are exact,    *)
(* trades are fair and no stranger's order vanishes.  The dues of an       *)
(* account are sums over the book and over the matches.  The library gives *)
(* no facts about its folds, so a sum is first shown to count units: one   *)
(* for each unit of each summand.                                          *)
(***************************************************************************)
EXTENDS MatchingEngineProperties, SequenceTheorems, FiniteSetTheorems, WellFoundedInduction,
        TLAPS

-----------------------------------------------------------------------------
(* Arithmetic.                                                             *)

(* The value of a trade and the obligation of an order are products.       *)
LEMMA ProductNat ==
  ASSUME NEW a \in Nat, NEW b \in Nat
  PROVE  a * b \in Nat
OBVIOUS

(* A price times an amount, the quote of every lock and trade, is an integer. *)
LEMMA ProductInt ==
  ASSUME NEW a \in Int, NEW b \in Int
  PROVE  a * b \in Int
OBVIOUS

(* Decimal's rounded division, quote_amount / price, is an integer. *)
LEMMA DecimalDivInt ==
  ASSUME NEW a \in Int, NEW b \in Nat \ {0}
  PROVE  DecimalDiv(a, b) \in Int
<1>1. a \div b \in Int /\ a % b \in Int
  OBVIOUS
<1> QED
  BY <1>1 DEF DecimalDiv

(* std::cmp::min of two amounts is one of them. *)
LEMMA SmallerIsOne ==
  ASSUME NEW a \in Int, NEW b \in Int
  PROVE  /\ Smaller(a, b) \in Int
         /\ Smaller(a, b) <= a /\ Smaller(a, b) <= b
         /\ Smaller(a, b) \in {a, b}
BY DEF Smaller

-----------------------------------------------------------------------------
(* Operations of the balance cache.                                        *)

LEMMA CacheTypes ==
  ASSUME NEW cache \in BalanceCacheType, NEW acc \in Account, NEW amount \in Int
  PROVE  /\ LockBalance(cache, acc, amount) \in BalanceCacheType
         /\ UnlockBalance(cache, acc, amount) \in BalanceCacheType
         /\ AddAvailable(cache, acc, amount) \in BalanceCacheType
BY DEF BalanceCacheType, Balance, LockBalance, UnlockBalance, AddAvailable

(* Both transfers of execute_trade leave a well-formed cache. *)
LEMMA TransferType ==
  ASSUME NEW cache \in BalanceCacheType, NEW from \in Account, NEW to \in Account,
         NEW amount \in Int
  PROVE  Transfer(cache, from, to, amount) \in BalanceCacheType
BY DEF BalanceCacheType, Balance, Transfer

-----------------------------------------------------------------------------
(* Orders, records and the book.                                           *)

LEMMA PriceInt ==
  ASSUME NEW p \in Price \cup {NoPrice}
  PROVE  p \in Int
BY PriceAssumption DEF NoPrice

(* What lock, price and remaining amount of an order range over. *)
LEMMA OrderFacts ==
  ASSUME NEW o \in Order
  PROVE  /\ LockMint(o) \in Mint
         /\ LockAccount(o) \in Account
         /\ LockAmount(o) \in Int
         /\ Obligation(o) \in Int
         /\ ByQuote(o) \in BOOLEAN
<1>1. o.price \in Int
  BY PriceInt DEF Order
<1>2. o.price * o.amount \in Int /\ o.price * o.remaining_amount \in Int
  BY <1>1, ProductInt DEF Order
<1> QED
  BY <1>2 DEF Order, LockMint, LockAccount, LockAmount, Obligation, ByQuote, Account, Mint

(* A request is a well-formed order that locks a natural amount.           *)
LEMMA RequestFacts ==
  ASSUME TypeOK, NEW o \in Requests
  PROVE  /\ o \in Order
         /\ o.id = Len(ledger) + 1
         /\ o.order_side = "limit" => o.price \in Price
         /\ ByQuote(o) \/ o.remaining_amount > 0
         /\ LockAmount(o) \in Nat
         /\ Record(o) \in RecordType
<1> Len(ledger) \in Nat
  BY LenProperties DEF TypeOK
<1>1. ASSUME NEW u \in User, NEW t \in Side, NEW p \in Price, NEW a \in Amount,
             o = Incoming(u, t, "limit", p, a, 0)
      PROVE  o \in Order /\ LockAmount(o) \in Nat /\ o.remaining_amount > 0 /\ o.price \in Price
  <2>1. p \in Nat /\ a \in Nat \ {0} /\ p * a \in Nat
    BY PriceAssumption, ConstantsAssumption, ProductNat
  <2> QED
    BY <1>1, <2>1 DEF Incoming, Order, Side, LockAmount, ByQuote
<1>2. ASSUME NEW u \in User, NEW a \in Amount,
             o = Incoming(u, "sell", "market", NoPrice, a, 0)
      PROVE  /\ o \in Order /\ LockAmount(o) \in Nat /\ o.remaining_amount > 0
             /\ o.order_side = "market"
  BY <1>2, ConstantsAssumption DEF Incoming, Order, Side, LockAmount, ByQuote
<1>3. ASSUME NEW u \in User, NEW q \in QuoteAmount,
             o = Incoming(u, "buy", "market", NoPrice, 0, q)
      PROVE  /\ o \in Order /\ LockAmount(o) \in Nat /\ ByQuote(o)
             /\ o.order_side = "market"
  BY <1>3, ConstantsAssumption DEF Incoming, Order, Side, LockAmount, ByQuote
<1>4. o.id = Len(ledger) + 1
  BY DEF Requests, Incoming
<1>5. /\ o \in Order /\ LockAmount(o) \in Nat
      /\ o.order_side = "limit" => o.price \in Price
      /\ ByQuote(o) \/ o.remaining_amount > 0
  BY <1>1, <1>2, <1>3 DEF Requests
<1> QED
  BY <1>4, <1>5 DEF Record, RecordType

(* Refunding part of an order's lock keeps the ledger well formed. *)
LEMMA ReleaseType ==
  ASSUME NEW records \in Seq(RecordType), NEW id \in DOMAIN records, NEW amount \in Int
  PROVE  /\ Release(records, id, amount) \in Seq(RecordType)
         /\ DOMAIN Release(records, id, amount) = DOMAIN records
<1> DEFINE r == [records[id] EXCEPT !.hold = @ - amount]
<1>1. id \in 1 .. Len(records) /\ records[id] \in RecordType
  BY LenProperties, ElementOfSeq
<1>2. r \in RecordType
  BY <1>1 DEF RecordType
<1>3. Release(records, id, amount) = [records EXCEPT ![id] = r]
  BY DEF Release
<1> QED
  BY <1>1, <1>2, <1>3, ExceptSeq, LenProperties

(* Recording a match in the ledger keeps it well formed. *)
LEMMA FillType ==
  ASSUME NEW records \in Seq(RecordType), NEW o \in Order, o.id \in DOMAIN records,
         NEW amount \in Int
  PROVE  /\ Fill(records, o, amount) \in Seq(RecordType)
         /\ DOMAIN Fill(records, o, amount) = DOMAIN records
<1> DEFINE id == o.id
           r == [records[id] EXCEPT !.filled = @ + amount,
                   !.improved = @ \/ (o = taker /\ o.order_type = "buy" /\ level < o.price)]
<1>1. id \in 1 .. Len(records) /\ records[id] \in RecordType
  BY LenProperties, ElementOfSeq
<1>2. r \in RecordType
  <2> DEFINE f == records[id].filled + amount
             b == records[id].improved \/ (o = taker /\ o.order_type = "buy" /\ level < o.price)
  <2>1. f \in Int /\ b \in BOOLEAN
    BY <1>1 DEF RecordType
  <2>2. r = [records[id] EXCEPT !.filled = f, !.improved = b]
    OBVIOUS
  <2> HIDE DEF r, f, b
  <2> QED
    BY <1>1, <2>1, <2>2 DEF RecordType
<1>3. Fill(records, o, amount) = [records EXCEPT ![id] = r]
  BY DEF Fill
<1> QED
  BY <1>1, <1>2, <1>3, ExceptSeq, LenProperties

(* The ids in use determine the shape of the book and of the matches.      *)
LEMMA SameIds ==
  ASSUME DOMAIN ledger' = DOMAIN ledger
  PROVE  /\ OrderId' = OrderId
         /\ TakerOrder' = TakerOrder
         /\ MatchResultType' = MatchResultType
         /\ \A s \in Side, p \in Price : RestingOrder(s, p)' = RestingOrder(s, p)
BY DEF OrderId, TakerOrder, MatchResultType, RestingOrder

(* A step that changes one level of the book keeps the type if the new level is one. *)
LEMMA LevelReplaced ==
  ASSUME TypeOK, DOMAIN ledger' = DOMAIN ledger,
         NEW side \in Side, NEW p \in Price, NEW queue \in Seq(RestingOrder(side, p)),
         orderbook' = SetLevel(orderbook, side, p, queue)
  PROVE  /\ orderbook' \in Book
         /\ \A s \in Side, q \in Price : orderbook'[s][q] \in Seq(RestingOrder(s, q)')
<1>1. queue \in Seq(Order)
  BY SeqMonotonic DEF RestingOrder
<1>2. orderbook' \in Book
  BY <1>1 DEF TypeOK, SetLevel, Book
<1>3. \A s \in Side, q \in Price : orderbook'[s][q] \in Seq(RestingOrder(s, q))
  BY DEF TypeOK, SetLevel, Book
<1> QED
  BY <1>2, <1>3, SameIds

(* The head of a level's queue, and the queue without it.                  *)
LEMMA HeadOfLevel ==
  ASSUME TypeOK, NEW side \in Side, NEW p \in Price, orderbook[side][p] # << >>
  PROVE  /\ Head(orderbook[side][p]) \in RestingOrder(side, p)
         /\ Tail(orderbook[side][p]) \in Seq(RestingOrder(side, p))
         /\ p \in Levels(orderbook, side)
BY HeadTailProperties DEF TypeOK, Levels

-----------------------------------------------------------------------------
(* Type correctness, one lemma per group of actions.                       *)

LEMMA InitTypeOK == Init => TypeOK
<1> SUFFICES ASSUME Init PROVE TypeOK
  OBVIOUS
<1>1. balances \in BalanceCacheType
  BY ConstantsAssumption DEF Init, BalanceCacheType, Balance
<1>2. /\ orderbook \in Book
      /\ \A s \in Side, p \in Price : orderbook[s][p] \in Seq(RestingOrder(s, p))
  BY EmptySeq DEF Init, EmptyBook, Book
<1>3. matches \in Seq(MatchResultType) /\ ledger \in Seq(RecordType) /\ Len(matches) = 0
  BY EmptySeq DEF Init
<1> QED
  BY <1>1, <1>2, <1>3 DEF Init, TypeOK, Phase

(* process_submit_order up to the lock, or the early return when funds are short. *)
LEMMA SubmitTypeOK ==
  ASSUME TypeOK, NEW o \in Requests, SubmitOrder(o)
  PROVE  TypeOK'
<1> USE DEF SubmitOrder
<1>1. /\ o \in Order /\ o.id = Len(ledger) + 1
      /\ o.order_side = "limit" => o.price \in Price
      /\ ByQuote(o) \/ o.remaining_amount > 0
      /\ LockAmount(o) \in Nat
      /\ Record(o) \in RecordType
  BY RequestFacts
<1>2. LockAccount(o) \in Account
  BY <1>1, OrderFacts
<1>3. balances' \in BalanceCacheType
  BY <1>1, <1>2, CacheTypes DEF TypeOK
<1>4. /\ ledger' \in Seq(RecordType)
      /\ DOMAIN ledger = 1 .. Len(ledger) /\ Len(ledger) \in Nat
      /\ DOMAIN ledger' = 1 .. Len(ledger) + 1
  BY <1>1, AppendProperties, LenProperties DEF TypeOK
<1>5. \A s \in Side, p \in Price : orderbook'[s][p] \in Seq(RestingOrder(s, p)')
  <2> TAKE s \in Side, p \in Price
  <2>1. RestingOrder(s, p) \subseteq RestingOrder(s, p)'
    BY <1>4 DEF RestingOrder, OrderId
  <2> QED
    BY <2>1, SeqMonotonic DEF TypeOK
<1>6. taker' \in TakerOrder'
  <2>1. o.id \in DOMAIN ledger'
    BY <1>1, <1>4
  <2>2. o.remaining_amount \in Int
    BY <1>1 DEF Order
  <2> QED
    BY <1>1, <2>1, <2>2 DEF TakerOrder, OrderId
<1>7. matches' \in Seq(MatchResultType') /\ settled' \in 0 .. Len(matches')
  BY EmptySeq
<1> QED
  BY <1>3, <1>4, <1>5, <1>6, <1>7 DEF TypeOK, loopVars, Phase

(* Entering and leaving the price level, the heads of the matching loops. *)
LEMMA LoopTypeOK ==
  ASSUME TypeOK, \/ \E p \in Price : EnterLevel(p)
                 \/ LeaveLevel
  PROVE  TypeOK'
<1>1. ASSUME NEW p \in Price, EnterLevel(p)
      PROVE  TypeOK'
  <2>1. ledger' = ledger /\ DOMAIN ledger' = DOMAIN ledger
    BY <1>1 DEF EnterLevel, historyVars
  <2>2. queue_len' \in Nat
    <3>1. MakerSide \in Side
      BY DEF MakerSide, Opposite, Side
    <3>2. orderbook[MakerSide][p] \in Seq(RestingOrder(MakerSide, p))
      BY <3>1 DEF TypeOK
    <3> QED
      BY <1>1, <3>2, LenProperties DEF EnterLevel
  <2>3. ~FullyFilled(taker)'
    BY <1>1 DEF EnterLevel, FullyFilled, ByQuote
  <2> QED
    BY <1>1, <2>1, <2>2, <2>3, SameIds DEF EnterLevel, TypeOK, historyVars, Phase
<1>2. ASSUME LeaveLevel
      PROVE  TypeOK'
  <2>1. DOMAIN ledger' = DOMAIN ledger
    BY <1>2 DEF LeaveLevel, historyVars
  <2> QED
    BY <1>2, <2>1, SameIds DEF LeaveLevel, TypeOK, loopVars, historyVars, Phase
<1> QED
  BY <1>1, <1>2

(* The end of match_order: the rest of a limit order joins the book. *)
LEMMA FinishMatchingTypeOK ==
  ASSUME TypeOK, FinishMatching
  PROVE  TypeOK'
<1> USE DEF FinishMatching
<1>1. ledger' = ledger /\ DOMAIN ledger' = DOMAIN ledger
  BY DEF historyVars
<1>2. /\ orderbook' \in Book
      /\ \A s \in Side, p \in Price : orderbook'[s][p] \in Seq(RestingOrder(s, p)')
  <2>1. CASE taker.order_side = "limit" /\ ~FullyFilled(taker)
    <3> DEFINE s == taker.order_type
               p == taker.price
    <3>1. s \in Side /\ p \in Price
      BY <2>1 DEF TypeOK, TakerOrder, Order, Phase
    <3>2. taker \in RestingOrder(s, p)
      <4>1. taker \in TakerOrder /\ taker \in Order
        BY DEF TypeOK, TakerOrder
      <4>2. ~ByQuote(taker)
        BY <2>1 DEF ByQuote
      <4>3. taker.remaining_amount \in Int /\ taker.remaining_amount > 0
        BY <2>1, <4>1, <4>2 DEF TakerOrder, Order, FullyFilled
      <4> QED
        BY <2>1, <4>1, <4>3 DEF TakerOrder, RestingOrder
    <3>3. Append(orderbook[s][p], taker) \in Seq(RestingOrder(s, p))
      BY <3>1, <3>2, AppendProperties DEF TypeOK
    <3>4. orderbook' = SetLevel(orderbook, s, p, Append(orderbook[s][p], taker))
      BY <2>1 DEF AddOrder, SetLevel
    <3> QED
      BY <1>1, <3>1, <3>3, <3>4, LevelReplaced
  <2>2. CASE ~(taker.order_side = "limit" /\ ~FullyFilled(taker))
    BY <1>1, <2>2, SameIds DEF TypeOK
  <2> QED
    BY <2>1, <2>2
<1> QED
  BY <1>1, <1>2, SameIds DEF TypeOK, loopVars, historyVars, Phase

(* What the inner loop knows about the order it is about to pop.           *)
LEMMA LevelFacts ==
  ASSUME TypeOK, InLevel
  PROVE  /\ MakerSide \in Side /\ level \in Price
         /\ level \in Levels(orderbook, MakerSide)
         /\ Maker \in RestingOrder(MakerSide, level)
         /\ Maker \in Order
         /\ Tail(Queue) \in Seq(RestingOrder(MakerSide, level))
         /\ taker \in TakerOrder /\ taker \in Order
         /\ ~FullyFilled(taker)
<1>1. MakerSide \in Side
  BY DEF MakerSide, Opposite, Side
<1>2. level \in Price /\ ~FullyFilled(taker) /\ taker \in TakerOrder
  BY DEF TypeOK, InLevel
<1>3. Queue # << >>
  BY DEF InLevel
<1> QED
  BY <1>1, <1>2, <1>3, HeadOfLevel DEF Queue, Maker, RestingOrder, TakerOrder

(* A match takes a positive amount, and no more than either order has left.*)
LEMMA MatchAmountFacts ==
  ASSUME TypeOK, InLevel, ~(taker.order_type = "buy" /\ MatchAmount <= 0)
  PROVE  /\ MatchAmount \in Nat \ {0}
         /\ MatchAmount <= Maker.remaining_amount
         /\ ~ByQuote(taker) => MatchAmount <= taker.remaining_amount
<1> DEFINE m == Maker.remaining_amount
           t == IF ByQuote(taker) THEN DecimalDiv(taker.remaining_quote_amount, level)
                                  ELSE taker.remaining_amount
<1>1. m \in Int /\ m > 0
  BY LevelFacts DEF RestingOrder, Order
<1>2. taker.remaining_quote_amount \in Int /\ taker.remaining_amount \in Int
  BY LevelFacts DEF Order
<1>3. level \in Nat \ {0}
  BY LevelFacts, PriceAssumption
<1>4. t \in Int
  BY <1>2, <1>3, DecimalDivInt
<1>5. MatchAmount = Smaller(m, t)
  BY DEF MatchAmount
<1>6. ~ByQuote(taker) => t = taker.remaining_amount /\ t > 0
  BY <1>2, LevelFacts DEF FullyFilled, TakerOrder
<1>7. taker.order_type = "buy" \/ ~ByQuote(taker)
  BY DEF ByQuote
<1> HIDE DEF m, t
<1>8. /\ MatchAmount \in Int /\ MatchAmount <= m /\ MatchAmount <= t
      /\ MatchAmount \in {m, t}
  BY <1>1, <1>4, <1>5, SmallerIsOne
<1>9. MatchAmount > 0
  BY <1>1, <1>4, <1>6, <1>7, <1>8
<1> QED
  BY <1>4, <1>6, <1>8, <1>9 DEF m

(* The turns of the inner loop that match nothing. *)
LEMMA PopTypeOK ==
  ASSUME TypeOK, GiveUpLevel \/ DropUnmatchable \/ SkipOwnOrder
  PROVE  TypeOK'
<1> InLevel
  BY DEF GiveUpLevel, DropUnmatchable, SkipOwnOrder
<1>1. DOMAIN ledger' = DOMAIN ledger
  BY DEF GiveUpLevel, DropUnmatchable, SkipOwnOrder, historyVars
<1>2. ASSUME NEW queue \in Seq(RestingOrder(MakerSide, level)), SetQueue(queue)
      PROVE  /\ orderbook' \in Book
             /\ \A s \in Side, p \in Price : orderbook'[s][p] \in Seq(RestingOrder(s, p)')
  BY <1>1, <1>2, LevelFacts, LevelReplaced DEF SetQueue
<1>3. CASE GiveUpLevel \/ DropUnmatchable
  <2>1. SetQueue(Tail(Queue))
    BY <1>3 DEF GiveUpLevel, DropUnmatchable
  <2> QED
    BY <1>1, <1>2, <1>3, <2>1, LevelFacts, SameIds
    DEF GiveUpLevel, DropUnmatchable, TypeOK, loopVars, historyVars, Phase
<1>4. CASE SkipOwnOrder
  <2>1. Append(Tail(Queue), Maker) \in Seq(RestingOrder(MakerSide, level))
    BY LevelFacts, AppendProperties
  <2>2. SetQueue(Append(Tail(Queue), Maker)) /\ processed' = processed + 1
    BY <1>4 DEF SkipOwnOrder, PopCount
  <2>3. FullyFilled(taker)' = FullyFilled(taker)
    BY <1>4 DEF SkipOwnOrder, FullyFilled, ByQuote
  <2> QED
    <3>1. UNCHANGED <<balances, phase, taker, level, queue_len, matches, settled, used,
                      reserved, overdrawn, ledger>>
      BY <1>4 DEF SkipOwnOrder, historyVars
    <3>2. /\ orderbook' \in Book
          /\ \A s \in Side, p \in Price : orderbook'[s][p] \in Seq(RestingOrder(s, p)')
      BY <1>2, <2>1, <2>2
    <3> QED
      BY <1>1, <2>2, <2>3, <3>1, <3>2, SameIds DEF TypeOK
<1> QED
  BY <1>3, <1>4

(* The turn of the inner loop that matches and puts a rest back. *)
LEMMA MatchHeadTypeOK ==
  ASSUME TypeOK, MatchHead
  PROVE  TypeOK'
<1> DEFINE amount == MatchAmount
           maker == Reduced(Maker, amount)
           next == Reduced(taker, amount)
           queue == PutBack(maker) \o Tail(Queue)
<1> InLevel
  BY DEF MatchHead
<1>1. /\ amount \in Nat \ {0}
      /\ amount <= Maker.remaining_amount
      /\ ~ByQuote(taker) => amount <= taker.remaining_amount
  BY MatchAmountFacts DEF MatchHead
<1>2. /\ Maker \in Order /\ Maker \in RestingOrder(MakerSide, level)
      /\ taker \in Order /\ taker \in TakerOrder
      /\ level \in Price /\ level \in Nat
  BY LevelFacts, PriceAssumption
<1>3. /\ matches' = Append(matches, MatchResult(amount))
      /\ taker' = next
      /\ SetQueue(queue)
      /\ processed' = processed + 1
      /\ phase' = IF FullyFilled(next) THEN "matching" ELSE "level"
      /\ ledger' = Fill(Fill(ledger, taker, amount), Maker, amount)
      /\ overdrawn' \in {overdrawn, overdrawn \cup {next.user_id}}
      /\ UNCHANGED <<balances, level, queue_len, settled, used, reserved>>
  BY DEF MatchHead, PopCount
<1> HIDE DEF amount, queue
<1>4. ledger' \in Seq(RecordType) /\ DOMAIN ledger' = DOMAIN ledger
  <2>1. taker.id \in DOMAIN ledger /\ Maker.id \in DOMAIN ledger
    BY <1>2 DEF TakerOrder, RestingOrder, OrderId
  <2> QED
    BY <1>1, <1>2, <1>3, <2>1, FillType DEF TypeOK
<1>5. maker \in Order /\ (maker.remaining_amount > 0 => maker \in RestingOrder(MakerSide, level))
  <2>1. ~ByQuote(Maker)
    BY <1>2 DEF RestingOrder, ByQuote
  <2>2. maker = [Maker EXCEPT !.remaining_amount = Maker.remaining_amount - amount]
    BY <2>1 DEF Reduced
  <2> QED
    BY <1>1, <1>2, <2>2 DEF RestingOrder, Order
<1>6. next \in TakerOrder
  <2>1. amount * level \in Int
    BY <1>1, <1>2, ProductInt
  <2>2. CASE ByQuote(taker)
    <3>1. next = [taker EXCEPT !.remaining_quote_amount = taker.remaining_quote_amount - amount * level]
      BY <2>2 DEF Reduced
    <3> QED
      BY <1>2, <2>1, <2>2, <3>1 DEF TakerOrder, Order, ByQuote
  <2>3. CASE ~ByQuote(taker)
    <3>1. next = [taker EXCEPT !.remaining_amount = taker.remaining_amount - amount]
      BY <2>3 DEF Reduced
    <3> QED
      BY <1>1, <1>2, <2>3, <3>1 DEF TakerOrder, Order, ByQuote
  <2> QED
    BY <2>2, <2>3
<1>7. /\ orderbook' \in Book
      /\ \A s \in Side, p \in Price : orderbook'[s][p] \in Seq(RestingOrder(s, p)')
  <2>1. PutBack(maker) \in Seq(RestingOrder(MakerSide, level))
    BY <1>5, EmptySeq DEF PutBack
  <2>2. queue \in Seq(RestingOrder(MakerSide, level))
    BY <2>1, LevelFacts, ConcatProperties DEF queue
  <2> QED
    BY <1>3, <1>4, <2>2, LevelFacts, LevelReplaced DEF SetQueue
<1>8. MatchResult(amount) \in MatchResultType
  BY <1>1, <1>2 DEF MatchResult, MatchResultType, Order, TakerOrder, RestingOrder
<1>9. matches' \in Seq(MatchResultType) /\ Len(matches') = Len(matches) + 1
  BY <1>3, <1>8, AppendProperties DEF TypeOK
<1>10. phase' = "level" => level' \in Price /\ ~FullyFilled(taker)'
  BY <1>2, <1>3 DEF FullyFilled, ByQuote
<1>11. overdrawn' \in SUBSET User
  BY <1>3, <1>6 DEF TypeOK, TakerOrder, Order
<1>12. Len(matches) \in Nat /\ settled \in 0 .. Len(matches)
  BY LenProperties DEF TypeOK
<1> HIDE DEF next, maker
<1>13. phase' \in Phase
  BY <1>3 DEF Phase
<1> QED
  BY <1>3, <1>4, <1>6, <1>7, <1>9, <1>10, <1>11, <1>12, <1>13, SameIds DEF TypeOK

(* The match execute_trade is called on.                                   *)
LEMMA TradeFacts ==
  ASSUME TypeOK, Executing
  PROVE  /\ Trade \in MatchResultType
         /\ Trade.amount \in Nat \ {0}
         /\ TradeValue(Trade) \in Nat
         /\ Trade.buy_order_id \in DOMAIN ledger /\ Trade.sell_order_id \in DOMAIN ledger
         /\ Trade.buyer_id \in User /\ Trade.seller_id \in User
         /\ QuoteAccount(Trade.buyer_id) \in Account /\ QuoteAccount(Trade.seller_id) \in Account
         /\ BaseAccount(Trade.buyer_id) \in Account /\ BaseAccount(Trade.seller_id) \in Account
         /\ settled' = settled + 1 => settled' \in 0 .. Len(matches)
<1>1. settled \in Nat /\ Len(matches) \in Nat /\ settled + 1 \in 1 .. Len(matches)
  BY LenProperties DEF TypeOK, Executing
<1>2. Trade \in MatchResultType
  BY <1>1, ElementOfSeq DEF TypeOK, Trade
<1>3. Trade.price \in Nat /\ Trade.amount \in Nat \ {0}
  BY <1>2, PriceAssumption DEF MatchResultType
<1>4. TradeValue(Trade) \in Nat
  BY <1>3, ProductNat DEF TradeValue
<1> QED
  BY <1>1, <1>2, <1>3, <1>4 DEF MatchResultType, OrderId, QuoteAccount, BaseAccount, Account, Mint

(* execute_trade, whichever of its two transfers fails. *)
LEMMA ExecuteTradeTypeOK ==
  ASSUME TypeOK, ExecuteTrade
  PROVE  TypeOK'
<1> Executing
  BY DEF ExecuteTrade
<1> DEFINE released == Release(ledger, Trade.buy_order_id, TradeValue(Trade))
<1>1. QuotePaid \in BalanceCacheType /\ BothPaid \in BalanceCacheType
  <2>1. QuotePaid \in BalanceCacheType
    BY TradeFacts, TransferType DEF TypeOK, QuotePaid
  <2> QED
    BY <2>1, TradeFacts, TransferType DEF BothPaid
<1>2. balances' \in {balances, QuotePaid, BothPaid}
  BY DEF ExecuteTrade
<1>3. /\ released \in Seq(RecordType) /\ DOMAIN released = DOMAIN ledger
      /\ Release(released, Trade.sell_order_id, Trade.amount) \in Seq(RecordType)
      /\ DOMAIN Release(released, Trade.sell_order_id, Trade.amount) = DOMAIN ledger
  <2>1. released \in Seq(RecordType) /\ DOMAIN released = DOMAIN ledger
    BY TradeFacts, ReleaseType DEF TypeOK
  <2> HIDE DEF released
  <2>2. Trade.sell_order_id \in DOMAIN released /\ Trade.amount \in Int
    BY <2>1, TradeFacts
  <2> QED
    BY <2>1, <2>2, ReleaseType
<1>4. ledger' \in {ledger, released, Release(released, Trade.sell_order_id, Trade.amount)}
  BY DEF ExecuteTrade
<1> HIDE DEF released
<1>5. ledger' \in Seq(RecordType) /\ DOMAIN ledger' = DOMAIN ledger
  BY <1>3, <1>4 DEF TypeOK
<1>6. used' \in Int
  <2>1. Usage(Trade) \in Int
    BY TradeFacts DEF Usage
  <2>2. used' \in {used, used + Usage(Trade)}
    BY DEF ExecuteTrade
  <2> QED
    BY <2>1, <2>2 DEF TypeOK
<1>7. /\ settled' = settled + 1 /\ phase = "executing"
      /\ UNCHANGED <<orderbook, phase, taker, level, queue_len, processed, matches, reserved,
                     overdrawn>>
  BY DEF ExecuteTrade, Executing, loopVars
<1>8. settled' \in 0 .. Len(matches)
  BY <1>7, TradeFacts
<1>9. balances' \in BalanceCacheType
  BY <1>1, <1>2 DEF TypeOK
<1> QED
  BY <1>5, <1>6, <1>7, <1>8, <1>9, SameIds DEF TypeOK

(* The refund at the end of process_submit_order. *)
LEMMA FinishOrderTypeOK ==
  ASSUME TypeOK, FinishOrder
  PROVE  TypeOK'
<1>1. taker \in TakerOrder /\ taker \in Order /\ taker.id \in DOMAIN ledger
  BY DEF FinishOrder, TypeOK, TakerOrder, OrderId
<1>2. LockAccount(taker) \in Account /\ Refund \in Int
  BY <1>1, OrderFacts DEF Refund, TypeOK
<1>3. balances' \in BalanceCacheType
  BY <1>2, CacheTypes DEF FinishOrder, TypeOK
<1>4. ledger' \in Seq(RecordType) /\ DOMAIN ledger' = DOMAIN ledger
  BY <1>1, <1>2, ReleaseType DEF FinishOrder, TypeOK
<1>5. matches' \in Seq(MatchResultType') /\ Len(matches') = 0
  BY EmptySeq DEF FinishOrder
<1> QED
  BY <1>3, <1>4, <1>5, SameIds DEF FinishOrder, TypeOK, Phase

(* Removing an order from a queue leaves a queue of the same kind.         *)
LEMMA RemoveAtType ==
  ASSUME NEW S, NEW queue \in Seq(S), NEW i \in DOMAIN queue
  PROVE  /\ RemoveAt(queue, i) \in Seq(S)
         /\ queue # << >>
<1>1. i \in 1 .. Len(queue) /\ Len(queue) \in Nat
  BY LenProperties
<1>2. \A j \in 1 .. i - 1 : queue[j] \in S
  BY <1>1, ElementOfSeq
<1>3. \A j \in i + 1 .. Len(queue) : queue[j] \in S
  BY <1>1, ElementOfSeq
<1>4. SubSeq(queue, 1, i - 1) \in Seq(S) /\ SubSeq(queue, i + 1, Len(queue)) \in Seq(S)
  BY <1>1, <1>2, <1>3, SubSeqProperties
<1> QED
  BY <1>1, <1>4, ConcatProperties, EmptySeq DEF RemoveAt

(* The order a cancellation names.                                         *)
LEMMA CancelFacts ==
  ASSUME TypeOK, NEW side \in Side, NEW p \in Price, NEW i \in DOMAIN orderbook[side][p]
  PROVE  LET o == orderbook[side][p][i]
         IN  /\ o \in Order /\ o.id \in DOMAIN ledger
             /\ LockAccount(o) \in Account
             /\ Obligation(o) \in Nat
             /\ RemoveAt(orderbook[side][p], i) \in Seq(RestingOrder(side, p))
             /\ p \in Levels(orderbook, side)
<1> DEFINE o == orderbook[side][p][i]
<1>1. orderbook[side][p] \in Seq(RestingOrder(side, p))
  BY DEF TypeOK
<1>2. o \in RestingOrder(side, p)
  BY <1>1, LenProperties, ElementOfSeq
<1>3. o \in Order /\ o.id \in DOMAIN ledger /\ o.price = p /\ o.remaining_amount \in Nat
  BY <1>2 DEF RestingOrder, OrderId, Order
<1>4. p \in Nat /\ o.price * o.remaining_amount \in Nat
  BY <1>3, PriceAssumption, ProductNat
<1>5. RemoveAt(orderbook[side][p], i) \in Seq(RestingOrder(side, p)) /\ orderbook[side][p] # << >>
  BY <1>1, RemoveAtType
<1> QED
  BY <1>3, <1>4, <1>5, OrderFacts DEF Obligation, Levels

(* handle_cancel_order, whether or not the unlock succeeds. *)
LEMMA CancelTypeOK ==
  ASSUME TypeOK, NEW side \in Side, NEW p \in Price, NEW i \in DOMAIN orderbook[side][p],
         NEW u \in User, CancelOrder(side, p, i, u)
  PROVE  TypeOK'
<1> DEFINE o == orderbook[side][p][i]
           released == Release(ledger, o.id, Obligation(o))
<1>1. /\ o \in Order /\ o.id \in DOMAIN ledger
      /\ LockAccount(o) \in Account
      /\ Obligation(o) \in Nat
      /\ RemoveAt(orderbook[side][p], i) \in Seq(RestingOrder(side, p))
  BY CancelFacts
<1> HIDE DEF o
<1>2. /\ orderbook' = SetLevel(orderbook, side, p, RemoveAt(orderbook[side][p], i))
      /\ balances' \in {balances, UnlockBalance(balances, LockAccount(o), Obligation(o))}
      /\ ledger' \in {ledger, [released EXCEPT ![o.id].cancelled = TRUE]}
      /\ UNCHANGED <<phase, taker, level, queue_len, processed, matches, settled, used,
                     reserved, overdrawn>>
  BY DEF CancelOrder, o, loopVars
<1>3. balances' \in BalanceCacheType
  BY <1>1, <1>2, CacheTypes DEF TypeOK
<1>4. ledger' \in Seq(RecordType) /\ DOMAIN ledger' = DOMAIN ledger
  <2> DEFINE r == [released[o.id] EXCEPT !.cancelled = TRUE]
  <2>1. released \in Seq(RecordType) /\ DOMAIN released = DOMAIN ledger
    BY <1>1, ReleaseType DEF TypeOK
  <2> HIDE DEF released
  <2>2. o.id \in 1 .. Len(released) /\ released[o.id] \in RecordType
    BY <1>1, <2>1, LenProperties, ElementOfSeq
  <2>3. r \in RecordType
    BY <2>2 DEF RecordType
  <2>4. [released EXCEPT ![o.id].cancelled = TRUE] = [released EXCEPT ![o.id] = r]
    OBVIOUS
  <2> HIDE DEF r
  <2>5. [released EXCEPT ![o.id] = r] \in Seq(RecordType)
        /\ DOMAIN [released EXCEPT ![o.id] = r] = DOMAIN released
    BY <2>1, <2>2, <2>3, ExceptSeq, LenProperties
  <2>6. ledger \in Seq(RecordType)
    BY DEF TypeOK
  <2>7. ledger' \in {ledger, [released EXCEPT ![o.id] = r]}
    BY <1>2, <2>4
  <2> QED
    BY <2>1, <2>5, <2>6, <2>7
<1>5. /\ orderbook' \in Book
      /\ \A s \in Side, q \in Price : orderbook'[s][q] \in Seq(RestingOrder(s, q)')
  BY <1>1, <1>2, <1>4, LevelReplaced
<1>6. FullyFilled(taker)' = FullyFilled(taker)
  BY <1>2 DEF FullyFilled, ByQuote
<1> QED
  BY <1>2, <1>3, <1>4, <1>5, <1>6, SameIds DEF TypeOK

(* update_balance and the lock and unlock commands. *)
LEMMA CommandTypeOK ==
  ASSUME TypeOK, Funding \/ LockingCommand
  PROVE  TypeOK'
<1>1. DOMAIN ledger' = DOMAIN ledger
  BY DEF Funding, LockingCommand, UpdateBalance, LockCommand, UnlockCommand, historyVars
<1>2. CASE Funding
  <2>1. PICK acc \in Account, d \in Delta : UpdateBalance(acc, d)
    BY <1>2 DEF Funding
  <2>2. balances' \in BalanceCacheType
    BY <2>1, ConstantsAssumption, CacheTypes DEF UpdateBalance, TypeOK
  <2> QED
    BY <1>1, <2>1, <2>2, SameIds DEF UpdateBalance, TypeOK, loopVars, historyVars
<1>3. CASE LockingCommand
  <2>1. PICK acc \in Account, a \in ApiAmount : LockCommand(acc, a) \/ UnlockCommand(acc, a)
    BY <1>3 DEF LockingCommand
  <2>2. a \in Int
    BY ConstantsAssumption
  <2>3. balances' \in BalanceCacheType
    BY <2>1, <2>2, CacheTypes DEF LockCommand, UnlockCommand, TypeOK
  <2>4. reserved' \in [Account -> Int]
    BY <2>1, <2>2 DEF LockCommand, UnlockCommand, TypeOK
  <2> QED
    BY <1>1, <2>1, <2>3, <2>4, SameIds
    DEF LockCommand, UnlockCommand, TypeOK, loopVars, historyVars
<1> QED
  BY <1>2, <1>3

(* Every step of the engine thread preserves the type invariant. *)
LEMMA NextTypeOK == TypeOK /\ [Next]_vars => TypeOK'
<1> SUFFICES ASSUME TypeOK, [Next]_vars PROVE TypeOK'
  OBVIOUS
<1>1. CASE UNCHANGED vars
  <2>1. UNCHANGED <<balances, orderbook, phase, taker, level, queue_len, processed, matches,
                    settled, used, reserved, overdrawn, ledger>>
    BY <1>1 DEF vars, loopVars, historyVars
  <2> QED
    BY <2>1, SameIds DEF TypeOK, FullyFilled, ByQuote
<1>2. ASSUME NEW o \in Requests, SubmitOrder(o) \/ RejectOrder(o)
      PROVE  TypeOK'
  BY <1>1, <1>2, SubmitTypeOK DEF RejectOrder
<1>3. CASE SubmissionStep
  BY <1>3, LoopTypeOK, FinishMatchingTypeOK, PopTypeOK, MatchHeadTypeOK, ExecuteTradeTypeOK,
     FinishOrderTypeOK DEF SubmissionStep
<1>4. ASSUME NEW side \in Side, NEW p \in Price, NEW i \in DOMAIN orderbook[side][p],
             NEW u \in User, CancelOrder(side, p, i, u)
      PROVE  TypeOK'
  BY <1>4, CancelTypeOK
<1>5. CASE Funding \/ LockingCommand
  BY <1>5, CommandTypeOK
<1> QED
  BY <1>1, <1>2, <1>3, <1>4, <1>5 DEF Next

(* Every reachable state is well typed: in particular no filled order and  *)
(* no market order ever rests in the book (matcher.rs, threads.rs).        *)
THEOREM TypeCorrect == Spec => []TypeOK
BY InitTypeOK, NextTypeOK, PTL DEF Spec

-----------------------------------------------------------------------------
(* No balance is ever negative.                                            *)

NonNegative(cache) ==
  \A acc \in Account : cache[acc].available >= 0 /\ cache[acc].locked >= 0

(* lock_balance and unlock_balance move only what is there. *)
LEMMA CacheNonNegative ==
  ASSUME NEW cache \in BalanceCacheType, NonNegative(cache), NEW acc \in Account,
         NEW amount \in Nat
  PROVE  /\ CanLock(cache, acc, amount) => NonNegative(LockBalance(cache, acc, amount))
         /\ CanUnlock(cache, acc, amount) => NonNegative(UnlockBalance(cache, acc, amount))
BY DEF BalanceCacheType, Balance, NonNegative, CanLock, LockBalance, CanUnlock, UnlockBalance

(* add_available clamps at zero. *)
LEMMA AddAvailableNonNegative ==
  ASSUME NEW cache \in BalanceCacheType, NonNegative(cache), NEW acc \in Account,
         NEW delta \in Int
  PROVE  NonNegative(AddAvailable(cache, acc, delta))
BY DEF BalanceCacheType, Balance, NonNegative, AddAvailable

(* transfer checks its debit, and credits a non-negative amount. *)
LEMMA TransferNonNegative ==
  ASSUME NEW cache \in BalanceCacheType, NonNegative(cache), NEW from \in Account,
         NEW to \in Account, NEW amount \in Nat, CanTransfer(cache, from, amount)
  PROVE  NonNegative(Transfer(cache, from, to, amount))
BY DEF BalanceCacheType, Balance, NonNegative, CanTransfer, Transfer

(* The transfer of the base does not see the transfer of the quote.        *)
LEMMA QuotePaidKeepsBase ==
  ASSUME TypeOK, Executing
  PROVE  CanPayBase <=> CanTransfer(QuotePaid, BaseAccount(Trade.seller_id), Trade.amount)
<1>1. /\ QuoteAccount(Trade.buyer_id) # BaseAccount(Trade.seller_id)
      /\ QuoteAccount(Trade.seller_id) # BaseAccount(Trade.seller_id)
  BY DEF QuoteAccount, BaseAccount
<1>2. QuotePaid[BaseAccount(Trade.seller_id)] = balances[BaseAccount(Trade.seller_id)]
  BY <1>1, TradeFacts DEF QuotePaid, Transfer, TypeOK, BalanceCacheType
<1> QED
  BY <1>2 DEF CanPayBase, CanTransfer

(* execute_trade, also when only its first transfer succeeds. *)
LEMMA SettlementNonNegative ==
  ASSUME TypeOK, NonNegative(balances), ExecuteTrade
  PROVE  NonNegative(balances')
<1> Executing
  BY DEF ExecuteTrade
<1>1. CASE ~CanPayQuote
  BY <1>1 DEF ExecuteTrade
<1>2. CASE CanPayQuote
  <2>1. QuotePaid \in BalanceCacheType
    BY TradeFacts, TransferType DEF TypeOK, QuotePaid
  <2>2. NonNegative(QuotePaid)
    BY <1>2, TradeFacts, TransferNonNegative DEF TypeOK, QuotePaid, CanPayQuote
  <2>3. CanPayBase => NonNegative(BothPaid)
    BY <2>1, <2>2, TradeFacts, QuotePaidKeepsBase, TransferNonNegative DEF BothPaid
  <2>4. balances' = IF CanPayBase THEN BothPaid ELSE QuotePaid
    BY <1>2 DEF ExecuteTrade
  <2> QED
    BY <2>2, <2>3, <2>4
<1> QED
  BY <1>1, <1>2

(* No step of the engine thread makes a balance negative. *)
LEMMA NextNonNegative ==
  ASSUME TypeOK, NonNegative(balances), [Next]_vars
  PROVE  NonNegative(balances')
<1>1. ASSUME balances' = balances
      PROVE  NonNegative(balances')
  BY <1>1
<1>2. ASSUME NEW o \in Requests, SubmitOrder(o)
      PROVE  NonNegative(balances')
  BY <1>2, RequestFacts, OrderFacts, CacheNonNegative DEF SubmitOrder, TypeOK
<1>3. CASE SubmissionStep
  <2>1. CASE FinishOrder
    <3>1. CASE balances' = balances
      BY <1>1, <3>1
    <3>2. CASE balances' # balances
      <4>1. taker \in Order
        BY <2>1 DEF FinishOrder, TypeOK, TakerOrder
      <4>2. LockAccount(taker) \in Account /\ Refund \in Int
        BY <4>1, OrderFacts DEF Refund, TypeOK
      <4>3. /\ Refund > 0 /\ CanUnlock(balances, LockAccount(taker), Refund)
            /\ balances' = UnlockBalance(balances, LockAccount(taker), Refund)
        BY <2>1, <3>2 DEF FinishOrder
      <4> QED
        BY <4>2, <4>3, CacheNonNegative DEF TypeOK
    <3> QED
      BY <3>1, <3>2
  <2>2. CASE ExecuteTrade
    BY <2>2, SettlementNonNegative
  <2>3. CASE ~FinishOrder /\ ~ExecuteTrade
    <3>1. balances' = balances
      BY <1>3, <2>3 DEF SubmissionStep, EnterLevel, FinishMatching, GiveUpLevel, SkipOwnOrder,
                        DropUnmatchable, MatchHead, LeaveLevel
    <3> QED
      BY <1>1, <3>1
  <2> QED
    BY <2>1, <2>2, <2>3
<1>4. ASSUME NEW side \in Side, NEW p \in Price, NEW i \in DOMAIN orderbook[side][p],
             NEW u \in User, CancelOrder(side, p, i, u)
      PROVE  NonNegative(balances')
  <2> DEFINE o == orderbook[side][p][i]
  <2>1. LockAccount(o) \in Account /\ Obligation(o) \in Nat
    BY CancelFacts
  <2>2. \/ balances' = balances
        \/ /\ CanUnlock(balances, LockAccount(o), Obligation(o))
           /\ balances' = UnlockBalance(balances, LockAccount(o), Obligation(o))
    BY <1>4 DEF CancelOrder
  <2> HIDE DEF o
  <2> QED
    BY <2>1, <2>2, CacheNonNegative DEF TypeOK
<1>5. CASE Funding
  BY <1>5, ConstantsAssumption, AddAvailableNonNegative DEF Funding, UpdateBalance, TypeOK
<1>6. CASE LockingCommand
  BY <1>6, ConstantsAssumption, CacheNonNegative
  DEF LockingCommand, LockCommand, UnlockCommand, TypeOK
<1>7. CASE UNCHANGED vars
  BY <1>1, <1>7 DEF vars
<1> QED
  BY <1>1, <1>2, <1>3, <1>4, <1>5, <1>6, <1>7 DEF Next, RejectOrder, vars

(* No available or locked balance is ever negative, whatever the users     *)
(* submit, cancel, deposit or withdraw and however many of them there are  *)
(* (balance_cache.rs: every debit is checked first).                       *)
THEOREM BalancesNonNegative == Spec => []NonNegativeBalances
<1>1. Init => NonNegative(balances)
  BY ConstantsAssumption DEF Init, NonNegative
<1>2. TypeOK /\ NonNegative(balances) /\ [Next]_vars => NonNegative(balances)'
  BY NextNonNegative DEF NonNegative
<1>3. NonNegative(balances) <=> NonNegativeBalances
  BY DEF NonNegative, NonNegativeBalances
<1> QED
  BY <1>1, <1>2, <1>3, TypeCorrect, PTL DEF Spec

-----------------------------------------------------------------------------
(* The book is never crossed.                                              *)

(* While the matcher loses own orders instead of leaving them crossed, the *)
(* levels of the two sides are apart whoever owns the orders.              *)
LevelsApart ==
  \A bid \in Levels(orderbook, "buy"), ask \in Levels(orderbook, "sell") : bid < ask

(* Popping or replacing the queue of an existing level adds no level.      *)
LEMMA NoNewLevel ==
  ASSUME TypeOK, NEW side \in Side, NEW p \in Levels(orderbook, side), NEW queue,
         orderbook' = SetLevel(orderbook, side, p, queue)
  PROVE  \A s \in Side : Levels(orderbook, s)' \subseteq Levels(orderbook, s)
BY DEF TypeOK, Book, Levels, SetLevel

(* Orders that leave the book cannot cross it. *)
LEMMA FewerLevels ==
  ASSUME LevelsApart,
         \A s \in Side : Levels(orderbook, s)' \subseteq Levels(orderbook, s)
  PROVE  LevelsApart'
BY DEF LevelsApart, Side

(* match_order hands the rest to its side only when nothing it crosses is left. *)
LEMMA RestNotCrossed ==
  ASSUME TypeOK, LevelsApart, FinishMatching
  PROVE  LevelsApart'
<1>1. CASE orderbook' = orderbook
  BY <1>1, FewerLevels DEF Levels
<1>2. CASE orderbook' # orderbook
  <2>1. taker.order_side = "limit" /\ orderbook' = AddOrder(orderbook, taker) /\ ~FullyFilled(taker)
    BY <1>2 DEF FinishMatching
  <2>2. PICK s \in Side, p \in Price : s = taker.order_type /\ p = taker.price
    BY <2>1 DEF FinishMatching, TypeOK, TakerOrder, Order
  <2> DEFINE opposite == Opposite(s)
  <2>3. \A q \in Levels(orderbook, opposite) : ~Crosses(taker, q)
    BY <2>1, <2>2 DEF FinishMatching, MakerSide
  <2>4. opposite \in Side /\ opposite # s /\ orderbook \in Book
    BY DEF Opposite, Side, TypeOK
  <2>5. /\ \A q \in Price : orderbook'[opposite][q] = orderbook[opposite][q]
        /\ \A q \in Price \ {p} : orderbook'[s][q] = orderbook[s][q]
    BY <2>1, <2>2, <2>4 DEF AddOrder, Book
  <2>6. /\ Levels(orderbook, opposite)' = Levels(orderbook, opposite)
        /\ Levels(orderbook, s)' \subseteq Levels(orderbook, s) \cup {p}
    BY <2>5 DEF Levels
  <2>7. Levels(orderbook, opposite) \subseteq Price /\ \A q \in Price : q \in Int
    BY PriceAssumption DEF Levels
  <2>8. CASE s = "buy"
    <3>1. opposite = "sell"
      BY <2>8 DEF Opposite
    <3>2. \A ask \in Levels(orderbook, "sell") : p < ask
      BY <2>1, <2>2, <2>3, <2>7, <2>8, <3>1 DEF Crosses
    <3> QED
      BY <2>6, <2>8, <3>1, <3>2 DEF LevelsApart
  <2>9. CASE s = "sell"
    <3>1. opposite = "buy"
      BY <2>9 DEF Opposite
    <3>2. \A bid \in Levels(orderbook, "buy") : bid < p
      BY <2>1, <2>2, <2>3, <2>7, <2>9, <3>1 DEF Crosses
    <3> QED
      BY <2>6, <2>9, <3>1, <3>2 DEF LevelsApart
  <2> QED
    BY <2>8, <2>9 DEF Side
<1> QED
  BY <1>1, <1>2

(* No step of the engine thread crosses the book. *)
LEMMA NextNotCrossed ==
  ASSUME TypeOK, LevelsApart, [Next]_vars
  PROVE  LevelsApart'
<1>1. ASSUME orderbook' = orderbook
      PROVE  LevelsApart'
  BY <1>1, FewerLevels DEF Levels
<1>2. CASE \E o \in Requests : SubmitOrder(o) \/ RejectOrder(o)
  BY <1>1, <1>2 DEF SubmitOrder, RejectOrder, vars
<1>3. CASE SubmissionStep
  <2>1. CASE FinishMatching
    BY <2>1, RestNotCrossed
  <2>2. CASE GiveUpLevel \/ SkipOwnOrder \/ DropUnmatchable \/ MatchHead
    <3>1. InLevel
      BY <2>2 DEF GiveUpLevel, SkipOwnOrder, DropUnmatchable, MatchHead
    <3>2. PICK queue : SetQueue(queue)
      BY <2>2 DEF GiveUpLevel, SkipOwnOrder, DropUnmatchable, MatchHead
    <3> QED
      BY <3>1, <3>2, LevelFacts, NoNewLevel, FewerLevels DEF SetQueue
  <2>3. CASE (\E p \in Price : EnterLevel(p)) \/ LeaveLevel \/ ExecuteTrade \/ FinishOrder
    BY <1>1, <2>3 DEF EnterLevel, LeaveLevel, ExecuteTrade, FinishOrder
  <2> QED
    BY <1>3, <2>1, <2>2, <2>3 DEF SubmissionStep
<1>4. ASSUME NEW side \in Side, NEW p \in Price, NEW i \in DOMAIN orderbook[side][p],
             NEW u \in User, CancelOrder(side, p, i, u)
      PROVE  LevelsApart'
  <2>1. orderbook' = SetLevel(orderbook, side, p, RemoveAt(orderbook[side][p], i))
    BY <1>4 DEF CancelOrder
  <2>2. p \in Levels(orderbook, side)
    BY CancelFacts
  <2> QED
    BY <2>1, <2>2, NoNewLevel, FewerLevels
<1>5. CASE Funding \/ LockingCommand
  BY <1>1, <1>5 DEF Funding, LockingCommand, UpdateBalance, LockCommand, UnlockCommand
<1>6. CASE UNCHANGED vars
  BY <1>1, <1>6 DEF vars
<1> QED
  BY <1>2, <1>3, <1>4, <1>5, <1>6 DEF Next

(* No bid rests at or above an ask of another user, at any step of any     *)
(* submission: an order rests only after the matcher found no level it     *)
(* crosses (matcher.rs: the price checks that end the outer loop).         *)
THEOREM BookNeverCrossed == Spec => []NoCrossedBook
<1>1. Init => LevelsApart
  BY DEF Init, LevelsApart, EmptyBook, Levels, Side
<1>2. TypeOK /\ LevelsApart /\ [Next]_vars => LevelsApart'
  BY NextNotCrossed
<1>3. TypeOK /\ LevelsApart => NoCrossedBook
  <2>. SUFFICES ASSUME TypeOK, LevelsApart,
                       NEW bid \in RestingOn(orderbook, "buy"),
                       NEW ask \in RestingOn(orderbook, "sell")
                PROVE  bid.price < ask.price
    BY DEF NoCrossedBook
  <2>1. ASSUME NEW s \in Side, NEW o \in RestingOn(orderbook, s)
        PROVE  o.price \in Levels(orderbook, s)
    <3>1. PICK p \in Price : o \in RestingAt(orderbook, s, p)
      BY DEF RestingOn
    <3>2. PICK i \in DOMAIN orderbook[s][p] : o = orderbook[s][p][i]
      BY <3>1 DEF RestingAt
    <3>3. orderbook[s][p] \in Seq(RestingOrder(s, p))
      BY DEF TypeOK
    <3>4. o \in RestingOrder(s, p) /\ orderbook[s][p] # << >>
      BY <3>2, <3>3, ElementOfSeq, LenProperties, EmptySeq
    <3>. QED
      BY <3>4 DEF RestingOrder, Levels
  <2>2. bid.price \in Levels(orderbook, "buy") /\ ask.price \in Levels(orderbook, "sell")
    BY <2>1 DEF Side
  <2>. QED
    BY <2>2 DEF LevelsApart
<1> QED
  BY <1>1, <1>2, <1>3, TypeCorrect, PTL DEF Spec

-----------------------------------------------------------------------------
(* Funds are conserved.                                                    *)

(* What an account holds in a given cache.                                 *)
HoldsIn(cache, acc) == cache[acc].available + cache[acc].locked

(* What an account holds, available and locked, is an integer. *)
LEMMA HoldsInInt ==
  ASSUME NEW cache \in BalanceCacheType, NEW acc \in Account
  PROVE  HoldsIn(cache, acc) \in Int
BY DEF BalanceCacheType, Balance, HoldsIn

(* Locking and unlocking move funds within one account. *)
LEMMA LockingKeepsHoldings ==
  ASSUME NEW cache \in BalanceCacheType, NEW acc \in Account, NEW amount \in Int,
         NEW other \in Account
  PROVE  /\ HoldsIn(LockBalance(cache, acc, amount), other) = HoldsIn(cache, other)
         /\ HoldsIn(UnlockBalance(cache, acc, amount), other) = HoldsIn(cache, other)
BY DEF BalanceCacheType, Balance, HoldsIn, LockBalance, UnlockBalance

(* A transfer moves funds between two accounts of one mint and touches no  *)
(* other account.                                                          *)
LEMMA TransferMovesHoldings ==
  ASSUME NEW cache \in BalanceCacheType, NEW m \in Mint, NEW u \in User, NEW v \in User,
         NEW amount \in Int
  PROVE  LET after == Transfer(cache, <<u, m>>, <<v, m>>, amount)
         IN  /\ \A w \in User, n \in Mint \ {m} : HoldsIn(after, <<w, n>>) = HoldsIn(cache, <<w, n>>)
             /\ \A w \in User \ {u, v} : HoldsIn(after, <<w, m>>) = HoldsIn(cache, <<w, m>>)
             /\ u = v => HoldsIn(after, <<u, m>>) = HoldsIn(cache, <<u, m>>)
             /\ u # v => HoldsIn(after, <<u, m>>) + HoldsIn(after, <<v, m>>)
                         = HoldsIn(cache, <<u, m>>) + HoldsIn(cache, <<v, m>>)
<1> DEFINE from == <<u, m>>
           to == <<v, m>>
           after == Transfer(cache, from, to, amount)
<1>1. from \in Account /\ to \in Account
  BY DEF Account
<1>2. \A acc \in Account \ {from, to} : after[acc] = cache[acc]
  BY <1>1 DEF Transfer, BalanceCacheType
<1>3. /\ from = to => HoldsIn(after, from) = HoldsIn(cache, from)
      /\ from # to => HoldsIn(after, from) + HoldsIn(after, to)
                       = HoldsIn(cache, from) + HoldsIn(cache, to)
  BY <1>1 DEF Transfer, BalanceCacheType, Balance, HoldsIn
<1>4. \A w \in User, n \in Mint : <<w, n>> \in Account /\ (<<w, n>> \in {from, to} => n = m /\ w \in {u, v})
  BY DEF Account
<1>5. from = to <=> u = v
  OBVIOUS
<1> HIDE DEF after
<1>6. \A w \in User, n \in Mint \ {m} : HoldsIn(after, <<w, n>>) = HoldsIn(cache, <<w, n>>)
  BY <1>2, <1>4 DEF HoldsIn
<1>7. \A w \in User \ {u, v} : HoldsIn(after, <<w, m>>) = HoldsIn(cache, <<w, m>>)
  BY <1>2, <1>4 DEF HoldsIn
<1> QED
  BY <1>3, <1>5, <1>6, <1>7 DEF after

(* Steps that change no account's holdings conserve the funds. *)
LEMMA SameHoldingsConserve ==
  ASSUME NEW u \in User, \A acc \in Account : HoldsIn(balances', acc) = HoldsIn(balances, acc)
  PROVE  Conserved
<1>1. \A m \in Mint, w \in User : Holds(<<w, m>>)' = Holds(<<w, m>>)
  BY DEF Account, HoldsIn, Holds
<1> QED
  BY <1>1 DEF Conserved

(* execute_trade moves base one way and quote the other. *)
LEMMA SettlementConserves ==
  ASSUME TypeOK, ExecuteTrade
  PROVE  Conserved
<1> Executing
  BY DEF ExecuteTrade
<1> DEFINE buyer == Trade.buyer_id
           seller == Trade.seller_id
           value == TradeValue(Trade)
           amount == Trade.amount
<1>1. /\ buyer \in User /\ seller \in User /\ value \in Int /\ amount \in Int
      /\ "quote" \in Mint /\ "base" \in Mint /\ balances \in BalanceCacheType
  BY TradeFacts DEF TypeOK, Mint
<1>2. /\ QuotePaid = Transfer(balances, <<buyer, "quote">>, <<seller, "quote">>, value)
      /\ BothPaid = Transfer(QuotePaid, <<seller, "base">>, <<buyer, "base">>, amount)
      /\ QuotePaid \in BalanceCacheType
  BY TradeFacts, TransferType DEF TypeOK, QuotePaid, BothPaid, QuoteAccount, BaseAccount
<1> HIDE DEF buyer, seller, value, amount
<1>3. CASE balances' = balances
  BY <1>1, <1>3, SameHoldingsConserve
<1>4. CASE balances' \in {QuotePaid, BothPaid}
  <2>1. \A w \in User : HoldsIn(QuotePaid, <<w, "base">>) = HoldsIn(balances, <<w, "base">>)
    BY <1>1, <1>2, TransferMovesHoldings
  <2>2. \A w \in User : HoldsIn(BothPaid, <<w, "quote">>) = HoldsIn(QuotePaid, <<w, "quote">>)
    BY <1>1, <1>2, TransferMovesHoldings
  <2>3. /\ \A w \in User \ {buyer, seller} :
             HoldsIn(QuotePaid, <<w, "quote">>) = HoldsIn(balances, <<w, "quote">>)
        /\ buyer = seller => HoldsIn(QuotePaid, <<buyer, "quote">>) = HoldsIn(balances, <<buyer, "quote">>)
        /\ buyer # seller =>
             HoldsIn(QuotePaid, <<buyer, "quote">>) + HoldsIn(QuotePaid, <<seller, "quote">>)
             = HoldsIn(balances, <<buyer, "quote">>) + HoldsIn(balances, <<seller, "quote">>)
    BY <1>1, <1>2, TransferMovesHoldings
  <2>4. /\ \A w \in User \ {seller, buyer} :
             HoldsIn(BothPaid, <<w, "base">>) = HoldsIn(QuotePaid, <<w, "base">>)
        /\ seller = buyer => HoldsIn(BothPaid, <<seller, "base">>) = HoldsIn(QuotePaid, <<seller, "base">>)
        /\ seller # buyer =>
             HoldsIn(BothPaid, <<seller, "base">>) + HoldsIn(BothPaid, <<buyer, "base">>)
             = HoldsIn(QuotePaid, <<seller, "base">>) + HoldsIn(QuotePaid, <<buyer, "base">>)
    BY <1>1, <1>2, TransferMovesHoldings
  <2>5. ASSUME NEW m \in Mint
        PROVE  /\ \A w \in User \ {buyer, seller} :
                    HoldsIn(balances', <<w, m>>) = HoldsIn(balances, <<w, m>>)
               /\ IF buyer = seller
                  THEN HoldsIn(balances', <<buyer, m>>) = HoldsIn(balances, <<buyer, m>>)
                  ELSE HoldsIn(balances', <<buyer, m>>) + HoldsIn(balances', <<seller, m>>)
                       = HoldsIn(balances, <<buyer, m>>) + HoldsIn(balances, <<seller, m>>)
    <3>1. CASE m = "quote"
      BY <1>1, <1>4, <2>2, <2>3, <3>1
    <3>2. CASE m = "base"
      <4>1. CASE balances' = QuotePaid
        BY <1>1, <2>1, <3>2, <4>1
      <4>2. CASE balances' = BothPaid
        <5>1. \A w \in User : HoldsIn(BothPaid, <<w, "base">>) \in Int
                             /\ HoldsIn(balances, <<w, "base">>) \in Int
          <6>1. BothPaid \in BalanceCacheType
            BY <1>2, TradeFacts, TransferType DEF BothPaid
          <6> QED
            BY <1>1, <6>1, HoldsInInt DEF Account
        <5> QED
          BY <1>1, <2>1, <2>4, <3>2, <4>2, <5>1
      <4> QED
        BY <1>4, <4>1, <4>2
    <3> QED
      BY <3>1, <3>2 DEF Mint
  <2> QED
    BY <1>1, <2>5 DEF Conserved, Holds, HoldsIn
<1>5. balances' \in {balances, QuotePaid, BothPaid}
  BY DEF ExecuteTrade
<1> QED
  BY <1>3, <1>4, <1>5

(* Only update_balance changes what all accounts hold together. *)
LEMMA NextConserves ==
  ASSUME TypeOK, Next, ~UNCHANGED vars, ~Funding
  PROVE  Conserved
<1>1. ASSUME NEW u \in User, balances' = balances
      PROVE  Conserved
  BY <1>1, SameHoldingsConserve
<1>2. ASSUME NEW u \in User, NEW acc \in Account, NEW amount \in Int,
             \/ balances' = LockBalance(balances, acc, amount)
             \/ balances' = UnlockBalance(balances, acc, amount)
      PROVE  Conserved
  BY <1>2, LockingKeepsHoldings, SameHoldingsConserve DEF TypeOK
<1>3. ASSUME NEW o \in Requests, SubmitOrder(o)
      PROVE  Conserved
  <2>1. o.user_id \in User /\ LockAccount(o) \in Account /\ LockAmount(o) \in Int
    BY RequestFacts, OrderFacts DEF Order
  <2> QED
    BY <1>2, <1>3, <2>1 DEF SubmitOrder
<1>4. CASE SubmissionStep
  <2>1. taker \in Order /\ taker.user_id \in User
    <3>1. phase # "idle"
      BY <1>4 DEF SubmissionStep, EnterLevel, FinishMatching, GiveUpLevel, SkipOwnOrder,
         DropUnmatchable, MatchHead, LeaveLevel, ExecuteTrade, FinishOrder, InLevel, Executing
    <3> QED
      BY <3>1 DEF TypeOK, TakerOrder, Order
  <2>2. CASE ExecuteTrade
    BY <2>2, SettlementConserves
  <2>3. CASE FinishOrder
    <3>1. LockAccount(taker) \in Account /\ Refund \in Int
      BY <2>1, OrderFacts DEF Refund, TypeOK
    <3> QED
      BY <1>1, <1>2, <2>1, <2>3, <3>1 DEF FinishOrder
  <2>4. CASE ~ExecuteTrade /\ ~FinishOrder
    <3>1. balances' = balances
      BY <1>4, <2>4 DEF SubmissionStep, EnterLevel, FinishMatching, GiveUpLevel, SkipOwnOrder,
                        DropUnmatchable, MatchHead, LeaveLevel
    <3> QED
      BY <1>1, <2>1, <3>1
  <2> QED
    BY <2>2, <2>3, <2>4
<1>5. ASSUME NEW side \in Side, NEW p \in Price, NEW i \in DOMAIN orderbook[side][p],
             NEW u \in User, CancelOrder(side, p, i, u)
      PROVE  Conserved
  <2> DEFINE o == orderbook[side][p][i]
  <2>1. LockAccount(o) \in Account /\ Obligation(o) \in Int
    BY CancelFacts
  <2>2. \/ balances' = balances
        \/ balances' = UnlockBalance(balances, LockAccount(o), Obligation(o))
    BY <1>5 DEF CancelOrder
  <2> HIDE DEF o
  <2> QED
    BY <1>1, <1>2, <2>1, <2>2
<1>6. CASE LockingCommand
  <2>1. PICK acc \in Account, a \in ApiAmount : LockCommand(acc, a) \/ UnlockCommand(acc, a)
    BY <1>6 DEF LockingCommand
  <2>2. acc[1] \in User /\ a \in Int
    BY ConstantsAssumption DEF Account
  <2> QED
    BY <1>2, <2>1, <2>2 DEF LockCommand, UnlockCommand
<1> QED
  BY <1>3, <1>4, <1>5, <1>6 DEF Next, RejectOrder

(* Only deposits and withdrawals change what the users hold together: each *)
(* other step leaves every account's sum alone or moves funds between two  *)
(* accounts of one mint (executor.rs, threads.rs), even when a settlement  *)
(* fails after its first transfer.                                         *)
THEOREM AssetsConserved == Spec => ConservesAssets
<1>1. TypeOK /\ [Next]_vars => [Conserved \/ Funding]_vars
  BY NextConserves
<1> QED
  BY <1>1, TypeCorrect, PTL DEF Spec, ConservesAssets

-----------------------------------------------------------------------------
(* Sums.                                                                   *)

Units(f, S) == {p \in S \X Nat : p[2] < f[p[1]]}
Total(f, S) == Cardinality(Units(f, S))
IsSum(f, S) == IsFiniteSet(S) /\ \A x \in S : f[x] \in Nat

(* Another element adds its units.                                         *)
LEMMA UnitsAdd ==
  ASSUME NEW S, NEW f, NEW c, c \notin S, f[c] \in Nat, IsFiniteSet(Units(f, S))
  PROVE  /\ IsFiniteSet(Units(f, S \cup {c}))
         /\ Total(f, S) \in Nat
         /\ Total(f, S \cup {c}) = Total(f, S) + f[c]
<1>1. PICK n \in Nat : n = f[c]
  OBVIOUS
<1> DEFINE own == {c} \X (0 .. n - 1)
<1>2. Units(f, S \cup {c}) = Units(f, S) \cup own
  BY <1>1 DEF Units
<1>3. Units(f, S) \cap own = {}
  BY DEF Units
<1>4. IsFiniteSet(own) /\ Cardinality(own) = n
  <2>1. IsFiniteSet({c}) /\ Cardinality({c}) = 1
    BY FS_Singleton, Zenon
  <2>2. IsFiniteSet(0 .. n - 1) /\ Cardinality(0 .. n - 1) = n
    <3>1. 0 \in Int /\ n - 1 \in Int /\ (IF 0 > n - 1 THEN 0 ELSE n - 1 - 0 + 1) = n
      OBVIOUS
    <3>. QED
      BY <3>1, FS_Interval
  <2>3. IsFiniteSet(own) /\ Cardinality(own) = Cardinality({c}) * Cardinality(0 .. n - 1)
    BY <2>1, <2>2, FS_Product
  <2>. QED
    BY <2>1, <2>2, <2>3
<1> HIDE DEF own
<1>5. Cardinality(Units(f, S)) \in Nat /\ Cardinality(Units(f, S) \cap own) = 0
  BY <1>3, FS_CardinalityType, FS_EmptySet
<1>6. /\ IsFiniteSet(Units(f, S) \cup own)
      /\ Cardinality(Units(f, S) \cup own)
           = Cardinality(Units(f, S)) + Cardinality(own) - Cardinality(Units(f, S) \cap own)
  BY <1>4, FS_Union
<1>7. Cardinality(Units(f, S) \cup own) = Cardinality(Units(f, S)) + n
  BY <1>4, <1>5, <1>6
<1>. QED
  BY <1>1, <1>2, <1>5, <1>6, <1>7 DEF Total

(* Finitely many summands have finitely many units: consider a smallest    *)
(* set that has infinitely many.                                           *)
LEMMA UnitsFinite ==
  ASSUME NEW S, NEW f, IsSum(f, S)
  PROVE  IsFiniteSet(Units(f, S)) /\ Total(f, S) \in Nat
<1> DEFINE Wrong == {T \in SUBSET S : ~IsFiniteSet(Units(f, T))}
<1>1. IsFiniteSet(S) /\ \A x \in S : f[x] \in Nat
  BY DEF IsSum
<1>2. Wrong = {}
  <2>1. SUFFICES ASSUME Wrong # {} PROVE FALSE
    OBVIOUS
  <2>2. IsWellFoundedOn(StrictSubsetOrdering(S), SUBSET S)
    BY <1>1, FS_StrictSubsetOrderingWellFounded, FS_FiniteSubsetsOfFinite
  <2>3. PICK T \in Wrong : \A U \in Wrong : <<U, T>> \notin StrictSubsetOrdering(S)
    <3>1. Wrong \subseteq SUBSET S
      OBVIOUS
    <3> HIDE DEF Wrong
    <3>. QED
      BY <2>1, <2>2, <3>1, WFMin
  <2>4. T # {}
    <3>1. Units(f, {}) = {}
      BY DEF Units
    <3>. QED
      BY <3>1, FS_EmptySet
  <2>5. PICK c \in T : TRUE
    BY <2>4
  <2>6. PICK U \in SUBSET S : U = T \ {c}
    OBVIOUS
  <2>7. <<U, T>> \in StrictSubsetOrdering(S)
    BY <2>5, <2>6 DEF StrictSubsetOrdering
  <2>8. IsFiniteSet(Units(f, U))
    BY <2>3, <2>6, <2>7
  <2>9. T = U \cup {c} /\ c \notin U /\ f[c] \in Nat
    BY <1>1, <2>5, <2>6
  <2>10. IsFiniteSet(Units(f, U \cup {c}))
    BY <2>8, <2>9, UnitsAdd
  <2>. QED
    BY <2>9, <2>10
<1>3. IsFiniteSet(Units(f, S))
  BY <1>2
<1>. QED
  BY <1>3, FS_CardinalityType DEF Total

(* What totals are good for.                                               *)
LEMMA TotalAdd ==
  ASSUME NEW S, NEW f, IsSum(f, S), NEW c, c \notin S, f[c] \in Nat
  PROVE  Total(f, S \cup {c}) = Total(f, S) + f[c]
BY UnitsFinite, UnitsAdd

LEMMA TotalRemove ==
  ASSUME NEW S, NEW f, IsSum(f, S), NEW c \in S
  PROVE  Total(f, S) = Total(f, S \ {c}) + f[c] /\ Total(f, S \ {c}) \in Nat
<1>1. PICK T : T = S \ {c}
  OBVIOUS
<1>2. IsSum(f, T) /\ c \notin T /\ f[c] \in Nat /\ S = T \cup {c}
  BY <1>1, FS_Subset DEF IsSum
<1>3. Total(f, T \cup {c}) = Total(f, T) + f[c] /\ Total(f, T) \in Nat
  BY <1>2, TotalAdd, UnitsFinite
<1>. QED
  BY <1>1, <1>2, <1>3

LEMMA TotalSubset ==
  ASSUME NEW S, NEW f, IsSum(f, S), NEW T \in SUBSET S
  PROVE  Total(f, T) <= Total(f, S) /\ IsSum(f, T)
<1>1. Units(f, T) \in SUBSET Units(f, S)
  BY DEF Units
<1>2. IsFiniteSet(T)
  BY FS_Subset DEF IsSum
<1>. QED
  BY <1>1, <1>2, UnitsFinite, FS_Subset DEF Total, IsSum

LEMMA TotalEmpty ==
  ASSUME NEW f
  PROVE  Total(f, {}) = 0
<1>1. Units(f, {}) = {}
  BY DEF Units
<1>. QED
  BY <1>1, FS_EmptySet DEF Total

LEMMA TotalSame ==
  ASSUME NEW S, NEW f, NEW g, \A x \in S : f[x] = g[x]
  PROVE  Total(f, S) = Total(g, S)
<1>1. Units(f, S) = Units(g, S)
  BY DEF Units
<1>. QED
  BY <1>1 DEF Total

-----------------------------------------------------------------------------
(* The library's fold of a sum is a recursive function.                    *)

First(T) == CHOOSE x \in T : TRUE
AddsUp(f, S, g) ==
  g = [T \in SUBSET S |-> IF T = {} THEN 0 ELSE f[First(T)] + g[T \ {First(T)}]]

(* There is such a function ...                                            *)
LEMMA TotalsAddUp ==
  ASSUME NEW S, NEW f, IsSum(f, S)
  PROVE  AddsUp(f, S, [T \in SUBSET S |-> Total(f, T)])
<1> DEFINE g == [T \in SUBSET S |-> Total(f, T)]
<1>1. ASSUME NEW T \in SUBSET S, T # {}
      PROVE  g[T] = f[First(T)] + g[T \ {First(T)}]
  <2>1. PICK c \in T : c = First(T)
    BY <1>1 DEF First
  <2>2. IsSum(f, T)
    BY TotalSubset
  <2>3. Total(f, T) = Total(f, T \ {c}) + f[c] /\ Total(f, T \ {c}) \in Nat /\ f[c] \in Nat
    BY <2>2, TotalRemove DEF IsSum
  <2>4. T \ {c} \in SUBSET S
    OBVIOUS
  <2>5. g[T] = Total(f, T) /\ g[T \ {c}] = Total(f, T \ {c})
    BY <2>4
  <2> HIDE DEF g
  <2>. QED
    BY <2>1, <2>3, <2>5
<1>2. g[{}] = 0
  BY TotalEmpty
<1>3. g = [T \in SUBSET S |-> g[T]]
  OBVIOUS
<1> HIDE DEF g
<1>4. \A T \in SUBSET S : g[T] = IF T = {} THEN 0 ELSE f[First(T)] + g[T \ {First(T)}]
  BY <1>1, <1>2
<1>5. g = [T \in SUBSET S |-> IF T = {} THEN 0 ELSE f[First(T)] + g[T \ {First(T)}]]
  BY <1>3, <1>4
<1>. QED
  BY <1>5 DEF AddsUp, g

(* ... and only one: consider a smallest set where it is not the total.    *)
LEMMA AddingUpIsTotal ==
  ASSUME NEW S, NEW f, IsSum(f, S), NEW g, AddsUp(f, S, g)
  PROVE  g[S] = Total(f, S)
<1> DEFINE Wrong == {T \in SUBSET S : g[T] # Total(f, T)}
<1>1. IsFiniteSet(S) /\ \A x \in S : f[x] \in Nat
  BY DEF IsSum
<1>2. \A T \in SUBSET S : g[T] = IF T = {} THEN 0 ELSE f[First(T)] + g[T \ {First(T)}]
  BY DEF AddsUp
<1>3. Wrong = {}
  <2>1. SUFFICES ASSUME Wrong # {} PROVE FALSE
    OBVIOUS
  <2>2. IsWellFoundedOn(StrictSubsetOrdering(S), SUBSET S)
    BY <1>1, FS_StrictSubsetOrderingWellFounded, FS_FiniteSubsetsOfFinite
  <2>3. PICK T \in Wrong : \A U \in Wrong : <<U, T>> \notin StrictSubsetOrdering(S)
    <3>1. Wrong \subseteq SUBSET S
      OBVIOUS
    <3> HIDE DEF Wrong
    <3>. QED
      BY <2>1, <2>2, <3>1, WFMin
  <2>4. T # {}
    BY <1>2, TotalEmpty
  <2>5. PICK c \in T : c = First(T)
    BY <2>4 DEF First
  <2>6. T \ {c} \in SUBSET S /\ <<T \ {c}, T>> \in StrictSubsetOrdering(S)
    BY <2>5 DEF StrictSubsetOrdering
  <2>7. g[T \ {c}] = Total(f, T \ {c})
    BY <2>3, <2>6
  <2>8. g[T] = f[c] + g[T \ {c}]
    BY <1>2, <2>4, <2>5
  <2>9. IsSum(f, T)
    BY TotalSubset
  <2>10. Total(f, T) = Total(f, T \ {c}) + f[c] /\ Total(f, T \ {c}) \in Nat /\ f[c] \in Nat
    BY <1>1, <2>9, TotalRemove
  <2>. QED
    BY <2>7, <2>8, <2>10
<1>. QED
  BY <1>3

(* What resting orders owe together.                                       *)
Owing(S) == [o \in S |-> Obligation(o)]

LEMMA SumOfObligations ==
  ASSUME NEW S, IsSum(Owing(S), S)
  PROVE  MapThenSumSet(Obligation, S) = Total(Owing(S), S)
<1> DEFINE body(g) == [T \in SUBSET S |->
                         IF T = {} THEN 0
                         ELSE Obligation(CHOOSE x \in T : TRUE)
                                + g[T \ {CHOOSE x \in T : TRUE}]]
           sum == CHOOSE g : g = body(g)
<1>1. MapThenSumSet(Obligation, S) = sum[S]
  BY DEF MapThenSumSet, MapThenFoldSet
<1>2. ASSUME NEW g PROVE g = body(g) <=> AddsUp(Owing(S), S, g)
  <2>1. \A T \in SUBSET S : T # {} => Owing(S)[First(T)] = Obligation(First(T))
    BY DEF First, Owing
  <2>2. body(g) = [T \in SUBSET S |-> IF T = {} THEN 0
                                      ELSE Obligation(First(T)) + g[T \ {First(T)}]]
    BY DEF First
  <2>3. body(g) = [T \in SUBSET S |-> IF T = {} THEN 0
                                      ELSE Owing(S)[First(T)] + g[T \ {First(T)}]]
    BY <2>1, <2>2
  <2> HIDE DEF body
  <2>. QED
    BY <2>3 DEF AddsUp
<1>3. \E g : g = body(g)
  BY <1>2, TotalsAddUp
<1>4. sum = body(sum)
  <2> HIDE DEF body
  <2>. QED
    BY <1>3
<1>5. AddsUp(Owing(S), S, sum)
  BY <1>2, <1>4
<1> HIDE DEF sum, body
<1>. QED
  BY <1>1, <1>5, AddingUpIsTotal


-----------------------------------------------------------------------------
(* What a set of resting orders owes for one account.                      *)

OwedBy(S, acc) == MapThenSumSet(Obligation, {o \in S : LockAccount(o) = acc})
Share(o, acc) == IF LockAccount(o) = acc THEN Obligation(o) ELSE 0
Owers(S) == IsFiniteSet(S) /\ \A o \in S : Obligation(o) \in Nat

LEMMA OwedIsTotal ==
  ASSUME NEW S, Owers(S), NEW acc
  PROVE  /\ IsSum(Owing(S), S)
         /\ OwedBy(S, acc) = Total(Owing(S), {o \in S : LockAccount(o) = acc})
         /\ OwedBy(S, acc) \in Nat
<1>1. PICK T \in SUBSET S : T = {o \in S : LockAccount(o) = acc}
  OBVIOUS
<1>2. IsFiniteSet(T) /\ \A o \in T : Obligation(o) \in Nat
  BY FS_Subset DEF Owers
<1>3. IsSum(Owing(S), S) /\ IsSum(Owing(T), T) /\ IsSum(Owing(S), T)
  BY <1>2 DEF IsSum, Owing, Owers
<1>4. \A o \in T : Owing(S)[o] = Owing(T)[o]
  BY DEF Owing
<1>5. Total(Owing(T), T) = Total(Owing(S), T)
  BY <1>4, TotalSame
<1>6. MapThenSumSet(Obligation, T) = Total(Owing(T), T)
  BY <1>3, SumOfObligations
<1>7. Total(Owing(S), T) \in Nat
  BY <1>3, UnitsFinite
<1>. QED
  BY <1>1, <1>3, <1>5, <1>6, <1>7 DEF OwedBy

(* Without an order, its account owes less; with one more, not more than   *)
(* that order's share.                                                     *)
LEMMA OwedWithout ==
  ASSUME NEW S, Owers(S), NEW o \in S, NEW acc
  PROVE  /\ Owers(S \ {o})
         /\ OwedBy(S, acc) = OwedBy(S \ {o}, acc) + Share(o, acc)
         /\ OwedBy(S, acc) \in Nat /\ OwedBy(S \ {o}, acc) \in Nat /\ Share(o, acc) \in Nat
<1>1. PICK U \in SUBSET S : U = S \ {o}
  OBVIOUS
<1>2. Owers(U)
  BY FS_Subset DEF Owers
<1>3. PICK T \in SUBSET S : T = {x \in S : LockAccount(x) = acc}
  OBVIOUS
<1>4. PICK V \in SUBSET U : V = {x \in U : LockAccount(x) = acc}
  OBVIOUS
<1>5. /\ IsSum(Owing(S), S) /\ OwedBy(S, acc) = Total(Owing(S), T) /\ OwedBy(S, acc) \in Nat
      /\ OwedBy(U, acc) = Total(Owing(U), V) /\ OwedBy(U, acc) \in Nat
  BY <1>2, <1>3, <1>4, OwedIsTotal
<1>6. Total(Owing(U), V) = Total(Owing(S), V)
  <2>1. \A x \in V : Owing(U)[x] = Owing(S)[x]
    BY DEF Owing
  <2>. QED
    BY <2>1, TotalSame
<1>7. Share(o, acc) \in Nat
  BY DEF Owers, Share
<1>8. Total(Owing(S), T) = Total(Owing(S), V) + Share(o, acc)
  <2>1. CASE LockAccount(o) = acc
    <3>1. o \in T /\ V = T \ {o} /\ IsSum(Owing(S), T)
      BY <1>1, <1>3, <1>4, <1>5, <2>1, TotalSubset
    <3>2. Total(Owing(S), T) = Total(Owing(S), V) + Owing(S)[o]
      BY <3>1, TotalRemove
    <3>. QED
      BY <2>1, <3>2 DEF Owing, Share
  <2>2. CASE LockAccount(o) # acc
    <3>1. V = T /\ Share(o, acc) = 0
      BY <1>1, <1>3, <1>4, <2>2 DEF Share
    <3>2. Total(Owing(S), T) \in Nat
      BY <1>5
    <3>. QED
      BY <3>1, <3>2
  <2>. QED
    BY <2>1, <2>2
<1>. QED
  BY <1>1, <1>2, <1>5, <1>6, <1>7, <1>8

LEMMA OwedWith ==
  ASSUME NEW S, Owers(S), NEW o, Obligation(o) \in Nat, NEW acc
  PROVE  /\ Owers(S \cup {o})
         /\ OwedBy(S \cup {o}, acc) <= OwedBy(S, acc) + Share(o, acc)
         /\ OwedBy(S \cup {o}, acc) \in Nat /\ OwedBy(S, acc) \in Nat /\ Share(o, acc) \in Nat
<1>1. PICK U : U = S \cup {o}
  OBVIOUS
<1>2. Owers(U)
  BY <1>1, FS_AddElement DEF Owers
<1>3. OwedBy(S, acc) \in Nat
  BY OwedIsTotal
<1>4. /\ OwedBy(U, acc) = OwedBy(U \ {o}, acc) + Share(o, acc)
      /\ OwedBy(U, acc) \in Nat /\ OwedBy(U \ {o}, acc) \in Nat /\ Share(o, acc) \in Nat
  BY <1>1, <1>2, OwedWithout
<1>5. CASE o \in S
  <2>1. U = S
    BY <1>1, <1>5
  <2>. QED
    BY <1>1, <1>2, <1>3, <1>4, <2>1
<1>6. CASE o \notin S
  <2>1. U \ {o} = S
    BY <1>1, <1>6
  <2>. QED
    BY <1>1, <1>2, <1>3, <1>4, <2>1
<1>. QED
  BY <1>5, <1>6

-----------------------------------------------------------------------------
(* What unsettled matches owe: for an account, and in the name of an order. *)

MatchType == [buy_order_id : Nat, sell_order_id : Nat, buyer_id : User, seller_id : User,
              price : Nat, amount : Nat]

DueIn(m, acc) == CASE acc = QuoteAccount(m.buyer_id) -> TradeValue(m)
                   [] acc = BaseAccount(m.seller_id) -> m.amount
                   [] OTHER -> 0
Dues(ms, acc) == [i \in 1 .. Len(ms) |-> DueIn(ms[i], acc)]
Unsettled(ms, n, acc) == Total(Dues(ms, acc), n + 1 .. Len(ms))

LEMMA DueNat ==
  ASSUME NEW m \in MatchType, NEW acc
  PROVE  DueIn(m, acc) \in Nat
<1>1. m.price \in Nat /\ m.amount \in Nat
  BY DEF MatchType
<1>2. TradeValue(m) \in Nat
  BY <1>1, ProductNat DEF TradeValue
<1>. QED
  BY <1>1, <1>2 DEF DueIn

LEMMA DuesAreSum ==
  ASSUME NEW ms \in Seq(MatchType), NEW n \in 0 .. Len(ms), NEW acc
  PROVE  /\ IsSum(Dues(ms, acc), n + 1 .. Len(ms))
         /\ Unsettled(ms, n, acc) \in Nat
<1>1. Len(ms) \in Nat /\ \A i \in 1 .. Len(ms) : ms[i] \in MatchType
  BY LenProperties, ElementOfSeq
<1>2. IsFiniteSet(n + 1 .. Len(ms))
  BY <1>1, FS_Interval
<1>3. \A i \in n + 1 .. Len(ms) : i \in 1 .. Len(ms)
  BY <1>1
<1>4. \A i \in n + 1 .. Len(ms) : Dues(ms, acc)[i] \in Nat
  BY <1>1, <1>3, DueNat DEF Dues
<1>. QED
  BY <1>2, <1>4, UnitsFinite DEF IsSum, Unsettled

LEMMA SumOfDues ==
  ASSUME NEW ms \in Seq(MatchType), NEW n \in 0 .. Len(ms), NEW acc
  PROVE  LET due(i) == CASE acc = QuoteAccount(ms[i].buyer_id) -> TradeValue(ms[i])
                         [] acc = BaseAccount(ms[i].seller_id) -> ms[i].amount
                         [] OTHER -> 0
         IN  MapThenSumSet(due, n + 1 .. Len(ms)) = Unsettled(ms, n, acc)
<1> DEFINE due(i) == CASE acc = QuoteAccount(ms[i].buyer_id) -> TradeValue(ms[i])
                       [] acc = BaseAccount(ms[i].seller_id) -> ms[i].amount
                       [] OTHER -> 0
           S == n + 1 .. Len(ms)
           body(g) == [T \in SUBSET S |->
                         IF T = {} THEN 0
                         ELSE due(CHOOSE x \in T : TRUE) + g[T \ {CHOOSE x \in T : TRUE}]]
           sum == CHOOSE g : g = body(g)
<1>1. MapThenSumSet(due, S) = sum[S]
  BY DEF MapThenSumSet, MapThenFoldSet
<1>2. \A i \in S : Dues(ms, acc)[i] = due(i)
  <2>1. Len(ms) \in Nat
    BY LenProperties
  <2>2. \A i \in S : i \in 1 .. Len(ms)
    BY <2>1
  <2>. QED
    BY <2>2 DEF Dues, DueIn
<1> HIDE DEF S, due
<1>3. ASSUME NEW g PROVE g = body(g) <=> AddsUp(Dues(ms, acc), S, g)
  <2>1. \A T \in SUBSET S : T # {} => Dues(ms, acc)[First(T)] = due(First(T))
    BY <1>2 DEF First
  <2>2. body(g) = [T \in SUBSET S |-> IF T = {} THEN 0
                                      ELSE due(First(T)) + g[T \ {First(T)}]]
    BY DEF First
  <2>3. body(g) = [T \in SUBSET S |-> IF T = {} THEN 0
                                      ELSE Dues(ms, acc)[First(T)] + g[T \ {First(T)}]]
    BY <2>1, <2>2
  <2> HIDE DEF body
  <2>. QED
    BY <2>3 DEF AddsUp
<1>4. IsSum(Dues(ms, acc), S)
  BY DuesAreSum DEF S
<1>5. \E g : g = body(g)
  BY <1>3, <1>4, TotalsAddUp
<1>6. sum = body(sum)
  <2> HIDE DEF body
  <2>. QED
    BY <1>5
<1>7. AddsUp(Dues(ms, acc), S, sum)
  BY <1>3, <1>6
<1>8. sum[S] = Unsettled(ms, n, acc)
  <2> HIDE DEF sum, body
  <2>1. sum[S] = Total(Dues(ms, acc), S)
    BY <1>4, <1>7, AddingUpIsTotal
  <2>. QED
    BY <2>1 DEF Unsettled, S
<1>. QED
  BY <1>1, <1>8 DEF due, S


(* A window of summands that loses its first, or gains another.            *)
LEMMA WindowNext ==
  ASSUME NEW m \in Nat, NEW n \in Nat, n < m, NEW f, \A i \in n + 1 .. m : f[i] \in Nat
  PROVE  /\ Total(f, n + 1 .. m) = f[n + 1] + Total(f, (n + 1) + 1 .. m)
         /\ Total(f, (n + 1) + 1 .. m) \in Nat
<1>1. IsSum(f, n + 1 .. m)
  BY FS_Interval DEF IsSum
<1>2. PICK S : S = n + 1 .. m
  OBVIOUS
<1>3. n + 1 \in S /\ S \ {n + 1} = (n + 1) + 1 .. m /\ f[n + 1] \in Nat
  <2>1. \A i : i \in S \ {n + 1} <=> i \in (n + 1) + 1 .. m
    BY <1>2
  <2>2. n + 1 \in S /\ f[n + 1] \in Nat
    BY <1>2
  <2>3. S \ {n + 1} = (n + 1) + 1 .. m
    BY <2>1, Zenon
  <2>. QED
    BY <2>2, <2>3
<1>4. Total(f, S) = Total(f, S \ {n + 1}) + f[n + 1] /\ Total(f, S \ {n + 1}) \in Nat
  BY <1>1, <1>2, <1>3, TotalRemove
<1>5. PICK a, b, c \in Nat : /\ a = Total(f, S) /\ b = Total(f, S \ {n + 1}) /\ c = f[n + 1]
  BY <1>3, <1>4
<1>6. a = c + b
  BY <1>4, <1>5
<1>7. a = Total(f, n + 1 .. m) /\ b = Total(f, (n + 1) + 1 .. m)
  BY <1>2, <1>3, <1>5, Zenon
<1>. QED
  BY <1>5, <1>6, <1>7

LEMMA WindowMore ==
  ASSUME NEW m \in Nat, NEW n \in 0 .. m, NEW f, \A i \in n + 1 .. m + 1 : f[i] \in Nat
  PROVE  Total(f, n + 1 .. m + 1) = Total(f, n + 1 .. m) + f[m + 1]
<1>1. \A i \in n + 1 .. m : f[i] \in Nat
  OBVIOUS
<1>2. IsSum(f, n + 1 .. m)
  BY <1>1, FS_Interval DEF IsSum
<1>3. m + 1 \notin n + 1 .. m /\ (n + 1 .. m) \cup {m + 1} = n + 1 .. m + 1
  OBVIOUS
<1>4. f[m + 1] \in Nat
  OBVIOUS
<1>. QED
  BY <1>2, <1>3, <1>4, TotalAdd

LEMMA UnsettledNext ==
  ASSUME NEW ms \in Seq(MatchType), NEW n \in 0 .. Len(ms), n < Len(ms), NEW acc
  PROVE  /\ Unsettled(ms, n, acc) = DueIn(ms[n + 1], acc) + Unsettled(ms, n + 1, acc)
         /\ Unsettled(ms, n + 1, acc) \in Nat /\ DueIn(ms[n + 1], acc) \in Nat
<1>1. Len(ms) \in Nat /\ n \in Nat /\ n + 1 \in 1 .. Len(ms)
  BY LenProperties
<1>2. \A i \in n + 1 .. Len(ms) : Dues(ms, acc)[i] \in Nat
  BY DuesAreSum DEF IsSum
<1>3. Dues(ms, acc)[n + 1] = DueIn(ms[n + 1], acc)
  BY <1>1 DEF Dues
<1>4. ms[n + 1] \in MatchType
  BY <1>1, ElementOfSeq
<1>5. DueIn(ms[n + 1], acc) \in Nat
  BY <1>4, DueNat
<1>. QED
  BY <1>1, <1>2, <1>3, <1>5, WindowNext DEF Unsettled

LEMMA UnsettledMore ==
  ASSUME NEW ms \in Seq(MatchType), NEW n \in 0 .. Len(ms), NEW m \in MatchType, NEW acc
  PROVE  /\ Unsettled(Append(ms, m), n, acc) = Unsettled(ms, n, acc) + DueIn(m, acc)
         /\ Unsettled(ms, n, acc) \in Nat /\ DueIn(m, acc) \in Nat
<1>1. /\ Append(ms, m) \in Seq(MatchType) /\ Len(Append(ms, m)) = Len(ms) + 1
      /\ \A i \in 1 .. Len(ms) : Append(ms, m)[i] = ms[i]
      /\ Append(ms, m)[Len(ms) + 1] = m
  BY AppendProperties
<1>2. PICK k \in Nat : k = Len(ms)
  BY LenProperties
<1>3. PICK f : f = Dues(Append(ms, m), acc)
  OBVIOUS
<1>4. \A i \in n + 1 .. k + 1 : f[i] \in Nat
  <2>1. n \in 0 .. Len(Append(ms, m)) /\ Len(Append(ms, m)) = k + 1
    BY <1>1, <1>2
  <2>2. IsSum(Dues(Append(ms, m), acc), n + 1 .. Len(Append(ms, m)))
    BY <1>1, <2>1, DuesAreSum
  <2>. QED
    BY <1>3, <2>1, <2>2 DEF IsSum
<1>5. Total(f, n + 1 .. k + 1) = Total(f, n + 1 .. k) + f[k + 1]
  BY <1>2, <1>4, WindowMore
<1>6. f[k + 1] = DueIn(m, acc)
  BY <1>1, <1>2, <1>3 DEF Dues
<1>7. \A i \in n + 1 .. k : f[i] = Dues(ms, acc)[i]
  BY <1>1, <1>2, <1>3 DEF Dues
<1>8. Total(f, n + 1 .. k) = Total(Dues(ms, acc), n + 1 .. k)
  BY <1>7, TotalSame
<1>. QED
  BY <1>1, <1>2, <1>3, <1>5, <1>6, <1>8, DueNat, DuesAreSum DEF Unsettled

LEMMA UnsettledNone ==
  ASSUME NEW ms \in Seq(MatchType), NEW acc
  PROVE  Unsettled(ms, Len(ms), acc) = 0
<1>1. Len(ms) + 1 .. Len(ms) = {}
  BY LenProperties
<1>. QED
  BY <1>1, TotalEmpty DEF Unsettled

(* The sums of the properties are these.                                   *)
LEMMA RestingDueIs ==
  ASSUME NEW acc
  PROVE  RestingDue(acc) = OwedBy(Resting(orderbook), acc)
BY DEF RestingDue, OwedBy

LEMMA UnsettledDueIs ==
  ASSUME NEW acc, matches \in Seq(MatchType), settled \in 0 .. Len(matches)
  PROVE  UnsettledDue(acc) = Unsettled(matches, settled, acc)
BY SumOfDues DEF UnsettledDue


-----------------------------------------------------------------------------
(* Queues of orders.                                                       *)

Elems(q) == {q[i] : i \in DOMAIN q}
Distinct(q) == \A i, j \in DOMAIN q : q[i].id = q[j].id => i = j

LEMMA QueueTail ==
  ASSUME NEW S, NEW q \in Seq(S), q # << >>, Distinct(q)
  PROVE  /\ Head(q) = q[1] /\ 1 \in DOMAIN q /\ Head(q) \in Elems(q)
         /\ Elems(Tail(q)) = Elems(q) \ {Head(q)}
         /\ Distinct(Tail(q))
         /\ \A o \in Elems(Tail(q)) : o.id # Head(q).id
<1>1. /\ Tail(q) \in Seq(S) /\ Len(Tail(q)) = Len(q) - 1
      /\ \A i \in 1 .. Len(Tail(q)) : Tail(q)[i] = q[i + 1]
  BY HeadTailProperties
<1>2. Len(q) \in Nat \ {0} /\ DOMAIN q = 1 .. Len(q)
  BY EmptySeq, LenProperties
<1>3. DOMAIN Tail(q) = 1 .. Len(q) - 1
  BY <1>1, LenProperties
<1>4. Head(q) = q[1] /\ 1 \in DOMAIN q
  BY <1>2
<1>5. \A i \in DOMAIN Tail(q) : i + 1 \in DOMAIN q /\ i + 1 # 1 /\ Tail(q)[i] = q[i + 1]
  BY <1>1, <1>2, <1>3
<1>6. \A j \in DOMAIN q : j # 1 => j - 1 \in DOMAIN Tail(q) /\ (j - 1) + 1 = j
  BY <1>2, <1>3
<1>7. Distinct(Tail(q))
  <2>1. SUFFICES ASSUME NEW i \in DOMAIN Tail(q), NEW j \in DOMAIN Tail(q),
                        Tail(q)[i].id = Tail(q)[j].id
                 PROVE  i = j
    BY DEF Distinct
  <2>2. i + 1 = j + 1
    BY <1>5, <2>1 DEF Distinct
  <2>3. i \in Int /\ j \in Int
    BY <1>2, <1>3
  <2>. QED
    BY <2>2, <2>3
<1>8. \A o \in Elems(Tail(q)) : o \in Elems(q) /\ o.id # Head(q).id
  BY <1>4, <1>5 DEF Elems, Distinct
<1>9. \A o \in Elems(q) : o # Head(q) => o \in Elems(Tail(q))
  <2>1. SUFFICES ASSUME NEW j \in DOMAIN q, q[j] # Head(q)
                 PROVE  q[j] \in Elems(Tail(q))
    BY DEF Elems
  <2>2. j # 1
    BY <1>4, <2>1
  <2>3. j - 1 \in DOMAIN Tail(q) /\ Tail(q)[j - 1] = q[j]
    BY <1>5, <1>6, <2>2
  <2>. QED
    BY <2>3 DEF Elems
<1>10. Head(q) \in Elems(q)
  BY <1>4 DEF Elems
<1>11. Elems(Tail(q)) = Elems(q) \ {Head(q)}
  BY <1>8, <1>9
<1>. QED
  BY <1>4, <1>7, <1>8, <1>10, <1>11

LEMMA QueueAppend ==
  ASSUME NEW S, NEW q \in Seq(S), NEW e \in S, Distinct(q), \A o \in Elems(q) : o.id # e.id
  PROVE  Elems(Append(q, e)) = Elems(q) \cup {e} /\ Distinct(Append(q, e))
<1>1. /\ Append(q, e) \in Seq(S) /\ Len(Append(q, e)) = Len(q) + 1
      /\ \A i \in 1 .. Len(q) : Append(q, e)[i] = q[i]
      /\ Append(q, e)[Len(q) + 1] = e
  BY AppendProperties
<1>2. Len(q) \in Nat /\ DOMAIN q = 1 .. Len(q) /\ DOMAIN Append(q, e) = 1 .. Len(q) + 1
  BY <1>1, LenProperties
<1>3. \A i \in DOMAIN Append(q, e) :
        \/ i \in DOMAIN q /\ Append(q, e)[i] = q[i] /\ q[i] \in Elems(q)
        \/ i = Len(q) + 1 /\ Append(q, e)[i] = e
  BY <1>1, <1>2 DEF Elems
<1>4. \A i \in DOMAIN q : i \in DOMAIN Append(q, e) /\ Append(q, e)[i] = q[i]
  BY <1>1, <1>2
<1>5. Elems(Append(q, e)) = Elems(q) \cup {e}
  <2>1. Elems(Append(q, e)) \subseteq Elems(q) \cup {e}
    BY <1>3 DEF Elems
  <2>2. Elems(q) \subseteq Elems(Append(q, e))
    BY <1>4 DEF Elems
  <2>3. e \in Elems(Append(q, e))
    BY <1>1, <1>2 DEF Elems
  <2>. QED
    BY <2>1, <2>2, <2>3
<1>6. Distinct(Append(q, e))
  BY <1>3 DEF Distinct
<1>. QED
  BY <1>5, <1>6

LEMMA QueuePut ==
  ASSUME NEW S, NEW q \in Seq(S), NEW e \in S, Distinct(q), \A o \in Elems(q) : o.id # e.id
  PROVE  Elems(<<e>> \o q) = Elems(q) \cup {e} /\ Distinct(<<e>> \o q)
<1>1. <<e>> \in Seq(S) /\ Len(<<e>>) = 1 /\ Len(q) \in Nat /\ DOMAIN q = 1 .. Len(q)
  BY LenProperties
<1>2. PICK r \in Seq(S) : r = <<e>> \o q
  BY <1>1, ConcatProperties
<1>3. /\ Len(r) = 1 + Len(q)
      /\ \A i \in 1 .. 1 + Len(q) : r[i] = IF i <= 1 THEN <<e>>[i] ELSE q[i - 1]
  BY <1>1, <1>2, ConcatProperties
<1>4. DOMAIN r = 1 .. 1 + Len(q)
  BY <1>3, LenProperties
<1>5. 1 \in DOMAIN r /\ r[1] = e
  BY <1>1, <1>3, <1>4
<1>6. \A i \in DOMAIN r : i # 1 => i - 1 \in DOMAIN q /\ r[i] = q[i - 1] /\ r[i] \in Elems(q)
  BY <1>1, <1>3, <1>4 DEF Elems
<1>7. \A i \in DOMAIN q : i + 1 \in DOMAIN r /\ r[i + 1] = q[i]
  BY <1>1, <1>3, <1>4
<1>8. Elems(r) = Elems(q) \cup {e}
  <2>1. Elems(r) \subseteq Elems(q) \cup {e}
    BY <1>5, <1>6 DEF Elems
  <2>2. Elems(q) \subseteq Elems(r)
    BY <1>7 DEF Elems
  <2>3. e \in Elems(r)
    BY <1>5 DEF Elems
  <2>. QED
    BY <2>1, <2>2, <2>3
<1>9. Distinct(r)
  <2>1. SUFFICES ASSUME NEW i \in DOMAIN r, NEW j \in DOMAIN r, r[i].id = r[j].id
                 PROVE  i = j
    BY DEF Distinct
  <2>2. i \in Int /\ j \in Int
    BY <1>1, <1>4
  <2>3. CASE i = 1 \/ j = 1
    BY <1>5, <1>6, <2>1, <2>3
  <2>4. CASE i # 1 /\ j # 1
    <3>1. i - 1 = j - 1
      BY <1>6, <2>1, <2>4 DEF Distinct
    <3>. QED
      BY <2>2, <3>1
  <2>. QED
    BY <2>3, <2>4
<1>. QED
  BY <1>2, <1>8, <1>9

(* What is before an element and what is behind it.                        *)
LEMMA TwoParts ==
  ASSUME NEW n \in Int, NEW k \in Int
  PROVE  (k - 1) + (n - k) = n - 1
OBVIOUS

LEMMA QueueRemove ==
  ASSUME NEW S, NEW q \in Seq(S), NEW k \in DOMAIN q, Distinct(q)
  PROVE  Elems(RemoveAt(q, k)) = Elems(q) \ {q[k]} /\ Distinct(RemoveAt(q, k))
<1>1. k \in 1 .. Len(q) /\ Len(q) \in Nat /\ DOMAIN q = 1 .. Len(q)
  BY LenProperties
<1>2. PICK n \in Nat : n = Len(q) /\ k \in 1 .. n
  BY <1>1
<1>3. \A i \in 1 .. n : q[i] \in S
  BY <1>2, ElementOfSeq
<1>4. PICK a \in Seq(S) : /\ a = SubSeq(q, 1, k - 1) /\ Len(a) = k - 1
                          /\ \A i \in 1 .. k - 1 : a[i] = q[i]
  <2>1. 1 \in Int /\ k - 1 \in Int /\ \A i \in 1 .. k - 1 : q[i] \in S
    BY <1>2, <1>3
  <2>2. PICK a : a = SubSeq(q, 1, k - 1)
    OBVIOUS
  <2>3. /\ a \in Seq(S)
        /\ Len(a) = IF 1 <= k - 1 THEN k - 1 - 1 + 1 ELSE 0
        /\ \A i \in 1 .. k - 1 - 1 + 1 : a[i] = q[1 + i - 1]
    BY <2>1, <2>2, SubSeqProperties
  <2>4. Len(a) = k - 1 /\ \A i \in 1 .. k - 1 : a[i] = q[i]
    BY <1>2, <2>3
  <2>. QED
    BY <2>2, <2>3, <2>4
<1>5. PICK b \in Seq(S) : /\ b = SubSeq(q, k + 1, Len(q)) /\ Len(b) = n - k
                          /\ \A i \in 1 .. n - k : b[i] = q[i + k]
  <2>1. k + 1 \in Int /\ n \in Int /\ \A i \in k + 1 .. n : q[i] \in S
    BY <1>2, <1>3
  <2>2. PICK b : b = SubSeq(q, k + 1, n)
    OBVIOUS
  <2>3. /\ b \in Seq(S)
        /\ Len(b) = IF k + 1 <= n THEN n - (k + 1) + 1 ELSE 0
        /\ \A i \in 1 .. n - (k + 1) + 1 : b[i] = q[k + 1 + i - 1]
    BY <2>1, <2>2, SubSeqProperties
  <2>4. Len(b) = n - k
    BY <1>2, <2>3
  <2>5. \A i \in 1 .. n - k : b[i] = q[i + k]
    <3>1. TAKE i \in 1 .. n - k
    <3>2. i \in 1 .. n - (k + 1) + 1 /\ k + 1 + i - 1 = i + k
      BY <1>2
    <3>. QED
      BY <2>3, <3>2
  <2>. QED
    BY <1>2, <2>2, <2>3, <2>4, <2>5
<1>6. PICK r \in Seq(S) : r = RemoveAt(q, k)
  BY <1>4, <1>5, ConcatProperties DEF RemoveAt
<1>7. /\ Len(r) = Len(q) - 1
      /\ \A i \in 1 .. Len(q) - 1 : r[i] = IF i <= k - 1 THEN a[i] ELSE b[i - (k - 1)]
  <2>1. r = a \o b
    BY <1>4, <1>5, <1>6 DEF RemoveAt
  <2>2. /\ Len(r) = Len(a) + Len(b)
        /\ \A i \in 1 .. Len(a) + Len(b) : r[i] = IF i <= Len(a) THEN a[i] ELSE b[i - Len(a)]
    BY <2>1, ConcatProperties
  <2>3. Len(a) + Len(b) = Len(q) - 1
    <3>1. Len(a) = k - 1
      BY <1>4
    <3>2. Len(b) = n - k
      BY <1>5
    <3>3. k \in Int /\ n \in Int /\ n = Len(q)
      BY <1>2
    <3>4. (k - 1) + (n - k) = n - 1
      BY <3>3, TwoParts, Zenon
    <3>. QED
      BY <3>1, <3>2, <3>3, <3>4, Zenon
  <2>. QED
    BY <1>4, <2>2, <2>3
<1>8. DOMAIN r = 1 .. Len(q) - 1
  BY <1>7, LenProperties
<1>9. \A i \in DOMAIN r : \/ i < k /\ i \in DOMAIN q /\ r[i] = q[i]
                          \/ i >= k /\ i + 1 \in DOMAIN q /\ r[i] = q[i + 1]
  <2>1. SUFFICES ASSUME NEW i \in DOMAIN r
                 PROVE  \/ i < k /\ i \in DOMAIN q /\ r[i] = q[i]
                        \/ i >= k /\ i + 1 \in DOMAIN q /\ r[i] = q[i + 1]
    OBVIOUS
  <2>2. CASE i < k
    BY <1>1, <1>2, <1>4, <1>7, <1>8, <2>2
  <2>3. CASE i >= k
    <3>1. i - (k - 1) \in 1 .. Len(q) - k /\ (i - (k - 1)) + k = i + 1
      BY <1>1, <1>8, <2>3
    <3>2. r[i] = b[i - (k - 1)] /\ i + 1 \in DOMAIN q
      BY <1>1, <1>7, <1>8, <2>3
    <3>. QED
      BY <1>2, <1>5, <2>3, <3>1, <3>2
  <2>. QED
    BY <1>1, <1>8, <2>2, <2>3
<1>10. \A j \in DOMAIN q : \/ j = k
                           \/ j \in DOMAIN r /\ r[j] = q[j]
                           \/ j - 1 \in DOMAIN r /\ r[j - 1] = q[j]
  <2>1. SUFFICES ASSUME NEW j \in DOMAIN q, j # k
                 PROVE  \/ j \in DOMAIN r /\ r[j] = q[j]
                        \/ j - 1 \in DOMAIN r /\ r[j - 1] = q[j]
    OBVIOUS
  <2>2. CASE j < k
    <3>1. j \in 1 .. k - 1 /\ j \in 1 .. Len(q) - 1
      BY <1>1, <1>2, <2>2
    <3>2. r[j] = a[j] /\ a[j] = q[j]
      <4>1. j <= k - 1
        BY <1>2, <3>1
      <4>2. r[j] = a[j]
        BY <1>7, <3>1, <4>1, Zenon
      <4>3. a[j] = q[j]
        BY <1>4, <3>1
      <4>. QED
        BY <4>2, <4>3
    <3>3. j \in DOMAIN r
      BY <1>8, <3>1
    <3>. QED
      BY <3>2, <3>3
  <2>3. CASE j > k
    <3>1. j - 1 \in DOMAIN r /\ j - 1 >= k /\ (j - 1) + 1 = j
      BY <1>1, <1>8, <2>3
    <3>. QED
      BY <1>1, <1>9, <3>1
  <2>. QED
    BY <1>1, <2>1, <2>2, <2>3
<1>11. \A o \in Elems(r) : o \in Elems(q) /\ o # q[k]
  <2>1. \A i \in DOMAIN r : \E j \in DOMAIN q : j # k /\ r[i] = q[j]
    BY <1>1, <1>8, <1>9
  <2>2. \A j \in DOMAIN q : j # k => q[j] # q[k]
    BY DEF Distinct
  <2>. QED
    BY <2>1, <2>2 DEF Elems
<1>12. \A o \in Elems(q) : o # q[k] => o \in Elems(r)
  BY <1>10 DEF Elems
<1>13. Distinct(r)
  <2>1. SUFFICES ASSUME NEW i \in DOMAIN r, NEW j \in DOMAIN r, r[i].id = r[j].id
                 PROVE  i = j
    BY DEF Distinct
  <2>2. i \in Int /\ j \in Int /\ k \in Int
    BY <1>1, <1>8
  <2>3. PICK x \in DOMAIN q : ((i < k /\ x = i) \/ (i >= k /\ x = i + 1)) /\ r[i] = q[x]
    BY <1>9
  <2>4. PICK y \in DOMAIN q : ((j < k /\ y = j) \/ (j >= k /\ y = j + 1)) /\ r[j] = q[y]
    BY <1>9
  <2>5. x = y
    BY <2>1, <2>3, <2>4 DEF Distinct
  <2>. QED
    BY <2>2, <2>3, <2>4, <2>5
<1>14. Elems(r) = Elems(q) \ {q[k]}
  BY <1>11, <1>12
<1>. QED
  BY <1>6, <1>13, <1>14


-----------------------------------------------------------------------------
(* The book: which orders rest after a step.                               *)

Placed(s, p) == {o \in Order : o.order_type = s /\ o.price = p}
Sorted(ob) == ob \in Book /\ \A s \in Side, p \in Price : ob[s][p] \in Seq(Placed(s, p))
UniqueIn(ob) == \A s \in Side, p \in Price : Distinct(ob[s][p])

LEMMA RestingElems ==
  ASSUME NEW ob
  PROVE  \A o : o \in Resting(ob) <=> \E s \in Side, p \in Price : o \in Elems(ob[s][p])
BY DEF Resting, RestingOn, RestingAt, Elems, Side

LEMMA BookSorted ==
  ASSUME TypeOK
  PROVE  Sorted(orderbook)
<1>1. \A s \in Side, p \in Price : RestingOrder(s, p) \subseteq Placed(s, p)
  BY DEF RestingOrder, Placed
<1>. QED
  BY <1>1, SeqMonotonic DEF TypeOK, Sorted

(* A step that changes one level of the book: D leave it, A join it.       *)
Swapped(ob, side, p, queue, D, A) ==
  /\ Sorted(ob) /\ UniqueIn(ob) /\ side \in Side /\ p \in Price
  /\ Distinct(queue) /\ D \subseteq Elems(ob[side][p])
  /\ Elems(queue) = (Elems(ob[side][p]) \ D) \cup A

LEMMA LevelSwap ==
  ASSUME NEW ob, NEW side, NEW p, NEW queue, NEW D, NEW A,
         Swapped(ob, side, p, queue, D, A)
  PROVE  /\ Resting(SetLevel(ob, side, p, queue)) = (Resting(ob) \ D) \cup A
         /\ UniqueIn(SetLevel(ob, side, p, queue))
         /\ D \subseteq Resting(ob)
<1>0. /\ Sorted(ob) /\ UniqueIn(ob) /\ side \in Side /\ p \in Price
      /\ Distinct(queue) /\ D \subseteq Elems(ob[side][p])
      /\ Elems(queue) = (Elems(ob[side][p]) \ D) \cup A
  BY DEF Swapped
<1>1. PICK ob2 : ob2 = SetLevel(ob, side, p, queue)
  OBVIOUS
<1>2. \A s \in Side, r \in Price : ob2[s][r] = IF s = side /\ r = p THEN queue ELSE ob[s][r]
  BY <1>0, <1>1 DEF SetLevel, Sorted, Book
<1>3. \A s \in Side, r \in Price : \A o \in Elems(ob[s][r]) : o.order_type = s /\ o.price = r
  <2>1. TAKE s \in Side, r \in Price
  <2>2. ob[s][r] \in Seq(Placed(s, r))
    BY <1>0 DEF Sorted
  <2>3. \A i \in DOMAIN ob[s][r] : ob[s][r][i] \in Placed(s, r)
    BY <2>2, LenProperties, ElementOfSeq
  <2>. QED
    BY <2>3 DEF Elems, Placed
<1>4. \A o : o \in Resting(ob2) <=> o \in (Resting(ob) \ D) \cup A
  <2>1. ASSUME NEW o \in Resting(ob2)
        PROVE  o \in (Resting(ob) \ D) \cup A
    <3>1. PICK s \in Side, r \in Price : o \in Elems(ob2[s][r])
      BY RestingElems
    <3>2. CASE s = side /\ r = p
      BY <1>0, <1>2, <3>1, <3>2, RestingElems
    <3>3. CASE ~(s = side /\ r = p)
      <4>1. o \in Elems(ob[s][r]) /\ o \in Resting(ob)
        BY <1>2, <3>1, <3>3, RestingElems
      <4>2. o \notin D
        BY <1>0, <1>3, <3>3, <4>1
      <4>. QED
        BY <4>1, <4>2
    <3>. QED
      BY <3>2, <3>3
  <2>2. ASSUME NEW o \in Resting(ob), o \notin D
        PROVE  o \in Resting(ob2)
    <3>1. PICK s \in Side, r \in Price : o \in Elems(ob[s][r])
      BY RestingElems
    <3>2. o \in Elems(ob2[s][r])
      BY <1>0, <1>2, <2>2, <3>1
    <3>. QED
      BY <3>2, RestingElems
  <2>3. ASSUME NEW o \in A
        PROVE  o \in Resting(ob2)
    <3>1. o \in Elems(ob2[side][p])
      BY <1>0, <1>2, <2>3
    <3>. QED
      BY <1>0, <3>1, RestingElems
  <2>. QED
    BY <2>1, <2>2, <2>3
<1>5. UniqueIn(ob2)
  BY <1>0, <1>2 DEF UniqueIn
<1>6. D \subseteq Resting(ob)
  BY <1>0, RestingElems
<1>7. Resting(ob2) = (Resting(ob) \ D) \cup A
  BY <1>4, Zenon
<1>. QED
  BY <1>1, <1>5, <1>6, <1>7

(* GiveUpLevel, DropUnmatchable: the head of the queue is gone.            *)
LEMMA PopBook ==
  ASSUME TypeOK, UniqueIn(orderbook), InLevel, SetQueue(Tail(Queue))
  PROVE  /\ Resting(orderbook') = Resting(orderbook) \ {Maker}
         /\ UniqueIn(orderbook') /\ Maker \in Resting(orderbook)
<1>1. MakerSide \in Side /\ level \in Price /\ Sorted(orderbook)
  BY LevelFacts, BookSorted
<1>2. Queue \in Seq(Placed(MakerSide, level)) /\ Queue # << >> /\ Distinct(Queue)
  BY <1>1 DEF InLevel, Queue, Sorted, UniqueIn
<1>3. Maker \in Elems(Queue) /\ Elems(Tail(Queue)) = Elems(Queue) \ {Maker} /\ Distinct(Tail(Queue))
  BY <1>2, QueueTail DEF Maker
<1>4. PICK queue, D, s, p : queue = Tail(Queue) /\ D = {Maker} /\ s = MakerSide /\ p = level
  OBVIOUS
<1>5. orderbook' = SetLevel(orderbook, s, p, queue)
  BY <1>4 DEF SetQueue
<1>6. Swapped(orderbook, s, p, queue, D, {})
  BY <1>1, <1>3, <1>4 DEF Queue, Swapped
<1>7. /\ Resting(SetLevel(orderbook, s, p, queue)) = (Resting(orderbook) \ D) \cup {}
      /\ UniqueIn(SetLevel(orderbook, s, p, queue)) /\ D \subseteq Resting(orderbook)
  BY <1>6, LevelSwap
<1>. QED
  BY <1>4, <1>5, <1>7

(* SkipOwnOrder: the same orders rest.                                     *)
LEMMA SkipBook ==
  ASSUME TypeOK, UniqueIn(orderbook), InLevel, SetQueue(Append(Tail(Queue), Maker))
  PROVE  Resting(orderbook') = Resting(orderbook) /\ UniqueIn(orderbook')
<1>1. MakerSide \in Side /\ level \in Price /\ Sorted(orderbook)
  BY LevelFacts, BookSorted
<1>2. Queue \in Seq(Placed(MakerSide, level)) /\ Queue # << >> /\ Distinct(Queue)
  BY <1>1 DEF InLevel, Queue, Sorted, UniqueIn
<1>3. /\ Maker \in Elems(Queue) /\ Elems(Tail(Queue)) = Elems(Queue) \ {Maker}
      /\ Distinct(Tail(Queue)) /\ \A o \in Elems(Tail(Queue)) : o.id # Maker.id
  BY <1>2, QueueTail DEF Maker
<1>4. Maker \in Placed(MakerSide, level) /\ Tail(Queue) \in Seq(Placed(MakerSide, level))
  BY <1>2, HeadTailProperties DEF Maker
<1>5. PICK tail \in Seq(Placed(MakerSide, level)), m \in Placed(MakerSide, level) :
         tail = Tail(Queue) /\ m = Maker
  BY <1>4
<1>6. Elems(Append(tail, m)) = Elems(tail) \cup {m} /\ Distinct(Append(tail, m))
  <2>1. Distinct(tail) /\ \A o \in Elems(tail) : o.id # m.id
    BY <1>3, <1>5
  <2>. QED
    BY <2>1, QueueAppend
<1>7. PICK queue, D, s, p : queue = Append(tail, m) /\ D = {m} /\ s = MakerSide /\ p = level
  OBVIOUS
<1>8. orderbook' = SetLevel(orderbook, s, p, queue)
  BY <1>5, <1>7 DEF SetQueue
<1>9. Swapped(orderbook, s, p, queue, D, D)
  BY <1>1, <1>3, <1>5, <1>6, <1>7 DEF Queue, Swapped
<1>10. /\ Resting(SetLevel(orderbook, s, p, queue)) = (Resting(orderbook) \ D) \cup D
       /\ UniqueIn(SetLevel(orderbook, s, p, queue)) /\ D \subseteq Resting(orderbook)
  BY <1>9, LevelSwap
<1>. QED
  BY <1>8, <1>10

(* MatchHead: the maker's remainder, if any, replaces it.                  *)
LEMMA MatchBook ==
  ASSUME TypeOK, UniqueIn(orderbook), InLevel, NEW m \in Placed(MakerSide, level),
         m.id = Maker.id, SetQueue(PutBack(m) \o Tail(Queue))
  PROVE  /\ Resting(orderbook')
              = (Resting(orderbook) \ {Maker}) \cup (IF m.remaining_amount > 0 THEN {m} ELSE {})
         /\ UniqueIn(orderbook') /\ Maker \in Resting(orderbook)
<1>1. MakerSide \in Side /\ level \in Price /\ Sorted(orderbook)
  BY LevelFacts, BookSorted
<1>2. Queue \in Seq(Placed(MakerSide, level)) /\ Queue # << >> /\ Distinct(Queue)
  BY <1>1 DEF InLevel, Queue, Sorted, UniqueIn
<1>3. /\ Maker \in Elems(Queue) /\ Elems(Tail(Queue)) = Elems(Queue) \ {Maker}
      /\ Distinct(Tail(Queue)) /\ \A o \in Elems(Tail(Queue)) : o.id # Maker.id
  BY <1>2, QueueTail DEF Maker
<1>4. PICK tail \in Seq(Placed(MakerSide, level)) : tail = Tail(Queue)
  BY <1>2, HeadTailProperties
<1>5. PICK A : A = IF m.remaining_amount > 0 THEN {m} ELSE {}
  OBVIOUS
<1>6. PICK queue : queue = PutBack(m) \o tail
  OBVIOUS
<1>7. Elems(queue) = Elems(tail) \cup A /\ Distinct(queue)
  <2>1. CASE m.remaining_amount > 0
    <3>1. queue = <<m>> \o tail /\ A = {m}
      BY <1>5, <1>6, <2>1 DEF PutBack
    <3>2. \A o \in Elems(tail) : o.id # m.id
      BY <1>3, <1>4
    <3>3. Distinct(tail)
      BY <1>3, <1>4
    <3>. QED
      BY <3>1, <3>2, <3>3, QueuePut
  <2>2. CASE ~(m.remaining_amount > 0)
    <3>1. queue = << >> \o tail /\ A = {}
      BY <1>5, <1>6, <2>2 DEF PutBack
    <3>2. queue = tail
      BY <3>1, ConcatEmptySeq
    <3>. QED
      BY <1>3, <1>4, <3>1, <3>2
  <2>. QED
    BY <2>1, <2>2
<1>8. PICK D, s, p : D = {Maker} /\ s = MakerSide /\ p = level
  OBVIOUS
<1>9. orderbook' = SetLevel(orderbook, s, p, queue)
  BY <1>4, <1>6, <1>8 DEF SetQueue
<1>10. Swapped(orderbook, s, p, queue, D, A)
  BY <1>1, <1>3, <1>4, <1>7, <1>8 DEF Queue, Swapped
<1>11. /\ Resting(SetLevel(orderbook, s, p, queue)) = (Resting(orderbook) \ D) \cup A
       /\ UniqueIn(SetLevel(orderbook, s, p, queue)) /\ D \subseteq Resting(orderbook)
  BY <1>10, LevelSwap
<1>. QED
  BY <1>5, <1>8, <1>9, <1>11


(* FinishMatching: a limit order with a remainder joins the book.          *)
LEMMA RestBook ==
  ASSUME TypeOK, UniqueIn(orderbook), NEW o \in Order, o.price \in Price,
         \A r \in Resting(orderbook) : r.id # o.id,
         orderbook' = AddOrder(orderbook, o)
  PROVE  Resting(orderbook') = Resting(orderbook) \cup {o} /\ UniqueIn(orderbook')
<1>1. PICK s \in Side, p \in Price : s = o.order_type /\ p = o.price
  BY DEF Order
<1>2. Sorted(orderbook)
  BY BookSorted
<1>3. PICK q \in Seq(Placed(s, p)) : q = orderbook[s][p] /\ Distinct(q)
  BY <1>2 DEF Sorted, UniqueIn
<1>4. o \in Placed(s, p) /\ \A r \in Elems(q) : r.id # o.id
  BY <1>1, <1>3, RestingElems DEF Placed
<1>5. Elems(Append(q, o)) = Elems(q) \cup {o} /\ Distinct(Append(q, o))
  BY <1>3, <1>4, QueueAppend
<1>6. PICK queue, D, A : queue = Append(q, o) /\ D = {} /\ A = {o}
  OBVIOUS
<1>7. Swapped(orderbook, s, p, queue, D, A)
  BY <1>2, <1>3, <1>5, <1>6 DEF Swapped
<1>8. orderbook' = SetLevel(orderbook, s, p, queue)
  BY <1>1, <1>2, <1>3, <1>6 DEF AddOrder, SetLevel, Sorted, Book
<1>9. /\ Resting(SetLevel(orderbook, s, p, queue)) = (Resting(orderbook) \ D) \cup A
      /\ UniqueIn(SetLevel(orderbook, s, p, queue))
  BY <1>7, LevelSwap
<1>. QED
  BY <1>6, <1>8, <1>9

(* CancelOrder: the order has left the book.                               *)
LEMMA CancelBook ==
  ASSUME TypeOK, UniqueIn(orderbook), NEW side \in Side, NEW p \in Price,
         NEW i \in DOMAIN orderbook[side][p],
         orderbook' = SetLevel(orderbook, side, p, RemoveAt(orderbook[side][p], i))
  PROVE  /\ Resting(orderbook') = Resting(orderbook) \ {orderbook[side][p][i]}
         /\ UniqueIn(orderbook') /\ orderbook[side][p][i] \in Resting(orderbook)
<1>1. Sorted(orderbook)
  BY BookSorted
<1>2. PICK q \in Seq(Placed(side, p)) : q = orderbook[side][p] /\ Distinct(q) /\ i \in DOMAIN q
  BY <1>1 DEF Sorted, UniqueIn
<1>3. Elems(RemoveAt(q, i)) = Elems(q) \ {q[i]} /\ Distinct(RemoveAt(q, i))
  BY <1>2, QueueRemove
<1>4. PICK queue, D, A : queue = RemoveAt(q, i) /\ D = {q[i]} /\ A = {}
  OBVIOUS
<1>5. q[i] \in Elems(q)
  BY <1>2 DEF Elems
<1>6. Swapped(orderbook, side, p, queue, D, A)
  BY <1>1, <1>2, <1>3, <1>4, <1>5 DEF Swapped
<1>7. /\ Resting(SetLevel(orderbook, side, p, queue)) = (Resting(orderbook) \ D) \cup A
      /\ UniqueIn(SetLevel(orderbook, side, p, queue)) /\ D \subseteq Resting(orderbook)
  BY <1>6, LevelSwap
<1>. QED
  BY <1>2, <1>4, <1>7

(* A resting order is well formed and stands at its own price.             *)
LEMMA RestingFacts ==
  ASSUME TypeOK, NEW o \in Resting(orderbook)
  PROVE  /\ o \in Order /\ o.id \in DOMAIN ledger /\ o.order_side = "limit"
         /\ o.order_type \in Side /\ o.price \in Price /\ o.remaining_amount \in Nat \ {0}
         /\ o \in Elems(orderbook[o.order_type][o.price])
         /\ Obligation(o) \in Nat /\ LockAccount(o) \in Account
<1>1. PICK s \in Side, p \in Price : o \in Elems(orderbook[s][p])
  BY RestingElems
<1>2. PICK q \in Seq(RestingOrder(s, p)) : q = orderbook[s][p]
  BY DEF TypeOK
<1>3. o \in RestingOrder(s, p)
  <2>1. \A i \in DOMAIN q : q[i] \in RestingOrder(s, p)
    BY LenProperties, ElementOfSeq
  <2>. QED
    BY <1>1, <1>2, <2>1 DEF Elems
<1>4. /\ o \in Order /\ o.id \in DOMAIN ledger /\ o.order_side = "limit"
      /\ o.order_type = s /\ o.price = p /\ o.remaining_amount \in Nat \ {0}
  BY <1>3 DEF RestingOrder, OrderId, Order
<1>5. p \in Nat /\ p * o.remaining_amount \in Nat
  BY <1>4, PriceAssumption, ProductNat
<1>6. Obligation(o) \in Nat
  BY <1>4, <1>5 DEF Obligation
<1>. QED
  BY <1>1, <1>4, <1>6, OrderFacts


-----------------------------------------------------------------------------
(* The shape of the book, of the taker and of their records, which all     *)
(* that follows rests on.                                                  *)

(* What is left of an order, by its record.                                *)
Left(r) == [r.order EXCEPT !.remaining_amount = @ - r.filled]

ReservedNat == reserved \in [Account -> Nat]

UniqueIds == UniqueIn(orderbook)

(* Until it rests, the taker is not in the book.                           *)
FreshTaker ==
  phase \in {"matching", "level"} => \A o \in Resting(orderbook) : o.id # taker.id

(* The level being matched is within the taker's limit, and the best.      *)
LevelFits ==
  phase = "level" => /\ Crosses(taker, level)
                     /\ \A q \in Levels(orderbook, MakerSide) : ~Better(q, level)

(* Every match is the taker's, against some other order.                   *)
TakerTrades ==
  phase # "idle" =>
    \A i \in DOMAIN matches :
       IF taker.order_type = "buy"
       THEN /\ matches[i].buy_order_id = taker.id /\ matches[i].buyer_id = taker.user_id
            /\ matches[i].sell_order_id # taker.id
       ELSE /\ matches[i].sell_order_id = taker.id /\ matches[i].seller_id = taker.user_id
            /\ matches[i].buy_order_id # taker.id

(* The records know each order: as it came, and what is left of it.        *)
Accepted ==
  \A i \in DOMAIN ledger :
     /\ ledger[i].order.id = i
     /\ ledger[i].order.order_side = "limit"
          => ledger[i].order.amount = ledger[i].order.remaining_amount

Booked ==
  \A o \in Resting(orderbook) : o = Left(ledger[o.id]) /\ ~ledger[o.id].cancelled

TakerRecord ==
  phase # "idle" =>
    /\ ~ledger[taker.id].cancelled
    /\ IF ByQuote(taker)
       THEN taker = [ledger[taker.id].order EXCEPT
                       !.remaining_quote_amount = taker.remaining_quote_amount]
       ELSE taker = Left(ledger[taker.id])

Shape == /\ ReservedNat /\ UniqueIds /\ FreshTaker /\ LevelFits /\ TakerTrades
         /\ Accepted /\ Booked /\ TakerRecord

(* Settlements and refunds change nothing in a record but its hold.        *)
SameRecords(records, old) ==
  /\ DOMAIN records = DOMAIN old
  /\ \A i \in DOMAIN old : /\ records[i].order = old[i].order
                           /\ records[i].filled = old[i].filled
                           /\ records[i].cancelled = old[i].cancelled
                           /\ records[i].improved = old[i].improved

LEMMA ReleaseRecords ==
  ASSUME NEW records \in Seq(RecordType), NEW id \in DOMAIN records, NEW amount \in Int
  PROVE  /\ SameRecords(Release(records, id, amount), records)
         /\ \A i \in DOMAIN records :
              Release(records, id, amount)[i].hold
                = IF i = id THEN records[i].hold - amount ELSE records[i].hold
<1>1. \A i \in DOMAIN records : records[i] \in RecordType
  BY LenProperties, ElementOfSeq
<1>2. PICK l : l = Release(records, id, amount)
  OBVIOUS
<1>3. /\ DOMAIN l = DOMAIN records
      /\ \A i \in DOMAIN records :
           l[i] = IF i = id THEN [records[i] EXCEPT !.hold = @ - amount] ELSE records[i]
  BY <1>2 DEF Release
<1>4. \A i \in DOMAIN records : /\ l[i].order = records[i].order
                                /\ l[i].filled = records[i].filled
                                /\ l[i].cancelled = records[i].cancelled
                                /\ l[i].improved = records[i].improved
                                /\ l[i].hold = IF i = id THEN records[i].hold - amount
                                                         ELSE records[i].hold
  BY <1>1, <1>3 DEF RecordType
<1>. QED
  BY <1>2, <1>3, <1>4 DEF SameRecords

LEMMA KeepsRecords ==
  ASSUME TypeOK, Accepted, Booked, TakerRecord, SameRecords(ledger', ledger),
         Resting(orderbook') \subseteq Resting(orderbook),
         phase' # "idle" => phase # "idle" /\ taker' = taker
  PROVE  Accepted' /\ Booked' /\ TakerRecord'
<1>1. \A i \in DOMAIN ledger : Left(ledger'[i]) = Left(ledger[i])
  BY DEF SameRecords, Left
<1>2. Accepted'
  BY DEF Accepted, SameRecords
<1>3. Booked'
  <2>1. ASSUME NEW o \in Resting(orderbook')
        PROVE  o = Left(ledger'[o.id]) /\ ~ledger'[o.id].cancelled
    <3>1. o \in Resting(orderbook) /\ o.id \in DOMAIN ledger
      BY RestingFacts
    <3>. QED
      BY <1>1, <3>1 DEF Booked, SameRecords
  <2>. QED
    BY <2>1 DEF Booked, Left
<1>4. TakerRecord'
  <2>1. SUFFICES ASSUME phase' # "idle" PROVE TakerRecord'
    BY DEF TakerRecord
  <2>2. taker' = taker /\ phase # "idle" /\ taker.id \in DOMAIN ledger
    BY <2>1 DEF TypeOK, TakerOrder, OrderId
  <2>. QED
    BY <1>1, <2>2 DEF TakerRecord, SameRecords, ByQuote, Left
<1>. QED
  BY <1>2, <1>3, <1>4


LEMMA NothingRests == Resting(EmptyBook) = {} /\ UniqueIn(EmptyBook)
BY DEF Resting, RestingOn, RestingAt, EmptyBook, UniqueIn, Distinct, Side

LEMMA InitShape == Init => Shape
<1> SUFFICES ASSUME Init PROVE Shape
  OBVIOUS
<1>1. ReservedNat
  BY DEF Init, ReservedNat
<1>2. UniqueIds /\ Resting(orderbook) = {}
  BY NothingRests DEF Init, UniqueIds
<1>3. DOMAIN ledger = {}
  BY DEF Init
<1>. QED
  BY <1>1, <1>2, <1>3 DEF Init, Shape, FreshTaker, LevelFits, TakerTrades, Accepted, Booked,
     TakerRecord

(* process_submit_order: a new order, with a new id.                       *)
LEMMA SubmitShape ==
  ASSUME TypeOK, Shape, NEW o \in Requests, SubmitOrder(o)
  PROVE  Shape'
<1>1. /\ o \in Order /\ o.id = Len(ledger) + 1
      /\ taker' = o /\ phase' = "matching" /\ matches' = << >>
      /\ orderbook' = orderbook /\ reserved' = reserved
      /\ ledger' = Append(ledger, Record(o))
  BY RequestFacts DEF SubmitOrder
<1>2. /\ DOMAIN ledger = 1 .. Len(ledger) /\ Len(ledger) \in Nat
      /\ DOMAIN ledger' = 1 .. Len(ledger) + 1
      /\ \A i \in DOMAIN ledger : ledger'[i] = ledger[i]
      /\ ledger'[o.id] = Record(o)
  BY <1>1, RequestFacts, AppendProperties, LenProperties DEF TypeOK
<1>3. Record(o).order = o /\ Record(o).filled = 0 /\ ~Record(o).cancelled
  BY DEF Record
<1>4. o.order_side = "limit" => o.amount = o.remaining_amount
  BY DEF Requests, Incoming
<1>5. \A r \in Resting(orderbook) : r.id \in DOMAIN ledger /\ r.id # o.id
  BY <1>1, <1>2, RestingFacts
<1>6. ReservedNat' /\ UniqueIds'
  BY <1>1 DEF Shape, ReservedNat, UniqueIds, UniqueIn
<1>7. FreshTaker' /\ LevelFits' /\ TakerTrades'
  BY <1>1, <1>5 DEF FreshTaker, LevelFits, TakerTrades
<1>8. Accepted'
  <2>1. ASSUME NEW i \in DOMAIN ledger'
        PROVE  /\ ledger'[i].order.id = i
               /\ ledger'[i].order.order_side = "limit"
                    => ledger'[i].order.amount = ledger'[i].order.remaining_amount
    <3>1. CASE i \in DOMAIN ledger
      BY <1>2, <3>1 DEF Shape, Accepted
    <3>2. CASE i = o.id
      BY <1>2, <1>3, <1>4, <3>2
    <3>. QED
      BY <1>1, <1>2, <3>1, <3>2
  <2>. QED
    BY <2>1 DEF Accepted
<1>9. Booked'
  BY <1>1, <1>2, <1>5 DEF Shape, Booked, Left
<1>10. TakerRecord'
  <2>1. o = [o EXCEPT !.remaining_quote_amount = o.remaining_quote_amount]
    BY <1>1 DEF Order
  <2>2. o = [o EXCEPT !.remaining_amount = @ - 0]
    BY <1>1 DEF Order
  <2>3. Left(Record(o)) = o
    BY <1>3, <2>2 DEF Left
  <2>. QED
    BY <1>1, <1>2, <1>3, <2>1, <2>3 DEF TakerRecord, Left
<1>. QED
  BY <1>6, <1>7, <1>8, <1>9, <1>10 DEF Shape

(* The heads of the loops: the level is the best one the taker crosses.    *)
LEMMA LoopShape ==
  ASSUME TypeOK, Shape, (\E p \in Price : EnterLevel(p)) \/ LeaveLevel
  PROVE  Shape'
<1>1. /\ orderbook' = orderbook /\ taker' = taker /\ ledger' = ledger /\ matches' = matches
      /\ reserved' = reserved
      /\ phase \in {"matching", "level"} /\ phase' \in {"matching", "level"}
  BY DEF EnterLevel, LeaveLevel, historyVars
<1>2. LevelFits'
  <2>1. CASE LeaveLevel
    BY <2>1 DEF LeaveLevel, LevelFits
  <2>2. ASSUME NEW p \in Price, EnterLevel(p) PROVE LevelFits'
    <3>1. /\ level' = p /\ Crosses(taker, p) /\ p \in Nat
          /\ \A q \in Levels(orderbook, MakerSide) : q \in Nat
      BY <2>2, PriceAssumption DEF EnterLevel, Levels
    <3>2. \A q \in Levels(orderbook, MakerSide) : IF MakerSide = "buy" THEN q <= p ELSE p <= q
      BY <2>2 DEF EnterLevel, IsBestPrice
    <3>3. MakerSide = "buy" <=> taker.order_type # "buy"
      BY DEF MakerSide, Opposite
    <3>4. \A q \in Levels(orderbook, MakerSide) : ~Better(q, p)
      BY <3>1, <3>2, <3>3 DEF Better
    <3>. QED
      BY <1>1, <3>1, <3>4 DEF LevelFits, Crosses, Better, Levels, MakerSide
  <2>. QED
    BY <2>1, <2>2
<1>3. ReservedNat' /\ UniqueIds' /\ FreshTaker' /\ TakerTrades'
  BY <1>1 DEF Shape, ReservedNat, UniqueIds, UniqueIn, FreshTaker, TakerTrades
<1>4. Accepted' /\ Booked' /\ TakerRecord'
  BY <1>1, KeepsRecords DEF Shape, SameRecords
<1>. QED
  BY <1>2, <1>3, <1>4 DEF Shape

(* FinishMatching: what is left of a limit order rests under a fresh id.   *)
LEMMA FinishMatchingShape ==
  ASSUME TypeOK, Shape, FinishMatching
  PROVE  Shape'
<1>1. /\ taker' = taker /\ ledger' = ledger /\ matches' = matches /\ reserved' = reserved
      /\ phase = "matching" /\ phase' = "executing"
  BY DEF FinishMatching, historyVars
<1>2. /\ taker \in Order /\ taker.id \in DOMAIN ledger
      /\ taker.order_side = "limit" => taker.price \in Price
  BY <1>1 DEF TypeOK, TakerOrder, OrderId
<1>3. CASE ~(taker.order_side = "limit" /\ ~FullyFilled(taker))
  <2>1. orderbook' = orderbook
    BY <1>3 DEF FinishMatching
  <2>2. Accepted' /\ Booked' /\ TakerRecord'
    BY <1>1, <2>1, KeepsRecords DEF Shape, SameRecords
  <2>. QED
    BY <1>1, <2>1, <2>2 DEF Shape, ReservedNat, UniqueIds, UniqueIn, FreshTaker, LevelFits,
       TakerTrades
<1>4. CASE taker.order_side = "limit" /\ ~FullyFilled(taker)
  <2>1. orderbook' = AddOrder(orderbook, taker)
    BY <1>4 DEF FinishMatching
  <2>2. Resting(orderbook') = Resting(orderbook) \cup {taker} /\ UniqueIn(orderbook')
    BY <1>1, <1>2, <1>4, <2>1, RestBook DEF Shape, UniqueIds, FreshTaker
  <2>3. ~ByQuote(taker)
    BY <1>4 DEF ByQuote
  <2>4. taker = Left(ledger[taker.id]) /\ ~ledger[taker.id].cancelled
    BY <1>1, <2>3 DEF Shape, TakerRecord
  <2>5. Booked'
    BY <1>1, <2>2, <2>4 DEF Shape, Booked, Left
  <2>6. UniqueIds'
    BY <2>2 DEF UniqueIds
  <2>7. ReservedNat' /\ FreshTaker' /\ LevelFits' /\ TakerTrades' /\ Accepted'
    BY <1>1 DEF Shape, ReservedNat, FreshTaker, LevelFits, TakerTrades, Accepted
  <2>8. TakerRecord'
    BY <1>1, <2>3, <2>4 DEF TakerRecord, Left, ByQuote
  <2>. QED
    BY <2>5, <2>6, <2>7, <2>8 DEF Shape
<1>. QED
  BY <1>3, <1>4

(* Popping the head of the queue, whether it is lost or goes to the back.  *)
LEMMA PopShape ==
  ASSUME TypeOK, Shape, GiveUpLevel \/ DropUnmatchable \/ SkipOwnOrder
  PROVE  Shape'
<1>1. /\ taker' = taker /\ ledger' = ledger /\ matches' = matches /\ reserved' = reserved
      /\ InLevel /\ phase = "level" /\ phase' \in {"matching", "level"}
  BY DEF GiveUpLevel, DropUnmatchable, SkipOwnOrder, historyVars, InLevel
<1>2. Resting(orderbook') \subseteq Resting(orderbook) /\ UniqueIn(orderbook')
  <2>1. CASE GiveUpLevel \/ DropUnmatchable
    BY <1>1, <2>1, PopBook DEF GiveUpLevel, DropUnmatchable, Shape, UniqueIds
  <2>2. CASE SkipOwnOrder
    BY <1>1, <2>2, SkipBook DEF SkipOwnOrder, Shape, UniqueIds
  <2>. QED
    BY <2>1, <2>2
<1>3. Accepted' /\ Booked' /\ TakerRecord'
  BY <1>1, <1>2, KeepsRecords DEF Shape, SameRecords
<1>4. LevelFits'
  <2>1. CASE phase' = "matching"
    BY <2>1 DEF LevelFits
  <2>2. CASE phase' = "level"
    <3>1. SkipOwnOrder /\ level' = level
      BY <2>2 DEF GiveUpLevel, DropUnmatchable, SkipOwnOrder
    <3>2. PICK queue : orderbook' = SetLevel(orderbook, MakerSide, level, queue)
      BY <3>1 DEF SkipOwnOrder, SetQueue
    <3>3. Levels(orderbook, MakerSide)' \subseteq Levels(orderbook, MakerSide)
      <4>1. \A s \in Side : Levels(orderbook, s)' \subseteq Levels(orderbook, s)
        BY <1>1, <3>2, LevelFacts, NoNewLevel
      <4>. QED
        BY <1>1, <4>1, LevelFacts DEF Levels, MakerSide
    <3>. QED
      BY <1>1, <3>1, <3>3 DEF Shape, LevelFits, Crosses, Better
  <2>. QED
    BY <1>1, <2>1, <2>2
<1>5. ReservedNat' /\ UniqueIds' /\ FreshTaker' /\ TakerTrades'
  BY <1>1, <1>2 DEF Shape, ReservedNat, UniqueIds, FreshTaker, TakerTrades
<1>. QED
  BY <1>3, <1>4, <1>5 DEF Shape


LEMMA FillRecords ==
  ASSUME NEW records \in Seq(RecordType), NEW o \in Order, o.id \in DOMAIN records, NEW amount \in Int
  PROVE  LET after == Fill(records, o, amount)
         IN  /\ DOMAIN after = DOMAIN records
             /\ \A i \in DOMAIN records :
                  /\ after[i].order = records[i].order
                  /\ after[i].cancelled = records[i].cancelled
                  /\ after[i].hold = records[i].hold
                  /\ after[i].filled = IF i = o.id THEN records[i].filled + amount
                                                   ELSE records[i].filled
                  /\ i # o.id \/ o # taker => after[i].improved = records[i].improved
                  /\ ~after[i].improved =>
                       /\ ~records[i].improved
                       /\ i = o.id /\ o = taker /\ o.order_type = "buy" => ~(level < o.price)
<1> DEFINE gain == o = taker /\ o.order_type = "buy" /\ level < o.price
<1>1. \A i \in DOMAIN records : records[i] \in RecordType
  BY LenProperties, ElementOfSeq
<1>2. PICK l : l = Fill(records, o, amount)
  OBVIOUS
<1>3. PICK b \in BOOLEAN : b = gain
  OBVIOUS
<1>4. /\ DOMAIN l = DOMAIN records
      /\ \A i \in DOMAIN records :
           l[i] = IF i = o.id THEN [records[i] EXCEPT !.filled = @ + amount, !.improved = @ \/ b]
                              ELSE records[i]
  BY <1>2, <1>3 DEF Fill
<1> HIDE DEF gain
<1>5. ASSUME NEW i \in DOMAIN records, i = o.id
      PROVE  /\ l[i].order = records[i].order
             /\ l[i].cancelled = records[i].cancelled
             /\ l[i].hold = records[i].hold
             /\ l[i].filled = records[i].filled + amount
             /\ l[i].improved = (records[i].improved \/ b)
  <2>1. PICK r \in RecordType : r = records[i]
    BY <1>1
  <2>2. PICK f, c : f = r.filled + amount /\ c = (r.improved \/ b)
    OBVIOUS
  <2>3. l[i] = [r EXCEPT !.filled = f, !.improved = c]
    BY <1>4, <1>5, <2>1, <2>2
  <2>4. /\ l[i].order = r.order /\ l[i].cancelled = r.cancelled /\ l[i].hold = r.hold
        /\ l[i].filled = f /\ l[i].improved = c
    BY <2>3 DEF RecordType
  <2>. QED
    BY <2>1, <2>2, <2>4
<1>6. ASSUME NEW i \in DOMAIN records, i # o.id
      PROVE  l[i] = records[i]
  BY <1>4, <1>6
<1>7. \A i \in DOMAIN records : records[i].improved \in BOOLEAN
  BY <1>1 DEF RecordType
<1>8. ASSUME NEW i \in DOMAIN records
      PROVE  /\ l[i].order = records[i].order
             /\ l[i].cancelled = records[i].cancelled
             /\ l[i].hold = records[i].hold
             /\ l[i].filled = IF i = o.id THEN records[i].filled + amount
                                          ELSE records[i].filled
  BY <1>5, <1>6
<1>9. ASSUME NEW i \in DOMAIN records
      PROVE  /\ i # o.id \/ o # taker => l[i].improved = records[i].improved
             /\ ~l[i].improved =>
                       /\ ~records[i].improved
                       /\ i = o.id /\ o = taker /\ o.order_type = "buy" => ~(level < o.price)
  <2>1. CASE i = o.id
    <3>1. l[i].improved = (records[i].improved \/ b)
      BY <1>5, <2>1
    <3>. QED
      BY <1>3, <1>7, <2>1, <3>1 DEF gain
  <2>2. CASE i # o.id
    BY <1>6, <2>2
  <2>. QED
    BY <2>1, <2>2
<1>. QED
  BY <1>2, <1>4, <1>8, <1>9


(* What a match does to the maker, the taker, their records and the book.  *)
Rest(o, amount) == [o EXCEPT !.remaining_amount = @ - amount]

LEMMA MatchedMaker ==
  ASSUME TypeOK, Shape, MatchHead
  PROVE  /\ Maker \in Resting(orderbook) /\ Maker.id # taker.id
         /\ Maker.order_side = "limit" /\ Maker.order_type = MakerSide /\ Maker.price = level
         /\ Maker.remaining_amount \in Nat \ {0}
         /\ Maker.id \in DOMAIN ledger /\ Maker.user_id # taker.user_id
         /\ Rest(Maker, MatchAmount) \in Order
         /\ Resting(orderbook') = (Resting(orderbook) \ {Maker})
              \cup (IF Rest(Maker, MatchAmount).remaining_amount > 0
                    THEN {Rest(Maker, MatchAmount)} ELSE {})
         /\ UniqueIn(orderbook')
<1>1. InLevel /\ ~OwnOrder /\ ~(taker.order_type = "buy" /\ MatchAmount <= 0)
  BY DEF MatchHead
<1>2. PICK a \in Nat \ {0} : a = MatchAmount
  BY <1>1, MatchAmountFacts
<1>3. /\ MakerSide \in Side /\ level \in Price
      /\ Maker \in RestingOrder(MakerSide, level) /\ Maker \in Order
  BY <1>1, LevelFacts
<1>4. /\ Maker.order_side = "limit" /\ Maker.order_type = MakerSide /\ Maker.price = level
      /\ Maker.remaining_amount \in Nat \ {0} /\ Maker.id \in DOMAIN ledger
  BY <1>3 DEF RestingOrder, Order, OrderId
<1>5. PICK m : m = Rest(Maker, a)
  OBVIOUS
<1>6. Reduced(Maker, a) = m
  BY <1>4, <1>5 DEF Reduced, Rest, ByQuote
<1>7. m \in Order /\ m \in Placed(MakerSide, level) /\ m.id = Maker.id
  BY <1>2, <1>3, <1>4, <1>5 DEF Rest, Order, Placed
<1>8. SetQueue(PutBack(m) \o Tail(Queue))
  BY <1>2, <1>6 DEF MatchHead
<1>9. /\ Resting(orderbook')
            = (Resting(orderbook) \ {Maker}) \cup (IF m.remaining_amount > 0 THEN {m} ELSE {})
      /\ UniqueIn(orderbook') /\ Maker \in Resting(orderbook)
  BY <1>1, <1>7, <1>8, MatchBook DEF Shape, UniqueIds
<1>10. Maker.id # taker.id
  BY <1>1, <1>9 DEF Shape, FreshTaker, InLevel
<1>11. Maker.user_id # taker.user_id
  BY <1>1 DEF OwnOrder
<1>. QED
  BY <1>2, <1>4, <1>5, <1>7, <1>9, <1>10, <1>11

LEMMA MatchedTaker ==
  ASSUME TypeOK, MatchHead
  PROVE  /\ MatchAmount \in Nat \ {0} /\ MatchAmount <= Maker.remaining_amount
         /\ taker \in Order /\ taker.id \in DOMAIN ledger /\ level \in Price /\ ~FullyFilled(taker)
         /\ taker' = Reduced(taker, MatchAmount) /\ taker' \in Order
         /\ taker'.id = taker.id /\ taker'.user_id = taker.user_id
         /\ taker'.order_type = taker.order_type /\ taker'.order_side = taker.order_side
         /\ taker'.price = taker.price /\ taker'.amount = taker.amount
         /\ taker'.quote_amount = taker.quote_amount
         /\ IF ByQuote(taker)
            THEN /\ taker'.remaining_amount = taker.remaining_amount
                 /\ taker'.remaining_quote_amount
                      = taker.remaining_quote_amount - MatchAmount * level
            ELSE /\ taker'.remaining_amount = taker.remaining_amount - MatchAmount
                 /\ taker'.remaining_quote_amount = taker.remaining_quote_amount
<1>1. InLevel /\ ~(taker.order_type = "buy" /\ MatchAmount <= 0)
  BY DEF MatchHead
<1>2. PICK a \in Nat \ {0} : a = MatchAmount
  BY <1>1, MatchAmountFacts
<1>3. /\ taker \in TakerOrder /\ taker \in Order /\ ~FullyFilled(taker) /\ level \in Price
      /\ taker.id \in DOMAIN ledger
  BY <1>1, LevelFacts DEF TakerOrder, OrderId
<1>4. taker' = Reduced(taker, a)
  BY <1>2 DEF MatchHead
<1>5. PICK v \in Int : v = a * level
  <2>1. level \in Int
    BY <1>3, PriceInt
  <2>. QED
    BY <2>1, ProductInt
<1>6. taker' = IF ByQuote(taker) THEN [taker EXCEPT !.remaining_quote_amount = @ - v]
                                 ELSE [taker EXCEPT !.remaining_amount = @ - a]
  BY <1>4, <1>5 DEF Reduced
<1>7. MatchAmount <= Maker.remaining_amount
  BY <1>1, MatchAmountFacts
<1>8. /\ taker' \in Order
      /\ taker'.id = taker.id /\ taker'.user_id = taker.user_id
      /\ taker'.order_type = taker.order_type /\ taker'.order_side = taker.order_side
      /\ taker'.price = taker.price /\ taker'.amount = taker.amount
      /\ taker'.quote_amount = taker.quote_amount
  BY <1>3, <1>5, <1>6 DEF Order
<1>9. IF ByQuote(taker)
      THEN /\ taker'.remaining_amount = taker.remaining_amount
           /\ taker'.remaining_quote_amount = taker.remaining_quote_amount - v
      ELSE /\ taker'.remaining_amount = taker.remaining_amount - a
           /\ taker'.remaining_quote_amount = taker.remaining_quote_amount
  BY <1>3, <1>6 DEF Order
<1>. QED
  BY <1>2, <1>3, <1>4, <1>5, <1>7, <1>8, <1>9

LEMMA MatchedRecords ==
  ASSUME TypeOK, Shape, MatchHead
  PROVE  /\ DOMAIN ledger' = DOMAIN ledger
         /\ \A i \in DOMAIN ledger :
              /\ ledger'[i].order = ledger[i].order
              /\ ledger'[i].cancelled = ledger[i].cancelled
              /\ ledger'[i].hold = ledger[i].hold
              /\ ledger'[i].filled = IF i \in {taker.id, Maker.id}
                                     THEN ledger[i].filled + MatchAmount ELSE ledger[i].filled
              /\ i # taker.id => ledger'[i].improved = ledger[i].improved
         /\ ~ledger'[taker.id].improved =>
              /\ ~ledger[taker.id].improved
              /\ taker.order_type = "buy" => ~(level < taker.price)
<1>1. PICK a \in Nat \ {0} : a = MatchAmount
  BY MatchedTaker
<1>2. /\ taker \in Order /\ taker.id \in DOMAIN ledger /\ ledger \in Seq(RecordType)
      /\ Maker \in Order /\ Maker.id \in DOMAIN ledger /\ Maker.id # taker.id
  BY MatchedTaker, MatchedMaker, RestingFacts DEF TypeOK
<1>3. PICK l : l = Fill(ledger, taker, a)
  OBVIOUS
<1>4. PICK k : k = Fill(l, Maker, a)
  OBVIOUS
<1>5. ledger' = k
  BY <1>1, <1>3, <1>4 DEF MatchHead
<1>6. l \in Seq(RecordType) /\ DOMAIN l = DOMAIN ledger
  BY <1>1, <1>2, <1>3, FillType
<1>7. \A i \in DOMAIN ledger :
        /\ l[i].order = ledger[i].order
        /\ l[i].cancelled = ledger[i].cancelled
        /\ l[i].hold = ledger[i].hold
        /\ l[i].filled = IF i = taker.id THEN ledger[i].filled + a ELSE ledger[i].filled
        /\ i # taker.id => l[i].improved = ledger[i].improved
        /\ ~l[i].improved => ~ledger[i].improved
        /\ ~l[i].improved /\ i = taker.id /\ taker.order_type = "buy" => ~(level < taker.price)
  BY <1>1, <1>2, <1>3, FillRecords
<1>8. Maker # taker
  BY <1>2
<1>9. /\ DOMAIN k = DOMAIN l
      /\ \A i \in DOMAIN l :
        /\ k[i].order = l[i].order
        /\ k[i].cancelled = l[i].cancelled
        /\ k[i].hold = l[i].hold
        /\ k[i].filled = IF i = Maker.id THEN l[i].filled + a ELSE l[i].filled
        /\ k[i].improved = l[i].improved
  BY <1>1, <1>2, <1>4, <1>6, <1>8, FillRecords
<1>. QED
  BY <1>1, <1>2, <1>5, <1>6, <1>7, <1>9


(* A match reduces the two orders and their records alike.                 *)
LEMMA MatchShape ==
  ASSUME TypeOK, Shape, MatchHead
  PROVE  Shape'
<1>1. /\ InLevel /\ phase = "level" /\ phase' \in {"matching", "level"}
      /\ level' = level /\ reserved' = reserved
      /\ matches' = Append(matches, MatchResult(MatchAmount))
  BY DEF MatchHead, InLevel
<1>2. PICK a \in Nat \ {0} : a = MatchAmount
  BY MatchedTaker
<1>3. PICK m : m = Rest(Maker, a)
  OBVIOUS
<1>4. /\ Maker \in Order /\ Maker.id \in DOMAIN ledger /\ Maker \in Resting(orderbook)
      /\ Maker.id # taker.id
  BY MatchedMaker, RestingFacts
<1>5. /\ Resting(orderbook')
            = (Resting(orderbook) \ {Maker}) \cup (IF m.remaining_amount > 0 THEN {m} ELSE {})
      /\ UniqueIn(orderbook')
  BY <1>2, <1>3, MatchedMaker
<1>6. m.id = Maker.id
  BY <1>3, <1>4 DEF Rest, Order
<1>7. \A i \in DOMAIN ledger : ledger[i] \in RecordType
  BY LenProperties, ElementOfSeq DEF TypeOK
<1>8. /\ DOMAIN ledger' = DOMAIN ledger
      /\ \A i \in DOMAIN ledger :
           /\ ledger'[i].order = ledger[i].order
           /\ ledger'[i].cancelled = ledger[i].cancelled
           /\ ledger'[i].filled = IF i \in {taker.id, Maker.id}
                                  THEN ledger[i].filled + a ELSE ledger[i].filled
  BY <1>2, MatchedRecords
<1>9. ASSUME NEW i \in {taker.id, Maker.id}
      PROVE  Left(ledger'[i]) = Rest(Left(ledger[i]), a)
  <2>1. i \in DOMAIN ledger
    BY <1>4, MatchedTaker
  <2>2. PICK o \in Order, f \in Int : o = ledger[i].order /\ f = ledger[i].filled
    BY <1>7, <2>1 DEF RecordType
  <2>3. ledger'[i].order = o /\ ledger'[i].filled = f + a
    BY <1>8, <2>1, <2>2
  <2>4. PICK b, c, d : b = o.remaining_amount /\ c = b - f /\ d = b - (f + a)
    OBVIOUS
  <2>5. b \in Int /\ c \in Int /\ d = c - a
    <3>1. b \in Int
      BY <2>2, <2>4 DEF Order
    <3>. QED
      BY <1>2, <2>2, <2>4, <3>1
  <2>6. PICK l : l = [o EXCEPT !.remaining_amount = c]
    OBVIOUS
  <2>7. l \in Order /\ l.remaining_amount = c
    BY <2>2, <2>5, <2>6 DEF Order
  <2>8. [l EXCEPT !.remaining_amount = d] = [o EXCEPT !.remaining_amount = d]
    BY <2>2, <2>6 DEF Order
  <2>9. Left(ledger[i]) = l /\ Left(ledger'[i]) = [o EXCEPT !.remaining_amount = d]
    BY <2>2, <2>3, <2>4, <2>6 DEF Left
  <2>10. Rest(l, a) = [l EXCEPT !.remaining_amount = d]
    BY <2>5, <2>7 DEF Rest
  <2>. QED
    BY <2>8, <2>9, <2>10
<1>10. ReservedNat' /\ UniqueIds'
  BY <1>1, <1>5 DEF Shape, ReservedNat, UniqueIds
<1>11. FreshTaker'
  <2>1. taker'.id = taker.id
    BY MatchedTaker
  <2>. QED
    BY <1>1, <1>4, <1>5, <1>6, <2>1 DEF Shape, FreshTaker
<1>12. LevelFits'
  <2>1. /\ taker'.order_type = taker.order_type /\ taker'.order_side = taker.order_side
        /\ taker'.price = taker.price
    BY MatchedTaker
  <2>2. PICK queue : orderbook' = SetLevel(orderbook, MakerSide, level, queue)
    BY DEF MatchHead, SetQueue
  <2>3. MakerSide' = MakerSide
    BY <2>1 DEF MakerSide
  <2>4. Levels(orderbook', MakerSide) \subseteq Levels(orderbook, MakerSide)
    <3>1. \A s \in Side : Levels(orderbook, s)' \subseteq Levels(orderbook, s)
      BY <1>1, <2>2, LevelFacts, NoNewLevel
    <3>. QED
      BY <1>1, <3>1, LevelFacts DEF Levels
  <2>5. Crosses(taker, level) /\ \A q \in Levels(orderbook, MakerSide) : ~Better(q, level)
    BY <1>1 DEF Shape, LevelFits
  <2>. QED
    BY <1>1, <2>1, <2>3, <2>4, <2>5 DEF LevelFits, Crosses, Better
<1>13. TakerTrades'
  <2>1. /\ taker'.id = taker.id /\ taker'.user_id = taker.user_id
        /\ taker'.order_type = taker.order_type
    BY MatchedTaker
  <2>2. PICK t : t = MatchResult(a)
    OBVIOUS
  <2>3. IF taker.order_type = "buy"
        THEN t.buy_order_id = taker.id /\ t.buyer_id = taker.user_id /\ t.sell_order_id # taker.id
        ELSE t.sell_order_id = taker.id /\ t.seller_id = taker.user_id /\ t.buy_order_id # taker.id
    BY <1>4, <2>2 DEF MatchResult
  <2>4. t \in MatchResultType
    <3>1. taker \in Order /\ taker.id \in DOMAIN ledger /\ level \in Price
      BY MatchedTaker
    <3>. QED
      BY <1>2, <1>4, <2>2, <3>1 DEF MatchResult, MatchResultType, OrderId, Order
  <2>5. /\ DOMAIN matches = 1 .. Len(matches) /\ Len(matches) \in Nat
        /\ DOMAIN matches' = 1 .. Len(matches) + 1
        /\ \A i \in 1 .. Len(matches) : matches'[i] = matches[i]
        /\ matches'[Len(matches) + 1] = t
    BY <1>1, <1>2, <2>2, <2>4, AppendProperties, LenProperties DEF TypeOK
  <2>6. \A i \in DOMAIN matches' : i \in DOMAIN matches \/ matches'[i] = t
    BY <2>5
  <2>7. \A i \in DOMAIN matches : matches'[i] = matches[i]
    BY <2>5
  <2>. QED
    BY <1>1, <2>1, <2>3, <2>6, <2>7 DEF Shape, TakerTrades
<1>14. Accepted'
  BY <1>8 DEF Shape, Accepted
<1>15. Booked'
  <2>1. ASSUME NEW o \in Resting(orderbook')
        PROVE  o = Left(ledger'[o.id]) /\ ~ledger'[o.id].cancelled
    <3>1. CASE o = m
      <4>1. Maker = Left(ledger[Maker.id]) /\ ~ledger[Maker.id].cancelled
        BY <1>4 DEF Shape, Booked
      <4>2. m = Left(ledger'[Maker.id])
        BY <1>3, <1>9, <4>1
      <4>. QED
        BY <1>4, <1>6, <1>8, <3>1, <4>1, <4>2
    <3>2. CASE o \in Resting(orderbook) /\ o # Maker
      <4>1. o.id \in DOMAIN ledger /\ o = Left(ledger[o.id]) /\ ~ledger[o.id].cancelled
        BY <3>2, RestingFacts DEF Shape, Booked
      <4>2. o.id # Maker.id /\ o.id # taker.id
        BY <1>1, <1>4, <3>2, <4>1 DEF Shape, Booked, FreshTaker
      <4>. QED
        BY <1>8, <4>1, <4>2 DEF Left
    <3>. QED
      BY <1>5, <3>1, <3>2
  <2>. QED
    BY <2>1 DEF Booked, Left
<1>16. TakerRecord'
  <2>1. taker.id \in DOMAIN ledger /\ taker \in Order
    BY MatchedTaker
  <2>2. taker' = Reduced(taker, a) /\ taker'.id = taker.id /\ ByQuote(taker)' = ByQuote(taker)
    BY <1>2, MatchedTaker DEF ByQuote
  <2>3. ~ledger'[taker.id].cancelled /\ ledger'[taker.id].order = ledger[taker.id].order
    BY <1>1, <1>8, <2>1 DEF Shape, TakerRecord
  <2>4. CASE ByQuote(taker)
    <3>1. PICK q : q = taker'.remaining_quote_amount
      OBVIOUS
    <3>2. taker' = [taker EXCEPT !.remaining_quote_amount = q]
      BY <2>1, <2>2, <2>4, <3>1 DEF Reduced, Order
    <3>3. PICK r \in Order : r = ledger[taker.id].order
      BY <1>7, <2>1 DEF RecordType
    <3>4. taker = [r EXCEPT !.remaining_quote_amount = taker.remaining_quote_amount]
      BY <1>1, <2>4, <3>3 DEF Shape, TakerRecord
    <3>5. taker' = [r EXCEPT !.remaining_quote_amount = q]
      BY <3>2, <3>3, <3>4 DEF Order
    <3>. QED
      BY <2>2, <2>3, <2>4, <3>1, <3>3, <3>5 DEF TakerRecord
  <2>5. CASE ~ByQuote(taker)
    <3>1. taker = Left(ledger[taker.id])
      BY <1>1, <2>5 DEF Shape, TakerRecord
    <3>2. taker' = Rest(taker, a)
      BY <2>2, <2>5 DEF Reduced, Rest
    <3>3. taker' = Left(ledger'[taker.id])
      BY <1>9, <3>1, <3>2
    <3>. QED
      BY <2>2, <2>3, <2>5, <3>3 DEF TakerRecord, Left
  <2>. QED
    BY <2>4, <2>5
<1>. QED
  BY <1>10, <1>11, <1>12, <1>13, <1>14, <1>15, <1>16 DEF Shape


(* Settlement and refund leave the book and all but the holds alone.       *)
LEMMA ExecuteShape ==
  ASSUME TypeOK, Shape, ExecuteTrade
  PROVE  Shape'
<1>1. /\ Executing /\ phase = "executing" /\ phase' = phase /\ taker' = taker
      /\ matches' = matches /\ orderbook' = orderbook /\ reserved' = reserved
  BY DEF ExecuteTrade, Executing
<1>2. SameRecords(ledger', ledger)
  <2>1. PICK b \in DOMAIN ledger, s \in DOMAIN ledger, v \in Int, a \in Int :
           b = Trade.buy_order_id /\ s = Trade.sell_order_id /\ v = TradeValue(Trade) /\ a = Trade.amount
    BY <1>1, TradeFacts
  <2>2. ledger \in Seq(RecordType)
    BY DEF TypeOK
  <2>3. PICK l : l = Release(ledger, b, v)
    OBVIOUS
  <2>4. l \in Seq(RecordType) /\ DOMAIN l = DOMAIN ledger /\ SameRecords(l, ledger)
    BY <2>2, <2>3, ReleaseType, ReleaseRecords
  <2>5. PICK k : k = Release(l, s, a)
    OBVIOUS
  <2>6. SameRecords(k, l)
    BY <2>4, <2>5, ReleaseRecords
  <2>7. SameRecords(k, ledger)
    BY <2>4, <2>6 DEF SameRecords
  <2>8. SameRecords(ledger, ledger)
    BY DEF SameRecords
  <2>9. ledger' \in {ledger, l, k}
    BY <2>1, <2>3, <2>5 DEF ExecuteTrade
  <2>. QED
    BY <2>4, <2>7, <2>8, <2>9
<1>3. Accepted' /\ Booked' /\ TakerRecord'
  BY <1>1, <1>2, KeepsRecords DEF Shape
<1>. QED
  BY <1>1, <1>3 DEF Shape, ReservedNat, UniqueIds, UniqueIn, FreshTaker, LevelFits, TakerTrades

LEMMA FinishOrderShape ==
  ASSUME TypeOK, Shape, FinishOrder
  PROVE  Shape'
<1>1. /\ phase = "executing" /\ phase' = "idle" /\ orderbook' = orderbook /\ reserved' = reserved
  BY DEF FinishOrder
<1>2. SameRecords(ledger', ledger)
  <2>1. PICK i \in DOMAIN ledger, a \in Int : i = taker.id /\ a = Refund
    <3>1. taker \in Order /\ taker.id \in DOMAIN ledger
      BY <1>1 DEF TypeOK, TakerOrder, OrderId
    <3>. QED
      BY <3>1, OrderFacts DEF Refund, TypeOK
  <2>2. SameRecords(Release(ledger, i, a), ledger) /\ SameRecords(ledger, ledger)
    BY ReleaseRecords DEF TypeOK, SameRecords
  <2>3. ledger' \in {ledger, Release(ledger, i, a)}
    BY <2>1 DEF FinishOrder
  <2>. QED
    BY <2>2, <2>3
<1>3. Accepted' /\ Booked' /\ TakerRecord'
  BY <1>1, <1>2, KeepsRecords DEF Shape
<1>. QED
  BY <1>1, <1>3 DEF Shape, ReservedNat, UniqueIds, UniqueIn, FreshTaker, LevelFits, TakerTrades

(* A cancellation removes one order and marks its record.                  *)
LEMMA CancelledOrder ==
  ASSUME TypeOK, Shape, NEW side \in Side, NEW p \in Price, NEW i \in DOMAIN orderbook[side][p],
         NEW u \in User, CancelOrder(side, p, i, u)
  PROVE  LET o == orderbook[side][p][i]
         IN  /\ o \in Resting(orderbook) /\ o.id \in DOMAIN ledger /\ o.user_id = u
             /\ Resting(orderbook') = Resting(orderbook) \ {o} /\ UniqueIn(orderbook')
             /\ \A r \in Resting(orderbook') : r.id # o.id
             /\ \/ /\ CanUnlock(balances, LockAccount(o), Obligation(o))
                   /\ balances' = UnlockBalance(balances, LockAccount(o), Obligation(o))
                   /\ DOMAIN ledger' = DOMAIN ledger
                   /\ \A j \in DOMAIN ledger :
                        /\ ledger'[j].order = ledger[j].order
                        /\ ledger'[j].filled = ledger[j].filled
                        /\ ledger'[j].improved = ledger[j].improved
                        /\ j # o.id => ledger'[j].cancelled = ledger[j].cancelled
                        /\ j = o.id => ledger'[j].cancelled
                        /\ ledger'[j].hold = IF j = o.id THEN ledger[j].hold - Obligation(o)
                                                         ELSE ledger[j].hold
                \/ /\ ~CanUnlock(balances, LockAccount(o), Obligation(o))
                   /\ balances' = balances /\ ledger' = ledger
<1>1. PICK o : o = orderbook[side][p][i]
  OBVIOUS
<1>2. /\ Resting(orderbook') = Resting(orderbook) \ {o} /\ UniqueIn(orderbook')
      /\ o \in Resting(orderbook)
  BY <1>1, CancelBook DEF CancelOrder, Shape, UniqueIds
<1>3. o.id \in DOMAIN ledger
  BY <1>2, RestingFacts
<1>4. \A r \in Resting(orderbook') : r.id # o.id
  BY <1>2 DEF Shape, Booked
<1>5. o.user_id = u
  BY <1>1 DEF CancelOrder
<1>6. PICK n \in Nat : n = Obligation(o)
  BY <1>2, RestingFacts
<1>7. ASSUME CanUnlock(balances, LockAccount(o), n)
      PROVE  /\ balances' = UnlockBalance(balances, LockAccount(o), n)
             /\ DOMAIN ledger' = DOMAIN ledger
             /\ \A j \in DOMAIN ledger :
                  /\ ledger'[j].order = ledger[j].order
                  /\ ledger'[j].filled = ledger[j].filled
                  /\ ledger'[j].improved = ledger[j].improved
                  /\ j # o.id => ledger'[j].cancelled = ledger[j].cancelled
                  /\ j = o.id => ledger'[j].cancelled
                  /\ ledger'[j].hold = IF j = o.id THEN ledger[j].hold - n ELSE ledger[j].hold
  <2>1. PICK l : l = Release(ledger, o.id, n)
    OBVIOUS
  <2>2. /\ l \in Seq(RecordType) /\ DOMAIN l = DOMAIN ledger /\ SameRecords(l, ledger)
        /\ \A j \in DOMAIN ledger :
             l[j].hold = IF j = o.id THEN ledger[j].hold - n ELSE ledger[j].hold
    <3>1. ledger \in Seq(RecordType) /\ n \in Int
      BY DEF TypeOK
    <3>. QED
      BY <1>3, <2>1, <3>1, ReleaseType, ReleaseRecords
  <2>3. /\ ledger' = [l EXCEPT ![o.id].cancelled = TRUE]
        /\ balances' = UnlockBalance(balances, LockAccount(o), n)
    BY <1>1, <1>6, <1>7, <2>1 DEF CancelOrder
  <2>4. \A j \in DOMAIN l : l[j] \in RecordType
    BY <2>2, LenProperties, ElementOfSeq
  <2>5. /\ DOMAIN ledger' = DOMAIN l
        /\ \A j \in DOMAIN l :
             ledger'[j] = IF j = o.id THEN [l[j] EXCEPT !.cancelled = TRUE] ELSE l[j]
    BY <2>3
  <2>6. \A j \in DOMAIN l : /\ ledger'[j].order = l[j].order
                            /\ ledger'[j].filled = l[j].filled
                            /\ ledger'[j].improved = l[j].improved
                            /\ ledger'[j].hold = l[j].hold
                            /\ j # o.id => ledger'[j].cancelled = l[j].cancelled
                            /\ j = o.id => ledger'[j].cancelled
    <3>1. ASSUME NEW r \in RecordType
          PROVE  LET marked == [r EXCEPT !.cancelled = TRUE]
                 IN  /\ marked.order = r.order /\ marked.filled = r.filled
                     /\ marked.improved = r.improved /\ marked.hold = r.hold
                     /\ marked.cancelled
      BY DEF RecordType
    <3>2. TAKE j \in DOMAIN l
    <3>3. CASE j = o.id
      <4>1. PICK r \in RecordType : r = l[j]
        BY <2>4
      <4>2. ledger'[j] = [r EXCEPT !.cancelled = TRUE]
        BY <2>5, <3>3, <4>1
      <4>. QED
        BY <3>1, <3>3, <4>1, <4>2
    <3>4. CASE j # o.id
      BY <2>5, <3>4
    <3>. QED
      BY <3>3, <3>4
  <2>7. DOMAIN ledger' = DOMAIN ledger
    BY <2>2, <2>5
  <2>8. ASSUME NEW j \in DOMAIN ledger
        PROVE  /\ ledger'[j].order = ledger[j].order
               /\ ledger'[j].filled = ledger[j].filled
               /\ ledger'[j].improved = ledger[j].improved
               /\ j # o.id => ledger'[j].cancelled = ledger[j].cancelled
               /\ j = o.id => ledger'[j].cancelled
               /\ ledger'[j].hold = IF j = o.id THEN ledger[j].hold - n ELSE ledger[j].hold
    <3>1. /\ l[j].order = ledger[j].order /\ l[j].filled = ledger[j].filled
          /\ l[j].improved = ledger[j].improved /\ l[j].cancelled = ledger[j].cancelled
          /\ l[j].hold = IF j = o.id THEN ledger[j].hold - n ELSE ledger[j].hold
      BY <2>2 DEF SameRecords
    <3>. QED
      BY <2>2, <2>6, <3>1
  <2>. QED
    BY <2>3, <2>7, <2>8
<1>8. ~CanUnlock(balances, LockAccount(o), n) => balances' = balances /\ ledger' = ledger
  BY <1>1, <1>6 DEF CancelOrder
<1>. QED
  BY <1>1, <1>2, <1>3, <1>4, <1>5, <1>6, <1>7, <1>8

LEMMA CancelShape ==
  ASSUME TypeOK, Shape, NEW side \in Side, NEW p \in Price, NEW i \in DOMAIN orderbook[side][p],
         NEW u \in User, CancelOrder(side, p, i, u)
  PROVE  Shape'
<1>1. PICK o : o = orderbook[side][p][i]
  OBVIOUS
<1>2. phase = "idle" /\ phase' = "idle" /\ reserved' = reserved
  BY DEF CancelOrder
<1>3. /\ o.id \in DOMAIN ledger
      /\ Resting(orderbook') = Resting(orderbook) \ {o} /\ UniqueIn(orderbook')
      /\ \A r \in Resting(orderbook') : r.id # o.id
      /\ DOMAIN ledger' = DOMAIN ledger
      /\ \A j \in DOMAIN ledger :
           /\ ledger'[j].order = ledger[j].order
           /\ ledger'[j].filled = ledger[j].filled
           /\ j # o.id => ledger'[j].cancelled = ledger[j].cancelled
  BY <1>1, CancelledOrder
<1>4. Accepted'
  BY <1>3 DEF Shape, Accepted
<1>5. Booked'
  <2>1. ASSUME NEW r \in Resting(orderbook')
        PROVE  r = Left(ledger'[r.id]) /\ ~ledger'[r.id].cancelled
    <3>1. r.id \in DOMAIN ledger /\ r = Left(ledger[r.id]) /\ ~ledger[r.id].cancelled
      BY <1>3, RestingFacts DEF Shape, Booked
    <3>. QED
      BY <1>3, <3>1 DEF Left
  <2>. QED
    BY <2>1 DEF Booked, Left
<1>. QED
  BY <1>2, <1>3, <1>4, <1>5 DEF Shape, ReservedNat, UniqueIds, FreshTaker, LevelFits, TakerTrades,
     TakerRecord

(* The commands about balances touch no order.                             *)
LEMMA CommandShape ==
  ASSUME TypeOK, Shape, Funding \/ LockingCommand
  PROVE  Shape'
<1>1. /\ phase = "idle" /\ phase' = "idle" /\ orderbook' = orderbook /\ ledger' = ledger
      /\ overdrawn' = overdrawn
  BY DEF Funding, LockingCommand, UpdateBalance, LockCommand, UnlockCommand, historyVars
<1>2. ReservedNat'
  <2>1. CASE Funding
    BY <2>1 DEF Funding, UpdateBalance, historyVars, Shape, ReservedNat
  <2>2. ASSUME NEW acc \in Account, NEW a \in ApiAmount, LockCommand(acc, a) \/ UnlockCommand(acc, a)
        PROVE  ReservedNat'
    <3>1. a \in Nat /\ reserved \in [Account -> Nat]
      BY ConstantsAssumption DEF Shape, ReservedNat
    <3>2. CASE LockCommand(acc, a)
      BY <3>1, <3>2 DEF LockCommand, ReservedNat
    <3>3. CASE UnlockCommand(acc, a)
      <4>1. reserved[acc] - a \in Nat
        BY <3>1, <3>3 DEF UnlockCommand
      <4>. QED
        BY <3>1, <3>3, <4>1 DEF UnlockCommand, ReservedNat
    <3>. QED
      BY <2>2, <3>2, <3>3
  <2>. QED
    BY <2>1, <2>2 DEF LockingCommand
<1>3. Accepted' /\ Booked' /\ TakerRecord'
  BY <1>1, KeepsRecords DEF Shape, SameRecords
<1>. QED
  BY <1>1, <1>2, <1>3 DEF Shape, UniqueIds, UniqueIn, FreshTaker, LevelFits, TakerTrades

LEMMA NextShape == TypeOK /\ Shape /\ [Next]_vars => Shape'
<1> SUFFICES ASSUME TypeOK, Shape, [Next]_vars PROVE Shape'
  OBVIOUS
<1>1. ASSUME UNCHANGED vars PROVE Shape'
  <2>1. UNCHANGED <<orderbook, phase, taker, level, matches, reserved, ledger>>
    BY <1>1 DEF vars, loopVars, historyVars
  <2>2. Accepted' /\ Booked' /\ TakerRecord'
    BY <2>1, KeepsRecords DEF Shape, SameRecords
  <2>. QED
    BY <2>1, <2>2 DEF Shape, ReservedNat, UniqueIds, UniqueIn, FreshTaker, LevelFits, TakerTrades,
       MakerSide, Better, Crosses, Levels
<1>2. ASSUME NEW o \in Requests, SubmitOrder(o) \/ RejectOrder(o) PROVE Shape'
  BY <1>1, <1>2, SubmitShape DEF RejectOrder
<1>3. CASE SubmissionStep
  BY <1>3, LoopShape, FinishMatchingShape, PopShape, MatchShape, ExecuteShape, FinishOrderShape
     DEF SubmissionStep
<1>. QED
  BY <1>1, <1>2, <1>3, CancelShape, CommandShape DEF Next


-----------------------------------------------------------------------------
(* Locked funds.                                                           *)

(* The taker gets back what it did not use: a market order always, a limit *)
(* order when nothing of it is left.                                       *)
Refundable == taker.order_side = "market" \/ FullyFilled(taker)

(* What the taker still wants to trade, at its own price.                  *)
Remainder == IF ByQuote(taker) THEN taker.remaining_quote_amount ELSE Obligation(taker)

(* What the taker used, owes and still wants fits into what it locked,     *)
(* unless a market buy overdrew its budget, which is then on record.       *)
Budget ==
  phase # "idle" =>
    /\ used + Unsettled(matches, settled, LockAccount(taker)) + Remainder <= LockAmount(taker)
    /\ ByQuote(taker) /\ taker.remaining_quote_amount < 0 => taker.user_id \in overdrawn
    /\ phase # "executing" => used = 0

(* The locked part of an account: it covers the resting orders, the locks  *)
(* taken by command, and the unsettled matches; while the taker may still  *)
(* be refunded, the unused part of its lock instead of its own matches.    *)
Covers(acc) ==
  IF phase # "idle" /\ acc = LockAccount(taker) /\ (phase = "executing" => Refundable)
  THEN balances[acc].locked
         >= OwedBy(Resting(orderbook), acc) + reserved[acc] + LockAmount(taker) - used
  ELSE balances[acc].locked
         >= OwedBy(Resting(orderbook), acc) + Unsettled(matches, settled, acc) + reserved[acc]

Excused(acc) == acc[1] \in overdrawn /\ acc[2] = "quote"
Covered == \A acc \in Account : Excused(acc) \/ Covers(acc)

Funds == Budget /\ Covered

(* Only orders on record rest: they are finitely many.                     *)
LEMMA RestingFinite ==
  ASSUME TypeOK, Shape
  PROVE  Owers(Resting(orderbook))
<1>1. PICK n \in Nat : DOMAIN ledger = 1 .. n
  BY LenProperties DEF TypeOK
<1>2. IsFiniteSet(1 .. n)
  BY FS_Interval
<1>3. PICK T : T = {Left(ledger[i]) : i \in 1 .. n}
  OBVIOUS
<1>4. PICK f : f = [i \in 1 .. n |-> Left(ledger[i])]
  OBVIOUS
<1>5. f \in Surjection(1 .. n, T)
  BY <1>3, <1>4 DEF Surjection
<1>6. IsFiniteSet(T)
  BY <1>2, <1>5, FS_Surjection
<1>7. Resting(orderbook) \subseteq T
  <2>1. ASSUME NEW o \in Resting(orderbook) PROVE o \in T
    <3>1. o.id \in 1 .. n /\ o = Left(ledger[o.id])
      BY <1>1, RestingFacts DEF Shape, Booked
    <3>. QED
      BY <1>3, <3>1
  <2>. QED
    BY <2>1
<1>8. IsFiniteSet(Resting(orderbook))
  BY <1>6, <1>7, FS_Subset
<1>. QED
  BY <1>8, RestingFacts DEF Owers

LEMMA MatchesTyped ==
  ASSUME TypeOK
  PROVE  matches \in Seq(MatchType)
<1>1. OrderId \subseteq Nat
  BY LenProperties DEF OrderId, TypeOK
<1>2. MatchResultType \subseteq MatchType
  BY <1>1, PriceAssumption DEF MatchResultType, MatchType
<1>. QED
  BY <1>2, SeqMonotonic DEF TypeOK

LEMMA Amounts ==
  ASSUME TypeOK, Shape, NEW acc \in Account
  PROVE  /\ OwedBy(Resting(orderbook), acc) \in Nat
         /\ Unsettled(matches, settled, acc) \in Nat
         /\ balances[acc].locked \in Int /\ reserved[acc] \in Nat /\ used \in Int
<1>1. OwedBy(Resting(orderbook), acc) \in Nat
  BY RestingFinite, OwedIsTotal
<1>2. Unsettled(matches, settled, acc) \in Nat
  BY MatchesTyped, DuesAreSum DEF TypeOK
<1>3. balances[acc].locked \in Int /\ used \in Int
  BY DEF TypeOK, BalanceCacheType, Balance
<1>4. reserved[acc] \in Nat
  BY DEF Shape, ReservedNat
<1>. QED
  BY <1>1, <1>2, <1>3, <1>4

LEMMA TakerAmounts ==
  ASSUME TypeOK, phase # "idle"
  PROVE  /\ taker \in Order /\ LockAccount(taker) \in Account
         /\ LockAmount(taker) \in Int /\ Remainder \in Int
         /\ ~ByQuote(taker) => Remainder \in Nat
         /\ ByQuote(taker) => LockAccount(taker) = QuoteAccount(taker.user_id)
<1>1. taker \in TakerOrder /\ taker \in Order
  BY DEF TypeOK, TakerOrder
<1>2. LockAccount(taker) \in Account /\ LockAmount(taker) \in Int /\ Obligation(taker) \in Int
  BY <1>1, OrderFacts
<1>3. taker.remaining_quote_amount \in Int /\ taker.remaining_amount \in Int
  BY <1>1 DEF Order
<1>4. ASSUME ~ByQuote(taker) PROVE Obligation(taker) \in Nat
  <2>1. taker.remaining_amount \in Nat
    BY <1>1, <1>3, <1>4 DEF TakerOrder
  <2>2. taker.price \in Nat
    <3>1. taker.price \in Price \cup {NoPrice}
      BY <1>1 DEF Order
    <3>2. \A x \in Price : x \in Nat
      BY PriceAssumption
    <3>. QED
      BY <3>1, <3>2 DEF NoPrice
  <2>. QED
    BY <2>1, <2>2, ProductNat DEF Obligation
<1>5. ByQuote(taker) => LockAccount(taker) = QuoteAccount(taker.user_id)
  BY DEF ByQuote, LockAccount, LockMint, QuoteAccount
<1>. QED
  BY <1>1, <1>2, <1>3, <1>4, <1>5 DEF Remainder

(* What the invariant is for: the locked part covers what an account owes. *)
LEMMA FundsSuffice ==
  ASSUME TypeOK, Shape, Funds, NEW acc \in Account, ~Excused(acc)
  PROVE  balances[acc].locked
           >= OwedBy(Resting(orderbook), acc) + Unsettled(matches, settled, acc) + reserved[acc]
<1>1. Covers(acc)
  BY DEF Funds, Covered
<1>2. CASE ~(phase # "idle" /\ acc = LockAccount(taker) /\ (phase = "executing" => Refundable))
  BY <1>1, <1>2 DEF Covers
<1>3. CASE phase # "idle" /\ acc = LockAccount(taker) /\ (phase = "executing" => Refundable)
  <2>1. PICK l \in Int, r \in Nat, u \in Nat, v \in Nat, k \in Int :
          /\ l = balances[acc].locked /\ r = OwedBy(Resting(orderbook), acc)
          /\ u = Unsettled(matches, settled, acc) /\ v = reserved[acc] /\ k = used
    BY Amounts
  <2>2. PICK a \in Int, m \in Int : a = LockAmount(taker) /\ m = Remainder
    <3>1. LockAmount(taker) \in Int /\ Remainder \in Int
      BY <1>3, TakerAmounts
    <3>. QED
      BY <3>1
  <2>3. l >= r + v + a - k
    BY <1>1, <1>3, <2>1, <2>2 DEF Covers
  <2>4. k + u + m <= a
    BY <1>3, <2>1, <2>2 DEF Funds, Budget
  <2>5. m >= 0
    <3>1. CASE ByQuote(taker)
      <4>1. taker.user_id \notin overdrawn
        BY <1>3, <3>1, TakerAmounts DEF Excused, QuoteAccount
      <4>2. ~(taker.remaining_quote_amount < 0)
        BY <1>3, <3>1, <4>1 DEF Funds, Budget
      <4>. QED
        BY <2>2, <3>1, <4>2 DEF Remainder
    <3>2. CASE ~ByQuote(taker)
      BY <1>3, <2>2, <3>2, TakerAmounts
    <3>. QED
      BY <3>1, <3>2
  <2>6. l >= r + u + v
    BY <2>3, <2>4, <2>5
  <2>. QED
    BY <2>1, <2>6
<1>. QED
  BY <1>2, <1>3


(* What the operations of the cache do to a locked part.                   *)
LEMMA LockedAfter ==
  ASSUME NEW cache \in BalanceCacheType, NEW acc \in Account, NEW amount \in Int,
         NEW other \in Account
  PROVE  /\ LockBalance(cache, acc, amount)[other].locked
              = IF other = acc THEN cache[other].locked + amount ELSE cache[other].locked
         /\ UnlockBalance(cache, acc, amount)[other].locked
              = IF other = acc THEN cache[other].locked - amount ELSE cache[other].locked
         /\ AddAvailable(cache, acc, amount)[other].locked = cache[other].locked
BY DEF BalanceCacheType, Balance, LockBalance, UnlockBalance, AddAvailable

LEMMA LockedAfterTransfer ==
  ASSUME NEW cache \in BalanceCacheType, NEW from \in Account, NEW amount \in Int,
         NEW to \in Account, NEW other \in Account
  PROVE  Transfer(cache, from, to, amount)[other].locked
           = IF other = from THEN cache[other].locked - amount ELSE cache[other].locked
BY DEF BalanceCacheType, Balance, Transfer

LEMMA InitFunds == Init => Funds
<1> SUFFICES ASSUME Init PROVE Funds
  OBVIOUS
<1>1. Resting(orderbook) = {} /\ phase = "idle"
  BY NothingRests DEF Init
<1>2. ASSUME NEW acc \in Account PROVE Covers(acc)
  <2>1. Owers({})
    BY FS_EmptySet DEF Owers
  <2>2. OwedBy({}, acc) = 0
    <3>1. OwedBy({}, acc) = Total(Owing({}), {o \in {} : LockAccount(o) = acc})
      BY <2>1, OwedIsTotal
    <3>2. {o \in {} : LockAccount(o) = acc} = {}
      OBVIOUS
    <3>. QED
      BY <3>1, <3>2, TotalEmpty
  <2>3. Unsettled(matches, settled, acc) = 0
    <3>1. << >> \in Seq(MatchType) /\ Len(<< >>) = 0
      BY EmptySeq
    <3>2. Unsettled(<< >>, 0, acc) = 0
      BY <3>1, UnsettledNone
    <3>. QED
      BY <3>2 DEF Init
  <2>4. balances[acc].locked = 0 /\ reserved[acc] = 0
    BY ConstantsAssumption DEF Init
  <2>. QED
    BY <1>1, <2>2, <2>3, <2>4 DEF Covers
<1>. QED
  BY <1>1, <1>2 DEF Funds, Budget, Covered

(* Submission locks what the new order may come to owe.                    *)
LEMMA SubmitFunds ==
  ASSUME TypeOK, Shape, Funds, NEW o \in Requests, SubmitOrder(o)
  PROVE  Funds'
<1>1. /\ phase = "idle" /\ phase' = "matching" /\ taker' = o /\ matches' = << >> /\ settled' = 0
      /\ used' = 0 /\ orderbook' = orderbook /\ reserved' = reserved /\ overdrawn' = overdrawn
      /\ balances' = LockBalance(balances, LockAccount(o), LockAmount(o))
  BY DEF SubmitOrder
<1>2. PICK h \in Nat : h = LockAmount(o)
  BY RequestFacts
<1>3. o \in Order /\ LockAccount(o) \in Account
  BY RequestFacts, OrderFacts
<1>4. \A acc : Unsettled(<< >>, 0, acc) = 0
  <2>1. << >> \in Seq(MatchType) /\ Len(<< >>) = 0
    BY EmptySeq
  <2>. QED
    BY <2>1, UnsettledNone
<1>5. Budget'
  <2>1. (IF ByQuote(o) THEN o.remaining_quote_amount ELSE Obligation(o)) = LockAmount(o)
    <3>1. CASE ByQuote(o)
      <4>1. o.quote_amount = o.remaining_quote_amount
        BY DEF Requests, Incoming
      <4>. QED
        BY <3>1, <4>1 DEF LockAmount, ByQuote
    <3>2. CASE ~ByQuote(o)
      <4>1. o.amount = o.remaining_amount
        BY DEF Requests, Incoming
      <4>2. o.order_type \in {"buy", "sell"}
        BY <1>3 DEF Order, Side
      <4>. QED
        BY <3>2, <4>1, <4>2 DEF LockAmount, Obligation
    <3>. QED
      BY <3>1, <3>2
  <2>2. ByQuote(o) => o.remaining_quote_amount \in Nat
    BY <1>2, <2>1
  <2>3. Remainder' = h
    BY <1>1, <1>2, <2>1 DEF Remainder
  <2>4. Unsettled(matches', settled', LockAccount(taker')) = 0
    BY <1>1, <1>4
  <2>. QED
    BY <1>1, <1>2, <2>2, <2>3, <2>4 DEF Budget
<1>6. ASSUME NEW acc \in Account, ~Excused(acc)'
      PROVE  Covers(acc)'
  <2>1. ~Excused(acc)
    BY <1>1, <1>6 DEF Excused
  <2>2. PICK l \in Int, r \in Nat, u \in Nat, v \in Nat :
          /\ l = balances[acc].locked /\ r = OwedBy(Resting(orderbook), acc)
          /\ u = Unsettled(matches, settled, acc) /\ v = reserved[acc]
    BY Amounts
  <2>3. l >= r + u + v
    BY <2>1, <2>2, FundsSuffice
  <2>4. balances'[acc].locked = IF acc = LockAccount(o) THEN l + h ELSE l
    <3>1. balances \in BalanceCacheType /\ h \in Int
      BY DEF TypeOK
    <3>2. PICK c \in Account : c = LockAccount(o) /\ balances' = LockBalance(balances, c, h)
      BY <1>1, <1>2, <1>3
    <3>. QED
      BY <2>2, <3>1, <3>2, LockedAfter
  <2>5. Unsettled(matches', settled', acc) = 0
    BY <1>1, <1>4
  <2>6. CASE acc = LockAccount(o)
    <3>1. l + h >= r + v + h - 0
      BY <2>3
    <3>2. balances'[acc].locked = l + h /\ LockAmount(taker') = h /\ LockAccount(taker') = acc
      BY <1>1, <1>2, <2>4, <2>6
    <3>3. OwedBy(Resting(orderbook'), acc) = r /\ reserved'[acc] = v
      BY <1>1, <2>2
    <3>. QED
      BY <1>1, <3>1, <3>2, <3>3 DEF Covers
  <2>7. CASE acc # LockAccount(o)
    <3>1. l >= r + 0 + v
      BY <2>3
    <3>2. balances'[acc].locked = l /\ LockAccount(taker') # acc
      BY <1>1, <2>4, <2>7
    <3>3. OwedBy(Resting(orderbook'), acc) = r /\ reserved'[acc] = v
      BY <1>1, <2>2
    <3>. QED
      BY <2>5, <3>1, <3>2, <3>3 DEF Covers
  <2>. QED
    BY <2>6, <2>7
<1>. QED
  BY <1>5, <1>6 DEF Funds, Covered

(* Inside the matching loops the book owes less and less.                  *)
LEMMA LessOwed ==
  ASSUME TypeOK, Shape, Funds,
         UNCHANGED <<balances, taker, matches, settled, used, reserved, overdrawn>>,
         phase \in {"matching", "level"}, phase' \in {"matching", "level"},
         \A acc \in Account : /\ OwedBy(Resting(orderbook'), acc) \in Nat
                              /\ OwedBy(Resting(orderbook'), acc) <= OwedBy(Resting(orderbook), acc)
  PROVE  Funds'
<1>1. Budget'
  BY DEF Funds, Budget, Remainder
<1>2. ASSUME NEW acc \in Account, Covers(acc)
      PROVE  Covers(acc)'
  <2>1. PICK l \in Int, r \in Nat, u \in Nat, v \in Nat, k \in Int :
          /\ l = balances[acc].locked /\ r = OwedBy(Resting(orderbook), acc)
          /\ u = Unsettled(matches, settled, acc) /\ v = reserved[acc] /\ k = used
    BY Amounts
  <2>2. PICK s \in Nat : s = OwedBy(Resting(orderbook'), acc) /\ s <= r
    BY <2>1
  <2>3. PICK a \in Int : a = LockAmount(taker)
    BY TakerAmounts
  <2>4. CASE acc = LockAccount(taker)
    <3>1. l >= r + v + a - k
      BY <1>2, <2>1, <2>3, <2>4 DEF Covers
    <3>2. l >= s + v + a - k
      BY <2>2, <3>1
    <3>. QED
      BY <2>1, <2>2, <2>3, <2>4, <3>2 DEF Covers
  <2>5. CASE acc # LockAccount(taker)
    <3>1. l >= r + u + v
      BY <1>2, <2>1, <2>5 DEF Covers
    <3>2. l >= s + u + v
      BY <2>2, <3>1
    <3>. QED
      BY <2>1, <2>2, <2>5, <3>2 DEF Covers
  <2>. QED
    BY <2>4, <2>5
<1>. QED
  BY <1>1, <1>2 DEF Funds, Covered, Excused

LEMMA LoopFunds ==
  ASSUME TypeOK, Shape, Funds, (\E p \in Price : EnterLevel(p)) \/ LeaveLevel
  PROVE  Funds'
<1>1. /\ UNCHANGED <<balances, taker, matches, settled, used, reserved, overdrawn>>
      /\ phase \in {"matching", "level"} /\ phase' \in {"matching", "level"}
      /\ orderbook' = orderbook
  BY DEF EnterLevel, LeaveLevel, historyVars
<1>2. \A acc \in Account : /\ OwedBy(Resting(orderbook'), acc) \in Nat
                           /\ OwedBy(Resting(orderbook'), acc) <= OwedBy(Resting(orderbook), acc)
  BY <1>1, Amounts
<1>. QED
  BY <1>1, <1>2, LessOwed

LEMMA PopFunds ==
  ASSUME TypeOK, Shape, Funds, GiveUpLevel \/ DropUnmatchable \/ SkipOwnOrder
  PROVE  Funds'
<1>1. /\ UNCHANGED <<balances, taker, matches, settled, used, reserved, overdrawn>>
      /\ InLevel /\ phase \in {"matching", "level"} /\ phase' \in {"matching", "level"}
  BY DEF GiveUpLevel, DropUnmatchable, SkipOwnOrder, historyVars, InLevel
<1>2. PICK S : S = Resting(orderbook)
  OBVIOUS
<1>3. PICK m : m = Maker
  OBVIOUS
<1>4. Resting(orderbook') = S \/ (m \in S /\ Resting(orderbook') = S \ {m})
  <2>1. CASE GiveUpLevel \/ DropUnmatchable
    BY <1>1, <1>2, <1>3, <2>1, PopBook DEF GiveUpLevel, DropUnmatchable, Shape, UniqueIds
  <2>2. CASE SkipOwnOrder
    BY <1>1, <1>2, <2>2, SkipBook DEF SkipOwnOrder, Shape, UniqueIds
  <2>. QED
    BY <2>1, <2>2
<1>5. Owers(S)
  BY <1>2, RestingFinite
<1>6. ASSUME NEW acc \in Account
      PROVE  /\ OwedBy(Resting(orderbook'), acc) \in Nat
             /\ OwedBy(Resting(orderbook'), acc) <= OwedBy(Resting(orderbook), acc)
  <2>1. CASE Resting(orderbook') = S
    BY <1>2, <2>1, Amounts
  <2>2. CASE m \in S /\ Resting(orderbook') = S \ {m}
    <3>1. /\ OwedBy(S, acc) = OwedBy(S \ {m}, acc) + Share(m, acc)
          /\ OwedBy(S \ {m}, acc) \in Nat /\ Share(m, acc) \in Nat
      BY <1>5, <2>2, OwedWithout
    <3>2. OwedBy(S \ {m}, acc) <= OwedBy(S, acc)
      BY <3>1
    <3>. QED
      BY <1>2, <2>2, <3>1, <3>2
  <2>. QED
    BY <1>4, <2>1, <2>2
<1>. QED
  BY <1>1, <1>6, LessOwed


(* What rests of a limit order is owed from now on as a resting order.     *)
LEMMA FinishMatchingFunds ==
  ASSUME TypeOK, Shape, Funds, FinishMatching
  PROVE  Funds'
<1>1. /\ UNCHANGED <<balances, taker, matches, settled, used, reserved, overdrawn>>
      /\ phase = "matching" /\ phase' = "executing"
  BY DEF FinishMatching, historyVars
<1>2. Budget'
  BY <1>1 DEF Funds, Budget, Remainder
<1>3. taker \in Order /\ taker.id \in DOMAIN ledger /\ LockAccount(taker) \in Account
  BY <1>1, TakerAmounts DEF TypeOK, TakerOrder, OrderId
<1>4. ASSUME NEW acc \in Account, ~Excused(acc)
      PROVE  Covers(acc)'
  <2>1. PICK l \in Int, r \in Nat, u \in Nat, v \in Nat, k \in Int :
          /\ l = balances[acc].locked /\ r = OwedBy(Resting(orderbook), acc)
          /\ u = Unsettled(matches, settled, acc) /\ v = reserved[acc] /\ k = used
    BY Amounts
  <2>2. Covers(acc)
    BY <1>4 DEF Funds, Covered
  <2>3. CASE Refundable
    <3>1. orderbook' = orderbook
      BY <2>3 DEF FinishMatching, Refundable
    <3>2. Refundable'
      BY <1>1, <2>3 DEF Refundable
    <3>. QED
      BY <1>1, <2>2, <3>1, <3>2 DEF Covers
  <2>4. CASE ~Refundable
    <3>1. taker.order_side = "limit" /\ ~FullyFilled(taker) /\ ~ByQuote(taker)
      BY <1>3, <2>4 DEF Refundable, Order, ByQuote
    <3>2. orderbook' = AddOrder(orderbook, taker)
      BY <3>1 DEF FinishMatching
    <3>3. taker.price \in Price
      BY <1>1, <3>1 DEF TypeOK, TakerOrder
    <3>4. Resting(orderbook') = Resting(orderbook) \cup {taker}
      BY <1>1, <1>3, <3>2, <3>3, RestBook DEF Shape, UniqueIds, FreshTaker
    <3>5. PICK h \in Nat : h = Obligation(taker) /\ h = Remainder
      BY <1>1, <3>1, TakerAmounts DEF Remainder
    <3>6. PICK S : S = Resting(orderbook) /\ Owers(S)
      BY RestingFinite
    <3>7. PICK s \in Nat : s = OwedBy(Resting(orderbook'), acc) /\ s <= r + Share(taker, acc)
      BY <2>1, <3>4, <3>5, <3>6, OwedWith
    <3>8. ~Refundable'
      BY <1>1, <2>4 DEF Refundable
    <3>9. l >= s + u + v
      <4>1. CASE acc = LockAccount(taker)
        <5>1. PICK a \in Int : a = LockAmount(taker)
          BY <1>1, TakerAmounts
        <5>2. l >= r + v + a - k
          BY <1>1, <2>1, <2>2, <4>1, <5>1 DEF Covers
        <5>3. k + u + h <= a
          BY <1>1, <2>1, <3>5, <4>1, <5>1 DEF Funds, Budget
        <5>4. s <= r + h
          BY <3>5, <3>7, <4>1 DEF Share
        <5>. QED
          BY <5>2, <5>3, <5>4
      <4>2. CASE acc # LockAccount(taker)
        <5>1. l >= r + u + v
          BY <2>1, <2>2, <4>2 DEF Covers
        <5>2. s <= r + 0
          BY <3>7, <4>2 DEF Share
        <5>. QED
          BY <5>1, <5>2
      <4>. QED
        BY <4>1, <4>2
    <3>. QED
      BY <1>1, <2>1, <3>7, <3>8, <3>9 DEF Covers
  <2>. QED
    BY <2>3, <2>4
<1>. QED
  BY <1>1, <1>2, <1>4 DEF Funds, Covered, Excused

(* What a match makes due: what the maker no longer owes by resting, and   *)
(* no more than what the taker no longer wants.                            *)
LEMMA MatchDue ==
  ASSUME TypeOK, Shape, MatchHead
  PROVE  /\ MatchResult(MatchAmount) \in MatchType
         /\ \A acc : DueIn(MatchResult(MatchAmount), acc)
                       = IF acc = LockAccount(Maker)
                         THEN Obligation(Maker) - Obligation(Rest(Maker, MatchAmount))
                         ELSE IF acc = LockAccount(taker)
                         THEN IF taker.order_type = "buy" THEN level * MatchAmount ELSE MatchAmount
                         ELSE 0
         /\ LockAccount(Maker) # LockAccount(taker)
<1>1. PICK a \in Nat \ {0} : a = MatchAmount
  BY MatchedTaker
<1>2. PICK m : m = MatchResult(a)
  OBVIOUS
<1>3. /\ taker \in Order /\ taker.id \in Nat /\ level \in Nat /\ level * a \in Nat
      /\ taker.order_type \in {"buy", "sell"}
  BY <1>1, MatchedTaker, PriceAssumption, ProductNat DEF Order, Side
<1>4. /\ Maker \in Order /\ Maker.id \in Nat /\ Maker.order_type = Opposite(taker.order_type)
      /\ Maker.price = level /\ Maker.user_id # taker.user_id
      /\ Maker.remaining_amount \in Nat
  BY MatchedMaker, RestingFacts DEF Order, MakerSide
<1>5. m \in MatchType
  BY <1>1, <1>2, <1>3, <1>4 DEF MatchResult, MatchType, Order
<1>6. /\ Rest(Maker, a).remaining_amount = Maker.remaining_amount - a
      /\ Rest(Maker, a).order_type = Maker.order_type /\ Rest(Maker, a).price = Maker.price
  BY <1>4 DEF Rest, Order
<1>7. PICK n \in Nat : n = Maker.remaining_amount
  BY <1>4
<1>8. CASE taker.order_type = "buy"
  <2>1. LockAccount(Maker) = BaseAccount(Maker.user_id) /\ LockAccount(taker) = QuoteAccount(taker.user_id)
    BY <1>4, <1>8 DEF LockAccount, LockMint, Opposite, BaseAccount, QuoteAccount
  <2>2. /\ m.buyer_id = taker.user_id /\ m.seller_id = Maker.user_id
        /\ m.price = level /\ m.amount = a
    BY <1>2, <1>8 DEF MatchResult
  <2>3. Obligation(Maker) - Obligation(Rest(Maker, a)) = a
    <3>1. Obligation(Maker) = n /\ Obligation(Rest(Maker, a)) = n - a
      BY <1>4, <1>6, <1>7, <1>8 DEF Obligation, Opposite
    <3>. QED
      BY <1>1, <3>1
  <2>4. LockAccount(Maker) # LockAccount(taker)
    BY <2>1 DEF BaseAccount, QuoteAccount
  <2>5. \A acc : DueIn(m, acc) = IF acc = LockAccount(Maker) THEN a
                                 ELSE IF acc = LockAccount(taker) THEN level * a ELSE 0
    BY <2>1, <2>2, <2>4 DEF DueIn, TradeValue
  <2>. QED
    BY <1>1, <1>2, <1>5, <1>8, <2>3, <2>4, <2>5
<1>9. CASE taker.order_type = "sell"
  <2>1. LockAccount(Maker) = QuoteAccount(Maker.user_id) /\ LockAccount(taker) = BaseAccount(taker.user_id)
    BY <1>4, <1>9 DEF LockAccount, LockMint, Opposite, BaseAccount, QuoteAccount
  <2>2. /\ m.buyer_id = Maker.user_id /\ m.seller_id = taker.user_id
        /\ m.price = level /\ m.amount = a
    BY <1>2, <1>9 DEF MatchResult
  <2>3. Obligation(Maker) - Obligation(Rest(Maker, a)) = level * a
    <3>1. Obligation(Maker) = level * n /\ Obligation(Rest(Maker, a)) = level * (n - a)
      BY <1>4, <1>6, <1>7, <1>9 DEF Obligation, Opposite
    <3>2. level * n - level * (n - a) = level * a
      BY <1>1, <1>3
    <3>. QED
      BY <3>1, <3>2
  <2>4. LockAccount(Maker) # LockAccount(taker)
    BY <2>1 DEF BaseAccount, QuoteAccount
  <2>5. \A acc : DueIn(m, acc) = IF acc = LockAccount(Maker) THEN level * a
                                 ELSE IF acc = LockAccount(taker) THEN a ELSE 0
    BY <2>1, <2>2, <2>4 DEF DueIn, TradeValue
  <2>. QED
    BY <1>1, <1>2, <1>5, <1>9, <2>3, <2>4, <2>5
<1>. QED
  BY <1>3, <1>8, <1>9


(* A match costs the taker no more than it no longer wants; exactly that,  *)
(* unless it buys below its limit.                                         *)
LEMMA RemainderDrops ==
  ASSUME TypeOK, Shape, MatchHead
  PROVE  LET due == DueIn(MatchResult(MatchAmount), LockAccount(taker))
         IN  /\ due \in Nat /\ Remainder \in Int /\ Remainder' \in Int
             /\ Remainder' + due <= Remainder
             /\ (taker.order_type = "buy" => ~(level < taker.price)) => Remainder' + due = Remainder
<1>1. PICK a \in Nat \ {0} : a = MatchAmount
  BY MatchedTaker
<1>2. /\ taker \in Order /\ level \in Nat /\ level * a \in Nat /\ phase = "level"
      /\ taker.order_type \in {"buy", "sell"} /\ taker.remaining_amount \in Int
      /\ taker.remaining_quote_amount \in Int
  BY <1>1, MatchedTaker, PriceAssumption, ProductNat DEF Order, Side, MatchHead, InLevel
<1>3. PICK d : d = DueIn(MatchResult(MatchAmount), LockAccount(taker))
  OBVIOUS
<1>4. d = IF taker.order_type = "buy" THEN level * a ELSE a
  BY <1>1, <1>3, MatchDue
<1>5. d \in Nat
  BY <1>1, <1>2, <1>4
<1>6. PICK x \in Int, y \in Int : x = taker.remaining_amount /\ y = taker.remaining_quote_amount
  BY <1>2
<1>7. CASE ByQuote(taker)
  <2>1. d = level * a /\ Remainder = y
    BY <1>4, <1>6, <1>7 DEF ByQuote, Remainder
  <2>2. Remainder' = y - a * level
    BY <1>1, <1>6, <1>7, MatchedTaker DEF ByQuote, Remainder
  <2>3. PICK v \in Nat : v = level * a /\ v = a * level
    BY <1>1, <1>2
  <2>. QED
    BY <1>3, <2>1, <2>2, <2>3
<1>8. CASE ~ByQuote(taker)
  <2>1. /\ taker'.order_type = taker.order_type /\ taker'.price = taker.price
        /\ ~ByQuote(taker') /\ taker'.remaining_amount = x - a
    BY <1>1, <1>6, <1>8, MatchedTaker DEF ByQuote
  <2>2. Remainder = Obligation(taker) /\ Remainder' = Obligation(taker')
    BY <1>8, <2>1 DEF Remainder
  <2>3. CASE taker.order_type = "sell"
    <3>1. Remainder = x /\ Remainder' = x - a /\ d = a
      BY <1>4, <1>6, <2>1, <2>2, <2>3 DEF Obligation
    <3>. QED
      BY <1>1, <1>3, <3>1
  <2>4. CASE taker.order_type = "buy"
    <3>1. taker.order_side = "limit"
      BY <1>2, <1>8, <2>4 DEF ByQuote, Order
    <3>2. taker \in TakerOrder
      BY <1>2 DEF TypeOK
    <3>3. taker.price \in Price
      BY <3>1, <3>2 DEF TakerOrder
    <3>4. PICK p \in Nat : p = taker.price
      BY <3>3, PriceAssumption
    <3>5. level <= p
      BY <1>2, <2>4, <3>1, <3>4 DEF Shape, LevelFits, Crosses
    <3>6. Remainder = p * x /\ Remainder' = p * (x - a) /\ d = level * a
      BY <1>4, <1>6, <2>1, <2>2, <2>4, <3>4 DEF Obligation
    <3>7. p * x \in Int /\ p * a \in Nat /\ (p - level) * a \in Nat
      BY <1>1, <1>2, <3>4, <3>5, ProductInt, ProductNat
    <3>8. p * (x - a) = p * x - p * a /\ (p - level) * a = p * a - level * a
      BY <1>1, <1>2
    <3>9. p * (x - a) + level * a <= p * x
      BY <1>2, <3>7, <3>8
    <3>10. ~(level < p) => level = p
      BY <1>2, <3>5
    <3>11. ~(level < p) => p * (x - a) + level * a = p * x
      BY <1>2, <3>7, <3>8, <3>10
    <3>12. Remainder \in Int /\ Remainder' \in Int
      BY <3>6, <3>7, <3>8
    <3>. QED
      BY <1>3, <1>5, <2>4, <3>4, <3>6, <3>9, <3>11, <3>12
  <2>. QED
    BY <1>2, <2>3, <2>4
<1>. QED
  BY <1>7, <1>8

(* A match moves what is owed from the book to the matches.                *)
LEMMA MatchFunds ==
  ASSUME TypeOK, Shape, Funds, MatchHead
  PROVE  Funds'
<1>1. /\ UNCHANGED <<balances, settled, used, reserved>>
      /\ phase = "level" /\ phase' \in {"matching", "level"}
      /\ overdrawn \subseteq overdrawn'
      /\ matches' = Append(matches, MatchResult(MatchAmount))
  BY DEF MatchHead, InLevel
<1>2. LockAccount(taker') = LockAccount(taker) /\ LockAmount(taker') = LockAmount(taker)
  BY MatchedTaker DEF LockAccount, LockMint, LockAmount, ByQuote
<1>3. PICK m \in MatchType : m = MatchResult(MatchAmount)
  BY MatchDue
<1>4. ASSUME NEW acc
      PROVE  /\ Unsettled(matches', settled', acc) = Unsettled(matches, settled, acc) + DueIn(m, acc)
             /\ Unsettled(matches, settled, acc) \in Nat /\ DueIn(m, acc) \in Nat
  <2>1. settled \in 0 .. Len(matches) /\ matches \in Seq(MatchType)
    BY MatchesTyped DEF TypeOK
  <2>2. /\ Unsettled(Append(matches, m), settled, acc) = Unsettled(matches, settled, acc) + DueIn(m, acc)
        /\ Unsettled(matches, settled, acc) \in Nat /\ DueIn(m, acc) \in Nat
    BY <2>1, UnsettledMore
  <2>. QED
    BY <1>1, <1>3, <2>2
<1>5. Budget'
  <2>1. PICK acc \in Account, a \in Int : acc = LockAccount(taker) /\ a = LockAmount(taker)
    <3>1. LockAccount(taker) \in Account /\ LockAmount(taker) \in Int
      BY <1>1, TakerAmounts
    <3>. QED
      BY <3>1
  <2>2. PICK u \in Nat, d \in Nat, k \in Int :
          u = Unsettled(matches, settled, acc) /\ d = DueIn(m, acc) /\ k = used
    BY <1>4 DEF TypeOK
  <2>3. Unsettled(matches', settled', acc) = u + d
    BY <1>4, <2>2
  <2>4. PICK x \in Int, y \in Int : x = Remainder /\ y = Remainder' /\ y + d <= x
    BY <1>3, <2>1, <2>2, RemainderDrops
  <2>5. k + u + x <= a
    BY <1>1, <2>1, <2>2, <2>4 DEF Funds, Budget
  <2>6. k + (u + d) + y <= a
    <3>1. y + d <= x
      BY <2>4
    <3>. QED
      BY <2>5, <3>1
  <2>7. ByQuote(taker') /\ taker'.remaining_quote_amount < 0 => taker'.user_id \in overdrawn'
    BY MatchedTaker DEF MatchHead
  <2>8. used' + Unsettled(matches', settled', LockAccount(taker')) + Remainder' <= LockAmount(taker')
    BY <1>1, <1>2, <2>1, <2>2, <2>3, <2>4, <2>6
  <2>9. phase' # "executing" => used' = 0
    BY <1>1 DEF Funds, Budget
  <2>. QED
    BY <2>7, <2>8, <2>9 DEF Budget
<1>6. ASSUME NEW acc \in Account, ~Excused(acc)
      PROVE  Covers(acc)'
  <2>1. PICK l \in Int, r \in Nat, u \in Nat, v \in Nat, k \in Int, d \in Nat :
          /\ l = balances[acc].locked /\ r = OwedBy(Resting(orderbook), acc)
          /\ u = Unsettled(matches, settled, acc) /\ v = reserved[acc] /\ k = used
          /\ d = DueIn(m, acc)
    BY <1>4, Amounts
  <2>2. PICK S, x, y : S = Resting(orderbook) /\ x = Maker /\ y = Rest(Maker, MatchAmount)
    OBVIOUS
  <2>3. Owers(S) /\ x \in S
    BY <2>2, RestingFinite, MatchedMaker
  <2>4. PICK t \in Nat, h \in Nat : /\ t = OwedBy(S \ {x}, acc) /\ h = Share(x, acc)
                                    /\ r = t + h /\ Owers(S \ {x})
    BY <2>1, <2>2, <2>3, OwedWithout
  <2>5. LockAccount(y) = LockAccount(x)
    BY <2>2, <2>3, RestingFacts DEF Rest, Order, LockAccount, LockMint
  <2>6. Obligation(y) \in Nat
    <3>1. x.remaining_amount \in Nat /\ x.price \in Nat /\ MatchAmount \in Nat /\ MatchAmount <= x.remaining_amount
      BY <2>2, <2>3, RestingFacts, MatchedTaker, PriceAssumption
    <3>2. y.remaining_amount \in Nat /\ y.price = x.price
      BY <2>2, <2>3, <3>1, RestingFacts DEF Rest, Order
    <3>3. y.price * y.remaining_amount \in Nat
      BY <3>1, <3>2, ProductNat
    <3>. QED
      BY <3>2, <3>3 DEF Obligation
  <2>7. PICK s \in Nat : s = OwedBy(Resting(orderbook'), acc) /\ s <= t + Share(y, acc)
    <3>1. Resting(orderbook') = (S \ {x}) \cup (IF y.remaining_amount > 0 THEN {y} ELSE {})
      BY <2>2, MatchedMaker
    <3>2. Share(y, acc) \in Nat
      BY <2>6 DEF Share
    <3>3. CASE y.remaining_amount > 0
      <4>1. PICK T : T = S \ {x} /\ Resting(orderbook') = T \cup {y}
        BY <3>1, <3>3
      <4>2. Owers(T) /\ t = OwedBy(T, acc)
        BY <2>4, <4>1
      <4>3. OwedBy(T \cup {y}, acc) <= OwedBy(T, acc) + Share(y, acc) /\ OwedBy(T \cup {y}, acc) \in Nat
        BY <2>6, <4>2, OwedWith
      <4>. QED
        BY <4>1, <4>2, <4>3
    <3>4. CASE ~(y.remaining_amount > 0)
      <4>1. Resting(orderbook') = S \ {x}
        BY <3>1, <3>4
      <4>. QED
        BY <2>4, <3>2, <4>1
    <3>. QED
      BY <3>3, <3>4
  <2>8. Unsettled(matches', settled', acc) = u + d
    BY <1>4, <2>1
  <2>9. Covers(acc)
    BY <1>6 DEF Funds, Covered
  <2>10. CASE acc = LockAccount(taker)
    <3>1. LockAccount(x) # acc
      BY <2>2, <2>10, MatchDue
    <3>2. s <= t + 0 /\ h = 0
      BY <2>4, <2>5, <2>7, <3>1 DEF Share
    <3>3. PICK a \in Int : a = LockAmount(taker)
      BY <1>1, TakerAmounts
    <3>4. l >= r + v + a - k
      BY <1>1, <2>1, <2>9, <2>10, <3>3 DEF Covers
    <3>5. l >= s + v + a - k
      BY <2>4, <3>2, <3>4
    <3>. QED
      BY <1>1, <1>2, <2>1, <2>7, <2>10, <3>3, <3>5 DEF Covers
  <2>11. CASE acc # LockAccount(taker)
    <3>1. l >= r + u + v
      BY <2>1, <2>9, <2>11 DEF Covers
    <3>2. s + d <= t + h
      <4>1. CASE acc = LockAccount(x)
        <5>1. PICK b \in Nat, c \in Nat : b = Obligation(x) /\ c = Obligation(y)
          BY <2>2, <2>3, <2>6, RestingFacts
        <5>2. d = b - c
          BY <1>3, <2>1, <2>2, <4>1, <5>1, MatchDue
        <5>3. h = b /\ Share(y, acc) = c
          BY <2>4, <2>5, <4>1, <5>1 DEF Share
        <5>. QED
          BY <2>7, <5>2, <5>3
      <4>2. CASE acc # LockAccount(x)
        <5>1. d = 0
          BY <1>3, <2>1, <2>2, <2>11, <4>2, MatchDue
        <5>2. h = 0 /\ Share(y, acc) = 0
          BY <2>4, <2>5, <4>2 DEF Share
        <5>. QED
          BY <2>7, <5>1, <5>2
      <4>. QED
        BY <4>1, <4>2
    <3>3. l >= s + (u + d) + v
      BY <2>4, <3>1, <3>2
    <3>. QED
      BY <1>1, <1>2, <2>1, <2>7, <2>8, <2>11, <3>3 DEF Covers
  <2>. QED
    BY <2>10, <2>11
<1>. QED
  BY <1>1, <1>5, <1>6 DEF Funds, Covered, Excused


-----------------------------------------------------------------------------
(* Settlement.                                                             *)

(* The match being settled: what it makes due is in the unsettled dues,    *)
(* and counts as used for the taker.                                       *)
LEMMA TradeDue ==
  ASSUME TypeOK, Shape, Executing
  PROVE  /\ Trade \in MatchType
         /\ Usage(Trade) = DueIn(Trade, LockAccount(taker))
         /\ \A acc : /\ DueIn(Trade, acc) \in Nat /\ Unsettled(matches, settled + 1, acc) \in Nat
                     /\ Unsettled(matches, settled, acc)
                          = DueIn(Trade, acc) + Unsettled(matches, settled + 1, acc)
         /\ DueIn(Trade, QuoteAccount(Trade.buyer_id)) = TradeValue(Trade)
         /\ DueIn(Trade, BaseAccount(Trade.seller_id)) = Trade.amount
<1>1. matches \in Seq(MatchType) /\ settled \in 0 .. Len(matches) /\ settled < Len(matches)
  BY MatchesTyped DEF TypeOK, Executing
<1>2. settled + 1 \in 1 .. Len(matches)
  BY <1>1, LenProperties
<1>3. Trade \in MatchType
  BY <1>1, <1>2, ElementOfSeq DEF Trade
<1>4. \A acc : /\ DueIn(Trade, acc) \in Nat /\ Unsettled(matches, settled + 1, acc) \in Nat
               /\ Unsettled(matches, settled, acc)
                    = DueIn(Trade, acc) + Unsettled(matches, settled + 1, acc)
  BY <1>1, UnsettledNext DEF Trade
<1>5. \A u, v : QuoteAccount(u) # BaseAccount(v)
  BY DEF QuoteAccount, BaseAccount
<1>6. /\ DueIn(Trade, QuoteAccount(Trade.buyer_id)) = TradeValue(Trade)
      /\ DueIn(Trade, BaseAccount(Trade.seller_id)) = Trade.amount
  BY <1>5 DEF DueIn
<1>7. /\ taker \in Order /\ settled + 1 \in DOMAIN matches /\ phase # "idle"
  BY <1>1, <1>2, LenProperties DEF Executing, TypeOK, TakerOrder
<1>8. CASE taker.order_type = "buy"
  <2>1. LockAccount(taker) = QuoteAccount(Trade.buyer_id)
    BY <1>7, <1>8 DEF Shape, TakerTrades, Trade, LockAccount, LockMint, QuoteAccount
  <2>. QED
    BY <1>3, <1>4, <1>6, <1>8, <2>1 DEF Usage
<1>9. CASE taker.order_type # "buy"
  <2>1. LockAccount(taker) = BaseAccount(Trade.seller_id)
    BY <1>7, <1>9 DEF Shape, TakerTrades, Trade, LockAccount, LockMint, BaseAccount
  <2>. QED
    BY <1>3, <1>4, <1>6, <1>9, <2>1 DEF Usage
<1>. QED
  BY <1>8, <1>9

(* Seller and buyer can pay: their locked parts cover what they owe.       *)
LEMMA TradeSucceeds ==
  ASSUME TypeOK, Shape, Funds, Executing
  PROVE  CanPayBase /\ (Trade.buyer_id \notin overdrawn => CanPayQuote)
<1>1. ASSUME NEW acc \in Account, ~Excused(acc)
      PROVE  balances[acc].locked >= DueIn(Trade, acc)
  <2>1. PICK l \in Int, r \in Nat, u \in Nat, v \in Nat :
          /\ l = balances[acc].locked /\ r = OwedBy(Resting(orderbook), acc)
          /\ u = Unsettled(matches, settled, acc) /\ v = reserved[acc]
    BY Amounts
  <2>2. PICK d \in Nat, w \in Nat : d = DueIn(Trade, acc) /\ u = d + w
    BY <2>1, TradeDue
  <2>3. l >= r + u + v
    BY <1>1, <2>1, FundsSuffice
  <2>4. l >= d
    BY <2>2, <2>3
  <2>. QED
    BY <2>1, <2>2, <2>4
<1>2. CanPayBase
  <2>1. ~Excused(BaseAccount(Trade.seller_id))
    BY DEF Excused, BaseAccount
  <2>. QED
    BY <1>1, <2>1, TradeFacts, TradeDue DEF CanPayBase, CanTransfer
<1>3. ASSUME Trade.buyer_id \notin overdrawn PROVE CanPayQuote
  <2>1. ~Excused(QuoteAccount(Trade.buyer_id))
    BY <1>3 DEF Excused, QuoteAccount
  <2>. QED
    BY <1>1, <2>1, TradeFacts, TradeDue DEF CanPayQuote, CanTransfer
<1>. QED
  BY <1>2, <1>3

(* What settling a match does: both debits and the seller's, the buyer's   *)
(* releases, or nothing at all.                                            *)
LEMMA ExecutedTrade ==
  ASSUME TypeOK, Shape, Funds, ExecuteTrade
  PROVE  \/ /\ CanPayQuote
            /\ \A acc \in Account :
                 balances'[acc].locked = balances[acc].locked - DueIn(Trade, acc)
            /\ ledger' = Release(Release(ledger, Trade.buy_order_id, TradeValue(Trade)),
                                 Trade.sell_order_id, Trade.amount)
            /\ used' = used + Usage(Trade)
         \/ /\ Trade.buyer_id \in overdrawn
            /\ balances' = balances /\ ledger' = ledger /\ used' \in {used, used + Usage(Trade)}
<1>1. Executing
  BY DEF ExecuteTrade
<1>2. CanPayBase /\ (Trade.buyer_id \notin overdrawn => CanPayQuote)
  BY <1>1, TradeSucceeds
<1>3. CASE ~CanPayQuote
  BY <1>2, <1>3 DEF ExecuteTrade
<1>4. CASE CanPayQuote
  <2>1. PICK b \in Account, s \in Account, c \in Account, e \in Account, v \in Nat, a \in Nat :
          /\ b = QuoteAccount(Trade.buyer_id) /\ s = QuoteAccount(Trade.seller_id)
          /\ c = BaseAccount(Trade.seller_id) /\ e = BaseAccount(Trade.buyer_id)
          /\ v = TradeValue(Trade) /\ a = Trade.amount
    BY <1>1, TradeFacts
  <2>2. PICK paid \in BalanceCacheType : paid = QuotePaid
    <3>1. QuotePaid = Transfer(balances, b, s, v)
      BY <2>1 DEF QuotePaid
    <3>2. balances \in BalanceCacheType /\ v \in Int
      BY DEF TypeOK
    <3>3. Transfer(balances, b, s, v) \in BalanceCacheType
      BY <3>2, TransferType
    <3>. QED
      BY <3>1, <3>3
  <2>3. balances' = BothPaid
    BY <1>2, <1>4 DEF ExecuteTrade
  <2>4. /\ paid = Transfer(balances, b, s, v) /\ balances' = Transfer(paid, c, e, a)
    BY <2>1, <2>2, <2>3 DEF QuotePaid, BothPaid
  <2>5. b # c
    BY <2>1 DEF QuoteAccount, BaseAccount
  <2>6. ASSUME NEW acc \in Account
        PROVE  balances'[acc].locked = balances[acc].locked - DueIn(Trade, acc)
    <3>1. PICK l \in Int : l = balances[acc].locked
      BY Amounts
    <3>2. paid[acc].locked = IF acc = b THEN l - v ELSE l
      BY <2>1, <2>4, <3>1, LockedAfterTransfer DEF TypeOK
    <3>3. balances'[acc].locked = IF acc = c THEN paid[acc].locked - a ELSE paid[acc].locked
      BY <2>1, <2>4, LockedAfterTransfer
    <3>4. DueIn(Trade, acc) = IF acc = b THEN v ELSE IF acc = c THEN a ELSE 0
      BY <2>1, <2>5 DEF DueIn
    <3>. QED
      BY <2>1, <2>5, <3>1, <3>2, <3>3, <3>4
  <2>7. /\ ledger' = Release(Release(ledger, Trade.buy_order_id, TradeValue(Trade)),
                             Trade.sell_order_id, Trade.amount)
        /\ used' = used + Usage(Trade)
    BY <1>2, <1>4 DEF ExecuteTrade
  <2>. QED
    BY <1>4, <2>6, <2>7
<1>. QED
  BY <1>3, <1>4

LEMMA ExecuteFunds ==
  ASSUME TypeOK, Shape, Funds, ExecuteTrade
  PROVE  Funds'
<1>1. /\ Executing /\ phase = "executing" /\ settled' = settled + 1
      /\ UNCHANGED <<orderbook, phase, taker, matches, reserved, overdrawn>>
  BY DEF ExecuteTrade, Executing
<1>2. PICK x \in Nat : x = Usage(Trade) /\ x = DueIn(Trade, LockAccount(taker))
  BY <1>1, TradeDue
<1>3. PICK k \in Int, n \in Int : k = used /\ n = used' /\ n \in {k, k + x}
  <2>1. used \in Int /\ used' \in {used, used + x}
    BY <1>2 DEF TypeOK, ExecuteTrade
  <2>2. used' \in Int
    BY <1>2, <2>1
  <2>. QED
    BY <2>1, <2>2
<1>4. Budget'
  <2>1. PICK acc : acc = LockAccount(taker)
    OBVIOUS
  <2>2. PICK u \in Nat : u = Unsettled(matches, settled + 1, acc)
    BY <1>1, TradeDue
  <2>3. Unsettled(matches, settled, acc) = x + u
    BY <1>1, <1>2, <2>1, <2>2, TradeDue
  <2>4. PICK m \in Int, a \in Int : m = Remainder /\ a = LockAmount(taker)
    <3>1. Remainder \in Int /\ LockAmount(taker) \in Int
      BY <1>1, TakerAmounts
    <3>. QED
      BY <3>1
  <2>5. k + (x + u) + m <= a
    BY <1>1, <1>3, <2>1, <2>3, <2>4 DEF Funds, Budget
  <2>6. n + u + m <= a
    <3>1. n = k \/ n = k + x
      BY <1>3
    <3>. QED
      BY <2>5, <3>1
  <2>7. used' + Unsettled(matches', settled', LockAccount(taker')) + Remainder' <= LockAmount(taker')
    BY <1>1, <1>3, <2>1, <2>2, <2>4, <2>6 DEF Remainder
  <2>8. ByQuote(taker') /\ taker'.remaining_quote_amount < 0 => taker'.user_id \in overdrawn'
    BY <1>1 DEF Funds, Budget
  <2>. QED
    BY <1>1, <2>7, <2>8 DEF Budget
<1>5. ASSUME NEW acc \in Account, ~Excused(acc)
      PROVE  Covers(acc)'
  <2>1. PICK l \in Int, r \in Nat, v \in Nat, d \in Nat, w \in Nat :
          /\ l = balances[acc].locked /\ r = OwedBy(Resting(orderbook), acc)
          /\ v = reserved[acc] /\ d = DueIn(Trade, acc) /\ w = Unsettled(matches, settled + 1, acc)
    BY <1>1, Amounts, TradeDue
  <2>2. Unsettled(matches, settled, acc) = d + w
    BY <1>1, <2>1, TradeDue
  <2>3. PICK h \in Int : /\ h = balances'[acc].locked
                         /\ \/ h = l - d /\ n = k + x
                            \/ h = l /\ d = 0
                            \/ h = l /\ acc = BaseAccount(Trade.seller_id)
    <3>1. CASE /\ balances'[acc].locked = balances[acc].locked - DueIn(Trade, acc)
               /\ used' = used + Usage(Trade)
      <4>1. balances'[acc].locked = l - d /\ n = k + x
        BY <1>2, <1>3, <2>1, <3>1
      <4>. QED
        BY <4>1
    <3>2. CASE Trade.buyer_id \in overdrawn /\ balances' = balances
      <4>1. acc # QuoteAccount(Trade.buyer_id)
        BY <1>5, <3>2 DEF Excused, QuoteAccount
      <4>2. d = 0 \/ acc = BaseAccount(Trade.seller_id)
        BY <2>1, <4>1 DEF DueIn
      <4>. QED
        BY <2>1, <3>2, <4>2
    <3>. QED
      BY <3>1, <3>2, ExecutedTrade
  <2>4. Covers(acc)
    BY <1>5 DEF Funds, Covered
  <2>5. CASE acc = LockAccount(taker) /\ Refundable
    <3>1. PICK a \in Int : a = LockAmount(taker)
      BY <1>1, TakerAmounts
    <3>2. l >= r + v + a - k
      BY <1>1, <1>3, <2>1, <2>4, <2>5, <3>1 DEF Covers
    <3>3. d = x
      BY <1>2, <2>1, <2>5
    <3>4. h >= r + v + a - n
      BY <1>3, <2>3, <3>2, <3>3
    <3>. QED
      BY <1>1, <1>3, <2>1, <2>3, <2>5, <3>1, <3>4 DEF Covers, Refundable
  <2>6. CASE ~(acc = LockAccount(taker) /\ Refundable)
    <3>1. l >= r + (d + w) + v
      BY <1>1, <2>1, <2>2, <2>4, <2>6 DEF Covers
    <3>2. h >= r + w + v
      BY <2>3, <3>1
    <3>. QED
      BY <1>1, <2>1, <2>3, <2>6, <3>2 DEF Covers, Refundable
  <2>. QED
    BY <2>5, <2>6
<1>. QED
  BY <1>1, <1>4, <1>5 DEF Funds, Covered, Excused


(* The refund returns what no match of the taker needs any more.           *)
LEMMA FinishOrderFunds ==
  ASSUME TypeOK, Shape, Funds, FinishOrder
  PROVE  Funds'
<1>1. /\ phase = "executing" /\ phase' = "idle" /\ settled = Len(matches)
      /\ matches' = << >> /\ settled' = 0
      /\ UNCHANGED <<orderbook, reserved, overdrawn>>
  BY DEF FinishOrder
<1>2. \A acc : Unsettled(matches, settled, acc) = 0
  BY <1>1, MatchesTyped, UnsettledNone
<1>3. \A acc : Unsettled(matches', settled', acc) = 0
  <2>1. << >> \in Seq(MatchType) /\ Len(<< >>) = 0
    BY EmptySeq
  <2>. QED
    BY <1>1, <2>1, UnsettledNone
<1>4. PICK b \in Account, a \in Int : b = LockAccount(taker) /\ a = LockAmount(taker)
  <2>1. LockAccount(taker) \in Account /\ LockAmount(taker) \in Int
    BY <1>1, TakerAmounts
  <2>. QED
    BY <2>1
<1>5. PICK k \in Int : k = used
  BY DEF TypeOK
<1>6. \/ /\ Refundable /\ balances' = UnlockBalance(balances, b, a - k)
      \/ balances' = balances
  <2>1. Refund > 0 => Refundable /\ Refund = a - k
    BY <1>4, <1>5 DEF Refund, Refundable
  <2>. QED
    BY <1>4, <2>1 DEF FinishOrder
<1>7. ASSUME NEW acc \in Account, ~Excused(acc)
      PROVE  Covers(acc)'
  <2>1. PICK l \in Int, r \in Nat, u \in Nat, v \in Nat :
          /\ l = balances[acc].locked /\ r = OwedBy(Resting(orderbook), acc)
          /\ u = Unsettled(matches, settled, acc) /\ v = reserved[acc]
    BY Amounts
  <2>2. l >= r + u + v
    BY <1>7, <2>1, FundsSuffice
  <2>3. u = 0
    BY <1>2, <2>1
  <2>4. PICK h \in Int : h = balances'[acc].locked /\ h >= r + v
    <3>1. CASE balances' = balances \/ acc # b
      <4>1. balances'[acc].locked = l
        <5>1. CASE balances' = balances
          BY <2>1, <5>1
        <5>2. CASE balances' = UnlockBalance(balances, b, a - k) /\ acc # b
          <6>1. balances \in BalanceCacheType /\ a - k \in Int
            BY DEF TypeOK
          <6>. QED
            BY <2>1, <5>2, <6>1, LockedAfter
        <5>. QED
          BY <1>6, <3>1, <5>1, <5>2
      <4>2. l >= r + v
        BY <2>2, <2>3
      <4>. QED
        BY <4>1, <4>2
    <3>2. CASE Refundable /\ balances' = UnlockBalance(balances, b, a - k) /\ acc = b
      <4>1. Covers(acc)
        BY <1>7 DEF Funds, Covered
      <4>2. l >= r + v + a - k
        BY <1>1, <1>4, <1>5, <2>1, <3>2, <4>1 DEF Covers
      <4>3. balances \in BalanceCacheType /\ a - k \in Int
        BY DEF TypeOK
      <4>4. balances'[acc].locked = l - (a - k)
        BY <2>1, <3>2, <4>3, LockedAfter
      <4>5. l - (a - k) >= r + v /\ l - (a - k) \in Int
        BY <4>2
      <4>. QED
        BY <4>4, <4>5
    <3>. QED
      BY <1>6, <3>1, <3>2
  <2>5. Unsettled(matches', settled', acc) = 0
    BY <1>3
  <2>6. h >= r + 0 + v
    BY <2>4
  <2>. QED
    BY <1>1, <2>1, <2>4, <2>5, <2>6 DEF Covers
<1>. QED
  BY <1>1, <1>7 DEF Funds, Budget, Covered, Excused

(* A cancellation unlocks what the order owed by resting, or nothing.      *)
LEMMA CancelFunds ==
  ASSUME TypeOK, Shape, Funds, NEW side \in Side, NEW p \in Price,
         NEW i \in DOMAIN orderbook[side][p], NEW u \in User, CancelOrder(side, p, i, u)
  PROVE  Funds'
<1>1. /\ phase = "idle"
      /\ UNCHANGED <<phase, taker, matches, settled, used, reserved, overdrawn>>
  BY DEF CancelOrder
<1>2. PICK o : o = orderbook[side][p][i]
  OBVIOUS
<1>3. PICK S : S = Resting(orderbook) /\ o \in S /\ Resting(orderbook') = S \ {o}
  BY <1>2, CancelledOrder
<1>4. PICK c \in Account, n \in Nat : c = LockAccount(o) /\ n = Obligation(o)
  BY <1>3, RestingFacts
<1>5. balances' = UnlockBalance(balances, c, n) \/ balances' = balances
  BY <1>2, <1>4, CancelledOrder
<1>6. ASSUME NEW acc \in Account, ~Excused(acc)
      PROVE  Covers(acc)'
  <2>1. PICK l \in Int, r \in Nat, w \in Nat, v \in Nat :
          /\ l = balances[acc].locked /\ r = OwedBy(Resting(orderbook), acc)
          /\ w = Unsettled(matches, settled, acc) /\ v = reserved[acc]
    BY Amounts
  <2>2. l >= r + w + v
    BY <1>6, <2>1, FundsSuffice
  <2>3. PICK s \in Nat, h \in Nat : s = OwedBy(S \ {o}, acc) /\ h = Share(o, acc) /\ r = s + h
    <3>1. Owers(S) /\ o \in S
      BY <1>3, RestingFinite
    <3>2. /\ OwedBy(S, acc) = OwedBy(S \ {o}, acc) + Share(o, acc)
          /\ OwedBy(S \ {o}, acc) \in Nat /\ Share(o, acc) \in Nat
      BY <3>1, OwedWithout
    <3>. QED
      BY <1>3, <2>1, <3>2
  <2>4. h = IF acc = c THEN n ELSE 0
    BY <1>4, <2>3 DEF Share
  <2>5. PICK k \in Int : k = balances'[acc].locked /\ k >= l - h
    <3>1. balances \in BalanceCacheType /\ n \in Int
      BY DEF TypeOK
    <3>2. CASE balances' = UnlockBalance(balances, c, n)
      <4>1. balances'[acc].locked = l - h
        BY <2>1, <2>4, <3>1, <3>2, LockedAfter
      <4>. QED
        BY <4>1
    <3>3. CASE balances' = balances
      BY <2>1, <3>3
    <3>. QED
      BY <1>5, <3>2, <3>3
  <2>6. k >= s + w + v
    BY <2>2, <2>3, <2>5
  <2>. QED
    BY <1>1, <1>3, <2>1, <2>3, <2>5, <2>6 DEF Covers
<1>. QED
  BY <1>1, <1>6 DEF Funds, Budget, Covered, Excused

(* The balance commands move a locked part only together with its          *)
(* reservation.                                                            *)
LEMMA CommandFunds ==
  ASSUME TypeOK, Shape, Funds, Funding \/ LockingCommand
  PROVE  Funds'
<1>1. /\ phase = "idle" /\ UNCHANGED <<orderbook, phase, taker, matches, settled, used, overdrawn>>
  BY DEF Funding, LockingCommand, UpdateBalance, LockCommand, UnlockCommand, historyVars
<1>2. \E g \in [Account -> Int] :
        \A acc \in Account : /\ balances'[acc].locked = balances[acc].locked + g[acc]
                             /\ reserved'[acc] = reserved[acc] + g[acc]
  <2>1. balances \in BalanceCacheType /\ reserved \in [Account -> Nat]
    BY DEF TypeOK, Shape, ReservedNat
  <2>2. \A acc \in Account : balances[acc].locked \in Int /\ reserved[acc] \in Int
    BY <2>1 DEF BalanceCacheType, Balance
  <2>3. ASSUME NEW c \in Account, NEW d \in Delta, UpdateBalance(c, d)
        PROVE  \A acc \in Account : /\ balances'[acc].locked = balances[acc].locked + 0
                                    /\ reserved'[acc] = reserved[acc] + 0
    <3>1. d \in Int
      BY ConstantsAssumption
    <3>2. balances' = AddAvailable(balances, c, d) /\ reserved' = reserved
      BY <2>3 DEF UpdateBalance, historyVars
    <3>3. \A acc \in Account : balances'[acc].locked = balances[acc].locked
      BY <2>1, <3>1, <3>2, LockedAfter
    <3>. QED
      BY <2>2, <3>2, <3>3
  <2>4. ASSUME NEW c \in Account, NEW a \in ApiAmount, LockCommand(c, a)
        PROVE  \A acc \in Account :
                 LET g == IF acc = c THEN a ELSE 0
                 IN  /\ balances'[acc].locked = balances[acc].locked + g
                     /\ reserved'[acc] = reserved[acc] + g
    <3>1. a \in Int
      BY ConstantsAssumption
    <3>2. balances' = LockBalance(balances, c, a) /\ reserved' = [reserved EXCEPT ![c] = @ + a]
      BY <2>4 DEF LockCommand
    <3>3. \A acc \in Account :
            balances'[acc].locked = IF acc = c THEN balances[acc].locked + a ELSE balances[acc].locked
      BY <2>1, <3>1, <3>2, LockedAfter
    <3>4. \A acc \in Account : reserved'[acc] = IF acc = c THEN reserved[acc] + a ELSE reserved[acc]
      BY <2>1, <3>2
    <3>. QED
      BY <2>2, <3>1, <3>3, <3>4
  <2>5. ASSUME NEW c \in Account, NEW a \in ApiAmount, UnlockCommand(c, a)
        PROVE  \A acc \in Account :
                 LET g == IF acc = c THEN 0 - a ELSE 0
                 IN  /\ balances'[acc].locked = balances[acc].locked + g
                     /\ reserved'[acc] = reserved[acc] + g
    <3>1. a \in Int
      BY ConstantsAssumption
    <3>2. balances' = UnlockBalance(balances, c, a) /\ reserved' = [reserved EXCEPT ![c] = @ - a]
      BY <2>5 DEF UnlockCommand
    <3>3. \A acc \in Account :
            balances'[acc].locked = IF acc = c THEN balances[acc].locked - a ELSE balances[acc].locked
      BY <2>1, <3>1, <3>2, LockedAfter
    <3>4. \A acc \in Account : reserved'[acc] = IF acc = c THEN reserved[acc] - a ELSE reserved[acc]
      BY <2>1, <3>2
    <3>. QED
      BY <2>2, <3>1, <3>3, <3>4
  <2>6. CASE Funding
    <3>1. PICK c \in Account, d \in Delta : UpdateBalance(c, d)
      BY <2>6 DEF Funding
    <3>2. [acc \in Account |-> 0] \in [Account -> Int]
      OBVIOUS
    <3>. QED
      BY <2>3, <3>1, <3>2
  <2>7. CASE LockingCommand
    <3>1. PICK c \in Account, a \in ApiAmount : LockCommand(c, a) \/ UnlockCommand(c, a)
      BY <2>7 DEF LockingCommand
    <3>2. a \in Int
      BY ConstantsAssumption
    <3>3. CASE LockCommand(c, a)
      <4>1. PICK g : g = [acc \in Account |-> IF acc = c THEN a ELSE 0]
        OBVIOUS
      <4>2. g \in [Account -> Int] /\ \A acc \in Account : g[acc] = IF acc = c THEN a ELSE 0
        BY <3>2, <4>1
      <4>. QED
        BY <2>4, <3>3, <4>2
    <3>4. CASE UnlockCommand(c, a)
      <4>1. PICK g : g = [acc \in Account |-> IF acc = c THEN 0 - a ELSE 0]
        OBVIOUS
      <4>2. g \in [Account -> Int] /\ \A acc \in Account : g[acc] = IF acc = c THEN 0 - a ELSE 0
        BY <3>2, <4>1
      <4>. QED
        BY <2>5, <3>4, <4>2
    <3>. QED
      BY <3>1, <3>3, <3>4
  <2>. QED
    BY <2>6, <2>7
<1>3. ASSUME NEW acc \in Account, ~Excused(acc)
      PROVE  Covers(acc)'
  <2>1. PICK l \in Int, r \in Nat, w \in Nat, v \in Nat :
          /\ l = balances[acc].locked /\ r = OwedBy(Resting(orderbook), acc)
          /\ w = Unsettled(matches, settled, acc) /\ v = reserved[acc]
    BY Amounts
  <2>2. l >= r + w + v
    BY <1>3, <2>1, FundsSuffice
  <2>3. PICK d \in Int : balances'[acc].locked = l + d /\ reserved'[acc] = v + d
    BY <1>2, <2>1
  <2>4. l + d >= r + w + (v + d)
    BY <2>2
  <2>. QED
    BY <1>1, <2>1, <2>3, <2>4 DEF Covers
<1>. QED
  BY <1>1, <1>3 DEF Funds, Budget, Covered, Excused

LEMMA NextFunds == TypeOK /\ Shape /\ Funds /\ [Next]_vars => Funds'
<1> SUFFICES ASSUME TypeOK, Shape, Funds, [Next]_vars PROVE Funds'
  OBVIOUS
<1>1. ASSUME UNCHANGED vars PROVE Funds'
  <2>1. UNCHANGED <<balances, orderbook, phase, taker, matches, settled, used, reserved, overdrawn>>
    BY <1>1 DEF vars, historyVars
  <2>2. UNCHANGED <<Remainder, Refundable>>
    BY <2>1 DEF Remainder, Refundable
  <2>3. Budget'
    BY <2>1, <2>2 DEF Funds, Budget
  <2>4. Covered'
    BY <2>1, <2>2 DEF Funds, Covered, Covers, Excused
  <2>. QED
    BY <2>3, <2>4 DEF Funds
<1>2. ASSUME NEW o \in Requests, SubmitOrder(o) \/ RejectOrder(o) PROVE Funds'
  BY <1>1, <1>2, SubmitFunds DEF RejectOrder
<1>3. CASE SubmissionStep
  BY <1>3, LoopFunds, FinishMatchingFunds, PopFunds, MatchFunds, ExecuteFunds, FinishOrderFunds
     DEF SubmissionStep
<1>. QED
  BY <1>1, <1>2, <1>3, CancelFunds, CommandFunds DEF Next

(* The invariant of the engine's funds, inductive with the types.          *)
LEMMA FundsInvariant == Spec => [](TypeOK /\ Shape /\ Funds)
<1>1. Init => TypeOK /\ Shape /\ Funds
  BY InitTypeOK, InitShape, InitFunds
<1>2. TypeOK /\ Shape /\ Funds /\ [Next]_vars => (TypeOK /\ Shape /\ Funds)'
  BY NextTypeOK, NextShape, NextFunds
<1>. QED
  BY <1>1, <1>2, PTL DEF Spec

(* Locked funds cover every resting order, every unsettled match and every *)
(* lock taken by command (balance_cache.rs, matcher.rs, threads.rs); only  *)
(* the quote of a user whose market buy overdrew may fall short.           *)
THEOREM LocksCoverDues == Spec => []LockCoverage
<1>1. TypeOK /\ Shape /\ Funds => LockCoverage
  <2> SUFFICES ASSUME TypeOK, Shape, Funds, NEW acc \in Account, ~Excused(acc)
               PROVE  balances[acc].locked >= RestingDue(acc) + UnsettledDue(acc) + reserved[acc]
    BY DEF LockCoverage, Excused
  <2>1. UnsettledDue(acc) = Unsettled(matches, settled, acc)
    BY MatchesTyped, UnsettledDueIs DEF TypeOK
  <2>2. RestingDue(acc) = OwedBy(Resting(orderbook), acc)
    BY RestingDueIs
  <2>. QED
    BY <2>1, <2>2, FundsSuffice
<1>. QED
  BY <1>1, FundsInvariant, PTL

(* No settlement fails half-way, and none fails but for a buyer whose      *)
(* market buy overdrew: the missing rollback of execute_trade and the      *)
(* errors that a limit order's settlement only logs do no harm             *)
(* (executor.rs, threads.rs).                                              *)
THEOREM TradesAlwaysSucceed == Spec => []TradesNeverFail
<1>1. TypeOK /\ Shape /\ Funds => TradesNeverFail
  BY TradeSucceeds DEF TradesNeverFail
<1>. QED
  BY <1>1, FundsInvariant, PTL


-----------------------------------------------------------------------------
(* Fair trades.                                                            *)

LEMMA RecordsTyped ==
  ASSUME TypeOK
  PROVE  \A i \in DOMAIN ledger : ledger[i] \in RecordType
<1>1. PICK q \in Seq(RecordType) : q = ledger
  BY DEF TypeOK
<1>2. \A i \in DOMAIN q : q[i] \in RecordType
  BY LenProperties, ElementOfSeq
<1>. QED
  BY <1>1, <1>2

(* The records of a match's two orders know their sides and limits.        *)
LEMMA MatchedSides ==
  ASSUME TypeOK, Shape, MatchHead
  PROVE  /\ ledger[taker.id].order.order_side = taker.order_side
         /\ ledger[taker.id].order.order_type = taker.order_type
         /\ ledger[taker.id].order.price = taker.price
         /\ ledger[Maker.id].order.order_side = "limit"
         /\ ledger[Maker.id].order.order_type = MakerSide
         /\ ledger[Maker.id].order.price = level
<1>1. \A i \in DOMAIN ledger : ledger[i].order \in Order
  BY RecordsTyped DEF RecordType
<1>2. taker.id \in DOMAIN ledger /\ Maker.id \in DOMAIN ledger /\ Maker \in Resting(orderbook)
  BY MatchedTaker, MatchedMaker
<1>3. Maker = Left(ledger[Maker.id])
  BY <1>2 DEF Shape, Booked
<1>4. PICK n, m : n = taker.remaining_quote_amount /\ m = ledger[taker.id].filled
  OBVIOUS
<1>5. PICK q \in Order : q = ledger[taker.id].order
  BY <1>1, <1>2
<1>6. \/ taker = [q EXCEPT !.remaining_quote_amount = n]
      \/ taker = [q EXCEPT !.remaining_amount = @ - m]
  BY <1>4, <1>5 DEF MatchHead, InLevel, Shape, TakerRecord, Left
<1>7. q.order_side = taker.order_side /\ q.order_type = taker.order_type /\ q.price = taker.price
  BY <1>6 DEF Order
<1>8. PICK r \in Order : r = ledger[Maker.id].order
  BY <1>1, <1>2
<1>9. Maker = [r EXCEPT !.remaining_amount = @ - ledger[Maker.id].filled]
  BY <1>3, <1>8 DEF Left
<1>10. r.order_side = Maker.order_side /\ r.order_type = Maker.order_type /\ r.price = Maker.price
  BY <1>9 DEF Order
<1>. QED
  BY <1>5, <1>7, <1>8, <1>10, MatchedMaker

LEMMA MatchIsFair ==
  ASSUME TypeOK, Shape, MatchHead
  PROVE  FairTrade
<1>1. PICK t : t = LastTrade
  OBVIOUS
<1>2. t = MatchResult(MatchAmount)
  <2>1. matches' = Append(matches, MatchResult(MatchAmount)) /\ matches \in Seq(MatchResultType)
    BY DEF MatchHead, TypeOK
  <2>2. MatchResult(MatchAmount) \in MatchType /\ matches \in Seq(MatchType)
    BY MatchDue, MatchesTyped
  <2>. QED
    BY <1>1, <2>1, <2>2, AppendProperties DEF LastTrade
<1>3. taker \in Order /\ taker.order_type \in {"buy", "sell"} /\ phase = "level"
  BY MatchedTaker DEF Order, Side, MatchHead, InLevel
<1>4. Maker.user_id # taker.user_id
  BY MatchedMaker
<1>5. t.price = level /\ t.buyer_id # t.seller_id
  BY <1>2, <1>4 DEF MatchResult
<1>6. Crosses(taker, level) /\ \A q \in Levels(orderbook, MakerSide) : ~Better(q, level)
  BY <1>3 DEF Shape, LevelFits
<1>7. ASSUME NEW side \in Side,
             NEW o, o = ledger[IF side = "buy" THEN t.buy_order_id ELSE t.sell_order_id].order,
             o.order_side = "limit"
      PROVE  Crosses(o, t.price)
  <2>1. CASE side = taker.order_type
    <3>1. o = ledger[taker.id].order
      BY <1>2, <1>3, <1>7, <2>1 DEF MatchResult
    <3>. QED
      BY <1>5, <1>6, <3>1, MatchedSides DEF Crosses
  <2>2. CASE side # taker.order_type
    <3>1. o = ledger[Maker.id].order
      BY <1>2, <1>3, <1>7, <2>2 DEF MatchResult, Side
    <3>2. o.order_type \in {"buy", "sell"} /\ o.price = level
      BY <3>1, MatchedSides DEF MakerSide, Opposite
    <3>3. PICK p \in Nat : p = level
      BY MatchedTaker, PriceAssumption
    <3>. QED
      BY <1>5, <3>2, <3>3 DEF Crosses
  <2>. QED
    BY <2>1, <2>2
<1>8. ASSUME NEW o \in RestingOn(orderbook, MakerSide)
      PROVE  ~Better(o.price, t.price)
  <2>1. PICK p \in Price : o \in Elems(orderbook[MakerSide][p])
    BY DEF RestingOn, RestingAt, Elems
  <2>2. PICK q \in Seq(RestingOrder(MakerSide, p)) : q = orderbook[MakerSide][p]
    BY DEF TypeOK, MakerSide, Opposite, Side
  <2>3. PICK i \in DOMAIN q : o = q[i]
    BY <2>1, <2>2 DEF Elems
  <2>4. o.price = p /\ q # << >>
    <3>1. q[i] \in RestingOrder(MakerSide, p)
      BY LenProperties, ElementOfSeq
    <3>. QED
      BY <2>3, <3>1 DEF RestingOrder
  <2>5. p \in Levels(orderbook, MakerSide)
    BY <2>2, <2>4 DEF Levels
  <2>. QED
    BY <1>5, <1>6, <2>4, <2>5
<1>. QED
  BY <1>1, <1>5, <1>7, <1>8 DEF FairTrade

(* Only a match adds to the matches.                                       *)
LEMMA OnlyMatchesTrade ==
  ASSUME TypeOK, Next, NewTrade
  PROVE  MatchHead
<1>1. Len(matches) \in Nat
  BY LenProperties DEF TypeOK
<1>2. matches' # matches /\ matches' # << >>
  BY <1>1, EmptySeq DEF NewTrade
<1>3. ASSUME NEW o \in Requests, SubmitOrder(o) \/ RejectOrder(o) PROVE FALSE
  BY <1>2, <1>3 DEF SubmitOrder, RejectOrder, vars
<1>4. CASE SubmissionStep
  BY <1>2, <1>4 DEF SubmissionStep, EnterLevel, FinishMatching, GiveUpLevel, SkipOwnOrder,
     DropUnmatchable, LeaveLevel, ExecuteTrade, FinishOrder
<1>5. ASSUME NEW side \in Side, NEW p \in Price, NEW i \in DOMAIN orderbook[side][p],
             NEW u \in User, CancelOrder(side, p, i, u)
      PROVE  FALSE
  BY <1>2, <1>5 DEF CancelOrder
<1>6. ~Funding /\ ~LockingCommand
  BY <1>2 DEF Funding, LockingCommand, UpdateBalance, LockCommand, UnlockCommand
<1>. QED
  BY <1>3, <1>4, <1>5, <1>6 DEF Next

(* A trade pairs two users at a price both orders allow, the best one that *)
(* rests on the maker's side (matcher.rs: the loop over the best level and *)
(* the self-trade check).                                                  *)
THEOREM TradesFair == Spec => FairTrades
<1>1. TypeOK /\ Shape /\ [Next]_vars => [NewTrade => FairTrade]_vars
  <2> SUFFICES ASSUME TypeOK, Shape, Next, NewTrade PROVE FairTrade
    OBVIOUS
  <2>. QED
    BY OnlyMatchesTrade, MatchIsFair
<1>. QED
  BY <1>1, FundsInvariant, PTL DEF Spec, FairTrades


-----------------------------------------------------------------------------
(* Orders that vanish from the book.                                       *)

(* What is left of a level's queue after processed_count turns: of the     *)
(* orders found there on entry, those not yet popped, then own orders that *)
(* went to the back.  A market buy may put a maker's rest back.            *)
OwnLeft ==
  phase = "level" /\ ~ByQuote(taker) =>
    \A i \in DOMAIN Queue : i > queue_len - processed => Queue[i].user_id = taker.user_id

(* The level's queue after a turn.                                         *)
LEMMA QueueAfter ==
  ASSUME TypeOK, InLevel, NEW queue, SetQueue(queue), level' = level,
         taker'.order_type = taker.order_type
  PROVE  Queue' = queue
<1>1. MakerSide \in Side /\ level \in Price /\ orderbook \in Book
  BY LevelFacts DEF TypeOK
<1>2. PICK s \in Side, p \in Price : s = MakerSide /\ p = level
  BY <1>1
<1>3. orderbook' = SetLevel(orderbook, s, p, queue)
  BY <1>2 DEF SetQueue
<1>4. orderbook'[s][p] = queue
  BY <1>1, <1>3 DEF SetLevel, Book
<1>5. Queue' = orderbook'[s][p]
  BY <1>2 DEF Queue, MakerSide
<1>. QED
  BY <1>4, <1>5

LEMMA SkipOwnLeft ==
  ASSUME TypeOK, OwnLeft, SkipOwnOrder
  PROVE  OwnLeft'
<1>0. PICK S : S = RestingOrder(MakerSide, level)
  OBVIOUS
<1>1. /\ InLevel /\ phase = "level" /\ taker' = taker /\ level' = level
      /\ queue_len' = queue_len /\ processed' = processed + 1
      /\ SetQueue(Append(Tail(Queue), Maker)) /\ Maker.user_id = taker.user_id
  BY DEF SkipOwnOrder, InLevel, PopCount, OwnOrder
<1>2. Queue' = Append(Tail(Queue), Maker)
  BY <1>1, QueueAfter
<1>3. PICK q \in Seq(S), m \in S : q = Queue /\ m = Maker /\ q # << >>
  <2>1. Queue \in Seq(RestingOrder(MakerSide, level)) /\ Queue # << >>
    BY <1>1, LevelFacts DEF TypeOK, Queue, InLevel
  <2>. QED
    BY <1>1, <1>0, <2>1, LevelFacts
<1>4. PICK t \in Seq(S) : /\ t = Tail(q) /\ Len(t) = Len(q) - 1
                          /\ \A i \in 1 .. Len(t) : t[i] = q[i + 1]
  BY <1>3, HeadTailProperties
<1>5. PICK r \in Seq(S) : /\ r = Append(t, m) /\ Len(r) = Len(t) + 1
                          /\ \A i \in 1 .. Len(t) : r[i] = t[i]
                          /\ r[Len(t) + 1] = m
  BY AppendProperties
<1>6. PICK n \in Nat : n = Len(q)
  BY LenProperties
<1>7. DOMAIN r = 1 .. n /\ DOMAIN q = 1 .. n
  BY <1>4, <1>5, <1>6, LenProperties
<1>8. PICK k \in Int : k = queue_len - processed /\ queue_len' - processed' = k - 1
  BY <1>1 DEF TypeOK
<1>9. ASSUME ~ByQuote(taker), NEW i \in 1 .. n, i > k - 1
      PROVE  r[i].user_id = taker.user_id
  <2>1. CASE i = n
    BY <1>1, <1>3, <1>4, <1>5, <1>6, <2>1
  <2>2. CASE i # n
    <3>1. i \in 1 .. Len(t) /\ i + 1 \in 1 .. n /\ i + 1 > k
      <4>1. Len(t) = n - 1
        BY <1>4, <1>6
      <4>2. i \in 1 .. n - 1 /\ i + 1 \in 1 .. n
        BY <2>2
      <4>3. i + 1 > k
        BY <1>9
      <4>. QED
        BY <4>1, <4>2, <4>3
    <3>2. r[i] = q[i + 1]
      BY <1>4, <1>5, <3>1
    <3>3. \A j \in DOMAIN q : j > k => q[j].user_id = taker.user_id
      <4>1. phase = "level" /\ ~ByQuote(taker)
        BY <1>1, <1>9
      <4>2. \A j \in DOMAIN Queue : j > queue_len - processed => Queue[j].user_id = taker.user_id
        BY <4>1 DEF OwnLeft
      <4>. QED
        BY <1>3, <1>8, <4>2
    <3>4. q[i + 1].user_id = taker.user_id
      BY <1>7, <3>1, <3>3
    <3>. QED
      BY <3>2, <3>4
  <2>. QED
    BY <2>1, <2>2
<1>10. Queue' = r
  BY <1>2, <1>3, <1>4, <1>5
<1>. QED
  BY <1>1, <1>7, <1>8, <1>9, <1>10 DEF OwnLeft

LEMMA MatchOwnLeft ==
  ASSUME TypeOK, Shape, OwnLeft, MatchHead
  PROVE  OwnLeft'
<1> SUFFICES ASSUME phase' = "level", ~ByQuote(taker') PROVE OwnLeft'
  BY DEF OwnLeft
<1>0. PICK S : S = RestingOrder(MakerSide, level)
  OBVIOUS
<1>1. /\ InLevel /\ phase = "level" /\ level' = level /\ queue_len' = queue_len
      /\ processed' = processed + 1 /\ taker'.order_type = taker.order_type
      /\ taker'.user_id = taker.user_id /\ ~ByQuote(taker)
  BY MatchedTaker DEF MatchHead, InLevel, PopCount, ByQuote
<1>2. PICK a \in Nat \ {0} : a = MatchAmount
  BY MatchedTaker
<1>3. PICK x \in Int, y \in Nat : x = taker.remaining_amount /\ y = Maker.remaining_amount
  BY MatchedTaker, MatchedMaker DEF Order
<1>4. a = y
  <2>1. ~FullyFilled(taker')
    <3>1. phase' = IF FullyFilled(taker') THEN "matching" ELSE "level"
      BY DEF MatchHead
    <3>. QED
      BY <3>1
  <2>2. x - a # 0
    BY <1>1, <1>2, <1>3, <2>1, MatchedTaker DEF FullyFilled
  <2>3. a = IF y <= x THEN y ELSE x
    BY <1>1, <1>2, <1>3 DEF MatchAmount, Smaller
  <2>. QED
    BY <2>2, <2>3
<1>5. PutBack(Reduced(Maker, MatchAmount)) = << >>
  <2>1. Maker \in Order /\ ~ByQuote(Maker)
    BY MatchedMaker, RestingFacts DEF ByQuote
  <2>2. Reduced(Maker, a).remaining_amount = y - a
    BY <1>3, <2>1 DEF Reduced, Order
  <2>. QED
    BY <1>2, <1>4, <2>2 DEF PutBack
<1>6. PICK q \in Seq(S) : q = Queue /\ q # << >>
  <2>1. Queue \in Seq(RestingOrder(MakerSide, level)) /\ Queue # << >>
    BY <1>1, LevelFacts DEF TypeOK, Queue, InLevel
  <2>. QED
    BY <1>0, <2>1
<1>7. PICK t \in Seq(S) : /\ t = Tail(q) /\ Len(t) = Len(q) - 1
                          /\ \A i \in 1 .. Len(t) : t[i] = q[i + 1]
  BY <1>6, HeadTailProperties
<1>8. Queue' = t
  <2>1. SetQueue(PutBack(Reduced(Maker, MatchAmount)) \o Tail(Queue))
    BY DEF MatchHead
  <2>2. << >> \o t = t
    BY ConcatEmptySeq
  <2>3. SetQueue(t)
    BY <1>5, <1>6, <1>7, <2>1, <2>2
  <2>. QED
    BY <1>1, <2>3, QueueAfter
<1>9. PICK n \in Nat : n = Len(q)
  BY LenProperties
<1>10. DOMAIN t = 1 .. n - 1 /\ DOMAIN q = 1 .. n
  BY <1>7, <1>9, LenProperties
<1>11. PICK k \in Int : k = queue_len - processed /\ queue_len' - processed' = k - 1
  BY <1>1 DEF TypeOK
<1>12. ASSUME NEW i \in 1 .. n - 1, i > k - 1
       PROVE  t[i].user_id = taker.user_id
  <2>1. i \in 1 .. Len(t) /\ i + 1 \in 1 .. n /\ i + 1 > k
    BY <1>7, <1>9, <1>12
  <2>2. t[i] = q[i + 1]
    BY <1>7, <2>1
  <2>3. q[i + 1].user_id = taker.user_id
    BY <1>1, <1>6, <1>10, <1>11, <2>1 DEF OwnLeft
  <2>. QED
    BY <2>2, <2>3
<1>. QED
  BY <1>1, <1>8, <1>10, <1>11, <1>12 DEF OwnLeft

LEMMA NextOwnLeft == TypeOK /\ Shape /\ OwnLeft /\ [Next]_vars => OwnLeft'
<1> SUFFICES ASSUME TypeOK, Shape, OwnLeft, [Next]_vars, phase' = "level" PROVE OwnLeft'
  BY DEF OwnLeft
<1>1. CASE UNCHANGED vars
  BY <1>1 DEF vars, loopVars, OwnLeft, Queue, MakerSide
<1>2. ASSUME NEW o \in Requests, SubmitOrder(o) \/ RejectOrder(o) PROVE OwnLeft'
  BY <1>1, <1>2 DEF SubmitOrder, RejectOrder
<1>3. CASE SubmissionStep
  <2>1. ASSUME NEW p \in Price, EnterLevel(p) PROVE OwnLeft'
    <3>1. /\ queue_len' = Len(orderbook[MakerSide][p]) /\ processed' = 0
          /\ orderbook' = orderbook /\ taker' = taker /\ level' = p
      BY <2>1 DEF EnterLevel
    <3>2. PICK q \in Seq(RestingOrder(MakerSide, p)) : q = orderbook[MakerSide][p]
      BY DEF TypeOK, MakerSide, Opposite, Side
    <3>3. Queue' = q
      BY <3>1, <3>2 DEF Queue, MakerSide
    <3>4. \A i \in DOMAIN q : ~(i > Len(q) - 0)
      BY LenProperties
    <3>. QED
      BY <3>1, <3>2, <3>3, <3>4 DEF OwnLeft
  <2>2. phase # "executing" /\ ~ExecuteTrade /\ ~FinishOrder
    BY <1>3 DEF SubmissionStep, EnterLevel, InLevel, FinishMatching, GiveUpLevel, SkipOwnOrder,
       DropUnmatchable, MatchHead, LeaveLevel, ExecuteTrade, FinishOrder, Executing
  <2>3. ~FinishMatching /\ ~GiveUpLevel /\ ~DropUnmatchable /\ ~LeaveLevel
    BY DEF FinishMatching, GiveUpLevel, DropUnmatchable, LeaveLevel
  <2>. QED
    BY <1>3, <2>1, <2>2, <2>3, SkipOwnLeft, MatchOwnLeft DEF SubmissionStep
<1>4. ASSUME NEW side \in Side, NEW p \in Price, NEW i \in DOMAIN orderbook[side][p],
             NEW u \in User, CancelOrder(side, p, i, u)
      PROVE  OwnLeft'
  BY <1>4 DEF CancelOrder
<1>5. ~Funding /\ ~LockingCommand
  BY DEF Funding, LockingCommand, UpdateBalance, LockCommand, UnlockCommand
<1>. QED
  BY <1>1, <1>2, <1>3, <1>4, <1>5 DEF Next

(* A popped order that does not come back was the taker's own, or the      *)
(* taker is a market buy.                                                  *)
LEMMA PopVanishes ==
  ASSUME TypeOK, Shape, OwnLeft, GiveUpLevel \/ DropUnmatchable, NEW o \in Resting(orderbook),
         o \notin Resting(orderbook')
  PROVE  o.user_id = taker.user_id \/ ByQuote(taker)
<1>1. InLevel /\ phase = "level" /\ SetQueue(Tail(Queue))
  BY DEF GiveUpLevel, DropUnmatchable, InLevel
<1>2. o = Maker
  BY <1>1, PopBook DEF Shape, UniqueIds
<1>3. CASE GiveUpLevel
  <2>1. queue_len \in Nat /\ processed \in Nat /\ processed + 1 > 2 * queue_len
    BY <1>3 DEF TypeOK, GiveUpLevel, GivesUp, PopCount
  <2>2. 1 > queue_len - processed
    BY <2>1
  <2>3. PICK q \in Seq(RestingOrder(MakerSide, level)) : q = Queue /\ q # << >>
    <3>1. Queue \in Seq(RestingOrder(MakerSide, level)) /\ Queue # << >>
      BY <1>1, LevelFacts DEF TypeOK, Queue, InLevel
    <3>. QED
      BY <3>1
  <2>4. 1 \in DOMAIN q /\ q[1] = Maker
    BY <2>3, EmptySeq, LenProperties DEF Maker
  <2>. QED
    BY <1>1, <1>2, <2>2, <2>3, <2>4 DEF OwnLeft
<1>4. CASE DropUnmatchable
  <2>1. SUFFICES ASSUME ~ByQuote(taker) PROVE FALSE
    OBVIOUS
  <2>2. PICK x \in Int, y \in Int : x = taker.remaining_amount /\ y = Maker.remaining_amount
    BY <1>1, LevelFacts DEF Order
  <2>3. x > 0 /\ y > 0
    BY <1>1, <2>1, <2>2, LevelFacts DEF TakerOrder, FullyFilled, RestingOrder
  <2>4. MatchAmount = IF y <= x THEN y ELSE x
    BY <2>1, <2>2 DEF MatchAmount, Smaller
  <2>. QED
    BY <1>4, <2>3, <2>4 DEF DropUnmatchable
<1>. QED
  BY <1>3, <1>4

(* A matched maker that leaves the book is filled.                         *)
LEMMA MatchKeeps ==
  ASSUME TypeOK, Shape, MatchHead
  PROVE  Vanished = {}
<1> SUFFICES ASSUME NEW o \in Resting(orderbook),
                    \A e \in Resting(orderbook') : e.id # o.id,
                    ledger'[o.id].filled # o.amount
             PROVE  FALSE
  BY DEF Vanished
<1>1. PICK a \in Nat \ {0} : a = MatchAmount /\ a <= Maker.remaining_amount
  BY MatchedTaker
<1>2. o = Maker
  BY MatchedMaker
<1>3. Maker \in Order /\ Maker.id \in DOMAIN ledger /\ Maker.id # taker.id
  BY MatchedMaker, RestingFacts
<1>4. PICK y \in Nat : y = Maker.remaining_amount
  BY MatchedMaker
<1>5. a = y
  <2>1. CASE Rest(Maker, a).remaining_amount > 0
    <3>1. Rest(Maker, a) \in Resting(orderbook')
      BY <1>1, <2>1, MatchedMaker
    <3>2. Rest(Maker, a).id = Maker.id
      BY <1>3 DEF Rest, Order
    <3>. QED
      BY <1>2, <3>1, <3>2
  <2>2. CASE ~(Rest(Maker, a).remaining_amount > 0)
    <3>1. Rest(Maker, a).remaining_amount = y - a
      BY <1>3, <1>4 DEF Rest, Order
    <3>2. a <= y
      BY <1>1, <1>4
    <3>. QED
      BY <2>2, <3>1, <3>2
  <2>. QED
    BY <2>1, <2>2
<1>6. PICK r \in RecordType : r = ledger[Maker.id]
  BY <1>3, RecordsTyped
<1>7. PICK f \in Int, z \in Int : f = r.filled /\ z = r.order.remaining_amount
  BY DEF RecordType, Order
<1>8. Maker = Left(r)
  BY <1>2, <1>6 DEF Shape, Booked
<1>9. Maker.remaining_amount = z - f /\ Maker.amount = r.order.amount
  BY <1>7, <1>8 DEF Left, RecordType, Order
<1>10. r.order.amount = z
  BY <1>3, <1>6, <1>7, MatchedSides DEF Shape, Accepted
<1>11. ledger'[Maker.id].filled = f + a
  BY <1>1, <1>3, <1>6, <1>7, MatchedRecords
<1>12. f + a = z
  BY <1>4, <1>5, <1>9
<1>. QED
  BY <1>2, <1>9, <1>10, <1>11, <1>12

(* A resting order's lock is there to be released, unless its owner        *)
(* overdrew.                                                               *)
LEMMA RestingUnlocks ==
  ASSUME TypeOK, Shape, Funds, NEW o \in Resting(orderbook), o.user_id \notin overdrawn
  PROVE  CanUnlock(balances, LockAccount(o), Obligation(o))
<1>1. PICK acc \in Account, n \in Nat : acc = LockAccount(o) /\ n = Obligation(o)
  BY RestingFacts
<1>2. ~Excused(acc)
  BY <1>1 DEF Excused, LockAccount
<1>3. PICK l \in Int, w \in Nat, t \in Nat, v \in Nat :
         /\ l = balances[acc].locked /\ w = OwedBy(Resting(orderbook), acc)
         /\ t = Unsettled(matches, settled, acc) /\ v = reserved[acc]
  BY Amounts
<1>4. l >= w + t + v
  BY <1>2, <1>3, FundsSuffice
<1>5. PICK s \in Nat : w = s + n
  <2>1. PICK S : S = Resting(orderbook) /\ Owers(S) /\ o \in S
    BY RestingFinite
  <2>2. OwedBy(S, acc) = OwedBy(S \ {o}, acc) + Share(o, acc) /\ OwedBy(S \ {o}, acc) \in Nat
    BY <2>1, OwedWithout
  <2>3. Share(o, acc) = n
    BY <1>1 DEF Share
  <2>. QED
    BY <1>3, <2>1, <2>2, <2>3
<1>6. l >= n
  BY <1>4, <1>5
<1>. QED
  BY <1>1, <1>3, <1>6 DEF CanUnlock

(* A cancelled order that keeps its lock belongs to a user who overdrew.   *)
LEMMA CancelVanishes ==
  ASSUME TypeOK, Shape, Funds, NEW side \in Side, NEW p \in Price,
         NEW i \in DOMAIN orderbook[side][p], NEW u \in User, CancelOrder(side, p, i, u),
         NEW r \in Vanished
  PROVE  r.user_id \in overdrawn
<1>1. PICK o : o = orderbook[side][p][i]
  OBVIOUS
<1>2. /\ r \in Resting(orderbook) /\ \A e \in Resting(orderbook') : e.id # r.id
      /\ ~ledger'[r.id].cancelled
  BY DEF Vanished
<1>3. Resting(orderbook') = Resting(orderbook) \ {o}
  BY <1>1, CancelledOrder
<1>4. r = o
  BY <1>2, <1>3
<1>5. ~CanUnlock(balances, LockAccount(o), Obligation(o))
  BY <1>1, <1>2, <1>4, CancelledOrder
<1>. QED
  BY <1>2, <1>4, <1>5, RestingUnlocks

(* A resting order leaves the book unfilled and uncancelled only while its *)
(* own user matches against it, while a market buy spends its last quote,  *)
(* or when an overdrawn user's cancellation cannot unlock (matcher.rs: the *)
(* popped order of a level given up; threads.rs: handle_cancel_order).     *)
THEOREM VanishingsExplained == Spec => OnlyOwnOrdersVanish
<1> DEFINE Explained ==
      /\ \A o \in VanishesInMatching : o.user_id = taker.user_id \/ ByQuote(taker)
      /\ \A o \in VanishesInCancel : o.user_id \in overdrawn
<1>1. Init => OwnLeft
  BY DEF Init, OwnLeft
<1>2. TypeOK /\ Shape /\ Funds /\ OwnLeft /\ [Next]_vars => [orderbook' # orderbook => Explained]_vars
  <2> SUFFICES ASSUME TypeOK, Shape, Funds, OwnLeft, Next, orderbook' # orderbook PROVE Explained
    OBVIOUS
  <2>1. ASSUME NEW o \in Requests, SubmitOrder(o) \/ RejectOrder(o) PROVE Explained
    BY <2>1 DEF SubmitOrder, RejectOrder, vars
  <2>2. CASE SubmissionStep
    <3>1. phase # "idle"
      BY <2>2 DEF SubmissionStep, EnterLevel, FinishMatching, GiveUpLevel, SkipOwnOrder,
         DropUnmatchable, MatchHead, LeaveLevel, ExecuteTrade, FinishOrder, InLevel, Executing
    <3>2. ASSUME NEW o \in Vanished PROVE o.user_id = taker.user_id \/ ByQuote(taker)
      <4>1. o \in Resting(orderbook) /\ o \notin Resting(orderbook')
        BY DEF Vanished
      <4>2. ~FinishMatching
        <5>1. ASSUME FinishMatching PROVE FALSE
          <6>1. phase = "matching" /\ orderbook' = AddOrder(orderbook, taker)
                /\ taker.order_side = "limit"
            BY <2>2, <5>1 DEF FinishMatching
          <6>2. taker \in Order /\ taker.price \in Price
            BY <6>1 DEF TypeOK, TakerOrder
          <6>3. Resting(orderbook') = Resting(orderbook) \cup {taker}
            BY <6>1, <6>2, RestBook DEF Shape, UniqueIds, FreshTaker
          <6>. QED
            BY <4>1, <6>3
        <5>. QED
          BY <5>1
      <4>3. ~SkipOwnOrder
        BY <4>1, SkipBook DEF SkipOwnOrder, Shape, UniqueIds
      <4>4. GiveUpLevel \/ DropUnmatchable
        BY <2>2, <3>2, <4>2, <4>3, MatchKeeps DEF SubmissionStep, EnterLevel, LeaveLevel,
           ExecuteTrade, FinishOrder
      <4>. QED
        BY <4>1, <4>4, PopVanishes
    <3>. QED
      BY <3>1, <3>2 DEF VanishesInMatching, VanishesInCancel
  <2>3. ASSUME NEW side \in Side, NEW p \in Price, NEW i \in DOMAIN orderbook[side][p],
               NEW u \in User, CancelOrder(side, p, i, u)
        PROVE  Explained
    <3>1. phase = "idle"
      BY <2>3 DEF CancelOrder
    <3>2. \A r \in Vanished : r.user_id \in overdrawn
      BY <2>3, CancelVanishes
    <3>. QED
      BY <3>1, <3>2 DEF VanishesInMatching, VanishesInCancel
  <2>4. ~Funding /\ ~LockingCommand
    BY DEF Funding, LockingCommand, UpdateBalance, LockCommand, UnlockCommand
  <2>. QED
    BY <2>1, <2>2, <2>3, <2>4 DEF Next
<1> HIDE DEF Explained
<1>3. TypeOK /\ Shape /\ OwnLeft /\ [Next]_vars => OwnLeft'
  BY NextOwnLeft
<1>4. OnlyOwnOrdersVanish <=> [][orderbook' # orderbook => Explained]_vars
  BY DEF OnlyOwnOrdersVanish, Explained
<1>. QED
  BY <1>1, <1>2, <1>3, <1>4, FundsInvariant, PTL DEF Spec


-----------------------------------------------------------------------------
(* Exact holds.                                                            *)

(* What a match takes from the lock of an order.                           *)
DueOf(m, id) == IF m.buy_order_id = id THEN TradeValue(m)
                ELSE IF m.sell_order_id = id THEN m.amount ELSE 0
DuesOf(ms, id) == [i \in 1 .. Len(ms) |-> DueOf(ms[i], id)]
UnsettledOf(ms, n, id) == Total(DuesOf(ms, id), n + 1 .. Len(ms))

LEMMA DueOfNat ==
  ASSUME NEW m \in MatchType, NEW id
  PROVE  DueOf(m, id) \in Nat
<1>1. m.price \in Nat /\ m.amount \in Nat
  BY DEF MatchType
<1>2. m.price * m.amount \in Nat
  BY <1>1, ProductNat
<1>. QED
  BY <1>1, <1>2 DEF DueOf, TradeValue

LEMMA UnsettledOfNat ==
  ASSUME NEW ms \in Seq(MatchType), NEW n \in 0 .. Len(ms), NEW id
  PROVE  /\ IsSum(DuesOf(ms, id), n + 1 .. Len(ms))
         /\ UnsettledOf(ms, n, id) \in Nat
<1>1. Len(ms) \in Nat /\ n + 1 .. Len(ms) \subseteq 1 .. Len(ms)
  BY LenProperties
<1>2. \A i \in 1 .. Len(ms) : ms[i] \in MatchType
  BY ElementOfSeq
<1>3. \A i \in n + 1 .. Len(ms) : DuesOf(ms, id)[i] \in Nat
  BY <1>1, <1>2, DueOfNat DEF DuesOf
<1>4. IsFiniteSet(n + 1 .. Len(ms))
  BY <1>1, FS_Interval
<1>5. IsSum(DuesOf(ms, id), n + 1 .. Len(ms))
  BY <1>3, <1>4 DEF IsSum
<1>. QED
  BY <1>5, UnitsFinite DEF UnsettledOf

LEMMA UnsettledOfNext ==
  ASSUME NEW ms \in Seq(MatchType), NEW n \in 0 .. Len(ms), n < Len(ms), NEW id
  PROVE  /\ UnsettledOf(ms, n, id) = DueOf(ms[n + 1], id) + UnsettledOf(ms, n + 1, id)
         /\ UnsettledOf(ms, n + 1, id) \in Nat /\ DueOf(ms[n + 1], id) \in Nat
<1>1. Len(ms) \in Nat /\ n \in Nat /\ n + 1 \in 1 .. Len(ms)
  BY LenProperties
<1>2. \A i \in n + 1 .. Len(ms) : DuesOf(ms, id)[i] \in Nat
  BY UnsettledOfNat DEF IsSum
<1>3. DuesOf(ms, id)[n + 1] = DueOf(ms[n + 1], id)
  BY <1>1 DEF DuesOf
<1>4. ms[n + 1] \in MatchType
  BY <1>1, ElementOfSeq
<1>5. DueOf(ms[n + 1], id) \in Nat
  BY <1>4, DueOfNat
<1>. QED
  BY <1>1, <1>2, <1>3, <1>5, WindowNext DEF UnsettledOf

LEMMA UnsettledOfMore ==
  ASSUME NEW ms \in Seq(MatchType), NEW n \in 0 .. Len(ms), NEW m \in MatchType, NEW id
  PROVE  /\ UnsettledOf(Append(ms, m), n, id) = UnsettledOf(ms, n, id) + DueOf(m, id)
         /\ UnsettledOf(ms, n, id) \in Nat /\ DueOf(m, id) \in Nat
<1>1. /\ Append(ms, m) \in Seq(MatchType) /\ Len(Append(ms, m)) = Len(ms) + 1
      /\ \A i \in 1 .. Len(ms) : Append(ms, m)[i] = ms[i]
      /\ Append(ms, m)[Len(ms) + 1] = m
  BY AppendProperties
<1>2. PICK k \in Nat : k = Len(ms)
  BY LenProperties
<1>3. PICK f : f = DuesOf(Append(ms, m), id)
  OBVIOUS
<1>4. \A i \in n + 1 .. k + 1 : f[i] \in Nat
  <2>1. n \in 0 .. Len(Append(ms, m)) /\ Len(Append(ms, m)) = k + 1
    BY <1>1, <1>2
  <2>2. IsSum(DuesOf(Append(ms, m), id), n + 1 .. Len(Append(ms, m)))
    BY <1>1, <2>1, UnsettledOfNat
  <2>. QED
    BY <1>3, <2>1, <2>2 DEF IsSum
<1>5. Total(f, n + 1 .. k + 1) = Total(f, n + 1 .. k) + f[k + 1]
  BY <1>2, <1>4, WindowMore
<1>6. f[k + 1] = DueOf(m, id)
  BY <1>1, <1>2, <1>3 DEF DuesOf
<1>7. \A i \in n + 1 .. k : f[i] = DuesOf(ms, id)[i]
  BY <1>1, <1>2, <1>3 DEF DuesOf
<1>8. Total(f, n + 1 .. k) = Total(DuesOf(ms, id), n + 1 .. k)
  BY <1>7, TotalSame
<1>. QED
  BY <1>1, <1>2, <1>3, <1>5, <1>6, <1>8, DueOfNat, UnsettledOfNat DEF UnsettledOf

LEMMA UnsettledOfNone ==
  ASSUME NEW ms \in Seq(MatchType), NEW id
  PROVE  UnsettledOf(ms, Len(ms), id) = 0
<1>1. Len(ms) + 1 .. Len(ms) = {}
  BY LenProperties
<1>. QED
  BY <1>1, TotalEmpty DEF UnsettledOf

(* What an order owes after its matches are settled.                       *)
Owed(r) == IF r.cancelled \/ r.order.order_side = "market" THEN 0 ELSE Obligation(Left(r))

IdleIsSettled == phase = "idle" => matches = << >>

(* The taker's lock is used up by settlements only; at its own price it    *)
(* suffices exactly for what is due and what is left.                      *)
TakerHold ==
  phase # "idle" =>
    /\ ledger[taker.id].hold = LockAmount(taker) - used
    /\ ~ledger[taker.id].improved =>
         used + Unsettled(matches, settled, LockAccount(taker)) + Remainder = LockAmount(taker)

OtherHolds ==
  \A i \in DOMAIN ledger :
    (phase # "idle" => i # taker.id) /\ ~ledger[i].improved =>
       ledger[i].hold = Owed(ledger[i]) + UnsettledOf(matches, settled, i)

Holding == IdleIsSettled /\ (overdrawn = {} => TakerHold /\ OtherHolds)

LEMMA OwedInt ==
  ASSUME NEW r \in RecordType
  PROVE  Owed(r) \in Int /\ r.hold \in Int
<1>1. Left(r) \in Order
  BY DEF Left, RecordType, Order
<1>. QED
  BY <1>1, OrderFacts DEF Owed, RecordType

(* Nothing is unsettled without matches.                                   *)
LEMMA NothingUnsettled ==
  ASSUME NEW x
  PROVE  Unsettled(<< >>, 0, x) = 0 /\ UnsettledOf(<< >>, 0, x) = 0
<1>1. << >> \in Seq(MatchType) /\ Len(<< >>) = 0
  BY EmptySeq
<1>. QED
  BY <1>1, UnsettledNone, UnsettledOfNone

LEMMA IdleUnsettled ==
  ASSUME TypeOK, Holding, phase = "idle"
  PROVE  /\ matches = << >> /\ settled = 0
         /\ \A i : UnsettledOf(matches, settled, i) = 0
<1>1. matches = << >>
  BY DEF Holding, IdleIsSettled
<1>2. settled = 0
  BY <1>1, EmptySeq DEF TypeOK
<1>. QED
  BY <1>1, <1>2, NothingUnsettled

LEMMA InitHolding == Init => Holding
<1> SUFFICES ASSUME Init PROVE Holding
  OBVIOUS
<1>1. phase = "idle" /\ matches = << >> /\ DOMAIN ledger = {}
  BY EmptySeq DEF Init
<1>. QED
  BY <1>1 DEF Holding, IdleIsSettled, TakerHold, OtherHolds

(* Steps that neither match nor settle nor release.                        *)
LEMMA SameHolding ==
  ASSUME Holding, UNCHANGED <<taker, ledger, matches, settled, used, overdrawn>>,
         phase' = "idle" <=> phase = "idle"
  PROVE  Holding'
<1>1. IdleIsSettled'
  BY DEF Holding, IdleIsSettled
<1>2. TakerHold => TakerHold'
  BY DEF TakerHold, Remainder
<1>3. OtherHolds => OtherHolds'
  BY DEF OtherHolds
<1>. QED
  BY <1>1, <1>2, <1>3 DEF Holding

LEMMA SubmitHolding ==
  ASSUME TypeOK, Shape, Holding, NEW o \in Requests, SubmitOrder(o)
  PROVE  Holding'
<1>1. /\ phase = "idle" /\ phase' = "matching" /\ taker' = o /\ matches' = << >> /\ settled' = 0
      /\ used' = 0 /\ overdrawn' = overdrawn /\ ledger' = Append(ledger, Record(o))
  BY DEF SubmitOrder
<1>2. PICK q \in Seq(RecordType), n \in Nat : q = ledger /\ n = Len(q) /\ DOMAIN q = 1 .. n
  BY LenProperties DEF TypeOK
<1>3. o.id = n + 1 /\ o \in Order
  BY <1>2, RequestFacts
<1>4. LockAmount(o) \in Nat
  BY RequestFacts
<1>5. Record(o) \in RecordType
  BY <1>3, <1>4 DEF Record, RecordType
<1>6. /\ DOMAIN ledger' = 1 .. n + 1 /\ ledger'[n + 1] = Record(o)
      /\ \A i \in 1 .. n : ledger'[i] = ledger[i]
  <2>1. PICK r \in RecordType : r = Record(o)
    BY <1>5
  <2>2. /\ Append(q, r) \in Seq(RecordType) /\ Len(Append(q, r)) = Len(q) + 1
        /\ \A i \in 1 .. Len(q) : Append(q, r)[i] = q[i]
        /\ Append(q, r)[Len(q) + 1] = r
    BY AppendProperties
  <2>3. DOMAIN Append(q, r) = 1 .. Len(q) + 1
    BY <2>2, LenProperties
  <2>. QED
    BY <1>1, <1>2, <2>1, <2>2, <2>3
<1>7. TakerHold'
  <2>1. PICK h \in Nat : h = LockAmount(o)
    BY <1>4
  <2>2. ledger'[taker'.id].hold = h
    BY <1>1, <1>3, <1>6, <2>1 DEF Record
  <2>3. Unsettled(matches', settled', LockAccount(taker')) = 0
    BY <1>1, NothingUnsettled
  <2>4. Remainder' = h
    <3>1. CASE ByQuote(o)
      <4>1. o.quote_amount = o.remaining_quote_amount
        BY DEF Requests, Incoming
      <4>. QED
        BY <1>1, <2>1, <3>1, <4>1 DEF LockAmount, ByQuote, Remainder
    <3>2. CASE ~ByQuote(o)
      <4>1. o.amount = o.remaining_amount
        BY DEF Requests, Incoming
      <4>2. o.order_type \in {"buy", "sell"}
        BY <1>3 DEF Order, Side
      <4>. QED
        BY <1>1, <2>1, <3>2, <4>1, <4>2 DEF LockAmount, Obligation, Remainder
    <3>. QED
      BY <3>1, <3>2
  <2>. QED
    BY <1>1, <2>1, <2>2, <2>3, <2>4 DEF TakerHold
<1>8. OtherHolds => OtherHolds'
  <2>1. ASSUME OtherHolds, NEW i \in DOMAIN ledger', phase' # "idle" => i # taker'.id,
               ~ledger'[i].improved
        PROVE  ledger'[i].hold = Owed(ledger'[i]) + UnsettledOf(matches', settled', i)
    <3>1. i \in DOMAIN ledger /\ ledger'[i] = ledger[i]
      BY <1>1, <1>2, <1>3, <1>6, <2>1
    <3>2. UnsettledOf(matches, settled, i) = 0 /\ UnsettledOf(matches', settled', i) = 0
      BY <1>1, IdleUnsettled, NothingUnsettled
    <3>3. ledger[i].hold = Owed(ledger[i]) + UnsettledOf(matches, settled, i)
      BY <1>1, <2>1, <3>1 DEF OtherHolds
    <3>. QED
      BY <3>1, <3>2, <3>3
  <2>. QED
    BY <2>1 DEF OtherHolds
<1>9. IdleIsSettled'
  BY <1>1 DEF IdleIsSettled
<1>. QED
  BY <1>1, <1>7, <1>8, <1>9 DEF Holding


(* A match makes due of the maker what it no longer owes by resting, and   *)
(* of no third order anything.                                             *)
LEMMA MatchDueOf ==
  ASSUME TypeOK, Shape, MatchHead
  PROVE  LET m == MatchResult(MatchAmount)
         IN  /\ m \in MatchType
             /\ DueOf(m, Maker.id) = Obligation(Maker) - Obligation(Rest(Maker, MatchAmount))
             /\ \A i : i \notin {taker.id, Maker.id} => DueOf(m, i) = 0
<1>1. PICK m \in MatchType : m = MatchResult(MatchAmount)
  BY MatchDue
<1>2. /\ Maker \in Order /\ Maker.order_type = Opposite(taker.order_type) /\ Maker.id # taker.id
      /\ taker.order_type \in {"buy", "sell"}
  BY MatchedMaker, RestingFacts, MatchedTaker DEF MakerSide, Order, Side
<1>3. DueIn(m, LockAccount(Maker)) = Obligation(Maker) - Obligation(Rest(Maker, MatchAmount))
  BY <1>1, MatchDue
<1>4. CASE taker.order_type = "buy"
  <2>1. /\ m.buy_order_id = taker.id /\ m.sell_order_id = Maker.id /\ m.seller_id = Maker.user_id
        /\ m.buyer_id = taker.user_id
    BY <1>1, <1>4 DEF MatchResult
  <2>2. LockAccount(Maker) = BaseAccount(m.seller_id) /\ LockAccount(Maker) # QuoteAccount(m.buyer_id)
    BY <1>2, <1>4, <2>1 DEF LockAccount, LockMint, Opposite, BaseAccount, QuoteAccount
  <2>3. DueIn(m, LockAccount(Maker)) = m.amount /\ DueOf(m, Maker.id) = m.amount
    BY <1>2, <2>1, <2>2 DEF DueIn, DueOf
  <2>. QED
    BY <1>1, <1>3, <2>1, <2>3 DEF DueOf
<1>5. CASE taker.order_type = "sell"
  <2>1. /\ m.buy_order_id = Maker.id /\ m.sell_order_id = taker.id /\ m.buyer_id = Maker.user_id
        /\ m.seller_id = taker.user_id
    BY <1>1, <1>5 DEF MatchResult
  <2>2. LockAccount(Maker) = QuoteAccount(m.buyer_id) /\ LockAccount(Maker) # BaseAccount(m.seller_id)
    BY <1>2, <1>5, <2>1 DEF LockAccount, LockMint, Opposite, BaseAccount, QuoteAccount
  <2>3. DueIn(m, LockAccount(Maker)) = TradeValue(m) /\ DueOf(m, Maker.id) = TradeValue(m)
    BY <1>2, <2>1, <2>2 DEF DueIn, DueOf
  <2>. QED
    BY <1>1, <1>3, <2>1, <2>3 DEF DueOf
<1>. QED
  BY <1>2, <1>4, <1>5

LEMMA MatchHolding ==
  ASSUME TypeOK, Shape, Holding, MatchHead
  PROVE  Holding'
<1>1. /\ UNCHANGED <<settled, used>> /\ phase = "level" /\ phase' # "idle"
      /\ overdrawn \subseteq overdrawn'
      /\ matches' = Append(matches, MatchResult(MatchAmount))
      /\ taker'.id = taker.id
  BY MatchedTaker DEF MatchHead, InLevel
<1>2. LockAccount(taker') = LockAccount(taker) /\ LockAmount(taker') = LockAmount(taker)
  BY MatchedTaker DEF LockAccount, LockMint, LockAmount, ByQuote
<1>3. PICK m \in MatchType : m = MatchResult(MatchAmount)
  BY MatchDue
<1>4. settled \in 0 .. Len(matches) /\ matches \in Seq(MatchType)
  BY MatchesTyped DEF TypeOK
<1>5. taker.id \in DOMAIN ledger /\ Maker.id \in DOMAIN ledger /\ Maker.id # taker.id
  BY MatchedTaker, MatchedMaker
<1>6. ASSUME TakerHold PROVE TakerHold'
  <2>1. ledger'[taker.id].hold = ledger[taker.id].hold
    BY <1>5, MatchedRecords
  <2>2. ASSUME ~ledger'[taker.id].improved
        PROVE  used' + Unsettled(matches', settled', LockAccount(taker')) + Remainder'
                 = LockAmount(taker')
    <3>1. ~ledger[taker.id].improved /\ (taker.order_type = "buy" => ~(level < taker.price))
      BY <2>2, MatchedRecords
    <3>2. PICK acc : acc = LockAccount(taker)
      OBVIOUS
    <3>3. PICK u \in Nat, d \in Nat, k \in Int :
            u = Unsettled(matches, settled, acc) /\ d = DueIn(m, acc) /\ k = used
      BY <1>4, UnsettledMore DEF TypeOK
    <3>4. Unsettled(matches', settled', acc) = u + d
      BY <1>1, <1>3, <1>4, <3>3, UnsettledMore
    <3>5. PICK x \in Int, y \in Int : x = Remainder /\ y = Remainder' /\ y + d = x
      BY <1>3, <3>1, <3>2, <3>3, RemainderDrops
    <3>6. k + u + x = LockAmount(taker)
      BY <1>1, <1>6, <3>1, <3>2, <3>3, <3>5 DEF TakerHold
    <3>7. k + (u + d) + y = k + u + x
      <4>1. y + d = x
        BY <3>5
      <4>. QED
        BY <4>1
    <3>. QED
      BY <1>1, <1>2, <3>2, <3>3, <3>4, <3>5, <3>6, <3>7
  <2>. QED
    BY <1>1, <1>2, <1>6, <2>1, <2>2 DEF TakerHold
<1>7. ASSUME OtherHolds PROVE OtherHolds'
  <2>1. ASSUME NEW i \in DOMAIN ledger, i # taker.id, ~ledger'[i].improved
        PROVE  ledger'[i].hold = Owed(ledger'[i]) + UnsettledOf(matches', settled', i)
    <3>1. ~ledger[i].improved /\ ledger'[i].hold = ledger[i].hold
      BY <2>1, MatchedRecords
    <3>2. ledger[i].hold = Owed(ledger[i]) + UnsettledOf(matches, settled, i)
      BY <1>7, <2>1, <3>1 DEF OtherHolds
    <3>3. PICK u \in Nat, d \in Nat : u = UnsettledOf(matches, settled, i) /\ d = DueOf(m, i)
      BY <1>4, UnsettledOfMore
    <3>4. UnsettledOf(matches', settled', i) = u + d
      BY <1>1, <1>3, <1>4, <3>3, UnsettledOfMore
    <3>5. PICK x \in Int : x = Owed(ledger[i])
      BY RecordsTyped, OwedInt
    <3>6. Owed(ledger'[i]) = x - d
      <4>1. CASE i # Maker.id
        <5>1. d = 0
          BY <1>3, <2>1, <3>3, <4>1, MatchDueOf
        <5>2. /\ ledger'[i].order = ledger[i].order /\ ledger'[i].cancelled = ledger[i].cancelled
              /\ ledger'[i].filled = ledger[i].filled
          BY <2>1, <4>1, MatchedRecords
        <5>3. Owed(ledger'[i]) = x
          BY <3>5, <5>2 DEF Owed, Left
        <5>. QED
          BY <5>1, <5>3
      <4>2. CASE i = Maker.id
        <5>1. PICK r \in RecordType, a \in Nat, f \in Int :
                 r = ledger[i] /\ a = MatchAmount /\ f = r.filled
          BY RecordsTyped, MatchedTaker DEF RecordType
        <5>2. /\ ledger'[i].order = r.order /\ ledger'[i].cancelled = r.cancelled
              /\ ledger'[i].filled = f + a
          BY <4>2, <5>1, MatchedRecords
        <5>3. Maker = Left(r) /\ ~r.cancelled /\ r.order.order_side = "limit"
          BY <4>2, <5>1, MatchedMaker, MatchedSides DEF Shape, Booked
        <5>4. x = Obligation(Maker)
          BY <3>5, <5>1, <5>3 DEF Owed
        <5>5. Left(ledger'[i]) = Rest(Maker, a)
          <6>1. r.order.remaining_amount \in Int
            BY DEF RecordType, Order
          <6>2. Left(ledger'[i]) = [r.order EXCEPT !.remaining_amount = @ - (f + a)]
            BY <5>2 DEF Left
          <6>3. Maker = [r.order EXCEPT !.remaining_amount = @ - f]
            BY <5>1, <5>3 DEF Left
          <6>4. \A n \in Int : n - (f + a) = (n - f) - a
            OBVIOUS
          <6>5. Rest(Maker, a) = [r.order EXCEPT !.remaining_amount = (@ - f) - a]
            BY <6>3 DEF Rest, RecordType, Order
          <6>. QED
            BY <6>1, <6>2, <6>4, <6>5
        <5>6. Owed(ledger'[i]) = Obligation(Rest(Maker, a))
          BY <5>2, <5>3, <5>5 DEF Owed
        <5>7. d = x - Obligation(Rest(Maker, a))
          BY <1>3, <3>3, <4>2, <5>1, <5>4, MatchDueOf
        <5>8. Obligation(Rest(Maker, a)) \in Int
          BY <5>1, MatchedMaker, OrderFacts
        <5>. QED
          BY <5>6, <5>7, <5>8
      <4>. QED
        BY <4>1, <4>2
    <3>7. ledger[i].hold = x + u
      BY <3>2, <3>3, <3>5
    <3>8. x + u = (x - d) + (u + d)
      OBVIOUS
    <3>. QED
      BY <3>1, <3>4, <3>6, <3>7, <3>8
  <2>2. DOMAIN ledger' = DOMAIN ledger
    BY MatchedRecords
  <2>. QED
    BY <1>1, <2>1, <2>2 DEF OtherHolds
<1>8. IdleIsSettled'
  BY <1>1 DEF IdleIsSettled
<1>9. overdrawn' = {} => overdrawn = {}
  BY <1>1
<1>. QED
  BY <1>6, <1>7, <1>8, <1>9 DEF Holding

(* Settling a match releases of each order what was due of it.             *)
LEMMA ExecuteHolding ==
  ASSUME TypeOK, Shape, Funds, Holding, ExecuteTrade
  PROVE  Holding'
<1>1. /\ Executing /\ phase = "executing" /\ settled' = settled + 1
      /\ UNCHANGED <<phase, taker, matches, overdrawn>>
  BY DEF ExecuteTrade, Executing
<1>2. IdleIsSettled'
  BY <1>1 DEF IdleIsSettled
<1>3. SUFFICES ASSUME overdrawn = {} PROVE TakerHold' /\ OtherHolds'
  BY <1>1, <1>2 DEF Holding
<1>4. /\ ledger' = Release(Release(ledger, Trade.buy_order_id, TradeValue(Trade)),
                           Trade.sell_order_id, Trade.amount)
      /\ used' = used + Usage(Trade)
  BY <1>3, ExecutedTrade
<1>5. PICK b \in DOMAIN ledger, s \in DOMAIN ledger, v \in Nat, a \in Nat :
         b = Trade.buy_order_id /\ s = Trade.sell_order_id /\ v = TradeValue(Trade) /\ a = Trade.amount
  BY <1>1, TradeFacts
<1>6. taker \in Order /\ settled + 1 \in DOMAIN matches /\ matches \in Seq(MatchType)
      /\ settled \in 0 .. Len(matches) /\ settled < Len(matches)
  BY <1>1, MatchesTyped, LenProperties DEF Executing, TypeOK, TakerOrder
<1>7. b # s /\ DueOf(Trade, taker.id) = Usage(Trade)
  <2>1. IF taker.order_type = "buy" THEN b = taker.id /\ s # taker.id
                                    ELSE s = taker.id /\ b # taker.id
    BY <1>1, <1>5, <1>6 DEF Shape, TakerTrades, Trade
  <2>. QED
    BY <1>5, <2>1 DEF DueOf, Usage
<1>8. /\ SameRecords(ledger', ledger)
      /\ \A i \in DOMAIN ledger : ledger'[i].hold = ledger[i].hold - DueOf(Trade, i)
  <2>1. PICK l : l = Release(ledger, b, v)
    OBVIOUS
  <2>2. ledger \in Seq(RecordType) /\ v \in Int /\ a \in Int
    BY DEF TypeOK
  <2>3. /\ l \in Seq(RecordType) /\ DOMAIN l = DOMAIN ledger /\ SameRecords(l, ledger)
        /\ \A i \in DOMAIN ledger : l[i].hold = IF i = b THEN ledger[i].hold - v ELSE ledger[i].hold
    BY <2>1, <2>2, ReleaseType, ReleaseRecords
  <2>4. ledger' = Release(l, s, a)
    BY <1>4, <1>5, <2>1
  <2>5. /\ SameRecords(ledger', l)
        /\ \A i \in DOMAIN l : ledger'[i].hold = IF i = s THEN l[i].hold - a ELSE l[i].hold
    BY <2>2, <2>3, <2>4, ReleaseRecords
  <2>6. SameRecords(ledger', ledger)
    BY <2>3, <2>5 DEF SameRecords
  <2>7. ASSUME NEW i \in DOMAIN ledger
        PROVE  ledger'[i].hold = ledger[i].hold - DueOf(Trade, i)
    <3>1. DueOf(Trade, i) = IF i = b THEN v ELSE IF i = s THEN a ELSE 0
      BY <1>5 DEF DueOf
    <3>2. PICK h \in Int : h = ledger[i].hold
      BY RecordsTyped, OwedInt
    <3>3. l[i].hold = IF i = b THEN h - v ELSE h
      BY <2>3, <3>2
    <3>4. ledger'[i].hold = IF i = s THEN l[i].hold - a ELSE l[i].hold
      BY <2>3, <2>5
    <3>5. ledger'[i].hold = IF i = b THEN h - v ELSE IF i = s THEN h - a ELSE h
      BY <1>7, <3>3, <3>4
    <3>. QED
      BY <3>1, <3>2, <3>5
  <2>. QED
    BY <2>6, <2>7
<1>9. TakerHold'
  <2>1. PICK h \in Int, k \in Int, x \in Nat, w \in Nat, y \in Int, n \in Int :
          /\ h = ledger[taker.id].hold /\ k = used /\ x = Usage(Trade)
          /\ w = Unsettled(matches, settled + 1, LockAccount(taker)) /\ y = Remainder
          /\ n = LockAmount(taker)
    <3>1. taker.id \in DOMAIN ledger
      BY <1>1 DEF TypeOK, TakerOrder, OrderId
    <3>2. ledger[taker.id].hold \in Int
      BY <3>1, RecordsTyped, OwedInt
    <3>3. used \in Int /\ Remainder \in Int /\ LockAmount(taker) \in Int
      BY <1>1, TakerAmounts DEF TypeOK
    <3>4. Usage(Trade) \in Nat /\ Unsettled(matches, settled + 1, LockAccount(taker)) \in Nat
      BY <1>1, TradeDue
    <3>. QED
      BY <3>2, <3>3, <3>4
  <2>2. Unsettled(matches, settled, LockAccount(taker)) = x + w
    BY <1>1, <2>1, TradeDue
  <2>3. TakerHold
    BY <1>3 DEF Holding
  <2>4. h = n - k /\ (~ledger[taker.id].improved => k + (x + w) + y = n)
    BY <1>1, <2>1, <2>2, <2>3 DEF TakerHold
  <2>5. taker.id \in DOMAIN ledger
    BY <1>1 DEF TypeOK, TakerOrder, OrderId
  <2>6. ledger'[taker.id].hold = h - x /\ ledger'[taker.id].improved = ledger[taker.id].improved
    BY <1>7, <1>8, <2>1, <2>5 DEF SameRecords
  <2>7. h - x = n - (k + x) /\ (k + (x + w) + y = n => (k + x) + w + y = n)
    BY <2>4
  <2>8. used' = k + x /\ Remainder' = y
    BY <1>1, <1>4, <2>1 DEF Remainder
  <2>. QED
    BY <1>1, <2>1, <2>4, <2>6, <2>7, <2>8 DEF TakerHold
<1>10. OtherHolds'
  <2>1. ASSUME NEW i \in DOMAIN ledger, i # taker.id, ~ledger'[i].improved
        PROVE  ledger'[i].hold = Owed(ledger'[i]) + UnsettledOf(matches', settled', i)
    <3>1. Owed(ledger'[i]) = Owed(ledger[i]) /\ ~ledger[i].improved
      BY <1>8, <2>1 DEF SameRecords, Owed, Left
    <3>2. ledger[i].hold = Owed(ledger[i]) + UnsettledOf(matches, settled, i)
      BY <1>3, <2>1, <3>1 DEF Holding, OtherHolds
    <3>3. PICK x \in Int, d \in Nat, w \in Nat :
             /\ x = Owed(ledger[i]) /\ d = DueOf(Trade, i) /\ w = UnsettledOf(matches, settled + 1, i)
             /\ UnsettledOf(matches, settled, i) = d + w
      <4>1. Owed(ledger[i]) \in Int
        BY RecordsTyped, OwedInt
      <4>2. /\ UnsettledOf(matches, settled, i) = DueOf(Trade, i) + UnsettledOf(matches, settled + 1, i)
            /\ UnsettledOf(matches, settled + 1, i) \in Nat /\ DueOf(Trade, i) \in Nat
        BY <1>6, UnsettledOfNext DEF Trade
      <4>. QED
        BY <4>1, <4>2
    <3>4. ledger'[i].hold = (x + (d + w)) - d
      BY <1>8, <3>2, <3>3
    <3>5. (x + (d + w)) - d = x + w
      OBVIOUS
    <3>. QED
      BY <1>1, <3>1, <3>3, <3>4, <3>5
  <2>2. DOMAIN ledger' = DOMAIN ledger
    BY <1>8 DEF SameRecords
  <2>. QED
    BY <1>1, <2>1, <2>2 DEF OtherHolds
<1>. QED
  BY <1>9, <1>10


(* What the taker's lock still holds when everything is settled is what is *)
(* left of it: the refund of a market order, the dues of a resting one.    *)
LEMMA TakerLeft ==
  ASSUME TypeOK, Shape, Funds, Holding, overdrawn = {}, FinishOrder, ~ledger[taker.id].improved
  PROVE  /\ ledger[taker.id].hold = LockAmount(taker) - used
         /\ ledger[taker.id].hold = Remainder /\ Remainder \in Nat
<1>1. phase = "executing" /\ settled = Len(matches)
  BY DEF FinishOrder
<1>2. PICK h \in Int, k \in Int, y \in Int, n \in Int :
         h = ledger[taker.id].hold /\ k = used /\ y = Remainder /\ n = LockAmount(taker)
  <2>1. taker.id \in DOMAIN ledger
    BY <1>1 DEF TypeOK, TakerOrder, OrderId
  <2>2. ledger[taker.id].hold \in Int
    BY <2>1, RecordsTyped, OwedInt
  <2>3. used \in Int /\ Remainder \in Int /\ LockAmount(taker) \in Int
    BY <1>1, TakerAmounts DEF TypeOK
  <2>. QED
    BY <2>2, <2>3
<1>3. Unsettled(matches, settled, LockAccount(taker)) = 0
  BY <1>1, MatchesTyped, UnsettledNone
<1>4. TakerHold
  BY DEF Holding
<1>5. h = n - k /\ k + 0 + y = n
  BY <1>1, <1>2, <1>3, <1>4 DEF TakerHold
<1>6. y = n - k
  BY <1>5
<1>7. y \in Nat
  <2>1. CASE ByQuote(taker)
    <3>1. ~(taker.remaining_quote_amount < 0)
      BY <1>1, <2>1 DEF Funds, Budget
    <3>. QED
      BY <1>2, <2>1, <3>1 DEF Remainder
  <2>2. CASE ~ByQuote(taker)
    BY <1>1, <1>2, <2>2, TakerAmounts
  <2>. QED
    BY <2>1, <2>2
<1>. QED
  BY <1>2, <1>5, <1>6, <1>7

(* The refund of an order that keeps nothing in the book.                  *)
LEMMA RefundUnlocks ==
  ASSUME TypeOK, Shape, Funds, overdrawn = {}, FinishOrder, Refund > 0
  PROVE  CanUnlock(balances, LockAccount(taker), Refund)
<1>1. phase = "executing"
  BY DEF FinishOrder
<1>2. Refundable /\ Refund = LockAmount(taker) - used
  BY DEF Refund, Refundable
<1>3. PICK acc \in Account, n \in Int : acc = LockAccount(taker) /\ n = LockAmount(taker)
  <2>1. LockAccount(taker) \in Account /\ LockAmount(taker) \in Int
    BY <1>1, TakerAmounts
  <2>. QED
    BY <2>1
<1>4. PICK l \in Int, r \in Nat, v \in Nat, k \in Int :
         /\ l = balances[acc].locked /\ r = OwedBy(Resting(orderbook), acc)
         /\ v = reserved[acc] /\ k = used
  BY Amounts
<1>5. Covers(acc)
  BY DEF Funds, Covered, Excused
<1>6. l >= r + v + n - k
  BY <1>1, <1>2, <1>3, <1>4, <1>5 DEF Covers
<1>7. l >= n - k
  BY <1>6
<1>. QED
  BY <1>2, <1>3, <1>4, <1>7 DEF CanUnlock

LEMMA FinishOrderHolding ==
  ASSUME TypeOK, Shape, Funds, Holding, FinishOrder
  PROVE  Holding'
<1>1. /\ phase = "executing" /\ phase' = "idle" /\ settled = Len(matches)
      /\ matches' = << >> /\ settled' = 0 /\ overdrawn' = overdrawn
  BY DEF FinishOrder
<1>2. SUFFICES ASSUME overdrawn = {} PROVE OtherHolds'
  BY <1>1 DEF Holding, IdleIsSettled, TakerHold
<1>3. /\ \A i : UnsettledOf(matches, settled, i) = 0
      /\ \A i : UnsettledOf(matches', settled', i) = 0
  BY <1>1, MatchesTyped, UnsettledOfNone, NothingUnsettled
<1>4. PICK t \in DOMAIN ledger, f \in Int : t = taker.id /\ f = Refund
  <2>1. taker \in Order /\ taker.id \in DOMAIN ledger
    BY <1>1 DEF TypeOK, TakerOrder, OrderId
  <2>. QED
    BY <2>1, OrderFacts DEF Refund, TypeOK
<1>5. ledger' = IF f > 0 THEN Release(ledger, t, f) ELSE ledger
  BY <1>2, <1>4, RefundUnlocks DEF FinishOrder
<1>6. /\ SameRecords(ledger', ledger)
      /\ \A i \in DOMAIN ledger :
           ledger'[i].hold = IF i = t /\ f > 0 THEN ledger[i].hold - f ELSE ledger[i].hold
  <2>1. CASE f > 0
    <3>1. ledger \in Seq(RecordType)
      BY DEF TypeOK
    <3>. QED
      BY <1>5, <2>1, <3>1, ReleaseRecords
  <2>2. CASE ~(f > 0)
    BY <1>5, <2>2 DEF SameRecords
  <2>. QED
    BY <2>1, <2>2
<1>7. ASSUME NEW i \in DOMAIN ledger, ~ledger[i].improved
      PROVE  ledger'[i].hold = Owed(ledger[i])
  <2>1. CASE i # t
    <3>1. ledger[i].hold = Owed(ledger[i]) + 0
      BY <1>2, <1>3, <1>4, <1>7, <2>1 DEF Holding, OtherHolds
    <3>2. Owed(ledger[i]) \in Int
      BY RecordsTyped, OwedInt
    <3>. QED
      BY <1>6, <2>1, <3>1, <3>2
  <2>2. CASE i = t
    <3>1. PICK y \in Nat : /\ y = Remainder /\ ledger[t].hold = y
                           /\ y = LockAmount(taker) - used
      BY <1>2, <1>4, <1>7, <2>2, TakerLeft
    <3>2. f = IF taker.order_side = "market" \/ FullyFilled(taker) THEN y ELSE 0
      BY <1>4, <3>1 DEF Refund
    <3>3. PICK r \in RecordType : r = ledger[t]
      BY RecordsTyped
    <3>4. ~r.cancelled /\ r.order \in Order /\ taker \in Order
      BY <1>1, <1>4, <3>3 DEF Shape, TakerRecord, RecordType, TypeOK, TakerOrder
    <3>5. CASE taker.order_side = "market"
      <4>1. r.order.order_side = "market"
        <5>1. PICK n, m : n = taker.remaining_quote_amount /\ m = r.filled
          OBVIOUS
        <5>2. \/ taker = [r.order EXCEPT !.remaining_quote_amount = n]
              \/ taker = [r.order EXCEPT !.remaining_amount = @ - m]
          BY <1>1, <1>4, <3>3, <5>1 DEF Shape, TakerRecord, Left
        <5>. QED
          BY <3>4, <3>5, <5>2 DEF Order
      <4>2. Owed(ledger[i]) = 0
        BY <2>2, <3>3, <4>1 DEF Owed
      <4>3. ledger'[t].hold = IF y > 0 THEN y - y ELSE y
        BY <1>6, <3>1, <3>2, <3>5
      <4>. QED
        BY <2>2, <4>2, <4>3
    <3>6. CASE taker.order_side # "market"
      <4>1. ~ByQuote(taker)
        BY <3>6 DEF ByQuote
      <4>2. taker = Left(r)
        BY <1>1, <1>4, <3>3, <4>1 DEF Shape, TakerRecord
      <4>3. r.order.order_side # "market"
        BY <3>4, <3>6, <4>2 DEF Left, Order
      <4>4. Owed(ledger[i]) = y
        BY <2>2, <3>1, <3>3, <3>4, <4>1, <4>2, <4>3 DEF Owed, Remainder
      <4>5. FullyFilled(taker) => y = 0
        <5>1. ASSUME FullyFilled(taker) PROVE Obligation(taker) = 0
          <6>1. taker.remaining_amount = 0
            BY <4>1, <5>1 DEF FullyFilled
          <6>2. taker.price \in Int
            BY <3>4, PriceInt DEF Order
          <6>. QED
            BY <6>1, <6>2 DEF Obligation
        <5>. QED
          BY <3>1, <4>1, <5>1 DEF Remainder
      <4>6. ~(f > 0)
        BY <3>2, <3>6, <4>5
      <4>. QED
        BY <1>6, <2>2, <3>1, <4>4, <4>6
    <3>. QED
      BY <3>5, <3>6
  <2>. QED
    BY <2>1, <2>2
<1>8. ASSUME NEW i \in DOMAIN ledger, ~ledger'[i].improved
      PROVE  ledger'[i].hold = Owed(ledger'[i]) + UnsettledOf(matches', settled', i)
  <2>1. Owed(ledger'[i]) = Owed(ledger[i]) /\ ~ledger[i].improved
    BY <1>6, <1>8 DEF SameRecords, Owed, Left
  <2>2. Owed(ledger[i]) \in Int
    BY RecordsTyped, OwedInt
  <2>. QED
    BY <1>3, <1>7, <2>1, <2>2
<1>. QED
  BY <1>6, <1>8 DEF OtherHolds, SameRecords

LEMMA CancelHolding ==
  ASSUME TypeOK, Shape, Funds, Holding, NEW side \in Side, NEW p \in Price,
         NEW i \in DOMAIN orderbook[side][p], NEW u \in User, CancelOrder(side, p, i, u)
  PROVE  Holding'
<1>1. phase = "idle" /\ UNCHANGED <<phase, taker, matches, settled, used, overdrawn>>
  BY DEF CancelOrder
<1>2. SUFFICES ASSUME overdrawn = {} PROVE OtherHolds'
  BY <1>1 DEF Holding, IdleIsSettled, TakerHold
<1>3. PICK o : o = orderbook[side][p][i]
  OBVIOUS
<1>4. o \in Resting(orderbook) /\ o.id \in DOMAIN ledger
  BY <1>3, CancelledOrder
<1>5. PICK n \in Nat : n = Obligation(o)
  BY <1>4, RestingFacts
<1>6. /\ DOMAIN ledger' = DOMAIN ledger
      /\ \A j \in DOMAIN ledger :
           /\ ledger'[j].order = ledger[j].order
           /\ ledger'[j].filled = ledger[j].filled
           /\ ledger'[j].improved = ledger[j].improved
           /\ j # o.id => ledger'[j].cancelled = ledger[j].cancelled
           /\ j = o.id => ledger'[j].cancelled
           /\ ledger'[j].hold = IF j = o.id THEN ledger[j].hold - n ELSE ledger[j].hold
  <2>1. CanUnlock(balances, LockAccount(o), Obligation(o))
    BY <1>2, <1>4, RestingUnlocks
  <2>. QED
    BY <1>3, <1>5, <2>1, CancelledOrder
<1>7. \A j : UnsettledOf(matches, settled, j) = 0
  BY <1>1, IdleUnsettled
<1>8. ASSUME NEW j \in DOMAIN ledger, ~ledger'[j].improved
      PROVE  ledger'[j].hold = Owed(ledger'[j]) + UnsettledOf(matches', settled', j)
  <2>1. ledger[j].hold = Owed(ledger[j]) + 0
    BY <1>1, <1>2, <1>6, <1>7, <1>8 DEF Holding, OtherHolds
  <2>2. PICK x \in Int : x = Owed(ledger[j])
    BY RecordsTyped, OwedInt
  <2>3. CASE j # o.id
    <3>1. Owed(ledger'[j]) = x
      BY <1>6, <2>2, <2>3 DEF Owed, Left
    <3>. QED
      BY <1>1, <1>6, <1>7, <2>1, <2>2, <2>3, <3>1
  <2>4. CASE j = o.id
    <3>1. PICK r \in RecordType : r = ledger[j]
      BY RecordsTyped
    <3>2. o = Left(r) /\ ~r.cancelled /\ o.order_side = "limit"
      BY <1>4, <2>4, <3>1, RestingFacts DEF Shape, Booked
    <3>3. r.order.order_side = "limit"
      BY <3>2 DEF Left, RecordType, Order
    <3>4. x = n
      BY <1>5, <2>2, <3>1, <3>2, <3>3 DEF Owed
    <3>5. Owed(ledger'[j]) = 0
      BY <1>6, <2>4 DEF Owed
    <3>6. ledger'[j].hold = n - n
      BY <1>6, <2>1, <2>2, <2>4, <3>4
    <3>. QED
      BY <1>1, <1>7, <3>5, <3>6
  <2>. QED
    BY <2>3, <2>4
<1>. QED
  BY <1>6, <1>8 DEF OtherHolds

LEMMA NextHolding == TypeOK /\ Shape /\ Funds /\ Holding /\ [Next]_vars => Holding'
<1> SUFFICES ASSUME TypeOK, Shape, Funds, Holding, [Next]_vars PROVE Holding'
  OBVIOUS
<1>1. CASE UNCHANGED vars
  BY <1>1, SameHolding DEF vars, historyVars
<1>2. ASSUME NEW o \in Requests, SubmitOrder(o) \/ RejectOrder(o) PROVE Holding'
  BY <1>1, <1>2, SubmitHolding DEF RejectOrder
<1>3. CASE SubmissionStep
  <2>1. ASSUME (\E p \in Price : EnterLevel(p)) \/ FinishMatching \/ GiveUpLevel \/ SkipOwnOrder
                 \/ DropUnmatchable \/ LeaveLevel
        PROVE  Holding'
    <3>1. /\ UNCHANGED <<taker, ledger, matches, settled, used, overdrawn>>
          /\ phase # "idle" /\ phase' # "idle"
      BY <2>1 DEF EnterLevel, FinishMatching, GiveUpLevel, SkipOwnOrder, DropUnmatchable,
         LeaveLevel, InLevel, historyVars
    <3>. QED
      BY <3>1, SameHolding
  <2>. QED
    BY <1>3, <2>1, MatchHolding, ExecuteHolding, FinishOrderHolding DEF SubmissionStep
<1>4. CASE Funding \/ LockingCommand
  <2>1. UNCHANGED <<taker, ledger, matches, settled, used, overdrawn, phase>>
    BY <1>4 DEF Funding, LockingCommand, UpdateBalance, LockCommand, UnlockCommand, historyVars
  <2>. QED
    BY <2>1, SameHolding
<1>. QED
  BY <1>1, <1>2, <1>3, <1>4, CancelHolding DEF Next

(* Between commands, while nobody's market buy overdrew, every order's     *)
(* lock is exactly what the order still owes: nothing once it is filled,   *)
(* cancelled or a market order (threads.rs: the refund after submission;   *)
(* handle_cancel_order).  Orders that bought below their limit before they *)
(* rested are left out: the refund misses them.                            *)
THEOREM HoldsExact == Spec => []ExactHold
<1>1. TypeOK /\ Shape /\ Funds /\ Holding /\ [Next]_vars => Holding'
  BY NextHolding
<1>2. TypeOK /\ Holding => ExactHold
  <2> SUFFICES ASSUME TypeOK, Holding, phase = "idle", overdrawn = {}, NEW i \in DOMAIN ledger,
                      ~ledger[i].improved
               PROVE  ledger[i].hold = Owed(ledger[i])
    BY DEF ExactHold, Owed, Left
  <2>1. ledger[i].hold = Owed(ledger[i]) + 0
    BY IdleUnsettled DEF Holding, OtherHolds
  <2>2. Owed(ledger[i]) \in Int
    BY RecordsTyped, OwedInt
  <2>. QED
    BY <2>1, <2>2
<1>. QED
  BY <1>1, <1>2, InitHolding, FundsInvariant, PTL DEF Spec


===============================================================================
