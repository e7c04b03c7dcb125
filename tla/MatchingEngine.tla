--------------------------- MODULE MatchingEngine ---------------------------
(***************************************************************************)
(* The engine thread's treatment of one command at a time: submission      *)
(* (lock, match, rest, settle, refund), cancellation and the balance       *)
(* commands (engine/matcher.rs, engine/executor.rs, the handlers of        *)
(* engine/runtime/threads.rs).                                             *)
(*                                                                         *)
(* Submission is broken into the steps of its loops: the outer loop over   *)
(* price levels ("matching"), the inner loop over one level's queue        *)
(* ("level"), the settlement loop over the matches ("executing") and the   *)
(* final refund.  The engine thread is the only writer, so commands start  *)
(* only when no submission is in progress (phase = "idle").                *)
(*                                                                         *)
(* ledger is a history variable: for each accepted order, in order of      *)
(* acceptance, what it asked for and what became of it.  No guard reads    *)
(* it except to number new orders and to bound the model.                  *)
(***************************************************************************)
EXTENDS BalanceCache, OrderBook, SequencesExt

CONSTANTS Amount,        \* base amounts clients ask for
          QuoteAmount,   \* quote amounts of market buys
          Delta,         \* deposits (> 0) and withdrawals (< 0)
          ApiAmount,     \* amounts of the LockBalance and UnlockBalance commands
          InitBalances,  \* the caches an engine may start with
          MaxOrders,     \* bound: accepted orders
          MaxBalance,    \* bound: an account's funds after a deposit
          NoOrder        \* taker when no submission is in progress

ASSUME ConstantsAssumption ==
  /\ Amount \subseteq Nat \ {0}
  /\ QuoteAmount \subseteq Nat \ {0}
  /\ ApiAmount \subseteq Nat \ {0}
  /\ Delta \subseteq Int
  /\ InitBalances \subseteq [Account -> [available : Nat, locked : {0}]]
  /\ MaxOrders \in Nat /\ MaxBalance \in Nat
  /\ NoOrder \notin Order

VARIABLES balances,    \* executor.balance_cache
          orderbook,   \* orderbooks[pair]
          phase,       \* where process_submit_order stands
          taker,       \* the incoming order
          level,       \* current_ask or current_bid
          queue_len,   \* initial_queue_len
          processed,   \* processed_count
          matches,     \* the MatchResults of this submission
          settled,     \* how many of them execute_trade has been called on
          used,        \* total_quote_used or total_amount_used
          reserved,    \* history: locked by LockBalance, not yet unlocked
          overdrawn,   \* history: users whose market buy matched for more than its quote
          ledger       \* history: the accepted orders

loopVars == <<level, queue_len, processed>>
historyVars == <<reserved, overdrawn, ledger>>
vars == <<balances, orderbook, phase, taker, loopVars, matches, settled, used,
          historyVars>>

-----------------------------------------------------------------------------
(* The incoming order and its history record.                              *)

Incoming(u, type, side, p, amount, quote) ==
  [id |-> Len(ledger) + 1, user_id |-> u, order_type |-> type,
   order_side |-> side, price |-> p, amount |-> amount,
   remaining_amount |-> amount, quote_amount |-> quote,
   remaining_quote_amount |-> quote]

(* The orders validate_order_request lets through, with the amounts        *)
(* create_order gives them: a market buy has no amount and no price.       *)
Requests ==
  {Incoming(u, t, "limit", p, a, 0) :
      u \in User, t \in Side, p \in Price, a \in Amount}
  \cup {Incoming(u, "sell", "market", NoPrice, a, 0) : u \in User, a \in Amount}
  \cup {Incoming(u, "buy", "market", NoPrice, 0, q) : u \in User, q \in QuoteAmount}

(* hold is the part of the owner's locked balance this order accounts for; *)
(* improved: part of it was bought below its limit while it was the taker. *)
Record(o) == [order |-> o, hold |-> LockAmount(o), filled |-> 0,
              cancelled |-> FALSE, improved |-> FALSE]

Release(records, id, amount) ==
  [records EXCEPT ![id].hold = @ - amount]

LockAccount(o) == <<o.user_id, LockMint(o)>>

-----------------------------------------------------------------------------
(* Submission: lock the funds, or reject the order without a trace.        *)

SubmitOrder(o) ==
  /\ phase = "idle"
  /\ Len(ledger) < MaxOrders
  /\ CanLock(balances, LockAccount(o), LockAmount(o))
  /\ balances' = LockBalance(balances, LockAccount(o), LockAmount(o))
  /\ ledger' = Append(ledger, Record(o))
  /\ taker' = o
  /\ phase' = "matching"
  /\ matches' = << >> /\ settled' = 0 /\ used' = 0
  /\ UNCHANGED <<orderbook, loopVars, reserved, overdrawn>>

RejectOrder(o) ==
  /\ phase = "idle"
  /\ ~CanLock(balances, LockAccount(o), LockAmount(o))
  /\ UNCHANGED vars

-----------------------------------------------------------------------------
(* The outer loop.                                                         *)

MakerSide == Opposite(taker.order_type)

EnterLevel(p) ==
  /\ phase = "matching"
  /\ ~FullyFilled(taker)
  /\ IsBestPrice(orderbook, MakerSide, p)
  /\ Crosses(taker, p)
  /\ phase' = "level"
  /\ level' = p
  /\ queue_len' = Len(orderbook[MakerSide][p])
  /\ processed' = 0
  /\ UNCHANGED <<balances, orderbook, taker, matches, settled, used, historyVars>>

(* Nothing more to match: a limit order with a remainder joins the book, a *)
(* market order does not.                                                  *)
FinishMatching ==
  /\ phase = "matching"
  /\ \/ FullyFilled(taker)
     \/ \A p \in Levels(orderbook, MakerSide) : ~Crosses(taker, p)
  /\ orderbook' = IF taker.order_side = "limit" /\ ~FullyFilled(taker)
                  THEN AddOrder(orderbook, taker) ELSE orderbook
  /\ phase' = "executing"
  /\ UNCHANGED <<balances, taker, loopVars, matches, settled, used, historyVars>>

-----------------------------------------------------------------------------
(* The inner loop.  Each step pops the head of the level's queue.          *)

Queue == orderbook[MakerSide][level]
Maker == Head(Queue)

(* rust_decimal's division: rounded to the nearest step, ties to even.     *)
DecimalDiv(a, b) ==
  LET q == a \div b
      r == a % b
  IN  IF 2 * r > b \/ (2 * r = b /\ q % 2 = 1) THEN q + 1 ELSE q

Smaller(a, b) == IF a <= b THEN a ELSE b

(* Mutant: the maker's remainder, however little the taker still wants.    *)
MatchWholeMaker == Maker.remaining_amount

MatchAmount ==
  Smaller(Maker.remaining_amount,
          IF ByQuote(taker) THEN DecimalDiv(taker.remaining_quote_amount, level)
                            ELSE taker.remaining_amount)

InLevel == phase = "level" /\ Queue # << >>

(* Mutant: popping an order is not counted.                                *)
PopUncounted == processed
PopCount == processed + 1

(* Mutant: the loop bound is the queue length and is reached too early.    *)
GivesUpEarly == PopCount >= queue_len
GivesUp == PopCount > 2 * queue_len
OwnOrder == Maker.user_id = taker.user_id

SetQueue(queue) == orderbook' = SetLevel(orderbook, MakerSide, level, queue)

(* The popped order is not put back.                                       *)
GiveUpLevel ==
  /\ InLevel /\ GivesUp
  /\ SetQueue(Tail(Queue))
  /\ phase' = "matching"
  /\ UNCHANGED <<balances, taker, loopVars, matches, settled, used, historyVars>>

(* Self-trade prevention: the taker's own order goes to the back.          *)
SkipOwnOrder ==
  /\ InLevel /\ ~GivesUp /\ OwnOrder
  /\ processed' = PopCount
  /\ SetQueue(Append(Tail(Queue), Maker))
  /\ UNCHANGED <<balances, phase, taker, level, queue_len, matches, settled, used,
                 historyVars>>

(* match_amount <= 0: the loop breaks, the popped order is not put back.   *)
DropUnmatchable ==
  /\ InLevel /\ ~GivesUp /\ ~OwnOrder
  /\ taker.order_type = "buy" /\ MatchAmount <= 0
  /\ SetQueue(Tail(Queue))
  /\ phase' = "matching"
  /\ UNCHANGED <<balances, taker, loopVars, matches, settled, used, historyVars>>

MatchResult(amount) ==
  LET buy == taker.order_type = "buy"
  IN  [buy_order_id  |-> IF buy THEN taker.id ELSE Maker.id,
       sell_order_id |-> IF buy THEN Maker.id ELSE taker.id,
       buyer_id      |-> IF buy THEN taker.user_id ELSE Maker.user_id,
       seller_id     |-> IF buy THEN Maker.user_id ELSE taker.user_id,
       price |-> level, amount |-> amount]

Reduced(o, amount) ==
  IF ByQuote(o) THEN [o EXCEPT !.remaining_quote_amount = @ - amount * level]
                ELSE [o EXCEPT !.remaining_amount = @ - amount]

Fill(records, o, amount) ==
  [records EXCEPT
     ![o.id].filled = @ + amount,
     ![o.id].improved = @ \/ (o = taker /\ o.order_type = "buy" /\ level < o.price)]

(* Mutant: a filled maker goes back to the queue as well.                  *)
PutBackFilled(maker) == IF maker.remaining_amount >= 0 THEN <<maker>> ELSE << >>

(* A maker with a remainder goes back to the front of its queue.           *)
PutBack(maker) == IF maker.remaining_amount > 0 THEN <<maker>> ELSE << >>

MatchHead ==
  LET amount == MatchAmount
      maker  == Reduced(Maker, amount)
      next   == Reduced(taker, amount)
  IN  /\ InLevel /\ ~GivesUp /\ ~OwnOrder
      /\ ~(taker.order_type = "buy" /\ amount <= 0)
      /\ matches' = Append(matches, MatchResult(amount))
      /\ taker' = next
      /\ SetQueue(PutBack(maker) \o Tail(Queue))
      /\ processed' = PopCount
      /\ phase' = IF FullyFilled(next) THEN "matching" ELSE "level"
      /\ ledger' = Fill(Fill(ledger, taker, amount), Maker, amount)
      /\ overdrawn' = IF ByQuote(next) /\ next.remaining_quote_amount < 0
                      THEN overdrawn \cup {next.user_id} ELSE overdrawn
      /\ UNCHANGED <<balances, level, queue_len, settled, used, reserved>>

(* The queue ran empty: the level is gone.                                 *)
LeaveLevel ==
  /\ phase = "level" /\ Queue = << >>
  /\ phase' = "matching"
  /\ UNCHANGED <<balances, orderbook, taker, loopVars, matches, settled, used,
                 historyVars>>

-----------------------------------------------------------------------------
(* Settlement: quote from buyer to seller, then base from seller to buyer. *)

Trade == matches[settled + 1]
TradeValue(m) == m.price * m.amount
QuoteAccount(u) == <<u, "quote">>
BaseAccount(u) == <<u, "base">>

Executing == phase = "executing" /\ settled < Len(matches)

CanPayQuote == CanTransfer(balances, QuoteAccount(Trade.buyer_id), TradeValue(Trade))
CanPayBase == CanTransfer(balances, BaseAccount(Trade.seller_id), Trade.amount)

QuotePaid == Transfer(balances, QuoteAccount(Trade.buyer_id),
                      QuoteAccount(Trade.seller_id), TradeValue(Trade))
BothPaid == Transfer(QuotePaid, BaseAccount(Trade.seller_id),
                     BaseAccount(Trade.buyer_id), Trade.amount)

(* What a match counts towards the taker's use of its lock.                *)
Usage(m) == IF taker.order_type = "buy" THEN TradeValue(m) ELSE m.amount

(* A failing second transfer does not roll back the first.  A market order *)
(* counts only the trades that executed; a limit order counts every match, *)
(* because execution errors are only logged.                               *)
ExecuteTrade ==
  LET executed == CanPayQuote /\ CanPayBase
      released == Release(ledger, Trade.buy_order_id, TradeValue(Trade))
  IN  /\ Executing
      /\ settled' = settled + 1
      /\ balances' = CASE executed    -> BothPaid
                       [] ~CanPayQuote -> balances
                       [] OTHER        -> QuotePaid
      /\ ledger' = CASE executed    -> Release(released, Trade.sell_order_id, Trade.amount)
                     [] ~CanPayQuote -> ledger
                     [] OTHER        -> released
      /\ used' = IF executed \/ taker.order_side = "limit" THEN used + Usage(Trade) ELSE used
      /\ UNCHANGED <<orderbook, phase, taker, loopVars, matches, reserved, overdrawn>>

(* Mutant: also an order that goes on resting gets the rest of its lock.   *)
RefundAlways == LockAmount(taker) - used

(* Mutant: a market order that the book could not fill gets nothing.       *)
RefundFilledOnly == IF FullyFilled(taker) THEN LockAmount(taker) - used ELSE 0

(* Refund: a market order always, a limit order only when submission       *)
(* filled it completely.                                                   *)
Refund ==
  IF taker.order_side = "market" \/ FullyFilled(taker)
  THEN LockAmount(taker) - used ELSE 0

FinishOrder ==
  /\ phase = "executing" /\ settled = Len(matches)
  /\ IF Refund > 0 /\ CanUnlock(balances, LockAccount(taker), Refund)
     THEN /\ balances' = UnlockBalance(balances, LockAccount(taker), Refund)
          /\ ledger' = Release(ledger, taker.id, Refund)
     ELSE UNCHANGED <<balances, ledger>>
  /\ phase' = "idle" /\ taker' = NoOrder
  /\ matches' = << >> /\ settled' = 0 /\ used' = 0
  /\ level' = NoPrice /\ queue_len' = 0 /\ processed' = 0
  /\ UNCHANGED <<orderbook, reserved, overdrawn>>

-----------------------------------------------------------------------------
(* The other commands.                                                     *)

(* The order leaves the book before its funds are unlocked; a failing      *)
(* unlock does not put it back.                                            *)
CancelOrder(side, p, i, u) ==
  LET o   == orderbook[side][p][i]
      acc == LockAccount(o)
  IN  /\ phase = "idle"
      /\ o.user_id = u
      /\ orderbook' = SetLevel(orderbook, side, p, RemoveAt(orderbook[side][p], i))
      /\ IF CanUnlock(balances, acc, Obligation(o))
         THEN /\ balances' = UnlockBalance(balances, acc, Obligation(o))
              /\ ledger' = [Release(ledger, o.id, Obligation(o)) EXCEPT
                              ![o.id].cancelled = TRUE]
         ELSE UNCHANGED <<balances, ledger>>
      /\ UNCHANGED <<phase, taker, loopVars, matches, settled, used, reserved, overdrawn>>

(* handle_update_balance, for a deposit or a withdrawal.                   *)
UpdateBalance(acc, delta) ==
  /\ phase = "idle"
  /\ balances[acc].available + balances[acc].locked + delta <= MaxBalance
  /\ balances' = AddAvailable(balances, acc, delta)
  /\ UNCHANGED <<orderbook, phase, taker, loopVars, matches, settled, used, historyVars>>

(* Locks taken through the engine's own interface; its callers unlock only *)
(* what they locked.                                                       *)
LockCommand(acc, amount) ==
  /\ phase = "idle"
  /\ CanLock(balances, acc, amount)
  /\ balances' = LockBalance(balances, acc, amount)
  /\ reserved' = [reserved EXCEPT ![acc] = @ + amount]
  /\ UNCHANGED <<orderbook, phase, taker, loopVars, matches, settled, used,
                 overdrawn, ledger>>

UnlockCommand(acc, amount) ==
  /\ phase = "idle"
  /\ reserved[acc] >= amount
  /\ CanUnlock(balances, acc, amount)
  /\ balances' = UnlockBalance(balances, acc, amount)
  /\ reserved' = [reserved EXCEPT ![acc] = @ - amount]
  /\ UNCHANGED <<orderbook, phase, taker, loopVars, matches, settled, used,
                 overdrawn, ledger>>

-----------------------------------------------------------------------------

Init ==
  /\ balances \in InitBalances
  /\ orderbook = EmptyBook
  /\ phase = "idle" /\ taker = NoOrder
  /\ level = NoPrice /\ queue_len = 0 /\ processed = 0
  /\ matches = << >> /\ settled = 0 /\ used = 0
  /\ reserved = [acc \in Account |-> 0]
  /\ overdrawn = {}
  /\ ledger = << >>

(* The steps the engine thread takes on its own once a submission started. *)
SubmissionStep ==
  \/ \E p \in Price : EnterLevel(p)
  \/ FinishMatching
  \/ GiveUpLevel \/ SkipOwnOrder \/ DropUnmatchable \/ MatchHead \/ LeaveLevel
  \/ ExecuteTrade \/ FinishOrder

Funding == \E acc \in Account, d \in Delta : UpdateBalance(acc, d)

LockingCommand ==
  \E acc \in Account, a \in ApiAmount : LockCommand(acc, a) \/ UnlockCommand(acc, a)

Next ==
  \/ \E o \in Requests : SubmitOrder(o) \/ RejectOrder(o)
  \/ SubmissionStep
  \/ \E side \in Side, p \in Price : \E i \in DOMAIN orderbook[side][p] :
       \E u \in User : CancelOrder(side, p, i, u)
  \/ Funding \/ LockingCommand

Spec == Init /\ [][Next]_vars

(* The engine thread keeps running; clients need not submit anything.      *)
FairSpec == Spec /\ WF_vars(SubmissionStep)

=============================================================================
