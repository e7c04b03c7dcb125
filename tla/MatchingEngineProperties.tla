---------------------- MODULE MatchingEngineProperties ----------------------
(***************************************************************************)
(* What the matching engine promises.  Each property names the code it is  *)
(* about; the ones that hold and the ones the code breaks are told apart   *)
(* in README.md.                                                           *)
(***************************************************************************)
EXTENDS MatchingEngine, FiniteSetsExt

Phase == {"idle", "matching", "level", "executing"}

OrderId == DOMAIN ledger

RecordType == [order : Order, hold : Int, filled : Int,
               cancelled : BOOLEAN, improved : BOOLEAN]

(* An order rests on its own side, at its own price, with something left   *)
(* to trade: a filled order never stays in the book.                       *)
RestingOrder(side, p) ==
  {o \in Order : /\ o.order_type = side /\ o.price = p /\ o.order_side = "limit"
                 /\ o.remaining_amount > 0
                 /\ o.id \in OrderId}

(* An order that counts amounts is never matched for more than it asked.   *)
TakerOrder ==
  {o \in Order : /\ o.order_side = "limit" => o.price \in Price
                 /\ ByQuote(o) \/ o.remaining_amount >= 0
                 /\ o.id \in OrderId}

MatchResultType ==
  [buy_order_id : OrderId, sell_order_id : OrderId, buyer_id : User,
   seller_id : User, price : Price, amount : Nat \ {0}]

(* The type invariant: the shape of the book, of the incoming order and of *)
(* the matches (engine/types.rs, engine/orderbook.rs).  It is inductive.   *)
TypeOK ==
  /\ balances \in BalanceCacheType
  /\ orderbook \in Book
  /\ \A s \in Side, p \in Price : orderbook[s][p] \in Seq(RestingOrder(s, p))
  /\ phase \in Phase
  /\ phase # "idle" => taker \in TakerOrder
  /\ phase = "level" => level \in Price /\ ~FullyFilled(taker)
  /\ queue_len \in Nat /\ processed \in Nat
  /\ matches \in Seq(MatchResultType)
  /\ settled \in 0 .. Len(matches)
  /\ used \in Int
  /\ reserved \in [Account -> Int]
  /\ overdrawn \in SUBSET User
  /\ ledger \in Seq(RecordType)

-----------------------------------------------------------------------------
(* Safety.                                                                 *)

(* No balance is ever negative, whatever the interleaving of commands and  *)
(* settlement steps (balance_cache.rs: the checks before each debit).      *)
NonNegativeBalances ==
  \A acc \in Account : balances[acc].available >= 0 /\ balances[acc].locked >= 0

(* The book is never crossed between two users: no bid rests at or above   *)
(* an ask of somebody else, also not between the steps of a submission     *)
(* (matcher.rs leaves its loop only at a price it does not cross).  Two    *)
(* orders of one user are left out: tests/self_trade.rs:64 wants both to   *)
(* stay, which crosses the book; the matcher loses the older one instead   *)
(* (OwnOrdersStay below).                                                  *)
NoCrossedBook ==
  \A bid \in RestingOn(orderbook, "buy"), ask \in RestingOn(orderbook, "sell") :
     bid.user_id # ask.user_id => bid.price < ask.price

(* What the orders of an account still owe: the resting ones by their      *)
(* remainder, the matches of the current submission until they settle.     *)
RestingDue(acc) ==
  MapThenSumSet(Obligation, {o \in Resting(orderbook) : LockAccount(o) = acc})

UnsettledDue(acc) ==
  LET due(i) == CASE acc = QuoteAccount(matches[i].buyer_id) -> TradeValue(matches[i])
                  [] acc = BaseAccount(matches[i].seller_id) -> matches[i].amount
                  [] OTHER -> 0
  IN  MapThenSumSet(due, settled + 1 .. Len(matches))

(* Locked funds cover every resting order, every unsettled match and every *)
(* lock taken by command.  Only the quote of a user whose market buy       *)
(* overdrew its budget may fall short (matcher.rs:175 rounds up).          *)
LockCoverage ==
  \A acc \in Account :
     \/ acc[1] \in overdrawn /\ acc[2] = "quote"
     \/ balances[acc].locked >= RestingDue(acc) + UnsettledDue(acc) + reserved[acc]

(* execute_trade never fails between its two transfers, and its first      *)
(* transfer fails only for a buyer who overdrew: that is why the missing   *)
(* rollback and the ignored errors of the limit path do no harm.           *)
TradesNeverFail ==
  Executing => /\ CanPayQuote => CanPayBase
               /\ Trade.buyer_id \notin overdrawn => CanPayQuote

(* After each command the lock an order accounts for is exactly what it    *)
(* still owes: nothing for a market order or a cancelled one, the limit    *)
(* price of the remainder otherwise.  Orders bought below their limit      *)
(* before resting are the exception the refund misses.                     *)
ExactHold ==
  phase = "idle" /\ overdrawn = {} =>
     \A i \in DOMAIN ledger :
        LET r    == ledger[i]
            left == [r.order EXCEPT !.remaining_amount = @ - r.filled]
        IN  ~r.improved =>
              r.hold = IF r.cancelled \/ r.order.order_side = "market"
                       THEN 0 ELSE Obligation(left)

-----------------------------------------------------------------------------
(* Action properties.                                                      *)

Holds(acc) == balances[acc].available + balances[acc].locked

(* In each mint one account's loss is another account's gain.              *)
Conserved ==
  \A m \in Mint : \E u, v \in User :
     /\ \A w \in User \ {u, v} : Holds(<<w, m>>)' = Holds(<<w, m>>)
     /\ IF u = v THEN Holds(<<u, m>>)' = Holds(<<u, m>>)
        ELSE Holds(<<u, m>>)' + Holds(<<v, m>>)' = Holds(<<u, m>>) + Holds(<<v, m>>)

(* No step but a deposit or a withdrawal creates or destroys funds: not a  *)
(* lock, a match, a refund or a cancellation, and not even a settlement    *)
(* that fails after its first transfer (executor.rs, threads.rs).          *)
ConservesAssets == [][Conserved \/ Funding]_vars

(* A trade pairs two different users at a price both orders allow, and no  *)
(* other user's resting order offers the taker a better price.             *)
LastTrade == matches'[Len(matches')]
NewTrade == Len(matches') > Len(matches)
Better(p, q) == IF taker.order_type = "buy" THEN p < q ELSE p > q

FairTrade ==
  LET t == LastTrade
  IN  /\ t.buyer_id # t.seller_id
      /\ \A side \in Side :
           LET o == ledger[IF side = "buy" THEN t.buy_order_id ELSE t.sell_order_id].order
           IN  o.order_side = "limit" => Crosses(o, t.price)
      /\ \A o \in RestingOn(orderbook, MakerSide) :
           o.user_id # taker.user_id => ~Better(o.price, t.price)

FairTrades == [][NewTrade => FairTrade]_vars

(* Ids whose order leaves the book in this step although it was neither    *)
(* filled nor cancelled.                                                   *)
Vanished ==
  {o \in Resting(orderbook) :
     /\ \A e \in Resting(orderbook') : e.id # o.id
     /\ ledger'[o.id].filled # o.amount
     /\ ~ledger'[o.id].cancelled}

VanishesInMatching == IF phase = "idle" THEN {} ELSE Vanished
VanishesInCancel == IF phase = "idle" THEN Vanished ELSE {}

(* An order vanishes from the book only while its own user is matching     *)
(* against it, or a market buy's quote is spent but for a rounding rest,   *)
(* or its own cancellation fails to unlock after an overdraft.             *)
OnlyOwnOrdersVanish ==
  [][orderbook' # orderbook =>
     /\ \A o \in VanishesInMatching : o.user_id = taker.user_id \/ ByQuote(taker)
     /\ \A o \in VanishesInCancel : o.user_id \in overdrawn]_vars

(* A submission always comes to an end, even against a level that holds    *)
(* only the taker's own orders, which SkipOwnOrder puts back again and     *)
(* again (processed_count bounds the loop).                                *)
SubmissionEnds == phase # "idle" ~> phase = "idle"

-----------------------------------------------------------------------------
(* What the repository says and the code does not do.                      *)

(* tests/self_trade.rs: a user's own crossing orders both stay in the book *)
(* (they are not matched).  An order of the taker's user never vanishes.   *)
OwnOrdersStay == [][\A o \in VanishesInMatching : o.user_id # taker.user_id]_vars

=============================================================================
