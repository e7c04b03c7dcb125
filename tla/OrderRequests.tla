---------------------------- MODULE OrderRequests ----------------------------
(***************************************************************************)
(* POST /api/cex/orders: create_order of the handler and of the order      *)
(* service, from the JSON a client sends to the order the engine thread    *)
(* locks funds for (handlers/order_handler.rs, services/order_service.rs,  *)
(* submit_order and get_balance of engine/runtime/engine.rs).              *)
(*                                                                         *)
(* The service computes what an order costs, compares it with a balance    *)
(* the engine reports, answers the client, and leaves the submission to a  *)
(* task it spawns; the engine computes the cost again when it locks it.    *)
(* BalanceCache is the cache both look at.  What matching makes of locked  *)
(* orders is left to MatchingEngine: here they keep what they locked.      *)
(*                                                                         *)
(* One trading pair: an absent quote_mint means USDT wherever it is read.  *)
(* A negative amount fares like zero everywhere, so Number has zero only.  *)
(***************************************************************************)
EXTENDS BalanceCache, Sequences

CONSTANTS Call,         \* the calls of the endpoint, each made once
          OrderId,      \* order ids the Java server gives its orders
          Number,       \* the decimals a client may send
          None,         \* a field that is absent
          MaxDecimal,   \* the largest Decimal
          InitFunds,    \* available balance of every account at the start
          MaxTransfers, \* bound: deposits and withdrawals
          MaxFaults     \* bound: balance queries that fail

ASSUME RequestsAssumption ==
  /\ Number \subseteq Nat /\ Price = Number \ {0}
  /\ OrderId \subseteq Nat
  /\ None \notin Number \cup OrderId
  /\ {MaxDecimal, InitFunds, MaxTransfers, MaxFaults} \subseteq Nat

VARIABLES step,       \* call -> where it stands
          request,    \* call -> the CreateOrderRequest, or None
          seen,       \* call -> the available balance it was told
          order_rx,   \* the engine's queue: calls with the orders they submitted
          balances,   \* executor.balance_cache
          open,       \* the engine still has its senders
          transfers,  \* deposits and withdrawals so far
          faults,     \* balance queries that failed so far
          overtaken   \* history: calls whose account lost funds after they were told of it

calls == <<step, request, seen>>
bounds == <<transfers, faults>>
vars == <<calls, order_rx, balances, open, bounds, overtaken>>

Maybe == Number \cup {None}

(* The JSON body, if it can be deserialized at all.                        *)
CreateOrderRequest ==
  [order_id : OrderId \cup {None}, user_id : User,
   order_type : Side \cup {"other"}, order_side : {"limit", "market", "other"},
   price : Maybe, amount : Maybe, quote_amount : Maybe]

Positive(x) == x # None /\ x > 0
IsMarketBuy(r) == r.order_type = "buy" /\ r.order_side = "market"

-----------------------------------------------------------------------------
(* validate_order_request.                                                 *)

(* Mutant: a limit order may offer its goods for nothing.                  *)
PriceFitsUnchecked(r) == r.order_side = "limit" <=> r.price # None
PriceFits(r) == IF r.order_side = "limit" THEN Positive(r.price) ELSE r.price = None

AmountsFit(r) ==
  IF IsMarketBuy(r) THEN Positive(r.quote_amount) /\ r.amount = None
                    ELSE Positive(r.amount) /\ r.quote_amount = None

IsValid(r) ==
  /\ r.order_type \in Side /\ r.order_side \in {"limit", "market"}
  /\ PriceFits(r) /\ AmountsFit(r)

-----------------------------------------------------------------------------
(* calculate_required_balance, and the order create_order builds.          *)

RequiredAccount(r) == <<r.user_id, IF r.order_type = "buy" THEN "quote" ELSE "base">>

RequiredAmount(r) ==
  CASE IsMarketBuy(r)         -> r.quote_amount
    [] r.order_type = "sell"  -> r.amount
    [] OTHER                  -> r.price * r.amount

(* Decimal multiplication panics when the product does not fit.            *)
Overflows(r) == RequiredAmount(r) > MaxDecimal

OrderEntry(r) ==
  LET amount == IF IsMarketBuy(r) THEN 0 ELSE r.amount
      quote == IF IsMarketBuy(r) THEN r.quote_amount ELSE 0
  IN  [id |-> r.order_id, user_id |-> r.user_id, order_type |-> r.order_type,
       order_side |-> r.order_side,
       price |-> IF r.price = None THEN NoPrice ELSE r.price,
       amount |-> amount, remaining_amount |-> amount,
       quote_amount |-> quote, remaining_quote_amount |-> quote]

-----------------------------------------------------------------------------
(* The call.                                                               *)

(* A call that ends badly: the handler answers 400 whatever the reason, or *)
(* its task panics and the connection is closed.                           *)
End(c, how) ==
  /\ step' = [step EXCEPT ![c] = how]
  /\ request' = [request EXCEPT ![c] = None]
  /\ seen' = [seen EXCEPT ![c] = 0]
  /\ overtaken' = overtaken \ {c}

(* Everything up to the first await: validation and the cost.              *)
Receive(c, r) ==
  /\ step[c] = "idle"
  /\ IF IsValid(r) /\ ~Overflows(r)
     THEN /\ step' = [step EXCEPT ![c] = "checking"]
          /\ request' = [request EXCEPT ![c] = r]
          /\ UNCHANGED <<seen, overtaken>>
     ELSE End(c, IF IsValid(r) THEN "panicked" ELSE "refused")
  /\ UNCHANGED <<order_rx, balances, open, bounds>>

(* Mutant: a sell is paid in quote, too.                                   *)
QuoteAccount(c) == <<request[c].user_id, "quote">>

CheckedAccount(c) == RequiredAccount(request[c])

(* get_balance: the engine thread answers between two of its commands.     *)
CheckBalance(c) ==
  /\ step[c] = "checking" /\ open
  /\ step' = [step EXCEPT ![c] = "told"]
  /\ seen' = [seen EXCEPT ![c] = balances[CheckedAccount(c)].available]
  /\ UNCHANGED <<request, order_rx, balances, open, bounds, overtaken>>

(* No answer in time; or the engine is stopped, and unwrap() panics.       *)
CheckFails(c) ==
  /\ step[c] = "checking"
  /\ \/ open /\ faults < MaxFaults /\ faults' = faults + 1 /\ End(c, "refused")
     \/ ~open /\ UNCHANGED faults /\ End(c, "panicked")
  /\ UNCHANGED <<order_rx, balances, open, transfers>>

(* Mutant: the reported balance is not compared with the cost.             *)
TakesAnyBalance(c) == seen[c] >= 0
HasFunds(c) == seen[c] >= RequiredAmount(request[c])

(* The rest of create_order runs without another await: the task is        *)
(* spawned, and the client gets 201 and an order that is "pending".        *)
Accept(c) ==
  /\ step[c] = "told"
  /\ IF HasFunds(c) /\ request[c].order_id # None
     THEN step' = [step EXCEPT ![c] = "accepted"] /\ UNCHANGED <<request, seen, overtaken>>
     ELSE End(c, "refused")
  /\ UNCHANGED <<order_rx, balances, open, bounds>>

(* The spawned tasks come to the engine's mutex in any order.  If submit   *)
(* finds the engine stopped, nobody is told.                               *)
SubmitOrder(c) ==
  /\ step[c] = "accepted"
  /\ IF open
     THEN /\ order_rx' = Append(order_rx, [call |-> c, order |-> OrderEntry(request[c])])
          /\ step' = [step EXCEPT ![c] = "submitted"]
          /\ UNCHANGED <<request, seen, overtaken>>
     ELSE End(c, "lost") /\ UNCHANGED order_rx
  /\ UNCHANGED <<balances, open, bounds>>

-----------------------------------------------------------------------------
(* The engine thread.                                                      *)

(* Calls that were told of more than their account now has.                *)
Outdated(account) ==
  {c \in Call : step[c] \in {"told", "accepted", "submitted"} /\ CheckedAccount(c) = account}

(* process_submit_order up to the lock: the order's funds are locked, or   *)
(* it is dropped.                                                          *)
ProcessSubmitOrder ==
  /\ open /\ order_rx # << >>
  /\ LET c == Head(order_rx).call
         o == Head(order_rx).order
         account == <<o.user_id, LockMint(o)>>
     IN  IF CanLock(balances, account, LockAmount(o))
         THEN /\ balances' = LockBalance(balances, account, LockAmount(o))
              /\ step' = [step EXCEPT ![c] = "locked"]
              /\ overtaken' = overtaken \cup (Outdated(account) \ {c})
         ELSE /\ step' = [step EXCEPT ![c] = "rejected"]
              /\ UNCHANGED <<balances, overtaken>>
  /\ order_rx' = Tail(order_rx)
  /\ UNCHANGED <<request, seen, open, bounds>>

(* handle_update_balance, ahead of the orders that wait.                   *)
UpdateBalance(account, delta) ==
  /\ open /\ transfers < MaxTransfers /\ transfers' = transfers + 1
  /\ balances' = AddAvailable(balances, account, delta)
  /\ overtaken' = IF delta < 0 THEN overtaken \cup Outdated(account) ELSE overtaken
  /\ UNCHANGED <<calls, order_rx, open, faults>>

(* The engine is stopped; what its queue holds is never taken.             *)
StopEngine ==
  /\ open /\ open' = FALSE
  /\ UNCHANGED <<calls, order_rx, balances, bounds, overtaken>>

-----------------------------------------------------------------------------
Init ==
  /\ step = [c \in Call |-> "idle"]
  /\ request = [c \in Call |-> None]
  /\ seen = [c \in Call |-> 0]
  /\ order_rx = << >> /\ open = TRUE
  /\ balances = [a \in Account |-> [available |-> InitFunds, locked |-> 0]]
  /\ transfers = 0 /\ faults = 0 /\ overtaken = {}

CallStep(c) == CheckBalance(c) \/ CheckFails(c) \/ Accept(c) \/ SubmitOrder(c)

Next ==
  \/ \E c \in Call, r \in CreateOrderRequest : Receive(c, r)
  \/ \E c \in Call : CallStep(c)
  \/ ProcessSubmitOrder
  \/ \E a \in Account, delta \in {-1, 1} : UpdateBalance(a, delta)
  \/ StopEngine

Spec == Init /\ [][Next]_vars

-----------------------------------------------------------------------------
(* The orders MatchingEngine takes as its inputs.                          *)
EngineOrder ==
  {o \in Order :
     /\ IF o.order_side = "limit" THEN o.price \in Price ELSE o.price = NoPrice
     /\ o.amount = o.remaining_amount /\ o.quote_amount = o.remaining_quote_amount
     /\ IF ByQuote(o) THEN o.amount = 0 /\ o.quote_amount > 0
                      ELSE o.amount > 0 /\ o.quote_amount = 0}

(* The type invariant.  Whatever clients send, the orders that reach the   *)
(* engine have the shape it relies on (Requests of MatchingEngine), and    *)
(* their cost does not overflow when the engine thread computes it again.  *)
TypeOK ==
  /\ step \in [Call -> {"idle", "checking", "told", "accepted", "submitted", "locked",
                        "rejected", "refused", "panicked", "lost"}]
  /\ request \in [Call -> CreateOrderRequest \cup {None}]
  /\ seen \in [Call -> Nat]
  /\ \A i \in DOMAIN order_rx : LET o == order_rx[i].order
                                IN  o.id \in OrderId /\ o \in EngineOrder
                                    /\ LockAmount(o) <= MaxDecimal
  /\ balances \in BalanceCacheType /\ open \in BOOLEAN
  /\ transfers \in 0 .. MaxTransfers /\ faults \in 0 .. MaxFaults
  /\ overtaken \subseteq Call

(* What the engine has locked of each account is what the service asked    *)
(* for: every accepted order is locked once, in the mint and with the      *)
(* amount that was checked (order_service.rs: the lock is taken in         *)
(* process_submit_order only).                                             *)
Sum(S) ==
  LET sum[T \in SUBSET S] ==
        IF T = {} THEN 0
        ELSE LET c == CHOOSE c \in T : TRUE IN RequiredAmount(request[c]) + sum[T \ {c}]
  IN  sum[S]

LockedIsChecked ==
  \A a \in Account :
     balances[a].locked = Sum({c \in Call : step[c] = "locked" /\ CheckedAccount(c) = a})

(* An order the engine drops for want of funds had them when it was        *)
(* checked: another order of its account, or a withdrawal, came in         *)
(* between (order_service.rs check_balance).                               *)
RejectedOnlyIfOvertaken ==
  \A c \in Call : step[c] = "rejected" => c \in overtaken

=============================================================================
