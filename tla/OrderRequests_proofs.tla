------------------------- MODULE OrderRequests_proofs -------------------------
(***************************************************************************)
(* Proofs about OrderRequests: what reaches the engine has the shape it    *)
(* relies on, what is locked is what was checked, and an accepted order is *)
(* dropped only if it was overtaken, for every number of calls, users,     *)
(* order ids and decimals.                                                 *)
(***************************************************************************)
EXTENDS OrderRequests, SequenceTheorems, FiniteSetTheorems, WellFoundedInduction, TLAPS

(* One unit for each unit of their cost.  Sum counts them.                 *)
Units(S) == {p \in S \X (0 .. MaxDecimal) : p[2] < RequiredAmount(request[p[1]])}

Costs(S) == \A c \in S : RequiredAmount(request[c]) \in 0 .. MaxDecimal

Entry == [call : Call, order : Order]

StepTypes ==
  step \in [Call -> {"idle", "checking", "told", "accepted", "submitted", "locked",
                     "rejected", "refused", "panicked", "lost"}]
RequestTypes == request \in [Call -> CreateOrderRequest \cup {None}]
SeenTypes == seen \in [Call -> Nat]
OrdersFit ==
  \A i \in DOMAIN order_rx : LET o == order_rx[i].order
                             IN  o.id \in OrderId /\ o \in EngineOrder
                                 /\ LockAmount(o) <= MaxDecimal
OtherTypes ==
  /\ balances \in BalanceCacheType /\ open \in BOOLEAN
  /\ transfers \in 0 .. MaxTransfers /\ faults \in 0 .. MaxFaults
  /\ overtaken \subseteq Call

QueueTypes == order_rx \in Seq(Entry)
NonNegative == \A a \in Account : balances[a].available >= 0

(* What was received is valid and has a cost; only orders with an id are   *)
(* accepted, and only with enough funds reported.                          *)
Checked ==
  \A c \in Call :
    /\ step[c] \in {"checking", "told", "accepted", "submitted", "locked"} =>
         /\ request[c] \in CreateOrderRequest
         /\ IsValid(request[c]) /\ ~Overflows(request[c])
    /\ step[c] \in {"accepted", "submitted"} => request[c].order_id # None /\ HasFunds(c)

(* Who has not been overtaken still has what was reported.                 *)
StillHas ==
  \A c \in Call :
    step[c] \in {"told", "accepted", "submitted"} /\ c \notin overtaken =>
      balances[CheckedAccount(c)].available >= seen[c]

(* Each submitted call waits in the queue once, with its own order.        *)
Queued ==
  /\ \A i \in DOMAIN order_rx :
       /\ step[order_rx[i].call] = "submitted"
       /\ order_rx[i].order = OrderEntry(request[order_rx[i].call])
  /\ \A i, j \in DOMAIN order_rx : order_rx[i].call = order_rx[j].call => i = j

LockedOf(a) == {c \in Call : step[c] = "locked" /\ CheckedAccount(c) = a}
LockedUnits ==
  \A a \in Account : /\ IsFiniteSet(LockedOf(a))
                     /\ balances[a].locked = Cardinality(Units(LockedOf(a)))

IInv ==
  /\ TypeOK /\ QueueTypes /\ NonNegative /\ Checked /\ StillHas /\ Queued
  /\ LockedUnits /\ RejectedOnlyIfOvertaken

-----------------------------------------------------------------------------
(* Sum, which the code never computes, counts units.  It is recursive, so  *)
(* that it has to be shown to have a value, and which.                     *)

LEMMA UnitsFinite ==
  ASSUME NEW S, IsFiniteSet(S)
  PROVE  IsFiniteSet(Units(S)) /\ Cardinality(Units(S)) \in Nat
<1>1. IsFiniteSet(0 .. MaxDecimal)
  BY RequestsAssumption, FS_Interval
<1>2. IsFiniteSet(S \X (0 .. MaxDecimal))
  BY <1>1, FS_Product
<1>3. Units(S) \in SUBSET (S \X (0 .. MaxDecimal))
  BY DEF Units
<1>. QED
  BY <1>2, <1>3, FS_Subset, FS_CardinalityType

(* Another call adds its cost.                                             *)
LEMMA UnitsAdd ==
  ASSUME NEW S, IsFiniteSet(S), NEW c, c \notin S,
         RequiredAmount(request[c]) \in 0 .. MaxDecimal
  PROVE  Cardinality(Units(S \cup {c})) = Cardinality(Units(S)) + RequiredAmount(request[c])
<1>1. PICK n : n = RequiredAmount(request[c]) /\ n \in Nat /\ n <= MaxDecimal
  BY RequestsAssumption
<1> DEFINE own == {c} \X (0 .. n - 1)
<1>2. Units(S \cup {c}) = Units(S) \cup own
  BY <1>1, RequestsAssumption DEF Units
<1>3. Units(S) \cap own = {}
  BY DEF Units
<1>4. IsFiniteSet(own) /\ Cardinality(own) = n
  <2>1. IsFiniteSet({c}) /\ Cardinality({c}) = 1
    BY FS_Singleton
  <2>2. IsFiniteSet(0 .. n - 1) /\ Cardinality(0 .. n - 1) = n
    <3>1. 0 \in Int /\ n - 1 \in Int /\ (IF 0 > n - 1 THEN 0 ELSE n - 1 - 0 + 1) = n
      BY <1>1
    <3>. QED
      BY <3>1, FS_Interval
  <2>3. IsFiniteSet(own) /\ Cardinality(own) = Cardinality({c}) * Cardinality(0 .. n - 1)
    BY <2>1, <2>2, FS_Product
  <2>. QED
    BY <1>1, <2>1, <2>2, <2>3
<1> HIDE DEF own
<1>5. /\ IsFiniteSet(Units(S)) /\ Cardinality(Units(S)) \in Nat
      /\ Cardinality(Units(S) \cap own) = 0
  BY <1>3, UnitsFinite, FS_EmptySet
<1>6. Cardinality(Units(S) \cup own)
        = Cardinality(Units(S)) + Cardinality(own) - Cardinality(Units(S) \cap own)
  BY <1>4, <1>5, FS_Union
<1>7. Cardinality(Units(S) \cup own) = Cardinality(Units(S)) + n
  BY <1>1, <1>4, <1>5, <1>6
<1>. QED
  BY <1>1, <1>2, <1>7

LEMMA SumCountsUnits ==
  ASSUME NEW S, IsFiniteSet(S), Costs(S)
  PROVE  Sum(S) = Cardinality(Units(S))
<1> DEFINE body(f) ==
      [T \in SUBSET S |->
         IF T = {} THEN 0
         ELSE LET c == CHOOSE c \in T : TRUE
              IN  RequiredAmount(request[c]) + f[T \ {c}]]
           sum == CHOOSE f : f = body(f)
           count == [T \in SUBSET S |-> Cardinality(Units(T))]
           first(T) == CHOOSE c \in T : TRUE
<1>1. Sum(S) = sum[S]
  BY DEF Sum
(* The function that counts units is one that adds up costs.               *)
<1>2. ASSUME NEW T \in SUBSET S, T # {}
      PROVE  /\ first(T) \in T /\ T \ {first(T)} \in SUBSET S
             /\ Cardinality(Units(T))
                  = RequiredAmount(request[first(T)]) + Cardinality(Units(T \ {first(T)}))
  <2>1. first(T) \in T
    BY <1>2
  <2> HIDE DEF first
  <2>2. PICK c \in T : c = first(T)
    BY <2>1
  <2>3. PICK U \in SUBSET S : U = T \ {c}
    OBVIOUS
  <2>4. IsFiniteSet(U) /\ c \notin U /\ T = U \cup {c}
    BY <2>3, FS_Subset
  <2>5. RequiredAmount(request[c]) \in 0 .. MaxDecimal
    BY DEF Costs
  <2>6. Cardinality(Units(U)) \in Nat
    BY <2>4, UnitsFinite
  <2>7. Cardinality(Units(U \cup {c})) = Cardinality(Units(U)) + RequiredAmount(request[c])
    BY <2>4, <2>5, UnitsAdd
  <2>8. Cardinality(Units(T)) = RequiredAmount(request[c]) + Cardinality(Units(U))
    BY <2>4, <2>5, <2>6, <2>7
  <2>. QED
    BY <2>1, <2>2, <2>3, <2>8
<1>3. Cardinality(Units({})) = 0
  BY FS_EmptySet DEF Units
<1>4. count = body(count)
  <2>1. \A T \in SUBSET S : count[T] = Cardinality(Units(T))
    OBVIOUS
  <2>2. ASSUME NEW T \in SUBSET S, T # {}
        PROVE  count[T] = RequiredAmount(request[first(T)]) + count[T \ {first(T)}]
    BY <1>2, <2>1, <2>2
  <2>3. count[{}] = 0
    BY <1>3, <2>1
  <2>4. body(count) = [T \in SUBSET S |->
           IF T = {} THEN 0
           ELSE RequiredAmount(request[first(T)]) + count[T \ {first(T)}]]
    OBVIOUS
  <2>5. count = [T \in SUBSET S |-> count[T]]
    OBVIOUS
  <2> HIDE DEF count, first, body
  <2>6. \A T \in SUBSET S : count[T] =
          IF T = {} THEN 0
          ELSE RequiredAmount(request[first(T)]) + count[T \ {first(T)}]
    BY <2>2, <2>3
  <2>. QED
    BY <2>4, <2>5, <2>6
(* So there is such a function, and CHOOSE takes one.                      *)
<1>5. sum = body(sum)
  <2> HIDE DEF body, count
  <2>. QED
    BY <1>4
<1>6. \A T \in SUBSET S :
        sum[T] = IF T = {} THEN 0
                 ELSE RequiredAmount(request[first(T)]) + sum[T \ {first(T)}]
  <2> HIDE DEF sum
  <2>. QED
    BY <1>5
<1> HIDE DEF sum, body, count, first
(* It counts units, too: consider a smallest set of which it does not.     *)
<1> DEFINE Wrong == {T \in SUBSET S : sum[T] # Cardinality(Units(T))}
<1>7. Wrong = {}
  <2>1. SUFFICES ASSUME Wrong # {} PROVE FALSE
    OBVIOUS
  <2>2. IsWellFoundedOn(StrictSubsetOrdering(S), SUBSET S)
    BY FS_StrictSubsetOrderingWellFounded, FS_FiniteSubsetsOfFinite
  <2>3. PICK T \in Wrong : \A U \in Wrong : <<U, T>> \notin StrictSubsetOrdering(S)
    <3>1. Wrong \subseteq SUBSET S
      OBVIOUS
    <3> HIDE DEF Wrong
    <3>. QED
      BY <2>1, <2>2, <3>1, WFMin
  <2>4. T # {}
    BY <1>3, <1>6
  <2>5. first(T) \in T /\ T \ {first(T)} \in SUBSET S
    BY <1>2, <2>4
  <2>6. <<T \ {first(T)}, T>> \in StrictSubsetOrdering(S)
    BY <2>5 DEF StrictSubsetOrdering
  <2>7. sum[T \ {first(T)}] = Cardinality(Units(T \ {first(T)}))
    BY <2>3, <2>5, <2>6
  <2>8. sum[T] = RequiredAmount(request[first(T)]) + sum[T \ {first(T)}]
    BY <1>6, <2>4
  <2>9. Cardinality(Units(T))
          = RequiredAmount(request[first(T)]) + Cardinality(Units(T \ {first(T)}))
    BY <1>2, <2>4
  <2>. QED
    BY <2>7, <2>8, <2>9
<1>. QED
  BY <1>1, <1>7

-----------------------------------------------------------------------------
(* The type invariant and its parts.                                       *)

LEMMA TypesAre ==
  TypeOK <=> StepTypes /\ RequestTypes /\ SeenTypes /\ OrdersFit /\ OtherTypes
BY DEF TypeOK, StepTypes, RequestTypes, SeenTypes, OrdersFit, OtherTypes

LEMMA TypesAreNext ==
  TypeOK' <=> StepTypes' /\ RequestTypes' /\ SeenTypes' /\ OrdersFit' /\ OtherTypes'
BY TypesAre, PTL

-----------------------------------------------------------------------------
(* What the service makes of a request that passed its checks.             *)

LEMMA CostOf ==
  ASSUME NEW r \in CreateOrderRequest, IsValid(r), ~Overflows(r)
  PROVE  RequiredAmount(r) \in 0 .. MaxDecimal /\ RequiredAccount(r) \in Account
<1>1. /\ r.user_id \in User /\ r.order_type \in {"buy", "sell"}
      /\ r.price \in Number \cup {None} /\ r.amount \in Number \cup {None}
      /\ r.quote_amount \in Number \cup {None}
  BY DEF CreateOrderRequest, IsValid, Side, Maybe
<1>2. RequiredAccount(r) \in Account
  BY <1>1 DEF RequiredAccount, Account, Mint
<1>3. RequiredAmount(r) \in Nat
  <2>1. CASE IsMarketBuy(r)
    <3>1. r.quote_amount \in Nat
      BY <1>1, <2>1, RequestsAssumption DEF IsValid, AmountsFit, Positive
    <3>2. r.order_type = "buy"
      BY <2>1 DEF IsMarketBuy
    <3>. QED
      BY <2>1, <3>1, <3>2 DEF RequiredAmount
  <2>2. CASE ~IsMarketBuy(r) /\ r.order_type = "sell"
    BY <1>1, <2>2, RequestsAssumption DEF IsValid, AmountsFit, Positive, RequiredAmount
  <2>3. CASE ~IsMarketBuy(r) /\ r.order_type # "sell"
    <3>1. r.order_side = "limit"
      BY <1>1, <2>3 DEF IsMarketBuy, IsValid
    <3>2. r.price \in Nat /\ r.amount \in Nat
      BY <1>1, <2>3, <3>1, RequestsAssumption DEF IsValid, PriceFits, AmountsFit, Positive
    <3>. QED
      BY <2>3, <3>2 DEF RequiredAmount
  <2>. QED
    BY <2>1, <2>2, <2>3
<1>. QED
  BY <1>2, <1>3, RequestsAssumption DEF Overflows

(* The engine computes the same cost, and finds the shape it relies on.    *)
LEMMA OrderOf ==
  ASSUME NEW r \in CreateOrderRequest, IsValid(r), ~Overflows(r), r.order_id # None
  PROVE  LET o == OrderEntry(r)
         IN  /\ o \in EngineOrder /\ o.id \in OrderId
             /\ <<o.user_id, LockMint(o)>> = RequiredAccount(r)
             /\ LockAmount(o) = RequiredAmount(r)
<1> DEFINE o == OrderEntry(r)
<1>1. /\ r.order_id \in OrderId /\ r.user_id \in User /\ r.order_type \in {"buy", "sell"}
      /\ r.order_side \in {"limit", "market"}
      /\ r.price \in Number \cup {None} /\ r.amount \in Number \cup {None}
      /\ r.quote_amount \in Number \cup {None}
  BY DEF CreateOrderRequest, IsValid, Side, Maybe
<1>2. /\ o.id = r.order_id /\ o.user_id = r.user_id /\ o.order_type = r.order_type
      /\ o.order_side = r.order_side
      /\ o.price = IF r.price = None THEN 0 ELSE r.price
      /\ o.amount = IF IsMarketBuy(r) THEN 0 ELSE r.amount
      /\ o.remaining_amount = o.amount
      /\ o.quote_amount = IF IsMarketBuy(r) THEN r.quote_amount ELSE 0
      /\ o.remaining_quote_amount = o.quote_amount
  BY DEF OrderEntry, NoPrice
<1>3. ByQuote(o) <=> IsMarketBuy(r)
  BY <1>2 DEF ByQuote, IsMarketBuy
<1>4. /\ o.amount \in Nat /\ o.quote_amount \in Nat
      /\ IF IsMarketBuy(r) THEN o.amount = 0 /\ o.quote_amount > 0
                           ELSE o.amount > 0 /\ o.quote_amount = 0
  <2>1. CASE IsMarketBuy(r)
    <3>1. r.quote_amount # None /\ r.quote_amount > 0
      BY <2>1 DEF IsValid, AmountsFit, Positive
    <3>2. r.quote_amount \in Nat
      BY <1>1, <3>1, RequestsAssumption
    <3>3. o.amount = 0 /\ o.quote_amount = r.quote_amount
      BY <1>2, <2>1
    <3>. QED
      BY <2>1, <3>1, <3>2, <3>3
  <2>2. CASE ~IsMarketBuy(r)
    <3>1. r.amount # None /\ r.amount > 0
      BY <2>2 DEF IsValid, AmountsFit, Positive
    <3>2. r.amount \in Nat
      BY <1>1, <3>1, RequestsAssumption
    <3>3. o.amount = r.amount /\ o.quote_amount = 0
      BY <1>2, <2>2
    <3>. QED
      BY <2>2, <3>1, <3>2, <3>3
  <2>. QED
    BY <2>1, <2>2
<1>5. /\ IF r.order_side = "limit" THEN o.price \in Price ELSE o.price = NoPrice
      /\ o.price \in Price \cup {NoPrice}
  BY <1>1, <1>2, RequestsAssumption DEF IsValid, PriceFits, Positive, NoPrice
<1>6. o \in Order
  <2>1. o.id \in Nat
    BY <1>1, <1>2, RequestsAssumption
  <2>2. o = [id |-> o.id, user_id |-> o.user_id, order_type |-> o.order_type,
             order_side |-> o.order_side, price |-> o.price,
             amount |-> o.amount, remaining_amount |-> o.remaining_amount,
             quote_amount |-> o.quote_amount,
             remaining_quote_amount |-> o.remaining_quote_amount]
    BY DEF OrderEntry
  <2> HIDE DEF o
  <2>. QED
    BY <1>1, <1>2, <1>4, <1>5, <2>1, <2>2 DEF Order, Side
<1>7. o \in EngineOrder
  BY <1>2, <1>3, <1>4, <1>5, <1>6 DEF EngineOrder
<1>8. <<o.user_id, LockMint(o)>> = RequiredAccount(r)
  BY <1>2 DEF LockMint, RequiredAccount
<1>9. LockAmount(o) = RequiredAmount(r)
  <2>1. CASE IsMarketBuy(r)
    <3>1. r.order_type = "buy" /\ o.order_type = "buy" /\ o.quote_amount = r.quote_amount
      BY <1>2, <2>1 DEF IsMarketBuy
    <3> HIDE DEF o
    <3>. QED
      BY <1>3, <2>1, <3>1 DEF LockAmount, RequiredAmount
  <2>2. CASE ~IsMarketBuy(r) /\ r.order_type = "sell"
    BY <1>2, <1>3, <2>2 DEF LockAmount, RequiredAmount
  <2>3. CASE ~IsMarketBuy(r) /\ r.order_type # "sell"
    <3>1. r.order_side = "limit"
      BY <1>1, <2>3 DEF IsMarketBuy
    <3>2. r.price # None
      BY <3>1, RequestsAssumption DEF IsValid, PriceFits, Positive
    <3>. QED
      BY <1>2, <1>3, <2>3, <3>2 DEF LockAmount, RequiredAmount
  <2>. QED
    BY <2>1, <2>2, <2>3
<1>. QED
  BY <1>1, <1>2, <1>7, <1>8, <1>9

-----------------------------------------------------------------------------
(* Steps of one call that is neither queued nor locked.                    *)

LEMMA LockedStay ==
  ASSUME IInv, \A a \in Account : balances'[a].locked = balances[a].locked,
         \A d \in Call : step'[d] = "locked" <=> step[d] = "locked",
         \A d \in Call : step[d] = "locked" => request'[d] = request[d]
  PROVE  LockedUnits'
<1>1. SUFFICES ASSUME NEW a \in Account
      PROVE  /\ IsFiniteSet(LockedOf(a)')
             /\ balances'[a].locked = Cardinality(Units(LockedOf(a))')
  BY DEF LockedUnits
<1>2. LockedOf(a)' = LockedOf(a)
  BY DEF LockedOf, CheckedAccount
<1>3. Units(LockedOf(a))' = Units(LockedOf(a))
  BY <1>2 DEF Units, LockedOf
<1>. QED
  BY <1>2, <1>3 DEF IInv, LockedUnits

LEMMA OneCall ==
  ASSUME IInv, NEW c \in Call, step[c] \in {"idle", "checking", "told", "accepted"},
         StepTypes', RequestTypes', SeenTypes', OtherTypes',
         \A d \in Call \ {c} : /\ step'[d] = step[d] /\ request'[d] = request[d]
                               /\ seen'[d] = seen[d]
                               /\ d \in overtaken' <=> d \in overtaken,
         step'[c] \notin {"submitted", "locked", "rejected"},
         step'[c] \in {"checking", "told", "accepted"} =>
           /\ request'[c] \in CreateOrderRequest
           /\ IsValid(request'[c]) /\ ~Overflows(request'[c]),
         step'[c] = "accepted" => request'[c].order_id # None /\ HasFunds(c)',
         step'[c] \in {"told", "accepted"} /\ c \notin overtaken' =>
           balances[CheckedAccount(c)'].available >= seen'[c],
         UNCHANGED <<order_rx, balances>>
  PROVE  IInv'
<1>1. OrdersFit'
  BY TypesAre DEF IInv, OrdersFit
<1>2. QueueTypes' /\ NonNegative'
  BY DEF IInv, QueueTypes, NonNegative
<1>3. Checked'
  <2>1. SUFFICES ASSUME NEW d \in Call
        PROVE  /\ step'[d] \in {"checking", "told", "accepted", "submitted", "locked"} =>
                    /\ request'[d] \in CreateOrderRequest
                    /\ IsValid(request'[d]) /\ ~Overflows(request'[d])
               /\ step'[d] \in {"accepted", "submitted"} =>
                    request'[d].order_id # None /\ HasFunds(d)'
    BY DEF Checked
  <2>2. CASE d = c
    BY <2>2
  <2>3. CASE d # c
    BY <2>3 DEF IInv, Checked, HasFunds
  <2>. QED
    BY <2>2, <2>3
<1>4. StillHas'
  <2>1. SUFFICES ASSUME NEW d \in Call, step'[d] \in {"told", "accepted", "submitted"},
                        d \notin overtaken'
                 PROVE  balances[CheckedAccount(d)'].available >= seen'[d]
    BY DEF StillHas
  <2>2. CASE d = c
    BY <2>1, <2>2
  <2>3. CASE d # c
    BY <2>1, <2>3 DEF IInv, StillHas, CheckedAccount
  <2>. QED
    BY <2>2, <2>3
<1>5. Queued'
  <2>1. \A i \in DOMAIN order_rx : order_rx[i].call \in Call
    <3>1. \A i \in DOMAIN order_rx : order_rx[i] \in Entry
      BY DEF IInv, QueueTypes
    <3>. QED
      BY <3>1 DEF Entry
  <2>2. \A i \in DOMAIN order_rx : order_rx[i].call # c
    BY DEF IInv, Queued
  <2>. QED
    BY <2>1, <2>2 DEF IInv, Queued
<1>6. LockedUnits'
  BY LockedStay
<1>7. RejectedOnlyIfOvertaken'
  BY DEF IInv, RejectedOnlyIfOvertaken
<1>. QED
  BY <1>1, <1>2, <1>3, <1>4, <1>5, <1>6, <1>7, TypesAreNext DEF IInv


LEMMA EndStep ==
  ASSUME IInv, NEW c \in Call, step[c] \in {"idle", "checking", "told", "accepted"},
         NEW how \in {"refused", "panicked", "lost"}, End(c, how),
         UNCHANGED <<order_rx, balances, open, transfers>>, faults' \in 0 .. MaxFaults
  PROVE  IInv'
<1>1. StepTypes' /\ RequestTypes' /\ SeenTypes'
  BY TypesAre DEF IInv, End, StepTypes, RequestTypes, SeenTypes
<1>2. OtherTypes'
  BY TypesAre DEF IInv, End, OtherTypes
<1>3. step'[c] = how
  BY TypesAre DEF IInv, End, StepTypes
<1>4. \A d \in Call \ {c} : /\ step'[d] = step[d] /\ request'[d] = request[d]
                            /\ seen'[d] = seen[d]
                            /\ d \in overtaken' <=> d \in overtaken
  BY TypesAre DEF IInv, End, StepTypes, RequestTypes, SeenTypes
<1>. QED
  BY <1>1, <1>2, <1>3, <1>4, OneCall

LEMMA ReceiveStep ==
  ASSUME IInv, NEW c \in Call, NEW r \in CreateOrderRequest, Receive(c, r)
  PROVE  IInv'
<1>1. /\ step[c] = "idle" /\ StepTypes /\ RequestTypes /\ SeenTypes /\ OtherTypes
      /\ UNCHANGED <<order_rx, balances, open, transfers, faults>>
  BY TypesAre DEF IInv, Receive, bounds
<1>2. CASE IsValid(r) /\ ~Overflows(r)
  <2>1. /\ step' = [step EXCEPT ![c] = "checking"]
        /\ request' = [request EXCEPT ![c] = r]
        /\ UNCHANGED <<seen, overtaken>>
    BY <1>2 DEF Receive
  <2>2. StepTypes' /\ RequestTypes' /\ SeenTypes' /\ OtherTypes'
    BY <1>1, <2>1 DEF StepTypes, RequestTypes, SeenTypes, OtherTypes
  <2>3. step'[c] = "checking" /\ request'[c] = r
    BY <1>1, <2>1 DEF StepTypes, RequestTypes
  <2>4. \A d \in Call \ {c} : /\ step'[d] = step[d] /\ request'[d] = request[d]
                              /\ seen'[d] = seen[d]
                              /\ d \in overtaken' <=> d \in overtaken
    BY <1>1, <2>1 DEF StepTypes, RequestTypes, SeenTypes
  <2>. QED
    BY <1>1, <1>2, <2>2, <2>3, <2>4, OneCall
<1>3. CASE ~(IsValid(r) /\ ~Overflows(r))
  <2>1. PICK how \in {"refused", "panicked", "lost"} : End(c, how)
    BY <1>3 DEF Receive
  <2>. QED
    BY <1>1, <2>1, EndStep DEF OtherTypes
<1>. QED
  BY <1>2, <1>3

(* The balance that is reported is not negative.                           *)
LEMMA CheckBalanceStep ==
  ASSUME IInv, NEW c \in Call, CheckBalance(c)
  PROVE  IInv'
<1>1. /\ StepTypes /\ RequestTypes /\ SeenTypes /\ OtherTypes
      /\ step[c] = "checking"
      /\ step' = [step EXCEPT ![c] = "told"]
      /\ seen' = [seen EXCEPT ![c] = balances[CheckedAccount(c)].available]
      /\ UNCHANGED <<request, order_rx, balances, open, bounds, overtaken>>
  BY TypesAre DEF IInv, CheckBalance
<1>2. /\ request[c] \in CreateOrderRequest /\ IsValid(request[c]) /\ ~Overflows(request[c])
  BY <1>1 DEF IInv, Checked
<1>3. CheckedAccount(c) \in Account
  BY <1>2, CostOf DEF CheckedAccount
<1>4. balances[CheckedAccount(c)].available \in Nat
  BY <1>1, <1>3 DEF IInv, NonNegative, OtherTypes, BalanceCacheType, Balance
<1>5. StepTypes' /\ RequestTypes' /\ SeenTypes' /\ OtherTypes'
  BY <1>1, <1>4 DEF StepTypes, RequestTypes, SeenTypes, OtherTypes, bounds
<1>6. /\ step'[c] = "told" /\ request'[c] = request[c]
      /\ seen'[c] = balances[CheckedAccount(c)].available
      /\ CheckedAccount(c)' = CheckedAccount(c)
  BY <1>1 DEF StepTypes, RequestTypes, SeenTypes, CheckedAccount
<1>7. \A d \in Call \ {c} : /\ step'[d] = step[d] /\ request'[d] = request[d]
                            /\ seen'[d] = seen[d]
                            /\ d \in overtaken' <=> d \in overtaken
  BY <1>1 DEF StepTypes, RequestTypes, SeenTypes
<1>8. balances[CheckedAccount(c)'].available >= seen'[c]
  BY <1>4, <1>6
<1>. QED
  BY <1>1, <1>2, <1>5, <1>6, <1>7, <1>8, OneCall

LEMMA CheckFailsStep ==
  ASSUME IInv, NEW c \in Call, CheckFails(c)
  PROVE  IInv'
<1>1. /\ step[c] = "checking" /\ OtherTypes
      /\ UNCHANGED <<order_rx, balances, open, transfers>>
      /\ End(c, "refused") \/ End(c, "panicked")
  BY TypesAre DEF IInv, CheckFails
<1>2. faults' \in 0 .. MaxFaults
  BY <1>1, RequestsAssumption DEF CheckFails, OtherTypes
<1>. QED
  BY <1>1, <1>2, EndStep

LEMMA AcceptStep ==
  ASSUME IInv, NEW c \in Call, Accept(c)
  PROVE  IInv'
<1>1. /\ StepTypes /\ RequestTypes /\ SeenTypes /\ OtherTypes /\ step[c] = "told"
      /\ UNCHANGED <<order_rx, balances, open, transfers, faults>>
  BY TypesAre DEF IInv, Accept, bounds
<1>2. CASE HasFunds(c) /\ request[c].order_id # None
  <2>1. step' = [step EXCEPT ![c] = "accepted"] /\ UNCHANGED <<request, seen, overtaken>>
    BY <1>2 DEF Accept
  <2>2. StepTypes' /\ RequestTypes' /\ SeenTypes' /\ OtherTypes'
    BY <1>1, <2>1 DEF StepTypes, RequestTypes, SeenTypes, OtherTypes
  <2>3. /\ step'[c] = "accepted"
        /\ \A d \in Call \ {c} : step'[d] = step[d]
    BY <1>1, <2>1 DEF StepTypes
  <2>4. HasFunds(c)' /\ CheckedAccount(c)' = CheckedAccount(c)
    BY <1>2, <2>1 DEF HasFunds, CheckedAccount
  <2>5. c \notin overtaken' => balances[CheckedAccount(c)'].available >= seen'[c]
    BY <1>1, <2>1, <2>4 DEF IInv, StillHas
  <2>6. request[c] \in CreateOrderRequest /\ IsValid(request[c]) /\ ~Overflows(request[c])
    BY <1>1 DEF IInv, Checked
  <2>. QED
    BY <1>1, <1>2, <2>1, <2>2, <2>3, <2>4, <2>5, <2>6, OneCall
<1>3. CASE ~(HasFunds(c) /\ request[c].order_id # None)
  <2>1. End(c, "refused")
    BY <1>3 DEF Accept
  <2>. QED
    BY <1>1, <2>1, EndStep DEF OtherTypes
<1>. QED
  BY <1>2, <1>3


-----------------------------------------------------------------------------
(* What Tail leaves.                                                       *)
LEMMA TailOf ==
  ASSUME NEW S, NEW q \in Seq(S), q # << >>
  PROVE  /\ Head(q) = q[1] /\ Head(q) \in S
         /\ Tail(q) \in Seq(S) /\ Len(Tail(q)) = Len(q) - 1 /\ Len(q) \in Nat \ {0}
         /\ DOMAIN q = 1 .. Len(q) /\ 1 \in DOMAIN q
         /\ \A i \in DOMAIN Tail(q) :
              i \in Nat /\ i + 1 \in DOMAIN q /\ i + 1 # 1 /\ Tail(q)[i] = q[i + 1]
<1>1. /\ Head(q) \in S /\ Tail(q) \in Seq(S) /\ Len(Tail(q)) = Len(q) - 1
      /\ \A i \in 1 .. Len(Tail(q)) : Tail(q)[i] = q[i + 1]
  BY HeadTailProperties
<1>2. Len(q) \in Nat \ {0} /\ DOMAIN q = 1 .. Len(q)
  BY EmptySeq, LenProperties
<1>3. DOMAIN Tail(q) = 1 .. Len(q) - 1
  BY <1>1, LenProperties
<1>4. Head(q) = q[1]
  OBVIOUS
<1>. QED
  BY <1>1, <1>2, <1>3, <1>4

(* What Append adds.                                                       *)
LEMMA AppendOf ==
  ASSUME NEW S, NEW q \in Seq(S), NEW x \in S
  PROVE  /\ Append(q, x) \in Seq(S) /\ Len(Append(q, x)) = Len(q) + 1
         /\ Len(q) \in Nat /\ Append(q, x) # << >>
         /\ DOMAIN q = 1 .. Len(q) /\ DOMAIN Append(q, x) = 1 .. Len(q) + 1
         /\ Append(q, x)[Len(q) + 1] = x
         /\ \A i \in DOMAIN q : Append(q, x)[i] = q[i]
<1>1. /\ Append(q, x) \in Seq(S) /\ Len(Append(q, x)) = Len(q) + 1
      /\ \A i \in 1 .. Len(q) : Append(q, x)[i] = q[i]
      /\ Append(q, x)[Len(q) + 1] = x
  BY AppendProperties
<1>2. /\ Len(q) \in Nat /\ DOMAIN q = 1 .. Len(q)
      /\ DOMAIN Append(q, x) = 1 .. Len(q) + 1
  BY <1>1, LenProperties
<1>3. Append(q, x) # << >>
  BY <1>1, <1>2, EmptySeq
<1>. QED
  BY <1>1, <1>2, <1>3

-----------------------------------------------------------------------------
(* The queue.                                                              *)

LEMMA QueueFacts ==
  ASSUME IInv
  PROVE  \A i \in DOMAIN order_rx :
           LET c == order_rx[i].call
           IN  /\ c \in Call /\ step[c] = "submitted"
               /\ request[c] \in CreateOrderRequest
               /\ IsValid(request[c]) /\ ~Overflows(request[c])
               /\ request[c].order_id # None /\ HasFunds(c)
               /\ order_rx[i].order = OrderEntry(request[c])
<1>1. \A i \in DOMAIN order_rx : order_rx[i] \in Entry
  BY DEF IInv, QueueTypes
<1>2. \A i \in DOMAIN order_rx : order_rx[i].call \in Call
  BY <1>1 DEF Entry
<1>. QED
  BY <1>2 DEF IInv, Queued, Checked

LEMMA SubmitStep ==
  ASSUME IInv, NEW c \in Call, SubmitOrder(c)
  PROVE  IInv'
<1>1. /\ StepTypes /\ RequestTypes /\ SeenTypes /\ OtherTypes /\ OrdersFit
      /\ step[c] = "accepted" /\ UNCHANGED <<balances, open, transfers, faults>>
  BY TypesAre DEF IInv, SubmitOrder, bounds
<1>2. CASE open
  <2>1. PICK e : e = [call |-> c, order |-> OrderEntry(request[c])]
    OBVIOUS
  <2>2. /\ order_rx' = Append(order_rx, e) /\ step' = [step EXCEPT ![c] = "submitted"]
        /\ UNCHANGED <<request, seen, overtaken>>
    BY <1>2, <2>1 DEF SubmitOrder
  <2>3. /\ request[c] \in CreateOrderRequest /\ IsValid(request[c]) /\ ~Overflows(request[c])
        /\ request[c].order_id # None /\ HasFunds(c)
    BY <1>1 DEF IInv, Checked
  <2>4. /\ e.call = c /\ e.order = OrderEntry(request[c])
        /\ e.order \in EngineOrder /\ e.order.id \in OrderId
        /\ LockAmount(e.order) <= MaxDecimal
    <3>1. RequiredAmount(request[c]) <= MaxDecimal
      BY <2>3, CostOf, RequestsAssumption
    <3>. QED
      BY <2>1, <2>3, <3>1, OrderOf
  <2>5. e \in Entry
    BY <2>1, <2>4 DEF Entry, EngineOrder
  <2>6. /\ order_rx' \in Seq(Entry) /\ Len(order_rx) \in Nat
        /\ DOMAIN order_rx = 1 .. Len(order_rx)
        /\ DOMAIN order_rx' = 1 .. Len(order_rx) + 1
        /\ order_rx'[Len(order_rx) + 1] = e
        /\ \A i \in DOMAIN order_rx : order_rx'[i] = order_rx[i]
    BY <2>2, <2>5, AppendOf DEF IInv, QueueTypes
  <2>7. StepTypes' /\ RequestTypes' /\ SeenTypes' /\ OtherTypes'
    BY <1>1, <2>2 DEF StepTypes, RequestTypes, SeenTypes, OtherTypes
  <2>8. /\ step'[c] = "submitted" /\ \A d \in Call \ {c} : step'[d] = step[d]
    BY <1>1, <2>2 DEF StepTypes
  <2>9. OrdersFit'
    <3>1. \A i \in DOMAIN order_rx' : i \in DOMAIN order_rx \/ order_rx'[i] = e
      BY <2>6
    <3>. QED
      BY <1>1, <2>4, <2>6, <3>1 DEF OrdersFit
  <2>10. QueueTypes' /\ NonNegative'
    BY <1>1, <2>6 DEF IInv, QueueTypes, NonNegative
  <2>11. Checked'
    <3>1. SUFFICES ASSUME NEW d \in Call
          PROVE  /\ step'[d] \in {"checking", "told", "accepted", "submitted", "locked"} =>
                      /\ request[d] \in CreateOrderRequest
                      /\ IsValid(request[d]) /\ ~Overflows(request[d])
                 /\ step'[d] \in {"accepted", "submitted"} =>
                      request[d].order_id # None /\ HasFunds(d)
      BY <2>2 DEF Checked, HasFunds
    <3>. QED
      BY <2>3, <2>8 DEF IInv, Checked
  <2>12. StillHas'
    BY <1>1, <2>2, <2>8 DEF IInv, StillHas, CheckedAccount
  <2>13. Queued'
    <3>1. \A i \in DOMAIN order_rx : order_rx[i].call \in Call \ {c}
      BY <1>1, QueueFacts
    <3>2. \A i \in DOMAIN order_rx' :
            \/ /\ i \in DOMAIN order_rx /\ order_rx'[i] = order_rx[i]
               /\ order_rx'[i].call # c
            \/ /\ i = Len(order_rx) + 1 /\ i \notin DOMAIN order_rx
               /\ order_rx'[i].call = c
               /\ order_rx'[i].order = OrderEntry(request[c])
      BY <2>4, <2>6, <3>1
    <3>3. \A i \in DOMAIN order_rx' : step'[order_rx'[i].call] = "submitted"
      BY <2>8, <3>1, <3>2 DEF IInv, Queued
    <3>4. \A i \in DOMAIN order_rx' :
            order_rx'[i].order = OrderEntry(request[order_rx'[i].call])
      BY <3>2 DEF IInv, Queued
    <3>5. \A i, j \in DOMAIN order_rx' : order_rx'[i].call = order_rx'[j].call => i = j
      BY <3>2 DEF IInv, Queued
    <3>. QED
      BY <2>2, <3>3, <3>4, <3>5 DEF Queued
  <2>14. LockedUnits'
    BY <1>1, <2>2, <2>8, LockedStay
  <2>15. RejectedOnlyIfOvertaken'
    BY <2>2, <2>8 DEF IInv, RejectedOnlyIfOvertaken
  <2>. QED
    BY <2>7, <2>9, <2>10, <2>11, <2>12, <2>13, <2>14, <2>15, TypesAreNext DEF IInv
<1>3. CASE ~open
  <2>1. End(c, "lost") /\ UNCHANGED order_rx
    BY <1>3 DEF SubmitOrder
  <2>. QED
    BY <1>1, <2>1, EndStep DEF OtherTypes
<1>. QED
  BY <1>2, <1>3


-----------------------------------------------------------------------------
(* The engine thread.                                                      *)

(* The first order leaves the queue.                                       *)
LEMMA TakeFirst ==
  ASSUME IInv, order_rx # << >>, order_rx' = Tail(order_rx),
         NEW s \in {"locked", "rejected"},
         step' = [step EXCEPT ![Head(order_rx).call] = s],
         UNCHANGED <<request, seen>>
  PROVE  /\ StepTypes' /\ RequestTypes' /\ SeenTypes' /\ OrdersFit' /\ QueueTypes'
         /\ Checked' /\ Queued'
<1>1. /\ StepTypes /\ RequestTypes /\ SeenTypes /\ OrdersFit /\ order_rx \in Seq(Entry)
  BY TypesAre DEF IInv, QueueTypes
<1>2. /\ Head(order_rx) = order_rx[1] /\ 1 \in DOMAIN order_rx
      /\ order_rx' \in Seq(Entry)
      /\ \A i \in DOMAIN order_rx' :
           i \in Nat /\ i + 1 \in DOMAIN order_rx /\ i + 1 # 1
           /\ order_rx'[i] = order_rx[i + 1]
  BY <1>1, TailOf
<1>3. PICK c \in Call : c = order_rx[1].call
  BY <1>2, QueueFacts
<1>4. /\ step'[c] = s /\ \A d \in Call \ {c} : step'[d] = step[d]
  BY <1>1, <1>2, <1>3 DEF StepTypes
<1>5. StepTypes' /\ RequestTypes' /\ SeenTypes'
  BY <1>1, <1>2, <1>3 DEF StepTypes, RequestTypes, SeenTypes
<1>6. OrdersFit' /\ QueueTypes'
  BY <1>1, <1>2 DEF OrdersFit, QueueTypes
<1>7. Checked'
  <2>1. SUFFICES ASSUME NEW d \in Call
        PROVE  /\ step'[d] \in {"checking", "told", "accepted", "submitted", "locked"} =>
                    /\ request[d] \in CreateOrderRequest
                    /\ IsValid(request[d]) /\ ~Overflows(request[d])
               /\ step'[d] \in {"accepted", "submitted"} =>
                    request[d].order_id # None /\ HasFunds(d)
    BY DEF Checked, HasFunds
  <2>. QED
    BY <1>2, <1>3, <1>4, QueueFacts DEF IInv, Checked
<1>8. Queued'
  <2>1. \A i \in DOMAIN order_rx' : order_rx'[i].call \in Call \ {c}
    BY <1>2, <1>3, QueueFacts DEF IInv, Queued
  <2>2. \A i \in DOMAIN order_rx' :
          /\ step'[order_rx'[i].call] = "submitted"
          /\ order_rx'[i].order = OrderEntry(request[order_rx'[i].call])
    BY <1>2, <1>4, <2>1 DEF IInv, Queued
  <2>3. ASSUME NEW i \in DOMAIN order_rx', NEW j \in DOMAIN order_rx',
               order_rx'[i].call = order_rx'[j].call
        PROVE  i = j
    <3>1. i + 1 = j + 1
      BY <1>2, <2>3 DEF IInv, Queued
    <3>. QED
      BY <1>2, <3>1
  <2>. QED
    BY <2>2, <2>3 DEF Queued
<1>. QED
  BY <1>5, <1>6, <1>7, <1>8

LEMMA LockStep ==
  ASSUME IInv, NEW c \in Call, step[c] = "submitted", NEW a \in Account,
         a = CheckedAccount(c), NEW n \in 0 .. MaxDecimal, n = RequiredAmount(request[c]),
         CanLock(balances, a, n), balances' = LockBalance(balances, a, n),
         StepTypes', step' = [step EXCEPT ![c] = "locked"],
         overtaken' = overtaken \cup (Outdated(a) \ {c}),
         UNCHANGED <<request, seen, open, bounds>>
  PROVE  OtherTypes' /\ NonNegative' /\ StillHas' /\ LockedUnits' /\ RejectedOnlyIfOvertaken'
<1>1. StepTypes /\ RequestTypes /\ SeenTypes /\ OtherTypes
  BY TypesAre DEF IInv
<1>2. /\ step'[c] = "locked" /\ \A d \in Call \ {c} : step'[d] = step[d]
  BY <1>1 DEF StepTypes
<1>3. /\ balances' \in BalanceCacheType
      /\ balances'[a].available = balances[a].available - n
      /\ balances'[a].locked = balances[a].locked + n
      /\ \A b \in Account : b # a => balances'[b] = balances[b]
      /\ balances[a].available \in Int /\ balances[a].locked \in Int
  <2>1. n \in Int /\ balances \in BalanceCacheType
    BY <1>1, RequestsAssumption DEF OtherTypes
  <2>. QED
    BY <2>1 DEF BalanceCacheType, Balance, LockBalance
<1>4. OtherTypes'
  BY <1>1, <1>3 DEF OtherTypes, Outdated, bounds
<1>5. NonNegative'
  <2>1. balances'[a].available >= 0
    BY <1>3, RequestsAssumption DEF CanLock
  <2>. QED
    BY <1>3, <2>1 DEF IInv, NonNegative
<1>6. StillHas'
  <2>1. SUFFICES ASSUME NEW d \in Call, step'[d] \in {"told", "accepted", "submitted"},
                        d \notin overtaken'
                 PROVE  balances'[CheckedAccount(d)].available >= seen[d]
    BY DEF StillHas, CheckedAccount
  <2>2. d # c /\ step[d] = step'[d]
    BY <1>2, <2>1
  <2>3. CheckedAccount(d) # a /\ d \notin overtaken
    BY <2>1, <2>2 DEF Outdated
  <2>4. CheckedAccount(d) \in Account
    BY <2>1, <2>2, CostOf DEF IInv, Checked, CheckedAccount
  <2>. QED
    BY <1>3, <2>1, <2>2, <2>3, <2>4 DEF IInv, StillHas
<1>7. LockedUnits'
  <2>1. SUFFICES ASSUME NEW b \in Account
        PROVE  /\ IsFiniteSet(LockedOf(b)')
               /\ balances'[b].locked = Cardinality(Units(LockedOf(b)'))
    BY DEF LockedUnits, Units
  <2>2. /\ IsFiniteSet(LockedOf(b)) /\ balances[b].locked = Cardinality(Units(LockedOf(b)))
    BY DEF IInv, LockedUnits
  <2>3. CASE b = a
    <3>1. LockedOf(b)' = LockedOf(b) \cup {c} /\ c \notin LockedOf(b)
      BY <1>2, <2>3 DEF LockedOf, CheckedAccount
    <3>2. IsFiniteSet(LockedOf(b) \cup {c})
      BY <2>2, FS_AddElement
    <3>3. Cardinality(Units(LockedOf(b) \cup {c})) = Cardinality(Units(LockedOf(b))) + n
      BY <2>2, <3>1, UnitsAdd
    <3>. QED
      BY <1>3, <2>2, <2>3, <3>1, <3>2, <3>3
  <2>4. CASE b # a
    <3>1. LockedOf(b)' = LockedOf(b)
      BY <1>2, <2>4 DEF LockedOf, CheckedAccount
    <3>. QED
      BY <1>3, <2>2, <2>4, <3>1
  <2>. QED
    BY <2>3, <2>4
<1>8. RejectedOnlyIfOvertaken'
  BY <1>2 DEF IInv, RejectedOnlyIfOvertaken
<1>. QED
  BY <1>4, <1>5, <1>6, <1>7, <1>8

(* Who is rejected has been overtaken: the funds that were reported would  *)
(* have sufficed.                                                          *)
LEMMA RejectStep ==
  ASSUME IInv, NEW c \in Call, step[c] = "submitted", HasFunds(c),
         ~CanLock(balances, CheckedAccount(c), RequiredAmount(request[c])),
         CheckedAccount(c) \in Account, RequiredAmount(request[c]) \in 0 .. MaxDecimal,
         StepTypes', step' = [step EXCEPT ![c] = "rejected"],
         UNCHANGED <<request, seen, balances, overtaken, open, bounds>>
  PROVE  OtherTypes' /\ NonNegative' /\ StillHas' /\ LockedUnits' /\ RejectedOnlyIfOvertaken'
<1>1. StepTypes /\ RequestTypes /\ SeenTypes /\ OtherTypes
  BY TypesAre DEF IInv
<1>2. /\ step'[c] = "rejected" /\ \A d \in Call \ {c} : step'[d] = step[d]
  BY <1>1 DEF StepTypes
<1>3. c \in overtaken
  <2>1. SUFFICES ASSUME c \notin overtaken PROVE FALSE
    OBVIOUS
  <2>2. balances[CheckedAccount(c)].available >= seen[c]
    BY <2>1 DEF IInv, StillHas
  <2>3. /\ balances[CheckedAccount(c)].available \in Int /\ seen[c] \in Nat
        /\ RequiredAmount(request[c]) \in Int
    BY <1>1, RequestsAssumption DEF OtherTypes, BalanceCacheType, Balance, SeenTypes
  <2>. QED
    BY <2>2, <2>3 DEF CanLock, HasFunds
<1>4. OtherTypes' /\ NonNegative'
  BY <1>1 DEF OtherTypes, bounds, IInv, NonNegative
<1>5. StillHas'
  BY <1>2 DEF IInv, StillHas, CheckedAccount
<1>6. LockedUnits'
  BY <1>2, LockedStay
<1>7. RejectedOnlyIfOvertaken'
  BY <1>2, <1>3 DEF IInv, RejectedOnlyIfOvertaken
<1>. QED
  BY <1>4, <1>5, <1>6, <1>7

LEMMA ProcessStep ==
  ASSUME IInv, ProcessSubmitOrder
  PROVE  IInv'
<1>1. order_rx # << >> /\ order_rx' = Tail(order_rx) /\ UNCHANGED <<request, seen, open, bounds>>
  BY DEF ProcessSubmitOrder
<1>2. Head(order_rx) = order_rx[1] /\ 1 \in DOMAIN order_rx
  BY <1>1, TailOf DEF IInv, QueueTypes
<1>3. PICK c \in Call : c = Head(order_rx).call
  BY <1>2, QueueFacts
<1>4. /\ step[c] = "submitted" /\ request[c] \in CreateOrderRequest
      /\ IsValid(request[c]) /\ ~Overflows(request[c])
      /\ request[c].order_id # None /\ HasFunds(c)
      /\ Head(order_rx).order = OrderEntry(request[c])
  BY <1>2, <1>3, QueueFacts
<1>5. PICK o : o = Head(order_rx).order
  OBVIOUS
<1>6. PICK a \in Account : a = CheckedAccount(c)
  BY <1>4, CostOf DEF CheckedAccount
<1>7. PICK n \in 0 .. MaxDecimal : n = RequiredAmount(request[c])
  BY <1>4, CostOf
<1>8. <<o.user_id, LockMint(o)>> = a /\ LockAmount(o) = n
  BY <1>4, <1>5, <1>6, <1>7, OrderOf DEF CheckedAccount
<1>9. IF CanLock(balances, a, n)
      THEN /\ balances' = LockBalance(balances, a, n)
           /\ step' = [step EXCEPT ![c] = "locked"]
           /\ overtaken' = overtaken \cup (Outdated(a) \ {c})
      ELSE /\ step' = [step EXCEPT ![c] = "rejected"]
           /\ UNCHANGED <<balances, overtaken>>
  BY <1>3, <1>5, <1>8 DEF ProcessSubmitOrder
<1>10. /\ StepTypes' /\ RequestTypes' /\ SeenTypes' /\ OrdersFit' /\ QueueTypes'
       /\ Checked' /\ Queued'
  BY <1>1, <1>3, <1>9, TakeFirst
<1>11. OtherTypes' /\ NonNegative' /\ StillHas' /\ LockedUnits' /\ RejectedOnlyIfOvertaken'
  <2>1. CASE CanLock(balances, a, n)
    BY <1>1, <1>4, <1>6, <1>7, <1>9, <1>10, <2>1, LockStep
  <2>2. CASE ~CanLock(balances, a, n)
    BY <1>1, <1>4, <1>6, <1>7, <1>9, <1>10, <2>2, RejectStep
  <2>. QED
    BY <2>1, <2>2
<1>. QED
  BY <1>10, <1>11, TypesAreNext DEF IInv


(* Nothing but what is available of one account changes.                   *)
LEMMA UpdateBalanceStep ==
  ASSUME IInv, NEW a \in Account, NEW delta \in {-1, 1}, UpdateBalance(a, delta)
  PROVE  IInv'
<1>1. /\ StepTypes /\ RequestTypes /\ SeenTypes /\ OtherTypes /\ OrdersFit
      /\ UNCHANGED <<step, request, seen, order_rx, open, faults>>
  BY TypesAre DEF IInv, UpdateBalance, calls
<1>2. /\ transfers < MaxTransfers /\ transfers' = transfers + 1
      /\ balances' = AddAvailable(balances, a, delta)
      /\ overtaken' = IF delta < 0 THEN overtaken \cup Outdated(a) ELSE overtaken
  BY DEF UpdateBalance
<1>3. /\ balances' \in BalanceCacheType
      /\ balances'[a].available >= 0
      /\ delta > 0 => balances'[a].available >= balances[a].available
      /\ \A b \in Account : b # a => balances'[b] = balances[b]
      /\ \A b \in Account : balances'[b].locked = balances[b].locked
  <2>1. /\ balances \in BalanceCacheType /\ delta \in Int
        /\ balances[a].available \in Int /\ balances[a].available >= 0
    BY <1>1 DEF OtherTypes, IInv, NonNegative, BalanceCacheType, Balance
  <2>2. PICK n \in Int : n = IF balances[a].available + delta < 0 THEN 0
                             ELSE balances[a].available + delta
    BY <2>1
  <2>3. n >= 0 /\ (delta > 0 => n >= balances[a].available)
    BY <2>1, <2>2
  <2>4. balances' = [balances EXCEPT ![a] = [available |-> n, locked |-> balances[a].locked]]
    BY <1>2, <2>1, <2>2 DEF AddAvailable
  <2>. QED
    BY <2>1, <2>3, <2>4 DEF BalanceCacheType, Balance
<1>4. StepTypes' /\ RequestTypes' /\ SeenTypes' /\ OrdersFit'
  BY <1>1 DEF StepTypes, RequestTypes, SeenTypes, OrdersFit
<1>5. OtherTypes'
  <2>1. overtaken' \subseteq Call
    BY <1>1, <1>2 DEF OtherTypes, Outdated
  <2>2. transfers' \in 0 .. MaxTransfers
    BY <1>1, <1>2, RequestsAssumption DEF OtherTypes
  <2>. QED
    BY <1>1, <1>3, <2>1, <2>2 DEF OtherTypes
<1>6. QueueTypes' /\ NonNegative'
  BY <1>1, <1>3 DEF IInv, QueueTypes, NonNegative
<1>7. Checked' /\ Queued'
  BY <1>1 DEF IInv, Checked, HasFunds, Queued
<1>8. StillHas'
  <2>1. SUFFICES ASSUME NEW c \in Call, step[c] \in {"told", "accepted", "submitted"},
                        c \notin overtaken'
                 PROVE  balances'[CheckedAccount(c)].available >= seen[c]
    BY <1>1 DEF StillHas, CheckedAccount
  <2>2. c \notin overtaken
    BY <1>2, <2>1
  <2>3. CheckedAccount(c) \in Account
    BY <2>1, CostOf DEF IInv, Checked, CheckedAccount
  <2>4. balances[CheckedAccount(c)].available >= seen[c]
    BY <2>1, <2>2 DEF IInv, StillHas
  <2>5. CASE CheckedAccount(c) # a
    BY <1>3, <2>3, <2>4, <2>5
  <2>6. CASE CheckedAccount(c) = a
    <3>1. delta > 0
      <4>1. c \in Outdated(a)
        BY <2>1, <2>6 DEF Outdated
      <4>2. ~(delta < 0)
        BY <1>2, <2>1, <4>1
      <4>. QED
        BY <4>2
    <3>2. /\ balances'[a].available \in Int /\ balances[a].available \in Int
          /\ seen[c] \in Nat
      BY <1>1, <1>3 DEF OtherTypes, BalanceCacheType, Balance, SeenTypes
    <3>. QED
      BY <1>3, <2>4, <2>6, <3>1, <3>2
  <2>. QED
    BY <2>5, <2>6
<1>9. LockedUnits'
  BY <1>1, <1>3, LockedStay
<1>10. RejectedOnlyIfOvertaken'
  BY <1>1, <1>2 DEF IInv, RejectedOnlyIfOvertaken
<1>. QED
  BY <1>4, <1>5, <1>6, <1>7, <1>8, <1>9, <1>10, TypesAreNext DEF IInv

LEMMA StopStep ==
  ASSUME IInv, open' \in BOOLEAN,
         UNCHANGED <<step, request, seen, order_rx, balances, transfers, faults, overtaken>>
  PROVE  IInv'
<1>1. /\ StepTypes' /\ RequestTypes' /\ SeenTypes' /\ OrdersFit' /\ OtherTypes'
  BY TypesAre DEF IInv, StepTypes, RequestTypes, SeenTypes, OrdersFit, OtherTypes
<1>2. QueueTypes' /\ NonNegative' /\ Checked' /\ Queued'
  BY DEF IInv, QueueTypes, NonNegative, Checked, HasFunds, Queued
<1>3. StillHas' /\ RejectedOnlyIfOvertaken'
  BY DEF IInv, StillHas, CheckedAccount, RejectedOnlyIfOvertaken
<1>4. LockedUnits'
  BY LockedStay
<1>. QED
  BY <1>1, <1>2, <1>3, <1>4, TypesAreNext DEF IInv

-----------------------------------------------------------------------------
LEMMA InitInvariant == Init => IInv
<1> SUFFICES ASSUME Init PROVE IInv
  OBVIOUS
<1>1. StepTypes /\ RequestTypes /\ SeenTypes /\ OtherTypes
  BY RequestsAssumption
  DEF Init, StepTypes, RequestTypes, SeenTypes, OtherTypes, BalanceCacheType, Balance
<1>2. DOMAIN order_rx = {} /\ order_rx \in Seq(Entry)
  BY DEF Init
<1>3. OrdersFit /\ QueueTypes /\ Queued
  BY <1>2 DEF OrdersFit, QueueTypes, Queued
<1>4. NonNegative
  BY RequestsAssumption DEF Init, NonNegative
<1>5. \A c \in Call : step[c] = "idle"
  BY DEF Init
<1>6. Checked /\ StillHas /\ RejectedOnlyIfOvertaken
  BY <1>5 DEF Checked, StillHas, RejectedOnlyIfOvertaken
<1>7. LockedUnits
  <2>1. SUFFICES ASSUME NEW a \in Account
        PROVE  /\ IsFiniteSet(LockedOf(a))
               /\ balances[a].locked = Cardinality(Units(LockedOf(a)))
    BY DEF LockedUnits
  <2>2. LockedOf(a) = {} /\ Units({}) = {}
    BY <1>5 DEF LockedOf, Units
  <2>3. balances[a].locked = 0
    BY DEF Init
  <2>. QED
    BY <2>2, <2>3, FS_EmptySet
<1>. QED
  BY <1>1, <1>3, <1>4, <1>6, <1>7, TypesAre DEF IInv

LEMMA StepInvariant == IInv /\ [Next]_vars => IInv'
<1> SUFFICES ASSUME IInv, [Next]_vars PROVE IInv'
  OBVIOUS
<1>1. ASSUME NEW c \in Call, NEW r \in CreateOrderRequest, Receive(c, r) PROVE IInv'
  BY <1>1, ReceiveStep
<1>2. ASSUME NEW c \in Call, CallStep(c) PROVE IInv'
  BY <1>2, CheckBalanceStep, CheckFailsStep, AcceptStep, SubmitStep DEF CallStep
<1>3. CASE ProcessSubmitOrder
  BY <1>3, ProcessStep
<1>4. ASSUME NEW a \in Account, NEW delta \in {-1, 1}, UpdateBalance(a, delta) PROVE IInv'
  BY <1>4, UpdateBalanceStep
<1>5. CASE StopEngine
  BY <1>5, StopStep DEF StopEngine, calls, bounds
<1>6. CASE UNCHANGED vars
  <2>1. open \in BOOLEAN
    BY TypesAre DEF IInv, OtherTypes
  <2>. QED
    BY <1>6, <2>1, StopStep DEF vars, calls, bounds
<1>. QED
  BY <1>1, <1>2, <1>3, <1>4, <1>5, <1>6 DEF Next

(* The inductive invariant: the queue holds each submitted call once and   *)
(* with its own order, whoever was not overtaken still has the funds that  *)
(* were reported, and locked is one unit per unit of the locked calls.     *)
THEOREM Invariant == Spec => []IInv
<1>1. Init => IInv
  BY InitInvariant
<1>2. IInv /\ [Next]_vars => IInv'
  BY StepInvariant
<1>. QED
  BY <1>1, <1>2, PTL DEF Spec

(* The orders that reach the engine have the shape it relies on, whatever  *)
(* clients send, and their cost does not overflow (validate_order_request, *)
(* calculate_required_balance and create_order of order_service.rs).       *)
THEOREM RequestTypesCorrect == Spec => []TypeOK
<1>1. IInv => TypeOK
  BY DEF IInv
<1>. QED
  BY <1>1, Invariant, PTL

(* An order the engine drops for want of funds had them when the service   *)
(* checked (check_balance of order_service.rs).                            *)
THEOREM RejectionsOvertaken == Spec => []RejectedOnlyIfOvertaken
<1>1. IInv => RejectedOnlyIfOvertaken
  BY DEF IInv
<1>. QED
  BY <1>1, Invariant, PTL

(* The engine has locked what the service asked for, account by account:   *)
(* no order twice, none in another mint or with another amount             *)
(* (process_submit_order of threads.rs, create_order of order_service.rs). *)
THEOREM LocksAreChecked == Spec => []LockedIsChecked
<1>1. IInv => LockedIsChecked
  <2>1. SUFFICES ASSUME IInv, NEW a \in Account
        PROVE  balances[a].locked = Sum(LockedOf(a))
    BY DEF LockedIsChecked, LockedOf
  <2>2. IsFiniteSet(LockedOf(a)) /\ balances[a].locked = Cardinality(Units(LockedOf(a)))
    BY <2>1 DEF IInv, LockedUnits
  <2>3. Costs(LockedOf(a))
    BY <2>1, CostOf DEF Costs, LockedOf, IInv, Checked
  <2>. QED
    BY <2>2, <2>3, SumCountsUnits
<1>. QED
  BY <1>1, Invariant, PTL


===============================================================================
