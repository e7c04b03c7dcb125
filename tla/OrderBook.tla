------------------------------ MODULE OrderBook ------------------------------
(***************************************************************************)
(* The order book of one trading pair (engine/orderbook.rs).  Each side    *)
(* maps a price to a FIFO queue.  The code removes a price from its        *)
(* BTreeMap when the queue runs empty, so an empty queue here is an absent *)
(* level.                                                                  *)
(***************************************************************************)
EXTENDS EngineTypes, Sequences

Book == [Side -> [Price -> Seq(Order)]]
EmptyBook == [s \in Side |-> [p \in Price |-> << >>]]

Levels(ob, side) == {p \in Price : ob[side][p] # << >>}

(* Mutant: both sides are read from the lowest price.                      *)
IsLowestPrice(ob, side, p) ==
  p \in Levels(ob, side) /\ \A q \in Levels(ob, side) : p <= q

IsBestPrice(ob, side, p) ==
  /\ p \in Levels(ob, side)
  /\ \A q \in Levels(ob, side) : IF side = "buy" THEN q <= p ELSE p <= q

AddOrder(ob, o) ==
  [ob EXCEPT ![o.order_type][o.price] = Append(@, o)]

(* Replace the queue of one level; an empty queue removes the level.       *)
SetLevel(ob, side, p, queue) == [ob EXCEPT ![side][p] = queue]

(* The orders resting on one side, or anywhere in the book.                *)
RestingAt(ob, side, p) == {ob[side][p][i] : i \in DOMAIN ob[side][p]}
RestingOn(ob, side) == UNION {RestingAt(ob, side, p) : p \in Price}
Resting(ob) == RestingOn(ob, "buy") \cup RestingOn(ob, "sell")

(* Mutant: a price equal to the limit is not matched.                      *)
CrossesStrictly(o, p) == \/ o.order_side = "market"
                         \/ o.order_type = "buy"  /\ p < o.price
                         \/ o.order_type = "sell" /\ p > o.price

(* Does an incoming order reach a level at price p of the opposite side?   *)
Crosses(o, p) == \/ o.order_side = "market"
                 \/ o.order_type = "buy"  /\ p <= o.price
                 \/ o.order_type = "sell" /\ p >= o.price

=============================================================================
