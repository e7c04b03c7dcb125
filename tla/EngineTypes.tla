----------------------------- MODULE EngineTypes -----------------------------
(***************************************************************************)
(* Orders as the matching engine holds them (engine/types.rs).             *)
(*                                                                         *)
(* Field names follow the source: order_type is the side of the book,      *)
(* order_side tells limit from market.                                     *)
(***************************************************************************)
EXTENDS Integers

CONSTANTS User,        \* the user ids
          Price        \* the limit prices clients may use

ASSUME PriceAssumption == Price \subseteq Nat \ {0}

Mint == {"base", "quote"}     \* the two mints of the modelled trading pair

NoPrice == 0                              \* price: None
Side == {"buy", "sell"}
Opposite(side) == IF side = "buy" THEN "sell" ELSE "buy"

(* quote_amount and remaining_quote_amount are Some only for a market buy; *)
(* they are 0 in every other order and never read there.                   *)
Order == [id : Nat, user_id : User, order_type : Side,
          order_side : {"limit", "market"}, price : Price \cup {NoPrice},
          amount : Int, remaining_amount : Int,
          quote_amount : Int, remaining_quote_amount : Int]

ByQuote(o) == o.order_type = "buy" /\ o.order_side = "market"

FullyFilled(o) == IF ByQuote(o) THEN o.remaining_quote_amount <= 0
                                ELSE o.remaining_amount = 0

(* What submission locks, and in which mint.                               *)
LockMint(o) == IF o.order_type = "buy" THEN "quote" ELSE "base"
LockAmount(o) == CASE ByQuote(o)             -> o.quote_amount
                   [] o.order_type = "sell"  -> o.amount
                   [] OTHER                  -> o.price * o.amount

(* What a resting order still owes its counterparties.                     *)
Obligation(o) == IF o.order_type = "buy" THEN o.price * o.remaining_amount
                                         ELSE o.remaining_amount

=============================================================================
