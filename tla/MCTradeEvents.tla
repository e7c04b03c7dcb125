---------------------------- MODULE MCTradeEvents ----------------------------
(* The instance of TradeEvents that TLC checks. *)
EXTENDS TradeEvents
=============================================================================
