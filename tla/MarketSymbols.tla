--------------------------- MODULE MarketSymbols ---------------------------
(***************************************************************************)
(* The instruments that the market data service collects, stores and sends *)
(* on.                                                                     *)
(***************************************************************************)

CONSTANT Symbols
=============================================================================
