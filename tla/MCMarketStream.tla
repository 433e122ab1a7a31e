--------------------------- MODULE MCMarketStream ---------------------------
(* An instance of MarketStream for TLC. *)
EXTENDS MarketStream
=============================================================================
