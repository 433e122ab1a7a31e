----------------------------- MODULE MCCandles -----------------------------
(* An instance of Candles for TLC. *)
EXTENDS Candles, TLC

CONSTANTS s1, s2

MCSymbols == {s1, s2}
Symmetry == Permutations(MCSymbols)
=============================================================================
