-------------------------- MODULE MCMatchingEngine --------------------------
(* Instances of MatchingEngine for TLC. *)
EXTENDS MatchingEngine

\* GTD shares GTC's branch, so one of them stands for both.
MCKinds == {<<"market", "GTC">>, <<"limit", "GTC">>, <<"limit", "IOC">>, <<"limit", "FOK">>}

\* The kinds that build a deep book and take from it.
MCBookKinds == {<<"market", "GTC">>, <<"limit", "GTC">>}
=============================================================================
