----------------------------- MODULE TradeOutbox -----------------------------
(***************************************************************************)
(* What the order manager promises about each trade, without batches,      *)
(* timers or retries: a trade is made, then committed to the database with *)
(* others or not at all, and only then sent to subscribers; a process that *)
(* ends loses what it did not commit, and a lost trade never comes back.   *)
(***************************************************************************)
EXTENDS Naturals, Sequences

VARIABLE stage   \* where each trade is, in the order the trades were made

Stages == {"made", "saved", "sent", "lost"}

Init == stage = <<>>

\* Matching makes new trades.
Make ==
    /\ Len(stage') > Len(stage)
    /\ SubSeq(stage', 1, Len(stage)) = stage
    /\ \A t \in (Len(stage) + 1)..Len(stage') : stage'[t] = "made"

\* The trades in "which" go from one stage to the next.
Move(which, from, to) ==
    /\ which # {}
    /\ \A t \in which : stage[t] = from
    /\ stage' = [t \in DOMAIN stage |-> IF t \in which THEN to ELSE stage[t]]

Commit == \E which \in SUBSET DOMAIN stage : Move(which, "made", "saved")

Send == \E t \in DOMAIN stage : Move({t}, "saved", "sent")

\* The process ends.
Lose == Move({t \in DOMAIN stage : stage[t] = "made"}, "made", "lost")

Next == Make \/ Commit \/ Send \/ Lose

Spec == Init /\ [][Next]_stage
=============================================================================
