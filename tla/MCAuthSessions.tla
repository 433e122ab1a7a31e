--------------------------- MODULE MCAuthSessions ---------------------------
(* Instances of AuthSessions for TLC. *)
EXTENDS AuthSessions, TLC

CONSTANTS c1, c2

MCSlots == {c1, c2}
Symmetry == Permutations(MCSlots)
=============================================================================
