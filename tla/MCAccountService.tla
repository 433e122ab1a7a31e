-------------------------- MODULE MCAccountService --------------------------
(* Instances of AccountService for TLC. *)
EXTENDS AccountService, TLC

CONSTANTS alice, bob, c1, c2

MCHolders == {alice, bob}
MCSlots == {c1, c2}
Symmetry == Permutations(MCSlots) \cup Permutations(MCHolders)
=============================================================================
