--------------------------- MODULE MCAdminService ---------------------------
(* Instances of AdminService for TLC. *)
EXTENDS AdminService, TLC

CONSTANTS root, clerk, w1, w2, o1, o2, c1, c2

MCUsers == {root, clerk}
MCStaff == {root, clerk}
MCWallets == {w1}
MCOrders == {o1, o2}
MCWalletOf == (o1 :> w1) @@ (o2 :> w1)

\* Two accounts with an order each.
MCTwoWallets == {w1, w2}
MCOneEach == (o1 :> w1) @@ (o2 :> w2)

MCSlots == {c1, c2}
Symmetry == Permutations(MCSlots)
=============================================================================
