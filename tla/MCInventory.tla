---------------------------- MODULE MCInventory ----------------------------
(***************************************************************************)
(* An instance of Inventory for TLC.                                       *)
(***************************************************************************)
EXTENDS Inventory, TLC

CONSTANTS w1, w2, b1, b2, u1, u2, l1, l2

Symmetry == Permutations({w1, w2}) \cup Permutations({b1, b2})
            \cup Permutations({u1, u2}) \cup Permutations({l1, l2})
=============================================================================
