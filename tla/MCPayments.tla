----------------------------- MODULE MCPayments -----------------------------
(***************************************************************************)
(* Instances of Payments for TLC.                                          *)
(***************************************************************************)
EXTENDS Payments, TLC

CONSTANTS w1, w2, ph1, ph2

MCIds == {1, 2}

\* A manual reference that is a payment's key, and one that is not.
MCManualRefs == {1, ph1}

WorkerSymmetry == Permutations({w1, w2})
=============================================================================
