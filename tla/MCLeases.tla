------------------------------ MODULE MCLeases ------------------------------
(***************************************************************************)
(* Instances of Leases for TLC.                                            *)
(***************************************************************************)
EXTENDS Leases, TLC

CONSTANTS w1, w2, l1, l2, l3, o1, u1, u2

Lease(s, e, st, p) == [start |-> s, end |-> e, status |-> st, primary |-> p]
Change(s, e, st, p) == [start |-> s, end |-> e, status |-> st, primary |-> p]

\* The active lease [0,2) and the pending [1,open) overlap; cut at 1, the
\* first touches the second and does not.
ConcurrentNewLeases == {Lease(0, 2, "active", TRUE), Lease(1, NoEnd, "pending_approval", TRUE)}
ConcurrentPatches   == {Change(Keep, Keep, "active", Keep), Change(Keep, 1, Keep, Keep)}

SerialNewLeases == {Lease(0, 2, "active", FALSE)}
SerialPatches   == {Change(Keep, 1, "active", Keep)}

MCDates == {1}
MCOfferTerms == {[start |-> 1, end |-> NoEnd]}
MCManualStatus == {"maintenance"}

ConcurrentSymmetry == Permutations({w1, w2}) \cup Permutations({l1, l2})
SerialSymmetry == Permutations({l1, l2, l3})
=============================================================================
