--------------------------- MODULE UnitOccupancy ---------------------------
(***************************************************************************)
(* What the lease service promises about the status of a unit, without     *)
(* the requests, rows and statements it takes: the status is a copy of     *)
(* "has an active lease".  A decision about a lease unsettles it, and only *)
(* a recalculation from the leases as they are settles it again.           *)
(***************************************************************************)
CONSTANT Units

VARIABLES leased,   \* the unit has an active lease
          status,   \* the status the unit shows
          settled   \* the status is vouched for

Status == {"vacant", "occupied", "offline", "maintenance"}

Shown(isLeased) == IF isLeased THEN "occupied" ELSE "vacant"

Init ==
    /\ leased = [u \in Units |-> FALSE]
    /\ status = [u \in Units |-> "vacant"]
    /\ settled = [u \in Units |-> TRUE]

\* A lease of the unit is created, decided, changed or ended.
Change(u) ==
    /\ \E b \in BOOLEAN : leased' = [leased EXCEPT ![u] = b]
    /\ settled' = [settled EXCEPT ![u] = FALSE]
    /\ UNCHANGED status

\* The status is recalculated from the leases.
Recalculate(u) ==
    /\ status' = [status EXCEPT ![u] = Shown(leased[u])]
    /\ settled' = [settled EXCEPT ![u] = TRUE]
    /\ UNCHANGED leased

\* The status is stored by hand, or from a count that may be out of date.
Disturb(u) ==
    /\ \E st \in Status : status' = [status EXCEPT ![u] = st]
    /\ settled' = [settled EXCEPT ![u] = FALSE]
    /\ UNCHANGED leased

Next == \E u \in Units : Change(u) \/ Recalculate(u) \/ Disturb(u)

Spec == Init /\ [][Next]_<<leased, status, settled>>
=============================================================================
