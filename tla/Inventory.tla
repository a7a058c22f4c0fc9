----------------------------- MODULE Inventory -----------------------------
(***************************************************************************)
(* The rows of one organization that refer to each other: a unit to its    *)
(* building (internal/modules/units, buildings), a lease to its unit and   *)
(* its tenant (internal/modules/leases, tenants).  Rows are soft-deleted:  *)
(* they stay in their table with deleted_at set, so that no foreign key    *)
(* ever objects, and only the services' checks keep a row that is in use.  *)
(*                                                                         *)
(* A deletion is two statements, the count of what refers to the row and   *)
(* the UPDATE of deleted_at; any other request may run between them.  The  *)
(* checks before an insertion (the building, the unit, the tenant exist)   *)
(* look at the tables by name, which takes soft-deleted rows in; a row     *)
(* never leaves its table, so such a check cannot go stale and is merged   *)
(* into the insertion.  Leases.tla has the statements of the lease         *)
(* service; here a lease is the status it has and what it refers to.       *)
(*                                                                         *)
(* A definition whose name is another's with a suffix                      *)
(* (SoftDeleteBuildingArchived) is a faulty variant of it that no run      *)
(* uses: put in its place, it shows that a property would notice the fault.*)
(***************************************************************************)
CONSTANTS Workers,    \* deletions that may be in progress at once
          BuildingIds, UnitIds, TenantIds, LeaseIds, \* primary keys
          Labels,     \* unit labels
          NoKey       \* no building, no unit, no tenant, no label

ASSUME KeysAssumption == NoKey \notin BuildingIds \cup UnitIds \cup TenantIds

VARIABLES
    buildings, \* state of each row of the buildings table
    units,     \* the units table
    tenants,   \* state of each row of the tenants table
    leases,    \* the leases table; no operation deletes a lease
    req        \* what each deletion in progress holds

vars == <<buildings, units, tenants, leases, req>>

RowState == {"absent", "live", "deleted"}

(***************************************************************************)
(* The last field of a unit and the last two of a lease are history.       *)
(* housed: when the unit was inserted, or the lease became active, its     *)
(* building (its unit) was live and no deletion of it was past its count.  *)
(* known: the same of the lease's tenant at the insertion.                 *)
(***************************************************************************)
Unit == [state: RowState, building: BuildingIds \cup {NoKey},
         label: Labels \cup {NoKey}, housed: BOOLEAN]

Lease == [state: {"absent", "active", "inactive"}, unit: UnitIds \cup {NoKey},
          tenant: TenantIds \cup {NoKey}, housed: BOOLEAN, known: BOOLEAN]

Request == [op: {"none", "building", "unit", "tenant"},
            key: BuildingIds \cup UnitIds \cup TenantIds \cup {NoKey}]

Idle == [op |-> "none", key |-> NoKey]

TypeOK ==
    /\ buildings \in [BuildingIds -> RowState]
    /\ units \in [UnitIds -> Unit]
    /\ tenants \in [TenantIds -> RowState]
    /\ leases \in [LeaseIds -> Lease]
    /\ req \in [Workers -> Request]

Init ==
    /\ buildings = [b \in BuildingIds |-> "absent"]
    /\ units = [u \in UnitIds |-> [state |-> "absent", building |-> NoKey,
                                   label |-> NoKey, housed |-> FALSE]]
    /\ tenants = [t \in TenantIds |-> "absent"]
    /\ leases = [l \in LeaseIds |-> [state |-> "absent", unit |-> NoKey, tenant |-> NoKey,
                                     housed |-> FALSE, known |-> FALSE]]
    /\ req = [w \in Workers |-> Idle]

-----------------------------------------------------------------------------
\* History: a deletion of the row has counted its users and not stored yet.
BeingDeleted(op, key) == \E w \in Workers : req[w] = [op |-> op, key |-> key]

Safe(op, state, key) == state[key] = "live" /\ ~BeingDeleted(op, key)

UnitState == [u \in UnitIds |-> units[u].state]

\* The unique index on (building_id, unit_label) does not leave the
\* soft-deleted rows out: a deleted unit keeps its label.
LabelFree(b, label, except) ==
    \A u \in UnitIds \ {except} :
        units[u].state # "absent" /\ units[u].building = b => units[u].label # label

-----------------------------------------------------------------------------
(***************************************************************************)
(* Insertions and changes.                                                 *)
(***************************************************************************)
CreateBuilding(b) ==
    /\ buildings[b] = "absent"
    /\ buildings' = [buildings EXCEPT ![b] = "live"]
    /\ UNCHANGED <<units, tenants, leases, req>>

CreateTenant(t) ==
    /\ tenants[t] = "absent"
    /\ tenants' = [tenants EXCEPT ![t] = "live"]
    /\ UNCHANGED <<buildings, units, leases, req>>

\* BuildingExistsInOrg finds a deleted building too.
CreateUnit(u, b, label) ==
    /\ units[u].state = "absent"
    /\ buildings[b] # "absent"
    /\ LabelFree(b, label, u)
    /\ units' = [units EXCEPT ![u] = [state |-> "live", building |-> b, label |-> label,
                                      housed |-> Safe("building", buildings, b)]]
    /\ UNCHANGED <<buildings, tenants, leases, req>>

\* PATCH of the label: the UPDATE is of a unit that is not deleted.
RelabelUnit(u, label) ==
    /\ units[u].state = "live"
    /\ LabelFree(units[u].building, label, u)
    /\ units' = [units EXCEPT ![u].label = label]
    /\ UNCHANGED <<buildings, tenants, leases, req>>

\* TenantBelongsToOrg and UnitBelongsToOrg find deleted rows too.
CreateLease(l, u, t, state) ==
    /\ leases[l].state = "absent"
    /\ units[u].state # "absent" /\ tenants[t] # "absent"
    /\ leases' = [leases EXCEPT ![l] =
                     [state |-> state, unit |-> u, tenant |-> t,
                      housed |-> state = "active" /\ Safe("unit", UnitState, u),
                      known |-> Safe("tenant", tenants, t)]]
    /\ UNCHANGED <<buildings, units, tenants, req>>

\* Patch, Approve: no handler looks at the unit the lease is of.
ActivateLease(l) ==
    /\ leases[l].state \in {"active", "inactive"}
    /\ leases' = [leases EXCEPT ![l].state = "active",
                     ![l].housed = (leases[l].state = "active" /\ @)
                                   \/ Safe("unit", UnitState, leases[l].unit)]
    /\ UNCHANGED <<buildings, units, tenants, req>>

\* Patch, End, Reject, Closeout, AcceptRenewalOffer.
DeactivateLease(l) ==
    /\ leases[l].state = "active"
    /\ leases' = [leases EXCEPT ![l].state = "inactive", ![l].housed = FALSE]
    /\ UNCHANGED <<buildings, units, tenants, req>>

-----------------------------------------------------------------------------
(***************************************************************************)
(* Deletions: the count, then the UPDATE.                                  *)
(***************************************************************************)
UnitsOf(b) == {u \in UnitIds : units[u].state = "live" /\ units[u].building = b}

ActiveLeasesOf(u) == {l \in LeaseIds : leases[l].state = "active" /\ leases[l].unit = u}

LeasesOfTenant(t) == {l \in LeaseIds : leases[l].state # "absent" /\ leases[l].tenant = t}

LeasesOfTenantActive(t) == {l \in LeaseIds : leases[l].state = "active" /\ leases[l].tenant = t}

CountUnitsForBuildingIgnored(w, b) ==
    /\ req[w].op = "none"
    /\ buildings[b] = "live"
    /\ req' = [req EXCEPT ![w] = [op |-> "building", key |-> b]]
    /\ UNCHANGED <<buildings, units, tenants, leases>>

CountUnitsForBuilding(w, b) ==
    /\ req[w].op = "none"
    /\ buildings[b] = "live"
    /\ UnitsOf(b) = {}
    /\ req' = [req EXCEPT ![w] = [op |-> "building", key |-> b]]
    /\ UNCHANGED <<buildings, units, tenants, leases>>

CountActiveLeasesForUnitIgnored(w, u) ==
    /\ req[w].op = "none"
    /\ units[u].state = "live"
    /\ req' = [req EXCEPT ![w] = [op |-> "unit", key |-> u]]
    /\ UNCHANGED <<buildings, units, tenants, leases>>

CountActiveLeasesForUnit(w, u) ==
    /\ req[w].op = "none"
    /\ units[u].state = "live"
    /\ ActiveLeasesOf(u) = {}
    /\ req' = [req EXCEPT ![w] = [op |-> "unit", key |-> u]]
    /\ UNCHANGED <<buildings, units, tenants, leases>>

CountLeasesForTenantActive(w, t) ==
    /\ req[w].op = "none"
    /\ tenants[t] = "live"
    /\ LeasesOfTenantActive(t) = {}
    /\ req' = [req EXCEPT ![w] = [op |-> "tenant", key |-> t]]
    /\ UNCHANGED <<buildings, units, tenants, leases>>

\* Leases of any status count.
CountLeasesForTenant(w, t) ==
    /\ req[w].op = "none"
    /\ tenants[t] = "live"
    /\ LeasesOfTenant(t) = {}
    /\ req' = [req EXCEPT ![w] = [op |-> "tenant", key |-> t]]
    /\ UNCHANGED <<buildings, units, tenants, leases>>

SoftDeleteBuildingArchived(w) ==
    /\ req[w].op = "building"
    /\ buildings' = [buildings EXCEPT ![req[w].key] = "archived"]
    /\ req' = [req EXCEPT ![w] = Idle]
    /\ UNCHANGED <<units, tenants, leases>>

\* UPDATE ... SET deleted_at of the row, whatever has happened since the
\* count; of a row another request has deleted meanwhile it changes nothing.
SoftDeleteBuilding(w) ==
    /\ req[w].op = "building"
    /\ buildings' = [buildings EXCEPT ![req[w].key] = "deleted"]
    /\ req' = [req EXCEPT ![w] = Idle]
    /\ UNCHANGED <<units, tenants, leases>>

SoftDeleteUnit(w) ==
    /\ req[w].op = "unit"
    /\ units' = [units EXCEPT ![req[w].key].state = "deleted"]
    /\ req' = [req EXCEPT ![w] = Idle]
    /\ UNCHANGED <<buildings, tenants, leases>>

SoftDeleteTenant(w) ==
    /\ req[w].op = "tenant"
    /\ tenants' = [tenants EXCEPT ![req[w].key] = "deleted"]
    /\ req' = [req EXCEPT ![w] = Idle]
    /\ UNCHANGED <<buildings, units, leases>>

\* The UPDATE fails or the process stops: the row stays.
Abort(w) ==
    /\ req[w].op # "none"
    /\ req' = [req EXCEPT ![w] = Idle]
    /\ UNCHANGED <<buildings, units, tenants, leases>>

Next ==
    \/ \E b \in BuildingIds : CreateBuilding(b)
    \/ \E t \in TenantIds : CreateTenant(t)
    \/ \E u \in UnitIds, b \in BuildingIds, label \in Labels : CreateUnit(u, b, label)
    \/ \E u \in UnitIds, label \in Labels : RelabelUnit(u, label)
    \/ \E l \in LeaseIds, u \in UnitIds, t \in TenantIds, state \in {"active", "inactive"} :
          CreateLease(l, u, t, state)
    \/ \E l \in LeaseIds : ActivateLease(l)
    \/ \E l \in LeaseIds : DeactivateLease(l)
    \/ \E w \in Workers, b \in BuildingIds : CountUnitsForBuilding(w, b)
    \/ \E w \in Workers, u \in UnitIds : CountActiveLeasesForUnit(w, u)
    \/ \E w \in Workers, t \in TenantIds : CountLeasesForTenant(w, t)
    \/ \E w \in Workers : SoftDeleteBuilding(w)
    \/ \E w \in Workers : SoftDeleteUnit(w)
    \/ \E w \in Workers : SoftDeleteTenant(w)
    \/ \E w \in Workers : Abort(w)

Spec == Init /\ [][Next]_vars

-----------------------------------------------------------------------------
(***************************************************************************)
(* Properties.                                                             *)
(***************************************************************************)

\* The three deletion rules together ("when it has no units", "when there is
\* no active lease", "only when they have no leases"), seen from the lease: an
\* active lease whose unit and building were safe when it and the unit came
\* in never loses either, whatever is deleted, relabelled or ended around it.
ActiveLeasesStayHoused ==
    \A l \in LeaseIds : leases[l].state = "active" /\ leases[l].housed =>
        LET u == leases[l].unit
        IN  /\ units[u].state = "live"
            /\ units[u].housed => buildings[units[u].building] = "live"

\* A unit in use lives in a live building, unless it was inserted after the
\* building's deletion had counted its units.
UnitsStayHoused ==
    \A u \in UnitIds : units[u].state = "live" /\ units[u].housed =>
        buildings[units[u].building] = "live"

\* The tenant of a lease, of whatever status, stays, unless the lease was
\* inserted after the tenant's deletion had counted the leases.
LeasesKeepTheirTenant ==
    \A l \in LeaseIds : leases[l].known => tenants[leases[l].tenant] = "live"
=============================================================================
