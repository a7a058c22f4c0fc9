-------------------------- MODULE InventoryProofs --------------------------
(***************************************************************************)
(* Proofs about Inventory.tla, for any sets of keys and any number of      *)
(* deletions in progress.                                                  *)
(*                                                                         *)
(* The properties speak of rows; what keeps them is the deletions under    *)
(* way.  HomeInv says that a vouched reference is to a live row that no    *)
(* deletion is past the count of: a deletion that starts finds the         *)
(* reference and gives up, and one that has counted found none.            *)
(***************************************************************************)
EXTENDS Inventory, TLAPS

\* The key of a deletion is of the table it works on; a unit to delete is there.
KeysOK ==
    \A w \in Workers :
        /\ req[w].op = "building" => req[w].key \in BuildingIds
        /\ req[w].op = "unit" => req[w].key \in UnitIds /\ units[req[w].key].state # "absent"
        /\ req[w].op = "tenant" => req[w].key \in TenantIds

\* A row that is there refers to rows of the other tables.
RefsOK ==
    /\ \A u \in UnitIds : units[u].state # "absent" => units[u].building \in BuildingIds
    /\ \A l \in LeaseIds : leases[l].state # "absent" =>
          leases[l].unit \in UnitIds /\ leases[l].tenant \in TenantIds
    /\ \A l \in LeaseIds : leases[l].housed => leases[l].state = "active"
    /\ \A l \in LeaseIds : leases[l].known => leases[l].state # "absent"

\* A vouched reference is to a row that is live and stays.
HomeInv ==
    /\ \A u \in UnitIds : units[u].state = "live" /\ units[u].housed =>
          Safe("building", buildings, units[u].building)
    /\ \A l \in LeaseIds : leases[l].housed => Safe("unit", UnitState, leases[l].unit)
    /\ \A l \in LeaseIds : leases[l].known => Safe("tenant", tenants, leases[l].tenant)

IInv == TypeOK /\ KeysOK /\ RefsOK /\ HomeInv

-----------------------------------------------------------------------------
\* The initial tables are typed and refer to nothing.
LEMMA InitIInv == Init => IInv
BY DEF Init, IInv, TypeOK, KeysOK, RefsOK, HomeInv, Unit, Lease, Request, Idle, RowState

\* No step leaves the types.
LEMMA NextType == IInv /\ [Next]_vars => TypeOK'
<1> SUFFICES ASSUME IInv, [Next]_vars PROVE TypeOK'
    OBVIOUS
<1> USE DEF IInv, TypeOK, KeysOK, Unit, Lease, Request, Idle, RowState
<1>1. ASSUME NEW b \in BuildingIds, CreateBuilding(b) PROVE TypeOK'
    BY <1>1 DEF CreateBuilding
<1>2. ASSUME NEW t \in TenantIds, CreateTenant(t) PROVE TypeOK'
    BY <1>2 DEF CreateTenant
<1>3. ASSUME NEW u \in UnitIds, NEW b \in BuildingIds, NEW label \in Labels,
             CreateUnit(u, b, label)
      PROVE  TypeOK'
    BY <1>3 DEF CreateUnit, Safe, BeingDeleted
<1>4. ASSUME NEW u \in UnitIds, NEW label \in Labels, RelabelUnit(u, label) PROVE TypeOK'
    BY <1>4 DEF RelabelUnit
<1>5. ASSUME NEW l \in LeaseIds, NEW u \in UnitIds, NEW t \in TenantIds,
             NEW state \in {"active", "inactive"}, CreateLease(l, u, t, state)
      PROVE  TypeOK'
    BY <1>5 DEF CreateLease, Safe, BeingDeleted
<1>6. ASSUME NEW l \in LeaseIds, ActivateLease(l) PROVE TypeOK'
    <2> DEFINE vouched == (leases[l].state = "active" /\ leases[l].housed)
                          \/ Safe("unit", UnitState, leases[l].unit)
    <2>1. leases' = [leases EXCEPT ![l] =
                        [leases[l] EXCEPT !.state = "active", !.housed = vouched]]
        BY <1>6 DEF ActivateLease
    <2>2. vouched \in BOOLEAN
        BY DEF Safe, BeingDeleted
    <2>3. leases[l] \in Lease
        OBVIOUS
    <2> HIDE DEF vouched
    <2>4. [leases[l] EXCEPT !.state = "active", !.housed = vouched] \in Lease
        BY ONLY <2>2, <2>3 DEF Lease
    <2> DEFINE new == [leases[l] EXCEPT !.state = "active", !.housed = vouched]
    <2>5. leases \in [LeaseIds -> Lease] /\ new \in Lease /\ leases' = [leases EXCEPT ![l] = new]
        BY <2>1, <2>4
    <2> HIDE DEF new
    <2>6. leases' \in [LeaseIds -> Lease]
        BY ONLY <2>5
    <2> QED
        BY <1>6, <2>6 DEF ActivateLease
<1>7. ASSUME NEW l \in LeaseIds, DeactivateLease(l) PROVE TypeOK'
    <2>1. leases' = [leases EXCEPT ![l] =
                        [leases[l] EXCEPT !.state = "inactive", !.housed = FALSE]]
        BY <1>7 DEF DeactivateLease
    <2>2. [leases[l] EXCEPT !.state = "inactive", !.housed = FALSE] \in Lease
      <3>1. leases[l] \in Lease
        OBVIOUS
      <3> QED
        BY ONLY <3>1 DEF Lease
    <2> QED
        BY <1>7, <2>1, <2>2 DEF DeactivateLease
<1>8. ASSUME NEW w \in Workers, NEW b \in BuildingIds, CountUnitsForBuilding(w, b) PROVE TypeOK'
    BY <1>8 DEF CountUnitsForBuilding
<1>9. ASSUME NEW w \in Workers, NEW u \in UnitIds, CountActiveLeasesForUnit(w, u) PROVE TypeOK'
    BY <1>9 DEF CountActiveLeasesForUnit
<1>10. ASSUME NEW w \in Workers, NEW t \in TenantIds, CountLeasesForTenant(w, t) PROVE TypeOK'
    BY <1>10 DEF CountLeasesForTenant
<1>11. ASSUME NEW w \in Workers, SoftDeleteBuilding(w) PROVE TypeOK'
    BY <1>11 DEF SoftDeleteBuilding
<1>12. ASSUME NEW w \in Workers, SoftDeleteUnit(w) PROVE TypeOK'
    <2>1. [units[req[w].key] EXCEPT !.state = "deleted"] \in Unit
      <3>1. units[req[w].key] \in Unit
        BY <1>12 DEF SoftDeleteUnit
      <3> QED
        BY ONLY <3>1 DEF Unit, RowState
    <2> QED
        BY <1>12, <2>1 DEF SoftDeleteUnit
<1>13. ASSUME NEW w \in Workers, SoftDeleteTenant(w) PROVE TypeOK'
    BY <1>13 DEF SoftDeleteTenant
<1>14. ASSUME NEW w \in Workers, Abort(w) PROVE TypeOK'
    BY <1>14 DEF Abort
<1>15. CASE UNCHANGED vars
    BY <1>15 DEF vars
<1> QED
    BY <1>1, <1>2, <1>3, <1>4, <1>5, <1>6, <1>7, <1>8, <1>9, <1>10, <1>11, <1>12, <1>13,
       <1>14, <1>15 DEF Next

\* No step confuses the tables or vouches for a lease that is not there.
LEMMA NextRefs == IInv /\ [Next]_vars => KeysOK' /\ RefsOK'
<1> SUFFICES ASSUME IInv, [Next]_vars PROVE KeysOK' /\ RefsOK'
    OBVIOUS
<1> USE DEF IInv, TypeOK, KeysOK, RefsOK, Unit, Lease, Request, Idle
<1>1. ASSUME NEW b \in BuildingIds, CreateBuilding(b) PROVE KeysOK' /\ RefsOK'
    BY <1>1 DEF CreateBuilding
<1>2. ASSUME NEW t \in TenantIds, CreateTenant(t) PROVE KeysOK' /\ RefsOK'
    BY <1>2 DEF CreateTenant
<1>3. ASSUME NEW u \in UnitIds, NEW b \in BuildingIds, NEW label \in Labels,
             CreateUnit(u, b, label)
      PROVE  KeysOK' /\ RefsOK'
    BY <1>3 DEF CreateUnit
<1>4. ASSUME NEW u \in UnitIds, NEW label \in Labels, RelabelUnit(u, label)
      PROVE  KeysOK' /\ RefsOK'
    BY <1>4 DEF RelabelUnit
<1>5. ASSUME NEW l \in LeaseIds, NEW u \in UnitIds, NEW t \in TenantIds,
             NEW state \in {"active", "inactive"}, CreateLease(l, u, t, state)
      PROVE  KeysOK' /\ RefsOK'
    BY <1>5 DEF CreateLease
<1>6. ASSUME NEW l \in LeaseIds, ActivateLease(l) PROVE KeysOK' /\ RefsOK'
    BY <1>6 DEF ActivateLease
<1>7. ASSUME NEW l \in LeaseIds, DeactivateLease(l) PROVE KeysOK' /\ RefsOK'
    BY <1>7 DEF DeactivateLease
<1>8. ASSUME NEW w \in Workers, NEW b \in BuildingIds, CountUnitsForBuilding(w, b)
      PROVE  KeysOK' /\ RefsOK'
    BY <1>8 DEF CountUnitsForBuilding
<1>9. ASSUME NEW w \in Workers, NEW u \in UnitIds, CountActiveLeasesForUnit(w, u)
      PROVE  KeysOK' /\ RefsOK'
    BY <1>9 DEF CountActiveLeasesForUnit
<1>10. ASSUME NEW w \in Workers, NEW t \in TenantIds, CountLeasesForTenant(w, t)
       PROVE  KeysOK' /\ RefsOK'
    BY <1>10 DEF CountLeasesForTenant
<1>11. ASSUME NEW w \in Workers, SoftDeleteBuilding(w) PROVE KeysOK' /\ RefsOK'
    BY <1>11 DEF SoftDeleteBuilding
<1>12. ASSUME NEW w \in Workers, SoftDeleteUnit(w) PROVE KeysOK' /\ RefsOK'
    <2>1. \A u \in UnitIds : /\ units'[u].building = units[u].building
                           /\ units'[u].state # "absent" => units[u].state # "absent" \/ u = req[w].key
        BY <1>12 DEF SoftDeleteUnit
    <2>2. units[req[w].key].state # "absent"
        BY <1>12 DEF SoftDeleteUnit
    <2> QED
        BY <1>12, <2>1, <2>2 DEF SoftDeleteUnit
<1>13. ASSUME NEW w \in Workers, SoftDeleteTenant(w) PROVE KeysOK' /\ RefsOK'
    BY <1>13 DEF SoftDeleteTenant
<1>14. ASSUME NEW w \in Workers, Abort(w) PROVE KeysOK' /\ RefsOK'
    BY <1>14 DEF Abort
<1>15. CASE UNCHANGED vars
    BY <1>15 DEF vars
<1> HIDE DEF IInv, TypeOK, KeysOK, RefsOK, Unit, Lease, Request, Idle
<1> QED
    BY <1>1, <1>2, <1>3, <1>4, <1>5, <1>6, <1>7, <1>8, <1>9, <1>10, <1>11, <1>12, <1>13,
       <1>14, <1>15 DEF Next

-----------------------------------------------------------------------------
\* Each step keeps vouched references safe.  Insertions and activations
\* vouch only for what is safe; a deletion that starts has found no
\* reference; one that ends is of a row nobody vouches for.
LEMMA NextHome == IInv /\ [Next]_vars => HomeInv'
<1> SUFFICES ASSUME IInv, [Next]_vars PROVE HomeInv'
    OBVIOUS
<1> USE DEF IInv, TypeOK, KeysOK, RefsOK, HomeInv, Unit, Lease, Request, Idle, UnitState
<1>1. ASSUME NEW b \in BuildingIds, CreateBuilding(b) PROVE HomeInv'
    BY <1>1 DEF CreateBuilding, Safe, BeingDeleted
<1>2. ASSUME NEW t \in TenantIds, CreateTenant(t) PROVE HomeInv'
    BY <1>2 DEF CreateTenant, Safe, BeingDeleted
<1>3. ASSUME NEW u \in UnitIds, NEW b \in BuildingIds, NEW label \in Labels,
             CreateUnit(u, b, label)
      PROVE  HomeInv'
    BY ZenonT(40), <1>3 DEF CreateUnit, Safe, BeingDeleted
<1>4. ASSUME NEW u \in UnitIds, NEW label \in Labels, RelabelUnit(u, label) PROVE HomeInv'
    BY <1>4 DEF RelabelUnit, Safe, BeingDeleted
<1>5. ASSUME NEW l \in LeaseIds, NEW u \in UnitIds, NEW t \in TenantIds,
             NEW state \in {"active", "inactive"}, CreateLease(l, u, t, state)
      PROVE  HomeInv'
    BY <1>5 DEF CreateLease, Safe, BeingDeleted
<1>6. ASSUME NEW l \in LeaseIds, ActivateLease(l) PROVE HomeInv'
    BY <1>6 DEF ActivateLease, Safe, BeingDeleted
<1>7. ASSUME NEW l \in LeaseIds, DeactivateLease(l) PROVE HomeInv'
    BY <1>7 DEF DeactivateLease, Safe, BeingDeleted
<1>8. ASSUME NEW w \in Workers, NEW b \in BuildingIds, CountUnitsForBuilding(w, b) PROVE HomeInv'
    BY <1>8 DEF CountUnitsForBuilding, UnitsOf, Safe, BeingDeleted
<1>9. ASSUME NEW w \in Workers, NEW u \in UnitIds, CountActiveLeasesForUnit(w, u) PROVE HomeInv'
    BY <1>9 DEF CountActiveLeasesForUnit, ActiveLeasesOf, Safe, BeingDeleted
<1>10. ASSUME NEW w \in Workers, NEW t \in TenantIds, CountLeasesForTenant(w, t) PROVE HomeInv'
    BY <1>10 DEF CountLeasesForTenant, LeasesOfTenant, Safe, BeingDeleted
<1>11. ASSUME NEW w \in Workers, SoftDeleteBuilding(w) PROVE HomeInv'
    BY <1>11 DEF SoftDeleteBuilding, Safe, BeingDeleted
<1>12. ASSUME NEW w \in Workers, SoftDeleteUnit(w) PROVE HomeInv'
    <2> DEFINE d == req[w].key
    <2>1. /\ d \in UnitIds
          /\ req[w] = [op |-> "unit", key |-> d]
          /\ units'[d].state = "deleted"
          /\ \A u \in UnitIds \ {d} : units'[u] = units[u]
          /\ UNCHANGED <<buildings, tenants, leases>>
        BY <1>12 DEF SoftDeleteUnit
    <2>2. \A op, key : BeingDeleted(op, key)' => BeingDeleted(op, key) \/ op = "none"
        BY <1>12 DEF SoftDeleteUnit, BeingDeleted
    <2>3. \A u \in UnitIds : units'[u].state = "live" /\ units'[u].housed =>
              Safe("building", buildings, units[u].building)'
        BY <2>1, <2>2 DEF Safe
    <2>4. \A l \in LeaseIds : leases[l].housed => leases[l].unit # d
      <3>1. BeingDeleted("unit", d)
        BY <2>1 DEF BeingDeleted
      <3>2. \A l \in LeaseIds : leases[l].housed => ~BeingDeleted("unit", leases[l].unit)
        BY DEF Safe
      <3> QED
        BY ONLY <3>1, <3>2
    <2>5. \A l \in LeaseIds : leases[l].housed => Safe("unit", UnitState, leases[l].unit)'
      <3> SUFFICES ASSUME NEW l \in LeaseIds, leases[l].housed
                   PROVE  Safe("unit", UnitState, leases[l].unit)'
        OBVIOUS
      <3>1. leases[l].unit \in UnitIds \ {d} /\ leases'[l].unit = leases[l].unit
        BY <2>1, <2>4
      <3>2. units[leases[l].unit].state = "live" /\ ~BeingDeleted("unit", leases[l].unit)
        BY <3>1 DEF Safe
      <3>3. UnitState'[leases[l].unit] = "live"
        BY <2>1, <3>1, <3>2
      <3>4. ~BeingDeleted("unit", leases[l].unit)'
        BY <2>1, <2>2, <3>2
      <3> QED
        BY <3>1, <3>3, <3>4 DEF Safe
    <2>6. \A l \in LeaseIds : leases[l].known => Safe("tenant", tenants, leases[l].tenant)'
        BY <2>1, <2>2 DEF Safe
    <2> QED
        BY <2>1, <2>3, <2>5, <2>6
<1>13. ASSUME NEW w \in Workers, SoftDeleteTenant(w) PROVE HomeInv'
    BY <1>13 DEF SoftDeleteTenant, Safe, BeingDeleted
<1>14. ASSUME NEW w \in Workers, Abort(w) PROVE HomeInv'
    BY <1>14 DEF Abort, Safe, BeingDeleted
<1>15. CASE UNCHANGED vars
    BY <1>15 DEF vars, Safe, BeingDeleted
<1> HIDE DEF IInv, TypeOK, KeysOK, RefsOK, HomeInv, Unit, Lease, Request, Idle, UnitState
<1> QED
    BY <1>1, <1>2, <1>3, <1>4, <1>5, <1>6, <1>7, <1>8, <1>9, <1>10, <1>11, <1>12, <1>13,
       <1>14, <1>15 DEF Next
-----------------------------------------------------------------------------
\* Every reachable state satisfies the inductive invariant.
THEOREM Invariance == Spec => []IInv
<1>1. Init => IInv
    BY InitIInv
<1>2. IInv /\ [Next]_vars => IInv'
    BY NextType, NextRefs, NextHome DEF IInv
<1> QED
    BY <1>1, <1>2, PTL DEF Spec

\* The tables, and what a deletion in progress holds, have their types.
THEOREM TypeCorrect == Spec => []TypeOK
<1>1. IInv => TypeOK
    BY DEF IInv
<1> QED
    BY Invariance, <1>1, PTL

\* A unit inserted while its building was safe keeps its building.
THEOREM UnitsCorrect == Spec => []UnitsStayHoused
<1>1. IInv => UnitsStayHoused
    BY DEF IInv, HomeInv, UnitsStayHoused, Safe
<1> QED
    BY Invariance, <1>1, PTL

\* A lease that became active while its unit was safe keeps the unit, and
\* with it the building.
THEOREM LeasesCorrect == Spec => []ActiveLeasesStayHoused
<1>1. IInv => ActiveLeasesStayHoused
  <2> SUFFICES ASSUME IInv, NEW l \in LeaseIds, leases[l].state = "active", leases[l].housed
               PROVE  LET u == leases[l].unit
                      IN  /\ units[u].state = "live"
                          /\ units[u].housed => buildings[units[u].building] = "live"
    BY DEF ActiveLeasesStayHoused
  <2>1. leases[l].unit \in UnitIds
    BY DEF IInv, RefsOK
  <2>2. units[leases[l].unit].state = "live"
    BY <2>1 DEF IInv, HomeInv, Safe, UnitState
  <2> QED
    BY <2>1, <2>2 DEF IInv, HomeInv, Safe
<1> QED
    BY Invariance, <1>1, PTL

\* A lease inserted while its tenant was safe keeps its tenant.
THEOREM TenantsCorrect == Spec => []LeasesKeepTheirTenant
<1>1. IInv => LeasesKeepTheirTenant
    BY DEF IInv, HomeInv, LeasesKeepTheirTenant, Safe
<1> QED
    BY Invariance, <1>1, PTL
=============================================================================
