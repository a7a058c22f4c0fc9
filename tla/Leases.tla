------------------------------- MODULE Leases -------------------------------
(***************************************************************************)
(* The lease service (internal/modules/leases) over the leases,            *)
(* lease_renewal_offers, lease_closeouts and units tables of one           *)
(* organization.                                                           *)
(*                                                                         *)
(* A worker is one HTTP request being served.  The service opens no        *)
(* transaction, so every repository call commits by itself and one step of *)
(* a worker is one SQL statement; between two steps any other request may  *)
(* run.  A read of columns no statement ever changes (a lease's unit and   *)
(* tenant) is merged into the statement that follows it.  A request that   *)
(* the service refuses before its first statement with an effect (role,    *)
(* organization, tenant or building checks) leaves the tables alone and is *)
(* not a step.                                                             *)
(*                                                                         *)
(* A definition whose name is another's with a suffix (SyncingSkipped) is  *)
(* a faulty variant of it that no run uses: put in its place, it shows     *)
(* that a property would notice the fault.                                 *)
(*                                                                         *)
(* Dates count seconds.  Three fields of a lease row, and the variable     *)
(* "trusted", are history: the program does not store them.                *)
(***************************************************************************)
EXTENDS Integers, FiniteSets

CONSTANTS Workers,      \* requests that may be in progress at once
          Units,        \* units of the organization
          LeaseIds,     \* primary keys the leases table may use
          OfferIds,     \* primary keys the renewal offers table may use
          NewLeases,    \* bodies of POST /leases
          Patches,      \* bodies of PATCH /leases/{id}
          EndDates,     \* end_date of POST .../end (given, or the current time)
          MoveOutDates, \* move_out_date of POST .../closeout
          OfferTerms,   \* bodies of POST .../renewal-offers
          ManualStatus, \* status of PATCH /units/{id}
          Failures,     \* whether statements may fail and the process may stop
          FarFuture,    \* the bound that stands for an open end (year 9999)
          NoEnd,        \* a NULL end_date
          Keep,         \* a field the update leaves alone
          None          \* no unit, no lease, no offer

LeaseStatus == {"draft", "pending_approval", "active", "rejected", "ended", "cancelled"}
UnitStatus  == {"vacant", "occupied", "offline", "maintenance"}
Date        == Nat
EndDate     == Date \cup {NoEnd}

Update == [start: Date \cup {Keep}, end: Date \cup {Keep},
           status: LeaseStatus \cup {Keep}, primary: BOOLEAN \cup {Keep}]

ASSUME InputsAssumption ==
    /\ NewLeases \subseteq [start: Date, end: EndDate, status: LeaseStatus, primary: BOOLEAN]
    /\ Patches \subseteq Update
    /\ EndDates \subseteq Date
    /\ MoveOutDates \subseteq Date
    /\ OfferTerms \subseteq [start: Date, end: EndDate]
    /\ ManualStatus \subseteq UnitStatus
    /\ Failures \in BOOLEAN
    /\ FarFuture \in Nat

ASSUME WorkersAssumption == IsFiniteSet(Workers)

ASSUME ValuesAssumption ==
    /\ NoEnd \notin Int
    /\ Keep \notin Int \cup LeaseStatus \cup BOOLEAN
    /\ None \notin Units \cup LeaseIds \cup OfferIds

VARIABLES
    leases,     \* the leases table; status "absent" is a key not in use
    offers,     \* the lease_renewal_offers table
    closeouts,  \* the leases with a row in lease_closeouts (unique lease_id)
    unitStatus, \* the status column of the units table
    req,        \* what each request in progress holds in its local variables
    trusted     \* history: the last write of the unit's status was a
                \* recalculation no lease write had overtaken, and no
                \* recalculation has been abandoned since

vars == <<leases, offers, closeouts, unitStatus, req, trusted>>

(***************************************************************************)
(* datesChecked: the dates were last written after ValidateLeaseDateOrder  *)
(* passed on data no other request had changed since.  overlapChecked: the *)
(* same of the active status, the primary flag and the overlap check.      *)
(* from: the renewal offer the lease was created for.                      *)
(***************************************************************************)
Row == [unit: Units \cup {None}, start: Date, end: EndDate,
        status: LeaseStatus \cup {"absent"}, primary: BOOLEAN,
        datesChecked: BOOLEAN, overlapChecked: BOOLEAN, from: OfferIds \cup {None}]

NoRow == [unit |-> None, start |-> 0, end |-> NoEnd, status |-> "absent",
          primary |-> FALSE, datesChecked |-> FALSE, overlapChecked |-> FALSE, from |-> None]

NoUpdate == [start |-> Keep, end |-> Keep, status |-> Keep, primary |-> Keep]

Offer == [lease: LeaseIds \cup {None}, start: Date, end: EndDate,
          status: {"absent", "offered", "accepted", "rejected"}]

NoOffer == [lease |-> None, start |-> 0, end |-> NoEnd, status |-> "absent"]

(***************************************************************************)
(* A request's locals: the operation, the statement it issues next, the    *)
(* lease, unit and offer it works on, the row it loaded or is about to     *)
(* insert, the column values it is about to store, and whether the count   *)
(* of active leases it read was positive.  "fresh" is history: no other    *)
(* request has written a lease of the unit since this one last read them.  *)
(***************************************************************************)
Request == [op: {"none", "create", "patch", "end", "decide", "accept", "closeout"},
            pc: {"idle", "check", "offer", "decide", "update", "insert", "count", "set"},
            lease: LeaseIds \cup {None}, unit: Units \cup {None},
            offer: OfferIds \cup {None}, row: Row, upd: Update,
            leased: BOOLEAN, fresh: BOOLEAN]

Idle == [op |-> "none", pc |-> "idle", lease |-> None, unit |-> None,
         offer |-> None, row |-> NoRow, upd |-> NoUpdate,
         leased |-> FALSE, fresh |-> FALSE]

TypeOK ==
    /\ leases \in [LeaseIds -> Row]
    /\ offers \in [OfferIds -> Offer]
    /\ closeouts \subseteq LeaseIds
    /\ unitStatus \in [Units -> UnitStatus]
    /\ req \in [Workers -> Request]
    /\ trusted \in [Units -> BOOLEAN]

Init ==
    /\ leases = [l \in LeaseIds |-> NoRow]
    /\ offers = [o \in OfferIds |-> NoOffer]
    /\ closeouts = {}
    /\ unitStatus = [u \in Units |-> "vacant"]
    /\ req = [w \in Workers |-> Idle]
    /\ trusted = [u \in Units |-> TRUE]

-----------------------------------------------------------------------------
(***************************************************************************)
(* Date ranges and the overlap rule (validator.go).                        *)
(***************************************************************************)
Exists(l) == leases[l].status # "absent"

endExclusiveUpper(end) == IF end = NoEnd THEN FarFuture ELSE end

RangesOverlap(a, b) ==
    /\ a.start < endExclusiveUpper(b.end)
    /\ b.start < endExclusiveUpper(a.end)

OrderedDates(r) == r.end # NoEnd => r.end > r.start

ActivePrimary(r) == r.status = "active" /\ r.primary

\* The rows the overlap check compares with: every other active primary
\* lease of the unit.
ActivePrimaryLeasesForUnit(u, except) ==
    {l \in LeaseIds \ {except} : leases[l].unit = u /\ ActivePrimary(leases[l])}

NoOverlapCheck(u, except, r) == TRUE

NoPrimaryActiveOverlap(u, except, r) ==
    ActivePrimary(r) =>
        \A l \in ActivePrimaryLeasesForUnit(u, except) : ~RangesOverlap(r, leases[l])

HasActiveLease(u) == \E l \in LeaseIds : leases[l].unit = u /\ leases[l].status = "active"

Set(old, new) == IF new = Keep THEN old ELSE new

\* A lease with the given columns of an UPDATE replaced.
Apply(r, upd) == [r EXCEPT !.start = Set(@, upd.start), !.end = Set(@, upd.end),
                           !.status = Set(@, upd.status), !.primary = Set(@, upd.primary)]

-----------------------------------------------------------------------------
(***************************************************************************)
(* Statements shared by the handlers.                                      *)
(***************************************************************************)

\* The requests after worker w wrote a lease of unit u and moved on to r:
\* what the others read of that unit's leases is now out of date.
AfterLeaseWrite(w, u, r) ==
    [v \in Workers |-> IF v = w THEN r
                       ELSE IF req[v].unit = u THEN [req[v] EXCEPT !.fresh = FALSE]
                       ELSE req[v]]

\* The lease a tenant's acceptance of offer o creates.
RenewedLease(u, o) ==
    [unit |-> u, start |-> offers[o].start, end |-> offers[o].end, status |-> "active",
     primary |-> TRUE, datesChecked |-> FALSE, overlapChecked |-> FALSE, from |-> o]

\* History: what the row was checked for when request r updates or inserts it.
Updated(row, r) ==
    [Apply(row, r.upd) EXCEPT
        !.datesChecked = IF r.upd.start = Keep /\ r.upd.end = Keep THEN @
                         ELSE r.op \in {"patch", "end"} /\ r.fresh,
        !.overlapChecked = IF r.op = "patch" THEN r.fresh ELSE @ /\ r.upd.status # "active"]

Inserted(r) ==
    [r.row EXCEPT !.primary = TRUE,
                  !.datesChecked = r.op = "create",
                  !.overlapChecked = r.op = "create" /\ r.row.primary /\ r.fresh]

SyncingSkipped(r) == Idle

\* The rest of every handler that wrote a lease: recalculate the unit.
Syncing(r) == [Idle EXCEPT !.op = r.op, !.pc = "count", !.unit = r.unit]

\* UPDATE leases: the columns in upd, nothing else.  Accepting a renewal
\* goes on to insert the new lease, the others to recalculate the unit.
UpdateLease(w) ==
    LET r == req[w]
        rest == IF r.op = "accept"
                THEN [r EXCEPT !.pc = "insert", !.row = RenewedLease(r.unit, r.offer),
                               !.upd = NoUpdate]
                ELSE Syncing(r)
    IN  /\ r.pc = "update"
        /\ leases' = [leases EXCEPT ![r.lease] = Updated(@, r)]
        /\ req' = AfterLeaseWrite(w, r.unit, rest)
        /\ UNCHANGED <<offers, closeouts, unitStatus, trusted>>

\* INSERT INTO leases.  The model tag is default:true, and gorm stores the
\* default of a column in place of a zero value: is_primary false becomes true.
InsertLease(w) ==
    LET r == req[w]
    IN  /\ r.pc = "insert"
        /\ \E l \in LeaseIds :
              /\ ~Exists(l)
              /\ leases' = [leases EXCEPT ![l] = Inserted(r)]
        /\ req' = AfterLeaseWrite(w, r.unit, Syncing(r))
        /\ UNCHANGED <<offers, closeouts, unitStatus, trusted>>

\* syncUnitOccupancy, first statement: SELECT count(*) of the active leases.
CountActiveLeasesOnUnit(w) ==
    /\ req[w].pc = "count"
    /\ req' = [req EXCEPT ![w].pc = "set", ![w].fresh = TRUE,
                          ![w].leased = HasActiveLease(req[w].unit)]
    /\ UNCHANGED <<leases, offers, closeouts, unitStatus, trusted>>

SetUnitStatusSkipped(w) ==
    /\ req[w].pc = "set"
    /\ unitStatus' = [unitStatus EXCEPT ![req[w].unit] =
                         IF req[w].leased THEN "occupied" ELSE @]
    /\ trusted' = [trusted EXCEPT ![req[w].unit] = req[w].fresh]
    /\ req' = [req EXCEPT ![w] = Idle]
    /\ UNCHANGED <<leases, offers, closeouts>>

SetUnitStatusMisnamed(w) ==
    /\ req[w].pc = "set"
    /\ unitStatus' = [unitStatus EXCEPT ![req[w].unit] =
                         IF req[w].leased THEN "active" ELSE "vacant"]
    /\ trusted' = [trusted EXCEPT ![req[w].unit] = req[w].fresh]
    /\ req' = [req EXCEPT ![w] = Idle]
    /\ UNCHANGED <<leases, offers, closeouts>>

\* syncUnitOccupancy, second statement: UPDATE units SET status.  The audit
\* row that follows is best effort, and the request returns.
SetUnitStatus(w) ==
    /\ req[w].pc = "set"
    /\ unitStatus' = [unitStatus EXCEPT ![req[w].unit] =
                         IF req[w].leased THEN "occupied" ELSE "vacant"]
    /\ trusted' = [trusted EXCEPT ![req[w].unit] = req[w].fresh]
    /\ req' = [req EXCEPT ![w] = Idle]
    /\ UNCHANGED <<leases, offers, closeouts>>

\* The request has written a lease and has not recalculated the unit since.
Unsynced(r) == r.pc \in {"count", "set"} \/ (r.op = "accept" /\ r.pc = "insert")

\* A statement fails, the context is cancelled or the process stops: what
\* was committed stays, the rest of the handler does not happen.
Abort(w) ==
    /\ Failures
    /\ req[w].pc # "idle"
    /\ trusted' = IF Unsynced(req[w]) THEN [trusted EXCEPT ![req[w].unit] = FALSE]
                                      ELSE trusted
    /\ req' = [req EXCEPT ![w] = Idle]
    /\ UNCHANGED <<leases, offers, closeouts, unitStatus>>

-----------------------------------------------------------------------------
(***************************************************************************)
(* The handlers, up to the statement they share.                           *)
(***************************************************************************)

\* Create: the dates are ordered and, for an active primary lease, nothing
\* overlaps it (one SELECT); the INSERT is a later statement.
CreateLease(w) ==
    /\ req[w].pc = "idle"
    /\ \E u \in Units, n \in NewLeases :
          /\ OrderedDates(n)
          /\ NoPrimaryActiveOverlap(u, None, n)
          /\ req' = [req EXCEPT ![w] =
                [Idle EXCEPT !.op = "create", !.pc = "insert", !.unit = u, !.fresh = TRUE,
                    !.row = [NoRow EXCEPT !.unit = u, !.start = n.start, !.end = n.end,
                                          !.status = n.status, !.primary = n.primary]]]
    /\ UNCHANGED <<leases, offers, closeouts, unitStatus, trusted>>

\* The request after it loaded lease l.
Loaded(op, pc, l) ==
    [Idle EXCEPT !.op = op, !.pc = pc, !.lease = l, !.unit = leases[l].unit,
                 !.row = leases[l], !.fresh = TRUE]

\* Patch: load the lease.
PatchLoad(w) ==
    /\ req[w].pc = "idle"
    /\ \E l \in LeaseIds, p \in Patches :
          /\ Exists(l)
          /\ req' = [req EXCEPT ![w] = [Loaded("patch", "check", l) EXCEPT !.upd = p]]
    /\ UNCHANGED <<leases, offers, closeouts, unitStatus, trusted>>

PatchCheckUnmerged(w) ==
    LET r == req[w]
        valid == OrderedDates(r.row) /\ NoPrimaryActiveOverlap(r.unit, r.lease, r.row)
    IN  /\ r.pc = "check"
        /\ req' = [req EXCEPT ![w] = IF valid THEN [r EXCEPT !.pc = "update", !.row = NoRow]
                                             ELSE Idle]
        /\ UNCHANGED <<leases, offers, closeouts, unitStatus, trusted>>

\* Patch: check the loaded lease merged with the body, against itself and
\* against the other active primary leases of the unit; refuse or go on.
PatchCheck(w) ==
    LET r == req[w]
        next == Apply(r.row, r.upd)
        valid == OrderedDates(next) /\ NoPrimaryActiveOverlap(r.unit, r.lease, next)
    IN  /\ r.pc = "check"
        /\ req' = [req EXCEPT ![w] = IF valid THEN [r EXCEPT !.pc = "update", !.row = NoRow]
                                             ELSE Idle]
        /\ UNCHANGED <<leases, offers, closeouts, unitStatus, trusted>>

\* End: load the lease and refuse an end that is not after its start.
EndLease(w) ==
    /\ req[w].pc = "idle"
    /\ \E l \in LeaseIds, endAt \in EndDates :
          /\ Exists(l)
          /\ endAt > leases[l].start
          /\ req' = [req EXCEPT ![w] = [Loaded("end", "update", l) EXCEPT
                        !.row = NoRow,
                        !.upd = [NoUpdate EXCEPT !.status = "ended", !.end = endAt]]]
    /\ UNCHANGED <<leases, offers, closeouts, unitStatus, trusted>>

\* Approve and Reject by the lease's tenant, whatever its status.
Decide(w) ==
    /\ req[w].pc = "idle"
    /\ \E l \in LeaseIds, st \in {"active", "rejected"} :
          /\ Exists(l)
          /\ req' = [req EXCEPT ![w] = [Loaded("decide", "update", l) EXCEPT
                        !.row = NoRow, !.upd = [NoUpdate EXCEPT !.status = st]]]
    /\ UNCHANGED <<leases, offers, closeouts, unitStatus, trusted>>

\* Closeout: INSERT INTO lease_closeouts, refused by the unique index when
\* the lease has one; the lease ends on the move-out date in a later statement.
Closeout(w) ==
    /\ req[w].pc = "idle"
    /\ \E l \in LeaseIds, moveOut \in MoveOutDates :
          /\ Exists(l) /\ l \notin closeouts
          /\ closeouts' = closeouts \cup {l}
          /\ req' = [req EXCEPT ![w] = [Loaded("closeout", "update", l) EXCEPT
                        !.row = NoRow,
                        !.upd = [NoUpdate EXCEPT !.status = "ended", !.end = moveOut]]]
    /\ UNCHANGED <<leases, offers, unitStatus, trusted>>

\* CreateRenewalOffer: its terms are not validated.
CreateRenewalOffer ==
    /\ \E l \in LeaseIds, o \in OfferIds, t \in OfferTerms :
          /\ Exists(l) /\ offers[o].status = "absent"
          /\ offers' = [offers EXCEPT ![o] =
                [lease |-> l, start |-> t.start, end |-> t.end, status |-> "offered"]]
    /\ UNCHANGED <<leases, closeouts, unitStatus, req, trusted>>

\* RejectRenewalOffer does not look at the status the offer has.
RejectRenewalOffer ==
    /\ \E o \in OfferIds :
          /\ offers[o].status # "absent"
          /\ offers' = [offers EXCEPT ![o].status = "rejected"]
    /\ UNCHANGED <<leases, closeouts, unitStatus, req, trusted>>

\* AcceptRenewalOffer: load the lease, then the offer, which must still be
\* "offered"; then mark it accepted, end the lease, insert the new one.
AcceptLoad(w) ==
    /\ req[w].pc = "idle"
    /\ \E o \in OfferIds :
          /\ offers[o].status # "absent"
          /\ req' = [req EXCEPT ![w] =
                        [Loaded("accept", "offer", offers[o].lease) EXCEPT !.offer = o]]
    /\ UNCHANGED <<leases, offers, closeouts, unitStatus, trusted>>

AcceptReadOfferUnguarded(w) ==
    /\ req[w].pc = "offer"
    /\ req' = [req EXCEPT ![w].pc = "decide"]
    /\ UNCHANGED <<leases, offers, closeouts, unitStatus, trusted>>

AcceptReadOffer(w) ==
    /\ req[w].pc = "offer"
    /\ req' = IF offers[req[w].offer].status = "offered"
              THEN [req EXCEPT ![w].pc = "decide"]
              ELSE [req EXCEPT ![w] = Idle]
    /\ UNCHANGED <<leases, offers, closeouts, unitStatus, trusted>>

AcceptDecideOffer(w) ==
    LET r == req[w]
        start == offers[r.offer].start
        lastDay == IF start > r.row.start THEN start - 1 ELSE Keep
    IN  /\ r.pc = "decide"
        /\ offers' = [offers EXCEPT ![r.offer].status = "accepted"]
        /\ req' = [req EXCEPT ![w] = [r EXCEPT !.pc = "update", !.row = NoRow,
                      !.upd = [NoUpdate EXCEPT !.status = "ended", !.end = lastDay]]]
        /\ UNCHANGED <<leases, closeouts, unitStatus, trusted>>

\* The error of the UPDATE that ends the old lease is dropped: the handler
\* goes on to the INSERT with the old lease as it was.
AcceptUpdateFails(w) ==
    LET r == req[w]
    IN  /\ Failures
        /\ r.op = "accept" /\ r.pc = "update"
        /\ req' = [req EXCEPT ![w] = [r EXCEPT !.pc = "insert", !.upd = NoUpdate,
                                               !.row = RenewedLease(r.unit, r.offer)]]
        /\ UNCHANGED <<leases, offers, closeouts, unitStatus, trusted>>

\* PATCH /units/{id} (internal/modules/units) stores any status by hand.
PatchUnitStatus ==
    /\ \E u \in Units, st \in ManualStatus :
          /\ unitStatus' = [unitStatus EXCEPT ![u] = st]
          /\ trusted' = [trusted EXCEPT ![u] = FALSE]
    /\ UNCHANGED <<leases, offers, closeouts, req>>

Step(w) ==
    \/ CreateLease(w) \/ PatchLoad(w) \/ PatchCheck(w) \/ EndLease(w) \/ Decide(w)
    \/ Closeout(w) \/ AcceptLoad(w) \/ AcceptReadOffer(w) \/ AcceptDecideOffer(w)
    \/ AcceptUpdateFails(w) \/ UpdateLease(w) \/ InsertLease(w)
    \/ CountActiveLeasesOnUnit(w) \/ SetUnitStatus(w) \/ Abort(w)

Next ==
    \/ \E w \in Workers : Step(w)
    \/ CreateRenewalOffer
    \/ RejectRenewalOffer
    \/ PatchUnitStatus

Spec == Init /\ [][Next]_vars

-----------------------------------------------------------------------------
(***************************************************************************)
(* Properties.                                                             *)
(***************************************************************************)
SyncPending(u) == \E w \in Workers : req[w].unit = u /\ Unsynced(req[w])

\* Unit occupancy synchronization: a unit whose last status write was a
\* recalculation that no other lease write overtook, with no recalculation
\* abandoned or still to come, shows "occupied" exactly when it has an active
\* lease.  Whatever goes wrong with the status (syncUnitOccupancy is two
\* statements outside a transaction) needs one of those three causes.
OccupancyFollowsLeases ==
    \A u \in Units : trusted[u] /\ ~SyncPending(u) =>
        unitStatus[u] = IF HasActiveLease(u) THEN "occupied" ELSE "vacant"

Overlapping(k, l) ==
    /\ k # l
    /\ leases[k].unit = leases[l].unit
    /\ ActivePrimary(leases[k]) /\ ActivePrimary(leases[l])
    /\ RangesOverlap(leases[k], leases[l])

\* The overlap rule of Create and Patch: two active primary leases of a unit
\* overlap only if one of them got there around the check (tenant approval,
\* renewal, a creation with is_primary false) or past a check that another
\* request's write had made out of date.
OverlapNeedsUncheckedWrite ==
    \A k, l \in LeaseIds :
        Overlapping(k, l) => ~(leases[k].overlapChecked /\ leases[l].overlapChecked)

\* Every lease whose dates were last written through ValidateLeaseDateOrder,
\* with no other request's write in between, ends after it starts; the rows
\* with end_date <= start_date come from renewals, closeouts or races.
CheckedDatesAreOrdered ==
    \A l \in LeaseIds : Exists(l) /\ leases[l].datesChecked => OrderedDates(leases[l])

\* Renewal: an offer is turned into no more leases than there were requests
\* that could read it as "offered" at the same time; served one at a time,
\* requests renew a lease at most once per offer, however the accepts,
\* rejections and failures follow each other.
RenewalsBounded ==
    \A o \in OfferIds :
        Cardinality({l \in LeaseIds : leases[l].from = o}) <= Cardinality(Workers)

\* The service implements the abstract occupancy, for any number of requests:
\* a unit's status becomes settled again only by a recalculation from the
\* leases as they are at that moment, with no other request still to follow.
Occupancy == INSTANCE UnitOccupancy WITH
    leased  <- [u \in Units |-> HasActiveLease(u)],
    status  <- unitStatus,
    settled <- [u \in Units |-> trusted[u] /\ ~SyncPending(u)]

ImplementsUnitOccupancy == Occupancy!Spec

(***************************************************************************)
(* What the handlers' documentation says, and the code does not do.        *)
(***************************************************************************)

\* "Active + primary leases cannot overlap in time on the same unit (enforced
\* here and by SQL EXCLUDE)", handler.go of the leases.
PrimaryLeasesNeverOverlap == \A k, l \in LeaseIds : ~Overlapping(k, l)

\* "Tenant approves a pending lease", handler.go of the leases: a lease that
\* an approval makes active was pending.
ApprovalIsOfPendingLease ==
    [][\A w \in Workers, l \in LeaseIds :
          req[w].op = "decide" /\ req[w].lease = l
          /\ leases[l].status # "active" /\ leases'[l].status = "active"
             => leases[l].status = "pending_approval"]_vars
=============================================================================
