---------------------------- MODULE LeasesProofs ----------------------------
(***************************************************************************)
(* Proofs about Leases, for every number of requests, units, leases and    *)
(* offers and for every set of request bodies.                             *)
(***************************************************************************)
EXTENDS Leases, FiniteSetTheorems, TLAPS

-----------------------------------------------------------------------------
(***************************************************************************)
(* Typing.                                                                 *)
(***************************************************************************)

\* What an UPDATE stores is a row again, and it neither moves the lease to
\* another unit nor removes it.
LEMMA UpdatedRow ==
    ASSUME NEW row \in Row, NEW r \in Request
    PROVE  /\ Updated(row, r) \in Row
           /\ Updated(row, r).unit = row.unit
           /\ row.status # "absent" => Updated(row, r).status # "absent"
  <1> DEFINE a == Apply(row, r.upd)
  <1>1. r.upd \in Update /\ r.fresh \in BOOLEAN
    BY DEF Request
  <1>2. /\ Set(row.start, r.upd.start) \in Date
        /\ Set(row.end, r.upd.end) \in EndDate
        /\ Set(row.status, r.upd.status) \in LeaseStatus \cup {"absent"}
        /\ Set(row.primary, r.upd.primary) \in BOOLEAN
        /\ row.status # "absent" => Set(row.status, r.upd.status) # "absent"
    BY <1>1 DEF Set, Row, Update, EndDate, LeaseStatus
  <1>3. /\ a \in Row
        /\ a.unit = row.unit
        /\ row.status # "absent" => a.status # "absent"
    BY <1>2 DEF Apply, Row
  <1> HIDE DEF a
  <1>4. \A x, y \in BOOLEAN :
           LET b == [a EXCEPT !.datesChecked = x, !.overlapChecked = y]
           IN  b \in Row /\ b.unit = a.unit /\ b.status = a.status
    BY <1>3 DEF Row
  <1>5. /\ (IF r.upd.start = Keep /\ r.upd.end = Keep THEN a.datesChecked
            ELSE r.op \in {"patch", "end"} /\ r.fresh) \in BOOLEAN
        /\ (IF r.op = "patch" THEN r.fresh
            ELSE a.overlapChecked /\ r.upd.status # "active") \in BOOLEAN
    BY <1>1, <1>3 DEF Row
  <1> QED
    BY <1>3, <1>4, <1>5 DEF Updated, a

\* What an INSERT stores is a row, with the unit and the status it was given.
LEMMA InsertedRow ==
    ASSUME NEW r \in Request
    PROVE  /\ Inserted(r) \in Row
           /\ Inserted(r).unit = r.row.unit
           /\ Inserted(r).status = r.row.status
  <1>1. r.row \in Row
    BY DEF Request
  <1>2. \A x, y \in BOOLEAN :
           LET b == [r.row EXCEPT !.primary = TRUE, !.datesChecked = x, !.overlapChecked = y]
           IN  b \in Row /\ b.unit = r.row.unit /\ b.status = r.row.status
    BY <1>1 DEF Row
  <1> QED
    BY <1>2 DEF Inserted

\* The request at rest, the row not in use and the empty update are typed.
LEMMA IdleRequest == Idle \in Request /\ NoRow \in Row /\ NoUpdate \in Update
  BY ValuesAssumption DEF Idle, Request, NoRow, Row, NoUpdate, Update, Date, EndDate

\* The requests after a lease write are requests.
LEMMA AfterLeaseWriteType ==
    ASSUME TypeOK, NEW w \in Workers, NEW u, NEW r \in Request
    PROVE  AfterLeaseWrite(w, u, r) \in [Workers -> Request]
  <1>1. ASSUME NEW v \in Workers
        PROVE  req[v] \in Request /\ [req[v] EXCEPT !.fresh = FALSE] \in Request
    BY DEF TypeOK, Request
  <1> QED
    BY <1>1 DEF AfterLeaseWrite

\* A request that goes on to recalculate its unit is a request.
LEMMA SyncingType ==
    ASSUME NEW r \in Request
    PROVE  Syncing(r) \in Request
  BY IdleRequest DEF Syncing, Request, Idle

\* The shape of a request once its fields are known to be typed.
LEMMA LoadedType ==
    ASSUME TypeOK, NEW l \in LeaseIds,
           NEW op \in {"patch", "end", "decide", "accept", "closeout"},
           NEW pc \in {"check", "offer", "update"}
    PROVE  Loaded(op, pc, l) \in Request
  BY IdleRequest DEF TypeOK, Loaded, Request, Row

\* The lease a renewal offer turns into is a row.
LEMMA RenewedLeaseType ==
    ASSUME TypeOK, NEW u \in Units \cup {None}, NEW o \in OfferIds
    PROVE  RenewedLease(u, o) \in Row
  BY DEF TypeOK, RenewedLease, Row, Offer, LeaseStatus

-----------------------------------------------------------------------------
(***************************************************************************)
(* Control: which locals a request has set at each of its statements.      *)
(***************************************************************************)
TablesOK ==
    /\ \A l \in LeaseIds : Exists(l) => leases[l].unit \in Units
    /\ \A o \in OfferIds : offers[o].status # "absent" =>
          offers[o].lease \in LeaseIds /\ Exists(offers[o].lease)

\* The operation a request is serving at each statement, and its locals.
OpOf(r) ==
    /\ r.pc = "check" => r.op = "patch"
    /\ r.pc \in {"offer", "decide"} => r.op = "accept"
    /\ r.pc = "update" => r.op \in {"patch", "end", "decide", "accept", "closeout"}
    /\ r.pc = "update" /\ r.op # "patch" => r.upd.status \in {"active", "ended", "rejected"}
    /\ r.pc = "insert" => /\ r.op \in {"create", "accept"}
                          /\ r.row.unit = r.unit
                          /\ r.row.status # "absent"
    /\ r.op = "accept" /\ r.pc \in {"offer", "decide", "update"} => r.offer \in OfferIds
    /\ r.pc # "idle" => r.unit \in Units

HoldsLease(r) == r.pc \in {"check", "offer", "decide", "update"}

ControlOK ==
    \A w \in Workers :
        /\ OpOf(req[w])
        /\ HoldsLease(req[w]) =>
              /\ req[w].lease \in LeaseIds
              /\ Exists(req[w].lease)
              /\ leases[req[w].lease].unit = req[w].unit

\* An offer a request has found in the table stays there.
OffersStay ==
    \A w \in Workers : req[w].pc \in {"offer", "decide"} =>
        req[w].offer \in OfferIds /\ offers[req[w].offer].status # "absent"

BaseInv == TypeOK /\ TablesOK /\ ControlOK /\ OffersStay

\* A step that leaves the tables' rows in place and gives one request locals
\* that fit the statement it has reached keeps the control invariant.
LEMMA LocalStep ==
    ASSUME BaseInv, NEW w \in Workers, NEW r \in Request,
           req' = [req EXCEPT ![w] = r], UNCHANGED leases,
           \A o \in OfferIds : offers[o].status # "absent" => offers'[o].status # "absent",
           OpOf(r),
           r.pc \in {"offer", "decide"} => offers[r.offer].status # "absent",
           HoldsLease(r) => /\ r.lease \in LeaseIds
                            /\ Exists(r.lease)
                            /\ leases[r.lease].unit = r.unit
    PROVE  req' \in [Workers -> Request] /\ ControlOK' /\ OffersStay'
  <1>1. req' \in [Workers -> Request]
    BY DEF BaseInv, TypeOK
  <1>2. ASSUME NEW v \in Workers
        PROVE  /\ OpOf(req'[v])
               /\ HoldsLease(req'[v]) => /\ req'[v].lease \in LeaseIds
                                         /\ leases'[req'[v].lease].status # "absent"
                                         /\ leases'[req'[v].lease].unit = req'[v].unit
    <2>1. CASE v = w
      BY <2>1 DEF BaseInv, TypeOK, Exists
    <2>2. CASE v # w
      BY <2>2 DEF BaseInv, TypeOK, ControlOK, Exists
    <2> QED
      BY <2>1, <2>2
  <1>3. ASSUME NEW v \in Workers, req'[v].pc \in {"offer", "decide"}
        PROVE  req'[v].offer \in OfferIds /\ offers'[req'[v].offer].status # "absent"
    <2>1. CASE v = w
      BY <1>3, <2>1 DEF BaseInv, TypeOK, OpOf
    <2>2. CASE v # w
      BY <1>3, <2>2 DEF BaseInv, TypeOK, OffersStay
    <2> QED
      BY <2>1, <2>2
  <1> QED
    BY <1>1, <1>2, <1>3 DEF ControlOK, OffersStay, Exists, OpOf, HoldsLease

\* The same for a step that writes leases of unit u without moving or
\* removing any.
LEMMA LeaseWriteStep ==
    ASSUME BaseInv, NEW w \in Workers, NEW u \in Units, NEW r \in Request,
           req' = AfterLeaseWrite(w, u, r),
           \A l \in LeaseIds : Exists(l) =>
               leases'[l].status # "absent" /\ leases'[l].unit = leases[l].unit,
           UNCHANGED offers, OpOf(r), ~HoldsLease(r)
    PROVE  req' \in [Workers -> Request] /\ ControlOK' /\ OffersStay'
  <1>1. req' \in [Workers -> Request]
    BY AfterLeaseWriteType DEF BaseInv
  <1>2. ASSUME NEW v \in Workers
        PROVE  /\ OpOf(req'[v])
               /\ HoldsLease(req'[v]) => /\ req'[v].lease \in LeaseIds
                                         /\ leases'[req'[v].lease].status # "absent"
                                         /\ leases'[req'[v].lease].unit = req'[v].unit
    <2>1. CASE v = w
      BY <2>1 DEF AfterLeaseWrite
    <2>2. CASE v # w
      <3>1. /\ req'[v].op = req[v].op
            /\ req'[v].pc = req[v].pc
            /\ req'[v].lease = req[v].lease
            /\ req'[v].unit = req[v].unit
            /\ req'[v].offer = req[v].offer
            /\ req'[v].row = req[v].row
            /\ req'[v].upd = req[v].upd
        BY <2>2 DEF AfterLeaseWrite, BaseInv, TypeOK, Request
      <3> QED
        BY <3>1 DEF BaseInv, ControlOK, OpOf, HoldsLease, Exists
    <2> QED
      BY <2>1, <2>2
  <1>3. ASSUME NEW v \in Workers, req'[v].pc \in {"offer", "decide"}
        PROVE  req'[v].offer = req[v].offer /\ req'[v].pc = req[v].pc
    BY <1>3 DEF AfterLeaseWrite, BaseInv, TypeOK, Request, HoldsLease
  <1> QED
    BY <1>1, <1>2, <1>3 DEF BaseInv, ControlOK, OffersStay, Exists, OpOf, HoldsLease

\* Nothing is stored and nobody works at the start.
LEMMA BaseInit == Init => BaseInv
  <1> SUFFICES ASSUME Init PROVE BaseInv
    OBVIOUS
  <1>1. NoOffer \in Offer
    BY DEF NoOffer, Offer, Date, EndDate
  <1>2. TypeOK
    BY <1>1, IdleRequest DEF Init, TypeOK, UnitStatus
  <1>3. TablesOK
    BY DEF Init, TablesOK, Exists, NoRow, NoOffer
  <1>4. OpOf(Idle) /\ ~HoldsLease(Idle)
    BY DEF OpOf, HoldsLease, Idle
  <1>5. ControlOK
    BY <1>4 DEF Init, ControlOK
  <1>6. OffersStay
    BY DEF Init, OffersStay, Idle
  <1> QED
    BY <1>2, <1>3, <1>5, <1>6 DEF BaseInv

\* Every step keeps the types and what each statement finds in its locals.
LEMMA BaseNext == BaseInv /\ [Next]_vars => BaseInv'
  <1> SUFFICES ASSUME BaseInv, [Next]_vars
               PROVE  BaseInv'
    OBVIOUS
  <1> USE InputsAssumption, ValuesAssumption
  <1>1. ASSUME NEW w \in Workers, CreateLease(w)
        PROVE  BaseInv'
    <2>1. PICK u \in Units, n \in NewLeases :
             req' = [req EXCEPT ![w] =
                [Idle EXCEPT !.op = "create", !.pc = "insert", !.unit = u, !.fresh = TRUE,
                    !.row = [NoRow EXCEPT !.unit = u, !.start = n.start, !.end = n.end,
                                          !.status = n.status, !.primary = n.primary]]]
      BY <1>1 DEF CreateLease
    <2> DEFINE row == [NoRow EXCEPT !.unit = u, !.start = n.start, !.end = n.end,
                                    !.status = n.status, !.primary = n.primary]
               r == [Idle EXCEPT !.op = "create", !.pc = "insert", !.unit = u,
                                 !.fresh = TRUE, !.row = row]
    <2>2. row \in Row /\ row.unit = u /\ row.status # "absent"
      BY DEF NoRow, Row, LeaseStatus
    <2> HIDE DEF row
    <2>3. r \in Request /\ OpOf(r) /\ ~HoldsLease(r)
      BY <2>2, IdleRequest DEF Idle, Request, OpOf, HoldsLease
    <2>4. req' = [req EXCEPT ![w] = r]
      BY <2>1 DEF row
    <2> HIDE DEF r
    <2>5. req' \in [Workers -> Request] /\ ControlOK' /\ OffersStay'
      BY <1>1, <2>3, <2>4, LocalStep DEF CreateLease, HoldsLease
    <2> QED
      BY <1>1, <2>5 DEF CreateLease, BaseInv, TypeOK, TablesOK, Exists
  <1>2. ASSUME NEW w \in Workers, PatchLoad(w)
        PROVE  BaseInv'
    <2>1. PICK l \in LeaseIds, p \in Patches :
             /\ Exists(l)
             /\ req' = [req EXCEPT ![w] = [Loaded("patch", "check", l) EXCEPT !.upd = p]]
      BY <1>2 DEF PatchLoad
    <2>2. Loaded("patch", "check", l) \in Request
      BY LoadedType DEF BaseInv
    <2> DEFINE r == [Loaded("patch", "check", l) EXCEPT !.upd = p]
    <2>3. r \in Request
      BY <2>2 DEF Request
    <2>4. OpOf(r) /\ r.pc = "check" /\ r.lease = l /\ r.unit = leases[l].unit
      BY <2>1, <2>2 DEF Loaded, Idle, OpOf, BaseInv, TablesOK
    <2> HIDE DEF r
    <2>5. req' \in [Workers -> Request] /\ ControlOK' /\ OffersStay'
      BY <1>2, <2>1, <2>3, <2>4, LocalStep DEF PatchLoad, r
    <2> QED
      BY <1>2, <2>5 DEF PatchLoad, BaseInv, TypeOK, TablesOK, Exists
  <1>3. ASSUME NEW w \in Workers, PatchCheck(w)
        PROVE  BaseInv'
    <2> DEFINE r == [req[w] EXCEPT !.pc = "update", !.row = NoRow]
    <2>1. req' = [req EXCEPT ![w] = r] \/ req' = [req EXCEPT ![w] = Idle]
      BY <1>3 DEF PatchCheck
    <2>2. r \in Request /\ Idle \in Request
      BY ZenonT(40), IdleRequest DEF BaseInv, TypeOK, Request
    <2>3. OpOf(r) /\ r.pc = "update" /\ HoldsLease(req[w]) /\ r.lease = req[w].lease /\ r.unit = req[w].unit
      BY <1>3 DEF PatchCheck, BaseInv, TypeOK, ControlOK, OpOf, HoldsLease, Request
    <2>4. OpOf(Idle) /\ ~HoldsLease(Idle)
      BY DEF OpOf, HoldsLease, Idle
    <2> HIDE DEF r
    <2>5. req' \in [Workers -> Request] /\ ControlOK' /\ OffersStay'
      BY <1>3, <2>1, <2>2, <2>3, <2>4, LocalStep DEF PatchCheck, BaseInv, ControlOK, HoldsLease
    <2> QED
      BY <1>3, <2>5 DEF PatchCheck, BaseInv, TypeOK, TablesOK, Exists
  <1>4. ASSUME NEW w \in Workers, EndLease(w)
        PROVE  BaseInv'
    <2>1. PICK l \in LeaseIds, endAt \in EndDates :
             /\ Exists(l)
             /\ req' = [req EXCEPT ![w] = [Loaded("end", "update", l) EXCEPT
                           !.row = NoRow, !.upd = [NoUpdate EXCEPT !.status = "ended", !.end = endAt]]]
      BY <1>4 DEF EndLease
    <2> DEFINE upd == [NoUpdate EXCEPT !.status = "ended", !.end = endAt]
               r == [Loaded("end", "update", l) EXCEPT !.row = NoRow, !.upd = upd]
    <2>2. Loaded("end", "update", l) \in Request
      BY LoadedType DEF BaseInv
    <2>3. upd \in Update /\ upd.status \in {"active", "ended", "rejected"}
      BY DEF Update, NoUpdate, LeaseStatus, EndDate
    <2>4. req' = [req EXCEPT ![w] = r]
      BY <2>1
    <2> HIDE DEF upd
    <2>5. r \in Request
      BY <2>2, <2>3, IdleRequest DEF Request
    <2>6. OpOf(r) /\ r.pc = "update" /\ r.lease = l /\ r.unit = leases[l].unit
      BY <2>1, <2>2, <2>3 DEF Loaded, Idle, OpOf, BaseInv, TablesOK
    <2> HIDE DEF r
    <2>7. req' \in [Workers -> Request] /\ ControlOK' /\ OffersStay'
      BY <1>4, <2>1, <2>4, <2>5, <2>6, LocalStep DEF EndLease
    <2> QED
      BY <1>4, <2>7 DEF EndLease, BaseInv, TypeOK, TablesOK, Exists
  <1>5. ASSUME NEW w \in Workers, Decide(w)
        PROVE  BaseInv'
    <2>1. PICK l \in LeaseIds, st \in {"active", "rejected"} :
             /\ Exists(l)
             /\ req' = [req EXCEPT ![w] = [Loaded("decide", "update", l) EXCEPT
                           !.row = NoRow, !.upd = [NoUpdate EXCEPT !.status = st]]]
      BY <1>5 DEF Decide
    <2> DEFINE upd == [NoUpdate EXCEPT !.status = st]
               r == [Loaded("decide", "update", l) EXCEPT !.row = NoRow, !.upd = upd]
    <2>2. Loaded("decide", "update", l) \in Request
      BY LoadedType DEF BaseInv
    <2>3. upd \in Update /\ upd.status \in {"active", "ended", "rejected"}
      BY DEF Update, NoUpdate, LeaseStatus, EndDate
    <2>4. req' = [req EXCEPT ![w] = r]
      BY <2>1
    <2> HIDE DEF upd
    <2>5. r \in Request
      BY <2>2, <2>3, IdleRequest DEF Request
    <2>6. OpOf(r) /\ r.pc = "update" /\ r.lease = l /\ r.unit = leases[l].unit
      BY <2>1, <2>2, <2>3 DEF Loaded, Idle, OpOf, BaseInv, TablesOK
    <2> HIDE DEF r
    <2>7. req' \in [Workers -> Request] /\ ControlOK' /\ OffersStay'
      BY <1>5, <2>1, <2>4, <2>5, <2>6, LocalStep DEF Decide
    <2> QED
      BY <1>5, <2>7 DEF Decide, BaseInv, TypeOK, TablesOK, Exists
  <1>6. ASSUME NEW w \in Workers, Closeout(w)
        PROVE  BaseInv'
    <2>1. PICK l \in LeaseIds, moveOut \in MoveOutDates :
             /\ Exists(l)
             /\ req' = [req EXCEPT ![w] = [Loaded("closeout", "update", l) EXCEPT
                           !.row = NoRow, !.upd = [NoUpdate EXCEPT !.status = "ended", !.end = moveOut]]]
      BY <1>6 DEF Closeout
    <2> DEFINE upd == [NoUpdate EXCEPT !.status = "ended", !.end = moveOut]
               r == [Loaded("closeout", "update", l) EXCEPT !.row = NoRow, !.upd = upd]
    <2>2. Loaded("closeout", "update", l) \in Request
      BY LoadedType DEF BaseInv
    <2>3. upd \in Update /\ upd.status \in {"active", "ended", "rejected"}
      BY DEF Update, NoUpdate, LeaseStatus, EndDate
    <2>4. req' = [req EXCEPT ![w] = r]
      BY <2>1
    <2> HIDE DEF upd
    <2>5. r \in Request
      BY <2>2, <2>3, IdleRequest DEF Request
    <2>6. OpOf(r) /\ r.pc = "update" /\ r.lease = l /\ r.unit = leases[l].unit
      BY <2>1, <2>2, <2>3 DEF Loaded, Idle, OpOf, BaseInv, TablesOK
    <2> HIDE DEF r
    <2>7. req' \in [Workers -> Request] /\ ControlOK' /\ OffersStay'
      BY <1>6, <2>1, <2>4, <2>5, <2>6, LocalStep DEF Closeout
    <2> QED
      BY <1>6, <2>7 DEF Closeout, BaseInv, TypeOK, TablesOK, Exists
  <1>7. ASSUME NEW w \in Workers, AcceptLoad(w)
        PROVE  BaseInv'
    <2>1. PICK o \in OfferIds :
             /\ offers[o].status # "absent"
             /\ req' = [req EXCEPT ![w] =
                           [Loaded("accept", "offer", offers[o].lease) EXCEPT !.offer = o]]
      BY <1>7 DEF AcceptLoad
    <2> DEFINE l == offers[o].lease
               r == [Loaded("accept", "offer", l) EXCEPT !.offer = o]
    <2>2. l \in LeaseIds /\ Exists(l) /\ leases[l].unit \in Units
      BY <2>1 DEF BaseInv, TablesOK
    <2>3. req' = [req EXCEPT ![w] = r]
      BY <2>1
    <2> HIDE DEF l
    <2>4. Loaded("accept", "offer", l) \in Request
      BY <2>2, LoadedType DEF BaseInv
    <2>5. r \in Request
      BY <2>4 DEF Request
    <2>6. OpOf(r) /\ r.pc = "offer" /\ r.offer = o /\ r.lease = l /\ r.unit = leases[l].unit
      BY <2>2, <2>4 DEF Loaded, Idle, OpOf
    <2> HIDE DEF r
    <2>7. req' \in [Workers -> Request] /\ ControlOK' /\ OffersStay'
      BY <1>7, <2>1, <2>2, <2>3, <2>5, <2>6, LocalStep DEF AcceptLoad
    <2> QED
      BY <1>7, <2>7 DEF AcceptLoad, BaseInv, TypeOK, TablesOK, Exists
  <1>8. ASSUME NEW w \in Workers, AcceptReadOffer(w)
        PROVE  BaseInv'
    <2> DEFINE r == [req[w] EXCEPT !.pc = "decide"]
    <2>1. req' = [req EXCEPT ![w] = r] \/ req' = [req EXCEPT ![w] = Idle]
      BY <1>8 DEF AcceptReadOffer
    <2>2. r \in Request
      BY DEF BaseInv, TypeOK, Request
    <2>3. /\ OpOf(r) /\ HoldsLease(req[w])
          /\ r.lease = req[w].lease /\ r.unit = req[w].unit /\ r.offer = req[w].offer
      BY <1>8 DEF AcceptReadOffer, BaseInv, TypeOK, ControlOK, OpOf, HoldsLease, Request
    <2>4. OpOf(Idle) /\ ~HoldsLease(Idle)
      BY DEF OpOf, HoldsLease, Idle
    <2> HIDE DEF r
    <2>5. req' \in [Workers -> Request] /\ ControlOK' /\ OffersStay'
      BY <1>8, <2>1, <2>2, <2>3, <2>4, LocalStep, IdleRequest
      DEF AcceptReadOffer, BaseInv, ControlOK, OffersStay, HoldsLease
    <2> QED
      BY <1>8, <2>5 DEF AcceptReadOffer, BaseInv, TypeOK, TablesOK, Exists
  <1>9. ASSUME NEW w \in Workers, AcceptDecideOffer(w)
        PROVE  BaseInv'
    <2> DEFINE start == offers[req[w].offer].start
               lastDay == IF start > req[w].row.start THEN start - 1 ELSE Keep
               upd == [NoUpdate EXCEPT !.status = "ended", !.end = lastDay]
               r == [req[w] EXCEPT !.pc = "update", !.row = NoRow, !.upd = upd]
    <2>1. /\ offers' = [offers EXCEPT ![req[w].offer].status = "accepted"]
          /\ req' = [req EXCEPT ![w] = r]
          /\ req[w].pc = "decide"
          /\ UNCHANGED <<leases, closeouts, unitStatus, trusted>>
      BY <1>9 DEF AcceptDecideOffer
    <2>2. req[w].op = "accept" /\ req[w].offer \in OfferIds /\ req[w] \in Request
      BY <2>1 DEF BaseInv, TypeOK, ControlOK, OpOf
    <2>3. start \in Nat /\ req[w].row.start \in Nat
      BY <2>2 DEF BaseInv, TypeOK, Offer, Request, Row, Date
    <2> HIDE DEF start
    <2>4. lastDay \in Date \cup {Keep}
      BY <2>3 DEF Date
    <2> HIDE DEF lastDay
    <2>5. upd \in Update /\ upd.status = "ended"
      BY <2>4 DEF Update, NoUpdate, LeaseStatus
    <2> HIDE DEF upd
    <2>6. r \in Request
      BY <2>2, <2>5, IdleRequest DEF Request
    <2>7. OpOf(r) /\ r.pc = "update" /\ HoldsLease(req[w]) /\ r.lease = req[w].lease /\ r.unit = req[w].unit
      BY <2>1, <2>2, <2>5 DEF BaseInv, ControlOK, OpOf, HoldsLease, Request
    <2> HIDE DEF r
    <2>8. /\ offers' \in [OfferIds -> Offer]
          /\ \A o \in OfferIds : offers'[o].lease = offers[o].lease
          /\ \A o \in OfferIds : offers'[o].status # "absent" <=> offers[o].status # "absent"
      BY <2>1, <2>2 DEF BaseInv, TypeOK, OffersStay, Offer
    <2>9. req' \in [Workers -> Request] /\ ControlOK' /\ OffersStay'
      BY <2>1, <2>6, <2>7, <2>8, LocalStep DEF BaseInv, ControlOK
    <2> QED
      BY <2>1, <2>8, <2>9 DEF BaseInv, TypeOK, TablesOK, Exists
  <1>10. ASSUME NEW w \in Workers, AcceptUpdateFails(w)
         PROVE  BaseInv'
    <2> DEFINE row == RenewedLease(req[w].unit, req[w].offer)
               r == [req[w] EXCEPT !.pc = "insert", !.upd = NoUpdate, !.row = row]
    <2>1. req' = [req EXCEPT ![w] = r]
      BY <1>10 DEF AcceptUpdateFails
    <2>2. req[w] \in Request /\ req[w].unit \in Units /\ req[w].offer \in OfferIds
      BY <1>10 DEF AcceptUpdateFails, BaseInv, TypeOK, ControlOK, OpOf
    <2>3. row \in Row /\ row.unit = req[w].unit /\ row.status = "active"
      BY <2>2, RenewedLeaseType DEF BaseInv, RenewedLease
    <2> HIDE DEF row
    <2>4. r \in Request
      BY <2>2, <2>3, IdleRequest DEF Request
    <2>5. OpOf(r) /\ r.pc = "insert"
      BY <1>10, <2>2, <2>3 DEF AcceptUpdateFails, OpOf, Request
    <2> HIDE DEF r
    <2>6. req' \in [Workers -> Request] /\ ControlOK' /\ OffersStay'
      BY <1>10, <2>1, <2>4, <2>5, LocalStep DEF AcceptUpdateFails, HoldsLease
    <2> QED
      BY <1>10, <2>6 DEF AcceptUpdateFails, BaseInv, TypeOK, TablesOK, Exists
  <1>11. ASSUME NEW w \in Workers, UpdateLease(w)
         PROVE  BaseInv'
    <2>1. /\ req[w] \in Request
          /\ req[w].unit \in Units
          /\ req[w].lease \in LeaseIds
          /\ Exists(req[w].lease)
          /\ req[w].op = "accept" => req[w].offer \in OfferIds
      BY <1>11 DEF UpdateLease, BaseInv, TypeOK, ControlOK, OpOf, HoldsLease
    <2> DEFINE new == Updated(leases[req[w].lease], req[w])
    <2>2. /\ new \in Row
          /\ new.unit = leases[req[w].lease].unit
          /\ new.status # "absent"
      BY <2>1, UpdatedRow DEF BaseInv, TypeOK, Exists
    <2>3. leases' = [leases EXCEPT ![req[w].lease] = new]
      BY <1>11, <2>1 DEF UpdateLease, BaseInv, TypeOK
    <2> HIDE DEF new
    <2>4. /\ leases' \in [LeaseIds -> Row]
          /\ \A l \in LeaseIds : Exists(l) =>
                leases'[l].status # "absent" /\ leases'[l].unit = leases[l].unit
          /\ \A l \in LeaseIds : ~Exists(l) => leases'[l] = leases[l]
      BY <2>1, <2>2, <2>3 DEF BaseInv, TypeOK, Exists
    <2> DEFINE row == RenewedLease(req[w].unit, req[w].offer)
               rest == [req[w] EXCEPT !.pc = "insert", !.row = row, !.upd = NoUpdate]
    <2>5. CASE req[w].op = "accept"
      <3>1. row \in Row /\ row.unit = req[w].unit /\ row.status = "active"
        BY <2>1, <2>5, RenewedLeaseType DEF BaseInv, RenewedLease
      <3>2. req' = AfterLeaseWrite(w, req[w].unit, rest)
        BY <1>11, <2>5 DEF UpdateLease
      <3> HIDE DEF row
      <3>3. rest \in Request
        BY <2>1, <3>1, IdleRequest DEF Request
      <3>4. OpOf(rest) /\ rest.pc = "insert"
        BY <2>1, <2>5, <3>1 DEF OpOf, Request
      <3> HIDE DEF rest
      <3>5. req' \in [Workers -> Request] /\ ControlOK' /\ OffersStay'
        BY <1>11, <2>1, <2>4, <3>2, <3>3, <3>4, LeaseWriteStep DEF UpdateLease, HoldsLease
      <3> QED
        BY <1>11, <2>4, <3>5 DEF UpdateLease, BaseInv, TypeOK, TablesOK, Exists
    <2>6. CASE req[w].op # "accept"
      <3> DEFINE sync == Syncing(req[w])
      <3>1. req' = AfterLeaseWrite(w, req[w].unit, sync)
        BY <1>11, <2>6 DEF UpdateLease
      <3>2. sync \in Request /\ OpOf(sync) /\ sync.pc = "count"
        BY <2>1, SyncingType DEF Syncing, OpOf, Idle
      <3> HIDE DEF sync
      <3>3. req' \in [Workers -> Request] /\ ControlOK' /\ OffersStay'
        BY <1>11, <2>1, <2>4, <3>1, <3>2, LeaseWriteStep DEF UpdateLease, HoldsLease
      <3> QED
        BY <1>11, <2>4, <3>3 DEF UpdateLease, BaseInv, TypeOK, TablesOK, Exists
    <2> QED
      BY <2>5, <2>6
  <1>12. ASSUME NEW w \in Workers, InsertLease(w)
         PROVE  BaseInv'
    <2> DEFINE new == Inserted(req[w])
               sync == Syncing(req[w])
    <2>1. PICK l \in LeaseIds : ~Exists(l) /\ leases' = [leases EXCEPT ![l] = new]
      BY <1>12 DEF InsertLease
    <2>2. /\ req[w] \in Request
          /\ req[w].unit \in Units
          /\ req[w].row.unit = req[w].unit
          /\ req[w].row.status # "absent"
      BY <1>12 DEF InsertLease, BaseInv, TypeOK, ControlOK, OpOf
    <2>3. /\ new \in Row
          /\ new.unit = req[w].unit
          /\ new.status # "absent"
      BY <2>2, InsertedRow
    <2> HIDE DEF new
    <2>4. /\ leases' \in [LeaseIds -> Row]
          /\ \A k \in LeaseIds : Exists(k) => leases'[k] = leases[k]
          /\ \A k \in LeaseIds : leases'[k].status # "absent" =>
                k = l \/ leases'[k] = leases[k]
      BY <2>1, <2>3 DEF BaseInv, TypeOK, Exists
    <2>5. req' = AfterLeaseWrite(w, req[w].unit, sync)
      BY <1>12 DEF InsertLease
    <2>6. sync \in Request /\ OpOf(sync) /\ sync.pc = "count"
      BY <2>2, SyncingType DEF Syncing, OpOf, Idle
    <2> HIDE DEF sync
    <2>7. \A k \in LeaseIds : Exists(k) =>
             leases'[k].status # "absent" /\ leases'[k].unit = leases[k].unit
      BY <2>4 DEF Exists
    <2>8. req' \in [Workers -> Request] /\ ControlOK' /\ OffersStay'
      BY <1>12, <2>2, <2>5, <2>6, <2>7, LeaseWriteStep DEF InsertLease, HoldsLease
    <2>9. TablesOK'
      BY <1>12, <2>1, <2>2, <2>3, <2>4, <2>7 DEF InsertLease, BaseInv, TypeOK, TablesOK, Exists
    <2> QED
      BY <1>12, <2>4, <2>8, <2>9 DEF InsertLease, BaseInv, TypeOK
  <1>13. ASSUME NEW w \in Workers, CountActiveLeasesOnUnit(w)
         PROVE  BaseInv'
    <2> DEFINE b == HasActiveLease(req[w].unit)
               r == [req[w] EXCEPT !.pc = "set", !.fresh = TRUE, !.leased = b]
    <2>1. b \in BOOLEAN
      BY DEF HasActiveLease
    <2>2. req' = [req EXCEPT ![w] = r]
      BY <1>13 DEF CountActiveLeasesOnUnit, BaseInv, TypeOK, Request
    <2> HIDE DEF b
    <2>3. r \in Request
      <3>1. req[w] \in Request
        BY DEF BaseInv, TypeOK
      <3>2. ASSUME NEW q \in Request, NEW c \in BOOLEAN
            PROVE  [q EXCEPT !.pc = "set", !.fresh = TRUE, !.leased = c] \in Request
        BY DEF Request
      <3> QED
        BY <2>1, <3>1, <3>2
    <2>4. OpOf(r) /\ r.pc = "set"
      BY <1>13 DEF CountActiveLeasesOnUnit, BaseInv, TypeOK, ControlOK, OpOf, Request
    <2> HIDE DEF r
    <2>5. req' \in [Workers -> Request] /\ ControlOK' /\ OffersStay'
      BY <1>13, <2>2, <2>3, <2>4, LocalStep DEF CountActiveLeasesOnUnit, HoldsLease
    <2> QED
      BY <1>13, <2>5 DEF CountActiveLeasesOnUnit, BaseInv, TypeOK, TablesOK, Exists
  <1>14. ASSUME NEW w \in Workers, SetUnitStatus(w) \/ Abort(w)
         PROVE  BaseInv'
    <2>1. /\ req' = [req EXCEPT ![w] = Idle]
          /\ UNCHANGED <<leases, offers, closeouts>>
      BY <1>14 DEF SetUnitStatus, Abort
    <2>2. OpOf(Idle) /\ ~HoldsLease(Idle) /\ Idle.pc = "idle"
      BY DEF OpOf, HoldsLease, Idle
    <2>3. req' \in [Workers -> Request] /\ ControlOK' /\ OffersStay'
      BY <2>1, <2>2, IdleRequest, LocalStep
    <2>4. unitStatus' \in [Units -> UnitStatus] /\ trusted' \in [Units -> BOOLEAN]
      BY ZenonT(40), <1>14 DEF SetUnitStatus, Abort, BaseInv, TypeOK, UnitStatus, Request
    <2> QED
      BY <2>1, <2>3, <2>4 DEF BaseInv, TypeOK, TablesOK, Exists
  <1>15. ASSUME CreateRenewalOffer
         PROVE  BaseInv'
    <2>1. PICK l \in LeaseIds, o \in OfferIds, t \in OfferTerms :
             /\ Exists(l)
             /\ offers' = [offers EXCEPT ![o] = [lease |-> l, start |-> t.start,
                                                 end |-> t.end, status |-> "offered"]]
      BY <1>15 DEF CreateRenewalOffer
    <2>2. offers' \in [OfferIds -> Offer]
      BY <2>1 DEF BaseInv, TypeOK, Offer
    <2>3. TablesOK'
      BY <1>15, <2>1 DEF CreateRenewalOffer, BaseInv, TypeOK, TablesOK, Exists
    <2>4. OffersStay'
      BY <1>15, <2>1 DEF CreateRenewalOffer, BaseInv, TypeOK, OffersStay
    <2> QED
      BY <1>15, <2>2, <2>3, <2>4 DEF CreateRenewalOffer, BaseInv, TypeOK, ControlOK, OpOf,
                                     HoldsLease, Exists
  <1>16. ASSUME RejectRenewalOffer
         PROVE  BaseInv'
    <2>1. PICK o \in OfferIds :
             /\ offers[o].status # "absent"
             /\ offers' = [offers EXCEPT ![o].status = "rejected"]
      BY <1>16 DEF RejectRenewalOffer
    <2>2. /\ offers' \in [OfferIds -> Offer]
          /\ \A p \in OfferIds : /\ offers'[p].lease = offers[p].lease
                                 /\ offers'[p].status # "absent" <=> offers[p].status # "absent"
      BY <2>1 DEF BaseInv, TypeOK, Offer
    <2>3. TablesOK' /\ OffersStay'
      BY <1>16, <2>2 DEF RejectRenewalOffer, BaseInv, TablesOK, OffersStay, Exists
    <2> QED
      BY <1>16, <2>2, <2>3 DEF RejectRenewalOffer, BaseInv, TypeOK, ControlOK, OpOf,
                               HoldsLease, Exists
  <1>17. ASSUME PatchUnitStatus
         PROVE  BaseInv'
    <2>1. unitStatus' \in [Units -> UnitStatus] /\ trusted' \in [Units -> BOOLEAN]
      BY <1>17 DEF PatchUnitStatus, BaseInv, TypeOK
    <2> QED
      BY <1>17, <2>1 DEF PatchUnitStatus, BaseInv, TypeOK, TablesOK, ControlOK, OpOf,
                         OffersStay, HoldsLease, Exists
  <1>18. ASSUME UNCHANGED vars
         PROVE  BaseInv'
    BY <1>18 DEF vars, BaseInv, TypeOK, TablesOK, ControlOK, OpOf, OffersStay, HoldsLease, Exists
  <1> QED
    BY <1>1, <1>2, <1>3, <1>4, <1>5, <1>6, <1>7, <1>8, <1>9, <1>10, <1>11, <1>12, <1>13,
       <1>14, <1>15, <1>16, <1>17, <1>18
    DEF Next, Step

\* Every variable keeps its type: the tables hold rows of their columns'
\* types, and the locals of the requests fit the statements they reach.
THEOREM TypeCorrect == Spec => []TypeOK
  <1>1. BaseInv => TypeOK
    BY DEF BaseInv
  <1> QED
    BY <1>1, BaseInit, BaseNext, PTL DEF Spec

-----------------------------------------------------------------------------
(***************************************************************************)
(* What a request that holds fresh reads may rely on.  This is the part of *)
(* the inductive invariant that carries the checks and the count from the  *)
(* statement that reads to the statement that writes.                      *)
(***************************************************************************)
FreshFor(r) ==
    /\ r.pc = "set" => (r.leased <=> HasActiveLease(r.unit))
    /\ r.pc = "check" => r.row = leases[r.lease]
    /\ r.pc = "update" /\ r.op = "patch" =>
          /\ OrderedDates(Apply(leases[r.lease], r.upd))
          /\ NoPrimaryActiveOverlap(r.unit, r.lease, Apply(leases[r.lease], r.upd))
    /\ r.pc = "update" /\ r.op = "end" =>
          r.upd.start = Keep /\ r.upd.end \in Date /\ r.upd.end > leases[r.lease].start
    /\ r.pc = "insert" /\ r.op = "create" => NoPrimaryActiveOverlap(r.unit, None, r.row)

FreshOK == \A w \in Workers : req[w].fresh => FreshFor(req[w])

\* A lease about to be created has ordered dates, whatever happens meanwhile.
NewDatesOK ==
    \A w \in Workers :
        req[w].pc = "insert" /\ req[w].op = "create" => OrderedDates(req[w].row)

LocalInv == BaseInv /\ FreshOK /\ NewDatesOK

\* A step that gives one request new locals and writes no lease.
LEMMA LocalFresh ==
    ASSUME LocalInv, NEW w \in Workers, NEW r \in Request,
           req' = [req EXCEPT ![w] = r], UNCHANGED leases,
           r.fresh => FreshFor(r),
           r.pc = "insert" /\ r.op = "create" => OrderedDates(r.row)
    PROVE  FreshOK' /\ NewDatesOK'
  <1>1. ASSUME NEW v \in Workers
        PROVE  /\ req'[v].fresh => FreshFor(req'[v])
               /\ req'[v].pc = "insert" /\ req'[v].op = "create" => OrderedDates(req'[v].row)
    <2>1. CASE v = w
      BY <2>1 DEF LocalInv, BaseInv, TypeOK
    <2>2. CASE v # w
      BY <2>2 DEF LocalInv, BaseInv, TypeOK, FreshOK, NewDatesOK
    <2> QED
      BY <2>1, <2>2
  <1>2. \A v \in Workers : req'[v].fresh => FreshFor(req[v])'
    <2>1. TAKE v \in Workers
    <2>2. FreshFor(req'[v]) => FreshFor(req[v])'
      BY DEF FreshFor, HasActiveLease, NoPrimaryActiveOverlap, ActivePrimaryLeasesForUnit
    <2> QED
      BY <1>1, <2>2
  <1> QED
    BY <1>1, <1>2 DEF FreshOK, NewDatesOK

\* Rows outside unit u are not touched by a write to u's leases.
OnlyUnit(u) ==
    \A l \in LeaseIds :
        \/ leases'[l] = leases[l]
        \/ /\ leases'[l].unit = u
           /\ leases[l].unit = u \/ leases[l].status = "absent"

\* What the service reads of the leases of another unit stays what it was.
LEMMA OtherUnits ==
    ASSUME TypeOK, NEW u \in Units, OnlyUnit(u), NEW t \in Units, t # u
    PROVE  /\ (\E l \in LeaseIds : leases'[l].unit = t /\ leases'[l].status = "active")
                <=> HasActiveLease(t)
           /\ \A l \in LeaseIds : leases[l].unit = t /\ Exists(l) => leases'[l] = leases[l]
           /\ \A l \in LeaseIds : leases'[l].unit = t => leases'[l] = leases[l]
  BY DEF OnlyUnit, HasActiveLease, Exists

\* A write to the leases of one unit, by a request whose own reading no longer
\* matters: the others at that unit are stale from here on, the rest see no change.
LEMMA WriteFresh ==
    ASSUME LocalInv, NEW w \in Workers, NEW u \in Units, NEW r \in Request,
           req' = AfterLeaseWrite(w, u, r), OnlyUnit(u),
           r.pc = "count" \/ (r.pc = "insert" /\ r.op = "accept")
    PROVE  FreshOK' /\ NewDatesOK'
  <1> USE DEF LocalInv
  <1>1. req'[w] = r
    BY DEF AfterLeaseWrite
  <1>2. ASSUME NEW v \in Workers, v # w
        PROVE  /\ req'[v].op = req[v].op
               /\ req'[v].pc = req[v].pc
               /\ req'[v].lease = req[v].lease
               /\ req'[v].unit = req[v].unit
               /\ req'[v].row = req[v].row
               /\ req'[v].upd = req[v].upd
               /\ req'[v].leased = req[v].leased
               /\ req'[v].fresh => req[v].fresh /\ req[v].unit # u
    BY <1>2 DEF AfterLeaseWrite, BaseInv, TypeOK, Request
  <1>3. NewDatesOK'
    BY <1>1, <1>2 DEF NewDatesOK
  <1>4. ASSUME NEW v \in Workers, req'[v].fresh
        PROVE  FreshFor(req[v])'
    <2>1. CASE v = w
      BY <1>1, <2>1 DEF FreshFor
    <2>2. CASE v # w /\ req[v].pc = "idle"
      BY <1>2, <2>2 DEF FreshFor
    <2>3. CASE v # w /\ req[v].pc # "idle"
      <3>1. /\ req[v].unit \in Units /\ req[v].unit # u
            /\ FreshFor(req[v])
        BY <1>2, <1>4, <2>3 DEF BaseInv, ControlOK, OpOf, FreshOK
      <3>2. /\ (\E l \in LeaseIds : /\ leases'[l].unit = req[v].unit
                                    /\ leases'[l].status = "active")
                 <=> HasActiveLease(req[v].unit)
            /\ \A l \in LeaseIds : leases[l].unit = req[v].unit /\ Exists(l) =>
                  leases'[l] = leases[l]
            /\ \A l \in LeaseIds : leases'[l].unit = req[v].unit => leases'[l] = leases[l]
        BY <3>1, OtherUnits DEF BaseInv
      <3>3. ASSUME NEW c, NEW e, NoPrimaryActiveOverlap(req[v].unit, e, c)
            PROVE  ActivePrimary(c) =>
                      \A l \in LeaseIds \ {e} :
                         leases'[l].unit = req[v].unit /\ ActivePrimary(leases'[l])
                            => ~RangesOverlap(c, leases'[l])
        BY <3>2, <3>3 DEF NoPrimaryActiveOverlap, ActivePrimaryLeasesForUnit
      <3>4. req[v].pc = "set" =>
               (req'[v].leased <=> \E l \in LeaseIds : /\ leases'[l].unit = req'[v].unit
                                                       /\ leases'[l].status = "active")
        BY <1>2, <2>3, <3>1, <3>2 DEF FreshFor
      <3>5. HoldsLease(req[v]) => leases'[req[v].lease] = leases[req[v].lease]
        BY <3>2 DEF BaseInv, ControlOK
      <3>6. req[v].pc = "check" => req'[v].row = leases'[req'[v].lease]
        BY <1>2, <2>3, <3>1, <3>5 DEF FreshFor, HoldsLease
      <3>7. req[v].pc = "update" /\ req[v].op = "patch" =>
              LET n == Apply(leases'[req'[v].lease], req'[v].upd)
              IN  /\ OrderedDates(n)
                  /\ ActivePrimary(n) =>
                        \A l \in LeaseIds \ {req'[v].lease} :
                           leases'[l].unit = req'[v].unit /\ ActivePrimary(leases'[l])
                              => ~RangesOverlap(n, leases'[l])
        BY <1>2, <2>3, <3>1, <3>3, <3>5 DEF FreshFor, HoldsLease
      <3>8. req[v].pc = "update" /\ req[v].op = "end" =>
              /\ req'[v].upd.start = Keep
              /\ req'[v].upd.end \in Date
              /\ req'[v].upd.end > leases'[req'[v].lease].start
        BY <1>2, <2>3, <3>1, <3>5 DEF FreshFor, HoldsLease
      <3>9. req[v].pc = "insert" /\ req[v].op = "create" /\ ActivePrimary(req'[v].row) =>
                 \A l \in LeaseIds \ {None} :
                    leases'[l].unit = req'[v].unit /\ ActivePrimary(leases'[l])
                       => ~RangesOverlap(req'[v].row, leases'[l])
        BY <1>2, <2>3, <3>1, <3>3 DEF FreshFor
      <3>10. (req[v].pc = "set" => (req[v].leased <=> HasActiveLease(req[v].unit)))'
        BY <1>2, <2>3, <3>4 DEF HasActiveLease
      <3>11. (req[v].pc = "update" /\ req[v].op = "patch" =>
               /\ OrderedDates(Apply(leases[req[v].lease], req[v].upd))
               /\ NoPrimaryActiveOverlap(req[v].unit, req[v].lease,
                                         Apply(leases[req[v].lease], req[v].upd)))'
        BY <1>2, <2>3, <3>7 DEF NoPrimaryActiveOverlap, ActivePrimaryLeasesForUnit
      <3>12. (req[v].pc = "insert" /\ req[v].op = "create" =>
                NoPrimaryActiveOverlap(req[v].unit, None, req[v].row))'
        BY <1>2, <2>3, <3>9 DEF NoPrimaryActiveOverlap, ActivePrimaryLeasesForUnit
      <3> QED
        BY <1>2, <2>3, <3>6, <3>8, <3>10, <3>11, <3>12 DEF FreshFor
    <2> QED
      BY <2>1, <2>2, <2>3
  <1> QED
    BY <1>3, <1>4 DEF FreshOK

\* A write of lease l or of a key that was free touches unit u only.
LEMMA UpdateOnlyUnit ==
    ASSUME BaseInv, NEW w \in Workers, UpdateLease(w)
    PROVE  OnlyUnit(req[w].unit) /\ req[w].unit \in Units
  <1>1. /\ req[w].lease \in LeaseIds
        /\ leases[req[w].lease].unit = req[w].unit
        /\ req[w].unit \in Units
        /\ req[w] \in Request
    BY DEF UpdateLease, BaseInv, TypeOK, ControlOK, OpOf, HoldsLease
  <1>2. Updated(leases[req[w].lease], req[w]).unit = req[w].unit
    BY <1>1, UpdatedRow DEF BaseInv, TypeOK
  <1>3. leases' = [leases EXCEPT ![req[w].lease] = Updated(leases[req[w].lease], req[w])]
    BY <1>1 DEF UpdateLease, BaseInv, TypeOK
  <1>4. ASSUME NEW l \in LeaseIds
        PROVE  \/ leases'[l] = leases[l]
               \/ leases'[l].unit = req[w].unit /\ leases[l].unit = req[w].unit
    <2>1. CASE l = req[w].lease
      BY <1>1, <1>2, <1>3, <2>1 DEF BaseInv, TypeOK
    <2>2. CASE l # req[w].lease
      BY <1>3, <2>2 DEF BaseInv, TypeOK
    <2> QED
      BY <2>1, <2>2
  <1>5. \A l \in LeaseIds :
           \/ leases'[l] = leases[l]
           \/ /\ leases'[l].unit = req[w].unit
              /\ leases[l].unit = req[w].unit \/ leases[l].status = "absent"
    BY <1>4
  <1> QED
    BY <1>1, <1>5 DEF OnlyUnit

\* An INSERT changes what is to be seen of the request's own unit only.
LEMMA InsertOnlyUnit ==
    ASSUME BaseInv, NEW w \in Workers, InsertLease(w)
    PROVE  OnlyUnit(req[w].unit) /\ req[w].unit \in Units
  <1>1. /\ req[w] \in Request
        /\ req[w].unit \in Units
        /\ req[w].row.unit = req[w].unit
    BY DEF InsertLease, BaseInv, TypeOK, ControlOK, OpOf
  <1>2. Inserted(req[w]).unit = req[w].unit
    BY <1>1, InsertedRow
  <1>3. PICK k \in LeaseIds : ~Exists(k) /\ leases' = [leases EXCEPT ![k] = Inserted(req[w])]
    BY DEF InsertLease
  <1>4. ASSUME NEW l \in LeaseIds
        PROVE  \/ leases'[l] = leases[l]
               \/ leases'[l].unit = req[w].unit /\ leases[l].status = "absent"
    <2>1. CASE l = k
      BY <1>2, <1>3, <2>1 DEF BaseInv, TypeOK, Exists
    <2>2. CASE l # k
      BY <1>3, <2>2 DEF BaseInv, TypeOK
    <2> QED
      BY <2>1, <2>2
  <1>5. \A l \in LeaseIds :
           \/ leases'[l] = leases[l]
           \/ /\ leases'[l].unit = req[w].unit
              /\ leases[l].unit = req[w].unit \/ leases[l].status = "absent"
    BY <1>4
  <1> QED
    BY <1>1, <1>5 DEF OnlyUnit

\* The statements of the tenant's and the closeout's handlers rely on no
\* earlier read of the leases.
LEMMA NoReads ==
    \A r \in Request :
        r.op \in {"decide", "closeout", "accept"}
        /\ r.pc \in {"offer", "decide", "update", "insert"}
           => FreshFor(r) /\ ~(r.pc = "insert" /\ r.op = "create")
  BY DEF FreshFor

\* No request has read anything at the start.
LEMMA LocalInvInit == Init => LocalInv
  <1> SUFFICES ASSUME Init PROVE LocalInv
    OBVIOUS
  <1>1. FreshOK /\ NewDatesOK
    BY DEF Init, FreshOK, NewDatesOK, Idle
  <1> QED
    BY <1>1, BaseInit DEF LocalInv

\* Every step keeps fresh readings true: a write marks the readings it spoils.
LEMMA LocalInvNext == LocalInv /\ [Next]_vars => LocalInv'
  <1> SUFFICES ASSUME LocalInv, [Next]_vars
               PROVE  FreshOK' /\ NewDatesOK'
    BY BaseNext DEF LocalInv
  <1>i. ~Idle.fresh /\ Idle.pc = "idle"
    BY DEF Idle
  <1>1. ASSUME NEW w \in Workers, CreateLease(w)
        PROVE  FreshOK' /\ NewDatesOK'
    <2>1. PICK u \in Units, n \in NewLeases :
             /\ OrderedDates(n)
             /\ NoPrimaryActiveOverlap(u, None, n)
             /\ req' = [req EXCEPT ![w] =
                [Idle EXCEPT !.op = "create", !.pc = "insert", !.unit = u, !.fresh = TRUE,
                    !.row = [NoRow EXCEPT !.unit = u, !.start = n.start, !.end = n.end,
                                          !.status = n.status, !.primary = n.primary]]]
      BY <1>1 DEF CreateLease
    <2> DEFINE row == [NoRow EXCEPT !.unit = u, !.start = n.start, !.end = n.end,
                                    !.status = n.status, !.primary = n.primary]
               r == [Idle EXCEPT !.op = "create", !.pc = "insert", !.unit = u,
                                 !.fresh = TRUE, !.row = row]
    <2>2. /\ row \in Row
          /\ row.start = n.start /\ row.end = n.end
          /\ row.status = n.status /\ row.primary = n.primary
      BY InputsAssumption, ValuesAssumption DEF NoRow, Row, LeaseStatus
    <2>3. OrderedDates(row) /\ NoPrimaryActiveOverlap(u, None, row)
      BY <2>1, <2>2 DEF OrderedDates, NoPrimaryActiveOverlap, ActivePrimary, RangesOverlap
    <2>4. req' = [req EXCEPT ![w] = r]
      BY <2>1
    <2> HIDE DEF row
    <2>5. /\ r \in Request
          /\ r.pc = "insert" /\ r.op = "create" /\ r.unit = u /\ r.row = row
      BY <2>2, IdleRequest DEF Idle, Request
    <2> HIDE DEF r
    <2>6. FreshFor(r)
      BY <2>3, <2>5 DEF FreshFor
    <2> QED
      BY <1>1, <2>3, <2>4, <2>5, <2>6, LocalFresh DEF CreateLease
  <1>2. ASSUME NEW w \in Workers, PatchLoad(w)
        PROVE  FreshOK' /\ NewDatesOK'
    <2>1. PICK l \in LeaseIds, q \in Patches :
             req' = [req EXCEPT ![w] = [Loaded("patch", "check", l) EXCEPT !.upd = q]]
      BY <1>2 DEF PatchLoad
    <2> DEFINE r == [Loaded("patch", "check", l) EXCEPT !.upd = q]
    <2>2. Loaded("patch", "check", l) \in Request
      BY LoadedType DEF LocalInv, BaseInv
    <2>3. r \in Request /\ r.pc = "check" /\ r.op = "patch" /\ r.lease = l /\ r.row = leases[l]
      BY ZenonT(40), <2>2, InputsAssumption DEF Request, Loaded, Idle
    <2> HIDE DEF r
    <2>4. FreshFor(r)
      BY <2>3 DEF FreshFor
    <2> QED
      BY <1>2, <2>1, <2>3, <2>4, LocalFresh DEF PatchLoad, r
  <1>3. ASSUME NEW w \in Workers, PatchCheck(w)
        PROVE  FreshOK' /\ NewDatesOK'
    <2> DEFINE r == [req[w] EXCEPT !.pc = "update", !.row = NoRow]
               next == Apply(req[w].row, req[w].upd)
               valid == /\ OrderedDates(next)
                        /\ NoPrimaryActiveOverlap(req[w].unit, req[w].lease, next)
    <2>1. \/ valid /\ req' = [req EXCEPT ![w] = r]
          \/ req' = [req EXCEPT ![w] = Idle]
      BY <1>3 DEF PatchCheck
    <2>2. /\ r \in Request
          /\ r.pc = "update" /\ r.op = "patch" /\ r.fresh = req[w].fresh
          /\ r.lease = req[w].lease /\ r.unit = req[w].unit /\ r.upd = req[w].upd
      BY ZenonT(40), <1>3, IdleRequest DEF PatchCheck, LocalInv, BaseInv, TypeOK, ControlOK,
         OpOf, Request
    <2>3. req[w].fresh => req[w].row = leases[req[w].lease]
      BY <1>3 DEF PatchCheck, LocalInv, FreshOK, FreshFor
    <2> HIDE DEF r
    <2>4. valid => (r.fresh => FreshFor(r))
      BY <2>2, <2>3 DEF FreshFor
    <2>5. CASE valid /\ req' = [req EXCEPT ![w] = r]
      BY <1>3, <2>2, <2>4, <2>5, LocalFresh DEF PatchCheck
    <2>6. CASE req' = [req EXCEPT ![w] = Idle]
      BY <1>3, <1>i, <2>6, LocalFresh, IdleRequest DEF PatchCheck
    <2> QED
      BY <2>1, <2>5, <2>6
  <1>4. ASSUME NEW w \in Workers, EndLease(w)
        PROVE  FreshOK' /\ NewDatesOK'
    <2>1. PICK l \in LeaseIds, endAt \in EndDates :
             /\ endAt > leases[l].start
             /\ req' = [req EXCEPT ![w] = [Loaded("end", "update", l) EXCEPT
                           !.row = NoRow,
                           !.upd = [NoUpdate EXCEPT !.status = "ended", !.end = endAt]]]
      BY <1>4 DEF EndLease
    <2> DEFINE upd == [NoUpdate EXCEPT !.status = "ended", !.end = endAt]
               r == [Loaded("end", "update", l) EXCEPT !.row = NoRow, !.upd = upd]
    <2>2. Loaded("end", "update", l) \in Request
      BY LoadedType DEF LocalInv, BaseInv
    <2>3. upd \in Update /\ upd.start = Keep /\ upd.end = endAt
      BY InputsAssumption DEF Update, NoUpdate, LeaseStatus, EndDate
    <2>4. req' = [req EXCEPT ![w] = r]
      BY <2>1
    <2> HIDE DEF upd
    <2>5. r \in Request /\ r.pc = "update" /\ r.op = "end" /\ r.lease = l /\ r.upd = upd
      BY ZenonT(40), <2>2, <2>3, IdleRequest DEF Request, Loaded, Idle
    <2> HIDE DEF r
    <2>6. FreshFor(r)
      BY <2>1, <2>3, <2>5, InputsAssumption DEF FreshFor
    <2> QED
      BY <1>4, <2>4, <2>5, <2>6, LocalFresh DEF EndLease
  <1>5. ASSUME NEW w \in Workers, Decide(w)
        PROVE  FreshOK' /\ NewDatesOK'
    <2>1. PICK l \in LeaseIds, st \in {"active", "rejected"} :
             req' = [req EXCEPT ![w] = [Loaded("decide", "update", l) EXCEPT
                           !.row = NoRow, !.upd = [NoUpdate EXCEPT !.status = st]]]
      BY <1>5 DEF Decide
    <2> DEFINE upd == [NoUpdate EXCEPT !.status = st]
               r == [Loaded("decide", "update", l) EXCEPT !.row = NoRow, !.upd = upd]
    <2>2. Loaded("decide", "update", l) \in Request
      BY LoadedType DEF LocalInv, BaseInv
    <2>3. upd \in Update
      BY InputsAssumption DEF Update, NoUpdate, LeaseStatus, EndDate
    <2>4. req' = [req EXCEPT ![w] = r]
      BY <2>1
    <2> HIDE DEF upd
    <2>5. r \in Request /\ r.pc = "update" /\ r.op = "decide"
      BY ZenonT(40), <2>2, <2>3, IdleRequest DEF Request, Loaded, Idle
    <2> HIDE DEF r
    <2> QED
      BY <1>5, <2>4, <2>5, NoReads, LocalFresh DEF Decide
  <1>6. ASSUME NEW w \in Workers, Closeout(w)
        PROVE  FreshOK' /\ NewDatesOK'
    <2>1. PICK l \in LeaseIds, moveOut \in MoveOutDates :
             req' = [req EXCEPT ![w] = [Loaded("closeout", "update", l) EXCEPT
                           !.row = NoRow, !.upd = [NoUpdate EXCEPT !.status = "ended", !.end = moveOut]]]
      BY <1>6 DEF Closeout
    <2> DEFINE upd == [NoUpdate EXCEPT !.status = "ended", !.end = moveOut]
               r == [Loaded("closeout", "update", l) EXCEPT !.row = NoRow, !.upd = upd]
    <2>2. Loaded("closeout", "update", l) \in Request
      BY LoadedType DEF LocalInv, BaseInv
    <2>3. upd \in Update
      BY InputsAssumption DEF Update, NoUpdate, LeaseStatus, EndDate
    <2>4. req' = [req EXCEPT ![w] = r]
      BY <2>1
    <2> HIDE DEF upd
    <2>5. r \in Request /\ r.pc = "update" /\ r.op = "closeout"
      BY ZenonT(40), <2>2, <2>3, IdleRequest DEF Request, Loaded, Idle
    <2> HIDE DEF r
    <2> QED
      BY <1>6, <2>4, <2>5, NoReads, LocalFresh DEF Closeout
  <1>7. ASSUME NEW w \in Workers, AcceptLoad(w)
        PROVE  FreshOK' /\ NewDatesOK'
    <2>1. PICK o \in OfferIds :
             /\ offers[o].status # "absent"
             /\ req' = [req EXCEPT ![w] =
                           [Loaded("accept", "offer", offers[o].lease) EXCEPT !.offer = o]]
      BY <1>7 DEF AcceptLoad
    <2> DEFINE l == offers[o].lease
               r == [Loaded("accept", "offer", l) EXCEPT !.offer = o]
    <2>2. l \in LeaseIds
      BY <2>1 DEF LocalInv, BaseInv, TablesOK
    <2>3. req' = [req EXCEPT ![w] = r]
      BY <2>1
    <2> HIDE DEF l
    <2>4. Loaded("accept", "offer", l) \in Request
      BY <2>2, LoadedType DEF LocalInv, BaseInv
    <2>5. r \in Request /\ r.pc = "offer" /\ r.op = "accept"
      BY <2>4 DEF Request, Loaded, Idle
    <2> HIDE DEF r
    <2> QED
      BY <1>7, <2>3, <2>5, NoReads, LocalFresh DEF AcceptLoad
  <1>8. ASSUME NEW w \in Workers, AcceptReadOffer(w)
        PROVE  FreshOK' /\ NewDatesOK'
    <2> DEFINE r == [req[w] EXCEPT !.pc = "decide"]
    <2>1. req' = [req EXCEPT ![w] = r] \/ req' = [req EXCEPT ![w] = Idle]
      BY <1>8 DEF AcceptReadOffer
    <2>2. r \in Request /\ r.pc = "decide" /\ r.op = "accept"
      BY <1>8 DEF AcceptReadOffer, LocalInv, BaseInv, TypeOK, ControlOK, OpOf, Request
    <2> HIDE DEF r
    <2> QED
      BY <1>8, <1>i, <2>1, <2>2, NoReads, LocalFresh, IdleRequest DEF AcceptReadOffer
  <1>9. ASSUME NEW w \in Workers, AcceptDecideOffer(w)
        PROVE  FreshOK' /\ NewDatesOK'
    <2>1. /\ req' = [req EXCEPT ![w] = req'[w]]
          /\ req'[w] \in Request
          /\ req'[w].pc = "update" /\ req'[w].op = "accept"
      <3>1. BaseInv'
        BY <1>9, BaseNext DEF LocalInv, Next, Step
      <3>2. req[w].op = "accept" /\ req[w] \in Request
        BY <1>9 DEF AcceptDecideOffer, LocalInv, BaseInv, TypeOK, ControlOK, OpOf
      <3> QED
        BY <1>9, <3>1, <3>2 DEF AcceptDecideOffer, LocalInv, BaseInv, TypeOK, Request
    <2> QED
      BY <1>9, <2>1, NoReads, LocalFresh DEF AcceptDecideOffer
  <1>10. ASSUME NEW w \in Workers, AcceptUpdateFails(w)
         PROVE  FreshOK' /\ NewDatesOK'
    <2>1. /\ req' = [req EXCEPT ![w] = req'[w]]
          /\ req'[w] \in Request
          /\ req'[w].pc = "insert" /\ req'[w].op = "accept"
      <3>1. BaseInv'
        BY <1>10, BaseNext DEF LocalInv, Next, Step
      <3> QED
        BY <1>10, <3>1 DEF AcceptUpdateFails, LocalInv, BaseInv, TypeOK, Request
    <2> QED
      BY <1>10, <2>1, NoReads, LocalFresh DEF AcceptUpdateFails
  <1>11. ASSUME NEW w \in Workers, UpdateLease(w)
         PROVE  FreshOK' /\ NewDatesOK'
    <2> DEFINE rest == IF req[w].op = "accept"
                       THEN [req[w] EXCEPT !.pc = "insert",
                                !.row = RenewedLease(req[w].unit, req[w].offer),
                                !.upd = NoUpdate]
                       ELSE Syncing(req[w])
    <2>1. req' = AfterLeaseWrite(w, req[w].unit, rest)
      BY <1>11 DEF UpdateLease
    <2>2. /\ req[w] \in Request /\ req[w].unit \in Units
          /\ req[w].op = "accept" => req[w].offer \in OfferIds
      BY <1>11 DEF UpdateLease, LocalInv, BaseInv, TypeOK, ControlOK, OpOf
    <2>3. rest \in Request
      <3>1. RenewedLease(req[w].unit, req[w].offer) \in Row \/ req[w].op # "accept"
        BY <2>2, RenewedLeaseType DEF LocalInv, BaseInv
      <3> QED
        BY <2>2, <3>1, SyncingType, IdleRequest DEF Request
    <2>4. rest.pc = "count" \/ (rest.pc = "insert" /\ rest.op = "accept")
      BY <2>2 DEF Syncing, Idle, Request
    <2> HIDE DEF rest
    <2> QED
      BY <1>11, <2>1, <2>3, <2>4, UpdateOnlyUnit, WriteFresh DEF LocalInv
  <1>12. ASSUME NEW w \in Workers, InsertLease(w)
         PROVE  FreshOK' /\ NewDatesOK'
    <2> DEFINE sync == Syncing(req[w])
    <2>1. req' = AfterLeaseWrite(w, req[w].unit, sync)
      BY <1>12 DEF InsertLease
    <2>2. sync \in Request /\ sync.pc = "count"
      BY <1>12, SyncingType DEF LocalInv, BaseInv, TypeOK, Syncing, Idle
    <2> HIDE DEF sync
    <2> QED
      BY <1>12, <2>1, <2>2, InsertOnlyUnit, WriteFresh DEF LocalInv
  <1>13. ASSUME NEW w \in Workers, CountActiveLeasesOnUnit(w)
         PROVE  FreshOK' /\ NewDatesOK'
    <2>1. /\ req' = [req EXCEPT ![w] = req'[w]]
          /\ req'[w] \in Request
          /\ req'[w].pc = "set"
          /\ req'[w].unit = req[w].unit
          /\ req'[w].leased = HasActiveLease(req[w].unit)
      <3>1. BaseInv'
        BY <1>13, BaseNext DEF LocalInv, Next, Step
      <3> QED
        BY ZenonT(40), <1>13, <3>1 DEF CountActiveLeasesOnUnit, LocalInv, BaseInv, TypeOK, Request
    <2>2. \A q \in Request : q.pc = "set" /\ q.leased = HasActiveLease(q.unit) => FreshFor(q)
      BY DEF FreshFor
    <2>3. \A q \in Request : /\ q = req'[w] => FreshFor(q)
                             /\ q = req'[w] => ~(q.pc = "insert" /\ q.op = "create")
      BY <2>1, <2>2
    <2> QED
      BY <1>13, <2>1, <2>3, LocalFresh DEF CountActiveLeasesOnUnit
  <1>14. ASSUME NEW w \in Workers, SetUnitStatus(w) \/ Abort(w)
         PROVE  FreshOK' /\ NewDatesOK'
    <2>1. req' = [req EXCEPT ![w] = Idle] /\ UNCHANGED leases
      BY <1>14 DEF SetUnitStatus, Abort
    <2> QED
      BY <1>i, <2>1, IdleRequest, LocalFresh
  <1>15. ASSUME UNCHANGED <<leases, req>>
         PROVE  FreshOK' /\ NewDatesOK'
    BY <1>15 DEF LocalInv, FreshOK, NewDatesOK, FreshFor, HasActiveLease,
                 NoPrimaryActiveOverlap, ActivePrimaryLeasesForUnit
  <1> QED
    BY <1>1, <1>2, <1>3, <1>4, <1>5, <1>6, <1>7, <1>8, <1>9, <1>10, <1>11, <1>12, <1>13,
       <1>14, <1>15
    DEF Next, Step, vars, CreateRenewalOffer, RejectRenewalOffer, PatchUnitStatus

-----------------------------------------------------------------------------
(***************************************************************************)
(* The overlap rule and the order of the dates.                            *)
(***************************************************************************)
RulesInv == LocalInv /\ OverlapNeedsUncheckedWrite /\ CheckedDatesAreOrdered

\* The columns an UPDATE and an INSERT leave in a row.
LEMMA UpdatedColumns ==
    ASSUME NEW row \in Row, NEW r \in Request
    PROVE  /\ Updated(row, r).start = Apply(row, r.upd).start
           /\ Updated(row, r).end = Apply(row, r.upd).end
           /\ Updated(row, r).status = Set(row.status, r.upd.status)
           /\ Updated(row, r).status = Apply(row, r.upd).status
           /\ Updated(row, r).primary = Apply(row, r.upd).primary
           /\ Apply(row, r.upd).start = Set(row.start, r.upd.start)
           /\ Apply(row, r.upd).end = Set(row.end, r.upd.end)
           /\ Updated(row, r).datesChecked =
                 (IF r.upd.start = Keep /\ r.upd.end = Keep THEN row.datesChecked
                  ELSE r.op \in {"patch", "end"} /\ r.fresh)
           /\ Updated(row, r).overlapChecked =
                 (IF r.op = "patch" THEN r.fresh
                  ELSE row.overlapChecked /\ r.upd.status # "active")
  BY DEF Updated, Apply, Row

\* The columns of an inserted row that the rules look at.
LEMMA InsertedColumns ==
    ASSUME NEW r \in Request
    PROVE  /\ Inserted(r).start = r.row.start
           /\ Inserted(r).end = r.row.end
           /\ Inserted(r).status = r.row.status
           /\ Inserted(r).datesChecked = (r.op = "create")
           /\ Inserted(r).overlapChecked = (r.op = "create" /\ r.row.primary /\ r.fresh)
  BY DEF Inserted, Request, Row

\* Overlapping is mutual.
LEMMA OverlapSymmetric ==
    ASSUME NEW a, NEW b, RangesOverlap(a, b)
    PROVE  RangesOverlap(b, a)
  BY DEF RangesOverlap

\* A write of row k alone keeps the rules when it keeps them for row k.
LEMMA RulesOneRow ==
    ASSUME RulesInv, NEW k \in LeaseIds,
           \A l \in LeaseIds : l # k => leases'[l] = leases[l],
           leases'[k].status # "absent" /\ leases'[k].datesChecked
               => OrderedDates(leases'[k]),
           \A l \in LeaseIds \ {k} :
               leases'[k].overlapChecked /\ ActivePrimary(leases'[k])
               /\ leases[l].unit = leases'[k].unit /\ ActivePrimary(leases[l])
                   => ~RangesOverlap(leases'[k], leases[l])
    PROVE  OverlapNeedsUncheckedWrite' /\ CheckedDatesAreOrdered'
  <1>1. ASSUME NEW l \in LeaseIds, leases'[l].status # "absent", leases'[l].datesChecked
        PROVE  OrderedDates(leases'[l])
    BY <1>1 DEF RulesInv, CheckedDatesAreOrdered, Exists
  <1>2. ASSUME NEW l \in LeaseIds, NEW m \in LeaseIds, l # m,
               leases'[l].unit = leases'[m].unit,
               ActivePrimary(leases'[l]), ActivePrimary(leases'[m]),
               RangesOverlap(leases'[l], leases'[m]),
               leases'[l].overlapChecked, leases'[m].overlapChecked
        PROVE  FALSE
    <2>1. CASE l = k
      BY <1>2, <2>1
    <2>2. CASE m = k
      BY <1>2, <2>2, OverlapSymmetric
    <2>3. CASE l # k /\ m # k
      BY <1>2, <2>3 DEF RulesInv, OverlapNeedsUncheckedWrite, Overlapping
    <2> QED
      BY <2>1, <2>2, <2>3
  <1>3. CheckedDatesAreOrdered'
    BY <1>1 DEF CheckedDatesAreOrdered, Exists, OrderedDates
  <1>4. OverlapNeedsUncheckedWrite'
    BY <1>2 DEF OverlapNeedsUncheckedWrite, Overlapping, ActivePrimary, RangesOverlap
  <1> QED
    BY <1>3, <1>4

\* An UPDATE of a lease keeps both rules, by the check before it if the row
\* claims one and by the row's own flags if not.
LEMMA UpdateKeepsRules ==
    ASSUME RulesInv, NEW w \in Workers, UpdateLease(w)
    PROVE  OverlapNeedsUncheckedWrite' /\ CheckedDatesAreOrdered'
  <1> DEFINE r == req[w]
             k == req[w].lease
             a == Apply(leases[k], r.upd)
             n == Updated(leases[k], r)
  <1>1. /\ k \in LeaseIds /\ Exists(k) /\ leases[k].unit = r.unit
        /\ r \in Request /\ r.pc = "update" /\ leases[k] \in Row
        /\ r.op # "patch" => r.upd.status \in {"active", "ended", "rejected"}
        /\ r.fresh => FreshFor(r)
    BY DEF UpdateLease, RulesInv, LocalInv, BaseInv, TypeOK, ControlOK, OpOf, HoldsLease, FreshOK
  <1>2. leases' = [leases EXCEPT ![k] = n]
    BY DEF UpdateLease
  <1>3. leases'[k] = n /\ \A l \in LeaseIds : l # k => leases'[l] = leases[l]
    BY <1>1, <1>2 DEF RulesInv, LocalInv, BaseInv, TypeOK
  <1>4. /\ n.start = a.start /\ n.end = a.end /\ n.status = a.status
        /\ n.primary = a.primary
        /\ n.unit = leases[k].unit
        /\ n.status = Set(leases[k].status, r.upd.status)
        /\ a.start = Set(leases[k].start, r.upd.start)
        /\ a.end = Set(leases[k].end, r.upd.end)
        /\ n.datesChecked = (IF r.upd.start = Keep /\ r.upd.end = Keep
                             THEN leases[k].datesChecked
                             ELSE r.op \in {"patch", "end"} /\ r.fresh)
        /\ n.overlapChecked = (IF r.op = "patch" THEN r.fresh
                               ELSE leases[k].overlapChecked /\ r.upd.status # "active")
    BY <1>1, UpdatedColumns, UpdatedRow
  <1> HIDE DEF a, n
  <1>5. ASSUME n.datesChecked
        PROVE  OrderedDates(n)
    <2>1. CASE r.upd.start = Keep /\ r.upd.end = Keep
      BY <1>1, <1>4, <1>5, <2>1 DEF Set, RulesInv, CheckedDatesAreOrdered, OrderedDates
    <2>2. CASE ~(r.upd.start = Keep /\ r.upd.end = Keep) /\ r.op = "patch"
      BY <1>1, <1>4, <1>5, <2>2 DEF FreshFor, OrderedDates, a
    <2>3. CASE ~(r.upd.start = Keep /\ r.upd.end = Keep) /\ r.op = "end"
      <3>1. r.upd.start = Keep /\ r.upd.end \in Date /\ r.upd.end > leases[k].start
        BY <1>1, <1>4, <1>5, <2>3 DEF FreshFor
      <3>2. n.start = leases[k].start /\ n.end = r.upd.end
        BY <1>4, <3>1, ValuesAssumption DEF Set, Date
      <3> QED
        BY <3>1, <3>2 DEF OrderedDates
    <2> QED
      BY <1>4, <1>5, <2>1, <2>2, <2>3
  <1>6. ASSUME NEW l \in LeaseIds \ {k}, n.overlapChecked, ActivePrimary(n),
               leases[l].unit = n.unit, ActivePrimary(leases[l])
        PROVE  ~RangesOverlap(n, leases[l])
    <2>1. CASE r.op = "patch"
      <3>1. NoPrimaryActiveOverlap(r.unit, k, a)
        BY <1>1, <1>4, <1>6, <2>1 DEF FreshFor, a
      <3> QED
        BY <1>1, <1>4, <1>6, <3>1
        DEF NoPrimaryActiveOverlap, ActivePrimaryLeasesForUnit, ActivePrimary, RangesOverlap
    <2>2. CASE r.op # "patch"
      <3>1. n.status \in {"ended", "rejected"}
        BY <1>1, <1>4, <1>6, <2>2, ValuesAssumption DEF Set, LeaseStatus
      <3> QED
        BY <1>6, <3>1 DEF ActivePrimary
    <2> QED
      BY <2>1, <2>2
  <1> HIDE DEF k, r
  <1>7. leases'[k].status # "absent" /\ leases'[k].datesChecked => OrderedDates(leases'[k])
    BY <1>3, <1>5
  <1>8. \A l \in LeaseIds \ {k} :
           leases'[k].overlapChecked /\ ActivePrimary(leases'[k])
           /\ leases[l].unit = leases'[k].unit /\ ActivePrimary(leases[l])
               => ~RangesOverlap(leases'[k], leases[l])
    BY <1>3, <1>6
  <1> QED
    BY <1>1, <1>3, <1>7, <1>8, RulesOneRow

\* So does an INSERT.
LEMMA InsertKeepsRules ==
    ASSUME RulesInv, NEW w \in Workers, InsertLease(w)
    PROVE  OverlapNeedsUncheckedWrite' /\ CheckedDatesAreOrdered'
  <1> DEFINE r == req[w]
             n == Inserted(r)
  <1>1. /\ r \in Request /\ r.pc = "insert"
        /\ r.row.unit = r.unit
        /\ r.fresh => FreshFor(r)
        /\ r.op = "create" => OrderedDates(r.row)
    BY DEF InsertLease, RulesInv, LocalInv, BaseInv, TypeOK, ControlOK, OpOf, FreshOK, NewDatesOK
  <1>2. PICK k \in LeaseIds : ~Exists(k) /\ leases' = [leases EXCEPT ![k] = n]
    BY DEF InsertLease
  <1>3. leases'[k] = n /\ \A l \in LeaseIds : l # k => leases'[l] = leases[l]
    BY <1>2 DEF RulesInv, LocalInv, BaseInv, TypeOK
  <1>4. /\ n.start = r.row.start /\ n.end = r.row.end /\ n.status = r.row.status
        /\ n.unit = r.unit
        /\ n.datesChecked = (r.op = "create")
        /\ n.overlapChecked = (r.op = "create" /\ r.row.primary /\ r.fresh)
    BY <1>1, InsertedColumns, InsertedRow
  <1> HIDE DEF n
  <1>5. n.datesChecked => OrderedDates(n)
    BY <1>1, <1>4 DEF OrderedDates
  <1>6. ASSUME NEW l \in LeaseIds \ {k}, n.overlapChecked, ActivePrimary(n),
               leases[l].unit = n.unit, ActivePrimary(leases[l])
        PROVE  ~RangesOverlap(n, leases[l])
    <2>1. NoPrimaryActiveOverlap(r.unit, None, r.row)
      BY <1>1, <1>4, <1>6 DEF FreshFor
    <2>2. l # None /\ ActivePrimary(r.row)
      BY <1>4, <1>6, ValuesAssumption DEF ActivePrimary
    <2> QED
      BY <1>4, <1>6, <2>1, <2>2
      DEF NoPrimaryActiveOverlap, ActivePrimaryLeasesForUnit, RangesOverlap
  <1>7. leases'[k].status # "absent" /\ leases'[k].datesChecked => OrderedDates(leases'[k])
    BY <1>3, <1>5
  <1>8. \A l \in LeaseIds \ {k} :
           leases'[k].overlapChecked /\ ActivePrimary(leases'[k])
           /\ leases[l].unit = leases'[k].unit /\ ActivePrimary(leases[l])
               => ~RangesOverlap(leases'[k], leases[l])
    BY <1>3, <1>6
  <1> QED
    BY <1>3, <1>7, <1>8, RulesOneRow

\* An empty table keeps the rules.
LEMMA RulesInit == Init => RulesInv
  <1> SUFFICES ASSUME Init PROVE RulesInv
    OBVIOUS
  <1>1. \A l \in LeaseIds : leases[l].status = "absent"
    BY DEF Init, NoRow
  <1> QED
    BY <1>1, LocalInvInit DEF RulesInv, OverlapNeedsUncheckedWrite, CheckedDatesAreOrdered,
                              Overlapping, ActivePrimary, Exists

\* Only the two statements that write leases can break the rules, and do not.
LEMMA RulesNext == RulesInv /\ [Next]_vars => RulesInv'
  <1> SUFFICES ASSUME RulesInv, [Next]_vars
               PROVE  OverlapNeedsUncheckedWrite' /\ CheckedDatesAreOrdered'
    BY LocalInvNext DEF RulesInv
  <1>1. ASSUME NEW w \in Workers, UpdateLease(w) \/ InsertLease(w)
        PROVE  OverlapNeedsUncheckedWrite' /\ CheckedDatesAreOrdered'
    BY <1>1, UpdateKeepsRules, InsertKeepsRules
  <1>2. CASE UNCHANGED leases
    BY <1>2 DEF RulesInv, OverlapNeedsUncheckedWrite, CheckedDatesAreOrdered, Overlapping, Exists
  <1> QED
    BY <1>1, <1>2
    DEF Next, Step, vars, CreateLease, PatchLoad, PatchCheck, EndLease, Decide, Closeout,
        AcceptLoad, AcceptReadOffer, AcceptDecideOffer, AcceptUpdateFails,
        CountActiveLeasesOnUnit, SetUnitStatus, Abort, CreateRenewalOffer,
        RejectRenewalOffer, PatchUnitStatus

\* Create and Patch keep the overlap rule: two active primary leases of a unit
\* overlap only when one of them was made active past the check, by another
\* handler or after another request's write.
THEOREM OverlapCorrect == Spec => []OverlapNeedsUncheckedWrite
  <1>1. RulesInv => OverlapNeedsUncheckedWrite
    BY DEF RulesInv
  <1> QED
    BY <1>1, RulesInit, RulesNext, PTL DEF Spec

\* A lease whose dates went through ValidateLeaseDateOrder, unovertaken, ends
\* after it starts.
THEOREM DatesCorrect == Spec => []CheckedDatesAreOrdered
  <1>1. RulesInv => CheckedDatesAreOrdered
    BY DEF RulesInv
  <1> QED
    BY <1>1, RulesInit, RulesNext, PTL DEF Spec

-----------------------------------------------------------------------------
(***************************************************************************)
(* The status of the units: every step of the service is a step of the     *)
(* abstract occupancy or leaves it alone.                                  *)
(***************************************************************************)
Leased == [u \in Units |-> HasActiveLease(u)]

Settled == [u \in Units |-> trusted[u] /\ ~SyncPending(u)]

\* A step that gives one request new locals leaves pending recalculations
\* alone when it neither begins nor ends one.
LEMMA PendingSame ==
    ASSUME TypeOK, NEW w \in Workers, NEW r, req' = [req EXCEPT ![w] = r],
           Unsynced(r) <=> Unsynced(req[w]), Unsynced(r) => r.unit = req[w].unit
    PROVE  \A u \in Units : SyncPending(u)' <=> SyncPending(u)
  <1>1. \A v \in Workers : req'[v] = IF v = w THEN r ELSE req[v]
    BY DEF TypeOK
  <1>2. ASSUME NEW u \in Units, NEW v \in Workers
        PROVE  (req'[v].unit = u /\ Unsynced(req'[v])) <=> (req[v].unit = u /\ Unsynced(req[v]))
    <2>1. CASE v = w
      BY <1>1, <2>1
    <2>2. CASE v # w
      BY <1>1, <2>2
    <2> QED
      BY <2>1, <2>2
  <1> QED
    BY <1>2 DEF SyncPending, Unsynced

\* What is settled depends on the history and the pending requests only.
LEMMA SettledSame ==
    ASSUME \A u \in Units : SyncPending(u)' <=> SyncPending(u), UNCHANGED trusted
    PROVE  Settled' = Settled
  BY DEF Settled

\* What is leased depends on the leases only.
LEMMA LeasedSame ==
    ASSUME UNCHANGED leases
    PROVE  Leased' = Leased
  BY DEF Leased, HasActiveLease

\* A write of a unit's lease, or the decision to go on after a failed one,
\* leaves that unit pending and no other unit's recalculation changed.
LEMMA PendingAfterWrite ==
    ASSUME TypeOK, NEW w \in Workers, NEW t \in Units, NEW r, r.unit = t, Unsynced(r),
           req[w].unit = t,
           \A v \in Workers : v # w =>
               /\ req'[v].unit = req[v].unit
               /\ Unsynced(req'[v]) <=> Unsynced(req[v]),
           req'[w] = r
    PROVE  /\ SyncPending(t)'
           /\ \A u \in Units \ {t} : SyncPending(u)' <=> SyncPending(u)
  <1>1. \E v \in Workers : req'[v].unit = t /\ Unsynced(req'[v])
    OBVIOUS
  <1>2. ASSUME NEW u \in Units \ {t}, NEW v \in Workers
        PROVE  (req'[v].unit = u /\ Unsynced(req'[v])) <=> (req[v].unit = u /\ Unsynced(req[v]))
    <2>1. CASE v = w
      BY <1>2, <2>1
    <2>2. CASE v # w
      BY <2>2
    <2> QED
      BY <2>1, <2>2
  <1> QED
    BY <1>1, <1>2 DEF SyncPending, Unsynced

\* A lease write of unit t, seen from the abstract occupancy.
LEMMA ChangeStep ==
    ASSUME NEW t \in Units, SyncPending(t)',
           \A u \in Units \ {t} : SyncPending(u)' <=> SyncPending(u),
           \A u \in Units \ {t} : HasActiveLease(u)' <=> HasActiveLease(u),
           UNCHANGED <<trusted, unitStatus>>
    PROVE  Occupancy!Change(t)
  <1>1. \E b \in BOOLEAN : Leased' = [Leased EXCEPT ![t] = b]
    <2>1. CASE HasActiveLease(t)'
      <3>1. ASSUME NEW u \in Units
            PROVE  Leased'[u] = IF u = t THEN TRUE ELSE Leased[u]
        <4>1. (Leased'[u] <=> HasActiveLease(u)') /\ (Leased[u] <=> HasActiveLease(u))
          BY DEF Leased
        <4>2. Leased'[u] \in BOOLEAN /\ Leased[u] \in BOOLEAN
          BY DEF Leased, HasActiveLease
        <4>3. CASE u = t
          BY <2>1, <4>1, <4>2, <4>3
        <4>4. CASE u # t
          BY <4>1, <4>2, <4>4
        <4> QED
          BY <4>3, <4>4
      <3>2. Leased' = [Leased EXCEPT ![t] = TRUE]
        BY <3>1 DEF Leased
      <3> QED
        BY <3>2
    <2>2. CASE ~HasActiveLease(t)'
      <3>1. ASSUME NEW u \in Units
            PROVE  Leased'[u] = IF u = t THEN FALSE ELSE Leased[u]
        <4>1. (Leased'[u] <=> HasActiveLease(u)') /\ (Leased[u] <=> HasActiveLease(u))
          BY DEF Leased
        <4>2. Leased'[u] \in BOOLEAN /\ Leased[u] \in BOOLEAN
          BY DEF Leased, HasActiveLease
        <4>3. CASE u = t
          BY <2>2, <4>1, <4>2, <4>3
        <4>4. CASE u # t
          BY <4>1, <4>2, <4>4
        <4> QED
          BY <4>3, <4>4
      <3>2. Leased' = [Leased EXCEPT ![t] = FALSE]
        BY <3>1 DEF Leased
      <3> QED
        BY <3>2
    <2> QED
      BY <2>1, <2>2
  <1>2. Settled' = [Settled EXCEPT ![t] = FALSE]
    BY DEF Settled
  <1> QED
    BY <1>1, <1>2 DEF Occupancy!Change, Leased, Settled

\* A write of unit t's status: a recalculation when it leaves the unit
\* settled, a disturbance when it does not.
LEMMA StatusStep ==
    ASSUME TypeOK, NEW t \in Units, NEW st \in UnitStatus,
           unitStatus' = [unitStatus EXCEPT ![t] = st], UNCHANGED leases,
           \A u \in Units \ {t} : (trusted'[u] <=> trusted[u])
                                  /\ (SyncPending(u)' <=> SyncPending(u)),
           trusted'[t] => st = IF HasActiveLease(t) THEN "occupied" ELSE "vacant"
    PROVE  Occupancy!Recalculate(t) \/ Occupancy!Disturb(t)
  <1>1. Leased' = Leased
    BY LeasedSame
  <1>2. CASE trusted'[t] /\ ~SyncPending(t)'
    <2>1. Settled' = [Settled EXCEPT ![t] = TRUE]
      BY <1>2 DEF Settled
    <2>2. unitStatus' = [unitStatus EXCEPT ![t] = Occupancy!Shown(Leased[t])]
      BY <1>2 DEF Occupancy!Shown, Leased
    <2> QED
      BY <1>1, <2>1, <2>2 DEF Occupancy!Recalculate, Leased, Settled
  <1>3. CASE ~(trusted'[t] /\ ~SyncPending(t)')
    <2>1. Settled' = [Settled EXCEPT ![t] = FALSE]
      BY <1>3 DEF Settled
    <2>2. \E x \in Occupancy!Status : unitStatus' = [unitStatus EXCEPT ![t] = x]
      BY DEF Occupancy!Status, UnitStatus
    <2> QED
      BY <1>1, <2>1, <2>2 DEF Occupancy!Disturb, Leased, Settled
  <1> QED
    BY <1>2, <1>3

\* Every step of the service is a step of the abstract occupancy or a stutter.
LEMMA OccupancyNext ==
    ASSUME LocalInv, [Next]_vars
    PROVE  \/ Occupancy!Next
           \/ UNCHANGED <<Leased, unitStatus, Settled>>
  <1> USE DEF LocalInv
  <1>t. TypeOK /\ BaseInv
    BY DEF BaseInv
  <1>i. ~Unsynced(Idle)
    BY DEF Unsynced, Idle
  <1>q. ASSUME NEW w \in Workers, req' = [req EXCEPT ![w] = req'[w]],
               Unsynced(req'[w]) <=> Unsynced(req[w]),
               Unsynced(req'[w]) => req'[w].unit = req[w].unit,
               UNCHANGED <<leases, unitStatus, trusted>>
        PROVE  UNCHANGED <<Leased, unitStatus, Settled>>
    <2>1. \A u \in Units : SyncPending(u)' <=> SyncPending(u)
      BY <1>q, <1>t, PendingSame
    <2> QED
      BY <1>q, <2>1, SettledSame, LeasedSame
  <1>1. ASSUME NEW w \in Workers,
               CreateLease(w) \/ PatchLoad(w) \/ EndLease(w) \/ Decide(w) \/ Closeout(w)
                 \/ AcceptLoad(w)
        PROVE  UNCHANGED <<Leased, unitStatus, Settled>>
    <2>1. req' = [req EXCEPT ![w] = req'[w]] /\ UNCHANGED <<leases, unitStatus, trusted>>
      BY <1>1, <1>t DEF CreateLease, PatchLoad, EndLease, Decide, Closeout, AcceptLoad, TypeOK
    <2>2. req[w].pc = "idle"
      BY <1>1 DEF CreateLease, PatchLoad, EndLease, Decide, Closeout, AcceptLoad
    <2>3. ~Unsynced(req'[w])
      <3>1. CASE CreateLease(w)
        BY <1>t, <3>1 DEF CreateLease, Idle, TypeOK, Unsynced
      <3>2. CASE PatchLoad(w)
        BY <1>t, <3>2 DEF PatchLoad, Loaded, Idle, TypeOK, Unsynced
      <3>3. CASE EndLease(w)
        BY <1>t, <3>3 DEF EndLease, Loaded, Idle, TypeOK, Unsynced
      <3>4. CASE Decide(w)
        BY <1>t, <3>4 DEF Decide, Loaded, Idle, TypeOK, Unsynced
      <3>5. CASE Closeout(w)
        BY <1>t, <3>5 DEF Closeout, Loaded, Idle, TypeOK, Unsynced
      <3>6. CASE AcceptLoad(w)
        BY <1>t, <3>6 DEF AcceptLoad, Loaded, Idle, TypeOK, Unsynced
      <3> QED
        BY <1>1, <3>1, <3>2, <3>3, <3>4, <3>5, <3>6
    <2> QED
      BY <2>1, <2>2, <2>3, <1>q DEF Unsynced
  <1>2. ASSUME NEW w \in Workers, PatchCheck(w) \/ AcceptReadOffer(w) \/ AcceptDecideOffer(w)
        PROVE  UNCHANGED <<Leased, unitStatus, Settled>>
    <2>1. req' = [req EXCEPT ![w] = req'[w]] /\ UNCHANGED <<leases, unitStatus, trusted>>
      BY <1>2, <1>t DEF PatchCheck, AcceptReadOffer, AcceptDecideOffer, TypeOK, Request
    <2>2. req[w].pc \in {"check", "offer", "decide"}
      BY <1>2 DEF PatchCheck, AcceptReadOffer, AcceptDecideOffer
    <2>3. req'[w].pc \in {"idle", "update", "decide"}
      <3>1. CASE PatchCheck(w)
        BY <1>t, <3>1 DEF PatchCheck, Idle, TypeOK, Request
      <3>2. CASE AcceptReadOffer(w)
        BY <1>t, <3>2 DEF AcceptReadOffer, Idle, TypeOK, Request
      <3>3. CASE AcceptDecideOffer(w)
        BY <1>t, <3>3 DEF AcceptDecideOffer, TypeOK, Request
      <3> QED
        BY <1>2, <3>1, <3>2, <3>3
    <2> QED
      BY <2>1, <2>2, <2>3, <1>q DEF Unsynced
  <1>3. ASSUME NEW w \in Workers, CountActiveLeasesOnUnit(w)
        PROVE  UNCHANGED <<Leased, unitStatus, Settled>>
    <2>1. /\ req' = [req EXCEPT ![w] = req'[w]] /\ UNCHANGED <<leases, unitStatus, trusted>>
          /\ req[w].pc = "count" /\ req'[w].pc = "set" /\ req'[w].unit = req[w].unit
      BY <1>3, <1>t DEF CountActiveLeasesOnUnit, TypeOK, Request
    <2> QED
      BY <2>1, <1>q DEF Unsynced
  <1>4. ASSUME NEW w \in Workers, AcceptUpdateFails(w)
        PROVE  Occupancy!Next
    <2>1. PICK t \in Units : t = req[w].unit
      BY <1>4, <1>t DEF AcceptUpdateFails, BaseInv, ControlOK, OpOf
    <2>2. /\ req'[w].unit = t
          /\ Unsynced(req'[w])
          /\ \A v \in Workers : v # w => req'[v] = req[v]
      BY <1>4, <1>t, <2>1 DEF AcceptUpdateFails, BaseInv, TypeOK, Unsynced, Request
    <2>3. SyncPending(t)' /\ \A u \in Units \ {t} : SyncPending(u)' <=> SyncPending(u)
      BY <2>1, <2>2, <1>t, PendingAfterWrite
    <2>4. \A u \in Units \ {t} : HasActiveLease(u)' <=> HasActiveLease(u)
      BY <1>4 DEF AcceptUpdateFails, HasActiveLease
    <2>5. Occupancy!Change(t)
      BY <1>4, <2>3, <2>4, ChangeStep DEF AcceptUpdateFails
    <2> QED
      BY <2>5 DEF Occupancy!Next
  <1>5. ASSUME NEW w \in Workers, UpdateLease(w) \/ InsertLease(w)
        PROVE  Occupancy!Next
    <2>1. OnlyUnit(req[w].unit) /\ req[w].unit \in Units
      BY <1>5, <1>t, UpdateOnlyUnit, InsertOnlyUnit
    <2>2. PICK t \in Units : t = req[w].unit
      BY <2>1
    <2>3. OnlyUnit(t)
      BY <2>1, <2>2 DEF OnlyUnit
    <2>4. /\ req'[w].unit = t /\ Unsynced(req'[w])
          /\ \A v \in Workers : v # w =>
                /\ req'[v].unit = req[v].unit
                /\ Unsynced(req'[v]) <=> Unsynced(req[v])
      <3>1. /\ Syncing(req[w]).unit = t
            /\ Unsynced(Syncing(req[w]))
        BY <2>2 DEF Syncing, Unsynced, Idle
      <3>2. req[w] \in Request
        BY <1>t DEF TypeOK
      <3>3. req'[w].unit = t /\ Unsynced(req'[w])
        <4>1. CASE UpdateLease(w) /\ req[w].op = "accept"
          BY <2>2, <3>2, <4>1 DEF UpdateLease, AfterLeaseWrite, Unsynced, Request
        <4>2. CASE UpdateLease(w) /\ req[w].op # "accept"
          BY <3>1, <4>2 DEF UpdateLease, AfterLeaseWrite
        <4>3. CASE InsertLease(w)
          BY <3>1, <4>3 DEF InsertLease, AfterLeaseWrite
        <4> QED
          BY <1>5, <4>1, <4>2, <4>3
      <3>4. ASSUME NEW v \in Workers, v # w
            PROVE  /\ req'[v].unit = req[v].unit
                   /\ req'[v].op = req[v].op /\ req'[v].pc = req[v].pc
        BY <1>5, <3>4, <1>t DEF UpdateLease, InsertLease, AfterLeaseWrite, TypeOK, Request
      <3> QED
        BY <3>3, <3>4 DEF Unsynced
    <2>5. \A u \in Units \ {t} : HasActiveLease(u)' <=> HasActiveLease(u)
      BY <1>t, <2>3, OtherUnits DEF HasActiveLease
    <2>6. SyncPending(t)' /\ \A u \in Units \ {t} : SyncPending(u)' <=> SyncPending(u)
      BY <1>t, <2>2, <2>4, PendingAfterWrite
    <2>7. Occupancy!Change(t)
      BY <1>5, <2>5, <2>6, ChangeStep DEF UpdateLease, InsertLease
    <2> QED
      BY <2>7 DEF Occupancy!Next
  <1>6. ASSUME NEW w \in Workers, SetUnitStatus(w)
        PROVE  Occupancy!Next
    <2>1. PICK t \in Units : t = req[w].unit
      BY <1>6, <1>t DEF SetUnitStatus, BaseInv, ControlOK, OpOf
    <2>2. PICK st \in UnitStatus : st = IF req[w].leased THEN "occupied" ELSE "vacant"
      BY DEF UnitStatus
    <2>3. /\ unitStatus' = [unitStatus EXCEPT ![t] = st]
          /\ trusted' = [trusted EXCEPT ![t] = req[w].fresh]
          /\ req' = [req EXCEPT ![w] = Idle]
          /\ UNCHANGED leases
          /\ req[w].fresh => (req[w].leased <=> HasActiveLease(t))
      BY <1>6, <2>1, <2>2 DEF SetUnitStatus, FreshOK, FreshFor
    <2>4. ASSUME NEW u \in Units \ {t}
          PROVE  SyncPending(u)' <=> SyncPending(u)
      <3>1. \A v \in Workers : req'[v] = IF v = w THEN Idle ELSE req[v]
        BY <1>t, <2>3 DEF TypeOK
      <3> QED
        BY <1>i, <2>1, <3>1 DEF SyncPending, Unsynced
    <2>5. /\ \A u \in Units \ {t} : trusted'[u] <=> trusted[u]
          /\ trusted'[t] <=> req[w].fresh
      BY <1>t, <2>3 DEF TypeOK
    <2>6. trusted'[t] => st = IF HasActiveLease(t) THEN "occupied" ELSE "vacant"
      BY <2>2, <2>3, <2>5
    <2>7. Occupancy!Recalculate(t) \/ Occupancy!Disturb(t)
      BY <1>t, <2>3, <2>4, <2>5, <2>6, StatusStep
    <2> QED
      BY <2>7 DEF Occupancy!Next
  <1>7. ASSUME NEW w \in Workers, Abort(w)
        PROVE  UNCHANGED <<Leased, unitStatus, Settled>>
    <2>1. req' = [req EXCEPT ![w] = Idle] /\ UNCHANGED <<leases, unitStatus>>
      BY <1>7 DEF Abort
    <2>2. CASE ~Unsynced(req[w])
      <3>1. \A u \in Units : SyncPending(u)' <=> SyncPending(u)
        BY <1>t, <1>i, <2>1, <2>2, PendingSame
      <3> QED
        BY <1>7, <2>1, <2>2, <3>1, SettledSame, LeasedSame DEF Abort
    <2>3. CASE Unsynced(req[w])
      <3> DEFINE t == req[w].unit
      <3>1. t \in Units /\ trusted' = [trusted EXCEPT ![t] = FALSE]
        BY <1>7, <1>t, <2>3 DEF Abort, BaseInv, ControlOK, OpOf
      <3>2. \A v \in Workers : req'[v] = IF v = w THEN Idle ELSE req[v]
        BY <1>t, <2>1 DEF TypeOK
      <3>3. ASSUME NEW u \in Units
            PROVE  (trusted'[u] /\ ~SyncPending(u)') <=> (trusted[u] /\ ~SyncPending(u))
        <4>1. CASE u = t
          <5>1. SyncPending(u) /\ ~trusted'[u]
            BY <1>t, <2>3, <3>1, <4>1 DEF SyncPending, TypeOK
          <5> QED
            BY <5>1
        <4>2. CASE u # t
          <5>1. SyncPending(u)' <=> SyncPending(u)
            BY <1>i, <3>2, <4>2 DEF SyncPending, Unsynced
          <5>2. trusted'[u] <=> trusted[u]
            BY <1>t, <3>1, <4>2 DEF TypeOK
          <5> QED
            BY <5>1, <5>2
        <4> QED
          BY <4>1, <4>2
      <3>4. Settled' = Settled
        BY <3>3 DEF Settled
      <3> QED
        BY <2>1, <3>4, LeasedSame
    <2> QED
      BY <2>2, <2>3
  <1>8. ASSUME PatchUnitStatus
        PROVE  Occupancy!Next
    <2>1. PICK t \in Units, st \in ManualStatus :
             /\ unitStatus' = [unitStatus EXCEPT ![t] = st]
             /\ trusted' = [trusted EXCEPT ![t] = FALSE]
      BY <1>8 DEF PatchUnitStatus
    <2>2. st \in UnitStatus
      BY InputsAssumption
    <2>3. \A u \in Units : SyncPending(u)' <=> SyncPending(u)
      BY <1>8 DEF PatchUnitStatus, SyncPending
    <2>4. ~trusted'[t] /\ \A u \in Units \ {t} : trusted'[u] <=> trusted[u]
      BY <1>t, <2>1 DEF TypeOK
    <2>5. Occupancy!Recalculate(t) \/ Occupancy!Disturb(t)
      BY <1>8, <1>t, <2>1, <2>2, <2>3, <2>4, StatusStep DEF PatchUnitStatus
    <2> QED
      BY <2>5 DEF Occupancy!Next
  <1>9. ASSUME UNCHANGED <<leases, unitStatus, req, trusted>>
        PROVE  UNCHANGED <<Leased, unitStatus, Settled>>
    BY <1>9 DEF Leased, Settled, HasActiveLease, SyncPending
  <1> QED
    BY <1>1, <1>2, <1>3, <1>4, <1>5, <1>6, <1>7, <1>8, <1>9
    DEF Next, Step, vars, CreateRenewalOffer, RejectRenewalOffer

\* The service implements the abstract occupancy: the status of a unit is
\* vouched for only by a recalculation from the leases as they are, with no
\* other request's still to come.
THEOREM OccupancyRefinement == Spec => ImplementsUnitOccupancy
  <1>1. Init => Occupancy!Init
    <2> SUFFICES ASSUME Init PROVE Occupancy!Init
      OBVIOUS
    <2>1. \A u \in Units : ~HasActiveLease(u) /\ ~SyncPending(u) /\ trusted[u]
      BY DEF Init, HasActiveLease, SyncPending, Unsynced, NoRow, Idle
    <2>2. Leased = [u \in Units |-> FALSE]
      <3>1. ASSUME NEW u \in Units
            PROVE  Leased[u] = FALSE
        <4>1. Leased[u] \in BOOLEAN
          BY DEF Leased, HasActiveLease
        <4>2. Leased[u] <=> HasActiveLease(u)
          BY DEF Leased
        <4> QED
          BY <2>1, <4>1, <4>2
      <3> QED
        BY <3>1 DEF Leased
    <2>3. Settled = [u \in Units |-> TRUE]
      BY <2>1 DEF Settled
    <2> QED
      BY <2>2, <2>3 DEF Init, Occupancy!Init, Leased, Settled
  <1>2. LocalInv /\ [Next]_vars =>
          [Occupancy!Next]_<<[u \in Units |-> HasActiveLease(u)], unitStatus,
                             [u \in Units |-> trusted[u] /\ ~SyncPending(u)]>>
    BY OccupancyNext DEF Leased, Settled
  <1> QED
    BY <1>1, <1>2, LocalInvInit, LocalInvNext, PTL DEF Spec, ImplementsUnitOccupancy, Occupancy!Spec

\* Occupancy is right wherever it is vouched for; the abstract steps keep it so.
LEMMA OccupancyKept ==
    ASSUME LocalInv, OccupancyFollowsLeases, [Next]_vars
    PROVE  OccupancyFollowsLeases'
  <1>1. OccupancyFollowsLeases <=>
          \A u \in Units : Settled[u] => unitStatus[u] = Occupancy!Shown(Leased[u])
    BY DEF OccupancyFollowsLeases, Settled, Leased, Occupancy!Shown
  <1>2. OccupancyFollowsLeases' <=>
          \A u \in Units : Settled'[u] => unitStatus'[u] = Occupancy!Shown(Leased'[u])
    BY DEF OccupancyFollowsLeases, Settled, Leased, Occupancy!Shown
  <1>3. CASE UNCHANGED <<Leased, unitStatus, Settled>>
    BY <1>1, <1>2, <1>3
  <1>4. CASE Occupancy!Next
    <2>1. PICK t \in Units :
             Occupancy!Change(t) \/ Occupancy!Recalculate(t) \/ Occupancy!Disturb(t)
      BY <1>4 DEF Occupancy!Next
    <2>2. /\ unitStatus \in [Units -> UnitStatus]
          /\ Settled = [u \in Units |-> Settled[u]]
          /\ Leased = [u \in Units |-> Leased[u]]
      BY DEF LocalInv, BaseInv, TypeOK, Settled, Leased
    <2>3. ASSUME NEW u \in Units, Settled'[u]
          PROVE  unitStatus'[u] = Occupancy!Shown(Leased'[u])
      <3>1. CASE Occupancy!Change(t)
        <4>1. /\ \E b \in BOOLEAN : Leased' = [Leased EXCEPT ![t] = b]
              /\ Settled' = [Settled EXCEPT ![t] = FALSE]
              /\ unitStatus' = unitStatus
          BY <3>1 DEF Occupancy!Change, Leased, Settled
        <4> QED
          BY <1>1, <2>2, <2>3, <4>1
      <3>2. CASE Occupancy!Recalculate(t)
        <4>1. /\ unitStatus' = [unitStatus EXCEPT ![t] = Occupancy!Shown(Leased[t])]
              /\ Settled' = [Settled EXCEPT ![t] = TRUE]
              /\ Leased' = Leased
          BY <3>2 DEF Occupancy!Recalculate, Leased, Settled
        <4> QED
          BY <1>1, <2>2, <2>3, <4>1
      <3>3. CASE Occupancy!Disturb(t)
        <4>1. /\ \E x \in Occupancy!Status : unitStatus' = [unitStatus EXCEPT ![t] = x]
              /\ Settled' = [Settled EXCEPT ![t] = FALSE]
              /\ Leased' = Leased
          BY <3>3 DEF Occupancy!Disturb, Leased, Settled
        <4> QED
          BY <1>1, <2>2, <2>3, <4>1
      <3> QED
        BY <2>1, <3>1, <3>2, <3>3
    <2> QED
      BY <1>2, <2>3
  <1> QED
    BY <1>3, <1>4, OccupancyNext

\* A unit whose status nobody has disturbed and no request is about to
\* recalculate shows "occupied" exactly when it has an active lease.
THEOREM OccupancyCorrect == Spec => []OccupancyFollowsLeases
  <1>1. Init => OccupancyFollowsLeases
    BY DEF Init, OccupancyFollowsLeases, HasActiveLease, NoRow
  <1>2. LocalInv /\ OccupancyFollowsLeases /\ [Next]_vars => OccupancyFollowsLeases'
    BY OccupancyKept
  <1> QED
    BY <1>1, <1>2, LocalInvInit, LocalInvNext, PTL DEF Spec

-----------------------------------------------------------------------------
(***************************************************************************)
(* Renewals: a request that read an offer as "offered" and the lease it    *)
(* inserts are counted together.                                           *)
(***************************************************************************)
From(o) == {l \in LeaseIds : leases[l].from = o}

\* The requests that found offer o still to be decided, and those of them that
\* have marked it accepted.
Renews(r, o)  == r.op = "accept" /\ r.offer = o /\ r.pc \in {"decide", "update", "insert"}
Decided(r, o) == Renews(r, o) /\ r.pc # "decide"

Renewing(o) == {w \in Workers : Renews(req[w], o)}

Open(o) == offers[o].status \in {"absent", "offered"}

\* What is counted for an offer, and that nothing is while it is open.
Counted(o) ==
    /\ IsFiniteSet(From(o))
    /\ Cardinality(From(o)) + Cardinality(Renewing(o)) <= Cardinality(Workers)
    /\ Open(o) => From(o) = {} /\ \A w \in Workers : ~Decided(req[w], o)

\* The row a request is about to insert comes from the offer it accepted.
InsertsFrom(r) == r.pc = "insert" => r.row.from = IF r.op = "accept" THEN r.offer ELSE None

RenewInv ==
    /\ BaseInv
    /\ \A w \in Workers : InsertsFrom(req[w])
    /\ \A o \in OfferIds : Counted(o)

LEMMA RenewingFinite ==
    \A o : /\ IsFiniteSet(Renewing(o)) /\ Cardinality(Renewing(o)) \in Nat
           /\ Cardinality(Renewing(o)) <= Cardinality(Workers)
           /\ Cardinality(Workers) \in Nat
  <1> TAKE o
  <1>1. Renewing(o) \in SUBSET Workers
    BY DEF Renewing
  <1> QED
    BY <1>1, WorkersAssumption, FS_Subset, FS_CardinalityType

LEMMA RenewInit == Init => RenewInv
  <1> SUFFICES ASSUME Init PROVE RenewInv
    OBVIOUS
  <1>1. \A w \in Workers : InsertsFrom(req[w])
    BY DEF Init, Idle, InsertsFrom
  <1>2. ASSUME NEW o \in OfferIds PROVE Counted(o)
    <2>1. From(o) = {}
      BY ValuesAssumption DEF Init, NoRow, From
    <2>2. \A w \in Workers : ~Renews(req[w], o)
      BY DEF Init, Idle, Renews
    <2>3. Cardinality(From(o)) = 0 /\ IsFiniteSet(From(o))
      BY <2>1, FS_EmptySet
    <2> QED
      BY <2>1, <2>2, <2>3, RenewingFinite DEF Counted, Decided
  <1> QED
    BY <1>1, <1>2, BaseInit DEF RenewInv

\* A step after which no more is counted than before.
LEMMA CountedNoMore ==
    ASSUME NEW o \in OfferIds, Counted(o), From(o)' \subseteq From(o),
           \A w \in Workers : Renews(req[w], o)' => Renews(req[w], o),
           Open(o)' => Open(o) /\ \A w \in Workers : Decided(req[w], o)' => Decided(req[w], o)
    PROVE  Counted(o)'
  <1>1. IsFiniteSet(From(o)') /\ Cardinality(From(o)') <= Cardinality(From(o))
    BY FS_Subset DEF Counted
  <1>2. IsFiniteSet(Renewing(o)') /\ Cardinality(Renewing(o)') <= Cardinality(Renewing(o))
    <2>1. Renewing(o)' \in SUBSET Renewing(o)
      BY DEF Renewing
    <2> QED
      BY <2>1, RenewingFinite, FS_Subset
  <1>3. /\ Cardinality(From(o)) \in Nat /\ Cardinality(From(o)') \in Nat
        /\ Cardinality(Renewing(o)') \in Nat
    BY <1>1, <1>2, FS_CardinalityType DEF Counted
  <1>4. Cardinality(From(o)') + Cardinality(Renewing(o)') <= Cardinality(Workers)
    BY <1>1, <1>2, <1>3, RenewingFinite DEF Counted
  <1> QED
    BY <1>1, <1>4 DEF Counted

\* A step of one request that writes no lease and leaves its offer open or not,
\* as it was.
LEMMA RenewLocal ==
    ASSUME RenewInv, NEW w \in Workers, NEW r,
           req' = [req EXCEPT ![w] = r], UNCHANGED leases,
           \A o \in OfferIds : Open(o)' => Open(o),
           InsertsFrom(r),
           \A o \in OfferIds : Renews(r, o) => Renews(req[w], o),
           \A o \in OfferIds : Open(o)' /\ Decided(r, o) => Decided(req[w], o)
    PROVE  (\A v \in Workers : InsertsFrom(req[v]))' /\ (\A o \in OfferIds : Counted(o))'
  <1>1. \A v \in Workers : req'[v] = IF v = w THEN r ELSE req[v]
    BY DEF RenewInv, BaseInv, TypeOK
  <1>2. \A v \in Workers : InsertsFrom(req'[v])
    BY <1>1 DEF RenewInv
  <1>3. ASSUME NEW o \in OfferIds PROVE Counted(o)'
    <2>1. From(o)' = From(o)
      BY DEF From
    <2>2. \A v \in Workers : Renews(req'[v], o) => Renews(req[v], o)
      BY <1>1
    <2>3. Open(o)' => Open(o) /\ \A v \in Workers : Decided(req'[v], o) => Decided(req[v], o)
      BY <1>1
    <2> QED
      BY <2>1, <2>2, <2>3, CountedNoMore DEF RenewInv
  <1> QED
    BY <1>2, <1>3

\* What other requests hold of an offer is not touched by a write of a lease.
LEMMA RenewOthers ==
    ASSUME TypeOK, NEW w \in Workers, NEW u, NEW r, req' = AfterLeaseWrite(w, u, r)
    PROVE  /\ req'[w] = r
           /\ \A v \in Workers : v # w => req'[v].op = req[v].op /\ req'[v].pc = req[v].pc
                                          /\ req'[v].offer = req[v].offer
                                          /\ req'[v].row = req[v].row
  <1>1. \A v \in Workers : req[v] \in Request
    BY DEF TypeOK
  <1> QED
    BY <1>1 DEF AfterLeaseWrite, Request

\* An UPDATE leaves the origin of the row alone.
LEMMA UpdateRenews ==
    ASSUME RenewInv, NEW w \in Workers, UpdateLease(w)
    PROVE  (\A v \in Workers : InsertsFrom(req[v]))' /\ (\A o \in OfferIds : Counted(o))'
  <1> DEFINE rest == IF req[w].op = "accept"
                     THEN [req[w] EXCEPT !.pc = "insert", !.upd = NoUpdate,
                                         !.row = RenewedLease(req[w].unit, req[w].offer)]
                     ELSE Syncing(req[w])
  <1>1. /\ req' = AfterLeaseWrite(w, req[w].unit, rest) /\ UNCHANGED offers
        /\ req[w].pc = "update" /\ req[w] \in Request
        /\ leases' = [leases EXCEPT ![req[w].lease] = Updated(leases[req[w].lease], req[w])]
    BY DEF UpdateLease, RenewInv, BaseInv, TypeOK
  <1>2. /\ rest.op = req[w].op
        /\ rest.op = "accept" => /\ rest.pc = "insert" /\ rest.offer = req[w].offer
                                 /\ rest.row.from = req[w].offer
        /\ rest.op # "accept" => rest.pc = "count"
    BY <1>1 DEF Syncing, Idle, RenewedLease, Request
  <1> HIDE DEF rest
  <1>3. \A v \in Workers : v # w => req'[v].op = req[v].op /\ req'[v].pc = req[v].pc
                                    /\ req'[v].offer = req[v].offer /\ req'[v].row = req[v].row
    BY <1>1, RenewOthers DEF RenewInv, BaseInv
  <1>4. req'[w] = rest
    BY <1>1, RenewOthers DEF RenewInv, BaseInv
  <1>5. \A v \in Workers : InsertsFrom(req'[v])
    <2> TAKE v \in Workers
    <2>1. CASE v = w
      BY <1>2, <1>4, <2>1 DEF InsertsFrom
    <2>2. CASE v # w
      BY <1>3, <2>2 DEF InsertsFrom, RenewInv
    <2> QED
      BY <2>1, <2>2
  <1>6. ASSUME NEW o \in OfferIds PROVE Counted(o)'
    <2>1. From(o)' = From(o)
      <3>1. ASSUME NEW l \in LeaseIds PROVE leases'[l].from = leases[l].from
        <4>1. leases[l] \in Row
          BY DEF RenewInv, BaseInv, TypeOK
        <4>2. Updated(leases[l], req[w]).from = leases[l].from
          BY <4>1 DEF Updated, Apply, Row
        <4> QED
          BY <1>1, <4>2 DEF RenewInv, BaseInv, TypeOK
      <3> QED
        BY <3>1 DEF From
    <2>2. ASSUME NEW v \in Workers
          PROVE  /\ Renews(req'[v], o) => Renews(req[v], o)
                 /\ Decided(req'[v], o) => Decided(req[v], o)
      <3>1. CASE v = w
        BY <1>1, <1>2, <1>4, <3>1 DEF Renews, Decided
      <3>2. CASE v # w
        BY <1>3, <3>2 DEF Renews, Decided
      <3> QED
        BY <3>1, <3>2
    <2>3. Open(o)' => Open(o)
      BY <1>1 DEF Open
    <2> QED
      BY <2>1, <2>2, <2>3, CountedNoMore DEF RenewInv
  <1> QED
    BY <1>5, <1>6

\* An INSERT turns one request that renews into one lease.
LEMMA InsertRenews ==
    ASSUME RenewInv, NEW w \in Workers, InsertLease(w)
    PROVE  (\A v \in Workers : InsertsFrom(req[v]))' /\ (\A o \in OfferIds : Counted(o))'
  <1>1. PICK k \in LeaseIds : leases' = [leases EXCEPT ![k] = Inserted(req[w])]
    BY DEF InsertLease
  <1>2. /\ req' = AfterLeaseWrite(w, req[w].unit, Syncing(req[w])) /\ UNCHANGED offers
        /\ req[w].pc = "insert" /\ req[w] \in Request
    BY DEF InsertLease, RenewInv, BaseInv, TypeOK
  <1>3. /\ \A v \in Workers : v # w => req'[v].op = req[v].op /\ req'[v].pc = req[v].pc
                                       /\ req'[v].offer = req[v].offer /\ req'[v].row = req[v].row
        /\ req'[w].pc = "count"
    <2>1. Syncing(req[w]).pc = "count"
      BY DEF Syncing, Idle
    <2> QED
      BY <1>2, <2>1, RenewOthers DEF RenewInv, BaseInv
  <1>4. leases'[k].from = IF req[w].op = "accept" THEN req[w].offer ELSE None
    <2>1. Inserted(req[w]).from = req[w].row.from
      BY <1>2 DEF Inserted, Request, Row
    <2>2. leases'[k] = Inserted(req[w])
      BY <1>1 DEF RenewInv, BaseInv, TypeOK
    <2> QED
      BY <1>2, <2>1, <2>2 DEF RenewInv, InsertsFrom
  <1>5. \A l \in LeaseIds : l # k => leases'[l] = leases[l]
    BY <1>1 DEF RenewInv, BaseInv, TypeOK
  <1>6. \A v \in Workers : InsertsFrom(req'[v])
    BY <1>3 DEF InsertsFrom, RenewInv
  <1>7. ASSUME NEW o \in OfferIds,
               \A v \in Workers : v # w => (Renews(req'[v], o) <=> Renews(req[v], o)),
               \A v \in Workers : v # w => (Decided(req'[v], o) <=> Decided(req[v], o)),
               ~Renews(req'[w], o)
        PROVE  Counted(o)'
    <2>0. Open(o)' => Open(o)
      BY <1>2 DEF Open
    <2>1. CASE ~Renews(req[w], o)
      <3>1. From(o)' \subseteq From(o)
        BY <1>2, <1>4, <1>5, <2>1, ValuesAssumption DEF From, Renews
      <3> QED
        BY <1>7, <2>0, <3>1, CountedNoMore DEF Decided, RenewInv
    <2>2. CASE Renews(req[w], o)
      <3>1. ~Open(o) /\ ~Open(o)'
        BY <1>2, <2>0, <2>2 DEF RenewInv, Counted, Decided
      <3>2. From(o)' \subseteq From(o) \cup {k}
        BY <1>5 DEF From
      <3>3. Renewing(o)' = Renewing(o) \ {w} /\ w \in Renewing(o)
        BY <1>7, <2>2 DEF Renewing
      <3>4. /\ IsFiniteSet(From(o)) /\ Cardinality(From(o)) \in Nat
            /\ Cardinality(From(o)) + Cardinality(Renewing(o)) <= Cardinality(Workers)
        BY FS_CardinalityType DEF RenewInv, Counted
      <3>5. IsFiniteSet(From(o)') /\ Cardinality(From(o)') <= Cardinality(From(o)) + 1
        <4>1. /\ IsFiniteSet(From(o) \cup {k})
              /\ Cardinality(From(o) \cup {k}) <= Cardinality(From(o)) + 1
          <5>1. /\ IsFiniteSet(From(o) \cup {k})
                /\ Cardinality(From(o) \cup {k}) =
                      IF k \in From(o) THEN Cardinality(From(o)) ELSE Cardinality(From(o)) + 1
            BY <3>4, FS_AddElement
          <5> QED
            BY <3>4, <5>1
        <4>2. /\ IsFiniteSet(From(o)')
              /\ Cardinality(From(o)') <= Cardinality(From(o) \cup {k})
          BY <3>2, <4>1, FS_Subset
        <4>3. Cardinality(From(o)') \in Nat /\ Cardinality(From(o) \cup {k}) \in Nat
          BY <4>1, <4>2, FS_CardinalityType
        <4> QED
          BY <3>4, <4>1, <4>2, <4>3
      <3>6. Cardinality(Renewing(o)') = Cardinality(Renewing(o)) - 1
        BY <3>3, RenewingFinite, FS_RemoveElement
      <3>7. Cardinality(From(o)') \in Nat
        BY <3>5, FS_CardinalityType
      <3>8. Cardinality(From(o)') + Cardinality(Renewing(o)') <= Cardinality(Workers)
        BY <3>4, <3>5, <3>6, <3>7, RenewingFinite
      <3> QED
        BY <3>1, <3>5, <3>8 DEF Counted
    <2> QED
      BY <2>1, <2>2
  <1>8. ASSUME NEW o \in OfferIds
        PROVE  /\ \A v \in Workers : v # w => (Renews(req'[v], o) <=> Renews(req[v], o))
               /\ \A v \in Workers : v # w => (Decided(req'[v], o) <=> Decided(req[v], o))
               /\ ~Renews(req'[w], o)
    BY <1>3 DEF Renews, Decided
  <1> QED
    BY <1>6, <1>7, <1>8

\* A request that reads an offer as "offered" is one more that renews it, and
\* nothing has come of the offer so far.
LEMMA ReadOfferRenews ==
    ASSUME RenewInv, NEW w \in Workers, AcceptReadOffer(w)
    PROVE  (\A v \in Workers : InsertsFrom(req[v]))' /\ (\A o \in OfferIds : Counted(o))'
  <1>1. req[w] \in Request /\ req[w].pc = "offer" /\ UNCHANGED <<leases, offers>>
    BY DEF AcceptReadOffer, RenewInv, BaseInv, TypeOK
  <1>2. CASE offers[req[w].offer].status # "offered"
    <2>1. req' = [req EXCEPT ![w] = Idle]
      BY <1>2 DEF AcceptReadOffer
    <2>2. InsertsFrom(Idle) /\ \A o \in OfferIds : ~Renews(Idle, o) /\ ~Decided(Idle, o)
      BY DEF Idle, InsertsFrom, Renews, Decided
    <2> QED
      BY <1>1, <2>1, <2>2, RenewLocal DEF Open
  <1>3. CASE offers[req[w].offer].status = "offered"
    <2>1. req' = [req EXCEPT ![w].pc = "decide"]
      BY <1>3 DEF AcceptReadOffer
    <2>2. /\ \A v \in Workers : v # w => req'[v] = req[v]
          /\ req'[w].pc = "decide" /\ req'[w].offer = req[w].offer
      BY <1>1, <2>1 DEF RenewInv, BaseInv, TypeOK, Request
    <2>3. \A v \in Workers : InsertsFrom(req'[v])
      BY <2>2 DEF InsertsFrom, RenewInv
    <2>4. ASSUME NEW o \in OfferIds PROVE Counted(o)'
      <3>0. From(o)' = From(o) /\ (Open(o)' <=> Open(o))
        BY <1>1 DEF From, Open
      <3>1. CASE o # req[w].offer
        <4>1. \A v \in Workers : Renews(req'[v], o) => Renews(req[v], o)
          BY <2>2, <3>1 DEF Renews
        <4>2. \A v \in Workers : Decided(req'[v], o) => Decided(req[v], o)
          BY <2>2, <3>1 DEF Renews, Decided
        <4> QED
          BY <3>0, <4>1, <4>2, CountedNoMore DEF RenewInv
      <3>2. CASE o = req[w].offer
        <4>1. Open(o)
          BY <1>3, <3>2 DEF Open
        <4>2. From(o)' = {} /\ \A v \in Workers : ~Decided(req'[v], o)
          BY <2>2, <3>0, <4>1 DEF RenewInv, Counted, Decided, Renews
        <4>3. Cardinality(From(o)') = 0 /\ IsFiniteSet(From(o)')
          BY <4>2, FS_EmptySet
        <4>4. /\ Cardinality(Renewing(o)') \in Nat
              /\ Cardinality(Renewing(o)') <= Cardinality(Workers)
          <5>1. Renewing(o)' \in SUBSET Workers
            BY DEF Renewing
          <5> QED
            BY <5>1, WorkersAssumption, FS_Subset, FS_CardinalityType
        <4>5. Cardinality(From(o)') + Cardinality(Renewing(o)') <= Cardinality(Workers)
          BY <4>3, <4>4, RenewingFinite
        <4> QED
          BY <4>2, <4>3, <4>5 DEF Counted
      <3> QED
        BY <3>1, <3>2
    <2> QED
      BY <2>3, <2>4
  <1> QED
    BY <1>2, <1>3

\* Every step counts no more than the requests there are.
LEMMA RenewNext == RenewInv /\ [Next]_vars => RenewInv'
  <1> SUFFICES ASSUME RenewInv, [Next]_vars
               PROVE  (\A v \in Workers : InsertsFrom(req[v]))' /\ (\A o \in OfferIds : Counted(o))'
    BY BaseNext DEF RenewInv
  <1>t. TypeOK
    BY DEF RenewInv, BaseInv
  <1>1. CASE \E w \in Workers : UpdateLease(w) \/ InsertLease(w) \/ AcceptReadOffer(w)
    BY <1>1, UpdateRenews, InsertRenews, ReadOfferRenews
  <1>2. ASSUME NEW w \in Workers,
               \/ CreateLease(w) \/ PatchLoad(w) \/ EndLease(w) \/ Decide(w) \/ Closeout(w)
               \/ AcceptLoad(w)
        PROVE  \E r : /\ req' = [req EXCEPT ![w] = r] /\ UNCHANGED <<leases, offers>>
                      /\ InsertsFrom(r) /\ \A o \in OfferIds : ~Renews(r, o)
    <2>1. CASE CreateLease(w)
      <3>1. /\ req' = [req EXCEPT ![w] = req'[w]] /\ UNCHANGED <<leases, offers>>
            /\ req'[w].op = "create" /\ req'[w].row.from = None
        BY <1>t, <2>1 DEF CreateLease, Idle, NoRow, TypeOK
      <3> QED
        BY <3>1 DEF InsertsFrom, Renews
    <2>2. CASE PatchLoad(w)
      <3>1. /\ req' = [req EXCEPT ![w] = req'[w]] /\ UNCHANGED <<leases, offers>>
            /\ req'[w].op = "patch" /\ req'[w].pc = "check"
        BY <1>t, <2>2 DEF PatchLoad, Loaded, Idle, TypeOK
      <3> QED
        BY <3>1 DEF InsertsFrom, Renews
    <2>3. CASE EndLease(w)
      <3>1. /\ req' = [req EXCEPT ![w] = req'[w]] /\ UNCHANGED <<leases, offers>>
            /\ req'[w].op = "end" /\ req'[w].pc = "update"
        BY <1>t, <2>3 DEF EndLease, Loaded, Idle, TypeOK
      <3> QED
        BY <3>1 DEF InsertsFrom, Renews
    <2>4. CASE Decide(w)
      <3>1. /\ req' = [req EXCEPT ![w] = req'[w]] /\ UNCHANGED <<leases, offers>>
            /\ req'[w].op = "decide" /\ req'[w].pc = "update"
        BY <1>t, <2>4 DEF Decide, Loaded, Idle, TypeOK
      <3> QED
        BY <3>1 DEF InsertsFrom, Renews
    <2>5. CASE Closeout(w)
      <3>1. /\ req' = [req EXCEPT ![w] = req'[w]] /\ UNCHANGED <<leases, offers>>
            /\ req'[w].op = "closeout" /\ req'[w].pc = "update"
        BY <1>t, <2>5 DEF Closeout, Loaded, Idle, TypeOK
      <3> QED
        BY <3>1 DEF InsertsFrom, Renews
    <2>6. CASE AcceptLoad(w)
      <3>1. /\ req' = [req EXCEPT ![w] = req'[w]] /\ UNCHANGED <<leases, offers>>
            /\ req'[w].pc = "offer"
        BY <1>t, <2>6 DEF AcceptLoad, Loaded, Idle, TypeOK
      <3> QED
        BY <3>1 DEF InsertsFrom, Renews
    <2> QED
      BY <1>2, <2>1, <2>2, <2>3, <2>4, <2>5, <2>6
  <1>3. ASSUME NEW w \in Workers, SetUnitStatus(w) \/ Abort(w)
        PROVE  req' = [req EXCEPT ![w] = Idle] /\ UNCHANGED <<leases, offers>>
    BY <1>3 DEF SetUnitStatus, Abort
  <1>4. InsertsFrom(Idle) /\ \A o \in OfferIds : ~Renews(Idle, o)
    BY DEF Idle, InsertsFrom, Renews
  <1>5. ASSUME NEW w \in Workers, PatchCheck(w)
        PROVE  \E r : /\ req' = [req EXCEPT ![w] = r] /\ UNCHANGED <<leases, offers>>
                      /\ InsertsFrom(r) /\ \A o \in OfferIds : ~Renews(r, o)
    <2>1. req[w] \in Request /\ req[w].op = "patch"
      BY <1>5 DEF PatchCheck, RenewInv, BaseInv, TypeOK, ControlOK, OpOf
    <2> DEFINE r == [req[w] EXCEPT !.pc = "update", !.row = NoRow]
    <2>2. r.op = "patch" /\ r.pc = "update"
      BY <2>1 DEF Request
    <2>3. req' = [req EXCEPT ![w] = r] \/ req' = [req EXCEPT ![w] = Idle]
      BY <1>5 DEF PatchCheck
    <2> HIDE DEF r
    <2>4. InsertsFrom(r) /\ \A o \in OfferIds : ~Renews(r, o)
      BY <2>2 DEF InsertsFrom, Renews
    <2> QED
      BY <1>4, <1>5, <2>3, <2>4 DEF PatchCheck
  <1>6. ASSUME NEW w \in Workers, CountActiveLeasesOnUnit(w)
        PROVE  \E r : /\ req' = [req EXCEPT ![w] = r] /\ UNCHANGED <<leases, offers>>
                      /\ InsertsFrom(r) /\ \A o \in OfferIds : ~Renews(r, o)
    <2> DEFINE r == [req[w] EXCEPT !.pc = "set", !.fresh = TRUE,
                                   !.leased = HasActiveLease(req[w].unit)]
    <2>1. req[w] \in Request
      BY DEF RenewInv, BaseInv, TypeOK
    <2>2. r.pc = "set"
      BY <2>1 DEF Request
    <2>3. req' = [req EXCEPT ![w] = r]
      BY <1>6, <2>1 DEF CountActiveLeasesOnUnit
    <2> HIDE DEF r
    <2>4. InsertsFrom(r) /\ \A o \in OfferIds : ~Renews(r, o)
      BY <2>2 DEF InsertsFrom, Renews
    <2> QED
      BY <1>6, <2>3, <2>4 DEF CountActiveLeasesOnUnit
  <1>7. CASE \E w \in Workers :
               \/ CreateLease(w) \/ PatchLoad(w) \/ EndLease(w) \/ Decide(w) \/ Closeout(w)
               \/ AcceptLoad(w) \/ PatchCheck(w) \/ CountActiveLeasesOnUnit(w)
               \/ SetUnitStatus(w) \/ Abort(w)
    <2>1. PICK w, r : /\ w \in Workers /\ UNCHANGED <<leases, offers>>
                      /\ req' = [req EXCEPT ![w] = r]
                      /\ InsertsFrom(r) /\ \A o \in OfferIds : ~Renews(r, o)
      BY <1>2, <1>3, <1>4, <1>5, <1>6, <1>7
    <2> QED
      BY <2>1, RenewLocal DEF Open, Decided
  <1>8. ASSUME NEW w \in Workers, AcceptDecideOffer(w)
        PROVE  (\A v \in Workers : InsertsFrom(req[v]))' /\ (\A o \in OfferIds : Counted(o))'
    <2> DEFINE start == offers[req[w].offer].start
               lastDay == IF start > req[w].row.start THEN start - 1 ELSE Keep
               r == [req[w] EXCEPT !.pc = "update", !.row = NoRow,
                         !.upd = [NoUpdate EXCEPT !.status = "ended", !.end = lastDay]]
    <2>1. /\ offers' = [offers EXCEPT ![req[w].offer].status = "accepted"]
          /\ req' = [req EXCEPT ![w] = r] /\ UNCHANGED leases /\ req[w].pc = "decide"
      BY <1>8 DEF AcceptDecideOffer
    <2> HIDE DEF lastDay
    <2>2. /\ r.op = req[w].op /\ r.pc = "update" /\ r.offer = req[w].offer
          /\ req[w].op = "accept" /\ req[w].offer \in OfferIds
      BY <2>1 DEF RenewInv, BaseInv, TypeOK, Request, ControlOK, OpOf
    <2>3. req' = [req EXCEPT ![w] = r]
      BY <2>1
    <2> HIDE DEF r
    <2>4. InsertsFrom(r) /\ \A o \in OfferIds : Renews(r, o) => Renews(req[w], o)
      BY <2>1, <2>2 DEF InsertsFrom, Renews
    <2>5. /\ offers'[req[w].offer].status = "accepted"
          /\ \A o \in OfferIds : o # req[w].offer => offers'[o] = offers[o]
      BY <2>1, <2>2 DEF RenewInv, BaseInv, TypeOK, Offer
    <2>6. \A o \in OfferIds : Open(o)' => Open(o) /\ o # req[w].offer
      BY <2>5 DEF Open
    <2>7. \A o \in OfferIds : Open(o)' /\ Decided(r, o) => Decided(req[w], o)
      BY <2>2, <2>6 DEF Decided, Renews
    <2> QED
      BY <2>1, <2>3, <2>4, <2>6, <2>7, RenewLocal
  <1>9. ASSUME NEW w \in Workers, AcceptUpdateFails(w)
        PROVE  (\A v \in Workers : InsertsFrom(req[v]))' /\ (\A o \in OfferIds : Counted(o))'
    <2> DEFINE r == [req[w] EXCEPT !.pc = "insert", !.upd = NoUpdate,
                                   !.row = RenewedLease(req[w].unit, req[w].offer)]
    <2>1. /\ req' = [req EXCEPT ![w] = r] /\ UNCHANGED <<leases, offers>>
          /\ req[w].op = "accept" /\ req[w].pc = "update" /\ req[w] \in Request
      BY <1>9 DEF AcceptUpdateFails, RenewInv, BaseInv, TypeOK
    <2>2. /\ r.op = "accept" /\ r.pc = "insert" /\ r.offer = req[w].offer
          /\ r.row.from = req[w].offer
      BY <2>1 DEF Request, RenewedLease
    <2> HIDE DEF r
    <2>3. /\ InsertsFrom(r)
          /\ \A o \in OfferIds : /\ Renews(r, o) => Renews(req[w], o)
                                 /\ Decided(r, o) => Decided(req[w], o)
      BY <2>1, <2>2 DEF InsertsFrom, Renews, Decided
    <2> QED
      BY <2>1, <2>3, RenewLocal DEF Open
  <1>10. CASE UNCHANGED <<leases, req>> /\ \A o \in OfferIds : Open(o)' => Open(o)
    BY <1>10, CountedNoMore DEF RenewInv, InsertsFrom, From, Renews, Decided
  <1>11. CASE CreateRenewalOffer \/ RejectRenewalOffer \/ PatchUnitStatus \/ UNCHANGED vars
    <2>1. UNCHANGED <<leases, req>>
      BY <1>11 DEF CreateRenewalOffer, RejectRenewalOffer, PatchUnitStatus, vars
    <2>5. ASSUME NEW o \in OfferIds, Open(o)' PROVE Open(o)
      <3>1. offers[o] \in Offer
        BY <1>t DEF TypeOK
      <3>2. CASE CreateRenewalOffer
        BY <1>t, <2>5, <3>2 DEF CreateRenewalOffer, Open, TypeOK
      <3>3. CASE RejectRenewalOffer
        <4>1. PICK a \in OfferIds : offers' = [offers EXCEPT ![a].status = "rejected"]
          BY <3>3 DEF RejectRenewalOffer
        <4>2. offers'[o] = offers[o] \/ offers'[o].status = "rejected"
          BY <1>t, <3>1, <4>1 DEF TypeOK, Offer
        <4> QED
          BY <2>5, <4>2 DEF Open
      <3>4. CASE PatchUnitStatus \/ UNCHANGED vars
        BY <2>5, <3>4 DEF PatchUnitStatus, vars, Open
      <3> QED
        BY <1>11, <3>2, <3>3, <3>4
    <2> QED
      BY <1>10, <2>1, <2>5
  <1> QED
    BY <1>1, <1>7, <1>8, <1>9, <1>11 DEF Next, Step

\* An offer is renewed into no more leases than there are requests, whatever
\* is accepted, rejected, retried or cut off in between.
THEOREM RenewalsCorrect == Spec => []RenewalsBounded
  <1>1. RenewInv => RenewalsBounded
    <2> SUFFICES ASSUME RenewInv, NEW o \in OfferIds
                 PROVE  Cardinality(From(o)) <= Cardinality(Workers)
      BY DEF RenewalsBounded, From
    <2>1. Cardinality(From(o)) \in Nat
      BY FS_CardinalityType DEF RenewInv, Counted
    <2> QED
      BY <2>1, RenewingFinite DEF RenewInv, Counted
  <1> QED
    BY <1>1, RenewInit, RenewNext, PTL DEF Spec
=============================================================================
