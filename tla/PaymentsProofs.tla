--------------------------- MODULE PaymentsProofs ---------------------------
(***************************************************************************)
(* Proofs about Payments, for every number of requests and payments and    *)
(* every set of references, order states and callback kinds.               *)
(*                                                                         *)
(* Two facts carry the proof.  A row carries the references of at most one *)
(* order, and one that Initiate inserted only its own (RowsOK, OneOrder).  *)
(* And a status, stored or about to be, is the one its row was inserted    *)
(* with or one that the row's order had, unless it is an unbacked          *)
(* callback's (Accounted); nothing undoes that, because rows keep their    *)
(* order and orders keep their past (Kept).                                *)
(***************************************************************************)
EXTENDS Payments, TLAPS

-----------------------------------------------------------------------------
(***************************************************************************)
(* The inductive invariant.                                                *)
(***************************************************************************)
RowsOK ==
    \A p \in Ids :
        /\ Exists(p) /\ payments[p].tracking # None => payments[p].tracking = payments[p].ref
        /\ Exists(p) /\ ~payments[p].manual =>
              \/ payments[p].ref = p /\ payments[p].tracking = p
              \/ payments[p].ref \in Placeholders /\ payments[p].tracking = None
        /\ payments[p].manual => Exists(p)

OrdersOK ==
    \A o \in Ids : orders[o].now # "none" =>
        /\ orders[o].now \in orders[o].past
        /\ Exists(o) /\ ~payments[o].manual

\* A manual payment became the gateway's by the references of a placed order.
ProvidersOK ==
    \A p \in Ids : payments[p].manual /\ payments[p].provider # "manual" =>
        \E o \in Ids : /\ payments[p].ref = o /\ payments[p].tracking = o
                       /\ orders[o].now # "none"

\* A status that the order of a row had.
Told(p, status) ==
    \E o \in Ids : /\ p \in RowsOf(o)
                   /\ \E s \in orders[o].past : status = StatusOfOrder(s)

Accounted(p, status) ==
    \/ status = (IF payments[p].manual THEN "completed" ELSE "pending")
    \/ Told(p, status)

StatusAccounted ==
    \A p \in Ids : Exists(p) /\ ~unbacked[p] => Accounted(p, payments[p].status)

\* What a request holds at each of its statements.
Submitting(r) ==
    r.pc \in {"submit", "store"} =>
        /\ r.order \in Ids /\ r.row = r.order
        /\ Exists(r.row) /\ ~payments[r.row].manual

Asking(r) ==
    r.pc = "find" => /\ r.op = "status" /\ r.order \in Ids /\ ~r.unbacked
                     /\ r.answer \in orders[r.order].past
                     /\ orders[r.order].now # "none"

Writing(r) ==
    r.pc \in {"write", "link"} =>
        /\ r.row \in Ids /\ Exists(r.row)
        /\ r.pc = "link" => r.op = "status"
        /\ r.op = "status" => /\ r.order \in Ids /\ r.row \in RowsOf(r.order)
                              /\ orders[r.order].now # "none"
        /\ ~r.unbacked => Accounted(r.row, r.status)

Holds(r) == Submitting(r) /\ Asking(r) /\ Writing(r)

RequestsOK == \A w \in Workers : Holds(req[w])

AccountInv ==
    TypeOK /\ RowsOK /\ OrdersOK /\ ProvidersOK /\ StatusAccounted /\ RequestsOK

-----------------------------------------------------------------------------
(***************************************************************************)
(* What steps do to the tables and to the gateway's orders.                *)
(***************************************************************************)

\* The request at rest and the row not in use are typed.
LEMMA IdleType == Idle \in Request /\ NoRow \in Row
  BY ValuesAssumption DEF Idle, Request, PaymentStatus, NoRow, Row

\* A request at its next statement.
LEMMA Advanced ==
    ASSUME NEW q \in Request, NEW pc \in {"idle", "submit", "store", "find", "write", "link"}
    PROVE  /\ [q EXCEPT !.pc = pc] \in Request
           /\ [q EXCEPT !.pc = pc].pc = pc
           /\ [q EXCEPT !.pc = pc].op = q.op
           /\ [q EXCEPT !.pc = pc].row = q.row
           /\ [q EXCEPT !.pc = pc].order = q.order
           /\ [q EXCEPT !.pc = pc].status = q.status
           /\ [q EXCEPT !.pc = pc].fresh = q.fresh
           /\ [q EXCEPT !.pc = pc].unbacked = q.unbacked
  <1>1. /\ [q EXCEPT !.pc = pc] \in Request
        /\ [q EXCEPT !.pc = pc].pc = pc
        /\ [q EXCEPT !.pc = pc].op = q.op
        /\ [q EXCEPT !.pc = pc].row = q.row
        /\ [q EXCEPT !.pc = pc].order = q.order
        /\ [q EXCEPT !.pc = pc].status = q.status
    BY DEF Request
  <1>2. [q EXCEPT !.pc = pc].fresh = q.fresh
    BY DEF Request
  <1>3. [q EXCEPT !.pc = pc].unbacked = q.unbacked
    BY DEF Request
  <1> QED
    BY <1>1, <1>2, <1>3

\* The order a row matches is its reference, so there is at most one, and the
\* order of a payment that Initiate inserted is its own.
LEMMA OneOrder ==
    ASSUME RowsOK, NEW p \in Ids, NEW o \in Ids, p \in RowsOf(o)
    PROVE  /\ payments[p].ref = o /\ Exists(p)
           /\ ~payments[p].manual => p = o /\ payments[p].tracking = p
  BY ValuesAssumption, InputsAssumption DEF RowsOK, RowsOf, Matching

\* An INSERT.
LEMMA Inserted ==
    ASSUME TypeOK, NEW p \in Ids, NEW row \in Row, payments' = [payments EXCEPT ![p] = row]
    PROVE  /\ payments' \in [Ids -> Row]
           /\ payments'[p] = row
           /\ \A q \in Ids : q # p => payments'[q] = payments[q]
  BY DEF TypeOK

\* UpdateGatewayState.
LEMMA LinkedRow ==
    ASSUME TypeOK, NEW p \in Ids, NEW o \in Ids, payments' = LinkRow(p, o)
    PROVE  /\ payments' \in [Ids -> Row]
           /\ \A q \in Ids : q # p => payments'[q] = payments[q]
           /\ payments'[p].ref = o /\ payments'[p].tracking = o
           /\ payments'[p].provider = "pesapal"
           /\ payments'[p].status = payments[p].status
           /\ payments'[p].manual = payments[p].manual
  <1> DEFINE row == [payments[p] EXCEPT !.provider = "pesapal", !.ref = o, !.tracking = o]
  <1>1. payments \in [Ids -> Row] /\ payments[p] \in Row
    BY DEF TypeOK
  <1>2. payments' = [payments EXCEPT ![p] = row]
    BY <1>1 DEF LinkRow
  <1>3. /\ row \in Row /\ row.ref = o /\ row.tracking = o /\ row.provider = "pesapal"
        /\ row.status = payments[p].status /\ row.manual = payments[p].manual
    BY <1>1 DEF Row
  <1> HIDE DEF row
  <1> QED
    BY <1>2, <1>3, Inserted

\* UpdateFromIPN.
LEMMA StatusWritten ==
    ASSUME TypeOK, NEW p \in Ids, NEW status \in PaymentStatus,
           payments' = [payments EXCEPT ![p].status = status]
    PROVE  /\ payments' \in [Ids -> Row]
           /\ \A q \in Ids : q # p => payments'[q] = payments[q]
           /\ payments'[p].status = status
           /\ payments'[p].ref = payments[p].ref
           /\ payments'[p].tracking = payments[p].tracking
           /\ payments'[p].provider = payments[p].provider
           /\ payments'[p].manual = payments[p].manual
  <1> DEFINE row == [payments[p] EXCEPT !.status = status]
  <1>1. payments \in [Ids -> Row] /\ payments[p] \in Row
    BY DEF TypeOK
  <1>2. payments' = [payments EXCEPT ![p] = row]
    BY <1>1
  <1>3. /\ row \in Row /\ row.status = status /\ row.ref = payments[p].ref
        /\ row.tracking = payments[p].tracking /\ row.provider = payments[p].provider
        /\ row.manual = payments[p].manual
    BY <1>1 DEF Row
  <1> HIDE DEF row
  <1> QED
    BY <1>2, <1>3, Inserted

\* An order changes.
LEMMA MovedOrder ==
    ASSUME TypeOK, NEW o \in Ids, NEW to \in AllOrderStates, orders' = Moved(o, to)
    PROVE  /\ orders' \in [Ids -> [now: AllOrderStates \cup {"none"},
                                   past: SUBSET AllOrderStates]]
           /\ \A x \in Ids : x # o => orders'[x] = orders[x]
           /\ orders'[o].now = to /\ orders'[o].past = orders[o].past \cup {to}
           /\ to # "none"
  BY DEF TypeOK, Moved, AllOrderStates

\* What a request that works on a row holds about it.
LEMMA LinkingRow ==
    ASSUME AccountInv, NEW w \in Workers, StoreGatewayState(w) \/ LinkPayment(w)
    PROVE  \E p \in Ids, o \in Ids :
              /\ p = req[w].row /\ o = req[w].order
              /\ payments' = LinkRow(p, o) /\ Exists(p)
              /\ \/ p \in RowsOf(o) /\ orders[o].now # "none"
                 \/ p = o /\ ~payments[p].manual
  <1>1. Submitting(req[w]) /\ Writing(req[w])
    BY DEF AccountInv, RequestsOK, Holds
  <1> QED
    BY <1>1 DEF StoreGatewayState, LinkPayment, Submitting, Writing

LEMMA WritingRow ==
    ASSUME AccountInv, NEW w \in Workers, UpdateFromIPN(w)
    PROVE  \E p \in Ids :
              /\ p = req[w].row /\ Exists(p) /\ req[w].status \in PaymentStatus
              /\ payments' = [payments EXCEPT ![p].status = req[w].status]
              /\ synced' = [synced EXCEPT ![p] = req[w].fresh]
              /\ unbacked' = [unbacked EXCEPT ![p] = req[w].unbacked]
              /\ ~req[w].unbacked => Accounted(p, req[w].status)
  <1>1. Writing(req[w]) /\ req[w] \in Request
    BY DEF AccountInv, RequestsOK, Holds, TypeOK
  <1> QED
    BY <1>1 DEF UpdateFromIPN, Writing, Request

\* The submission of an order that the gateway takes.
LEMMA SubmittedOrder ==
    ASSUME AccountInv, NEW w \in Workers, SubmitOrder(w) \/ SubmitOrderFails(w)
    PROVE  \E o \in Ids :
              /\ o = req[w].order /\ Exists(o) /\ ~payments[o].manual
              /\ orders' = Moved(o, "open") \/ UNCHANGED orders
  <1>1. Submitting(req[w])
    BY DEF AccountInv, RequestsOK, Holds
  <1> QED
    BY <1>1 DEF SubmitOrder, SubmitOrderFails, Submitting

-----------------------------------------------------------------------------
(***************************************************************************)
(* What no step undoes: rows, the order a row matches and the states an    *)
(* order has been in.                                                      *)
(***************************************************************************)
Kept ==
    /\ \A p \in Ids : Exists(p) =>
          payments'[p].status # "absent" /\ payments'[p].manual = payments[p].manual
    /\ \A p, o \in Ids : p \in RowsOf(o) =>
          payments'[p].ref = o \/ payments'[p].tracking = o
    /\ \A o \in Ids : /\ orders[o].past \subseteq orders'[o].past
                      /\ orders[o].now # "none" => orders'[o].now # "none"

\* Every step leaves these as they are.
LEMMA KeptNext == AccountInv /\ [Next]_vars => Kept
  <1> SUFFICES ASSUME AccountInv, [Next]_vars
               PROVE  Kept
    OBVIOUS
  <1> USE ValuesAssumption, InputsAssumption
  <1>0. TypeOK /\ RowsOK
    BY DEF AccountInv
  <1>1. CASE UNCHANGED <<payments, orders>>
    BY <1>1 DEF Kept, RowsOf, Matching, Exists
  <1>2. ASSUME NEW p \in Ids, NEW row, ~Exists(p), UNCHANGED orders,
               payments' = [payments EXCEPT ![p] = row]
        PROVE  Kept
    BY <1>0, <1>2 DEF TypeOK, Kept, RowsOf, Matching, Exists
  <1>3. ASSUME NEW o \in Ids, NEW to \in AllOrderStates, orders' = Moved(o, to),
               UNCHANGED payments
        PROVE  Kept
    BY <1>0, <1>3, MovedOrder DEF Kept, RowsOf, Matching, Exists
  <1>4. ASSUME NEW w \in Workers, InsertPending(w)
        PROVE  Kept
    BY <1>2, <1>4 DEF InsertPending
  <1>5. ASSUME NEW w \in Workers, SubmitOrder(w) \/ SubmitOrderFails(w)
        PROVE  Kept
    <2>1. "open" \in AllOrderStates /\ UNCHANGED payments
      BY <1>5 DEF AllOrderStates, SubmitOrder, SubmitOrderFails
    <2> QED
      BY <1>1, <1>3, <1>5, <2>1, SubmittedOrder
  <1>6. ASSUME NEW w \in Workers, StoreGatewayState(w) \/ LinkPayment(w)
        PROVE  Kept
    <2>1. PICK p \in Ids, o \in Ids :
             /\ payments' = LinkRow(p, o) /\ Exists(p)
             /\ p \in RowsOf(o) \/ (p = o /\ ~payments[p].manual)
      BY <1>6, LinkingRow
    <2>2. UNCHANGED orders
      BY <1>6 DEF StoreGatewayState, LinkPayment
    <2>3. \A x \in Ids : p \in RowsOf(x) => x = o
      BY <1>0, <2>1, OneOrder
    <2> QED
      BY <1>0, <2>1, <2>2, <2>3, LinkedRow DEF Kept, RowsOf, Matching, Exists
  <1>7. ASSUME NEW w \in Workers, UpdateFromIPN(w)
        PROVE  Kept
    <2>1. PICK p \in Ids : /\ req[w].status \in PaymentStatus
                           /\ payments' = [payments EXCEPT ![p].status = req[w].status]
      BY <1>7, WritingRow
    <2>2. UNCHANGED orders
      BY <1>7 DEF UpdateFromIPN
    <2> QED
      BY <1>0, <2>1, <2>2, StatusWritten
      DEF Kept, RowsOf, Matching, Exists, PaymentStatus
  <1>8. CASE RecordManual
    BY <1>2, <1>8 DEF RecordManual
  <1>9. CASE MoveOrder
    BY <1>3, <1>9 DEF MoveOrder, OrderMoves, AllOrderStates
  <1> QED
    BY <1>1, <1>4, <1>5, <1>6, <1>7, <1>8, <1>9
    DEF Next, Step, vars, FindForNotice, AskGateway, FindForStatus, UpdateFromIPNFails, Abort

\* So a row still matches its order, and a status accounted for stays so.
LEMMA RowsKept ==
    ASSUME Kept, NEW p \in Ids, NEW o \in Ids, p \in RowsOf(o)
    PROVE  (p \in RowsOf(o))'
  BY ValuesAssumption, InputsAssumption DEF Kept, RowsOf, Matching, Exists

LEMMA AccountKept ==
    ASSUME Kept, NEW p \in Ids, NEW status, Exists(p), Accounted(p, status)
    PROVE  Accounted(p, status)'
  <1>1. CASE Told(p, status)
    <2>1. PICK o \in Ids : /\ p \in RowsOf(o)
                           /\ \E s \in orders[o].past : status = StatusOfOrder(s)
      BY <1>1 DEF Told
    <2>2. (p \in RowsOf(o))' /\ orders[o].past \subseteq orders'[o].past
      BY <2>1, RowsKept DEF Kept
    <2> QED
      BY <2>1, <2>2 DEF Accounted, Told
  <1> QED
    BY <1>1 DEF Accounted, Kept

\* A request that stays where it is still holds what it held.
LEMMA OtherRequest ==
    ASSUME AccountInv, Kept, NEW v \in Workers,
           req'[v].op = req[v].op, req'[v].pc = req[v].pc, req'[v].row = req[v].row,
           req'[v].order = req[v].order, req'[v].answer = req[v].answer,
           req'[v].status = req[v].status, req'[v].unbacked = req[v].unbacked
    PROVE  Holds(req[v])'
  <1>1. Submitting(req[v]) /\ Asking(req[v]) /\ Writing(req[v]) /\ req[v] \in Request
    BY DEF AccountInv, RequestsOK, Holds, TypeOK
  <1>2. Submitting(req[v])'
    BY <1>1 DEF Kept, Submitting, Exists
  <1>3. Asking(req[v])'
    BY <1>1 DEF Kept, Asking
  <1>4. ASSUME req[v].pc \in {"write", "link"}
        PROVE  Writing(req[v])'
    <2>1. PICK p \in Ids : p = req[v].row /\ Exists(p)
      BY <1>1, <1>4 DEF Writing
    <2>2. Exists(p)'
      BY <2>1 DEF Kept, Exists
    <2>3. ~req'[v].unbacked => Accounted(p, req[v].status)'
      BY <1>1, <1>4, <2>1, AccountKept DEF Writing
    <2>4. ASSUME req[v].op = "status"
          PROVE  /\ req[v].order \in Ids /\ (p \in RowsOf(req[v].order))'
                 /\ orders'[req[v].order].now # "none"
      <3>1. PICK o \in Ids : /\ o = req[v].order /\ p \in RowsOf(o)
                             /\ orders[o].now # "none"
        BY <1>1, <1>4, <2>1, <2>4 DEF Writing
      <3>2. (p \in RowsOf(o))' /\ orders'[o].now # "none"
        BY <3>1, RowsKept DEF Kept
      <3> QED
        BY <3>1, <3>2
    <2> QED
      BY <1>1, <1>4, <2>1, <2>2, <2>3, <2>4 DEF Writing
  <1> QED
    BY <1>2, <1>3, <1>4 DEF Writing, Holds

\* A step of one request that leaves the other requests alone.
LEMMA OneRequest ==
    ASSUME AccountInv, Kept, NEW w \in Workers,
           \A v \in Workers : v # w => req'[v] = req[v],
           Holds(req[w])'
    PROVE  RequestsOK'
  <1>1. ASSUME NEW v \in Workers, v # w
        PROVE  Holds(req[v])'
    BY <1>1, OtherRequest
  <1> QED
    BY <1>1 DEF RequestsOK

LEMMA IdleHolds ==
    ASSUME NEW w \in Workers, req'[w] = Idle
    PROVE  Holds(req[w])'
  BY DEF Idle, Holds, Submitting, Asking, Writing

\* A row that is inserted, stays as it is or is written by a request that can
\* account for it is accounted for.
LEMMA StatusesAccounted ==
    ASSUME AccountInv, Kept,
           \A p \in Ids :
              \/ payments'[p].status = "absent"
              \/ /\ Exists(p) /\ payments'[p].status = payments[p].status
                 /\ unbacked'[p] = unbacked[p]
              \/ unbacked'[p]
              \/ Accounted(p, payments[p].status)'
    PROVE  StatusAccounted'
  <1> SUFFICES ASSUME NEW p \in Ids, payments'[p].status # "absent", ~unbacked'[p]
               PROVE  Accounted(p, payments[p].status)'
    BY DEF StatusAccounted, Exists
  <1>1. CASE /\ Exists(p) /\ payments'[p].status = payments[p].status
             /\ unbacked'[p] = unbacked[p]
    BY <1>1, AccountKept DEF AccountInv, StatusAccounted
  <1> QED
    BY <1>1

-----------------------------------------------------------------------------
(***************************************************************************)
(* The invariant is inductive.                                             *)
(***************************************************************************)

\* Nothing is stored, ordered or in progress at the start.
LEMMA AccountInit == Init => AccountInv
  <1> SUFFICES ASSUME Init PROVE AccountInv
    OBVIOUS
  <1>1. TypeOK
    BY IdleType DEF Init, TypeOK
  <1>2. RowsOK /\ OrdersOK /\ ProvidersOK /\ StatusAccounted
    BY DEF Init, RowsOK, OrdersOK, ProvidersOK, StatusAccounted, Exists, NoRow
  <1>3. RequestsOK
    BY DEF Init, RequestsOK, Holds, Submitting, Asking, Writing, Idle
  <1> QED
    BY <1>1, <1>2, <1>3 DEF AccountInv

\* A step that leaves the tables and the gateway alone.
LEMMA LocalStep ==
    ASSUME AccountInv, Kept, UNCHANGED <<payments, orders, synced, unbacked>>,
           NEW w \in Workers, NEW r \in Request, req' = [req EXCEPT ![w] = r],
           Holds(req[w])'
    PROVE  AccountInv'
  <1>1. TypeOK'
    BY DEF AccountInv, TypeOK
  <1>2. RequestsOK'
    BY OneRequest DEF AccountInv, TypeOK
  <1>3. (RowsOK /\ OrdersOK /\ ProvidersOK)'
    BY DEF AccountInv, RowsOK, OrdersOK, ProvidersOK, Exists
  <1>4. StatusAccounted'
    BY StatusesAccounted DEF Exists
  <1> QED
    BY <1>1, <1>2, <1>3, <1>4 DEF AccountInv

\* A new row that is accounted for by what it was inserted with.
LEMMA InsertStep ==
    ASSUME AccountInv, Kept, NEW p \in Ids, NEW row \in Row, ~Exists(p),
           payments' = [payments EXCEPT ![p] = row], UNCHANGED <<orders, unbacked>>,
           row.tracking = None,
           \/ row.manual /\ row.status = "completed" /\ row.provider = "manual"
           \/ ~row.manual /\ row.status = "pending" /\ row.ref \in Placeholders
    PROVE  (RowsOK /\ OrdersOK /\ ProvidersOK /\ StatusAccounted)'
  <1>0. /\ payments'[p] = row
        /\ \A q \in Ids : q # p => payments'[q] = payments[q]
    BY Inserted DEF AccountInv
  <1>1. RowsOK'
    BY <1>0 DEF AccountInv, RowsOK, Exists
  <1>2. OrdersOK'
    BY <1>0 DEF AccountInv, OrdersOK, Exists
  <1>3. ProvidersOK'
    BY <1>0 DEF AccountInv, ProvidersOK
  <1>4. Accounted(p, payments[p].status)'
    BY <1>0 DEF Accounted
  <1>5. StatusAccounted'
    BY <1>0, <1>4, StatusesAccounted DEF Exists
  <1> QED
    BY <1>1, <1>2, <1>3, <1>5

\* An order moves or is submitted.
LEMMA OrderStep ==
    ASSUME AccountInv, Kept, NEW o \in Ids, NEW to \in AllOrderStates,
           orders' = Moved(o, to), UNCHANGED <<payments, unbacked>>,
           Exists(o), ~payments[o].manual
    PROVE  (RowsOK /\ OrdersOK /\ ProvidersOK /\ StatusAccounted)'
  <1>0. /\ \A x \in Ids : x # o => orders'[x] = orders[x]
        /\ orders'[o].now = to /\ orders'[o].past = orders[o].past \cup {to}
    BY MovedOrder DEF AccountInv
  <1>1. RowsOK'
    BY DEF AccountInv, RowsOK, Exists
  <1>2. OrdersOK'
    BY <1>0 DEF AccountInv, OrdersOK, Exists
  <1>3. ProvidersOK'
    BY DEF AccountInv, ProvidersOK, Kept
  <1>4. StatusAccounted'
    BY StatusesAccounted DEF Exists
  <1> QED
    BY <1>1, <1>2, <1>3, <1>4

\* Every step keeps the account: what a request is about to store was said by
\* the gateway of the row's order, was the row's before, or is marked unbacked.
LEMMA AccountNext == AccountInv /\ [Next]_vars => AccountInv'
  <1> SUFFICES ASSUME AccountInv, [Next]_vars
               PROVE  AccountInv'
    OBVIOUS
  <1> USE InputsAssumption, ValuesAssumption
  <1>0. /\ Kept /\ TypeOK /\ RowsOK
        /\ req \in [Workers -> Request] /\ \A v \in Workers : Holds(req[v])
    BY KeptNext DEF AccountInv, TypeOK, RequestsOK
  <1>1. ASSUME NEW w \in Workers, InsertPending(w)
        PROVE  AccountInv'
    <2>1. PICK p \in Ids, ref \in Placeholders :
             /\ ~Exists(p)
             /\ payments' = [payments EXCEPT ![p] =
                               [NoRow EXCEPT !.status = "pending", !.ref = ref]]
             /\ req' = [req EXCEPT ![w] = [Idle EXCEPT !.op = "initiate", !.pc = "submit",
                                                       !.row = p, !.order = p]]
      BY <1>1 DEF InsertPending
    <2> DEFINE row == [NoRow EXCEPT !.status = "pending", !.ref = ref]
               r == [Idle EXCEPT !.op = "initiate", !.pc = "submit", !.row = p, !.order = p]
    <2>2. /\ row \in Row /\ row.tracking = None /\ ~row.manual
          /\ row.status = "pending" /\ row.ref \in Placeholders
      BY DEF Row, NoRow, PaymentStatus
    <2>3. r \in Request /\ r.pc = "submit" /\ r.row = p /\ r.order = p
      BY DEF Request, Idle, PaymentStatus
    <2>4. /\ payments' = [payments EXCEPT ![p] = row]
          /\ req' = [req EXCEPT ![w] = r]
          /\ UNCHANGED <<orders, synced, unbacked>>
      BY <1>1, <2>1 DEF InsertPending
    <2> HIDE DEF row, r
    <2>5. payments' \in [Ids -> Row] /\ payments'[p] = row
      BY <1>0, <2>2, <2>4, Inserted
    <2>6. /\ req' \in [Workers -> Request] /\ req'[w] = r
          /\ \A v \in Workers : v # w => req'[v] = req[v]
      BY <1>0, <2>3, <2>4
    <2>7. Holds(req[w])'
      BY <2>2, <2>3, <2>5, <2>6 DEF Holds, Submitting, Asking, Writing, Exists
    <2>8. RequestsOK'
      BY <1>0, <2>6, <2>7, OneRequest
    <2>9. (RowsOK /\ OrdersOK /\ ProvidersOK /\ StatusAccounted)'
      BY <1>0, <2>1, <2>2, <2>4, InsertStep
    <2> QED
      BY <1>0, <2>4, <2>5, <2>6, <2>8, <2>9 DEF AccountInv, TypeOK
  <1>2. ASSUME NEW w \in Workers, SubmitOrder(w) \/ SubmitOrderFails(w)
        PROVE  AccountInv'
    <2>1. PICK o \in Ids : /\ o = req[w].order /\ Exists(o) /\ ~payments[o].manual
                           /\ orders' = Moved(o, "open") \/ UNCHANGED orders
      BY <1>2, SubmittedOrder
    <2>2. /\ UNCHANGED <<payments, synced, unbacked>> /\ req[w].pc = "submit"
          /\ \/ req' = [req EXCEPT ![w].pc = "store"]
             \/ req' = [req EXCEPT ![w] = Idle]
      BY <1>2 DEF SubmitOrder, SubmitOrderFails
    <2>3. "open" \in AllOrderStates
      BY DEF AllOrderStates
    <2>4. /\ orders' \in [Ids -> [now: AllOrderStates \cup {"none"},
                                  past: SUBSET AllOrderStates]]
          /\ (RowsOK /\ OrdersOK /\ ProvidersOK /\ StatusAccounted)'
      <3>1. CASE orders' = Moved(o, "open")
        BY <1>0, <2>1, <2>2, <2>3, <3>1, MovedOrder, OrderStep
      <3>2. CASE UNCHANGED orders
        <4>1. (RowsOK /\ OrdersOK /\ ProvidersOK)'
          BY <2>2, <3>2 DEF AccountInv, RowsOK, OrdersOK, ProvidersOK, Exists
        <4>2. StatusAccounted'
          BY <1>0, <2>2, StatusesAccounted DEF Exists
        <4> QED
          BY <1>0, <3>2, <4>1, <4>2 DEF TypeOK
      <3> QED
        BY <2>1, <3>1, <3>2
    <2>5. /\ req' \in [Workers -> Request]
          /\ \A v \in Workers : v # w => req'[v] = req[v]
          /\ Holds(req[w])'
      <3> DEFINE r == [req[w] EXCEPT !.pc = "store"]
      <3>1. req' = [req EXCEPT ![w] = r] \/ req' = [req EXCEPT ![w] = Idle]
        BY <2>2
      <3>2. /\ r \in Request /\ r.pc = "store" /\ r.row = req[w].row
            /\ r.order = req[w].order
        BY <1>0 DEF Request
      <3> HIDE DEF r
      <3>3. /\ req' \in [Workers -> Request]
            /\ \A v \in Workers : v # w => req'[v] = req[v]
            /\ req'[w] = r \/ req'[w] = Idle
        BY <1>0, <3>1, <3>2, IdleType
      <3>4. CASE req'[w] = r
        <4>1. Submitting(req[w])
          BY <1>0 DEF Holds
        <4> QED
          BY <2>2, <3>2, <3>3, <3>4, <4>1 DEF Holds, Submitting, Asking, Writing, Exists
      <3> QED
        BY <3>3, <3>4, IdleHolds
    <2>6. RequestsOK'
      BY <1>0, <2>5, OneRequest
    <2> QED
      BY <1>0, <2>2, <2>4, <2>5, <2>6 DEF AccountInv, TypeOK
  <1>3. ASSUME NEW w \in Workers, StoreGatewayState(w) \/ LinkPayment(w)
        PROVE  AccountInv'
    <2>1. PICK p \in Ids, o \in Ids :
             /\ payments' = LinkRow(p, o) /\ Exists(p)
             /\ \/ p \in RowsOf(o) /\ orders[o].now # "none"
                \/ p = o /\ ~payments[p].manual
      BY <1>3, LinkingRow
    <2>2. /\ UNCHANGED <<orders, synced, unbacked>>
          /\ req' = [req EXCEPT ![w] = Idle]
      BY <1>3 DEF StoreGatewayState, LinkPayment
    <2>3. /\ payments' \in [Ids -> Row]
          /\ \A q \in Ids : q # p => payments'[q] = payments[q]
          /\ payments'[p].ref = o /\ payments'[p].tracking = o
          /\ payments'[p].provider = "pesapal"
          /\ payments'[p].status = payments[p].status
          /\ payments'[p].manual = payments[p].manual
      BY <1>0, <2>1, LinkedRow
    <2>4. ~payments[p].manual => p = o
      BY <1>0, <2>1, OneOrder
    <2>5. payments[p].manual => orders[o].now # "none"
      BY <2>1
    <2>6. RowsOK'
      BY <2>3, <2>4 DEF AccountInv, RowsOK, Exists
    <2>7. OrdersOK'
      BY <2>2, <2>3 DEF AccountInv, OrdersOK, Exists
    <2>8. ProvidersOK'
      BY <2>2, <2>3, <2>5 DEF AccountInv, ProvidersOK
    <2>9. StatusAccounted'
      BY <1>0, <2>1, <2>2, <2>3, StatusesAccounted DEF Exists
    <2>10. RequestsOK' /\ req' \in [Workers -> Request]
      BY <1>0, <2>2, OneRequest, IdleHolds, IdleType
    <2> QED
      BY <1>0, <2>2, <2>3, <2>6, <2>7, <2>8, <2>9, <2>10 DEF AccountInv, TypeOK
  <1>4. ASSUME NEW w \in Workers, FindForNotice(w)
        PROVE  AccountInv'
    <2>1. PICK kind \in NoticeKinds, ref \in Ids \cup Placeholders \cup {None},
               tracking \in Ids \cup {None}, p \in Ids :
             /\ IsFirstMatch(p, ref, tracking)
             /\ req' = [req EXCEPT ![w] =
                   [Idle EXCEPT !.op = "notice", !.pc = "write", !.row = p,
                                !.status = StatusOfNotice(kind, payments[p].status),
                                !.fresh = IF kind = "other" THEN synced[p]
                                          ELSE IsSo(kind, ref, tracking),
                                !.unbacked = IF kind = "other" THEN unbacked[p]
                                             ELSE ~WasSo(kind, ref, tracking)]]
      BY <1>4 DEF FindForNotice
    <2> DEFINE st == StatusOfNotice(kind, payments[p].status)
               fr == IF kind = "other" THEN synced[p] ELSE IsSo(kind, ref, tracking)
               un == IF kind = "other" THEN unbacked[p] ELSE ~WasSo(kind, ref, tracking)
               r == [Idle EXCEPT !.op = "notice", !.pc = "write", !.row = p,
                                 !.status = st, !.fresh = fr, !.unbacked = un]
    <2>2. /\ kind \in {"paid", "failed", "other"} /\ Exists(p)
          /\ p \in Matching(ref, tracking)
      BY <2>1 DEF IsFirstMatch, Matching
    <2>3. st \in PaymentStatus /\ fr \in BOOLEAN /\ un \in BOOLEAN
      BY <1>0, <2>2 DEF StatusOfNotice, TypeOK, Row, PaymentStatus, Exists, IsSo, WasSo
    <2>4. ~un => Accounted(p, st)
      <3>1. CASE kind = "other"
        BY <2>2, <3>1 DEF AccountInv, StatusAccounted, StatusOfNotice
      <3>2. CASE kind # "other"
        <4> SUFFICES ASSUME WasSo(kind, ref, tracking)
                     PROVE  Told(p, st)
          BY <3>2 DEF Accounted
        <4>1. PICK o \in Ids : /\ Names(ref, tracking, o)
                               /\ \E s \in orders[o].past : Says(kind, s)
          BY DEF WasSo
        <4>2. p \in RowsOf(o)
          BY <2>2, <4>1 DEF RowsOf, Matching, Names
        <4>3. PICK s \in orders[o].past : Says(kind, s)
          BY <4>1
        <4>4. st = StatusOfOrder(s)
          BY <3>2, <4>3 DEF Says, StatusOfNotice, StatusOfOrder
        <4> QED
          BY <4>2, <4>4 DEF Told
      <3> QED
        BY <3>1, <3>2
    <2>5. req' = [req EXCEPT ![w] = r] /\ UNCHANGED <<payments, orders, synced, unbacked>>
      BY <1>4, <2>1 DEF FindForNotice
    <2> HIDE DEF st, fr, un
    <2>6. /\ r \in Request /\ r.op = "notice" /\ r.pc = "write" /\ r.row = p
          /\ r.status = st /\ r.unbacked = un
      BY <2>3, IdleType DEF Request, Idle
    <2> HIDE DEF r
    <2>7. PICK c \in PaymentStatus : c = st
      BY <2>3
    <2>8. ~r.unbacked => Accounted(p, c)'
      BY <1>0, <2>2, <2>4, <2>6, <2>7, AccountKept
    <2>9. req'[w] = r
      BY <1>0, <2>5
    <2>10. Holds(req[w])'
      BY <2>2, <2>5, <2>6, <2>7, <2>8, <2>9 DEF Holds, Submitting, Asking, Writing, Exists
    <2> QED
      BY <1>0, <2>5, <2>6, <2>10, LocalStep
  <1>5. ASSUME NEW w \in Workers, AskGateway(w)
        PROVE  AccountInv'
    <2>1. PICK o \in Ids :
             /\ orders[o].now # "none"
             /\ req' = [req EXCEPT ![w] = [Idle EXCEPT !.op = "status", !.pc = "find",
                                               !.order = o, !.answer = orders[o].now,
                                               !.fresh = TRUE]]
      BY <1>5 DEF AskGateway
    <2> DEFINE r == [Idle EXCEPT !.op = "status", !.pc = "find", !.order = o,
                                 !.answer = orders[o].now, !.fresh = TRUE]
    <2>2. orders[o].now \in AllOrderStates /\ orders[o].now \in orders[o].past
      BY <1>0, <2>1 DEF AccountInv, TypeOK, OrdersOK
    <2>3. /\ r \in Request /\ r.op = "status" /\ r.pc = "find" /\ r.order = o
          /\ r.answer = orders[o].now /\ ~r.unbacked
      BY <2>2, IdleType DEF Request, Idle
    <2>4. req' = [req EXCEPT ![w] = r] /\ UNCHANGED <<payments, orders, synced, unbacked>>
      BY <1>5, <2>1 DEF AskGateway
    <2> HIDE DEF r
    <2>5. Holds(req[w])'
      BY <1>0, <2>1, <2>2, <2>3, <2>4 DEF Holds, Submitting, Asking, Writing
    <2> QED
      BY <1>0, <2>3, <2>4, <2>5, LocalStep
  <1>6. ASSUME NEW w \in Workers, FindForStatus(w)
        PROVE  AccountInv'
    <2>1. UNCHANGED <<payments, orders, synced, unbacked>>
      BY <1>6 DEF FindForStatus
    <2>2. CASE req' = [req EXCEPT ![w] = Idle]
      BY <1>0, <2>1, <2>2, IdleType, IdleHolds, LocalStep
    <2>3. ASSUME NEW p \in Ids, IsFirstMatch(p, req[w].order, req[w].order),
                 req' = [req EXCEPT ![w].pc = "write", ![w].row = p,
                                    ![w].status = StatusOfOrder(req[w].answer)]
          PROVE  AccountInv'
      <3>1. PICK o \in Ids :
               /\ o = req[w].order /\ p \in RowsOf(o) /\ orders[o].now # "none"
               /\ req[w].answer \in orders[o].past /\ ~req[w].unbacked
               /\ req[w].op = "status"
        BY <1>0, <1>6, <2>3
        DEF FindForStatus, Holds, Asking, IsFirstMatch, RowsOf, Matching
      <3>2. StatusOfOrder(req[w].answer) \in PaymentStatus
        BY <1>0, <3>1 DEF StatusOfOrder, PaymentStatus, TypeOK, AllOrderStates
      <3>3. PICK c \in PaymentStatus : c = StatusOfOrder(req[w].answer)
        BY <3>2
      <3>4. Accounted(p, c) /\ Exists(p)
        BY <3>1, <3>3 DEF Accounted, Told, RowsOf, Matching
      <3> DEFINE r == [req[w] EXCEPT !.pc = "write", !.row = p, !.status = c]
      <3>5. /\ r \in Request /\ r.pc = "write" /\ r.op = req[w].op /\ r.row = p
            /\ r.order = req[w].order /\ r.status = c /\ ~r.unbacked
        <4>1. /\ r \in Request /\ r.pc = "write" /\ r.op = req[w].op /\ r.row = p
              /\ r.order = req[w].order /\ r.status = c
          BY <1>0 DEF Request
        <4>2. ~r.unbacked
          BY <1>0, <3>1 DEF Request
        <4> QED
          BY <4>1, <4>2
      <3>6. req' = [req EXCEPT ![w] = r] /\ req'[w] = r
        BY <1>0, <2>3, <3>3
      <3> HIDE DEF r
      <3>7. Accounted(p, c)' /\ Exists(p)' /\ (p \in RowsOf(o))'
        BY <1>0, <3>1, <3>4, AccountKept, RowsKept DEF Kept, Exists
      <3>8. Holds(req[w])'
        BY <2>1, <3>1, <3>5, <3>6, <3>7 DEF Holds, Submitting, Asking, Writing
      <3> QED
        BY <1>0, <2>1, <3>5, <3>6, <3>8, LocalStep
    <2> QED
      BY <1>6, <2>2, <2>3 DEF FindForStatus
  <1>7. ASSUME NEW w \in Workers, UpdateFromIPN(w)
        PROVE  AccountInv'
    <2>1. PICK p \in Ids :
             /\ p = req[w].row /\ Exists(p) /\ req[w].status \in PaymentStatus
             /\ payments' = [payments EXCEPT ![p].status = req[w].status]
             /\ synced' = [synced EXCEPT ![p] = req[w].fresh]
             /\ unbacked' = [unbacked EXCEPT ![p] = req[w].unbacked]
             /\ ~req[w].unbacked => Accounted(p, req[w].status)
      BY <1>7, WritingRow
    <2>2. /\ payments' \in [Ids -> Row]
          /\ \A q \in Ids : q # p => payments'[q] = payments[q]
          /\ payments'[p].status = req[w].status
          /\ payments'[p].ref = payments[p].ref
          /\ payments'[p].tracking = payments[p].tracking
          /\ payments'[p].provider = payments[p].provider
          /\ payments'[p].manual = payments[p].manual
      BY <1>0, <2>1, StatusWritten
    <2>3. /\ synced' \in [Ids -> BOOLEAN] /\ unbacked' \in [Ids -> BOOLEAN]
          /\ unbacked'[p] = req[w].unbacked
          /\ \A q \in Ids : q # p => unbacked'[q] = unbacked[q]
      BY <1>0, <2>1 DEF TypeOK, Request
    <2>4. UNCHANGED orders /\ req[w].pc = "write"
      BY <1>7 DEF UpdateFromIPN
    <2>5. RowsOK'
      BY <2>1, <2>2 DEF AccountInv, RowsOK, Exists, PaymentStatus
    <2>6. (OrdersOK /\ ProvidersOK)'
      BY <2>1, <2>2, <2>4 DEF AccountInv, OrdersOK, ProvidersOK, Exists, PaymentStatus
    <2>7. PICK c \in PaymentStatus : c = req[w].status
      BY <2>1
    <2>8. ~unbacked'[p] => Accounted(p, c)' /\ Accounted(p, payments[p].status)'
      BY <1>0, <2>1, <2>2, <2>3, <2>7, AccountKept
    <2>9. StatusAccounted'
      BY <1>0, <2>2, <2>3, <2>8, StatusesAccounted DEF Exists
    <2>10. /\ req' \in [Workers -> Request] /\ Holds(req[w])'
          /\ \A v \in Workers : v # w => req'[v] = req[v]
      <3> DEFINE r == [req[w] EXCEPT !.pc = "link"]
      <3>1. \/ req' = [req EXCEPT ![w] = Idle]
            \/ req' = [req EXCEPT ![w] = r] /\ req[w].op = "status"
        BY <1>7 DEF UpdateFromIPN
      <3>2. /\ r \in Request /\ r.pc = "link" /\ r.op = req[w].op /\ r.row = req[w].row
            /\ r.order = req[w].order /\ r.status = req[w].status
            /\ r.unbacked = req[w].unbacked
        BY <1>0, Advanced
      <3> HIDE DEF r
      <3>3. /\ req' \in [Workers -> Request]
            /\ \A v \in Workers : v # w => req'[v] = req[v]
            /\ req'[w] = Idle \/ (req'[w] = r /\ req[w].op = "status")
        BY <1>0, <3>1, <3>2, IdleType
      <3>4. CASE req'[w] = r /\ req[w].op = "status"
        <4>1. PICK o \in Ids : /\ o = req[w].order /\ p \in RowsOf(o)
                               /\ orders[o].now # "none"
          BY <1>0, <2>1, <2>4, <3>4 DEF Holds, Writing
        <4>2. (p \in RowsOf(o))' /\ Exists(p)'
          BY <1>0, <2>1, <4>1, RowsKept DEF Kept, Exists
        <4> QED
          BY <2>1, <2>3, <2>4, <2>7, <2>8, <3>2, <3>3, <3>4, <4>1, <4>2
          DEF Holds, Submitting, Asking, Writing
      <3> QED
        BY <3>3, <3>4, IdleHolds
    <2>11. RequestsOK'
      BY <1>0, <2>10, OneRequest
    <2> QED
      BY <1>0, <2>2, <2>3, <2>4, <2>5, <2>6, <2>9, <2>10, <2>11 DEF AccountInv, TypeOK
  <1>8. ASSUME NEW w \in Workers, UpdateFromIPNFails(w)
        PROVE  AccountInv'
    <2> DEFINE r == [req[w] EXCEPT !.pc = "link"]
    <2>1. /\ req[w].op = "status" /\ req[w].pc = "write" /\ Writing(req[w])
          /\ req' = [req EXCEPT ![w] = r]
          /\ UNCHANGED <<payments, orders, synced, unbacked>>
      BY <1>0, <1>8 DEF UpdateFromIPNFails, Holds
    <2>2. /\ r \in Request /\ r.pc = "link" /\ r.op = req[w].op /\ r.row = req[w].row
          /\ r.order = req[w].order /\ r.status = req[w].status
          /\ r.unbacked = req[w].unbacked
      BY <1>0 DEF Request
    <2> HIDE DEF r
    <2>3. req'[w] = r
      BY <1>0, <2>1
    <2>4. PICK p \in Ids, o \in Ids :
             /\ p = req[w].row /\ o = req[w].order /\ Exists(p) /\ p \in RowsOf(o)
             /\ orders[o].now # "none"
             /\ ~req[w].unbacked => Accounted(p, req[w].status)
      BY <2>1 DEF Writing
    <2>5. PICK c \in PaymentStatus : c = req[w].status
      BY <1>0 DEF Request
    <2>6. /\ (p \in RowsOf(o))' /\ Exists(p)'
          /\ ~req[w].unbacked => Accounted(p, c)'
      BY <1>0, <2>4, <2>5, RowsKept, AccountKept DEF Kept, Exists
    <2>7. Holds(req[w])'
      BY <2>1, <2>2, <2>3, <2>4, <2>5, <2>6 DEF Holds, Submitting, Asking, Writing
    <2> QED
      BY <1>0, <2>1, <2>2, <2>7, LocalStep
  <1>9. ASSUME NEW w \in Workers, Abort(w)
        PROVE  AccountInv'
    <2>1. /\ req' = [req EXCEPT ![w] = Idle] /\ req'[w] = Idle
          /\ UNCHANGED <<payments, orders, synced, unbacked>>
      BY <1>0, <1>9 DEF Abort
    <2> QED
      BY <1>0, <2>1, IdleType, IdleHolds, LocalStep
  <1>10. CASE RecordManual
    <2>1. PICK p \in Ids, ref \in ManualRefs :
             /\ ~Exists(p)
             /\ payments' = [payments EXCEPT ![p] =
                   [NoRow EXCEPT !.status = "completed", !.provider = "manual",
                                 !.ref = ref, !.manual = TRUE]]
      BY <1>10 DEF RecordManual
    <2> DEFINE row == [NoRow EXCEPT !.status = "completed", !.provider = "manual",
                                    !.ref = ref, !.manual = TRUE]
    <2>2. /\ row \in Row /\ row.tracking = None /\ row.manual
          /\ row.status = "completed" /\ row.provider = "manual"
      BY DEF Row, NoRow, PaymentStatus
    <2>3. /\ payments' = [payments EXCEPT ![p] = row]
          /\ UNCHANGED <<orders, req, synced, unbacked>>
      BY <1>10, <2>1 DEF RecordManual
    <2> HIDE DEF row
    <2>4. payments' \in [Ids -> Row]
      BY <1>0, <2>2, <2>3, Inserted
    <2>5. RequestsOK'
      BY <1>0, <2>3, OtherRequest DEF RequestsOK
    <2>6. (RowsOK /\ OrdersOK /\ ProvidersOK /\ StatusAccounted)'
      BY <1>0, <2>1, <2>2, <2>3, InsertStep
    <2> QED
      BY <1>0, <2>3, <2>4, <2>5, <2>6 DEF AccountInv, TypeOK
  <1>11. CASE MoveOrder
    <2>1. PICK o \in Ids, to \in OrderStates :
             /\ <<orders[o].now, to>> \in OrderMoves
             /\ orders' = Moved(o, to)
             /\ req' = [w \in Workers |->
                          [req[w] EXCEPT !.fresh = /\ req[w].fresh
                                                   /\ req[w].order # o
                                                   /\ req[w].row \notin RowsOf(o)]]
             /\ synced' = [p \in Ids |-> synced[p] /\ p \notin RowsOf(o)]
      BY <1>11 DEF MoveOrder
    <2>2. UNCHANGED <<payments, unbacked>> /\ to \in AllOrderStates
      BY <1>11 DEF MoveOrder
    <2>3. Exists(o) /\ ~payments[o].manual
      BY <2>1 DEF OrderMoves, AccountInv, OrdersOK
    <2>4. (RowsOK /\ OrdersOK /\ ProvidersOK /\ StatusAccounted)'
      BY <1>0, <2>1, <2>2, <2>3, OrderStep
    <2>5. orders' \in [Ids -> [now: AllOrderStates \cup {"none"},
                               past: SUBSET AllOrderStates]]
      BY <1>0, <2>1, <2>2, MovedOrder
    <2>6. ASSUME NEW v \in Workers
          PROVE  req'[v] \in Request /\ Holds(req[v])'
      <3> DEFINE fr == req[v].fresh /\ req[v].order # o /\ req[v].row \notin RowsOf(o)
      <3>1. req'[v] = [req[v] EXCEPT !.fresh = fr] /\ req[v] \in Request
        BY <1>0, <2>1
      <3>2. fr \in BOOLEAN
        OBVIOUS
      <3> HIDE DEF fr
      <3>3. /\ req'[v] \in Request
            /\ req'[v].op = req[v].op /\ req'[v].pc = req[v].pc /\ req'[v].row = req[v].row
            /\ req'[v].order = req[v].order /\ req'[v].answer = req[v].answer
            /\ req'[v].status = req[v].status /\ req'[v].unbacked = req[v].unbacked
        BY <3>1, <3>2 DEF Request
      <3> QED
        BY <1>0, <3>3, OtherRequest
    <2>7. req' \in [Workers -> Request] /\ RequestsOK'
      <3>1. req' = [v \in Workers |-> req'[v]]
        BY <2>1
      <3> QED
        BY <2>6, <3>1 DEF RequestsOK
    <2>8. synced' \in [Ids -> BOOLEAN]
      BY <2>1
    <2> QED
      BY <1>0, <2>2, <2>4, <2>5, <2>7, <2>8 DEF AccountInv, TypeOK
  <1>12. CASE UNCHANGED vars
    <2>1. RequestsOK'
      BY <1>0, <1>12, OtherRequest DEF vars, RequestsOK
    <2>2. StatusAccounted'
      BY <1>0, <1>12, StatusesAccounted DEF vars, Exists
    <2> QED
      BY <1>12, <2>1, <2>2 DEF vars, AccountInv, TypeOK, RowsOK, OrdersOK, ProvidersOK, Exists
  <1> QED
    BY <1>1, <1>2, <1>3, <1>4, <1>5, <1>6, <1>7, <1>8, <1>9, <1>10, <1>11, <1>12
    DEF Next, Step

-----------------------------------------------------------------------------
(***************************************************************************)
(* SyncedIsRight is inductive with what requests hold that is still right. *)
(***************************************************************************)

\* A status that the placed order of a row has now.
InStep(p, status) ==
    \E o \in Ids : /\ p \in RowsOf(o) /\ orders[o].now # "none"
                   /\ status = StatusOfOrder(orders[o].now)

\* What a request holds about its order, while that order has not changed.
Current(r) ==
    /\ r.pc = "find" /\ r.fresh => r.answer = orders[r.order].now
    /\ r.pc = "write" /\ r.fresh => InStep(r.row, r.status)
    /\ r.pc = "submit" => orders[r.order].now = "none"

\* A payment is submitted by the request that inserted it and no other.
SubmitsAlone ==
    \A v, w \in Workers :
        v # w /\ req[v].pc = "submit" /\ req[w].pc = "submit" => req[v].order # req[w].order

CurrentInv ==
    /\ \A p \in Ids : synced[p] => InStep(p, payments[p].status)
    /\ SubmitsAlone
    /\ \A w \in Workers : Current(req[w])

\* A placed order that does not move keeps its rows in step.
LEMMA InStepKept ==
    ASSUME Kept, NEW p \in Ids, NEW status, InStep(p, status),
           \A o \in Ids : p \in RowsOf(o) /\ orders[o].now # "none" =>
              orders'[o].now = orders[o].now
    PROVE  InStep(p, status)'
  <1>1. PICK o \in Ids : /\ p \in RowsOf(o) /\ orders[o].now # "none"
                         /\ status = StatusOfOrder(orders[o].now)
    BY DEF InStep
  <1>2. (p \in RowsOf(o))' /\ orders'[o].now = orders[o].now
    BY <1>1, RowsKept
  <1> QED
    BY <1>1, <1>2 DEF InStep

\* A step of one request during which no placed order moves.
LEMMA CurrentStep ==
    ASSUME AccountInv, CurrentInv, Kept, NEW w \in Workers,
           \A o \in Ids : orders[o].now # "none" => orders'[o].now = orders[o].now,
           \A v \in Workers : v # w => req'[v] = req[v],
           \A v \in Workers : v # w /\ req[v].pc = "submit" =>
              orders'[req[v].order].now = "none",
           \A p \in Ids : synced'[p] =>
              \/ synced[p] /\ payments'[p].status = payments[p].status
              \/ InStep(p, payments[p].status)',
           SubmitsAlone', Current(req[w])'
    PROVE  CurrentInv'
  <1>1. ASSUME NEW p \in Ids, synced'[p]
        PROVE  InStep(p, payments[p].status)'
    <2>1. CASE synced[p] /\ payments'[p].status = payments[p].status
      BY <2>1, InStepKept DEF CurrentInv
    <2> QED
      BY <1>1, <2>1
  <1>2. ASSUME NEW v \in Workers, v # w
        PROVE  Current(req[v])'
    <2>1. req'[v] = req[v] /\ Current(req[v]) /\ Holds(req[v])
      BY <1>2 DEF CurrentInv, AccountInv, RequestsOK
    <2>2. req[v].pc = "find" /\ req[v].fresh => req[v].answer = orders'[req[v].order].now
      BY <2>1 DEF Current, Holds, Asking
    <2>3. ASSUME req[v].pc = "write", req[v].fresh
          PROVE  InStep(req[v].row, req[v].status)'
      <3>1. req[v].row \in Ids /\ InStep(req[v].row, req[v].status)
        BY <2>1, <2>3 DEF Current, Holds, Writing
      <3>2. PICK p \in Ids : p = req[v].row
        BY <3>1
      <3>3. req[v] \in Request
        BY DEF AccountInv, TypeOK
      <3>4. PICK c \in PaymentStatus : c = req[v].status
        BY <3>3 DEF Request
      <3>5. InStep(p, c)'
        BY <3>1, <3>2, <3>4, InStepKept
      <3> QED
        BY <2>1, <3>2, <3>4, <3>5
    <2>4. req[v].pc = "submit" => orders'[req[v].order].now = "none"
      BY <1>2
    <2> QED
      BY <2>1, <2>2, <2>3, <2>4 DEF Current
  <1> QED
    BY <1>1, <1>2 DEF CurrentInv

\* A step that leaves the tables and the gateway alone and does not submit.
LEMMA LocalCurrent ==
    ASSUME AccountInv, CurrentInv, Kept, UNCHANGED <<payments, orders, synced>>,
           NEW w \in Workers, \A v \in Workers : v # w => req'[v] = req[v],
           req'[w].pc # "submit", Current(req[w])'
    PROVE  CurrentInv'
  <1>1. SubmitsAlone'
    BY DEF CurrentInv, SubmitsAlone
  <1>2. \A v \in Workers : req[v].pc = "submit" => orders'[req[v].order].now = "none"
    BY DEF CurrentInv, Current
  <1> QED
    BY <1>1, <1>2, CurrentStep

\* Every step keeps fresh answers true and synced payments right.
LEMMA CurrentNext == AccountInv /\ CurrentInv /\ [Next]_vars => CurrentInv'
  <1> SUFFICES ASSUME AccountInv, CurrentInv, [Next]_vars
               PROVE  CurrentInv'
    OBVIOUS
  <1> USE InputsAssumption, ValuesAssumption
  <1>0. /\ Kept /\ TypeOK /\ RowsOK
        /\ req \in [Workers -> Request] /\ synced \in [Ids -> BOOLEAN]
        /\ \A v \in Workers : Holds(req[v]) /\ Current(req[v])
    BY KeptNext DEF AccountInv, TypeOK, RequestsOK, CurrentInv
  <1>1. ASSUME NEW w \in Workers, InsertPending(w)
        PROVE  CurrentInv'
    <2>1. PICK p \in Ids, ref \in Placeholders :
             /\ ~Exists(p)
             /\ payments' = [payments EXCEPT ![p] =
                               [NoRow EXCEPT !.status = "pending", !.ref = ref]]
             /\ req' = [req EXCEPT ![w] = [Idle EXCEPT !.op = "initiate", !.pc = "submit",
                                                       !.row = p, !.order = p]]
      BY <1>1 DEF InsertPending
    <2>2. UNCHANGED <<orders, synced>> /\ orders[p].now = "none"
      BY <1>1, <2>1 DEF InsertPending, AccountInv, OrdersOK
    <2>3. /\ \A v \in Workers : v # w => req'[v] = req[v]
          /\ req'[w].pc = "submit" /\ req'[w].order = p
      BY <1>0, <2>1 DEF Idle
    <2>4. \A v \in Workers : v # w /\ req[v].pc = "submit" => req[v].order # p
      BY <1>0, <2>1 DEF Holds, Submitting
    <2>5. SubmitsAlone'
      BY <2>3, <2>4 DEF CurrentInv, SubmitsAlone
    <2>6. \A q \in Ids : synced'[q] => /\ synced[q]
                                       /\ payments'[q].status = payments[q].status
      BY <1>0, <2>1, <2>2 DEF CurrentInv, InStep, RowsOf, Matching, TypeOK
    <2>7. Current(req[w])'
      BY <2>2, <2>3 DEF Current
    <2>8. \A v \in Workers : req[v].pc = "submit" => orders'[req[v].order].now = "none"
      BY <1>0, <2>2 DEF Current
    <2> QED
      BY <1>0, <2>2, <2>3, <2>5, <2>6, <2>7, <2>8, CurrentStep
  <1>2. ASSUME NEW w \in Workers, SubmitOrder(w) \/ SubmitOrderFails(w)
        PROVE  CurrentInv'
    <2>1. PICK o \in Ids : /\ o = req[w].order
                           /\ orders' = Moved(o, "open") \/ UNCHANGED orders
      BY <1>2, SubmittedOrder
    <2>2. /\ req[w].pc = "submit" /\ UNCHANGED <<payments, synced>>
          /\ \A v \in Workers : v # w => req'[v] = req[v]
          /\ req'[w].pc \in {"store", "idle"}
      BY <1>0, <1>2 DEF SubmitOrder, SubmitOrderFails, Request, Idle
    <2>3. "open" \in AllOrderStates
      BY DEF AllOrderStates
    <2>4. orders[o].now = "none" /\ \A x \in Ids : x # o => orders'[x] = orders[x]
      <3>1. orders[o].now = "none"
        BY <1>0, <2>1, <2>2 DEF Current
      <3>2. CASE orders' = Moved(o, "open")
        BY <1>0, <2>3, <3>1, <3>2, MovedOrder
      <3> QED
        BY <2>1, <3>1, <3>2
    <2>5. ASSUME NEW v \in Workers, v # w, req[v].pc = "submit"
          PROVE  orders'[req[v].order].now = "none"
      <3>1. req[v].order \in Ids /\ req[v].order # o
        BY <1>0, <2>1, <2>2, <2>5 DEF Holds, Submitting, CurrentInv, SubmitsAlone
      <3> QED
        BY <1>0, <2>4, <2>5, <3>1 DEF Current
    <2>6. SubmitsAlone'
      BY <2>2 DEF CurrentInv, SubmitsAlone
    <2>7. Current(req[w])'
      BY <2>2 DEF Current
    <2> QED
      BY <1>0, <2>2, <2>4, <2>5, <2>6, <2>7, CurrentStep
  <1>3. ASSUME NEW w \in Workers, StoreGatewayState(w) \/ LinkPayment(w)
        PROVE  CurrentInv'
    <2>1. PICK p \in Ids, o \in Ids : payments' = LinkRow(p, o)
      BY <1>3, LinkingRow
    <2>2. \A q \in Ids : payments'[q].status = payments[q].status
      BY <1>0, <2>1, LinkedRow
    <2>3. /\ UNCHANGED <<orders, synced>>
          /\ \A v \in Workers : v # w => req'[v] = req[v]
          /\ req'[w].pc = "idle"
      BY <1>0, <1>3 DEF StoreGatewayState, LinkPayment, Idle
    <2>4. SubmitsAlone'
      BY <2>3 DEF CurrentInv, SubmitsAlone
    <2>5. Current(req[w])'
      BY <2>3 DEF Current
    <2>6. \A v \in Workers : req[v].pc = "submit" => orders'[req[v].order].now = "none"
      BY <1>0, <2>3 DEF Current
    <2> QED
      BY <1>0, <2>2, <2>3, <2>4, <2>5, <2>6, CurrentStep
  <1>4. ASSUME NEW w \in Workers, FindForNotice(w)
        PROVE  CurrentInv'
    <2>1. PICK kind \in NoticeKinds, ref \in Ids \cup Placeholders \cup {None},
               tracking \in Ids \cup {None}, p \in Ids :
             /\ IsFirstMatch(p, ref, tracking)
             /\ req' = [req EXCEPT ![w] =
                   [Idle EXCEPT !.op = "notice", !.pc = "write", !.row = p,
                                !.status = StatusOfNotice(kind, payments[p].status),
                                !.fresh = IF kind = "other" THEN synced[p]
                                          ELSE IsSo(kind, ref, tracking),
                                !.unbacked = IF kind = "other" THEN unbacked[p]
                                             ELSE ~WasSo(kind, ref, tracking)]]
      BY <1>4 DEF FindForNotice
    <2> DEFINE st == StatusOfNotice(kind, payments[p].status)
               fr == IF kind = "other" THEN synced[p] ELSE IsSo(kind, ref, tracking)
    <2>2. kind \in {"paid", "failed", "other"} /\ p \in Matching(ref, tracking)
      BY <2>1 DEF IsFirstMatch
    <2>3. fr => InStep(p, st)
      <3>1. CASE kind = "other"
        BY <3>1 DEF CurrentInv, StatusOfNotice
      <3>2. CASE kind # "other"
        <4> SUFFICES ASSUME IsSo(kind, ref, tracking)
                     PROVE  InStep(p, st)
          BY <3>2
        <4>1. PICK o \in Ids : Names(ref, tracking, o) /\ Says(kind, orders[o].now)
          BY DEF IsSo
        <4>2. p \in RowsOf(o)
          BY <2>2, <4>1 DEF RowsOf, Matching, Names
        <4>3. orders[o].now # "none" /\ st = StatusOfOrder(orders[o].now)
          BY <3>2, <4>1 DEF Says, StatusOfNotice, StatusOfOrder
        <4> QED
          BY <4>2, <4>3 DEF InStep
      <3> QED
        BY <3>1, <3>2
    <2>4. UNCHANGED <<payments, orders, synced>>
      BY <1>4 DEF FindForNotice
    <2>5. st \in PaymentStatus
      BY <1>0, <2>2 DEF StatusOfNotice, TypeOK, Row, PaymentStatus, Exists, Matching
    <2>6. PICK c \in PaymentStatus : c = st
      BY <2>5
    <2>7. /\ \A v \in Workers : v # w => req'[v] = req[v]
          /\ req'[w].pc = "write" /\ req'[w].row = p /\ req'[w].status = c
      BY <1>0, <2>1, <2>6 DEF Idle
    <2>8. req'[w].fresh => fr
      BY <1>0, <2>1 DEF Idle
    <2>9. InStep(p, st) => InStep(p, c)'
      BY <1>0, <2>4, <2>6, InStepKept
    <2> HIDE DEF st, fr
    <2>10. Current(req[w])'
      BY <2>3, <2>7, <2>8, <2>9 DEF Current
    <2> QED
      BY <1>0, <2>4, <2>7, <2>10, LocalCurrent
  <1>5. ASSUME NEW w \in Workers, AskGateway(w)
        PROVE  CurrentInv'
    <2>1. PICK o \in Ids :
             req' = [req EXCEPT ![w] = [Idle EXCEPT !.op = "status", !.pc = "find",
                                               !.order = o, !.answer = orders[o].now,
                                               !.fresh = TRUE]]
      BY <1>5 DEF AskGateway
    <2>2. UNCHANGED <<payments, orders, synced>>
      BY <1>5 DEF AskGateway
    <2>3. /\ \A v \in Workers : v # w => req'[v] = req[v]
          /\ req'[w].pc = "find" /\ req'[w].order = o /\ req'[w].answer = orders[o].now
      BY <1>0, <2>1 DEF Idle
    <2>4. Current(req[w])'
      BY <2>2, <2>3 DEF Current
    <2> QED
      BY <1>0, <2>2, <2>3, <2>4, LocalCurrent
  <1>6. ASSUME NEW w \in Workers, FindForStatus(w)
        PROVE  CurrentInv'
    <2>1. UNCHANGED <<payments, orders, synced>> /\ req[w].pc = "find"
      BY <1>6 DEF FindForStatus
    <2>2. CASE req' = [req EXCEPT ![w] = Idle]
      <3>1. req'[w].pc = "idle" /\ \A v \in Workers : v # w => req'[v] = req[v]
        BY <1>0, <2>2 DEF Idle
      <3>2. Current(req[w])'
        BY <3>1 DEF Current
      <3> QED
        BY <1>0, <2>1, <3>1, <3>2, LocalCurrent
    <2>3. ASSUME NEW p \in Ids, IsFirstMatch(p, req[w].order, req[w].order),
                 req' = [req EXCEPT ![w].pc = "write", ![w].row = p,
                                    ![w].status = StatusOfOrder(req[w].answer)]
          PROVE  CurrentInv'
      <3>1. PICK o \in Ids :
               /\ o = req[w].order /\ p \in RowsOf(o) /\ orders[o].now # "none"
               /\ req[w].answer \in orders[o].past
        BY <1>0, <2>1, <2>3 DEF Holds, Asking, IsFirstMatch, RowsOf, Matching
      <3>2. StatusOfOrder(req[w].answer) \in PaymentStatus
        BY <1>0, <3>1 DEF StatusOfOrder, PaymentStatus, TypeOK, AllOrderStates
      <3>3. PICK c \in PaymentStatus : c = StatusOfOrder(req[w].answer)
        BY <3>2
      <3>4. /\ \A v \in Workers : v # w => req'[v] = req[v]
            /\ req'[w].pc = "write" /\ req'[w].row = p /\ req'[w].status = c
        BY <1>0, <2>3, <3>3 DEF Request
      <3>5. req'[w].fresh => req[w].fresh
        BY <1>0, <2>3 DEF Request
      <3>6. req[w].fresh => InStep(p, c)
        BY <1>0, <2>1, <3>1, <3>3 DEF Current, InStep
      <3>7. InStep(p, c) => InStep(p, c)'
        BY <1>0, <2>1, InStepKept
      <3>8. Current(req[w])'
        BY <3>4, <3>5, <3>6, <3>7 DEF Current
      <3> QED
        BY <1>0, <2>1, <3>4, <3>8, LocalCurrent
    <2> QED
      BY <1>6, <2>2, <2>3 DEF FindForStatus
  <1>7. ASSUME NEW w \in Workers, UpdateFromIPNFails(w) \/ Abort(w)
        PROVE  CurrentInv'
    <2>1. UNCHANGED <<payments, orders, synced>>
      BY <1>7 DEF UpdateFromIPNFails, Abort
    <2>2. /\ \A v \in Workers : v # w => req'[v] = req[v]
          /\ req'[w].pc \in {"link", "idle"}
      BY <1>0, <1>7 DEF UpdateFromIPNFails, Abort, Idle, Request
    <2>3. Current(req[w])'
      BY <2>2 DEF Current
    <2> QED
      BY <1>0, <2>1, <2>2, <2>3, LocalCurrent
  <1>8. ASSUME NEW w \in Workers, UpdateFromIPN(w)
        PROVE  CurrentInv'
    <2>1. PICK p \in Ids :
             /\ p = req[w].row /\ req[w].status \in PaymentStatus
             /\ payments' = [payments EXCEPT ![p].status = req[w].status]
             /\ synced' = [synced EXCEPT ![p] = req[w].fresh]
      BY <1>8, WritingRow
    <2>2. /\ payments'[p].status = req[w].status
          /\ \A q \in Ids : q # p => payments'[q] = payments[q]
      <3>1. PICK c \in PaymentStatus : c = req[w].status
        BY <2>1
      <3>2. payments' = [payments EXCEPT ![p].status = c]
        BY <2>1, <3>1
      <3> QED
        BY <1>0, <3>1, <3>2, StatusWritten
    <2>3. /\ \A q \in Ids : q # p => synced'[q] = synced[q]
          /\ synced'[p] => req[w].fresh
      BY <1>0, <2>1
    <2>4. UNCHANGED orders /\ req[w].pc = "write"
      BY <1>8 DEF UpdateFromIPN
    <2>5. PICK c \in PaymentStatus : c = req[w].status
      BY <2>1
    <2>6. req[w].fresh => InStep(p, c)
      BY <1>0, <2>1, <2>4, <2>5 DEF Current
    <2>7. req[w].fresh => InStep(p, c)'
      BY <1>0, <2>4, <2>6, InStepKept
    <2>8. synced'[p] => InStep(p, payments[p].status)'
      BY <2>2, <2>3, <2>5, <2>7
    <2>9. /\ \A v \in Workers : v # w => req'[v] = req[v]
          /\ req'[w].pc \in {"link", "idle"}
      BY <1>0, <1>8 DEF UpdateFromIPN, Idle, Request
    <2>10. SubmitsAlone'
      BY <2>9 DEF CurrentInv, SubmitsAlone
    <2>11. Current(req[w])'
      BY <2>9 DEF Current
    <2>12. \A v \in Workers : req[v].pc = "submit" => orders'[req[v].order].now = "none"
      BY <1>0, <2>4 DEF Current
    <2>13. \A q \in Ids : synced'[q] =>
              \/ synced[q] /\ payments'[q].status = payments[q].status
              \/ InStep(q, payments[q].status)'
      BY <2>2, <2>3, <2>8
    <2> QED
      BY <1>0, <2>4, <2>9, <2>10, <2>11, <2>12, <2>13, CurrentStep
  <1>9. CASE RecordManual
    <2>1. PICK p \in Ids : /\ ~Exists(p)
                           /\ \A q \in Ids : q # p => payments'[q] = payments[q]
      BY <1>0, <1>9 DEF RecordManual, TypeOK
    <2>2. UNCHANGED <<orders, req, synced>>
      BY <1>9 DEF RecordManual
    <2>3. ASSUME NEW q \in Ids, synced'[q]
          PROVE  InStep(q, payments[q].status)'
      <3>1. InStep(q, payments[q].status) /\ q # p
        BY <2>1, <2>2, <2>3 DEF CurrentInv, InStep, RowsOf, Matching
      <3> QED
        BY <1>0, <2>1, <2>2, <3>1, InStepKept
    <2>4. ASSUME NEW v \in Workers
          PROVE  Current(req[v])'
      <3>1. ASSUME req[v].pc = "write", req[v].fresh
            PROVE  InStep(req[v].row, req[v].status)'
        <4>1. PICK q \in Ids : q = req[v].row
          BY <1>0, <3>1 DEF Holds, Writing
        <4>2. PICK c \in PaymentStatus : c = req[v].status
          BY <1>0 DEF Request
        <4>3. InStep(q, c)
          BY <1>0, <3>1, <4>1, <4>2 DEF Current
        <4>4. InStep(q, c)'
          BY <1>0, <2>2, <4>3, InStepKept
        <4> QED
          BY <2>2, <4>1, <4>2, <4>4
      <3> QED
        BY <1>0, <2>2, <3>1 DEF Current
    <2> QED
      BY <2>2, <2>3, <2>4 DEF CurrentInv, SubmitsAlone
  <1>10. CASE MoveOrder
    <2>1. PICK o \in Ids, to \in OrderStates :
             /\ <<orders[o].now, to>> \in OrderMoves
             /\ orders' = Moved(o, to)
             /\ req' = [w \in Workers |->
                          [req[w] EXCEPT !.fresh = /\ req[w].fresh
                                                   /\ req[w].order # o
                                                   /\ req[w].row \notin RowsOf(o)]]
             /\ synced' = [p \in Ids |-> synced[p] /\ p \notin RowsOf(o)]
      BY <1>10 DEF MoveOrder
    <2>2. /\ UNCHANGED payments /\ orders[o].now # "none"
          /\ \A x \in Ids : x # o => orders'[x] = orders[x]
      BY <1>0, <1>10, <2>1, MovedOrder DEF MoveOrder, OrderMoves
    <2>3. ASSUME NEW q \in Ids, NEW c, InStep(q, c), q \notin RowsOf(o)
          PROVE  InStep(q, c)'
      BY <1>0, <2>2, <2>3, InStepKept
    <2>4. ASSUME NEW q \in Ids, synced'[q]
          PROVE  InStep(q, payments[q].status)'
      BY <2>1, <2>2, <2>3, <2>4 DEF CurrentInv
    <2>5. ASSUME NEW v \in Workers
          PROVE  /\ req'[v].pc = req[v].pc /\ req'[v].order = req[v].order
                 /\ req'[v].row = req[v].row /\ req'[v].status = req[v].status
                 /\ req'[v].answer = req[v].answer
                 /\ req'[v].fresh => /\ req[v].fresh /\ req[v].order # o
                                     /\ req[v].row \notin RowsOf(o)
      <3> DEFINE fr == req[v].fresh /\ req[v].order # o /\ req[v].row \notin RowsOf(o)
      <3>1. req'[v] = [req[v] EXCEPT !.fresh = fr]
        BY <2>1
      <3> HIDE DEF fr
      <3>2. /\ req'[v].pc = req[v].pc /\ req'[v].order = req[v].order
            /\ req'[v].row = req[v].row /\ req'[v].status = req[v].status
            /\ req'[v].answer = req[v].answer
        BY <1>0, <3>1 DEF Request
      <3>3. req'[v].fresh => fr
        BY <1>0, <3>1 DEF Request
      <3> QED
        BY <3>2, <3>3 DEF fr
    <2>6. SubmitsAlone'
      BY <2>5 DEF CurrentInv, SubmitsAlone
    <2>7. ASSUME NEW v \in Workers
          PROVE  Current(req[v])'
      <3>1. ASSUME req[v].pc = "find", req'[v].fresh
            PROVE  req'[v].answer = orders'[req'[v].order].now
        <4>1. PICK x \in Ids : x = req[v].order
          BY <1>0, <3>1 DEF Holds, Asking
        <4>2. x # o /\ req[v].answer = orders[x].now
          BY <1>0, <2>5, <3>1, <4>1 DEF Current
        <4> QED
          BY <2>2, <2>5, <4>1, <4>2
      <3>2. ASSUME req[v].pc = "submit"
            PROVE  orders'[req'[v].order].now = "none"
        <4>1. PICK x \in Ids : x = req[v].order
          BY <1>0, <3>2 DEF Holds, Submitting
        <4>2. x # o /\ orders[x].now = "none"
          BY <1>0, <2>2, <3>2, <4>1 DEF Current
        <4> QED
          BY <2>2, <2>5, <4>1, <4>2
      <3>3. ASSUME req[v].pc = "write", req'[v].fresh
            PROVE  InStep(req[v].row, req[v].status)'
        <4>1. PICK q \in Ids : q = req[v].row
          BY <1>0, <3>3 DEF Holds, Writing
        <4>2. PICK c \in PaymentStatus : c = req[v].status
          BY <1>0 DEF Request
        <4>3. InStep(q, c) /\ q \notin RowsOf(o)
          BY <1>0, <2>5, <3>3, <4>1, <4>2 DEF Current
        <4>4. InStep(q, c)'
          BY <2>3, <4>3
        <4> QED
          BY <2>5, <4>1, <4>2, <4>4
      <3> QED
        BY <2>5, <3>1, <3>2, <3>3 DEF Current
    <2> QED
      BY <2>4, <2>6, <2>7 DEF CurrentInv
  <1>11. CASE UNCHANGED vars
    BY <1>11 DEF vars, CurrentInv, SubmitsAlone, Current, InStep, RowsOf, Matching, Exists
  <1> QED
    BY <1>1, <1>2, <1>3, <1>4, <1>5, <1>6, <1>7, <1>8, <1>9, <1>10, <1>11 DEF Next, Step

-----------------------------------------------------------------------------
(***************************************************************************)
(* The theorems.                                                           *)
(***************************************************************************)
LEMMA AccountInvariant == Spec => []AccountInv
  BY AccountInit, AccountNext, PTL DEF Spec

\* The table, the gateway and the requests have the types the model gives
\* them in every reachable state.
THEOREM TypeCorrect == Spec => []TypeOK
  <1>1. AccountInv => TypeOK
    BY DEF AccountInv
  <1> QED
    BY <1>1, AccountInvariant, PTL

\* Whatever callbacks say, and however they are lost, repeated, delayed and
\* reordered, a gateway payment whose last word was not an unbacked callback's
\* completes or fails only because its order did.
THEOREM CauseCorrect == Spec => []StatusHasCause
  <1>1. AccountInv => StatusHasCause
    <2> SUFFICES ASSUME AccountInv, NEW p \in Ids, ~payments[p].manual, ~unbacked[p],
                        payments[p].status \in {"completed", "failed"}
                 PROVE  /\ payments[p].status = "completed" => "paid" \in orders[p].past
                        /\ payments[p].status = "failed" =>
                              orders[p].past \cap {"failed", "reversed"} # {}
      BY DEF StatusHasCause
    <2>1. PICK o \in Ids : /\ p \in RowsOf(o)
                           /\ \E s \in orders[o].past : payments[p].status = StatusOfOrder(s)
      BY DEF AccountInv, StatusAccounted, Exists, Accounted, Told
    <2>2. o = p
      BY <2>1, OneOrder DEF AccountInv
    <2>3. orders[o].past \subseteq AllOrderStates
      BY DEF AccountInv, TypeOK
    <2> QED
      BY <2>1, <2>2, <2>3 DEF StatusOfOrder, AllOrderStates
  <1> QED
    BY <1>1, AccountInvariant, PTL

\* A gateway payment is settled, by anything the gateway backs, only after its
\* own references were stored.
THEOREM LinkedCorrect == Spec => []SettledIsLinked
  <1>1. AccountInv => SettledIsLinked
    <2> SUFFICES ASSUME AccountInv, NEW p \in Ids, ~payments[p].manual, ~unbacked[p],
                        payments[p].status \in {"completed", "failed"}
                 PROVE  payments[p].ref = p /\ payments[p].tracking = p
      BY DEF SettledIsLinked
    <2>1. PICK o \in Ids : p \in RowsOf(o)
      BY DEF AccountInv, StatusAccounted, Exists, Accounted, Told
    <2> QED
      BY <2>1, OneOrder DEF AccountInv
  <1> QED
    BY <1>1, AccountInvariant, PTL

\* Whatever references manual payments are given, an order's or not, one stays
\* received and apart from the gateway unless its reference is that of a placed
\* order or an unbacked callback names it.
THEOREM ManualCorrect == Spec => []ManualStaysReceived
  <1>1. AccountInv => ManualStaysReceived
    <2> SUFFICES ASSUME AccountInv, NEW p \in Ids, payments[p].manual
                 PROVE  /\ payments[p].status # "completed" /\ ~unbacked[p] =>
                             \E o \in Ids :
                                /\ payments[p].ref = o
                                /\ \E s \in orders[o].past :
                                      payments[p].status = StatusOfOrder(s)
                        /\ payments[p].provider # "manual" =>
                              \E o \in Ids :
                                /\ payments[p].ref = o /\ payments[p].tracking = o
                                /\ orders[o].now # "none"
      BY DEF ManualStaysReceived
    <2>1. Exists(p)
      BY DEF AccountInv, RowsOK
    <2>2. ASSUME payments[p].status # "completed", ~unbacked[p]
          PROVE  \E o \in Ids : /\ payments[p].ref = o
                                /\ \E s \in orders[o].past :
                                      payments[p].status = StatusOfOrder(s)
      <3>1. PICK o \in Ids :
               /\ p \in RowsOf(o)
               /\ \E s \in orders[o].past : payments[p].status = StatusOfOrder(s)
        BY <2>1, <2>2 DEF AccountInv, StatusAccounted, Accounted, Told
      <3> QED
        BY <3>1, OneOrder DEF AccountInv
    <2> QED
      BY <2>2 DEF AccountInv, ProvidersOK
  <1> QED
    BY <1>1, AccountInvariant, PTL

\* A status written from what the gateway still says is right, whatever else
\* is in progress for the payment.
THEOREM SyncedCorrect == Spec => []SyncedIsRight
  <1>1. Init => CurrentInv
    BY DEF Init, CurrentInv, SubmitsAlone, Current, Idle
  <1>2. AccountInv /\ CurrentInv => SyncedIsRight
    <2> SUFFICES ASSUME AccountInv, CurrentInv, NEW p \in Ids, NEW o \in Ids,
                        synced[p], p \in RowsOf(o)
                 PROVE  payments[p].status = StatusOfOrder(orders[o].now)
      BY DEF SyncedIsRight
    <2>1. PICK x \in Ids : /\ p \in RowsOf(x)
                           /\ payments[p].status = StatusOfOrder(orders[x].now)
      BY DEF CurrentInv, InStep
    <2>2. x = payments[p].ref /\ o = payments[p].ref
      BY <2>1, OneOrder DEF AccountInv
    <2> QED
      BY <2>1, <2>2
  <1> QED
    BY <1>1, <1>2, CurrentNext, AccountInvariant, PTL DEF Spec
=============================================================================
