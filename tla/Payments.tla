------------------------------ MODULE Payments ------------------------------
(***************************************************************************)
(* The payments service (internal/modules/payments): initiating a payment  *)
(* at the Pesapal gateway, recording one by hand, and the two ways the     *)
(* local status follows the gateway's, the IPN callback and the            *)
(* transaction status query.                                               *)
(*                                                                         *)
(* A worker is one request being served; one step of it is one SQL         *)
(* statement or one call of the gateway, and any other request may run     *)
(* between two steps.  The gateway is outside the repository: it keeps an  *)
(* order per submission and moves it as the customer pays.  Its notices    *)
(* may be lost, repeated, delayed and reordered, and the route they come   *)
(* by is public: a callback may say anything, whoever sends it.  Requests  *)
(* refused before their first statement with an effect are not steps.      *)
(*                                                                         *)
(* The submission carries the payment's primary key as the merchant        *)
(* reference and the gateway echoes it; a payment and its order share      *)
(* their name here.  Keys are compared, because First() orders by them.    *)
(*                                                                         *)
(* A definition whose name is another's with a suffix (MatchingUnset) is a *)
(* faulty variant of it that no run uses: put in its place, it shows that  *)
(* a property would notice the fault.                                      *)
(***************************************************************************)
EXTENDS Integers, FiniteSets

CONSTANTS Workers,     \* requests that may be in progress at once
          Ids,         \* primary keys the payments table may use
          ManualRefs,  \* external_ref of POST .../payments/manual
          OrderStates, \* states the gateway's orders may take
          NoticeKinds, \* OrderNotificationType of a callback
          Failures,    \* whether statements and calls may fail
          Placeholders, \* made-up values of external_ref that name no order
          None         \* no payment, no order, an empty reference or tracking id

PaymentStatus == {"pending", "completed", "failed"}
AllOrderStates == {"open", "paid", "failed", "reversed"}

ASSUME InputsAssumption ==
    /\ Ids \subseteq Nat
    /\ OrderStates \subseteq AllOrderStates
    /\ NoticeKinds \subseteq {"paid", "failed", "other"}
    /\ Failures \in BOOLEAN

ASSUME ValuesAssumption ==
    /\ None \notin Nat /\ Placeholders \cap (Nat \cup {None}) = {}
    /\ ManualRefs \subseteq Ids \cup Placeholders

VARIABLES
    payments, \* the payments table; status "absent" is a key not in use
    orders,   \* the gateway's orders: the state each is in and those it has been in
    req,      \* what each request in progress holds in its local variables
    synced,   \* history: the status was last written from what the gateway
              \* still says
    unbacked  \* history: the status was last written on the word of a callback
              \* that the gateway does not back

vars == <<payments, orders, req, synced, unbacked>>

\* A row of the table.  manual is history: the provider column may change.
Row == [status: PaymentStatus \cup {"absent"}, provider: {"pesapal", "manual"},
        ref: Ids \cup Placeholders \cup {None}, tracking: Ids \cup {None}, manual: BOOLEAN]

NoRow == [status |-> "absent", provider |-> "pesapal", ref |-> None,
          tracking |-> None, manual |-> FALSE]

\* A request: the row and the order it works on, and the status it will
\* store.  fresh and unbacked are history, what synced and unbacked of the row
\* are to become: fresh, that the order has not changed since the answer or the
\* callback (or the row whose status is to be kept) last agreed with it.
Request == [op: {"none", "initiate", "notice", "status"},
            pc: {"idle", "submit", "store", "find", "write", "link"},
            row: Ids \cup {None}, order: Ids \cup {None},
            answer: AllOrderStates \cup {"none"},
            status: PaymentStatus, fresh: BOOLEAN, unbacked: BOOLEAN]

Idle == [op |-> "none", pc |-> "idle", row |-> None, order |-> None,
         answer |-> "none", status |-> "pending", fresh |-> FALSE, unbacked |-> FALSE]

TypeOK ==
    /\ payments \in [Ids -> Row]
    /\ orders \in [Ids -> [now: AllOrderStates \cup {"none"}, past: SUBSET AllOrderStates]]
    /\ req \in [Workers -> Request]
    /\ synced \in [Ids -> BOOLEAN]
    /\ unbacked \in [Ids -> BOOLEAN]

Init ==
    /\ payments = [p \in Ids |-> NoRow]
    /\ orders = [p \in Ids |-> [now |-> "none", past |-> {}]]
    /\ req = [w \in Workers |-> Idle]
    /\ synced = [p \in Ids |-> FALSE]
    /\ unbacked = [p \in Ids |-> FALSE]

-----------------------------------------------------------------------------
Exists(p) == payments[p].status # "absent"

MatchingUnset(ref, tracking) ==
    {p \in Ids : Exists(p) /\ (payments[p].ref = ref \/ payments[p].tracking = tracking)}

\* FindByMerchantRefOrTrackingID: the row with the smallest key of those with
\* the reference or the tracking id; an empty one is not compared.
Matching(ref, tracking) ==
    {p \in Ids : /\ Exists(p)
                 /\ \/ ref # None /\ payments[p].ref = ref
                    \/ tracking # None /\ payments[p].tracking = tracking}

IsFirstMatch(p, ref, tracking) ==
    p \in Matching(ref, tracking) /\ \A q \in Matching(ref, tracking) : p <= q

\* The rows that carry an order's reference or tracking id.
RowsOf(o) == Matching(o, o)

StatusOfNoticeVerbatim(kind, current) == kind

StatusOfNoticeOptimistic(kind, current) ==
    IF kind = "failed" THEN "failed" ELSE "completed"

\* mapProviderNotificationToPaymentStatus: an unknown type keeps what it was.
StatusOfNotice(kind, current) ==
    CASE kind = "paid"   -> "completed"
      [] kind = "failed" -> "failed"
      [] OTHER           -> current

\* mapProviderStatusCodeToPaymentStatus: codes 0, 1, 2 and 3 in this order.
StatusOfOrder(state) ==
    CASE state = "open"                   -> "pending"
      [] state = "paid"                   -> "completed"
      [] state \in {"failed", "reversed"} -> "failed"

-----------------------------------------------------------------------------
(***************************************************************************)
(* The gateway.                                                            *)
(***************************************************************************)

\* What the customer and the merchant's bank may do to an order.
OrderMoves == {<<"open", "paid">>, <<"open", "failed">>, <<"failed", "paid">>,
               <<"paid", "reversed">>}

Moved(o, to) == [orders EXCEPT ![o] = [now |-> to, past |-> @.past \cup {to}]]

\* The order changes; what requests hold about it is out of date.
MoveOrder ==
    /\ \E o \in Ids, to \in OrderStates :
          /\ <<orders[o].now, to>> \in OrderMoves
          /\ orders' = Moved(o, to)
          /\ req' = [w \in Workers |->
                       [req[w] EXCEPT !.fresh = /\ req[w].fresh
                                                /\ req[w].order # o
                                                /\ req[w].row \notin RowsOf(o)]]
          /\ synced' = [p \in Ids |-> synced[p] /\ p \notin RowsOf(o)]
    /\ UNCHANGED <<payments, unbacked>>

\* A callback's word against a state of an order.
Says(kind, state) ==
    \/ kind = "paid" /\ state = "paid"
    \/ kind = "failed" /\ state \in {"failed", "reversed"}

\* A callback that names this order and nothing else.
Names(ref, tracking, o) == o \in {ref, tracking} /\ {ref, tracking} \subseteq {o, None}

\* What a callback says was so of the order it names, or is so still.
WasSo(kind, ref, tracking) ==
    \E o \in Ids : Names(ref, tracking, o) /\ \E s \in orders[o].past : Says(kind, s)

IsSo(kind, ref, tracking) ==
    \E o \in Ids : Names(ref, tracking, o) /\ Says(kind, orders[o].now)

-----------------------------------------------------------------------------
(***************************************************************************)
(* Initiate and RecordManual.                                              *)
(***************************************************************************)

\* Initiate: INSERT a pending payment with a placeholder reference.
InsertPending(w) ==
    /\ req[w].pc = "idle"
    /\ \E p \in Ids, ref \in Placeholders :
          /\ ~Exists(p)
          /\ payments' = [payments EXCEPT ![p] =
                            [NoRow EXCEPT !.status = "pending", !.ref = ref]]
          /\ req' = [req EXCEPT ![w] = [Idle EXCEPT !.op = "initiate", !.pc = "submit",
                                                    !.row = p, !.order = p]]
    /\ UNCHANGED <<orders, synced, unbacked>>

\* Initiate: the gateway accepts the order and its answer arrives.
SubmitOrder(w) ==
    /\ req[w].pc = "submit"
    /\ orders' = Moved(req[w].order, "open")
    /\ req' = [req EXCEPT ![w].pc = "store"]
    /\ UNCHANGED <<payments, synced, unbacked>>

\* The gateway refuses the order, or accepts it and the answer is lost; the
\* caller is answered with the pending payment all the same.
SubmitOrderFails(w) ==
    /\ Failures
    /\ req[w].pc = "submit"
    /\ \/ UNCHANGED orders
       \/ orders' = Moved(req[w].order, "open")
    /\ req' = [req EXCEPT ![w] = Idle]
    /\ UNCHANGED <<payments, synced, unbacked>>

\* UpdateGatewayState: provider, reference and tracking id of the row.
LinkRow(p, o) ==
    [payments EXCEPT ![p].provider = "pesapal", ![p].ref = o, ![p].tracking = o]

\* Initiate: store the references the gateway returned.
StoreGatewayState(w) ==
    /\ req[w].pc = "store"
    /\ payments' = LinkRow(req[w].row, req[w].order)
    /\ req' = [req EXCEPT ![w] = Idle]
    /\ UNCHANGED <<orders, synced, unbacked>>

\* RecordManual: INSERT a completed payment, with a reference the caller
\* gives or one made up.
RecordManual ==
    /\ \E p \in Ids, ref \in ManualRefs :
          /\ ~Exists(p)
          /\ payments' = [payments EXCEPT ![p] =
                [NoRow EXCEPT !.status = "completed", !.provider = "manual",
                              !.ref = ref, !.manual = TRUE]]
    /\ UNCHANGED <<orders, req, synced, unbacked>>

-----------------------------------------------------------------------------
(***************************************************************************)
(* HandlePesapalIPN.                                                       *)
(***************************************************************************)

\* Find the row by whatever the callback names and decide its next status from
\* the one just read; a callback that matches no row is acknowledged and forgotten.
FindForNotice(w) ==
    /\ req[w].pc = "idle"
    /\ \E kind \in NoticeKinds, ref \in Ids \cup Placeholders \cup {None},
          tracking \in Ids \cup {None}, p \in Ids :
          /\ IsFirstMatch(p, ref, tracking)
          /\ req' = [req EXCEPT ![w] =
                [Idle EXCEPT !.op = "notice", !.pc = "write", !.row = p,
                             !.status = StatusOfNotice(kind, payments[p].status),
                             !.fresh = IF kind = "other" THEN synced[p]
                                       ELSE IsSo(kind, ref, tracking),
                             !.unbacked = IF kind = "other" THEN unbacked[p]
                                          ELSE ~WasSo(kind, ref, tracking)]]
    /\ UNCHANGED <<payments, orders, synced, unbacked>>

-----------------------------------------------------------------------------
(***************************************************************************)
(* GetTransactionStatus.                                                   *)
(***************************************************************************)

\* Ask the gateway.
AskGateway(w) ==
    /\ req[w].pc = "idle"
    /\ \E o \in Ids :
          /\ orders[o].now # "none"
          /\ req' = [req EXCEPT ![w] = [Idle EXCEPT !.op = "status", !.pc = "find",
                                            !.order = o, !.answer = orders[o].now,
                                            !.fresh = TRUE]]
    /\ UNCHANGED <<payments, orders, synced, unbacked>>

FindForStatusKept(w) ==
    LET o == req[w].order
    IN  /\ req[w].pc = "find"
        /\ \/ /\ RowsOf(o) = {}
              /\ req' = [req EXCEPT ![w] = Idle]
           \/ \E p \in Ids :
                 /\ IsFirstMatch(p, o, o)
                 /\ req' = [req EXCEPT ![w].pc = "write", ![w].row = p,
                                       ![w].status = payments[p].status]
        /\ UNCHANGED <<payments, orders, synced, unbacked>>

\* Find the row the answer is about; with none, answer the caller.
FindForStatus(w) ==
    LET o == req[w].order
    IN  /\ req[w].pc = "find"
        /\ \/ /\ RowsOf(o) = {}
              /\ req' = [req EXCEPT ![w] = Idle]
           \/ \E p \in Ids :
                 /\ IsFirstMatch(p, o, o)
                 /\ req' = [req EXCEPT ![w].pc = "write", ![w].row = p,
                                       ![w].status = StatusOfOrder(req[w].answer)]
        /\ UNCHANGED <<payments, orders, synced, unbacked>>

\* UpdateFromIPN: store the status, whatever the row's is by now.
UpdateFromIPN(w) ==
    LET r == req[w]
        rest == IF r.op = "status" THEN [r EXCEPT !.pc = "link"] ELSE Idle
    IN  /\ r.pc = "write"
        /\ payments' = [payments EXCEPT ![r.row].status = r.status]
        /\ synced' = [synced EXCEPT ![r.row] = r.fresh]
        /\ unbacked' = [unbacked EXCEPT ![r.row] = r.unbacked]
        /\ req' = [req EXCEPT ![w] = rest]
        /\ UNCHANGED orders

\* The error of that statement is dropped after a status query.
UpdateFromIPNFails(w) ==
    /\ Failures
    /\ req[w].op = "status" /\ req[w].pc = "write"
    /\ req' = [req EXCEPT ![w].pc = "link"]
    /\ UNCHANGED <<payments, orders, synced, unbacked>>

\* Store the references of the answer in the row.
LinkPayment(w) ==
    /\ req[w].pc = "link"
    /\ payments' = LinkRow(req[w].row, req[w].order)
    /\ req' = [req EXCEPT ![w] = Idle]
    /\ UNCHANGED <<orders, synced, unbacked>>

\* A statement fails or the process stops: the rest does not happen.  A
\* callback has been acknowledged, or will not be sent again.
Abort(w) ==
    /\ Failures
    /\ req[w].pc # "idle"
    /\ req' = [req EXCEPT ![w] = Idle]
    /\ UNCHANGED <<payments, orders, synced, unbacked>>

Step(w) ==
    \/ InsertPending(w) \/ SubmitOrder(w) \/ SubmitOrderFails(w) \/ StoreGatewayState(w)
    \/ FindForNotice(w) \/ AskGateway(w) \/ FindForStatus(w) \/ UpdateFromIPN(w)
    \/ UpdateFromIPNFails(w) \/ LinkPayment(w) \/ Abort(w)

Next ==
    \/ \E w \in Workers : Step(w)
    \/ RecordManual
    \/ MoveOrder

Spec == Init /\ [][Next]_vars

-----------------------------------------------------------------------------
(***************************************************************************)
(* Properties.                                                             *)
(***************************************************************************)

\* Unless the last word was a callback's that the gateway does not back, a
\* payment taken through the gateway is completed, or failed, only if its order
\* was paid, or failed or reversed, at some time: no repeated, late or
\* misdirected callback of what was so, none of an unknown type and no answer
\* makes up an outcome, and an answer puts right what an unbacked callback wrote.
StatusHasCause ==
    \A p \in Ids : ~payments[p].manual /\ ~unbacked[p] =>
        /\ payments[p].status = "completed" => "paid" \in orders[p].past
        /\ payments[p].status = "failed" => orders[p].past \cap {"failed", "reversed"} # {}

\* Only the references stored by Initiate let the gateway settle a payment: a
\* payment whose references were never stored stays pending whatever the
\* customer pays, and whatever the gateway says of that or of another order.
SettledIsLinked ==
    \A p \in Ids :
        /\ ~payments[p].manual /\ ~unbacked[p]
        /\ payments[p].status \in {"completed", "failed"}
        => payments[p].ref = p /\ payments[p].tracking = p

\* A status written from what the gateway still says is the order's until the
\* order changes or another request writes, whatever other requests and
\* callbacks about the payment are in progress: only a write of what the
\* gateway no longer says, or a lost write, leaves a linked payment wrong.
SyncedIsRight ==
    \A p, o \in Ids : synced[p] /\ p \in RowsOf(o) =>
        payments[p].status = StatusOfOrder(orders[o].now)

\* A payment recorded by hand is already received.  Only the reference of an
\* order that was placed, given as external_ref, exposes it to the gateway: then
\* it takes a status that order had and may become the gateway's; with any
\* other reference only a callback the gateway does not back can change it.
ManualStaysReceived ==
    \A p \in Ids : payments[p].manual =>
        /\ payments[p].status # "completed" /\ ~unbacked[p] =>
              \E o \in Ids : /\ payments[p].ref = o
                             /\ \E s \in orders[o].past : payments[p].status = StatusOfOrder(s)
        /\ payments[p].provider # "manual" =>
              \E o \in Ids : /\ payments[p].ref = o /\ payments[p].tracking = o
                             /\ orders[o].now # "none"

\* "Queries Pesapal GetTransactionStatus by order tracking ID and syncs local
\* payment status", handler.go of the payments: a payment in step with a paid
\* order is not taken out of step while the order stays paid.
PaidStaysCompleted ==
    [][\A p \in Ids :
          synced[p] /\ payments[p].status = "completed" /\ orders[p].now = "paid"
             => payments'[p].status = "completed"]_vars
=============================================================================
