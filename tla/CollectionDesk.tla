--------------------------- MODULE CollectionDesk ---------------------------
(***************************************************************************)
(* The collection desk of payments: ReminderCandidates lists what a tenant *)
(* may be reminded of, and SendReminders records reminders for the ids it  *)
(* is given, one INSERT into payment_reminders at a time (nothing is sent) *)
(* while charges are billed and paid, leases begin and end, and another    *)
(* clerk does the same.                                                    *)
(*                                                                         *)
(* The desk and the worker (Reminders) read the same charges and write     *)
(* nothing the other reads: a behaviour tells of one of them.              *)
(*                                                                         *)
(* A definition whose name is another's with a suffix (...FailsUnnoticed)  *)
(* is a faulty variant of it that no run uses: put in its place, it shows  *)
(* that a property would notice the fault.                                 *)
(***************************************************************************)
EXTENDS Reminders, Sequences

CONSTANTS Clerks,    \* requests of SendReminders in progress at a time
          Leases,    \* rows of leases; their ids are no charge's
          LeaseOf,   \* the lease of each charge
          MaxSends,  \* bound: requests of SendReminders
          MaxIds,    \* bound: ids in a request
          MaxChanges \* bound: changes of charges and leases

ASSUME DeskAssumption ==
    /\ IsFiniteSet(Clerks)
    /\ LeaseOf \in [Charges -> Leases] /\ Leases \cap Charges = {}
    /\ MaxSends \in Nat /\ MaxIds \in Nat /\ MaxChanges \in Nat

Ids   == Charges \cup Leases
Lists == UNION {[1..n -> Ids] : n \in 1..MaxIds}

VARIABLES
    told,     \* what the behaviour is about: "worker" or "desk"
    bill,     \* rent_charges
    live,     \* the leases that are active or await approval
    reminder, \* payment_reminders, counted by charge_id
    desk,     \* the request of each clerk
    sends,    \* the requests still to come
    changes,  \* the changes of charges and leases still to come
    answered  \* history, by id: the reminders that answers vouch for

deskVars == <<bill, live, reminder, desk, sends, changes, answered>>

\* A charge as the desk sees it: unpaid and due in an earlier month or in this
\* one, or neither: not billed yet, due in a later month, or settled.
Bill == {"overdue", "due", "other"}

\* A request: its ids, how many are handled, the candidates it read, how many
\* it skipped, and the ids it recorded.
Send == [pc: {"idle", "each"}, ids: Lists \cup {<<>>}, at: 0..MaxIds,
         byID: SUBSET Ids, skipped: 0..MaxIds, sent: Seq(Ids)]

NoSend == [pc |-> "idle", ids |-> <<>>, at |-> 0, byID |-> {}, skipped |-> 0,
           sent |-> <<>>]

DeskTypeOK ==
    /\ TypeOK
    /\ told \in {"worker", "desk"}
    /\ bill \in [Charges -> Bill] /\ live \subseteq Leases
    /\ reminder \in [Ids -> Nat] /\ answered \in [Ids -> Nat]
    /\ desk \in [Clerks -> Send] /\ sends \in 0..MaxSends /\ changes \in 0..MaxChanges

DeskInit ==
    /\ Init
    /\ told \in {"worker", "desk"}
    /\ bill \in [Charges -> Bill] /\ live \in SUBSET Leases
    /\ told = "worker" => live = {} /\ \A c \in Charges : bill[c] = "other"
    /\ reminder = [i \in Ids |-> 0] /\ answered = reminder
    /\ desk = [k \in Clerks |-> NoSend]
    /\ sends = MaxSends /\ changes = MaxChanges

-----------------------------------------------------------------------------
\* ReminderCandidates: the unpaid charges due before next month, and, under
\* their own ids, the live leases without one that is due this month: those
\* not billed yet, and those whose charge is settled.
Candidates ==
    {c \in Charges : bill[c] \in {"overdue", "due"}} \cup
    {l \in live : \A c \in Charges : LeaseOf[c] = l => bill[c] # "due"}

\* External: billing, a new month, a payment's allocation.
ChangeBill ==
    /\ \E c \in Charges, b \in Bill : bill' = [bill EXCEPT ![c] = b]
    /\ changes > 0 /\ changes' = changes - 1
    /\ UNCHANGED <<live, reminder, desk, sends, answered>>

\* Leases begin and end, in requests of their own.
ChangeLease ==
    /\ \E l \in Leases : live' \in {live \cup {l}, live \ {l}}
    /\ changes > 0 /\ changes' = changes - 1
    /\ UNCHANGED <<bill, reminder, desk, sends, answered>>

\* SendReminders, up to its loop: the candidates are read once.
SendReminders(k) ==
    /\ desk[k].pc = "idle" /\ sends > 0
    /\ sends' = sends - 1
    /\ \E ids \in Lists :
          desk' = [desk EXCEPT ![k] = [NoSend EXCEPT !.pc = "each", !.ids = ids,
                                                     !.byID = Candidates]]
    /\ UNCHANGED <<bill, live, reminder, changes, answered>>

Current(k) == desk[k].ids[desk[k].at + 1]

InLoop(k) == desk[k].pc = "each" /\ desk[k].at < Len(desk[k].ids)

\* The id is looked up among the candidates that were read, whatever has
\* become of them since.
Candidate(k) == Current(k) \in desk[k].byID

Skip(k) ==
    /\ InLoop(k) /\ ~Candidate(k)
    /\ desk' = [desk EXCEPT ![k].at = @ + 1, ![k].skipped = @ + 1]
    /\ UNCHANGED <<bill, live, reminder, changes, sends, answered>>

\* CreateReminder: another row for an id that has one is no matter.
CreateReminder(k) ==
    /\ InLoop(k) /\ Candidate(k)
    /\ reminder' = [reminder EXCEPT ![Current(k)] = @ + 1]
    /\ desk' = [desk EXCEPT ![k].at = @ + 1, ![k].sent = Append(@, Current(k))]
    /\ UNCHANGED <<bill, live, changes, sends, answered>>

CreateReminderFailsUnnoticed(k) ==
    /\ InLoop(k) /\ Candidate(k)
    /\ desk' = [desk EXCEPT ![k].at = @ + 1, ![k].sent = Append(@, Current(k))]
    /\ UNCHANGED <<bill, live, reminder, changes, sends, answered>>

\* The INSERT fails: the request is answered 500, and the rows before it stay.
CreateReminderFails(k) ==
    /\ InLoop(k) /\ Candidate(k)
    /\ desk' = [desk EXCEPT ![k] = NoSend]
    /\ UNCHANGED <<bill, live, reminder, changes, sends, answered>>

\* 200 with the numbers of sent, skipped and requested.
AnswerSent(k) ==
    /\ desk[k].pc = "each" /\ ~InLoop(k)
    /\ answered' = [i \in Ids |-> answered[i] +
                       Cardinality({n \in DOMAIN desk[k].sent : desk[k].sent[n] = i})]
    /\ desk' = [desk EXCEPT ![k] = NoSend]
    /\ UNCHANGED <<bill, live, reminder, changes, sends>>

DeskStep ==
    \/ ChangeBill \/ ChangeLease
    \/ \E k \in Clerks : \/ SendReminders(k) \/ Skip(k)
                         \/ CreateReminder(k) \/ CreateReminderFails(k) \/ AnswerSent(k)

DeskNext ==
    /\ \/ told = "worker" /\ Next /\ UNCHANGED deskVars
       \/ told = "desk" /\ DeskStep /\ UNCHANGED vars
    /\ UNCHANGED told

DeskSpec == DeskInit /\ [][DeskNext]_<<vars, deskVars, told>>

-----------------------------------------------------------------------------
(***************************************************************************)
(* Properties.                                                             *)
(***************************************************************************)

\* A reminder an answer vouches for is in the history, whatever failed or ran
\* beside it, and the ids of a request that are handled are recorded or
\* skipped, one by one.  The converse does not hold: a request that was answered
\* 500 may have left reminders behind, and its repetition records them again.
AnsweredIsRecorded ==
    /\ \A i \in Ids : answered[i] <= reminder[i]
    /\ \A k \in Clerks : Len(desk[k].sent) + desk[k].skipped = desk[k].at
=============================================================================
