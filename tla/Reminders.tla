----------------------------- MODULE Reminders -----------------------------
(***************************************************************************)
(* The worker process (cmd/worker) and its run of billing reminders        *)
(* (internal/modules/billing): once when the process starts and then every *)
(* 24 hours it selects the charges due in seven days, and for each one it  *)
(* asks notification_logs whether the reminder went out, sends it, and     *)
(* records it.  Selection, question, message and record are separate steps *)
(* and nothing ties them together: a second worker may run beside the      *)
(* first (a rolling restart), any step may fail, the process may be told   *)
(* to stop or may crash between any two, and midnight may pass.            *)
(*                                                                         *)
(* A reminder is a pair <<charge, due day>>, the payload_summary of its    *)
(* record.  No code of the repository writes rent_charges yet, and tenants *)
(* and leases may change between any two runs: a selection may return any  *)
(* of the charges with any of the preferences.  Mailjet is configured (a   *)
(* worker without it sends nothing and records "delivered" all the same).  *)
(*                                                                         *)
(* A definition whose name is another's with a suffix (WriteLogDropped) is *)
(* a faulty variant of it that no run uses: put in its place, it shows     *)
(* that a property would notice the fault.                                 *)
(***************************************************************************)
EXTENDS Integers, FiniteSets

CONSTANTS Workers,     \* worker processes
          Charges,     \* rows of rent_charges, each with its lease and tenant
          Preferences, \* what leases and tenants say of reminders
          Keys,        \* the reminders there may be: charges with a due day
          LastDay,     \* bound: the last day of the calendar
          MaxFaults    \* bound: failures, stops and crashes

Channel == {"email", "sms"}

\* The channels the lease and the tenant ask for ("" is none), the opt-in
\* for SMS, and whether there is a phone number and an email address.  The
\* opt-in for email makes no difference to the channel picked.
Preference == [lease: Channel \cup {""}, tenant: Channel \cup {""},
               smsOptIn: BOOLEAN, phone: BOOLEAN, email: BOOLEAN]

ASSUME BoundsAssumption ==
    /\ LastDay \in Nat /\ MaxFaults \in Nat
    /\ Preferences \subseteq Preference /\ Preferences # {}
    /\ Keys \subseteq Charges \X Nat /\ Charges # {}
    /\ IsFiniteSet(Workers)

VARIABLES
    today,    \* the current day
    log,      \* notification_logs of template billing_due_7d
    received, \* the messages that reached a tenant, counted by reminder
    proc,     \* the state and the locals of each worker
    excused,  \* history, by reminder: the events after which one message
              \* more is to be expected
    left      \* the faults still to come

vars == <<today, log, received, proc, excused, left>>

NoticeDays == 7

\* The charges that may fall due on a day.
DueOn(day) == {c \in Charges : <<c, day>> \in Keys}

(***************************************************************************)
(* A worker: the due day its run computed at its start, the selected rows  *)
(* not yet handled and the row in hand, each with the preferences as they  *)
(* were selected.  stopping: the context is cancelled.  owed is history:   *)
(* the charges to remind by email that no failure of this run let go.      *)
(***************************************************************************)
SelectedRow == [charge: Charges, pref: Preference]

Process == [pc: {"down", "waiting", "next", "send", "log"}, stopping: BOOLEAN,
            target: Nat, rows: SUBSET SelectedRow, row: SelectedRow,
            owed: SUBSET Charges]

TypeOK ==
    /\ today \in 0..LastDay
    /\ log \subseteq [key: Keys, channel: Channel]
    /\ received \in [Keys -> Nat]
    /\ proc \in [Workers -> Process]
    /\ excused \in [Keys -> Nat]
    /\ left \in 0..MaxFaults

\* Stands for no row in hand.
AnyRow == CHOOSE r \in SelectedRow : r.pref \in Preferences

Down == [pc |-> "down", stopping |-> FALSE, target |-> NoticeDays, rows |-> {},
         row |-> AnyRow, owed |-> {}]

Init ==
    /\ today = 0
    /\ log = {}
    /\ received = [k \in Keys |-> 0]
    /\ proc = [w \in Workers |-> Down]
    /\ excused = [k \in Keys |-> 0]
    /\ left = MaxFaults

-----------------------------------------------------------------------------
\* External: the calendar.
Midnight ==
    /\ today < LastDay
    /\ today' = today + 1
    /\ UNCHANGED <<log, received, proc, excused, left>>

-----------------------------------------------------------------------------
(***************************************************************************)
(* The run.                                                                *)
(***************************************************************************)
pickChannel(p) ==
    IF p.lease # "" THEN p.lease
    ELSE IF p.tenant # "" THEN p.tenant
    ELSE IF p.smsOptIn /\ p.phone THEN "sms"
    ELSE "email"

ByEmail(p) == pickChannel(p) = "email" /\ p.email

Key(p) == <<p.row.charge, p.target>>

Logged(k) == \E n \in log : n.key = k

\* The worker is between the question and the record for reminder k, by
\* email, and its context lets it send or record.
Handling(w, k) ==
    LET p == proc[w]
    IN  p.pc \in {"send", "log"} /\ ~p.stopping /\ ByEmail(p.row.pref) /\ Key(p) = k

\* History: worker state p has had an event that excuses one more message.
Excuse(p) == excused' = IF ByEmail(p.row.pref) THEN [excused EXCEPT ![Key(p)] = @ + 1]
                                               ELSE excused

\* A worker that is stopped or dies here will not record its message.
LosesRecord(p) == IF p.pc = "log" /\ ~p.stopping THEN Excuse(p) ELSE UNCHANGED excused

\* A fault of the environment, out of the bounded supply.
Fault == left > 0 /\ left' = left - 1

NextRow(p) == [p EXCEPT !.pc = "next", !.row = AnyRow]

\* The run lets the charge in hand go.
Forgo(p) == [NextRow(p) EXCEPT !.owed = @ \ {p.row.charge}]

\* The process starts, or the ticker fires: SELECT the scheduled and posted
\* charges due in seven days.  A tick that came during a long run is served
\* after it, so two runs may start on one day.
SelectDue(w) ==
    /\ proc[w].pc \in {"down", "waiting"}
    /\ \E due \in SUBSET DueOn(today + NoticeDays) : \E pref \in [due -> Preferences] :
          proc' = [proc EXCEPT ![w] =
                      [Down EXCEPT !.pc = "next", !.target = today + NoticeDays,
                                   !.rows = {[charge |-> c, pref |-> pref[c]] : c \in due},
                                   !.owed = {c \in due : ByEmail(pref[c])}]]
    /\ UNCHANGED <<today, log, received, excused, left>>

\* The SELECT fails: the run ends before it has begun.
SelectDueFails(w) ==
    /\ proc[w].pc \in {"down", "waiting"}
    /\ Fault
    /\ proc' = [proc EXCEPT ![w] = [Down EXCEPT !.pc = "waiting"]]
    /\ UNCHANGED <<today, log, received, excused>>

\* No row is left: the run returns, and the process waits for the next tick
\* or, told to stop, ends.
FinishRun(w) ==
    /\ proc[w].pc = "next" /\ proc[w].rows = {}
    /\ proc' = [proc EXCEPT ![w] = IF @.stopping THEN Down ELSE [Down EXCEPT !.pc = "waiting"]]
    /\ UNCHANGED <<today, log, received, excused, left>>

\* Take row r in hand; send its reminder or go on to the next row.
Take(w, r) == [proc[w] EXCEPT !.rows = @ \ {r}, !.row = r]

Proceed(p, sending) == IF sending THEN [p EXCEPT !.pc = "send"] ELSE NextRow(p)

\* An email without an address is skipped.
Sendable(r) == pickChannel(r.pref) = "sms" \/ r.pref.email

AlreadySentByCharge(w) ==
    /\ proc[w].pc = "next" /\ ~proc[w].stopping
    /\ \E r \in proc[w].rows :
          LET p == Take(w, r)
              k == Key(p)
              sending == ~(\E n \in log : n.key[1] = k[1]) /\ Sendable(r)
              raced == sending /\ \E v \in Workers \ {w} : Handling(v, k)
          IN  /\ proc' = [proc EXCEPT ![w] = Proceed(p, sending)]
              /\ IF raced THEN Excuse(p) ELSE UNCHANGED excused
    /\ UNCHANGED <<today, log, received, left>>

\* alreadySent: SELECT count(*) of the records of this reminder.  An answer
\* of "none" while another worker is about to send, or to record, is the
\* excuse for a second message.
AlreadySent(w) ==
    /\ proc[w].pc = "next" /\ ~proc[w].stopping
    /\ \E r \in proc[w].rows :
          LET p == Take(w, r)
              k == Key(p)
              sending == ~Logged(k) /\ Sendable(r)
              raced == sending /\ \E v \in Workers \ {w} : Handling(v, k)
          IN  /\ proc' = [proc EXCEPT ![w] = Proceed(p, sending)]
              /\ IF raced THEN Excuse(p) ELSE UNCHANGED excused
    /\ UNCHANGED <<today, log, received, left>>

\* The query fails, for a fault or for the cancelled context: its error is
\* dropped, the count stays 0, and the reminder counts as not sent.
AlreadySentFails(w) ==
    /\ proc[w].pc = "next"
    /\ \E r \in proc[w].rows :
          LET p == Take(w, r)
          IN  /\ proc' = [proc EXCEPT ![w] = Proceed(p, Sendable(r))]
              /\ IF p.stopping THEN UNCHANGED <<left, excused>>
                               ELSE Fault /\ Excuse(p)
    /\ UNCHANGED <<today, log, received>>

\* The email goes out.
SendEmail(w) ==
    LET p == proc[w]
    IN  /\ p.pc = "send" /\ ~p.stopping
        /\ pickChannel(p.row.pref) = "email"
        /\ received' = [received EXCEPT ![Key(p)] = @ + 1]
        /\ proc' = [proc EXCEPT ![w].pc = "log"]
        /\ UNCHANGED <<today, log, excused, left>>

\* cmd/worker passes the no-op sender for SMS, whatever the context: nothing
\* goes out and no error comes back.
SendSMS(w) ==
    LET p == proc[w]
    IN  /\ p.pc = "send"
        /\ pickChannel(p.row.pref) = "sms"
        /\ proc' = [proc EXCEPT ![w].pc = "log"]
        /\ UNCHANGED <<today, log, received, excused, left>>

SendEmailFailsRecorded(w) ==
    LET p == proc[w]
    IN  /\ p.pc = "send" /\ ~p.stopping
        /\ pickChannel(p.row.pref) = "email"
        /\ Fault
        /\ proc' = [proc EXCEPT ![w].pc = "log"]
        /\ UNCHANGED <<today, log, received, excused>>

\* The call of the mail service fails and the loop goes on with the next
\* row.  After a timeout the message may have reached the tenant all the same.
SendEmailFails(w) ==
    LET p == proc[w]
    IN  /\ p.pc = "send"
        /\ pickChannel(p.row.pref) = "email"
        /\ \/ p.stopping /\ UNCHANGED <<left, received, excused>>
           \/ ~p.stopping /\ Fault /\ UNCHANGED <<received, excused>>
           \/ /\ ~p.stopping /\ Fault
              /\ received' = [received EXCEPT ![Key(p)] = @ + 1]
              /\ Excuse(p)
        /\ proc' = [proc EXCEPT ![w] = Forgo(p)]
        /\ UNCHANGED <<today, log>>

WriteLogDropped(w) ==
    LET p == proc[w]
    IN  /\ p.pc = "log" /\ ~p.stopping
        /\ proc' = [proc EXCEPT ![w] = NextRow(p)]
        /\ UNCHANGED <<today, log, received, excused, left>>

WriteLogRaw(w) ==
    LET p == proc[w]
    IN  /\ p.pc = "log" /\ ~p.stopping
        /\ log' = log \cup {[key |-> Key(p), channel |-> p.row.pref.tenant]}
        /\ proc' = [proc EXCEPT ![w] = NextRow(p)]
        /\ UNCHANGED <<today, received, excused, left>>

\* writeLog: INSERT INTO notification_logs, result "delivered".
WriteLog(w) ==
    LET p == proc[w]
    IN  /\ p.pc = "log" /\ ~p.stopping
        /\ log' = log \cup {[key |-> Key(p), channel |-> pickChannel(p.row.pref)]}
        /\ proc' = [proc EXCEPT ![w] = NextRow(p)]
        /\ UNCHANGED <<today, received, excused, left>>

\* The INSERT fails, for a fault or for the cancelled context; its error is
\* dropped, and nothing remembers the message.
WriteLogFails(w) ==
    LET p == proc[w]
    IN  /\ p.pc = "log"
        /\ IF p.stopping THEN UNCHANGED <<left, excused>> ELSE Fault /\ Excuse(p)
        /\ proc' = [proc EXCEPT ![w] = NextRow(p)]
        /\ UNCHANGED <<today, log, received>>

\* SIGTERM: the context is cancelled.  A run in progress goes on to its end
\* with every statement and every email failing.
Stop(w) ==
    /\ proc[w].pc # "down" /\ ~proc[w].stopping
    /\ Fault
    /\ proc' = [proc EXCEPT ![w] = IF @.pc = "waiting" THEN Down
                                   ELSE [@ EXCEPT !.stopping = TRUE, !.owed = {}]]
    /\ LosesRecord(proc[w])
    /\ UNCHANGED <<today, log, received>>

\* The process dies, perhaps between the message and its record.
Crash(w) ==
    /\ proc[w].pc # "down"
    /\ Fault
    /\ LosesRecord(proc[w])
    /\ proc' = [proc EXCEPT ![w] = Down]
    /\ UNCHANGED <<today, log, received>>

Step(w) ==
    \/ SelectDue(w) \/ SelectDueFails(w) \/ AlreadySent(w) \/ AlreadySentFails(w)
    \/ SendEmail(w) \/ SendSMS(w) \/ SendEmailFails(w) \/ WriteLog(w) \/ WriteLogFails(w)
    \/ FinishRun(w) \/ Stop(w) \/ Crash(w)

Next ==
    \/ Midnight
    \/ \E w \in Workers : Step(w)

Spec == Init /\ [][Next]_vars

-----------------------------------------------------------------------------
(***************************************************************************)
(* Properties.                                                             *)
(***************************************************************************)

\* A tenant gets a reminder once, and once more only for each failed
\* question, each message sent while another worker was at the same reminder,
\* each message without a record (a failed INSERT, a stop or a crash after
\* the message) and each message reported as failed that arrived: however
\* often the runs repeat, days pass and rows change, nothing else repeats it.
DuplicatesNeedACause == \A k \in Keys : received[k] <= 1 + excused[k]

\* A run that comes to its last row has reminded everyone it selected by email,
\* but for the messages that failed: no other row's failure, and no row
\* handled before, lets a charge go.  A record of an SMS stands for a
\* message, although none was sent.
CompletedRunReminds ==
    \A w \in Workers : proc[w].pc = "next" /\ proc[w].rows = {} =>
        \A c \in proc[w].owed :
            LET k == <<c, proc[w].target>>
            IN  received[k] >= 1 \/ [key |-> k, channel |-> "sms"] \in log

\* "delivered" in a record of an email is true.
RecordedEmailsArrived ==
    \A n \in log : n.channel = "email" => received[n.key] >= 1
=============================================================================
