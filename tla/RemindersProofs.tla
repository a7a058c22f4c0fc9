--------------------------- MODULE RemindersProofs ---------------------------
(***************************************************************************)
(* Proofs about Reminders and CollectionDesk, for any number of workers,   *)
(* charges, days, faults and clerks.                                       *)
(*                                                                         *)
(* A step changes one worker, and records and messages are never taken     *)
(* back, so that what holds of the other workers stays (LocalStep).  The   *)
(* count of messages is balanced worker by worker (CountStep).             *)
(***************************************************************************)
EXTENDS CollectionDesk, FiniteSetTheorems, SequenceTheorems, TLAPS

InHand(p) == p.pc \in {"send", "log"}

\* The charge has its reminder, or a record of one by SMS.
Reminded(c, day, got, sent) ==
    /\ <<c, day>> \in Keys
    /\ got[<<c, day>>] >= 1 \/ [key |-> <<c, day>>, channel |-> "sms"] \in sent

\* Selected charges are due on the run's day; what is in hand can be sent, and
\* is sent before it is recorded.
CarriesRows(p, got) ==
    /\ \A r \in p.rows : <<r.charge, p.target>> \in Keys
    /\ InHand(p) => Key(p) \in Keys /\ Sendable(p.row)
    /\ p.pc = "log" /\ pickChannel(p.row.pref) = "email" => got[Key(p)] >= 1

\* What a run owes is reminded of, still among its rows, or in hand; its rows
\* for what it owes go by email.
Owes(p, got, sent) ==
    \A c \in p.owed :
        /\ \/ Reminded(c, p.target, got, sent)
           \/ \E r \in p.rows : r.charge = c
           \/ InHand(p) /\ p.row.charge = c
        /\ \A r \in p.rows : r.charge = c => ByEmail(r.pref)
        /\ InHand(p) /\ p.row.charge = c => ByEmail(p.row.pref)

WorkerOK(p, got, sent) == CarriesRows(p, got) /\ Owes(p, got, sent)

RunInv ==
    /\ TypeOK
    /\ \A w \in Workers : WorkerOK(proc[w], received, log)
    /\ RecordedEmailsArrived

-----------------------------------------------------------------------------
\* The row that stands for none is a row, since there are charges and preferences.
LEMMA AnyRowType == AnyRow \in SelectedRow
<1>1. PICK c \in Charges, p \in Preferences : TRUE
  BY BoundsAssumption
<1>2. [charge |-> c, pref |-> p] \in SelectedRow
  BY <1>1, BoundsAssumption DEF SelectedRow
<1>3. \E r \in SelectedRow : r.pref \in Preferences
  BY <1>1, <1>2
<1> QED
  BY <1>3 DEF AnyRow

LEMMA DownType == Down \in Process /\ \A got, sent : WorkerOK(Down, got, sent)
  BY AnyRowType DEF Down, Process, NoticeDays, WorkerOK, CarriesRows, Owes, InHand

LEMMA pickChannelType == \A p \in Preference : pickChannel(p) \in Channel
  BY DEF Preference, Channel, pickChannel

LEMMA RunInvInit == Init => RunInv
<1> SUFFICES ASSUME Init PROVE RunInv
  OBVIOUS
<1>1. TypeOK
  BY DownType, BoundsAssumption DEF Init, TypeOK
<1>2. RecordedEmailsArrived /\ \A w \in Workers : WorkerOK(proc[w], received, log)
  BY DownType DEF Init, RecordedEmailsArrived
<1> QED
  BY <1>1, <1>2 DEF RunInv

\* Messages that arrive and records that are written leave a worker right.
LEMMA WorkerStaysOK ==
    ASSUME NEW p, NEW got \in [Keys -> Nat], NEW got2 \in [Keys -> Nat], NEW sent, NEW sent2,
           WorkerOK(p, got, sent),
           \A k \in Keys : got2[k] >= got[k], sent \subseteq sent2
    PROVE  WorkerOK(p, got2, sent2)
<1>1. CarriesRows(p, got2)
  <2>1. InHand(p) => Key(p) \in Keys /\ got2[Key(p)] >= got[Key(p)]
             /\ got[Key(p)] \in Nat /\ got2[Key(p)] \in Nat
    BY DEF WorkerOK, CarriesRows
  <2> QED
    BY <2>1 DEF WorkerOK, CarriesRows, InHand
<1>2. \A c \in p.owed : Reminded(c, p.target, got, sent) => Reminded(c, p.target, got2, sent2)
  <2> SUFFICES ASSUME NEW c \in p.owed, Reminded(c, p.target, got, sent)
               PROVE  Reminded(c, p.target, got2, sent2)
    OBVIOUS
  <2>1. <<c, p.target>> \in Keys
    BY DEF Reminded
  <2>2. got2[<<c, p.target>>] >= got[<<c, p.target>>]
        /\ got[<<c, p.target>>] \in Nat /\ got2[<<c, p.target>>] \in Nat
    BY <2>1
  <2> QED
    BY <2>2 DEF Reminded
<1>3. Owes(p, got2, sent2)
  BY <1>2 DEF WorkerOK, Owes
<1> QED
  BY <1>1, <1>3 DEF WorkerOK

\* What is left to show of a step is what it does to its worker and its record.
LEMMA LocalStep ==
    ASSUME RunInv, NEW w \in Workers, NEW p \in Process,
           proc' = [proc EXCEPT ![w] = p],
           UNCHANGED today,
           received' \in [Keys -> Nat], \A k \in Keys : received'[k] >= received[k],
           log \subseteq log', log' \subseteq [key : Keys, channel : Channel],
           excused' \in [Keys -> Nat], left' \in 0..MaxFaults,
           WorkerOK(p, received', log'),
           \A n \in log' \ log : n.channel = "email" => received'[n.key] >= 1
    PROVE  RunInv'
<1>1. TypeOK'
  BY DEF RunInv, TypeOK
<1>2. ASSUME NEW v \in Workers PROVE WorkerOK(proc'[v], received', log')
  <2>1. CASE v = w
    BY <2>1 DEF RunInv, TypeOK
  <2>2. CASE v # w
    <3>1. proc'[v] = proc[v] /\ WorkerOK(proc[v], received, log) /\ received \in [Keys -> Nat]
      BY <2>2 DEF RunInv, TypeOK
    <3> HIDE DEF WorkerOK
    <3>2. WorkerOK(proc[v], received', log')
      BY <3>1, WorkerStaysOK
    <3> QED
      BY <3>1, <3>2
  <2> QED
    BY <2>1, <2>2
<1>3. RecordedEmailsArrived'
  <2> SUFFICES ASSUME NEW n \in log', n.channel = "email" PROVE received'[n.key] >= 1
    BY DEF RecordedEmailsArrived
  <2>1. CASE n \in log
    <3>1. n.key \in Keys /\ received[n.key] >= 1
      BY <2>1 DEF RunInv, TypeOK, RecordedEmailsArrived
    <3>2. received[n.key] \in Nat /\ received'[n.key] \in Nat /\ received'[n.key] >= received[n.key]
      BY <3>1 DEF RunInv, TypeOK
    <3> QED
      BY <3>1, <3>2
  <2>2. CASE n \notin log
    BY <2>2
  <2> QED
    BY <2>1, <2>2
<1> QED
  BY <1>1, <1>2, <1>3 DEF RunInv

\* A step that neither sends nor records.
LEMMA QuietStep ==
    ASSUME RunInv, NEW w \in Workers, NEW p \in Process,
           proc' = [proc EXCEPT ![w] = p], UNCHANGED <<today, received, log>>,
           excused' \in [Keys -> Nat], left' \in 0..MaxFaults,
           WorkerOK(p, received, log)
    PROVE  RunInv'
<1>1. /\ received \in [Keys -> Nat] /\ log \subseteq [key : Keys, channel : Channel]
  BY DEF RunInv, TypeOK
<1>2. \A k \in Keys : received'[k] >= received[k]
  BY <1>1
<1>3. UNCHANGED today /\ received' = received /\ log' = log
  OBVIOUS
<1> HIDE DEF WorkerOK, RunInv
<1> QED
  BY <1>1, <1>2, <1>3, LocalStep

LEMMA Idle ==
    LET p == [Down EXCEPT !.pc = "waiting"]
    IN  p \in Process /\ \A got, sent : WorkerOK(p, got, sent)
BY AnyRowType DEF Down, Process, NoticeDays, WorkerOK, CarriesRows, Owes, InHand

LEMMA FaultType ==
    ASSUME RunInv, Fault \/ UNCHANGED left PROVE left' \in 0..MaxFaults
BY BoundsAssumption DEF RunInv, TypeOK, Fault

LEMMA ExcuseType ==
    ASSUME RunInv, NEW p, Key(p) \in Keys, Excuse(p) \/ UNCHANGED excused
    PROVE  excused' \in [Keys -> Nat]
BY DEF RunInv, TypeOK, Excuse

LEMMA LosesRecordType ==
    ASSUME RunInv, NEW w \in Workers, LosesRecord(proc[w])
    PROVE  excused' \in [Keys -> Nat]
<1>1. CASE InHand(proc[w])
  <2>1. Key(proc[w]) \in Keys
    BY <1>1 DEF RunInv, WorkerOK, CarriesRows
  <2> QED
    BY <2>1, ExcuseType DEF LosesRecord
<1>2. CASE ~InHand(proc[w])
  BY <1>2 DEF LosesRecord, InHand, RunInv, TypeOK
<1> QED
  BY <1>1, <1>2

LEMMA SelectDueOK == ASSUME RunInv, NEW w \in Workers, SelectDue(w) PROVE RunInv'
<1>0. PICK due \in SUBSET DueOn(today + NoticeDays) :
        \E pref \in [due -> Preferences] :
          proc' = [proc EXCEPT ![w] =
                      [Down EXCEPT !.pc = "next", !.target = today + NoticeDays,
                                   !.rows = {[charge |-> c, pref |-> pref[c]] : c \in due},
                                   !.owed = {c \in due : ByEmail(pref[c])}]]
  BY DEF SelectDue
<1>1. PICK pref \in [due -> Preferences] :
          proc' = [proc EXCEPT ![w] =
                      [Down EXCEPT !.pc = "next", !.target = today + NoticeDays,
                                   !.rows = {[charge |-> c, pref |-> pref[c]] : c \in due},
                                   !.owed = {c \in due : ByEmail(pref[c])}]]
  BY <1>0
<1> DEFINE p == [Down EXCEPT !.pc = "next", !.target = today + NoticeDays,
                             !.rows = {[charge |-> c, pref |-> pref[c]] : c \in due},
                             !.owed = {c \in due : ByEmail(pref[c])}]
<1>2. \A c \in due : c \in Charges /\ <<c, today + NoticeDays>> \in Keys /\ pref[c] \in Preference
  BY BoundsAssumption DEF DueOn
<1>3. /\ p.pc = "next" /\ p.target = today + NoticeDays
      /\ p.rows = {[charge |-> c, pref |-> pref[c]] : c \in due}
      /\ p.owed = {c \in due : ByEmail(pref[c])}
  BY DEF Down
<1> DEFINE row(c) == [charge |-> c, pref |-> pref[c]]
<1>r. \A c \in due : row(c) \in SelectedRow /\ row(c).charge = c /\ row(c).pref = pref[c]
  BY <1>2 DEF SelectedRow
<1>s. p.rows = {row(c) : c \in due}
  BY <1>3
<1> HIDE DEF p, row
<1>4. p \in Process
  <2>1. today + NoticeDays \in Nat
    BY BoundsAssumption DEF RunInv, TypeOK, NoticeDays
  <2>2. {row(c) : c \in due} \in SUBSET SelectedRow
    BY <1>r
  <2>3. {c \in due : ByEmail(pref[c])} \in SUBSET Charges
    BY <1>2
  <2>4. \A R \in SUBSET SelectedRow, S \in SUBSET Charges :
           [Down EXCEPT !.pc = "next", !.target = today + NoticeDays, !.rows = R, !.owed = S]
             \in Process
    BY <2>1, AnyRowType DEF Down, Process
  <2> QED
    BY <2>2, <2>3, <2>4 DEF p, row
<1>5. WorkerOK(p, received, log)
  <2>1. CarriesRows(p, received)
    BY <1>2, <1>3, <1>r, <1>s DEF CarriesRows, InHand
  <2>2. Owes(p, received, log)
    BY <1>2, <1>3, <1>r, <1>s DEF Owes, InHand
  <2> QED
    BY <2>1, <2>2 DEF WorkerOK
<1>6. excused' \in [Keys -> Nat] /\ left' \in 0..MaxFaults /\ UNCHANGED <<today, received, log>>
  BY DEF SelectDue, RunInv, TypeOK
<1> QED
  BY <1>1, <1>4, <1>5, <1>6, QuietStep DEF p

\* What taking a row in hand gives.
LEMMA TakeType ==
    ASSUME RunInv, NEW w \in Workers, proc[w].pc = "next", NEW r \in proc[w].rows
    PROVE  LET p == Take(w, r)
           IN  /\ p \in Process /\ p.pc = "next" /\ p.row = r /\ p.rows = proc[w].rows \ {r}
               /\ p.target = proc[w].target /\ p.owed = proc[w].owed
               /\ Key(p) = <<r.charge, p.target>> /\ Key(p) \in Keys
<1>1. proc[w] \in Process /\ r \in SelectedRow
  BY DEF RunInv, TypeOK, Process
<1>2. <<r.charge, proc[w].target>> \in Keys
  BY DEF RunInv, WorkerOK, CarriesRows
<1> QED
  BY <1>1, <1>2 DEF Take, Process, Key

\* To proceed keeps the worker right, if it is not skipped for no reason.
LEMMA ProceedOK ==
    ASSUME RunInv, NEW w \in Workers, proc[w].pc = "next", NEW r \in proc[w].rows,
           NEW sending \in BOOLEAN, sending => Sendable(r),
           ~sending => Logged(Key(Take(w, r))) \/ ~Sendable(r)
    PROVE  LET p == Proceed(Take(w, r), sending)
           IN  p \in Process /\ WorkerOK(p, received, log)
<1> DEFINE t == Take(w, r)
           p == Proceed(t, sending)
<1>1. /\ t \in Process /\ t.pc = "next" /\ t.row = r /\ t.rows = proc[w].rows \ {r}
      /\ t.target = proc[w].target /\ t.owed = proc[w].owed
      /\ Key(t) = <<r.charge, t.target>> /\ Key(t) \in Keys
  BY TakeType
<1>2. proc[w] \in Process /\ r \in SelectedRow /\ WorkerOK(proc[w], received, log)
  BY DEF RunInv, TypeOK, Process
<1> HIDE DEF t
<1>3. /\ p \in Process /\ p.pc = (IF sending THEN "send" ELSE "next")
      /\ p.rows = t.rows /\ p.target = t.target /\ p.owed = t.owed
      /\ sending => p.row = r
  BY <1>1, AnyRowType DEF Proceed, NextRow, Process
<1>4. sending => Key(p) = Key(t)
  BY <1>1, <1>3 DEF Key
<1> HIDE DEF p
<1>5. CarriesRows(p, received)
  BY <1>1, <1>2, <1>3, <1>4 DEF CarriesRows, WorkerOK, InHand
<1>6. ASSUME NEW c \in p.owed
      PROVE  /\ \/ Reminded(c, p.target, received, log)
                \/ \E s \in p.rows : s.charge = c
                \/ InHand(p) /\ p.row.charge = c
             /\ \A s \in p.rows : s.charge = c => ByEmail(s.pref)
             /\ InHand(p) /\ p.row.charge = c => ByEmail(p.row.pref)
  <2>1. /\ \/ Reminded(c, p.target, received, log) \/ \E s \in proc[w].rows : s.charge = c
        /\ \A s \in proc[w].rows : s.charge = c => ByEmail(s.pref)
    BY <1>1, <1>2, <1>3, <1>6 DEF WorkerOK, Owes, InHand
  <2>2. \A s \in p.rows : s.charge = c => ByEmail(s.pref)
    BY <2>1, <1>1, <1>3
  <2>3. InHand(p) /\ p.row.charge = c => ByEmail(p.row.pref)
    BY <2>1, <1>3 DEF InHand
  <2>4. ASSUME r.charge = c, ~sending PROVE Reminded(c, p.target, received, log)
    <3>1. Sendable(r)
      BY <2>1, <2>4 DEF ByEmail, Sendable
    <3>2. PICK n \in log : n.key = <<c, p.target>>
      BY <3>1, <2>4, <1>1, <1>3 DEF Logged, t
    <3>3. n \in [key : Keys, channel : Channel]
      BY <3>2 DEF RunInv, TypeOK
    <3>4. CASE n.channel = "email"
      BY <3>2, <3>3, <3>4 DEF RunInv, RecordedEmailsArrived, Reminded
    <3>5. CASE n.channel = "sms"
      <4>1. n = [key |-> <<c, p.target>>, channel |-> "sms"]
        BY <3>2, <3>3, <3>5
      <4> QED
        BY <4>1, <3>2, <3>3 DEF Reminded
    <3> QED
      BY <3>3, <3>4, <3>5 DEF Channel
  <2>5. ASSUME r.charge = c, sending PROVE InHand(p) /\ p.row.charge = c
    BY <2>5, <1>3 DEF InHand
  <2>6. ASSUME NEW s \in proc[w].rows, s.charge = c, s # r PROVE \E q \in p.rows : q.charge = c
    BY <2>6, <1>1, <1>3
  <2> QED
    BY <2>1, <2>2, <2>3, <2>4, <2>5, <2>6
<1>7. Owes(p, received, log)
  BY <1>6 DEF Owes
<1>8. p \in Process /\ WorkerOK(p, received, log)
  BY <1>3, <1>5, <1>7 DEF WorkerOK
<1> QED
  BY <1>8 DEF p, t

\* The message before the record.
LEMMA ToRecordOK ==
    ASSUME NEW p \in Process, NEW got, NEW sent, p.pc = "send", WorkerOK(p, got, sent),
           pickChannel(p.row.pref) = "email" => got[Key(p)] >= 1
    PROVE  LET q == [p EXCEPT !.pc = "log"] IN q \in Process /\ WorkerOK(q, got, sent)
<1> DEFINE q == [p EXCEPT !.pc = "log"]
<1>1. /\ q \in Process /\ q.pc = "log" /\ q.rows = p.rows /\ q.row = p.row
      /\ q.target = p.target /\ q.owed = p.owed
  BY DEF Process
<1>2. Key(q) = Key(p)
  BY <1>1 DEF Key
<1> HIDE DEF q
<1>3. CarriesRows(q, got)
  BY <1>1, <1>2 DEF WorkerOK, CarriesRows, InHand
<1>4. Owes(q, got, sent)
  BY <1>1 DEF WorkerOK, Owes, InHand
<1>5. q \in Process /\ WorkerOK(q, got, sent)
  BY <1>1, <1>3, <1>4 DEF WorkerOK
<1> QED
  BY <1>5 DEF q

\* The row in hand is let go: its charge is not owed any more, or reminded of.
LEMMA LetGoOK ==
    ASSUME NEW p, NEW got, NEW sent, WorkerOK(p, got, sent),
           NEW q, q.pc = "next", q.rows = p.rows, q.target = p.target, q.owed \subseteq p.owed,
           p.row.charge \in q.owed => Reminded(p.row.charge, p.target, got, sent)
    PROVE  WorkerOK(q, got, sent)
<1>1. CarriesRows(q, got)
  BY DEF WorkerOK, CarriesRows, InHand
<1>2. Owes(q, got, sent)
  BY DEF WorkerOK, Owes, InHand
<1> QED
  BY <1>1, <1>2 DEF WorkerOK

LEMMA NextRowType ==
    ASSUME NEW p \in Process
    PROVE  /\ NextRow(p) \in Process /\ NextRow(p).pc = "next" /\ NextRow(p).rows = p.rows
           /\ NextRow(p).target = p.target /\ NextRow(p).owed = p.owed
           /\ Forgo(p) \in Process /\ Forgo(p).pc = "next" /\ Forgo(p).rows = p.rows
           /\ Forgo(p).target = p.target /\ Forgo(p).owed = p.owed \ {p.row.charge}
BY AnyRowType DEF NextRow, Forgo, Process

\* A charge at its record is reminded of, if it is owed.
LEMMA AtRecord ==
    ASSUME NEW p, NEW got, NEW sent, WorkerOK(p, got, sent), p.pc = "log", p.row.charge \in p.owed
    PROVE  Reminded(p.row.charge, p.target, got, sent)
<1>1. ByEmail(p.row.pref)
  BY DEF WorkerOK, Owes, InHand
<1>2. Key(p) \in Keys /\ got[Key(p)] >= 1
  BY <1>1 DEF WorkerOK, CarriesRows, InHand, ByEmail
<1> QED
  BY <1>2 DEF Key, Reminded

LEMMA WorkerFacts ==
    ASSUME RunInv, NEW w \in Workers
    PROVE  /\ proc[w] \in Process /\ WorkerOK(proc[w], received, log)
           /\ InHand(proc[w]) => Key(proc[w]) \in Keys
           /\ received \in [Keys -> Nat] /\ excused \in [Keys -> Nat] /\ left \in 0..MaxFaults
           /\ log \subseteq [key : Keys, channel : Channel]
BY DEF RunInv, TypeOK, WorkerOK, CarriesRows

LEMMA SelectDueFailsOK == ASSUME RunInv, NEW w \in Workers, SelectDueFails(w) PROVE RunInv'
<1>1. excused' \in [Keys -> Nat] /\ left' \in 0..MaxFaults
  BY WorkerFacts, FaultType DEF SelectDueFails
<1>2. proc' = [proc EXCEPT ![w] = [Down EXCEPT !.pc = "waiting"]]
      /\ UNCHANGED <<today, received, log>>
  BY DEF SelectDueFails
<1> QED
  BY <1>1, <1>2, Idle, QuietStep

LEMMA AlreadySentOK == ASSUME RunInv, NEW w \in Workers, AlreadySent(w) PROVE RunInv'
<1>1. PICK r \in proc[w].rows :
         LET p == Take(w, r)
             k == Key(p)
             sending == ~Logged(k) /\ Sendable(r)
             raced == sending /\ \E v \in Workers \ {w} : Handling(v, k)
         IN  /\ proc' = [proc EXCEPT ![w] = Proceed(p, sending)]
             /\ IF raced THEN Excuse(p) ELSE UNCHANGED excused
  BY DEF AlreadySent
<1> DEFINE t == Take(w, r)
           sending == ~Logged(Key(t)) /\ Sendable(r)
           p == Proceed(t, sending)
<1>2. proc[w].pc = "next" /\ UNCHANGED <<today, received, log, left>>
  BY DEF AlreadySent
<1>3. p \in Process /\ WorkerOK(p, received, log)
  BY <1>2, ProceedOK
<1>4. Key(t) \in Keys
  BY <1>2, TakeType
<1>5. excused' \in [Keys -> Nat] /\ left' \in 0..MaxFaults
  BY <1>1, <1>2, <1>4, ExcuseType, WorkerFacts
<1>6. proc' = [proc EXCEPT ![w] = p]
  BY <1>1
<1> HIDE DEF p
<1> QED
  BY <1>2, <1>3, <1>5, <1>6, QuietStep

LEMMA AlreadySentFailsOK == ASSUME RunInv, NEW w \in Workers, AlreadySentFails(w) PROVE RunInv'
<1>1. PICK r \in proc[w].rows :
         LET p == Take(w, r)
         IN  /\ proc' = [proc EXCEPT ![w] = Proceed(p, Sendable(r))]
             /\ IF p.stopping THEN UNCHANGED <<left, excused>> ELSE Fault /\ Excuse(p)
  BY DEF AlreadySentFails
<1> DEFINE t == Take(w, r)
           p == Proceed(t, Sendable(r))
<1>2. proc[w].pc = "next" /\ UNCHANGED <<today, received, log>>
  BY DEF AlreadySentFails
<1>3. Key(t) \in Keys
  BY <1>2, TakeType
<1>4. Sendable(r) \in BOOLEAN
  <2>1. r \in SelectedRow
    BY DEF RunInv, TypeOK, Process
  <2> QED
    BY <2>1 DEF Sendable, SelectedRow, Preference
<1>5. p \in Process /\ WorkerOK(p, received, log)
  BY <1>2, <1>4, ProceedOK
<1>6. excused' \in [Keys -> Nat] /\ left' \in 0..MaxFaults
  BY <1>1, <1>3, ExcuseType, FaultType
<1>7. proc' = [proc EXCEPT ![w] = p]
  BY <1>1
<1> HIDE DEF p
<1> QED
  BY <1>2, <1>5, <1>6, <1>7, QuietStep

\* One message more, for the reminder in hand.
LEMMA MessageArrives ==
    ASSUME RunInv, NEW w \in Workers, InHand(proc[w]),
           received' = [received EXCEPT ![Key(proc[w])] = @ + 1]
    PROVE  /\ received' \in [Keys -> Nat] /\ \A k \in Keys : received'[k] >= received[k]
           /\ received'[Key(proc[w])] >= 1
           /\ WorkerOK(proc[w], received', log)
<1>1. received \in [Keys -> Nat] /\ Key(proc[w]) \in Keys /\ WorkerOK(proc[w], received, log)
  BY WorkerFacts
<1>2. received' \in [Keys -> Nat] /\ \A k \in Keys : received'[k] >= received[k]
  BY <1>1
<1>3. received'[Key(proc[w])] >= 1
  BY <1>1
<1> HIDE DEF WorkerOK
<1>4. WorkerOK(proc[w], received', log)
  BY <1>1, <1>2, WorkerStaysOK
<1> QED
  BY <1>2, <1>3, <1>4

LEMMA SendEmailOK == ASSUME RunInv, NEW w \in Workers, SendEmail(w) PROVE RunInv'
<1> DEFINE p == [proc[w] EXCEPT !.pc = "log"]
<1>1. /\ proc[w].pc = "send" /\ UNCHANGED <<today, log, excused, left>>
      /\ received' = [received EXCEPT ![Key(proc[w])] = @ + 1]
      /\ proc' = [proc EXCEPT ![w] = p]
  BY DEF SendEmail
<1>2. /\ received' \in [Keys -> Nat] /\ \A k \in Keys : received'[k] >= received[k]
      /\ received'[Key(proc[w])] >= 1 /\ WorkerOK(proc[w], received', log)
  BY <1>1, MessageArrives DEF InHand
<1>3. proc[w] \in Process /\ excused \in [Keys -> Nat] /\ left \in 0..MaxFaults
      /\ log \subseteq [key : Keys, channel : Channel]
  BY WorkerFacts
<1>4. p \in Process /\ WorkerOK(p, received', log)
  BY <1>1, <1>2, <1>3, ToRecordOK
<1> HIDE DEF p
<1> QED
  BY <1>1, <1>2, <1>3, <1>4, LocalStep

LEMMA SendSMSOK == ASSUME RunInv, NEW w \in Workers, SendSMS(w) PROVE RunInv'
<1> DEFINE p == [proc[w] EXCEPT !.pc = "log"]
<1>1. /\ proc[w].pc = "send" /\ UNCHANGED <<today, received, log, excused, left>>
      /\ pickChannel(proc[w].row.pref) = "sms" /\ proc' = [proc EXCEPT ![w] = p]
  BY DEF SendSMS
<1>2. p \in Process /\ WorkerOK(p, received, log)
  BY <1>1, WorkerFacts, ToRecordOK
<1>3. excused' \in [Keys -> Nat] /\ left' \in 0..MaxFaults
  BY <1>1, WorkerFacts
<1> HIDE DEF p
<1> QED
  BY <1>1, <1>2, <1>3, QuietStep

LEMMA SendEmailFailsOK == ASSUME RunInv, NEW w \in Workers, SendEmailFails(w) PROVE RunInv'
<1>1. /\ proc[w].pc = "send" /\ InHand(proc[w]) /\ UNCHANGED <<today, log>>
      /\ proc' = [proc EXCEPT ![w] = Forgo(proc[w])]
      /\ \/ proc[w].stopping /\ UNCHANGED <<left, received, excused>>
         \/ ~proc[w].stopping /\ Fault /\ UNCHANGED <<received, excused>>
         \/ /\ ~proc[w].stopping /\ Fault
            /\ received' = [received EXCEPT ![Key(proc[w])] = @ + 1]
            /\ Excuse(proc[w])
  BY DEF SendEmailFails, InHand
<1>2. excused' \in [Keys -> Nat] /\ left' \in 0..MaxFaults
  BY <1>1, WorkerFacts, ExcuseType, FaultType
<1>3. /\ received' \in [Keys -> Nat] /\ \A k \in Keys : received'[k] >= received[k]
      /\ WorkerOK(proc[w], received', log)
  <2>1. CASE received' = [received EXCEPT ![Key(proc[w])] = @ + 1]
    BY <1>1, <2>1, MessageArrives
  <2>2. CASE UNCHANGED received
    <3>1. received' \in [Keys -> Nat] /\ \A k \in Keys : received'[k] >= received[k]
      BY <2>2, WorkerFacts
    <3> QED
      BY <3>1, <2>2, WorkerFacts
  <2> QED
    BY <1>1, <2>1, <2>2
<1>4. Forgo(proc[w]) \in Process /\ WorkerOK(Forgo(proc[w]), received', log)
  BY <1>3, WorkerFacts, NextRowType, LetGoOK
<1>5. log \subseteq [key : Keys, channel : Channel]
  BY WorkerFacts
<1> HIDE DEF WorkerOK, RunInv
<1> QED
  BY <1>1, <1>2, <1>3, <1>4, <1>5, LocalStep

LEMMA WriteLogOK == ASSUME RunInv, NEW w \in Workers, WriteLog(w) PROVE RunInv'
<1> DEFINE n == [key |-> Key(proc[w]), channel |-> pickChannel(proc[w].row.pref)]
<1>1. /\ proc[w].pc = "log" /\ UNCHANGED <<today, received, excused, left>>
      /\ log' = log \cup {n} /\ proc' = [proc EXCEPT ![w] = NextRow(proc[w])]
  BY DEF WriteLog
<1>2. /\ proc[w] \in Process /\ WorkerOK(proc[w], received, log) /\ Key(proc[w]) \in Keys
      /\ received \in [Keys -> Nat] /\ log \subseteq [key : Keys, channel : Channel]
      /\ excused \in [Keys -> Nat] /\ left \in 0..MaxFaults
  BY <1>1, WorkerFacts DEF InHand
<1>3. n \in [key : Keys, channel : Channel]
  BY <1>2, pickChannelType DEF Process, SelectedRow
<1>4. n.channel = "email" => received[n.key] >= 1
  BY <1>1, <1>2 DEF WorkerOK, CarriesRows
<1>5. WorkerOK(NextRow(proc[w]), received, log) /\ NextRow(proc[w]) \in Process
  BY <1>1, <1>2, NextRowType, LetGoOK, AtRecord
<1>6. \A k \in Keys : received'[k] >= received[k]
  BY <1>1, <1>2
<1>7. /\ log \subseteq log' /\ log' \subseteq [key : Keys, channel : Channel]
      /\ \A m \in log' \ log : m.channel = "email" => received'[m.key] >= 1
  BY <1>1, <1>2, <1>3, <1>4
<1> HIDE DEF WorkerOK, RunInv, n
<1>8. WorkerOK(NextRow(proc[w]), received', log')
  <2>1. received' \in [Keys -> Nat] /\ log \subseteq log'
    BY <1>1, <1>2, <1>7
  <2> QED
    BY <1>2, <1>5, <1>6, <2>1, WorkerStaysOK
<1>9. excused' \in [Keys -> Nat] /\ left' \in 0..MaxFaults /\ received' \in [Keys -> Nat]
  BY <1>1, <1>2
<1> QED
  BY <1>1, <1>5, <1>6, <1>7, <1>8, <1>9, LocalStep

LEMMA WriteLogFailsOK == ASSUME RunInv, NEW w \in Workers, WriteLogFails(w) PROVE RunInv'
<1>1. /\ proc[w].pc = "log" /\ UNCHANGED <<today, received, log>>
      /\ IF proc[w].stopping THEN UNCHANGED <<left, excused>> ELSE Fault /\ Excuse(proc[w])
      /\ proc' = [proc EXCEPT ![w] = NextRow(proc[w])]
  BY DEF WriteLogFails
<1>2. /\ proc[w] \in Process /\ WorkerOK(proc[w], received, log) /\ Key(proc[w]) \in Keys
  BY <1>1, WorkerFacts DEF InHand
<1>3. WorkerOK(NextRow(proc[w]), received, log) /\ NextRow(proc[w]) \in Process
  BY <1>1, <1>2, NextRowType, LetGoOK, AtRecord
<1>4. excused' \in [Keys -> Nat] /\ left' \in 0..MaxFaults
  BY <1>1, <1>2, ExcuseType, FaultType
<1> QED
  BY <1>1, <1>3, <1>4, QuietStep

LEMMA FinishRunOK == ASSUME RunInv, NEW w \in Workers, FinishRun(w) PROVE RunInv'
<1> DEFINE p == IF proc[w].stopping THEN Down ELSE [Down EXCEPT !.pc = "waiting"]
<1>1. p \in Process /\ WorkerOK(p, received, log)
  BY DownType, Idle
<1>2. proc' = [proc EXCEPT ![w] = p] /\ UNCHANGED <<today, received, log, excused, left>>
  BY DEF FinishRun
<1>3. excused' \in [Keys -> Nat] /\ left' \in 0..MaxFaults
  BY <1>2, WorkerFacts
<1> HIDE DEF p
<1> QED
  BY <1>1, <1>2, <1>3, QuietStep

LEMMA StopOK == ASSUME RunInv, NEW w \in Workers, Stop(w) PROVE RunInv'
<1> DEFINE q == [proc[w] EXCEPT !.stopping = TRUE, !.owed = {}]
           p == IF proc[w].pc = "waiting" THEN Down ELSE q
<1>1. proc' = [proc EXCEPT ![w] = p] /\ UNCHANGED <<today, received, log>>
  BY DEF Stop
<1>2. q \in Process /\ WorkerOK(q, received, log)
  <2>1. proc[w] \in Process /\ WorkerOK(proc[w], received, log)
    BY WorkerFacts
  <2>2. /\ q \in Process /\ q.pc = proc[w].pc /\ q.rows = proc[w].rows /\ q.row = proc[w].row
        /\ q.target = proc[w].target /\ q.owed = {}
    BY <2>1 DEF Process
  <2>3. Key(q) = Key(proc[w])
    BY <2>2 DEF Key
  <2> HIDE DEF q
  <2> QED
    BY <2>1, <2>2, <2>3 DEF WorkerOK, CarriesRows, Owes, InHand
<1>3. p \in Process /\ WorkerOK(p, received, log)
  BY <1>2, DownType
<1>4. excused' \in [Keys -> Nat] /\ left' \in 0..MaxFaults
  BY LosesRecordType, FaultType DEF Stop
<1> HIDE DEF p
<1> QED
  BY <1>1, <1>3, <1>4, QuietStep

LEMMA CrashOK == ASSUME RunInv, NEW w \in Workers, Crash(w) PROVE RunInv'
<1>1. proc' = [proc EXCEPT ![w] = Down] /\ UNCHANGED <<today, received, log>>
  BY DEF Crash
<1>2. excused' \in [Keys -> Nat] /\ left' \in 0..MaxFaults
  BY LosesRecordType, FaultType DEF Crash
<1> QED
  BY <1>1, <1>2, DownType, QuietStep

LEMMA RunInvStep == ASSUME RunInv, [Next]_vars PROVE RunInv'
<1>1. CASE UNCHANGED vars
  BY <1>1 DEF vars, RunInv, TypeOK, RecordedEmailsArrived
<1>2. CASE Midnight
  <2>1. today' \in 0..LastDay
    BY <1>2, BoundsAssumption DEF Midnight, RunInv, TypeOK
  <2> QED
    BY <1>2, <2>1 DEF Midnight, RunInv, TypeOK, RecordedEmailsArrived
<1>3. ASSUME NEW w \in Workers, Step(w) PROVE RunInv'
  BY <1>3, SelectDueOK, SelectDueFailsOK, AlreadySentOK, AlreadySentFailsOK, SendEmailOK,
     SendSMSOK, SendEmailFailsOK, WriteLogOK, WriteLogFailsOK, FinishRunOK, StopOK, CrashOK
  DEF Step
<1> QED
  BY <1>1, <1>2, <1>3 DEF Next

-----------------------------------------------------------------------------
(***************************************************************************)
(* One message for each reminder and excuse.  A message on its way counts  *)
(* as sent, and what pays for the first one is its record, or the worker   *)
(* that is about to write it.                                              *)
(***************************************************************************)
Handles(p, k) == InHand(p) /\ ~p.stopping /\ ByEmail(p.row.pref) /\ Key(p) = k

Sends(p, k) == Handles(p, k) /\ p.pc = "send"

One(b) == IF b THEN 1 ELSE 0

Senders(k) == {w \in Workers : Sends(proc[w], k)}

Elsewhere(w, k) == \E v \in Workers \ {w} : Handles(proc[v], k)

Covered(k) == Logged(k) \/ \E w \in Workers : Handles(proc[w], k)

CountOK(k) == received[k] + Cardinality(Senders(k)) <= excused[k] + One(Covered(k))

CountInv == \A k \in Keys : CountOK(k)

LEMMA CountInvInit == Init => CountInv
<1> SUFFICES ASSUME Init, NEW k \in Keys PROVE CountOK(k)
  BY DEF CountInv
<1>1. Senders(k) = {}
  BY DEF Init, Senders, Sends, Handles, InHand, Down
<1>2. Cardinality(Senders(k)) = 0
  BY <1>1, FS_EmptySet
<1> QED
  BY <1>2 DEF Init, CountOK, One

\* A set with and without an element.
LEMMA CardinalityWithout ==
    ASSUME NEW S, IsFiniteSet(S), NEW x
    PROVE  /\ Cardinality(S) \in Nat /\ Cardinality(S \ {x}) \in Nat
           /\ Cardinality(S) = Cardinality(S \ {x}) + One(x \in S)
<1>1. Cardinality(S) \in Nat /\ IsFiniteSet(S \ {x}) /\ Cardinality(S \ {x}) \in Nat
  BY FS_CardinalityType, FS_RemoveElement
<1>2. Cardinality(S \ {x}) = IF x \in S THEN Cardinality(S) - 1 ELSE Cardinality(S)
  BY FS_RemoveElement
<1> QED
  BY <1>1, <1>2 DEF One

\* The balance before and what the step adds to it.
LEMMA Balance ==
    ASSUME NEW r \in Nat, NEW r2 \in Nat, NEW e \in Nat, NEW e2 \in Nat, NEW c \in Nat,
           NEW s \in Nat, NEW s2 \in Nat, NEW i \in Nat, NEW i2 \in Nat,
           r + (c + s) <= e + i, r2 + s2 + e + i <= r + s + e2 + i2
    PROVE  r2 + (c + s2) <= e2 + i2
OBVIOUS

\* What is left to show of a step is what it does to the balance of its worker.
LEMMA CountStep ==
    ASSUME RunInv, RunInv', NEW k \in Keys, CountOK(k), NEW w \in Workers, NEW p,
           proc' = [proc EXCEPT ![w] = p],
           received'[k] + One(Sends(p, k)) + excused[k]
                 + One(Logged(k) \/ Elsewhere(w, k) \/ Handles(proc[w], k))
              <= received[k] + One(Sends(proc[w], k)) + excused'[k]
                 + One(Logged(k)' \/ Elsewhere(w, k) \/ Handles(p, k))
    PROVE  CountOK(k)'
<1>1. /\ received[k] \in Nat /\ received'[k] \in Nat /\ excused[k] \in Nat /\ excused'[k] \in Nat
      /\ proc'[w] = p /\ \A v \in Workers \ {w} : proc'[v] = proc[v]
  BY DEF RunInv, TypeOK
<1>2. /\ Cardinality(Senders(k)) \in Nat /\ Cardinality(Senders(k) \ {w}) \in Nat
      /\ Cardinality(Senders(k)) = Cardinality(Senders(k) \ {w}) + One(Sends(proc[w], k))
  <2>1. IsFiniteSet(Senders(k))
    BY BoundsAssumption, FS_Subset DEF Senders
  <2>2. w \in Senders(k) <=> Sends(proc[w], k)
    BY DEF Senders
  <2>3. One(w \in Senders(k)) = One(Sends(proc[w], k))
    BY <2>2 DEF One
  <2> QED
    BY <2>1, <2>3, CardinalityWithout
<1>3. /\ Cardinality(Senders(k)') \in Nat /\ Cardinality(Senders(k)' \ {w}) \in Nat
      /\ Cardinality(Senders(k)') = Cardinality(Senders(k)' \ {w}) + One(Sends(p, k))
  <2>1. IsFiniteSet(Senders(k)')
    BY BoundsAssumption, FS_Subset DEF Senders
  <2>2. w \in Senders(k)' <=> Sends(p, k)
    BY <1>1 DEF Senders
  <2>3. One(w \in Senders(k)') = One(Sends(p, k))
    BY <2>2 DEF One
  <2> QED
    BY <2>1, <2>3, CardinalityWithout
<1>4. Senders(k)' \ {w} = Senders(k) \ {w}
  BY <1>1 DEF Senders
<1>5. Covered(k) <=> Logged(k) \/ Elsewhere(w, k) \/ Handles(proc[w], k)
  BY DEF Covered, Elsewhere
<1>6. Covered(k)' <=> Logged(k)' \/ Elsewhere(w, k) \/ Handles(p, k)
  BY <1>1 DEF Covered, Elsewhere
<1>7. /\ One(Covered(k)) = One(Logged(k) \/ Elsewhere(w, k) \/ Handles(proc[w], k))
      /\ One(Covered(k)') = One(Logged(k)' \/ Elsewhere(w, k) \/ Handles(p, k))
  BY <1>5, <1>6 DEF One
<1>8. One(Covered(k)) \in Nat /\ One(Covered(k)') \in Nat
      /\ One(Sends(p, k)) \in Nat /\ One(Sends(proc[w], k)) \in Nat
  BY DEF One
<1>9. received'[k] + One(Sends(p, k)) + excused[k] + One(Covered(k))
         <= received[k] + One(Sends(proc[w], k)) + excused'[k] + One(Covered(k)')
  BY <1>7
<1>10. received[k] + (Cardinality(Senders(k) \ {w}) + One(Sends(proc[w], k)))
         <= excused[k] + One(Covered(k))
  BY <1>2 DEF CountOK
<1>11. received'[k] + (Cardinality(Senders(k) \ {w}) + One(Sends(p, k)))
         <= excused'[k] + One(Covered(k)')
  BY <1>1, <1>2, <1>8, <1>9, <1>10, Balance
<1> QED
  BY <1>3, <1>4, <1>11 DEF CountOK

\* What an excuse adds.
LEMMA ExcuseCounts ==
    ASSUME RunInv, NEW k \in Keys, NEW p, Excuse(p)
    PROVE  excused'[k] = excused[k] + One(ByEmail(p.row.pref) /\ Key(p) = k)
BY DEF RunInv, TypeOK, Excuse, One

\* A step of a worker with nothing in hand before or after.
LEMMA EmptyHanded ==
    ASSUME RunInv, RunInv', NEW k \in Keys, CountOK(k), NEW w \in Workers, NEW p,
           proc' = [proc EXCEPT ![w] = p], UNCHANGED <<received, log, excused>>,
           ~InHand(proc[w]), ~InHand(p)
    PROVE  CountOK(k)'
<1>1. ~Handles(proc[w], k) /\ ~Handles(p, k) /\ ~Sends(proc[w], k) /\ ~Sends(p, k)
  BY DEF Handles, Sends
<1>2. Logged(k)' <=> Logged(k)
  BY DEF Logged
<1>3. received[k] \in Nat /\ excused[k] \in Nat
  BY DEF RunInv, TypeOK
<1>4. received'[k] + One(Sends(p, k)) + excused[k]
            + One(Logged(k) \/ Elsewhere(w, k) \/ Handles(proc[w], k))
         <= received[k] + One(Sends(proc[w], k)) + excused'[k]
            + One(Logged(k)' \/ Elsewhere(w, k) \/ Handles(p, k))
  BY <1>1, <1>2, <1>3 DEF One
<1> QED
  BY <1>4, CountStep

LEMMA ProceedHandles ==
    ASSUME RunInv, NEW w \in Workers, proc[w].pc = "next", NEW r \in proc[w].rows,
           NEW sending \in BOOLEAN, NEW k
    PROVE  LET t == Take(w, r)
               p == Proceed(t, sending)
           IN  /\ Handles(p, k) <=> sending /\ ~proc[w].stopping /\ ByEmail(r.pref) /\ Key(t) = k
               /\ Sends(p, k) <=> Handles(p, k)
               /\ t.row = r /\ t.stopping = proc[w].stopping
<1> DEFINE t == Take(w, r)
           p == Proceed(t, sending)
<1>1. /\ t \in Process /\ t.pc = "next" /\ t.row = r /\ t.target = proc[w].target
      /\ t.stopping = proc[w].stopping
  <2>1. proc[w] \in Process
    BY WorkerFacts
  <2> QED
    BY <2>1, TakeType DEF Take, Process
<1> HIDE DEF t
<1>2. /\ p.pc = (IF sending THEN "send" ELSE "next") /\ p.target = t.target
      /\ p.stopping = t.stopping /\ (sending => p.row = r)
  BY <1>1 DEF Proceed, NextRow, Process
<1>3. sending => Key(p) = Key(t)
  BY <1>1, <1>2 DEF Key
<1> HIDE DEF p
<1>4. /\ Handles(p, k) <=> sending /\ ~proc[w].stopping /\ ByEmail(r.pref) /\ Key(t) = k
      /\ Sends(p, k) <=> Handles(p, k)
      /\ t.row = r /\ t.stopping = proc[w].stopping
  BY <1>1, <1>2, <1>3 DEF Handles, Sends, InHand
<1> QED
  BY <1>4 DEF p, t

LEMMA AlreadySentCount ==
    ASSUME RunInv, RunInv', NEW k \in Keys, CountOK(k), NEW w \in Workers, AlreadySent(w)
    PROVE  CountOK(k)'
<1>1. PICK r \in proc[w].rows :
         LET p == Take(w, r)
             j == Key(p)
             sending == ~Logged(j) /\ Sendable(r)
             raced == sending /\ \E v \in Workers \ {w} : Handling(v, j)
         IN  /\ proc' = [proc EXCEPT ![w] = Proceed(p, sending)]
             /\ IF raced THEN Excuse(p) ELSE UNCHANGED excused
  BY DEF AlreadySent
<1> DEFINE t == Take(w, r)
           sending == ~Logged(Key(t)) /\ Sendable(r)
           p == Proceed(t, sending)
<1>2. proc[w].pc = "next" /\ ~proc[w].stopping /\ UNCHANGED <<received, log>>
      /\ proc' = [proc EXCEPT ![w] = p]
  BY <1>1 DEF AlreadySent
<1>3. /\ Handles(p, k) <=> sending /\ ByEmail(r.pref) /\ Key(t) = k
      /\ Sends(p, k) <=> Handles(p, k)
      /\ t.row = r
  BY <1>2, ProceedHandles
<1>4. ~Handles(proc[w], k) /\ ~Sends(proc[w], k)
  BY <1>2 DEF Handles, Sends, InHand
<1>5. Logged(k)' <=> Logged(k)
  BY <1>2 DEF Logged
<1>6. excused'[k] = excused[k] + One(sending /\ Elsewhere(w, Key(t))
                                     /\ ByEmail(r.pref) /\ Key(t) = k)
  <2>1. (\E v \in Workers \ {w} : Handling(v, Key(t))) <=> Elsewhere(w, Key(t))
    BY DEF Handling, Elsewhere, Handles, InHand
  <2>2. CASE sending /\ Elsewhere(w, Key(t))
    <3>1. Excuse(t)
      BY <1>1, <2>1, <2>2
    <3> QED
      BY <1>3, <2>2, <3>1, ExcuseCounts DEF One
  <2>3. CASE ~(sending /\ Elsewhere(w, Key(t)))
    <3>1. UNCHANGED excused
      BY <1>1, <2>1, <2>3
    <3> QED
      BY <2>3, <3>1, WorkerFacts DEF One
  <2> QED
    BY <2>2, <2>3
<1>7. received[k] \in Nat /\ excused[k] \in Nat
  BY WorkerFacts
<1> HIDE DEF p, t
<1>8. received'[k] + One(Sends(p, k)) + excused[k]
            + One(Logged(k) \/ Elsewhere(w, k) \/ Handles(proc[w], k))
         <= received[k] + One(Sends(proc[w], k)) + excused'[k]
            + One(Logged(k)' \/ Elsewhere(w, k) \/ Handles(p, k))
  <2>1. CASE sending /\ ByEmail(r.pref) /\ Key(t) = k
    BY <1>2, <1>3, <1>4, <1>5, <1>6, <1>7, <2>1 DEF One
  <2>2. CASE ~(sending /\ ByEmail(r.pref) /\ Key(t) = k)
    BY <1>2, <1>3, <1>4, <1>5, <1>6, <1>7, <2>2 DEF One
  <2> QED
    BY <2>1, <2>2
<1> QED
  BY <1>2, <1>8, CountStep

LEMMA AlreadySentFailsCount ==
    ASSUME RunInv, RunInv', NEW k \in Keys, CountOK(k), NEW w \in Workers, AlreadySentFails(w)
    PROVE  CountOK(k)'
<1>1. PICK r \in proc[w].rows :
         LET p == Take(w, r)
         IN  /\ proc' = [proc EXCEPT ![w] = Proceed(p, Sendable(r))]
             /\ IF p.stopping THEN UNCHANGED <<left, excused>> ELSE Fault /\ Excuse(p)
  BY DEF AlreadySentFails
<1> DEFINE t == Take(w, r)
           p == Proceed(t, Sendable(r))
<1>2. proc[w].pc = "next" /\ UNCHANGED <<received, log>> /\ proc' = [proc EXCEPT ![w] = p]
  BY <1>1 DEF AlreadySentFails
<1>3. Sendable(r) \in BOOLEAN
  <2>1. r \in SelectedRow
    BY DEF RunInv, TypeOK, Process
  <2> QED
    BY <2>1 DEF Sendable, SelectedRow, Preference
<1>4. /\ Handles(p, k) <=> Sendable(r) /\ ~proc[w].stopping /\ ByEmail(r.pref) /\ Key(t) = k
      /\ Sends(p, k) <=> Handles(p, k)
      /\ t.row = r /\ t.stopping = proc[w].stopping
  BY <1>2, <1>3, ProceedHandles
<1>5. ~Handles(proc[w], k) /\ ~Sends(proc[w], k)
  BY <1>2 DEF Handles, Sends, InHand
<1>6. Logged(k)' <=> Logged(k)
  BY <1>2 DEF Logged
<1>7. received[k] \in Nat /\ excused[k] \in Nat
  BY WorkerFacts
<1>8. received'[k] + One(Sends(p, k)) + excused[k]
            + One(Logged(k) \/ Elsewhere(w, k) \/ Handles(proc[w], k))
         <= received[k] + One(Sends(proc[w], k)) + excused'[k]
            + One(Logged(k)' \/ Elsewhere(w, k) \/ Handles(p, k))
  <2>1. CASE proc[w].stopping
    <3>1. excused' = excused /\ ~Handles(p, k) /\ ~Sends(p, k)
      BY <1>1, <1>4, <2>1
    <3> HIDE DEF p
    <3> QED
      BY <1>2, <1>5, <1>6, <1>7, <3>1 DEF One
  <2>2. CASE ~proc[w].stopping
    <3>1. excused'[k] = excused[k] + One(ByEmail(r.pref) /\ Key(t) = k)
      BY <1>1, <1>4, <2>2, ExcuseCounts
    <3>2. Handles(p, k) => ByEmail(r.pref) /\ Key(t) = k
      BY <1>4
    <3> HIDE DEF p, t
    <3> QED
      BY <1>2, <1>4, <1>5, <1>6, <1>7, <3>1, <3>2 DEF One
  <2> QED
    BY <2>1, <2>2
<1> HIDE DEF p
<1> QED
  BY <1>2, <1>8, CountStep

LEMMA SendEmailCount ==
    ASSUME RunInv, RunInv', NEW k \in Keys, CountOK(k), NEW w \in Workers, SendEmail(w)
    PROVE  CountOK(k)'
<1> DEFINE q == proc[w]
           p == [q EXCEPT !.pc = "log"]
<1>1. /\ q.pc = "send" /\ ~q.stopping /\ pickChannel(q.row.pref) = "email"
      /\ UNCHANGED <<log, excused>>
      /\ received' = [received EXCEPT ![Key(q)] = @ + 1]
      /\ proc' = [proc EXCEPT ![w] = p]
  BY DEF SendEmail
<1>2. q \in Process /\ Key(q) \in Keys /\ Sendable(q.row)
  BY <1>1 DEF RunInv, TypeOK, WorkerOK, CarriesRows, InHand
<1>3. ByEmail(q.row.pref)
  BY <1>1, <1>2 DEF ByEmail, Sendable
<1>4. p.pc = "log" /\ p.row = q.row /\ p.target = q.target /\ p.stopping = q.stopping
  BY <1>2 DEF Process
<1>5. Key(p) = Key(q)
  BY <1>4 DEF Key
<1>6. received[k] \in Nat /\ excused[k] \in Nat /\ received \in [Keys -> Nat]
  BY WorkerFacts
<1>7. received'[k] = received[k] + One(Key(q) = k)
  BY <1>1, <1>6 DEF One
<1> HIDE DEF p, q
<1>8. /\ Handles(p, k) <=> Key(q) = k
      /\ Handles(q, k) <=> Key(q) = k
      /\ Sends(q, k) <=> Key(q) = k
      /\ ~Sends(p, k)
  BY <1>1, <1>3, <1>4, <1>5 DEF Handles, Sends, InHand
<1>9. Logged(k)' <=> Logged(k)
  BY <1>1 DEF Logged
<1>10. received'[k] + One(Sends(p, k)) + excused[k]
            + One(Logged(k) \/ Elsewhere(w, k) \/ Handles(q, k))
         <= received[k] + One(Sends(q, k)) + excused'[k]
            + One(Logged(k)' \/ Elsewhere(w, k) \/ Handles(p, k))
  BY <1>1, <1>6, <1>7, <1>8, <1>9 DEF One
<1> QED
  BY <1>1, <1>10, CountStep DEF q

LEMMA SendSMSCount ==
    ASSUME RunInv, RunInv', NEW k \in Keys, CountOK(k), NEW w \in Workers, SendSMS(w)
    PROVE  CountOK(k)'
<1> DEFINE q == proc[w]
           p == [q EXCEPT !.pc = "log"]
<1>1. /\ q.pc = "send" /\ pickChannel(q.row.pref) = "sms"
      /\ UNCHANGED <<received, log, excused>> /\ proc' = [proc EXCEPT ![w] = p]
  BY DEF SendSMS
<1>2. p.row = q.row
  BY WorkerFacts DEF Process
<1>3. ~Handles(q, k) /\ ~Handles(p, k) /\ ~Sends(q, k) /\ ~Sends(p, k)
  BY <1>1, <1>2 DEF Handles, Sends, ByEmail
<1>4. Logged(k)' <=> Logged(k)
  BY <1>1 DEF Logged
<1>5. received[k] \in Nat /\ excused[k] \in Nat
  BY WorkerFacts
<1> HIDE DEF p, q
<1>6. received'[k] + One(Sends(p, k)) + excused[k]
            + One(Logged(k) \/ Elsewhere(w, k) \/ Handles(q, k))
         <= received[k] + One(Sends(q, k)) + excused'[k]
            + One(Logged(k)' \/ Elsewhere(w, k) \/ Handles(p, k))
  BY <1>1, <1>3, <1>4, <1>5 DEF One
<1> QED
  BY <1>1, <1>6, CountStep DEF q

\* The row in hand is let go, after a message on its way or without a record
\* of one: an excuse, or a worker that can neither send nor record.
LEMMA LetGoCount ==
    ASSUME RunInv, RunInv', NEW k \in Keys, CountOK(k), NEW w \in Workers, NEW p,
           proc' = [proc EXCEPT ![w] = p], UNCHANGED log, ~Handles(p, k), ~Sends(p, k),
           received'[k] = received[k] \/ (received'[k] = received[k] + 1 /\ Sends(proc[w], k)),
           excused'[k] >= excused[k],
           Handles(proc[w], k) => \/ excused'[k] = excused[k] + 1
                                  \/ Sends(proc[w], k) /\ received'[k] = received[k]
    PROVE  CountOK(k)'
<1>1. Logged(k)' <=> Logged(k)
  BY DEF Logged
<1>2. received[k] \in Nat /\ excused[k] \in Nat /\ excused'[k] \in Nat
  BY DEF RunInv, TypeOK
<1>3. Sends(proc[w], k) => Handles(proc[w], k)
  BY DEF Sends
<1>4. received'[k] + One(Sends(p, k)) + excused[k]
            + One(Logged(k) \/ Elsewhere(w, k) \/ Handles(proc[w], k))
         <= received[k] + One(Sends(proc[w], k)) + excused'[k]
            + One(Logged(k)' \/ Elsewhere(w, k) \/ Handles(p, k))
  BY <1>1, <1>2, <1>3 DEF One
<1> QED
  BY <1>4, CountStep

LEMMA NextRowHandles ==
    ASSUME NEW p \in Process, NEW k
    PROVE  /\ ~Handles(NextRow(p), k) /\ ~Sends(NextRow(p), k)
           /\ ~Handles(Forgo(p), k) /\ ~Sends(Forgo(p), k)
           /\ ~Handles(Down, k) /\ ~Sends(Down, k)
BY NextRowType DEF Handles, Sends, InHand, Down

\* To handle a reminder is to have the excuse count for it.
LEMMA ExcuseOfHandled ==
    ASSUME RunInv, NEW k \in Keys, NEW p, Excuse(p)
    PROVE  /\ excused'[k] >= excused[k]
           /\ Handles(p, k) => excused'[k] = excused[k] + 1
BY ExcuseCounts, WorkerFacts DEF Handles, One, RunInv, TypeOK

LEMMA SendEmailFailsCount ==
    ASSUME RunInv, RunInv', NEW k \in Keys, CountOK(k), NEW w \in Workers, SendEmailFails(w)
    PROVE  CountOK(k)'
<1> DEFINE q == proc[w]
<1>1. /\ q.pc = "send" /\ pickChannel(q.row.pref) = "email" /\ UNCHANGED log
      /\ proc' = [proc EXCEPT ![w] = Forgo(q)]
      /\ \/ q.stopping /\ UNCHANGED <<left, received, excused>>
         \/ ~q.stopping /\ Fault /\ UNCHANGED <<received, excused>>
         \/ /\ ~q.stopping /\ Fault
            /\ received' = [received EXCEPT ![Key(q)] = @ + 1]
            /\ Excuse(q)
  BY DEF SendEmailFails
<1>2. q \in Process /\ Key(q) \in Keys /\ Sendable(q.row)
  BY <1>1 DEF RunInv, TypeOK, WorkerOK, CarriesRows, InHand
<1>3. ~Handles(Forgo(q), k) /\ ~Sends(Forgo(q), k)
  BY <1>2, NextRowHandles
<1>4. Handles(q, k) => Sends(q, k)
  BY <1>1 DEF Sends
<1>5. received \in [Keys -> Nat] /\ excused \in [Keys -> Nat]
  BY WorkerFacts
<1>6. CASE UNCHANGED <<received, excused>>
  <2>1. received'[k] = received[k] /\ excused'[k] >= excused[k]
    BY <1>5, <1>6
  <2> HIDE DEF q
  <2> QED
    BY <1>1, <1>3, <1>4, <2>1, LetGoCount DEF q
<1>7. CASE /\ ~q.stopping /\ Excuse(q)
           /\ received' = [received EXCEPT ![Key(q)] = @ + 1]
  <2>1. Key(q) = k => Sends(q, k)
    BY <1>1, <1>2, <1>7 DEF Sends, Handles, InHand, ByEmail, Sendable
  <2>2. received'[k] = received[k] \/ (received'[k] = received[k] + 1 /\ Sends(q, k))
    BY <1>5, <1>7, <2>1
  <2>3. excused'[k] >= excused[k] /\ (Handles(q, k) => excused'[k] = excused[k] + 1)
    BY <1>7, ExcuseOfHandled
  <2> HIDE DEF q
  <2> QED
    BY <1>1, <1>3, <2>2, <2>3, LetGoCount DEF q
<1> QED
  BY <1>1, <1>6, <1>7

LEMMA WriteLogCount ==
    ASSUME RunInv, RunInv', NEW k \in Keys, CountOK(k), NEW w \in Workers, WriteLog(w)
    PROVE  CountOK(k)'
<1> DEFINE q == proc[w]
           n == [key |-> Key(q), channel |-> pickChannel(q.row.pref)]
<1>1. /\ q.pc = "log" /\ UNCHANGED <<received, excused>>
      /\ log' = log \cup {n} /\ proc' = [proc EXCEPT ![w] = NextRow(q)]
  BY DEF WriteLog
<1>2. ~Handles(NextRow(q), k) /\ ~Sends(NextRow(q), k)
  BY WorkerFacts, NextRowHandles
<1>3. (Logged(k) => Logged(k)') /\ (Handles(q, k) => Logged(k)')
  <2>1. Logged(k) => Logged(k)'
    BY <1>1 DEF Logged
  <2>2. n \in log' /\ n.key = Key(q)
    BY <1>1
  <2>3. ASSUME Handles(q, k) PROVE Logged(k)'
    <3>1. n.key = k
      BY <2>2, <2>3 DEF Handles
    <3> HIDE DEF n
    <3> QED
      BY <2>2, <3>1 DEF Logged
  <2> QED
    BY <2>1, <2>3
<1>4. ~Sends(q, k)
  BY <1>1 DEF Sends
<1>5. received[k] \in Nat /\ excused[k] \in Nat
  BY WorkerFacts
<1> HIDE DEF q
<1>6. received'[k] + One(Sends(NextRow(q), k)) + excused[k]
            + One(Logged(k) \/ Elsewhere(w, k) \/ Handles(q, k))
         <= received[k] + One(Sends(q, k)) + excused'[k]
            + One(Logged(k)' \/ Elsewhere(w, k) \/ Handles(NextRow(q), k))
  BY <1>1, <1>2, <1>3, <1>4, <1>5 DEF One
<1> QED
  BY <1>1, <1>6, CountStep DEF q

LEMMA WriteLogFailsCount ==
    ASSUME RunInv, RunInv', NEW k \in Keys, CountOK(k), NEW w \in Workers, WriteLogFails(w)
    PROVE  CountOK(k)'
<1>1. /\ UNCHANGED <<received, log>> /\ proc' = [proc EXCEPT ![w] = NextRow(proc[w])]
      /\ proc[w].stopping => UNCHANGED excused
      /\ ~proc[w].stopping => Excuse(proc[w])
  BY DEF WriteLogFails
<1>2. ~Handles(NextRow(proc[w]), k) /\ ~Sends(NextRow(proc[w]), k)
  BY WorkerFacts, NextRowHandles
<1>3. excused'[k] >= excused[k] /\ (Handles(proc[w], k) => excused'[k] = excused[k] + 1)
  <2>1. CASE proc[w].stopping
    BY <1>1, <2>1, WorkerFacts DEF Handles
  <2>2. CASE ~proc[w].stopping
    BY <1>1, <2>2, ExcuseOfHandled
  <2> QED
    BY <2>1, <2>2
<1> QED
  BY <1>1, <1>2, <1>3, LetGoCount

\* A worker that loses its record has its excuse.
LEMMA LosesRecordCount ==
    ASSUME RunInv, NEW k \in Keys, NEW w \in Workers, LosesRecord(proc[w])
    PROVE  /\ excused'[k] >= excused[k]
           /\ Handles(proc[w], k) => excused'[k] = excused[k] + 1 \/ Sends(proc[w], k)
<1>1. CASE proc[w].pc = "log" /\ ~proc[w].stopping
  BY <1>1, ExcuseOfHandled DEF LosesRecord
<1>2. CASE ~(proc[w].pc = "log" /\ ~proc[w].stopping)
  <2>1. UNCHANGED excused
    BY <1>2 DEF LosesRecord
  <2>2. Handles(proc[w], k) => Sends(proc[w], k)
    BY <1>2 DEF Handles, Sends, InHand
  <2> QED
    BY <2>1, <2>2, WorkerFacts
<1> QED
  BY <1>1, <1>2

LEMMA StopCount ==
    ASSUME RunInv, RunInv', NEW k \in Keys, CountOK(k), NEW w \in Workers, Stop(w)
    PROVE  CountOK(k)'
<1> DEFINE q == [proc[w] EXCEPT !.stopping = TRUE, !.owed = {}]
           p == IF proc[w].pc = "waiting" THEN Down ELSE q
<1>1. /\ proc' = [proc EXCEPT ![w] = p] /\ UNCHANGED <<received, log>>
      /\ LosesRecord(proc[w])
  BY DEF Stop
<1>2. q.stopping
  BY WorkerFacts DEF Process
<1>3. ~Handles(p, k) /\ ~Sends(p, k)
  BY <1>2 DEF Handles, Sends, InHand, Down
<1> HIDE DEF p
<1> QED
  BY <1>1, <1>3, LosesRecordCount, LetGoCount

LEMMA CrashCount ==
    ASSUME RunInv, RunInv', NEW k \in Keys, CountOK(k), NEW w \in Workers, Crash(w)
    PROVE  CountOK(k)'
<1>1. proc' = [proc EXCEPT ![w] = Down] /\ UNCHANGED <<received, log>> /\ LosesRecord(proc[w])
  BY DEF Crash
<1>2. ~Handles(Down, k) /\ ~Sends(Down, k)
  BY DEF Handles, Sends, InHand, Down
<1> QED
  BY <1>1, <1>2, LosesRecordCount, LetGoCount

\* The beginning and the end of a run.
LEMMA RunEndsCount ==
    ASSUME RunInv, RunInv', NEW k \in Keys, CountOK(k), NEW w \in Workers,
           SelectDue(w) \/ SelectDueFails(w) \/ FinishRun(w)
    PROVE  CountOK(k)'
<1>1. UNCHANGED <<received, log, excused>> /\ ~InHand(proc[w])
  BY DEF SelectDue, SelectDueFails, FinishRun, InHand
<1>2. CASE SelectDue(w)
  <2>1. PICK due \in SUBSET DueOn(today + NoticeDays) :
          \E pref \in [due -> Preferences] :
            proc' = [proc EXCEPT ![w] =
                        [Down EXCEPT !.pc = "next", !.target = today + NoticeDays,
                                     !.rows = {[charge |-> c, pref |-> pref[c]] : c \in due},
                                     !.owed = {c \in due : ByEmail(pref[c])}]]
    BY <1>2 DEF SelectDue
  <2>2. PICK pref \in [due -> Preferences] :
            proc' = [proc EXCEPT ![w] =
                        [Down EXCEPT !.pc = "next", !.target = today + NoticeDays,
                                     !.rows = {[charge |-> c, pref |-> pref[c]] : c \in due},
                                     !.owed = {c \in due : ByEmail(pref[c])}]]
    BY <2>1
  <2> DEFINE p == [Down EXCEPT !.pc = "next", !.target = today + NoticeDays,
                               !.rows = {[charge |-> c, pref |-> pref[c]] : c \in due},
                               !.owed = {c \in due : ByEmail(pref[c])}]
  <2>3. ~InHand(p)
    BY DEF InHand, Down
  <2>4. proc' = [proc EXCEPT ![w] = p]
    BY <2>2
  <2> HIDE DEF p
  <2> QED
    BY <1>1, <2>3, <2>4, EmptyHanded
<1>3. CASE SelectDueFails(w) \/ FinishRun(w)
  <2>1. \E p : proc' = [proc EXCEPT ![w] = p] /\ ~InHand(p)
    BY <1>3 DEF SelectDueFails, FinishRun, InHand, Down
  <2> QED
    BY <1>1, <2>1, EmptyHanded
<1> QED
  BY <1>2, <1>3

LEMMA CountInvStep == ASSUME RunInv, RunInv', CountInv, [Next]_vars PROVE CountInv'
<1> SUFFICES ASSUME NEW k \in Keys PROVE CountOK(k)'
  BY DEF CountInv
<1>1. CountOK(k)
  BY DEF CountInv
<1>2. CASE UNCHANGED <<received, log, proc, excused>>
  <2>1. (Covered(k)' <=> Covered(k)) /\ Senders(k)' = Senders(k)
    BY <1>2 DEF Covered, Logged, Senders
  <2> QED
    BY <1>1, <1>2, <2>1 DEF CountOK, One
<1>3. ASSUME NEW w \in Workers, Step(w) PROVE CountOK(k)'
  BY <1>1, <1>3, RunEndsCount, AlreadySentCount, AlreadySentFailsCount, SendEmailCount,
     SendSMSCount, SendEmailFailsCount, WriteLogCount, WriteLogFailsCount, StopCount, CrashCount
  DEF Step
<1> QED
  BY <1>2, <1>3 DEF Next, Midnight, vars

-----------------------------------------------------------------------------
LEMMA Invariance == Spec => []RunInv /\ []CountInv
<1>1. Spec => []RunInv
  BY RunInvInit, RunInvStep, PTL DEF Spec
<1>2. RunInv /\ RunInv' /\ CountInv /\ [Next]_vars => CountInv'
  BY CountInvStep
<1> QED
  BY <1>1, <1>2, CountInvInit, PTL DEF Spec

\* The variables of the worker keep their types.
THEOREM TypeCorrect == Spec => []TypeOK
<1>1. RunInv => TypeOK
  BY DEF RunInv
<1> QED
  BY <1>1, Invariance, PTL

\* A record of an email tells of a message that arrived: writeLog comes after the
\* message, for the reminder and the channel in hand.
THEOREM RecordsAreTrue == Spec => []RecordedEmailsArrived
<1>1. RunInv => RecordedEmailsArrived
  BY DEF RunInv
<1> QED
  BY <1>1, Invariance, PTL

\* A run that comes to its last row has reminded everyone it owes a reminder.
THEOREM RunsRemind == Spec => []CompletedRunReminds
<1>1. RunInv => CompletedRunReminds
  <2> SUFFICES ASSUME RunInv, NEW w \in Workers, proc[w].pc = "next", proc[w].rows = {},
                      NEW c \in proc[w].owed
               PROVE  \/ received[<<c, proc[w].target>>] >= 1
                      \/ [key |-> <<c, proc[w].target>>, channel |-> "sms"] \in log
    BY DEF CompletedRunReminds
  <2>1. Reminded(c, proc[w].target, received, log)
    BY DEF RunInv, WorkerOK, Owes, InHand
  <2> QED
    BY <2>1 DEF Reminded
<1> QED
  BY <1>1, Invariance, PTL

\* A second message for a reminder has a cause of its own, whatever the workers,
\* the failures and the days.
THEOREM DuplicatesHaveACause == Spec => []DuplicatesNeedACause
<1>1. RunInv /\ CountInv => DuplicatesNeedACause
  <2> SUFFICES ASSUME RunInv, CountInv, NEW k \in Keys PROVE received[k] <= 1 + excused[k]
    BY DEF DuplicatesNeedACause
  <2>1. received[k] \in Nat /\ excused[k] \in Nat
    BY DEF RunInv, TypeOK
  <2>2. Cardinality(Senders(k)) \in Nat
    <3>1. IsFiniteSet(Senders(k))
      BY BoundsAssumption, FS_Subset DEF Senders
    <3> QED
      BY <3>1, FS_CardinalityType
  <2>3. received[k] + Cardinality(Senders(k)) <= excused[k] + One(Covered(k))
    BY DEF CountInv, CountOK
  <2>4. One(Covered(k)) \in {0, 1}
    BY DEF One
  <2> QED
    BY <2>1, <2>2, <2>3, <2>4
<1> QED
  BY <1>1, Invariance, PTL

-----------------------------------------------------------------------------
(***************************************************************************)
(* The desk.                                                               *)
(***************************************************************************)

\* Beside a desk the worker is the worker of Reminders.
THEOREM DeskRunsWorker == DeskSpec => Spec
<1>1. DeskInit => Init
  BY DEF DeskInit
<1>2. [DeskNext]_<<vars, deskVars, told>> => [Next]_vars
  BY DEF DeskNext
<1> QED
  BY <1>1, <1>2, PTL DEF DeskSpec, Spec

Sending == [pc: {"idle", "each"}, ids: Lists \cup {<<>>}, at: Nat, byID: SUBSET Ids,
            skipped: Nat, sent: Seq(Ids)]

\* The rows of the desk, its requests without their bounds.
RowsInv ==
    /\ live \subseteq Leases
    /\ reminder \in [Ids -> Nat]
    /\ desk \in [Clerks -> Sending]

LEMMA NoSendOK == NoSend \in Sending
BY DEF NoSend, Sending

LEMMA RowsInvInit == DeskInit => RowsInv
BY NoSendOK DEF DeskInit, RowsInv

\* A step of one clerk.
LEMMA ClerkStep ==
    ASSUME RowsInv, NEW k \in Clerks, NEW s \in Sending,
           desk' = [desk EXCEPT ![k] = s], UNCHANGED live, reminder' \in [Ids -> Nat]
    PROVE  RowsInv'
BY DEF RowsInv

\* What SendReminders begins with.
Begun(ids) == [NoSend EXCEPT !.pc = "each", !.ids = ids, !.byID = Candidates]

LEMMA BegunOK ==
    ASSUME RowsInv, NEW ids \in Lists
    PROVE  /\ Begun(ids) \in Sending /\ Begun(ids).ids = ids /\ Begun(ids).sent = <<>>
           /\ Begun(ids).at = 0 /\ Begun(ids).skipped = 0
<1>1. Candidates \subseteq Ids
  BY DEF Candidates, Ids, RowsInv
<1>2. ids \in Lists \cup {<<>>}
  OBVIOUS
<1>3. NoSend \in Sending /\ NoSend.sent = <<>> /\ NoSend.at = 0 /\ NoSend.skipped = 0
  BY NoSendOK DEF NoSend
<1>4. Begun(ids) \in Sending
  BY <1>1, <1>2, <1>3 DEF Begun, Sending
<1>5. /\ Begun(ids).ids = ids /\ Begun(ids).sent = NoSend.sent
      /\ Begun(ids).at = NoSend.at /\ Begun(ids).skipped = NoSend.skipped
  BY <1>3 DEF Begun, Sending
<1> QED
  BY <1>3, <1>4, <1>5

LEMMA SendRemindersRows == ASSUME RowsInv, NEW k \in Clerks, SendReminders(k) PROVE RowsInv'
<1>1. PICK ids \in Lists : desk' = [desk EXCEPT ![k] = Begun(ids)]
  BY DEF SendReminders, Begun
<1>2. UNCHANGED live /\ reminder' \in [Ids -> Nat]
  BY DEF SendReminders, RowsInv
<1> QED
  BY <1>1, <1>2, BegunOK, ClerkStep

LEMMA CreateReminderRows ==
    ASSUME RowsInv, NEW k \in Clerks, CreateReminder(k) PROVE RowsInv'
<1> DEFINE s == [desk[k] EXCEPT !.at = @ + 1, !.sent = Append(@, Current(k))]
<1>1. desk[k] \in Sending /\ Current(k) \in desk[k].byID
      /\ reminder' = [reminder EXCEPT ![Current(k)] = @ + 1] /\ UNCHANGED live
  BY DEF CreateReminder, RowsInv, Candidate
<1>2. desk' = [desk EXCEPT ![k] = s]
  BY DEF CreateReminder
<1>3. Current(k) \in Ids
  BY <1>1 DEF Sending
<1>4. s \in Sending
  <2>1. desk[k].at + 1 \in Nat /\ Append(desk[k].sent, Current(k)) \in Seq(Ids)
    BY <1>1, <1>3 DEF Sending
  <2> QED
    BY <1>1, <2>1 DEF Sending
<1>5. reminder' \in [Ids -> Nat]
  BY <1>1, <1>3 DEF RowsInv
<1> HIDE DEF s
<1> QED
  BY <1>1, <1>2, <1>4, <1>5, ClerkStep

LEMMA SkipRows == ASSUME RowsInv, NEW k \in Clerks, Skip(k) PROVE RowsInv'
<1> DEFINE s == [desk[k] EXCEPT !.at = @ + 1, !.skipped = @ + 1]
<1>1. desk' = [desk EXCEPT ![k] = s] /\ UNCHANGED live /\ reminder' \in [Ids -> Nat]
  BY DEF Skip, RowsInv
<1>2. s \in Sending
  <2>1. desk[k] \in Sending
    BY DEF RowsInv
  <2>2. desk[k].at + 1 \in Nat /\ desk[k].skipped + 1 \in Nat
    BY <2>1 DEF Sending
  <2> QED
    BY <2>1, <2>2 DEF Sending
<1> HIDE DEF s
<1> QED
  BY <1>1, <1>2, ClerkStep

LEMMA RequestEndsRows ==
    ASSUME RowsInv, NEW k \in Clerks, CreateReminderFails(k) \/ AnswerSent(k)
    PROVE  RowsInv'
<1>1. desk' = [desk EXCEPT ![k] = NoSend] /\ UNCHANGED live /\ reminder' \in [Ids -> Nat]
  BY DEF CreateReminderFails, AnswerSent, RowsInv
<1> QED
  BY <1>1, NoSendOK, ClerkStep

LEMMA RowsInvStep == ASSUME RowsInv, [DeskNext]_<<vars, deskVars, told>> PROVE RowsInv'
<1>1. CASE UNCHANGED deskVars
  BY <1>1 DEF deskVars, RowsInv
<1>2. CASE ChangeBill \/ ChangeLease
  BY <1>2 DEF ChangeBill, ChangeLease, RowsInv
<1>3. ASSUME NEW k \in Clerks,
             \/ SendReminders(k) \/ Skip(k) \/ CreateReminder(k)
             \/ CreateReminderFails(k) \/ AnswerSent(k)
      PROVE  RowsInv'
  BY <1>3, SendRemindersRows, SkipRows, CreateReminderRows, RequestEndsRows
<1> QED
  BY <1>1, <1>2, <1>3 DEF DeskNext, DeskStep

\* A request has handled at most the ids it has, one by one.
Progress(s) ==
    /\ Len(s.sent) + s.skipped = s.at
    /\ s.at <= Len(s.ids) /\ Len(s.ids) <= MaxIds

DeskInv ==
    /\ RowsInv
    /\ told \in {"worker", "desk"} /\ bill \in [Charges -> Bill] /\ answered \in [Ids -> Nat]
    /\ sends \in 0..MaxSends /\ changes \in 0..MaxChanges
    /\ \A k \in Clerks : Progress(desk[k])

LEMMA ListLengths == \A ids \in Lists : Len(ids) \in 1..MaxIds
<1> SUFFICES ASSUME NEW n \in 1..MaxIds, NEW ids \in [1..n -> Ids] PROVE Len(ids) \in 1..MaxIds
  BY DEF Lists
<1>1. n \in Nat
  BY DeskAssumption
<1>2. ids \in Seq(Ids)
  BY <1>1, SeqDef
<1>3. Len(ids) \in Nat /\ DOMAIN ids = 1..Len(ids) /\ DOMAIN ids = 1..n
  BY <1>2, LenProperties
<1> QED
  BY <1>1, <1>3

LEMMA DeskInvInit == DeskInit => DeskInv
<1> SUFFICES ASSUME DeskInit PROVE DeskInv
  OBVIOUS
<1>1. \A k \in Clerks : Progress(desk[k])
  BY DeskAssumption DEF DeskInit, Progress, NoSend
<1> QED
  BY <1>1, RowsInvInit, DeskAssumption DEF DeskInit, DeskInv

\* A step of one clerk that answers nothing.
LEMMA ClerkProgress ==
    ASSUME DeskInv, RowsInv', NEW k \in Clerks, NEW s, Progress(s),
           desk' = [desk EXCEPT ![k] = s], UNCHANGED <<told, bill, changes>>,
           answered' \in [Ids -> Nat], sends' \in 0..MaxSends
    PROVE  DeskInv'
<1>1. ASSUME NEW j \in Clerks PROVE Progress(desk'[j])
  BY DEF DeskInv, RowsInv
<1> QED
  BY <1>1 DEF DeskInv

LEMMA NoSendProgress == Progress(NoSend)
BY DeskAssumption DEF Progress, NoSend

LEMMA DeskInvStep == ASSUME DeskInv, [DeskNext]_<<vars, deskVars, told>> PROVE DeskInv'
<1>1. RowsInv'
  BY RowsInvStep DEF DeskInv
<1>2. UNCHANGED told
  BY DEF DeskNext
<1>3. CASE UNCHANGED deskVars
  BY <1>1, <1>2, <1>3 DEF deskVars, DeskInv
<1>4. CASE ChangeBill \/ ChangeLease
  <2>1. /\ bill' \in [Charges -> Bill] /\ changes' \in 0..MaxChanges
        /\ UNCHANGED <<desk, answered, sends>>
    BY <1>4, DeskAssumption DEF ChangeBill, ChangeLease, DeskInv
  <2> QED
    BY <1>1, <1>2, <2>1 DEF DeskInv
<1>5. ASSUME NEW k \in Clerks, SendReminders(k) PROVE DeskInv'
  <2>1. PICK ids \in Lists : desk' = [desk EXCEPT ![k] = Begun(ids)]
    BY <1>5 DEF SendReminders, Begun
  <2>2. Len(ids) \in 1..MaxIds
    BY ListLengths
  <2>3. Progress(Begun(ids))
    BY <2>2, BegunOK, DeskAssumption DEF Progress, DeskInv
  <2>4. answered' \in [Ids -> Nat] /\ sends' \in 0..MaxSends /\ UNCHANGED <<bill, changes>>
    BY <1>5, DeskAssumption DEF SendReminders, DeskInv
  <2> QED
    BY <1>1, <1>2, <2>1, <2>3, <2>4, ClerkProgress
<1>6. ASSUME NEW k \in Clerks, Skip(k) \/ CreateReminder(k) PROVE DeskInv'
  <2>1. /\ desk[k] \in Sending /\ Progress(desk[k]) /\ desk[k].at < Len(desk[k].ids)
        /\ Len(desk[k].ids) \in 0..MaxIds
    <3>1. desk[k] \in Sending /\ Progress(desk[k]) /\ desk[k].at < Len(desk[k].ids)
      BY <1>6 DEF Skip, CreateReminder, InLoop, DeskInv, RowsInv
    <3>2. CASE desk[k].ids \in Lists
      BY <3>1, <3>2, ListLengths
    <3>3. CASE desk[k].ids = <<>>
      BY <3>1, <3>3, DeskAssumption DEF Progress
    <3> QED
      BY <3>1, <3>2, <3>3 DEF Sending
  <2>2. answered' \in [Ids -> Nat] /\ sends' \in 0..MaxSends /\ UNCHANGED <<bill, changes>>
    BY <1>6 DEF Skip, CreateReminder, DeskInv
  <2>3. CASE Skip(k)
    <3> DEFINE s == [desk[k] EXCEPT !.at = @ + 1, !.skipped = @ + 1]
    <3>1. s.ids = desk[k].ids /\ s.sent = desk[k].sent
          /\ s.at = desk[k].at + 1 /\ s.skipped = desk[k].skipped + 1
      BY <2>1 DEF Sending
    <3>2. desk' = [desk EXCEPT ![k] = s]
      BY <2>3 DEF Skip
    <3> HIDE DEF s
    <3>3. desk[k].at \in Nat /\ desk[k].skipped \in Nat /\ Len(desk[k].sent) \in Nat
      BY <2>1, LenProperties DEF Sending
    <3>4. Progress(s)
      BY SMTT(30), <2>1, <3>1, <3>3, DeskAssumption DEF Progress
    <3> QED
      BY <1>1, <1>2, <2>2, <3>2, <3>4, ClerkProgress
  <2>4. CASE CreateReminder(k)
    <3> DEFINE s == [desk[k] EXCEPT !.at = @ + 1, !.sent = Append(@, Current(k))]
    <3>0. s.sent = Append(desk[k].sent, Current(k))
      BY <2>1 DEF Sending
    <3>1. s.ids = desk[k].ids /\ s.at = desk[k].at + 1 /\ s.skipped = desk[k].skipped
      BY <2>1 DEF Sending
    <3>2. desk' = [desk EXCEPT ![k] = s]
      BY <2>4 DEF CreateReminder
    <3> HIDE DEF s
    <3>3. desk[k].at \in Nat /\ desk[k].skipped \in Nat /\ Len(desk[k].sent) \in Nat
      BY <2>1, LenProperties DEF Sending
    <3>4. Len(s.sent) = Len(desk[k].sent) + 1
      BY <2>1, <3>0 DEF Sending
    <3>5. Progress(s)
      <4>1. Len(s.sent) + s.skipped = s.at
        <5>1. Len(desk[k].sent) + desk[k].skipped = desk[k].at
          BY <2>1 DEF Progress
        <5>2. \A a, b, c \in Nat : a + b = c => (a + 1) + b = c + 1
          OBVIOUS
        <5>3. (Len(desk[k].sent) + 1) + desk[k].skipped = desk[k].at + 1
          BY <3>3, <5>1, <5>2
        <5> QED
          BY <3>1, <3>4, <5>3, Zenon
      <4>2. s.at <= Len(s.ids) /\ Len(s.ids) <= MaxIds
        BY <2>1, <3>1, <3>3 DEF Progress
      <4> QED
        BY <4>1, <4>2 DEF Progress
    <3> QED
      BY <1>1, <1>2, <2>2, <3>2, <3>5, ClerkProgress
  <2> QED
    BY <1>6, <2>3, <2>4
<1>7. ASSUME NEW k \in Clerks, CreateReminderFails(k) \/ AnswerSent(k) PROVE DeskInv'
  <2>1. desk' = [desk EXCEPT ![k] = NoSend] /\ sends' \in 0..MaxSends
        /\ UNCHANGED <<bill, changes>>
    BY <1>7 DEF CreateReminderFails, AnswerSent, DeskInv
  <2>2. answered' \in [Ids -> Nat]
    <3>1. CASE CreateReminderFails(k)
      BY <3>1 DEF CreateReminderFails, DeskInv
    <3>2. CASE AnswerSent(k)
      <4> DEFINE Vouched(i) == {n \in DOMAIN desk[k].sent : desk[k].sent[n] = i}
      <4>1. \A i \in Ids : Cardinality(Vouched(i)) \in Nat
        <5> SUFFICES ASSUME NEW i \in Ids PROVE IsFiniteSet(Vouched(i))
          BY FS_CardinalityType
        <5>1. desk[k].sent \in Seq(Ids)
          BY DEF DeskInv, RowsInv, Sending
        <5>2. IsFiniteSet(DOMAIN desk[k].sent)
          BY <5>1, LenProperties, FS_Interval
        <5> QED
          BY <5>2, FS_Subset
      <4>2. answered' = [i \in Ids |-> answered[i] + Cardinality(Vouched(i))]
        BY <3>2 DEF AnswerSent
      <4> HIDE DEF Vouched
      <4>3. \A i \in Ids : answered[i] + Cardinality(Vouched(i)) \in Nat
        BY <4>1 DEF DeskInv
      <4> QED
        BY <4>2, <4>3
    <3> QED
      BY <1>7, <3>1, <3>2
  <2> QED
    BY <1>1, <1>2, <2>1, <2>2, NoSendProgress, ClerkProgress
<1> QED
  BY <1>3, <1>4, <1>5, <1>6, <1>7 DEF DeskNext, DeskStep

\* The desk beside the worker keeps its types.
THEOREM DeskTypeCorrect == DeskSpec => []DeskTypeOK
<1>1. DeskSpec => []DeskInv
  BY DeskInvInit, DeskInvStep, PTL DEF DeskSpec
<1>2. DeskInv /\ TypeOK => DeskTypeOK
  <2> SUFFICES ASSUME DeskInv, TypeOK, NEW k \in Clerks PROVE desk[k] \in Send
    BY DEF DeskTypeOK, DeskInv, RowsInv
  <2>1. desk[k] \in Sending /\ Progress(desk[k])
    BY DEF DeskInv, RowsInv
  <2>2. Len(desk[k].sent) \in Nat
    BY <2>1, LenProperties DEF Sending
  <2>3. Len(desk[k].ids) \in Nat
    <3>1. CASE desk[k].ids \in Lists
      BY <3>1, ListLengths
    <3>2. CASE desk[k].ids = <<>>
      BY <3>2
    <3> QED
      BY <2>1, <3>1, <3>2 DEF Sending
  <2>4. desk[k].at \in 0..MaxIds /\ desk[k].skipped \in 0..MaxIds
    BY <2>1, <2>2, <2>3, DeskAssumption DEF Sending, Progress
  <2> QED
    BY <2>1, <2>4 DEF Sending, Send
<1> QED
  BY <1>1, <1>2, DeskRunsWorker, TypeCorrect, PTL

-----------------------------------------------------------------------------
(***************************************************************************)
(* The answers of the desk.  A request that answers vouches for all it has *)
(* recorded at once, when its rows may be long written and another clerk   *)
(* may have vouched for rows of the same id.  So the invariant leaves room *)
(* for every request in progress: what is answered, together with what the *)
(* requests have recorded and not answered, is in payment_reminders.       *)
(***************************************************************************)

\* The reminders of i that clerk k's request has recorded.
Vouched(k, i) == {n \in DOMAIN desk[k].sent : desk[k].sent[n] = i}

Unanswered(i) == {p \in Clerks \X (1..MaxIds) : p[2] \in Vouched(p[1], i)}

VouchInv ==
    /\ DeskInv
    /\ \A i \in Ids : answered[i] + Cardinality(Unanswered(i)) <= reminder[i]

\* What a request has recorded is numbered like the ids it was given.
LEMMA SentWithinIds ==
    ASSUME DeskInv, NEW k \in Clerks
    PROVE  /\ desk[k].sent \in Seq(Ids) /\ DOMAIN desk[k].sent = 1..Len(desk[k].sent)
           /\ Len(desk[k].sent) \in Nat /\ Len(desk[k].sent) <= desk[k].at
           /\ desk[k].at \in Nat /\ desk[k].at <= Len(desk[k].ids) /\ Len(desk[k].ids) <= MaxIds
           /\ Len(desk[k].ids) \in Nat
<1>1. desk[k] \in Sending /\ Progress(desk[k])
  BY DEF DeskInv, RowsInv
<1>2. desk[k].sent \in Seq(Ids) /\ desk[k].at \in Nat /\ desk[k].skipped \in Nat
  BY <1>1 DEF Sending
<1>3. DOMAIN desk[k].sent = 1..Len(desk[k].sent) /\ Len(desk[k].sent) \in Nat
  BY <1>2, LenProperties
<1>4. Len(desk[k].ids) \in Nat
  <2>1. CASE desk[k].ids \in Lists
    BY <2>1, ListLengths
  <2>2. CASE desk[k].ids = <<>>
    BY <2>2
  <2> QED
    BY <1>1, <2>1, <2>2 DEF Sending
<1>5. Len(desk[k].sent) <= desk[k].at
  BY <1>1, <1>2, <1>3 DEF Progress
<1> QED
  BY <1>1, <1>2, <1>3, <1>4, <1>5 DEF Progress

LEMMA UnansweredFinite ==
    \A i : IsFiniteSet(Unanswered(i)) /\ Cardinality(Unanswered(i)) \in Nat
<1>1. IsFiniteSet(1..MaxIds)
  BY DeskAssumption, FS_Interval
<1>2. IsFiniteSet(Clerks \X (1..MaxIds))
  BY <1>1, DeskAssumption, FS_Product
<1> SUFFICES ASSUME NEW i
             PROVE  IsFiniteSet(Unanswered(i)) /\ Cardinality(Unanswered(i)) \in Nat
  OBVIOUS
<1>3. Unanswered(i) \subseteq Clerks \X (1..MaxIds)
  BY DEF Unanswered
<1>4. IsFiniteSet(Unanswered(i))
  BY <1>2, <1>3, FS_Subset
<1> QED
  BY <1>4, FS_CardinalityType

LEMMA VouchInit == DeskInit => VouchInv
<1> SUFFICES ASSUME DeskInit PROVE VouchInv
  OBVIOUS
<1>1. ASSUME NEW i \in Ids PROVE answered[i] + Cardinality(Unanswered(i)) <= reminder[i]
  <2>1. Unanswered(i) = {}
    BY DEF Unanswered, Vouched, DeskInit, NoSend
  <2>2. answered[i] = 0 /\ reminder[i] = 0
    BY DEF DeskInit
  <2> QED
    BY <2>1, <2>2, FS_EmptySet
<1> QED
  BY <1>1, DeskInvInit DEF VouchInv

\* A step after which no request vouches for more: it neither answers nor
\* records.
LEMMA NoMoreToVouch ==
    ASSUME VouchInv, DeskInv', UNCHANGED <<answered, reminder>>,
           \A k \in Clerks : desk'[k].sent \in {desk[k].sent, <<>>}
    PROVE  VouchInv'
<1>1. ASSUME NEW i \in Ids PROVE answered[i] + Cardinality(Unanswered(i)') <= reminder[i]
  <2>1. Unanswered(i)' \subseteq Unanswered(i)
    <3> SUFFICES ASSUME NEW k \in Clerks, NEW n \in 1..MaxIds, n \in Vouched(k, i)'
                 PROVE  n \in Vouched(k, i)
      BY DEF Unanswered
    <3>1. desk'[k].sent # <<>>
      BY DEF Vouched
    <3> QED
      BY <3>1 DEF Vouched
  <2>2. Cardinality(Unanswered(i)') <= Cardinality(Unanswered(i))
    BY <2>1, UnansweredFinite, FS_Subset
  <2>3. Cardinality(Unanswered(i)') \in Nat
    BY <2>1, UnansweredFinite, FS_Subset, FS_CardinalityType
  <2>4. answered[i] \in Nat /\ reminder[i] \in Nat
        /\ answered[i] + Cardinality(Unanswered(i)) <= reminder[i]
    BY DEF VouchInv, DeskInv, RowsInv
  <2> QED
    BY <2>2, <2>3, <2>4, UnansweredFinite
<1> QED
  BY <1>1 DEF VouchInv

LEMMA CreateReminderVouches ==
    ASSUME VouchInv, DeskInv', NEW k \in Clerks, CreateReminder(k)
    PROVE  VouchInv'
<1> DEFINE c == Current(k)
           n == Len(desk[k].sent) + 1
<1>0. DeskInv /\ desk[k] \in Sending
  BY DEF VouchInv, DeskInv, RowsInv
<1>1. c \in Ids
  BY <1>0 DEF CreateReminder, Candidate, Sending
<1>2. /\ reminder' = [reminder EXCEPT ![c] = @ + 1] /\ UNCHANGED answered
      /\ desk' = [desk EXCEPT ![k].at = @ + 1, ![k].sent = Append(@, c)]
      /\ desk[k].at < Len(desk[k].ids)
  BY DEF CreateReminder, InLoop
<1>3. /\ desk'[k].sent = Append(desk[k].sent, c)
      /\ \A j \in Clerks \ {k} : desk'[j].sent = desk[j].sent
  BY <1>0, <1>2 DEF Sending, DeskInv, RowsInv
<1> HIDE DEF c
<1>4. n \in 1..MaxIds
  <2>1. /\ Len(desk[k].sent) \in Nat /\ Len(desk[k].sent) <= desk[k].at
        /\ desk[k].at \in Nat /\ Len(desk[k].ids) <= MaxIds /\ Len(desk[k].ids) \in Nat
    BY <1>0, SentWithinIds
  <2>2. \A s, a, l, m \in Nat : s <= a /\ a < l /\ l <= m => s + 1 \in 1..m
    OBVIOUS
  <2>3. MaxIds \in Nat /\ desk[k].at < Len(desk[k].ids)
    BY <1>2, DeskAssumption
  <2> QED
    BY <2>1, <2>2, <2>3, Zenon
<1>5. \A i : Vouched(k, i)' = Vouched(k, i) \cup (IF i = c THEN {n} ELSE {})
  <2>1. desk[k].sent \in Seq(Ids) /\ DOMAIN desk[k].sent = 1..Len(desk[k].sent)
        /\ Len(desk[k].sent) \in Nat
    BY <1>0, SentWithinIds
  <2>2. /\ DOMAIN Append(desk[k].sent, c) = 1..n
        /\ Append(desk[k].sent, c)[n] = c
        /\ \A m \in 1..Len(desk[k].sent) : Append(desk[k].sent, c)[m] = desk[k].sent[m]
    BY <1>1, <2>1, AppendProperties
  <2>3. 1..n = (1..Len(desk[k].sent)) \cup {n} /\ n \notin 1..Len(desk[k].sent)
    <3>1. \A l \in Nat : 1..(l + 1) = (1..l) \cup {l + 1} /\ l + 1 \notin 1..l
      OBVIOUS
    <3> QED
      BY <2>1, <3>1
  <2> HIDE DEF n
  <2> QED
    BY <1>3, <2>1, <2>2, <2>3 DEF Vouched
<1> HIDE DEF n
<1>6. \A i : Unanswered(i)' \subseteq Unanswered(i) \cup (IF i = c THEN {<<k, n>>} ELSE {})
  <2> SUFFICES ASSUME NEW i, NEW j \in Clerks, NEW m \in 1..MaxIds, m \in Vouched(j, i)'
               PROVE  <<j, m>> \in Unanswered(i) \cup (IF i = c THEN {<<k, n>>} ELSE {})
    BY DEF Unanswered
  <2>1. CASE j = k
    BY <1>5, <2>1 DEF Unanswered
  <2>2. CASE j # k
    BY <1>3, <2>2 DEF Unanswered, Vouched
  <2> QED
    BY <2>1, <2>2
<1>7. ASSUME NEW i \in Ids PROVE answered'[i] + Cardinality(Unanswered(i)') <= reminder'[i]
  <2>1. answered[i] \in Nat /\ reminder[i] \in Nat
        /\ answered[i] + Cardinality(Unanswered(i)) <= reminder[i]
    BY DEF VouchInv, DeskInv, RowsInv
  <2>2. CASE i = c
    <3>1. /\ IsFiniteSet(Unanswered(i) \cup {<<k, n>>})
          /\ Cardinality(Unanswered(i) \cup {<<k, n>>}) <= Cardinality(Unanswered(i)) + 1
      <4> DEFINE U == Unanswered(i)
      <4>1. IsFiniteSet(U) /\ Cardinality(U) \in Nat
        BY UnansweredFinite
      <4> HIDE DEF U
      <4>2. IsFiniteSet(U \cup {<<k, n>>})
            /\ Cardinality(U \cup {<<k, n>>}) \in {Cardinality(U), Cardinality(U) + 1}
        BY <4>1, FS_AddElement, Zenon
      <4>3. Cardinality(U \cup {<<k, n>>}) <= Cardinality(U) + 1
        BY <4>1, <4>2
      <4> QED
        BY <4>2, <4>3 DEF U
    <3>2. Unanswered(i)' \subseteq Unanswered(i) \cup {<<k, n>>}
      BY <1>6, <2>2
    <3>3. Cardinality(Unanswered(i)') <= Cardinality(Unanswered(i) \cup {<<k, n>>})
          /\ IsFiniteSet(Unanswered(i)')
      BY <3>1, <3>2, FS_Subset
    <3>4. Cardinality(Unanswered(i)') \in Nat /\ Cardinality(Unanswered(i) \cup {<<k, n>>}) \in Nat
      BY <3>1, <3>3, FS_CardinalityType
    <3>5. reminder'[i] = reminder[i] + 1 /\ answered'[i] = answered[i]
      BY <1>2, <2>2 DEF VouchInv, DeskInv, RowsInv
    <3> QED
      BY <2>1, <3>1, <3>3, <3>4, <3>5, UnansweredFinite
  <2>3. CASE i # c
    <3>1. Unanswered(i)' \subseteq Unanswered(i)
      BY <1>6, <2>3
    <3>2. Cardinality(Unanswered(i)') <= Cardinality(Unanswered(i)) /\ IsFiniteSet(Unanswered(i)')
      BY <3>1, UnansweredFinite, FS_Subset
    <3>3. Cardinality(Unanswered(i)') \in Nat
      BY <3>2, FS_CardinalityType
    <3>4. reminder'[i] = reminder[i] /\ answered'[i] = answered[i]
      BY <1>2, <2>3 DEF VouchInv, DeskInv, RowsInv
    <3> QED
      BY <2>1, <3>2, <3>3, <3>4, UnansweredFinite
  <2> QED
    BY <2>2, <2>3
<1> QED
  BY <1>7 DEF VouchInv

\* An answer moves what its request recorded to what is answered.
LEMMA AnswerVouches ==
    ASSUME VouchInv, DeskInv', NEW k \in Clerks, AnswerSent(k)
    PROVE  VouchInv'
<1>0. DeskInv /\ DOMAIN desk[k].sent = 1..Len(desk[k].sent)
      /\ Len(desk[k].sent) \in Nat /\ Len(desk[k].sent) <= MaxIds
  BY SentWithinIds, DeskAssumption DEF VouchInv
<1>1. /\ answered' = [i \in Ids |-> answered[i] + Cardinality(Vouched(k, i))]
      /\ UNCHANGED reminder /\ desk' = [desk EXCEPT ![k] = NoSend]
  BY DEF AnswerSent, Vouched
<1>2. ASSUME NEW i \in Ids PROVE answered'[i] + Cardinality(Unanswered(i)') <= reminder'[i]
  <2> DEFINE V == Vouched(k, i)
             S == {k} \X V
  <2>1. V \subseteq 1..MaxIds /\ IsFiniteSet(V) /\ Cardinality(V) \in Nat
    <3>1. V \subseteq 1..MaxIds
      BY <1>0, DeskAssumption DEF Vouched
    <3>2. IsFiniteSet(1..MaxIds)
      BY DeskAssumption, FS_Interval
    <3>3. IsFiniteSet(V)
      BY <3>1, <3>2, FS_Subset
    <3> QED
      BY <3>1, <3>3, FS_CardinalityType
  <2> HIDE DEF V
  <2>2. IsFiniteSet(S) /\ Cardinality(S) = Cardinality(V)
    <3>1. IsFiniteSet({k}) /\ Cardinality({k}) = 1
      BY FS_Singleton
    <3>2. IsFiniteSet(S) /\ Cardinality(S) = Cardinality({k}) * Cardinality(V)
      BY <2>1, <3>1, FS_Product
    <3> QED
      BY <2>1, <3>1, <3>2
  <2>3. S \subseteq Unanswered(i)
    BY <2>1 DEF Unanswered, V
  <2>4. Unanswered(i)' \subseteq Unanswered(i) \ S
    <3> SUFFICES ASSUME NEW j \in Clerks, NEW m \in 1..MaxIds, m \in Vouched(j, i)'
                 PROVE  <<j, m>> \in Unanswered(i) \ S
      BY DEF Unanswered
    <3>1. j # k
      BY <1>0, <1>1 DEF Vouched, NoSend, DeskInv, RowsInv
    <3>2. m \in Vouched(j, i)
      BY <1>0, <1>1, <3>1 DEF Vouched, DeskInv, RowsInv
    <3> QED
      BY <3>1, <3>2 DEF Unanswered
  <2> HIDE DEF S
  <2>5. IsFiniteSet(Unanswered(i) \ S)
        /\ Cardinality(Unanswered(i) \ S) = Cardinality(Unanswered(i)) - Cardinality(S)
    <3>1. Unanswered(i) \cap S = S
      BY <2>3
    <3> QED
      BY <2>2, <3>1, UnansweredFinite, FS_Difference
  <2>6. Cardinality(Unanswered(i)') <= Cardinality(Unanswered(i) \ S)
        /\ IsFiniteSet(Unanswered(i)')
    BY <2>4, <2>5, FS_Subset
  <2>7. Cardinality(Unanswered(i)') \in Nat
    BY <2>6, FS_CardinalityType
  <2>8. answered[i] \in Nat /\ reminder[i] \in Nat
        /\ answered[i] + Cardinality(Unanswered(i)) <= reminder[i]
    BY DEF VouchInv, DeskInv, RowsInv
  <2>9. answered'[i] = answered[i] + Cardinality(V) /\ reminder'[i] = reminder[i]
    BY <1>1 DEF V
  <2> QED
    BY <2>1, <2>2, <2>5, <2>6, <2>7, <2>8, <2>9, UnansweredFinite
<1> QED
  BY <1>2 DEF VouchInv

LEMMA VouchStep == ASSUME VouchInv, [DeskNext]_<<vars, deskVars, told>> PROVE VouchInv'
<1>1. DeskInv /\ DeskInv'
  BY DeskInvStep DEF VouchInv
<1>2. desk \in [Clerks -> Sending]
  BY <1>1 DEF DeskInv, RowsInv
<1>3. CASE UNCHANGED deskVars
  BY <1>1, <1>3, NoMoreToVouch DEF deskVars
<1>4. CASE ChangeBill \/ ChangeLease
  BY <1>1, <1>4, NoMoreToVouch DEF ChangeBill, ChangeLease
<1>5. ASSUME NEW k \in Clerks, SendReminders(k) \/ Skip(k) \/ CreateReminderFails(k)
      PROVE  VouchInv'
  <2>1. UNCHANGED <<answered, reminder>>
        /\ \E s : desk' = [desk EXCEPT ![k] = s] /\ s.sent \in {desk[k].sent, <<>>}
    <3>1. CASE SendReminders(k)
      <4>1. PICK ids \in Lists : desk' = [desk EXCEPT ![k] = Begun(ids)]
        BY <3>1 DEF SendReminders, Begun
      <4>2. Begun(ids).sent = <<>>
        BY <1>1, BegunOK DEF DeskInv
      <4>3. UNCHANGED <<answered, reminder>>
        BY <3>1 DEF SendReminders
      <4> QED
        BY <4>1, <4>2, <4>3
    <3>2. CASE Skip(k)
      <4> DEFINE s == [desk[k] EXCEPT !.at = @ + 1, !.skipped = @ + 1]
      <4>1. s.sent = desk[k].sent
        BY <1>2 DEF Sending
      <4>2. desk' = [desk EXCEPT ![k] = s] /\ UNCHANGED <<answered, reminder>>
        BY <3>2 DEF Skip
      <4> HIDE DEF s
      <4> QED
        BY <4>1, <4>2
    <3>3. CASE CreateReminderFails(k)
      <4>1. NoSend.sent = <<>>
        BY DEF NoSend
      <4> QED
        BY <3>3, <4>1 DEF CreateReminderFails
    <3> QED
      BY <1>5, <3>1, <3>2, <3>3
  <2>2. \A j \in Clerks : desk'[j].sent \in {desk[j].sent, <<>>}
    BY <1>2, <2>1
  <2> QED
    BY <1>1, <2>1, <2>2, NoMoreToVouch
<1>6. ASSUME NEW k \in Clerks, CreateReminder(k) \/ AnswerSent(k) PROVE VouchInv'
  BY <1>1, <1>6, CreateReminderVouches, AnswerVouches
<1> QED
  BY <1>3, <1>4, <1>5, <1>6 DEF DeskNext, DeskStep

\* What the desk's answers vouch for is recorded, whoever else records it too,
\* and a request accounts for every id it has handled.
THEOREM DeskAnswersAreTrue == DeskSpec => []AnsweredIsRecorded
<1>1. VouchInv => AnsweredIsRecorded
  <2> SUFFICES ASSUME VouchInv PROVE AnsweredIsRecorded
    OBVIOUS
  <2>1. ASSUME NEW i \in Ids PROVE answered[i] <= reminder[i]
    BY UnansweredFinite DEF VouchInv, DeskInv, RowsInv
  <2>2. \A k \in Clerks : Progress(desk[k])
    BY DEF VouchInv, DeskInv
  <2> QED
    BY <2>1, <2>2 DEF AnsweredIsRecorded, Progress
<1> QED
  BY <1>1, VouchInit, VouchStep, PTL DEF DeskSpec
=============================================================================
