--------------------------- MODULE ApiServerProofs ---------------------------
(***************************************************************************)
(* Proofs about ApiServer: the process keeps the limiter's promises, and   *)
(* the invariants of its requests hold for any number of them.             *)
(***************************************************************************)
EXTENDS ApiServer, RateLimiterProofs, SequenceTheorems

-----------------------------------------------------------------------------
(***************************************************************************)
(* The limiter inside the process.                                         *)
(***************************************************************************)

\* The environment's budget stays one.
LEMMA SpendType ==
    ASSUME budget \in Budget,
           NEW item \in {"sms", "register", "initiate", "leave", "time", "observe", "start",
                         "stop", "fault"},
           Spend(item)
    PROVE  budget' \in Budget
  BY DEF Budget, Spend

BudgetOK == budget \in Budget

LEMMA BudgetStep == BudgetOK /\ [Next]_vars => BudgetOK'
<1> SUFFICES ASSUME budget \in Budget, [Next]_vars PROVE budget' \in Budget
  BY DEF BudgetOK
<1>1. CASE Lifecycle
  BY <1>1 DEF Lifecycle, OpenPostgres, NewDependencies, Shutdown, Drained, GiveUp, Close, Exit
<1>2. ASSUME NEW s \in Slots, Work(s) PROVE budget' = budget
  BY <1>2 DEF Work, NextItem, Backoff, AnswerSMS, callOnce, RegisterPesapalIPN, StoreWord,
              LoadWord, SubmitOrder
<1>3. CASE Environment
  <2>1. CASE LoadConfig \/ StartFails \/ MarkShuttingDown \/ Crash
    <3>1. Spend("start") \/ Spend("fault") \/ Spend("stop")
      BY <2>1 DEF LoadConfig, StartFails, MarkShuttingDown, Crash
    <3> QED
      BY <3>1, SpendType
  <2>2. ASSUME NEW s \in Slots, NEW a, NEW body, ReceiveSMS(s, a, body)
        PROVE  budget' \in Budget
    <3>1. Spend("sms")
      BY <2>2 DEF ReceiveSMS
    <3> QED
      BY <3>1, SpendType
  <2>3. ASSUME NEW s \in Slots, ReceiveRegister(s) \/ ReceiveInitiate(s) \/ Disconnect(s)
        PROVE  budget' \in Budget
    <3>1. Spend("register") \/ Spend("initiate") \/ Spend("leave")
      BY <2>3 DEF ReceiveRegister, ReceiveInitiate, Disconnect
    <3> QED
      BY <3>1, SpendType
  <2>4. CASE Spend("time") \/ Spend("observe")
    BY <2>4, SpendType
  <2> QED
    BY <1>3, <2>1, <2>2, <2>3, <2>4 DEF Environment
<1> QED
  BY <1>1, <1>2, <1>3 DEF Next, vars, serverVars

\* A step of the process is a step of the limiter, or leaves it alone.
LEMMA ServerStepsTheLimiter ==
    BudgetOK /\ [Next]_vars => [LimiterNext]_limiterVars
<1> SUFFICES ASSUME budget \in Budget, [Next]_vars PROVE [LimiterNext]_limiterVars
  BY DEF BudgetOK
<1> USE DEF LimiterNext
<1>1. CASE Lifecycle
  BY <1>1 DEF Lifecycle, OpenPostgres, NewDependencies, Shutdown, Drained, GiveUp, Close,
                Exit, CutOff
<1>2. ASSUME NEW s \in Slots, Work(s) PROVE UNCHANGED limiterVars
  BY <1>2 DEF Work, NextItem, Backoff, AnswerSMS, callOnce, RegisterPesapalIPN, StoreWord,
              LoadWord, SubmitOrder, Step
<1>3. CASE Environment
  <2>1. CASE LoadConfig \/ StartFails \/ MarkShuttingDown \/ Crash
    BY <2>1 DEF LoadConfig, StartFails, MarkShuttingDown, Crash, CutOff
  <2>2. ASSUME NEW s \in Slots, NEW a \in budget.from, NEW body, ReceiveSMS(s, a, body)
        PROVE  LimiterNext
    <3>1. a \in Addresses
      BY <2>2 DEF Budget
    <3> QED
      BY <2>2, <3>1 DEF ReceiveSMS
  <2>3. ASSUME NEW s \in Slots, ReceiveRegister(s) \/ ReceiveInitiate(s) \/ Disconnect(s)
        PROVE  UNCHANGED limiterVars
    BY <2>3 DEF ReceiveRegister, ReceiveInitiate, Disconnect, Step
  <2>4. CASE (\E d \in Durations : Pass(d)) \/ Observe
    BY <2>4
  <2> QED
    BY <1>3, <2>1, <2>2, <2>3, <2>4 DEF Environment
<1> QED
  BY <1>1, <1>2, <1>3 DEF Next, vars

\* Whatever else the process does, its limiter is the one of RateLimiter, and
\* what is proved there holds in it.
THEOREM ServerImplementsLimiter == Spec => LimiterSpec
<1>1. Init => LimiterInit /\ BudgetOK
  BY ServerAssumption DEF Init, BudgetOK
<1>2. Spec => Init /\ [][Next]_vars
  BY PTL DEF Spec
<1> QED
  BY <1>1, <1>2, BudgetStep, ServerStepsTheLimiter, PTL DEF LimiterSpec

\* The promises of the limiter, kept by the process through its restarts.
THEOREM ServerLimitsRates ==
    Spec => [](AdmittedIsBounded /\ TableHoldsTheRecent) /\ ImplementsTokenBuckets
  BY ServerImplementsLimiter, RateIsBounded, TableForgets, LimiterImplementsTokenBuckets, PTL

-----------------------------------------------------------------------------
(***************************************************************************)
(* The requests in progress.                                               *)
(***************************************************************************)

\* Requests whose counts are right.  A call that delivered is repeated only
\* if it stayed unanswered, so hits and lost agree until the recipient is
\* done with.
AccountedCalls ==
    {c \in Call :
        /\ c.sent + c.failed + Len(c.items) = c.total
        /\ c.sent <= c.reached
        /\ c.hits = c.lost
        /\ c.pc \in {"try", "backoff"} => c.items # <<>>
        /\ c.pc = "try" => c.hits < c.attempt
        /\ c.pc = "backoff" => c.hits <= c.attempt /\ c.attempt < MaxRetries
        /\ c.pc \notin {"try", "backoff"} => c.hits = 0}

\* What the requests hold, and that a process that does not serve has none.
CallsInv ==
    /\ phase \in Phase /\ notif \in Word
    /\ call \in [Slots -> AccountedCalls]
    /\ ~Running => \A s \in Slots : ~Busy(s)
    /\ phase \in {"stopped", "closed"} /\ ~overdue => \A s \in Slots : ~Busy(s)

\* Changing fields of a request keeps it one.
LEMMA CallFields ==
    ASSUME NEW c \in Call,
           NEW pc \in {"idle", "item", "try", "backoff", "register", "store", "submit"},
           NEW n \in 0..MaxRetries, NEW hits \in Nat, NEW lost \in Nat, NEW gone \in BOOLEAN,
           NEW items \in Seq(Recipients), NEW sent \in Nat, NEW failed \in Nat,
           NEW reached \in Nat
    PROVE  /\ [c EXCEPT !.pc = pc] \in Call
           /\ [c EXCEPT !.pc = pc, !.attempt = n] \in Call
           /\ [c EXCEPT !.hits = hits, !.lost = lost] \in Call
           /\ [c EXCEPT !.gone = gone] \in Call
           /\ [c EXCEPT !.pc = pc, !.items = items, !.attempt = n, !.sent = sent,
                        !.failed = failed, !.reached = reached, !.hits = hits,
                        !.lost = lost] \in Call
<1> USE DEF Call
<1>1. [c EXCEPT !.pc = pc] \in Call
  OBVIOUS
<1>2. [c EXCEPT !.pc = pc, !.attempt = n] \in Call
  OBVIOUS
<1>3. [c EXCEPT !.hits = hits, !.lost = lost] \in Call
  OBVIOUS
<1>4. [c EXCEPT !.gone = gone] \in Call
  OBVIOUS
<1>5. [c EXCEPT !.pc = pc, !.items = items, !.attempt = n, !.sent = sent,
                !.failed = failed, !.reached = reached, !.hits = hits,
                !.lost = lost] \in Call
  OBVIOUS
<1> QED
  BY <1>1, <1>2, <1>3, <1>4, <1>5

\* A request that begins, or that has just received a notification id.
LEMMA FreshAccounted ==
    ASSUME NEW pc \in {"idle", "item", "register", "store", "submit"},
           NEW items \in Seq(Recipients),
           NEW id \in NewIds \cup {Empty}, NEW words \in SUBSET Both
    PROVE  Fresh(pc, items, id, words) \in AccountedCalls
<1> DEFINE c == Fresh(pc, items, id, words)
<1>1. Len(items) \in Nat /\ 0 \in 0..MaxRetries
  BY LenProperties, ServerAssumption
<1>2. c \in Call
  <2>1. WordsOf(Empty) \in Word
    BY DEF WordsOf, Word
  <2> QED
    BY <1>1, <2>1 DEF Call, Fresh
<1>3. 0 + 0 + Len(items) = Len(items)
  BY <1>1
<1> QED
  BY <1>2, <1>3 DEF AccountedCalls, Fresh

LEMMA IdleAccounted == Idle \in AccountedCalls /\ Idle.pc = "idle"
<1>1. <<>> \in Seq(Recipients) /\ {} \in SUBSET Both
  OBVIOUS
<1>2. Idle.pc = "idle"
  BY DEF Idle, Fresh
<1> QED
  BY <1>1, <1>2, FreshAccounted DEF Idle

LEMMA StepAccounted ==
    ASSUME call \in [Slots -> AccountedCalls], NEW s \in Slots, NEW c \in AccountedCalls,
           call' = [call EXCEPT ![s] = c]
    PROVE  call' \in [Slots -> AccountedCalls]
  OBVIOUS

\* A recipient that is done with leaves the counts right.
LEMMA FinishAccounted ==
    ASSUME NEW c \in Call, NEW success \in BOOLEAN, c.items # <<>>,
           c.sent + c.failed + Len(c.items) = c.total,
           c.sent <= c.reached, success => c.hits > 0
    PROVE  Finish(c, success) \in AccountedCalls
<1>1. /\ Tail(c.items) \in Seq(Recipients)
      /\ Len(Tail(c.items)) = Len(c.items) - 1
      /\ Len(c.items) \in Nat
  BY HeadTailProperties, LenProperties DEF Call
<1> DEFINE sent    == IF success THEN c.sent + 1 ELSE c.sent
           failed  == IF success THEN c.failed ELSE c.failed + 1
           reached == IF c.hits > 0 THEN c.reached + 1 ELSE c.reached
           done    == [c EXCEPT !.pc = "item", !.items = Tail(c.items), !.attempt = 0,
                                !.sent = sent, !.failed = failed, !.reached = reached,
                                !.hits = 0, !.lost = 0]
<1>2. c.sent \in Nat /\ c.failed \in Nat /\ c.reached \in Nat /\ c.hits \in Nat
      /\ c.total \in Nat
      /\ c.sent + c.failed + Len(c.items) = c.total
      /\ c.sent <= c.reached /\ (success => c.hits > 0)
  BY DEF Call
<1>3. /\ sent \in Nat /\ failed \in Nat /\ reached \in Nat
      /\ sent + failed = c.sent + c.failed + 1
      /\ sent <= reached
  <2>1. CASE success
    BY <1>2, <2>1
  <2>2. CASE ~success
    BY <1>2, <2>2
  <2> QED
    BY <2>1, <2>2
<1>4. /\ 0 \in 0..MaxRetries /\ 0 \in Nat
      /\ "item" \in {"idle", "item", "try", "backoff", "register", "store", "submit"}
  BY ServerAssumption
<1>5. done = Finish(c, success)
  BY DEF Finish
<1> HIDE DEF sent, failed, reached
<1>6. done \in Call
  BY ZenonT(40), <1>1, <1>3, <1>4, CallFields
<1>7. /\ done.pc = "item" /\ done.items = Tail(c.items) /\ done.sent = sent
      /\ done.failed = failed /\ done.reached = reached /\ done.hits = 0 /\ done.lost = 0
      /\ done.total = c.total
  BY DEF Call
<1> HIDE DEF done
<1>8. done.sent + done.failed + Len(done.items) = done.total
  <2> DEFINE n == Len(c.items)
             m == Len(Tail(c.items))
  <2>0. n \in Nat /\ m = n - 1 /\ c.sent + c.failed + n = c.total
    BY <1>1, <1>2
  <2> HIDE DEF n, m
  <2>1. sent + failed + m = c.total
    BY SMTT(30), <2>0, <1>2, <1>3
  <2> QED
    BY <1>7, <2>1 DEF m
<1> QED
  BY <1>3, <1>5, <1>6, <1>7, <1>8 DEF AccountedCalls

\* One call of EgoSMS.
LEMMA CallOnceAccounted ==
    ASSUME call \in [Slots -> AccountedCalls], NEW s \in Slots, NEW o \in Outcome,
           callOnce(s, o)
    PROVE  call' \in [Slots -> AccountedCalls]
<1> DEFINE c == [call[s] EXCEPT !.hits = IF o \in {"sent", "unclear", "lost"} THEN @ + 1 ELSE @,
                               !.lost = IF o = "lost" THEN @ + 1 ELSE @]
<1>1. call[s] \in AccountedCalls /\ call[s].pc = "try"
  BY DEF callOnce
<1> DEFINE hits == IF o \in {"sent", "unclear", "lost"} THEN call[s].hits + 1 ELSE call[s].hits
           lost == IF o = "lost" THEN call[s].lost + 1 ELSE call[s].lost
<1>2. c \in Call
  <2>1. call[s] \in Call /\ hits \in Nat /\ lost \in Nat
    BY <1>1 DEF AccountedCalls, Call
  <2>2. c = [call[s] EXCEPT !.hits = hits, !.lost = lost]
    OBVIOUS
  <2> HIDE DEF c, hits, lost
  <2>3. \A x \in Nat, y \in Nat : [call[s] EXCEPT !.hits = x, !.lost = y] \in Call
    BY <2>1 DEF Call
  <2> QED
    BY <2>1, <2>2, <2>3
<1>3. /\ c.items # <<>> /\ c.sent + c.failed + Len(c.items) = c.total /\ c.sent <= c.reached
      /\ o = "sent" => c.hits > 0
      /\ Retryable(o) => c.hits = c.lost /\ c.hits <= c.attempt
  <2>1. call[s] \in Call
    BY <1>1 DEF AccountedCalls
  <2>2. /\ c.items = call[s].items /\ c.sent = call[s].sent /\ c.failed = call[s].failed
        /\ c.total = call[s].total /\ c.reached = call[s].reached
        /\ c.attempt = call[s].attempt /\ c.hits = hits /\ c.lost = lost
    BY <2>1 DEF Call
  <2>3. call[s].hits \in Nat /\ call[s].lost \in Nat /\ call[s].attempt \in Int
    BY <2>1, ServerAssumption DEF Call
  <2>4. /\ call[s].items # <<>> /\ call[s].sent <= call[s].reached
        /\ call[s].sent + call[s].failed + Len(call[s].items) = call[s].total
        /\ call[s].hits = call[s].lost /\ call[s].hits < call[s].attempt
    BY <1>1 DEF AccountedCalls
  <2> HIDE DEF c
  <2> QED
    BY <2>2, <2>3, <2>4 DEF Retryable
<1>4. CASE Retryable(o) /\ c.attempt < MaxRetries
  <2>1. [c EXCEPT !.pc = "backoff"] \in AccountedCalls
    <3> HIDE DEF c
    <3>1. [c EXCEPT !.pc = "backoff"] \in Call
      BY <1>2 DEF Call
    <3>2. [c EXCEPT !.pc = "backoff"].pc = "backoff"
      BY <1>2 DEF Call
    <3> QED
      BY <1>2, <1>3, <1>4, <3>1, <3>2 DEF AccountedCalls, Call
  <2> QED
    BY <1>4, <2>1, StepAccounted DEF callOnce, Step
<1>5. CASE ~(Retryable(o) /\ c.attempt < MaxRetries)
  <2>1. Finish(c, o = "sent") \in AccountedCalls
    BY <1>2, <1>3, FinishAccounted
  <2> QED
    BY <1>5, <2>1, StepAccounted DEF callOnce, Step
<1> QED
  BY <1>4, <1>5

\* Every other step of an SMS request.
LEMMA SmsStepAccounted ==
    ASSUME call \in [Slots -> AccountedCalls], NEW s \in Slots,
           NextItem(s) \/ Backoff(s) \/ AnswerSMS(s) \/ Disconnect(s)
    PROVE  call' \in [Slots -> AccountedCalls]
<1> DEFINE c == call[s]
<1>1. c \in AccountedCalls /\ c \in Call
  BY DEF AccountedCalls
<1> HIDE DEF c
<1>2. CASE NextItem(s)
  <2>1. c.pc = "item" /\ c.items # <<>> /\ c.hits = 0
    BY <1>1, <1>2 DEF NextItem, AccountedCalls, c
  <2>2. Finish(c, FALSE) \in AccountedCalls
    BY <1>1, <2>1, FinishAccounted DEF AccountedCalls
  <2>3. [c EXCEPT !.pc = "try", !.attempt = 1] \in AccountedCalls
    <3>1. 1 \in 0..MaxRetries
      BY ServerAssumption
    <3>2. [c EXCEPT !.pc = "try", !.attempt = 1] \in Call
      BY <1>1, <3>1 DEF Call
    <3> DEFINE r == [c EXCEPT !.pc = "try", !.attempt = 1]
    <3>3. /\ r.sent = c.sent /\ r.failed = c.failed /\ r.items = c.items /\ r.total = c.total
          /\ r.reached = c.reached /\ r.hits = c.hits /\ r.lost = c.lost
          /\ r.pc = "try" /\ r.attempt = 1
      BY <1>1 DEF Call
    <3>4. r.hits < r.attempt
      BY <2>1, <3>3
    <3> QED
      BY <1>1, <2>1, <3>2, <3>3, <3>4 DEF AccountedCalls
  <2> QED
    BY <1>2, <2>2, <2>3, StepAccounted DEF NextItem, Step, c
<1>3. CASE Backoff(s)
  <2>1. /\ c.pc = "backoff" /\ c.items # <<>> /\ c.hits <= c.attempt
        /\ c.attempt \in 0..MaxRetries /\ c.attempt < MaxRetries
    BY <1>1, <1>3 DEF Backoff, c, AccountedCalls, Call
  <2>2. Finish(c, FALSE) \in AccountedCalls
    BY <1>1, <2>1, FinishAccounted DEF AccountedCalls
  <2>3. [c EXCEPT !.pc = "try", !.attempt = @ + 1] \in AccountedCalls
    <3>1. c.attempt + 1 \in 0..MaxRetries
      BY <2>1, ServerAssumption
    <3>2. [c EXCEPT !.pc = "try", !.attempt = @ + 1] \in Call
      BY <1>1, <3>1 DEF Call
    <3>3. c.hits \in Nat /\ c.hits < c.attempt + 1
      BY <1>1, <2>1, ServerAssumption DEF Call
    <3> QED
      BY <1>1, <2>1, <3>2, <3>3 DEF AccountedCalls, Call
  <2> QED
    BY <1>3, <2>2, <2>3, StepAccounted DEF Backoff, Step, c
<1>4. CASE AnswerSMS(s)
  BY <1>4, IdleAccounted, StepAccounted DEF AnswerSMS, Step
<1>5. CASE Disconnect(s)
  <2>1. [c EXCEPT !.gone = TRUE] \in AccountedCalls
    BY <1>1 DEF AccountedCalls, Call
  <2> QED
    BY <1>5, <2>1, StepAccounted DEF Disconnect, Step, c
<1> QED
  BY <1>2, <1>3, <1>4, <1>5

\* What a load of a word leaves in the request, and what it has seen then.
LEMMA LoadSees ==
    ASSUME call \in [Slots -> AccountedCalls], notif \in Word,
           NEW s \in Slots, NEW w \in Both, LoadWord(s, w)
    PROVE  \E c \in AccountedCalls :
              /\ call' = [call EXCEPT ![s] = c] /\ c.pc = "submit"
              /\ c.words = call[s].words \ {w}
              /\ \E was \in {notif, call[s].seen} :
                    /\ call[s].words = Both => was = notif
                    /\ call[s].words # Both => was = call[s].seen
                    /\ c.seen = [was EXCEPT ![w] = notif[w]] /\ c.seen \in Word
                    /\ ~c.raced => /\ ~call[s].raced /\ notif = was
                                   /\ \A r \in Slots : call[r].pc # "store"
<1> DEFINE was == IF call[s].words = Both THEN notif ELSE call[s].seen
           storing == \E r \in Slots : call[r].pc = "store"
           seen == [was EXCEPT ![w] = notif[w]]
           raced == call[s].raced \/ storing \/ notif # was
           left == call[s].words \ {w}
           c == [call[s] EXCEPT !.words = left, !.seen = seen, !.raced = raced]
<1>1. /\ call[s] \in AccountedCalls /\ call[s] \in Call /\ call[s].pc = "submit"
      /\ call' = [call EXCEPT ![s] = c]
  BY DEF AccountedCalls, LoadWord, Step
<1>2. was \in Word /\ was \in {notif, call[s].seen}
  BY <1>1 DEF Call
<1>3. seen \in Word /\ left \in SUBSET Both
  BY <1>1, <1>2 DEF Word, Both, Call
<1>4. raced \in BOOLEAN
  BY <1>1 DEF Call
<1>5. ~raced => ~call[s].raced /\ notif = was /\ \A r \in Slots : call[r].pc # "store"
  OBVIOUS
<1>6. /\ call[s].words = Both => was = notif
      /\ call[s].words # Both => was = call[s].seen
  OBVIOUS
<1>7. seen = [was EXCEPT ![w] = notif[w]]
  OBVIOUS
<1> HIDE DEF was, seen, raced, left
<1>8. c \in AccountedCalls /\ c.pc = "submit" /\ c.words = left /\ c.seen = seen
  BY <1>1, <1>3, <1>4 DEF AccountedCalls, Call
<1>9. c.raced = raced
  BY <1>1 DEF Call
<1>10. ~c.raced => ~call[s].raced /\ notif = was /\ \A r \in Slots : call[r].pc # "store"
  BY <1>5, <1>9
<1>11. c.words = call[s].words \ {w}
  BY <1>8 DEF left
<1> HIDE DEF c
<1> QED
  BY <1>1, <1>2, <1>3, <1>6, <1>7, <1>8, <1>10, <1>11

\* The field stays a pair of words.
LEMMA WordStep == CallsInv /\ [Next]_vars => notif' \in Word
<1> SUFFICES ASSUME CallsInv, [Next]_vars PROVE notif' \in Word
  OBVIOUS
<1>1. notif \in Word /\ call \in [Slots -> AccountedCalls]
  BY DEF CallsInv
<1>2. \A id \in NewIds \cup {Empty} : WordsOf(id) \in Word
  BY DEF WordsOf, Word
<1>3. CASE Lifecycle
  BY <1>1, <1>2, <1>3, ServerAssumption DEF Lifecycle, OpenPostgres, NewDependencies, Shutdown,
     Drained, GiveUp, Close, Exit, Become, CutOff
<1>4. ASSUME NEW s \in Slots, Work(s) PROVE notif' \in Word
  <2>1. ASSUME NEW w \in Both, StoreWord(s, w) PROVE notif' \in Word
    <3>1. call[s].id \in NewIds \cup {Empty}
      BY <1>1 DEF AccountedCalls, Call
    <3>2. notif' = [notif EXCEPT ![w] = WordsOf(call[s].id)[w]]
      BY <2>1 DEF StoreWord
    <3> QED
      BY <1>1, <1>2, <3>1, <3>2 DEF Word, Both
  <2>2. \/ notif' = notif
        \/ \E w \in Both : StoreWord(s, w)
    BY <1>4 DEF Work, NextItem, Backoff, AnswerSMS, callOnce, RegisterPesapalIPN, LoadWord,
       SubmitOrder, Step
  <2> QED
    BY <1>1, <2>1, <2>2
<1>5. CASE Environment
  BY <1>1, <1>5 DEF Environment, LoadConfig, StartFails, MarkShuttingDown, Crash, Become, CutOff,
     ReceiveSMS, ReceiveRegister, ReceiveInitiate, Disconnect, Step
<1>6. CASE UNCHANGED vars
  BY <1>1, <1>6 DEF vars, serverVars
<1> QED
  BY <1>3, <1>4, <1>5, <1>6 DEF Next

LEMMA CallsInvInit == Init => CallsInv
<1>1. WordsOf(Configured) \in Word
  BY ServerAssumption DEF WordsOf, Word
<1> QED
  BY <1>1, IdleAccounted DEF Init, CallsInv, Phase, Busy

\* The rest of the steps, and with them the invariant.
LEMMA CallsInvStep == BudgetOK /\ CallsInv /\ [Next]_vars => CallsInv'
<1> SUFFICES ASSUME BudgetOK, CallsInv, [Next]_vars PROVE CallsInv'
  OBVIOUS
<1>a. /\ phase \in Phase /\ notif \in Word /\ notif' \in Word
      /\ call \in [Slots -> AccountedCalls]
      /\ ~Running => \A s \in Slots : ~Busy(s)
      /\ phase \in {"stopped", "closed"} /\ ~overdue => \A s \in Slots : ~Busy(s)
  BY WordStep DEF CallsInv
<1>1. CASE Lifecycle
  <2>1. CASE Exit
    BY <1>a, <2>1, IdleAccounted DEF Exit, CutOff, CallsInv, Phase, Busy, Running
  <2>2. CASE OpenPostgres \/ NewDependencies \/ Shutdown \/ Drained \/ GiveUp \/ Close
    BY <1>a, <2>2 DEF OpenPostgres, NewDependencies, Shutdown, Drained, GiveUp, Close, Become,
       CallsInv, Phase, Busy, Running
  <2> QED
    BY <1>1, <2>1, <2>2 DEF Lifecycle
<1>2. ASSUME NEW s \in Slots, Work(s) PROVE CallsInv'
  <2>1. call' \in [Slots -> AccountedCalls]
    <3>1. CASE NextItem(s) \/ Backoff(s) \/ AnswerSMS(s) \/ \E o \in Outcome : callOnce(s, o)
      BY <1>a, <3>1, SmsStepAccounted, CallOnceAccounted
    <3>2. ASSUME NEW id \in NewIds \cup {Empty}, RegisterPesapalIPN(s, id)
          PROVE  call' \in [Slots -> AccountedCalls]
      <4>1. Fresh("store", <<>>, id, Both) \in AccountedCalls
        <5>1. <<>> \in Seq(Recipients)
          OBVIOUS
        <5>2. Both \in SUBSET Both
          OBVIOUS
        <5> QED
          BY <5>1, <5>2, FreshAccounted
      <4> QED
        BY <1>a, <3>2, <4>1, IdleAccounted, StepAccounted DEF RegisterPesapalIPN, Step
    <3>3. ASSUME NEW w \in Both, StoreWord(s, w)
          PROVE  call' \in [Slots -> AccountedCalls]
      <4> DEFINE c == call[s]
      <4>1. c \in AccountedCalls /\ c \in Call /\ c.words \ {w} \in SUBSET Both
        BY <1>a DEF AccountedCalls, Call
      <4> HIDE DEF c
      <4>2. [c EXCEPT !.words = c.words \ {w}] \in AccountedCalls
        BY <4>1 DEF AccountedCalls, Call
      <4> QED
        BY <1>a, <3>3, <4>2, IdleAccounted, StepAccounted DEF StoreWord, c
    <3>4. CASE SubmitOrder(s)
      BY <1>a, <3>4, IdleAccounted, StepAccounted DEF SubmitOrder, Step
    <3>5. ASSUME NEW w \in Both, LoadWord(s, w)
          PROVE  call' \in [Slots -> AccountedCalls]
      <4>1. \E c \in AccountedCalls : call' = [call EXCEPT ![s] = c]
        BY <1>a, <3>5, LoadSees
      <4> QED
        BY <1>a, <4>1, StepAccounted
    <3> QED
      BY <1>2, <3>1, <3>2, <3>3, <3>4, <3>5 DEF Work
  <2>2. /\ Running /\ Busy(s)
        /\ UNCHANGED <<phase, overdue>>
        /\ \A r \in Slots : r # s => call'[r] = call[r]
    <3> DEFINE P == /\ Running /\ Busy(s)
                    /\ UNCHANGED <<phase, overdue>>
                    /\ \A r \in Slots : r # s => call'[r] = call[r]
    <3>1. NextItem(s) => P
      BY <1>a DEF NextItem, Step, Busy
    <3>2. Backoff(s) => P
      BY <1>a DEF Backoff, Step, Busy
    <3>3. AnswerSMS(s) \/ SubmitOrder(s) => P
      BY <1>a DEF AnswerSMS, SubmitOrder, Step, Busy
    <3>4. \A o \in Outcome : callOnce(s, o) => P
      BY <1>a DEF callOnce, Step, Busy
    <3>5. \A id \in NewIds \cup {Empty} : RegisterPesapalIPN(s, id) => P
      BY <1>a DEF RegisterPesapalIPN, Step, Busy
    <3>6. \A w \in Both : StoreWord(s, w) \/ LoadWord(s, w) => P
      BY <1>a DEF StoreWord, LoadWord, Step, Busy
    <3> QED
      BY <1>2, <3>1, <3>2, <3>3, <3>4, <3>5, <3>6 DEF Work
  <2> QED
    BY <1>a, <2>1, <2>2 DEF CallsInv, Running, Busy
<1>3. CASE Environment
  <2>1. CASE LoadConfig \/ StartFails \/ MarkShuttingDown
    BY <1>a, <2>1 DEF LoadConfig, StartFails, MarkShuttingDown, Become, CallsInv, Phase, Busy,
       Running
  <2>2. CASE Crash
    BY <1>a, <2>2, IdleAccounted DEF Crash, CutOff, CallsInv, Phase, Busy, Running
  <2>3. ASSUME NEW s \in Slots, NEW a \in budget.from, NEW body \in budget.bodies,
               ReceiveSMS(s, a, body)
        PROVE  CallsInv'
    <3> DEFINE c == Fresh("item", body, Empty, {})
    <3>1. body \in Seq(Recipients)
      BY ServerAssumption DEF BudgetOK, Budget
    <3>2. c \in AccountedCalls
      BY <3>1, FreshAccounted
    <3>3. call' \in [Slots -> AccountedCalls]
      BY <1>a, <2>3, <3>2, StepAccounted DEF ReceiveSMS
    <3> QED
      BY <1>a, <2>3, <3>3 DEF ReceiveSMS, CallsInv, Phase, Running
  <2>4. ASSUME NEW s \in Slots, ReceiveRegister(s) \/ ReceiveInitiate(s) \/ Disconnect(s)
        PROVE  CallsInv'
    <3>1. CASE ReceiveRegister(s) \/ ReceiveInitiate(s)
      <4>1. /\ Fresh("register", <<>>, Empty, {}) \in AccountedCalls
            /\ Fresh("submit", <<>>, Empty, Both) \in AccountedCalls
        <5>1. <<>> \in Seq(Recipients)
          OBVIOUS
        <5>2. {} \in SUBSET Both /\ Both \in SUBSET Both
          OBVIOUS
        <5> QED
          BY <5>1, <5>2, FreshAccounted
      <4> QED
        BY <1>a, <3>1, <4>1, StepAccounted DEF ReceiveRegister, ReceiveInitiate, Step, CallsInv,
           Phase, Running
    <3>2. CASE Disconnect(s)
      <4>1. call' \in [Slots -> AccountedCalls]
        BY <1>a, <3>2, SmsStepAccounted
      <4>2. /\ Busy(s) /\ UNCHANGED <<phase, overdue>>
            /\ \A r \in Slots : r # s => call'[r] = call[r]
        BY <1>a, <3>2 DEF Disconnect, Step, Busy
      <4> QED
        BY <1>a, <4>1, <4>2 DEF CallsInv, Running, Busy
    <3> QED
      BY <2>4, <3>1, <3>2
  <2>5. CASE UNCHANGED <<phase, shuttingDown, overdue, call, notif, registered, orders>>
    BY <1>a, <2>5 DEF CallsInv, Running, Busy
  <2> QED
    BY <1>3, <2>1, <2>2, <2>3, <2>4, <2>5 DEF Environment
<1>4. CASE UNCHANGED vars
  BY <1>a, <1>4 DEF vars, serverVars, CallsInv, Running, Busy
<1> QED
  BY <1>1, <1>2, <1>3, <1>4 DEF Next

\* The counts of every request in progress, at all times.
THEOREM ServerInvariant == Spec => [](BudgetOK /\ CallsInv)
<1>1. Init => BudgetOK /\ CallsInv
  BY CallsInvInit, ServerAssumption DEF Init, BudgetOK
<1>2. BudgetOK /\ CallsInv /\ [Next]_vars => (BudgetOK /\ CallsInv)'
  BY BudgetStep, CallsInvStep
<1>3. Spec => Init /\ [][Next]_vars
  BY PTL DEF Spec
<1> QED
  BY <1>1, <1>2, <1>3, PTL

\* What an SMS request tells its client, however often its calls were
\* repeated, for any recipients and any limit of calls.
THEOREM SmsIsAccounted == Spec => []SmsIsAccountedFor
<1>1. CallsInv => SmsIsAccountedFor
  <2> SUFFICES ASSUME CallsInv, NEW s \in Slots
               PROVE  /\ call[s].hits <= call[s].lost + 1 /\ call[s].hits <= MaxRetries
                      /\ call[s].sent + call[s].failed + Len(call[s].items) = call[s].total
                      /\ call[s].sent <= call[s].reached
    BY DEF SmsIsAccountedFor
  <2>1. call[s] \in AccountedCalls /\ call[s] \in Call
    BY DEF CallsInv, AccountedCalls
  <2>2. call[s].hits \in Nat /\ call[s].lost \in Nat /\ call[s].attempt \in 0..MaxRetries
        /\ call[s].pc \in {"idle", "item", "try", "backoff", "register", "store", "submit"}
    BY <2>1 DEF Call
  <2>3. call[s].hits = call[s].lost /\ call[s].hits <= call[s].attempt
    BY <2>1, <2>2, ServerAssumption DEF AccountedCalls
  <2> QED
    BY <2>1, <2>2, <2>3, ServerAssumption DEF AccountedCalls
<1> QED
  BY <1>1, ServerInvariant, PTL

\* A request is cut off by the end of the process only when Shutdown had
\* given up on it.
THEOREM StopsAreGraceful == Spec => CutOffNeedsACause
<1> DEFINE A == phase = "closed" /\ phase' = "down" => overdue \/ \A s \in Slots : ~Busy(s)
<1>1. CallsInv => A
  BY DEF CallsInv
<1>2. BudgetOK /\ CallsInv /\ [Next]_vars => [A]_vars
  BY <1>1
<1>3. Spec => Init /\ [][Next]_vars
  BY PTL DEF Spec
<1> QED
  BY <1>2, <1>3, ServerInvariant, PTL DEF CutOffNeedsACause

-----------------------------------------------------------------------------
(***************************************************************************)
(* The notification id.                                                    *)
(***************************************************************************)

\* A payment that has loaded a word: the field it has seen, where no store was
\* under way, has a length only with data.
ReadsOK ==
    \A s \in Slots : call[s].pc = "submit" /\ call[s].words # Both =>
        /\ call[s].seen \in Word
        /\ call[s].seen.data \in registered \cup {Configured}
        /\ ~call[s].raced /\ call[s].seen.len = "guid" => call[s].seen.data # Empty

\* The field holds a registered or the configured id, or a part of one that
\* is being stored: while it has a length and no data, a store is under way,
\* and no store has written its data yet.
IdsInv ==
    /\ registered \subseteq NewIds
    /\ notif \in Word
    /\ notif.data \in registered \cup {Configured}
    /\ \A s \in Slots : call[s].pc = "store" => call[s].id \in registered
    /\ \A s \in Slots : call[s].pc = "store" /\ "data" \notin call[s].words
                        => notif.data # Empty
    /\ Running /\ notif.len = "guid" /\ notif.data = Empty
          => \E s \in Slots : call[s].pc = "store"
    /\ ReadsOK
    /\ OrdersCarryAKnownId

\* A request that leaves the ids alone, and is not storing one.
LEMMA OtherRequestKeepsIds ==
    ASSUME CallsInv, IdsInv, NEW s \in Slots, call[s].pc # "store",
           NEW c, c.pc # "store", c.pc = "submit" => c.words = Both,
           call' = [call EXCEPT ![s] = c],
           Running' => Running, UNCHANGED <<notif, registered, orders>>
    PROVE  IdsInv'
<1>1. /\ call'[s] = c
      /\ \A r \in Slots : r # s => call'[r] = call[r]
  BY DEF CallsInv
<1>2. \A r \in Slots : call'[r].pc = "store" => call[r].pc = "store" /\ call'[r] = call[r]
  BY <1>1
<1>3. \A r \in Slots : call[r].pc = "store" => call'[r] = call[r]
  BY <1>1
<1>4. OrdersCarryAKnownId'
  BY DEF IdsInv, OrdersCarryAKnownId
<1>5. ReadsOK'
  BY <1>1 DEF IdsInv, ReadsOK
<1> QED
  BY <1>2, <1>3, <1>4, <1>5 DEF IdsInv

\* A process that ends, or a new one, has no request that stores an id.
LEMMA NoRequestKeepsIds ==
    ASSUME IdsInv, \A s \in Slots : call'[s].pc = "idle",
           ~Running' \/ notif' = WordsOf(Configured),
           notif' \in {notif, WordsOf(Configured)}, UNCHANGED <<registered, orders>>
    PROVE  IdsInv'
<1>1. /\ WordsOf(Configured) \in Word
      /\ WordsOf(Configured).data = Configured
      /\ WordsOf(Configured).len = "guid" => Configured # Empty
  BY ServerAssumption DEF WordsOf, Word
<1>2. OrdersCarryAKnownId'
  BY DEF IdsInv, OrdersCarryAKnownId
<1>3. ReadsOK'
  BY DEF ReadsOK
<1> QED
  BY <1>1, <1>2, <1>3 DEF IdsInv

\* The id that Pesapal answers with is registered before it is stored.
LEMMA RegisterKeepsIds ==
    ASSUME CallsInv, IdsInv, NEW s \in Slots, NEW id \in NewIds \cup {Empty},
           RegisterPesapalIPN(s, id)
    PROVE  IdsInv'
<1> DEFINE c == Fresh("store", <<>>, id, Both)
<1>1. /\ \A r \in Slots : r # s => call'[r] = call[r]
      /\ registered \subseteq registered' /\ registered' \subseteq NewIds
      /\ UNCHANGED <<phase, notif, orders>>
      /\ call[s].pc # "store"
  BY DEF CallsInv, IdsInv, RegisterPesapalIPN, Step
<1>2. OrdersCarryAKnownId'
  BY <1>1 DEF IdsInv, OrdersCarryAKnownId
<1>3. CASE id = Empty
  <2>1. call'[s].pc = "idle"
    BY <1>3, IdleAccounted DEF CallsInv, RegisterPesapalIPN, Step
  <2>2. ReadsOK'
    BY <1>1, <2>1 DEF IdsInv, ReadsOK
  <2> QED
    BY <1>1, <1>2, <2>1, <2>2 DEF IdsInv, Running
<1>4. CASE id # Empty
  <2>1. /\ call'[s] = c /\ id \in registered'
    BY <1>4 DEF CallsInv, RegisterPesapalIPN, Step
  <2>2. c.id = id /\ c.words = Both /\ c.pc = "store"
    BY DEF Fresh
  <2>3. "data" \in c.words
    BY <2>2 DEF Both
  <2> HIDE DEF c
  <2>4. ReadsOK'
    BY <1>1, <2>1, <2>2 DEF IdsInv, ReadsOK
  <2> QED
    BY <1>1, <1>2, <2>1, <2>2, <2>3, <2>4 DEF IdsInv, Running
<1> QED
  BY <1>3, <1>4

\* One of the two stores: the length of a half-written id is only seen while
\* its data is on the way, in this request or in another.
LEMMA StoreKeepsIds ==
    ASSUME CallsInv, IdsInv, NEW s \in Slots, NEW w \in Both, StoreWord(s, w)
    PROVE  IdsInv'
<1> DEFINE c == call[s]
           left == c.words \ {w}
<1>1. /\ c \in Call /\ c.pc = "store" /\ c.id \in registered /\ w \in c.words /\ Running
      /\ c.id \in NewIds /\ c.id # Empty /\ c.words \subseteq Both
  BY ServerAssumption DEF CallsInv, AccountedCalls, Call, IdsInv, StoreWord
<1>2. /\ \A r \in Slots : r # s => call'[r] = call[r]
      /\ UNCHANGED <<phase, registered, orders>>
      /\ notif' = [notif EXCEPT ![w] = WordsOf(c.id)[w]]
  BY DEF CallsInv, StoreWord
<1>3. \/ left = {} /\ call'[s].pc = "idle"
      \/ left # {} /\ call'[s].pc = "store" /\ call'[s].id = c.id /\ call'[s].words = left
  <2>1. CASE left = {}
    BY <2>1, IdleAccounted DEF CallsInv, StoreWord
  <2>2. CASE left # {}
    <3>1. call'[s] = [c EXCEPT !.words = left]
      BY <2>2 DEF CallsInv, StoreWord
    <3> HIDE DEF c, left
    <3> QED
      BY <1>1, <2>2, <3>1 DEF Call
  <2> QED
    BY <2>1, <2>2
<1>4. /\ notif' \in Word
      /\ w = "data" => notif'.data = c.id /\ notif'.len = notif.len
      /\ w = "len" => notif'.data = notif.data /\ notif'.len = "guid"
  BY <1>1, <1>2 DEF IdsInv, Word, WordsOf, Both
<1> HIDE DEF c, left
<1>r. ReadsOK'
  BY <1>2, <1>3 DEF IdsInv, ReadsOK
<1>5. OrdersCarryAKnownId'
  BY <1>2 DEF IdsInv, OrdersCarryAKnownId
<1>6. CASE w = "data"
  BY <1>1, <1>2, <1>3, <1>4, <1>5, <1>6, <1>r DEF IdsInv
<1>7. CASE w = "len"
  <2>1. "data" \notin c.words => notif.data # Empty
    BY <1>1 DEF IdsInv, c
  <2>2. "data" \in left <=> "data" \in c.words
    BY <1>7 DEF left
  <2>3. \A r \in Slots : call'[r].pc = "store" /\ "data" \notin call'[r].words
                       => notif'.data # Empty
    BY <1>1, <1>2, <1>3, <1>4, <1>7, <2>1, <2>2 DEF IdsInv
  <2>4. Running' /\ notif'.len = "guid" /\ notif'.data = Empty
           => \E r \in Slots : call'[r].pc = "store"
    BY <1>1, <1>2, <1>3, <1>4, <1>7, <2>1, <2>2
  <2> QED
    BY <1>1, <1>2, <1>3, <1>4, <1>5, <1>7, <1>r, <2>3, <2>4 DEF IdsInv
<1> QED
  BY <1>6, <1>7 DEF Both

\* One of the two loads of a payment.
LEMMA LoadKeepsIds ==
    ASSUME CallsInv, IdsInv, NEW s \in Slots, NEW w \in Both, LoadWord(s, w)
    PROVE  IdsInv'
<1>1. /\ Running /\ call[s].pc = "submit" /\ w \in call[s].words
      /\ UNCHANGED <<phase, notif, registered, orders>>
  BY DEF LoadWord, Step
<1>2. PICK c \in AccountedCalls :
        /\ call' = [call EXCEPT ![s] = c] /\ c.pc = "submit"
        /\ c.words = call[s].words \ {w}
        /\ \E was \in {notif, call[s].seen} :
              /\ call[s].words = Both => was = notif
              /\ call[s].words # Both => was = call[s].seen
              /\ c.seen = [was EXCEPT ![w] = notif[w]] /\ c.seen \in Word
              /\ ~c.raced => /\ ~call[s].raced /\ notif = was
                             /\ \A r \in Slots : call[r].pc # "store"
  BY LoadSees DEF CallsInv
<1>3. PICK was \in {notif, call[s].seen} :
        /\ call[s].words = Both => was = notif
        /\ call[s].words # Both => was = call[s].seen
        /\ c.seen = [was EXCEPT ![w] = notif[w]] /\ c.seen \in Word
        /\ ~c.raced => /\ ~call[s].raced /\ notif = was
                       /\ \A r \in Slots : call[r].pc # "store"
  BY <1>2
<1>4. notif \in Word /\ notif.data \in registered \cup {Configured}
  BY DEF IdsInv
<1>5. was \in Word /\ was.data \in registered \cup {Configured}
  BY <1>1, <1>3, <1>4 DEF IdsInv, ReadsOK
<1>6. c.seen.data \in registered \cup {Configured}
  BY <1>3, <1>4, <1>5 DEF Word, Both
<1>7. ~c.raced /\ c.seen.len = "guid" => c.seen.data # Empty
  <2> SUFFICES ASSUME ~c.raced, c.seen.len = "guid" PROVE c.seen.data # Empty
    OBVIOUS
  <2>1. notif = was /\ \A r \in Slots : call[r].pc # "store"
    BY <1>3
  <2>2. c.seen = notif
    BY <1>3, <1>4, <2>1 DEF Word, Both
  <2> QED
    BY <1>1, <2>1, <2>2 DEF IdsInv
<1>8. /\ call'[s] = c
      /\ \A r \in Slots : r # s => call'[r] = call[r]
  BY <1>2 DEF CallsInv
<1>9. ReadsOK'
  BY <1>1, <1>3, <1>6, <1>7, <1>8 DEF IdsInv, ReadsOK
<1>10. OrdersCarryAKnownId'
  BY <1>1 DEF IdsInv, OrdersCarryAKnownId
<1>11. \A r \in Slots : (call'[r].pc = "store" <=> call[r].pc = "store")
                        /\ (call[r].pc = "store" => call'[r] = call[r])
  BY <1>1, <1>2, <1>8
<1> QED
  BY <1>1, <1>9, <1>10, <1>11 DEF IdsInv, Running

\* An order takes an id that is whole, or fails by a store its loads met.
LEMMA SubmitKeepsIds ==
    ASSUME CallsInv, IdsInv, NEW s \in Slots, SubmitOrder(s)
    PROVE  IdsInv'
<1> DEFINE c == call[s]
<1>1. /\ c.pc = "submit" /\ c.words = {} /\ Running
      /\ UNCHANGED <<phase, notif, registered>>
      /\ call' = [call EXCEPT ![s] = Idle]
      /\ orders' = orders \cup {[id |-> OrderId(c.seen), raced |-> c.raced]}
  BY DEF SubmitOrder, Step
<1>2. /\ c.seen \in Word /\ c.seen.data \in registered \cup {Configured}
      /\ ~c.raced /\ c.seen.len = "guid" => c.seen.data # Empty
      /\ c.raced \in BOOLEAN
  BY <1>1 DEF IdsInv, ReadsOK, Both, CallsInv, AccountedCalls, Call
<1> HIDE DEF c
<1>3. \/ OrderId(c.seen) \in registered \cup {Configured}
      \/ OrderId(c.seen) = "panic" /\ c.raced
  BY <1>2 DEF OrderId, Word
<1>4. OrdersCarryAKnownId'
  BY <1>1, <1>3 DEF IdsInv, OrdersCarryAKnownId
<1>5. call'[s].pc = "idle" /\ \A r \in Slots : r # s => call'[r] = call[r]
  BY <1>1, IdleAccounted DEF CallsInv
<1>6. ReadsOK'
  BY <1>1, <1>5 DEF IdsInv, ReadsOK
<1>7. call[s].pc # "store"
  BY <1>1 DEF c
<1> QED
  BY <1>1, <1>4, <1>5, <1>6, <1>7 DEF IdsInv, Running

LEMMA IdsInvInit == Init => IdsInv
<1> SUFFICES ASSUME Init PROVE IdsInv
  OBVIOUS
<1>1. /\ WordsOf(Configured) \in Word
      /\ WordsOf(Configured).data = Configured
  BY ServerAssumption DEF WordsOf, Word
<1>2. \A s \in Slots : call[s].pc = "idle"
  BY IdleAccounted DEF Init
<1> QED
  BY <1>1, <1>2 DEF Init, IdsInv, ReadsOK, OrdersCarryAKnownId, Running

LEMMA IdsInvStep == CallsInv /\ IdsInv /\ [Next]_vars => IdsInv'
<1> SUFFICES ASSUME CallsInv, IdsInv, [Next]_vars PROVE IdsInv'
  OBVIOUS
<1>1. ASSUME UNCHANGED <<call, notif, registered, orders>>, Running' => Running
      PROVE  IdsInv'
  <2>1. OrdersCarryAKnownId' /\ ReadsOK'
    BY <1>1 DEF IdsInv, OrdersCarryAKnownId, ReadsOK
  <2> QED
    BY <1>1, <2>1 DEF IdsInv
<1>2. CASE Lifecycle
  <2>1. CASE Exit
    <3>1. \A s \in Slots : call'[s].pc = "idle"
      BY <2>1, IdleAccounted DEF Exit, CutOff
    <3> QED
      BY <2>1, <3>1, NoRequestKeepsIds DEF Exit, CutOff, Running
  <2>2. CASE NewDependencies
    <3>1. \A s \in Slots : call'[s].pc = "idle"
      BY <2>2 DEF NewDependencies, CallsInv, Running, Busy
    <3> QED
      BY <2>2, <3>1, NoRequestKeepsIds DEF NewDependencies
  <2>3. CASE OpenPostgres \/ Shutdown \/ Drained \/ GiveUp \/ Close
    BY <1>1, <2>3 DEF OpenPostgres, Shutdown, Drained, GiveUp, Close, Become, Running
  <2> QED
    BY <1>2, <2>1, <2>2, <2>3 DEF Lifecycle
<1>3. ASSUME NEW s \in Slots, Work(s) PROVE IdsInv'
  <2>1. CASE NextItem(s) \/ Backoff(s) \/ AnswerSMS(s) \/ \E o \in Outcome : callOnce(s, o)
    <3> DEFINE P == /\ call[s].pc # "store" /\ call'[s].pc \notin {"store", "submit"}
                    /\ call' = [call EXCEPT ![s] = call'[s]]
                    /\ UNCHANGED <<phase, notif, registered, orders>>
    <3>1. call[s] \in Call /\ call \in [Slots -> AccountedCalls]
      BY DEF CallsInv, AccountedCalls
    <3>2. NextItem(s) => P
      BY <3>1 DEF NextItem, Step, Finish, Call
    <3>3. Backoff(s) => P
      BY <3>1 DEF Backoff, Step, Finish, Call
    <3>4. AnswerSMS(s) => P
      BY <3>1, IdleAccounted DEF AnswerSMS, Step
    <3>5. \A o \in Outcome : callOnce(s, o) => P
      BY <3>1 DEF callOnce, Step, Finish, Call
    <3> QED
      BY <2>1, <3>2, <3>3, <3>4, <3>5, OtherRequestKeepsIds DEF Running
  <2> QED
    BY <1>3, <2>1, RegisterKeepsIds, StoreKeepsIds, LoadKeepsIds, SubmitKeepsIds DEF Work
<1>4. CASE Environment
  <2>1. CASE LoadConfig \/ StartFails \/ MarkShuttingDown
    BY <1>1, <2>1 DEF LoadConfig, StartFails, MarkShuttingDown, Become, Running
  <2>2. CASE Crash
    <3>1. \A s \in Slots : call'[s].pc = "idle"
      BY <2>2, IdleAccounted DEF Crash, CutOff
    <3> QED
      BY <2>2, <3>1, NoRequestKeepsIds DEF Crash, CutOff, Running
  <2>3. ASSUME NEW s \in Slots, NEW a, NEW body, ReceiveSMS(s, a, body)
        PROVE  IdsInv'
    <3>1. Fresh("item", body, Empty, {}).pc = "item"
      BY DEF Fresh
    <3>2. CASE call' = [call EXCEPT ![s] = Fresh("item", body, Empty, {})]
      BY <2>3, <3>1, <3>2, OtherRequestKeepsIds DEF ReceiveSMS, Busy, Running
    <3>3. CASE UNCHANGED call
      BY <1>1, <2>3, <3>3 DEF ReceiveSMS, Running
    <3> QED
      BY <2>3, <3>2, <3>3 DEF ReceiveSMS
  <2>4. ASSUME NEW s \in Slots, ReceiveRegister(s) \/ ReceiveInitiate(s) \/ Disconnect(s)
        PROVE  IdsInv'
    <3>1. CASE ReceiveRegister(s)
      <4>1. Fresh("register", <<>>, Empty, {}).pc = "register"
        BY DEF Fresh
      <4> QED
        BY <3>1, <4>1, OtherRequestKeepsIds DEF ReceiveRegister, Step, Busy, Running
    <3>2. CASE ReceiveInitiate(s)
      <4> DEFINE c == Fresh("submit", <<>>, Empty, Both)
      <4>1. c.pc = "submit" /\ c.words = Both
        BY DEF Fresh
      <4> HIDE DEF c
      <4>2. call[s].pc # "store" /\ call' = [call EXCEPT ![s] = c]
        BY <3>2 DEF ReceiveInitiate, Step, Busy, c
      <4> QED
        BY <3>2, <4>1, <4>2, OtherRequestKeepsIds DEF ReceiveInitiate, Step, Running
    <3>3. CASE Disconnect(s)
      <4>1. call[s] \in Call
        BY DEF CallsInv, AccountedCalls
      <4>2. [call[s] EXCEPT !.gone = TRUE].pc = call[s].pc
        BY <4>1 DEF Call
      <4> QED
        BY <3>3, <4>2, OtherRequestKeepsIds DEF Disconnect, Step, Running
    <3> QED
      BY <2>4, <3>1, <3>2, <3>3
  <2>5. CASE UNCHANGED <<phase, shuttingDown, overdue, call, notif, registered, orders>>
    BY <1>1, <2>5 DEF Running
  <2> QED
    BY <1>4, <2>1, <2>2, <2>3, <2>4, <2>5 DEF Environment
<1>5. CASE UNCHANGED vars
  BY <1>1, <1>5 DEF vars, serverVars, Running
<1> QED
  BY <1>2, <1>3, <1>4, <1>5 DEF Next

\* However many registrations and payments run at once on the unguarded
\* field, and wherever the process crashes: no order goes out with a mixture.
THEOREM OrderIdsAreKnown == Spec => []OrdersCarryAKnownId
<1>1. Init => IdsInv
  BY IdsInvInit
<1>2. CallsInv /\ IdsInv /\ [Next]_vars => IdsInv'
  BY IdsInvStep
<1>3. Spec => Init /\ [][Next]_vars
  BY PTL DEF Spec
<1>4. IdsInv => OrdersCarryAKnownId
  BY DEF IdsInv
<1> QED
  BY <1>1, <1>2, <1>3, <1>4, ServerInvariant, PTL

-----------------------------------------------------------------------------
(***************************************************************************)
(* The types.                                                              *)
(***************************************************************************)
FlagsInv ==
    /\ shuttingDown \in BOOLEAN /\ overdue \in BOOLEAN
    /\ orders \subseteq [id: NewIds \cup {Empty, "panic"}, raced: BOOLEAN]

LEMMA FlagsInvStep == CallsInv /\ FlagsInv /\ [Next]_vars => FlagsInv'
<1> SUFFICES ASSUME CallsInv, FlagsInv, [Next]_vars PROVE FlagsInv'
  OBVIOUS
<1> USE DEF FlagsInv
<1>1. CASE Lifecycle
  BY <1>1 DEF Lifecycle, OpenPostgres, NewDependencies, Shutdown, Drained, GiveUp, Close, Exit,
     Become, CutOff
<1>2. ASSUME NEW s \in Slots, Work(s) PROVE FlagsInv'
  <2>1. CASE SubmitOrder(s)
    <3> DEFINE c == call[s]
    <3>1. /\ c.seen \in Word /\ c.raced \in BOOLEAN
          /\ orders' = orders \cup {[id |-> OrderId(c.seen), raced |-> c.raced]}
          /\ UNCHANGED <<shuttingDown, overdue>>
      BY <2>1 DEF CallsInv, AccountedCalls, Call, SubmitOrder, Step
    <3> HIDE DEF c
    <3>2. OrderId(c.seen) \in NewIds \cup {Empty, "panic"}
      BY <3>1, ServerAssumption DEF OrderId, Word
    <3>3. [id |-> OrderId(c.seen), raced |-> c.raced]
             \in [id: NewIds \cup {Empty, "panic"}, raced: BOOLEAN]
      BY <3>1, <3>2
    <3> QED
      BY <3>1, <3>3
  <2>2. Work(s) => SubmitOrder(s) \/ UNCHANGED <<shuttingDown, overdue, orders>>
    BY DEF Work, NextItem, Backoff, AnswerSMS, callOnce, RegisterPesapalIPN, StoreWord,
       LoadWord, Step
  <2> QED
    BY <1>2, <2>1, <2>2
<1>3. CASE Environment
  BY <1>3 DEF Environment, LoadConfig, StartFails, MarkShuttingDown, Crash, Become, CutOff,
     ReceiveSMS, ReceiveRegister, ReceiveInitiate, Disconnect, Step
<1>4. CASE UNCHANGED vars
  BY <1>4 DEF vars, serverVars
<1> QED
  BY <1>1, <1>2, <1>3, <1>4 DEF Next

\* Type correctness of the process, its limiter included.
THEOREM ServerTypes == Spec => []TypeOK
<1>1. Init => IdsInv /\ FlagsInv
  BY IdsInvInit DEF Init, FlagsInv
<1>2. CallsInv /\ IdsInv /\ FlagsInv /\ [Next]_vars => (IdsInv /\ FlagsInv)'
  BY IdsInvStep, FlagsInvStep
<1>3. Spec => Init /\ [][Next]_vars
  BY PTL DEF Spec
<1>4. LimiterInv /\ BudgetOK /\ CallsInv /\ IdsInv /\ FlagsInv => TypeOK
  BY DEF LimiterInv, BudgetOK, CallsInv, AccountedCalls, IdsInv, FlagsInv, TypeOK
<1> QED
  BY <1>1, <1>2, <1>3, <1>4, ServerInvariant, ServerImplementsLimiter, LimiterInvariant, PTL
=============================================================================
