----------------------------- MODULE ApiServer -----------------------------
(***************************************************************************)
(* The API process (cmd/api) and what its requests share without the       *)
(* database: the start, the graceful stop, a rate limiter, the SMS         *)
(* requests with their repeated calls to EgoSMS, and the notification id   *)
(* that a registration with Pesapal leaves to the payments that follow.    *)
(*                                                                         *)
(* A slot is one request being served by its own goroutine.  The limiter   *)
(* is the module it extends; one route stands for the routes behind it.    *)
(* EgoSMS and Pesapal answer, fail, or take the call and let the answer    *)
(* get lost.                                                               *)
(*                                                                         *)
(* A definition whose name is another's with a suffix (CloseAtOnce) is a    *)
(* faulty variant of it that no run uses: put in its place, it shows that  *)
(* a property would notice the fault.                                      *)
(***************************************************************************)
EXTENDS RateLimiter, Sequences

CONSTANTS Slots,      \* requests that may be in progress at once
          Bodies,     \* recipient lists of the SMS requests
          Invalid,    \* a recipient no phone number can be made of
          MaxRetries, \* calls of EgoSMS for one message (3)
          NewIds,     \* notification ids Pesapal may hand out
          Configured, \* PESAPAL_IPN_ID
          Empty,      \* no notification id
          Budgets     \* bounds: what the environment does in a behaviour

\* The addresses SMS requests come from and their recipients; how many come,
\* and registrations, payments, clients that go, passages of time,
\* observations of the limiter, starts, signals to stop, and crashes.
Budget == [from: SUBSET Addresses, bodies: SUBSET Bodies, sms: Nat, register: Nat, initiate: Nat,
           leave: Nat, time: Nat, observe: Nat, start: Nat, stop: Nat, fault: Nat]

Recipients == UNION {{b[i] : i \in DOMAIN b} : b \in Bodies}

ASSUME ServerAssumption ==
    /\ Bodies \subseteq Seq(Recipients)
    /\ MaxRetries \in Nat \ {0}
    /\ Configured \in NewIds \cup {Empty} /\ Empty \notin NewIds
    /\ Budgets \subseteq Budget

VARIABLES
    phase,        \* how far the process is from its start to its end
    shuttingDown, \* Dependencies.shuttingDown
    overdue,      \* Shutdown gave up on requests in progress
    call,         \* what each request in progress holds
    notif,        \* payments.Service.defaultNotificationID, word by word
    registered,   \* history: the ids Pesapal has handed out
    orders,       \* history: the ids orders went out with
    budget        \* bound: what the environment may still do

serverVars == <<phase, shuttingDown, overdue, call, notif, registered, orders, budget>>
vars == <<limiterVars, serverVars>>

\* "down" ended by itself, "crashed" did not.
Phase == {"down", "crashed", "config", "database", "serving", "draining", "stopped", "closed"}

\* A string is a pointer and a length; all ids Pesapal hands out have one length.
Word == [data: NewIds \cup {Empty}, len: {"zero", "guid"}]

WordsOf(id) == [data |-> id, len |-> IF id = Empty THEN "zero" ELSE "guid"]

Both == {"data", "len"}

(***************************************************************************)
(* A request's locals.  SMS: the recipients left, the number of the call   *)
(* for the first of them, whether its client has gone, and the counts of   *)
(* the answer.  Registration: the id received and the words of it still to *)
(* be stored.  Payment: the words still to be loaded, and in seen the      *)
(* field as it was at the first load, with the word of the second put in   *)
(* when that is made.  hits, lost, reached and raced are history: the      *)
(* messages the first recipient got, those without an answer among them,   *)
(* the recipients that got one; a store was under way at a load, or the    *)
(* field changed between the two.                                          *)
(***************************************************************************)
Call == [pc: {"idle", "item", "try", "backoff", "register", "store", "submit"},
         items: Seq(Recipients),
         total: Nat, attempt: 0..MaxRetries, gone: BOOLEAN, sent: Nat, failed: Nat,
         hits: Nat, lost: Nat, reached: Nat,
         id: NewIds \cup {Empty}, words: SUBSET Both, seen: Word, raced: BOOLEAN]

\* A request at pc with the recipients items, or words to store or to load.
Fresh(pc, items, id, words) ==
    [pc |-> pc, items |-> items, total |-> Len(items), attempt |-> 0, gone |-> FALSE,
     sent |-> 0, failed |-> 0, hits |-> 0, lost |-> 0, reached |-> 0,
     id |-> id, words |-> words, seen |-> WordsOf(Empty), raced |-> FALSE]

Idle == Fresh("idle", <<>>, Empty, {})

TypeOK ==
    /\ LimiterTypeOK
    /\ phase \in Phase
    /\ shuttingDown \in BOOLEAN /\ overdue \in BOOLEAN
    /\ call \in [Slots -> Call]
    /\ notif \in Word
    /\ registered \subseteq NewIds
    /\ orders \subseteq [id: NewIds \cup {Empty, "panic"}, raced: BOOLEAN]
    /\ budget \in Budget

Init ==
    /\ LimiterInit
    /\ phase = "down"
    /\ shuttingDown = FALSE /\ overdue = FALSE
    /\ call = [s \in Slots |-> Idle]
    /\ notif = WordsOf(Configured)
    /\ registered = {} /\ orders = {}
    /\ budget \in Budgets

Spend(item) ==
    /\ budget[item] > 0
    /\ budget' = [budget EXCEPT ![item] = @ - 1]

Busy(s) == call[s].pc # "idle"

-----------------------------------------------------------------------------
(***************************************************************************)
(* The process.                                                            *)
(***************************************************************************)
Become(p) ==
    /\ phase' = p
    /\ UNCHANGED <<shuttingDown, call, notif, registered, orders>>

\* config.Load.
LoadConfig ==
    /\ phase \in {"down", "crashed"}
    /\ Spend("start")
    /\ Become("config")
    /\ UNCHANGED <<limiterVars, overdue>>

OpenPostgres ==
    /\ phase = "config"
    /\ Become("database")
    /\ UNCHANGED <<limiterVars, overdue, budget>>

\* AutoMigrate, the services and the router are made anew, and the server listens.
NewDependencies ==
    /\ phase = "database"
    /\ phase' = "serving"
    /\ shuttingDown' = FALSE /\ overdue' = FALSE
    /\ notif' = WordsOf(Configured)
    /\ NewTable
    /\ UNCHANGED <<call, registered, orders, budget>>

\* log.Fatalf: an invalid variable, no database, no migration, no port.
StartFails ==
    /\ phase \in {"config", "database"}
    /\ Spend("fault")
    /\ Become("crashed")
    /\ UNCHANGED <<limiterVars, overdue>>

\* SIGTERM or SIGINT: the goroutine of main marks the process.
MarkShuttingDown ==
    /\ phase = "serving" /\ ~shuttingDown
    /\ Spend("stop")
    /\ shuttingDown' = TRUE
    /\ UNCHANGED <<limiterVars, phase, overdue, call, notif, registered, orders>>

\* Shutdown closes the listener; ListenAndServe returns, and main waits.
Shutdown ==
    /\ phase = "serving" /\ shuttingDown
    /\ Become("draining")
    /\ UNCHANGED <<limiterVars, overdue, budget>>

\* Shutdown returns when every request has been answered.
Drained ==
    /\ phase = "draining"
    /\ \A s \in Slots : ~Busy(s)
    /\ Become("stopped")
    /\ UNCHANGED <<limiterVars, overdue, budget>>

GiveUpHanging ==
    /\ phase = "draining"
    /\ \E s \in Slots : Busy(s)
    /\ overdue' = TRUE
    /\ Become("hanging")
    /\ UNCHANGED <<limiterVars, budget>>

\* Its 10 seconds are over; the error is logged, and main goes on.
GiveUp ==
    /\ phase = "draining"
    /\ \E s \in Slots : Busy(s)
    /\ overdue' = TRUE
    /\ Become("stopped")
    /\ UNCHANGED <<limiterVars, budget>>

CloseAtOnce ==
    /\ phase \in {"draining", "stopped"}
    /\ Become("closed")
    /\ UNCHANGED <<limiterVars, overdue, budget>>

\* done is closed: main logs and runs the deferred Close of the database.
Close ==
    /\ phase = "stopped"
    /\ Become("closed")
    /\ UNCHANGED <<limiterVars, overdue, budget>>

\* What a process that ends takes with it.
CutOff(p) ==
    /\ phase' = p
    /\ call' = [s \in Slots |-> Idle]
    /\ UNCHANGED <<limiterVars, shuttingDown, overdue, notif, registered, orders>>

\* main returns, and the process with it.
Exit ==
    /\ phase = "closed"
    /\ CutOff("down")
    /\ UNCHANGED budget

Crash ==
    /\ phase \notin {"down", "crashed"}
    /\ Spend("fault")
    /\ CutOff("crashed")

-----------------------------------------------------------------------------
(***************************************************************************)
(* SMS (internal/modules/sms, internal/integrations/egosms).               *)
(***************************************************************************)
Running == phase \notin {"down", "crashed", "config", "database"}

Step(s, c) ==
    /\ call' = [call EXCEPT ![s] = c]
    /\ UNCHANGED <<limiterVars, phase, shuttingDown, overdue, notif>>

\* A request for the recipients in body comes to the route: the limiter
\* lets it through to the handler, or answers 429.
ReceiveSMS(s, a, body) ==
    /\ phase = "serving" /\ ~Busy(s)
    /\ Spend("sms")
    /\ \/ /\ Limit(a, TRUE)
          /\ call' = [call EXCEPT ![s] = Fresh("item", body, Empty, {})]
       \/ Limit(a, FALSE) /\ UNCHANGED call
    /\ UNCHANGED <<phase, shuttingDown, overdue, notif, registered, orders>>

\* The first recipient is done with: its result joins the answer's.
Finish(c, success) ==
    [c EXCEPT !.pc = "item", !.items = Tail(@), !.attempt = 0,
              !.sent = IF success THEN @ + 1 ELSE @,
              !.failed = IF success THEN @ ELSE @ + 1,
              !.reached = IF c.hits > 0 THEN @ + 1 ELSE @,
              !.hits = 0, !.lost = 0]

\* NormalizePhone refuses some recipients.
NormalizePhone(item) == item # Invalid

\* The next recipient of the list; a call made for a client that has gone
\* fails before it is sent.
NextItem(s) ==
    LET c == call[s]
    IN  /\ Running /\ c.pc = "item" /\ c.items # <<>>
        /\ Step(s, IF NormalizePhone(Head(c.items)) /\ ~c.gone
                   THEN [c EXCEPT !.pc = "try", !.attempt = 1]
                   ELSE Finish(c, FALSE))
        /\ UNCHANGED <<registered, orders, budget>>

\* The outcomes of one call: what EgoSMS did, and whether anyone knows.
Outcome == {"sent",     \* delivered, and the answer says so
            "unclear",  \* delivered, and the answer is read as a rejection
            "rejected", \* not delivered: a rejection, or a status below 500
            "lost",     \* delivered, and no answer comes (timeout, transport, 5xx)
            "failed"}   \* not delivered: no connection, 429, 5xx

RetryableToo(o) == o \in {"unclear", "lost", "failed"}

\* callOnce: is the call worth repeating?
Retryable(o) == o \in {"lost", "failed"}

callOnceTooOften(s, o) ==
    LET c == [call[s] EXCEPT !.hits = IF o \in {"sent", "unclear", "lost"} THEN @ + 1 ELSE @,
                             !.lost = IF o = "lost" THEN @ + 1 ELSE @]
    IN  /\ Running /\ c.pc = "try"
        /\ Step(s, IF Retryable(o) /\ c.attempt <= MaxRetries
                   THEN [c EXCEPT !.pc = "backoff"]
                   ELSE Finish(c, o = "sent"))
        /\ UNCHANGED <<registered, orders, budget>>

\* callWithRetry: one attempt and what follows from it.
callOnce(s, o) ==
    LET c == [call[s] EXCEPT !.hits = IF o \in {"sent", "unclear", "lost"} THEN @ + 1 ELSE @,
                             !.lost = IF o = "lost" THEN @ + 1 ELSE @]
    IN  /\ Running /\ c.pc = "try"
        /\ Step(s, IF Retryable(o) /\ c.attempt < MaxRetries
                   THEN [c EXCEPT !.pc = "backoff"]
                   ELSE Finish(c, o = "sent"))
        /\ UNCHANGED <<registered, orders, budget>>

BackoffForever(s) ==
    LET c == call[s]
    IN  /\ Running /\ c.pc = "backoff"
        /\ Step(s, IF c.gone THEN Finish(c, FALSE) ELSE [c EXCEPT !.pc = "try"])
        /\ UNCHANGED <<registered, orders, budget>>

\* The timer fires, or the client has gone.
Backoff(s) ==
    LET c == call[s]
    IN  /\ Running /\ c.pc = "backoff"
        /\ Step(s, IF c.gone THEN Finish(c, FALSE)
                             ELSE [c EXCEPT !.pc = "try", !.attempt = @ + 1])
        /\ UNCHANGED <<registered, orders, budget>>

\* The answer: how many were sent and how many failed.
AnswerSMS(s) ==
    /\ Running /\ call[s].pc = "item" /\ call[s].items = <<>>
    /\ Step(s, Idle)
    /\ UNCHANGED <<registered, orders, budget>>

\* The client closes its connection, which cancels the request's context.
Disconnect(s) ==
    /\ call[s].pc \in {"item", "try", "backoff"} /\ ~call[s].gone
    /\ Spend("leave")
    /\ Step(s, [call[s] EXCEPT !.gone = TRUE])
    /\ UNCHANGED <<registered, orders>>

-----------------------------------------------------------------------------
(***************************************************************************)
(* The notification id (payments.Service).                                 *)
(***************************************************************************)
ReceiveRegister(s) ==
    /\ phase = "serving" /\ ~Busy(s)
    /\ Spend("register")
    /\ Step(s, Fresh("register", <<>>, Empty, {}))
    /\ UNCHANGED <<registered, orders>>

StoreEmpty(s, id) ==
    /\ Running /\ call[s].pc = "register"
    /\ Step(s, Fresh("store", <<>>, id, Both))
    /\ registered' = registered \cup ({id} \ {Empty})
    /\ UNCHANGED <<orders, budget>>

\* Pesapal answers with an id, or without, or fails (without one, too).
RegisterPesapalIPN(s, id) ==
    /\ Running /\ call[s].pc = "register"
    /\ Step(s, IF id = Empty THEN Idle
               ELSE Fresh("store", <<>>, id, Both))
    /\ registered' = registered \cup ({id} \ {Empty})
    /\ UNCHANGED <<orders, budget>>

\* The assignment of a string is two stores, in either order, and no lock.
StoreWord(s, w) ==
    LET c == call[s]
        left == c.words \ {w}
    IN  /\ Running /\ c.pc = "store" /\ w \in c.words
        /\ call' = [call EXCEPT ![s] = IF left = {} THEN Idle ELSE [c EXCEPT !.words = left]]
        /\ notif' = [notif EXCEPT ![w] = WordsOf(c.id)[w]]
        /\ UNCHANGED <<limiterVars, phase, shuttingDown, overdue, registered, orders, budget>>

ReceiveInitiate(s) ==
    /\ phase = "serving" /\ ~Busy(s)
    /\ Spend("initiate")
    /\ Step(s, Fresh("submit", <<>>, Empty, Both))
    /\ UNCHANGED <<registered, orders>>

\* Initiate passes the field on: two loads, in either order, and no lock.
LoadWord(s, w) ==
    LET c == call[s]
        was == IF c.words = Both THEN notif ELSE c.seen
        storing == \E r \in Slots : call[r].pc = "store"
    IN  /\ Running /\ c.pc = "submit" /\ w \in c.words
        /\ Step(s, [c EXCEPT !.words = @ \ {w}, !.seen = [was EXCEPT ![w] = notif[w]],
                             !.raced = @ \/ storing \/ notif # was])
        /\ UNCHANGED <<registered, orders, budget>>

\* The id an order goes out with: SubmitOrder puts the configured id in the
\* place of an empty one.  A length without data is a nil dereference, which
\* Recovery turns into an error answer.
OrderId(word) ==
    IF word.len = "zero" THEN Configured
    ELSE IF word.data = Empty THEN "panic"
    ELSE word.data

SubmitOrder(s) ==
    LET c == call[s]
    IN  /\ Running /\ c.pc = "submit" /\ c.words = {}
        /\ Step(s, Idle)
        /\ orders' = orders \cup {[id |-> OrderId(c.seen), raced |-> c.raced]}
        /\ UNCHANGED <<registered, budget>>

-----------------------------------------------------------------------------
Lifecycle ==
    \/ OpenPostgres \/ NewDependencies \/ Shutdown \/ Drained \/ GiveUp \/ Close \/ Exit

\* What a request in progress does by itself.
Work(s) ==
    \/ NextItem(s) \/ Backoff(s) \/ AnswerSMS(s)
    \/ \E o \in Outcome : callOnce(s, o)
    \/ \E id \in NewIds \cup {Empty} : RegisterPesapalIPN(s, id)
    \/ \E w \in Both : StoreWord(s, w) \/ LoadWord(s, w)
    \/ SubmitOrder(s)

Environment ==
    \/ LoadConfig \/ StartFails \/ MarkShuttingDown \/ Crash
    \/ \E s \in Slots :
          \/ \E a \in budget.from, body \in budget.bodies : ReceiveSMS(s, a, body)
          \/ ReceiveRegister(s) \/ ReceiveInitiate(s) \/ Disconnect(s)
    \/ /\ \/ Spend("time") /\ \E d \in Durations : Pass(d)
          \/ Spend("observe") /\ Observe
       /\ UNCHANGED <<phase, shuttingDown, overdue, call, notif, registered, orders>>

Next ==
    \/ Lifecycle
    \/ \E s \in Slots : Work(s)
    \/ Environment

\* The goroutines of a process run, timers fire, and every call of a
\* provider ends by its timeout; what clients, signals and faults do is free.
Fairness ==
    /\ WF_vars(Lifecycle)
    /\ \A s \in Slots : WF_vars(Work(s))

Spec == Init /\ [][Next]_vars /\ Fairness

-----------------------------------------------------------------------------
(***************************************************************************)
(* Properties.                                                             *)
(***************************************************************************)

\* A recipient gets a message again only after a call that was delivered and
\* not answered, and never more than MaxRetries times by one request.  The
\* counts of the answer add up, and "sent" counts recipients that were
\* reached; one that is counted as failed may have been reached too.
SmsIsAccountedFor ==
    \A s \in Slots :
        LET c == call[s]
        IN  /\ c.hits <= c.lost + 1 /\ c.hits <= MaxRetries
            /\ c.sent + c.failed + Len(c.items) = c.total
            /\ c.sent <= c.reached

\* A stop lets every request finish, those that came between the signal and
\* the closing of the listener included, unless Shutdown gave up on them.
CutOffNeedsACause ==
    [][phase = "closed" /\ phase' = "down" => overdue \/ \A s \in Slots : ~Busy(s)]_vars

\* Registrations and payments run side by side on one unguarded field, stored
\* and loaded word by word: an order goes out with an id that was registered
\* or configured, and a payment fails for a length without data only when a
\* registration was storing at one of its loads, or had stored between them.
OrdersCarryAKnownId ==
    \A o \in orders : \/ o.id \in registered \cup {Configured}
                      \/ o.id = "panic" /\ o.raced

\* Whatever the providers do, a request that was taken on comes to an end.
EveryCallEnds == \A s \in Slots : Busy(s) ~> ~Busy(s)

\* A process told to stop ends, whatever its requests are waiting for.
ShutdownCompletes == shuttingDown /\ phase = "serving" ~> phase \in {"down", "crashed"}
=============================================================================
