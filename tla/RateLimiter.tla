---------------------------- MODULE RateLimiter ----------------------------
(***************************************************************************)
(* The per-address limiter of one route (internal/middleware/ratelimit.go) *)
(* in front of the login and SMS routes.  A table under one mutex holds a  *)
(* token bucket for each address, filled lazily: its level is brought up   *)
(* to date when a request of the address comes.  A request that finds the  *)
(* table above its limit first drops the addresses not seen for 15         *)
(* minutes.  The mutex makes each request one step.                        *)
(*                                                                         *)
(* Time counts seconds and a level counts sixtieths of a token, so that    *)
(* rpm requests per minute are rpm credits per second.  rpm = 0 switches   *)
(* the limiter off; nothing is said here of a limiter that is off.         *)
(*                                                                         *)
(* A definition whose name is another's with a suffix (SweepAll) is a      *)
(* faulty variant of it that no run uses: put in its place, it shows that  *)
(* a property would notice the fault.                                      *)
(***************************************************************************)
EXTENDS Integers, FiniteSets

CONSTANTS Addresses,  \* clients, by address
          Rpm,        \* requests per minute
          BurstArg,   \* the burst the route asks for
          TableLimit, \* table size above which idle addresses are dropped (20000)
          Durations,  \* how long it may be from one event to the next
          MaxTime     \* bound: the end of time

VARIABLES
    now,     \* the time
    table,   \* the buckets, a function on the addresses in the table
    verdict, \* history: the last decision
    mark,    \* history: the time since which admitted counts
    admitted \* history: the requests let through since then, by address

limiterVars == <<now, table, verdict, mark, admitted>>

Larger(x, y)  == IF x >= y THEN x ELSE y
Smaller(x, y) == IF x <= y THEN x ELSE y

AuthBurst(rpm) == Larger(5, rpm \div 6)

BurstOf(rpm, burst) == IF burst <= 0 THEN AuthBurst(rpm) ELSE burst

\* The SMS routes ask for 5 and 2, the login routes for max(5, rpm/6).
ASSUME LimiterAssumption ==
    /\ Rpm \in Nat \ {0}
    /\ BurstArg \in Int /\ BurstArg <= AuthBurst(Rpm)
    /\ TableLimit \in Nat /\ MaxTime \in Nat
    /\ Durations \subseteq Nat \ {0}
    /\ IsFiniteSet(Addresses)

Price       == 60
IdleSeconds == 900
Full        == Price * BurstOf(Rpm, BurstArg)

Bucket == [level: 0..Full, last: Nat, lastSeen: Nat]

LimiterTypeOK ==
    /\ now \in Nat
    /\ DOMAIN table \subseteq Addresses
    /\ table \in [DOMAIN table -> Bucket]
    /\ verdict \in [addr: Addresses, allowed: BOOLEAN, at: Nat]
    /\ mark \in Nat
    /\ admitted \in [Addresses -> Nat]

LimiterInit ==
    /\ now = 0
    /\ table = [a \in {} |-> 0]
    /\ verdict \in [addr: Addresses, allowed: {FALSE}, at: {0}]
    /\ mark = 0
    /\ admitted = [a \in Addresses |-> 0]

-----------------------------------------------------------------------------
\* External: the credits of bucket b at time t (golang.org/x/time/rate).
advance(b, t) == Smaller(Full, b.level + Rpm * (t - b.last))

LevelNow(a) == IF a \in DOMAIN table THEN advance(table[a], now) ELSE Full

SweepAll ==
    IF Cardinality(DOMAIN table) > TableLimit
    THEN {a \in DOMAIN table : table[a].lastSeen >= now}
    ELSE DOMAIN table

SweepNever == DOMAIN table

\* The addresses still in the table after a request has looked at its size.
Sweep ==
    IF Cardinality(DOMAIN table) > TableLimit
    THEN {a \in DOMAIN table : table[a].lastSeen >= now - IdleSeconds}
    ELSE DOMAIN table

\* External: NewLimiter makes a full bucket.
NewLimiter == [level |-> Full, last |-> now, lastSeen |-> now]

\* The bucket of a request's address.
Found(a) == IF a \in Sweep THEN table[a] ELSE NewLimiter

\* External: Allow takes one token, or leaves the bucket alone.
AllowFree(b, allowed) ==
    IF allowed THEN [b EXCEPT !.last = now, !.lastSeen = now]
               ELSE [b EXCEPT !.lastSeen = now]

Allow(b, allowed) ==
    IF allowed
    THEN [level |-> advance(b, now) - Price, last |-> now, lastSeen |-> now]
    ELSE [b EXCEPT !.lastSeen = now]

\* A request of address a: it is served if allowed, else answered 429.
Limit(a, allowed) ==
    /\ allowed <=> advance(Found(a), now) >= Price
    /\ table' = [x \in Sweep \cup {a} |->
                    IF x = a THEN Allow(Found(a), allowed) ELSE table[x]]
    /\ verdict' = [addr |-> a, allowed |-> allowed, at |-> now]
    /\ admitted' = IF allowed THEN [admitted EXCEPT ![a] = @ + 1] ELSE admitted
    /\ UNCHANGED <<now, mark>>

\* External: the clock.
Pass(d) ==
    /\ now + d <= MaxTime
    /\ now' = now + d
    /\ UNCHANGED <<table, verdict, mark, admitted>>

\* History: admitted counts from here.
Observe ==
    /\ mark' = now
    /\ admitted' = [a \in Addresses |-> 0]
    /\ UNCHANGED <<now, table, verdict>>

\* The router of a new process makes an empty table.
NewTable ==
    /\ table' = [a \in {} |-> 0]
    /\ mark' = now
    /\ admitted' = [a \in Addresses |-> 0]
    /\ UNCHANGED <<now, verdict>>

LimiterNext ==
    \/ \E a \in Addresses, allowed \in BOOLEAN : Limit(a, allowed)
    \/ \E d \in Durations : Pass(d)
    \/ Observe
    \/ NewTable

LimiterSpec == LimiterInit /\ [][LimiterNext]_limiterVars

-----------------------------------------------------------------------------
(***************************************************************************)
(* Properties.                                                             *)
(***************************************************************************)

\* However the requests are spread, and whatever the table forgets, an
\* address, as requests claim it, gets no more through in any stretch of time
\* than a full bucket and what flows in meanwhile.
AdmittedIsBounded ==
    \A a \in Addresses : Price * admitted[a] <= Full + Rpm * (now - mark)

\* The table outgrows its limit by addresses seen in the 15 minutes before
\* the last request only: what is older is gone by then.
TableHoldsTheRecent ==
    \/ Cardinality(DOMAIN table) <= TableLimit + 1
    \/ \A a \in DOMAIN table : table[a].lastSeen >= verdict.at - IdleSeconds

Buckets == INSTANCE TokenBucket WITH
    level <- [a \in Addresses |-> LevelNow(a)], Rate <- Rpm

\* Every decision is the one of a limiter that forgets nobody: dropping an
\* idle address, and filling its bucket late, are invisible.
ImplementsTokenBuckets == Buckets!Spec
=============================================================================
