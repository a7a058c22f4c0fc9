---------------------------- MODULE TokenBucket ----------------------------
(***************************************************************************)
(* What the rate limiter promises each address: a bucket of its own that   *)
(* fills as time passes, pays for every request that is let through, and   *)
(* is never forgotten while the process lives.  Levels count credits.      *)
(***************************************************************************)
EXTENDS Integers

CONSTANTS Addresses, \* clients, by address
          Full,      \* credits of a full bucket
          Rate,      \* credits per second
          Price,     \* credits of one request
          Durations  \* how long it may be from one event to the next

VARIABLES level,  \* the credits of each address
          verdict \* the last decision: for whom, when, and whether allowed

vars == <<level, verdict>>

Smaller(x, y) == IF x <= y THEN x ELSE y

Init ==
    /\ level = [a \in Addresses |-> Full]
    /\ verdict.allowed = FALSE

Refill(d) ==
    /\ level' = [a \in Addresses |-> Smaller(Full, level[a] + Rate * d)]
    /\ UNCHANGED verdict

Grant(a) ==
    /\ level[a] >= Price
    /\ level' = [level EXCEPT ![a] = @ - Price]
    /\ verdict'.addr = a /\ verdict'.allowed = TRUE

Deny(a) ==
    /\ level[a] < Price
    /\ UNCHANGED level
    /\ verdict'.addr = a /\ verdict'.allowed = FALSE

\* A new process begins with full buckets.
Refresh ==
    /\ level' = [a \in Addresses |-> Full]
    /\ UNCHANGED verdict

Next ==
    \/ \E d \in Durations : Refill(d)
    \/ \E a \in Addresses : Grant(a) \/ Deny(a)
    \/ Refresh

Spec == Init /\ [][Next]_vars
=============================================================================
