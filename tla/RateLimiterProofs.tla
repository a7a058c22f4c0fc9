-------------------------- MODULE RateLimiterProofs --------------------------
(***************************************************************************)
(* Proofs about RateLimiter: the limiter's bound, its memory, and that the *)
(* lazily filled and swept table implements a token bucket per address.    *)
(***************************************************************************)
EXTENDS RateLimiter, FiniteSetTheorems, TLAPS

-----------------------------------------------------------------------------
(***************************************************************************)
(* Arithmetic.                                                             *)
(***************************************************************************)

\* A full bucket holds at least one token, and fills up in the time after
\* which an address may be forgotten.
LEMMA FullFillsInTime ==
    /\ Full \in Nat
    /\ Price <= Full
    /\ Full <= Rpm * IdleSeconds
<1>1. Rpm \in Nat /\ Rpm >= 1 /\ BurstArg \in Int /\ BurstArg <= AuthBurst(Rpm)
  BY LimiterAssumption
<1>2. Rpm \div 6 \in Int /\ 6 * (Rpm \div 6) <= Rpm
  BY <1>1
<1>3. AuthBurst(Rpm) \in Int /\ AuthBurst(Rpm) >= 5 /\ AuthBurst(Rpm) <= 5 * Rpm
  BY <1>1, <1>2 DEF AuthBurst, Larger
<1>4. BurstOf(Rpm, BurstArg) \in Int
      /\ BurstOf(Rpm, BurstArg) >= 1 /\ BurstOf(Rpm, BurstArg) <= 5 * Rpm
  BY <1>1, <1>3 DEF BurstOf
<1> QED
  BY <1>1, <1>4 DEF Full, Price, IdleSeconds

\* What flows in during a time is monotonic in it, and adds up.
LEMMA Inflow ==
    ASSUME NEW s \in Int, NEW t \in Int
    PROVE  /\ Rpm * s \in Int
           /\ s >= 0 => Rpm * s >= 0
           /\ s <= t => Rpm * s <= Rpm * t
           /\ Rpm * (s + t) = Rpm * s + Rpm * t
<1>1. Rpm \in Nat
  BY LimiterAssumption
<1>2. Rpm * s \in Int /\ Rpm * t \in Int /\ Rpm * (s + t) = Rpm * s + Rpm * t
  BY <1>1
<1>3. s >= 0 => Rpm * s >= 0
  BY <1>1
<1>4. ASSUME s <= t PROVE Rpm * s <= Rpm * t
  <2>1. PICK d \in Nat : t = s + d
    BY <1>4
  <2>2. Rpm * d >= 0 /\ Rpm * (s + d) = Rpm * s + Rpm * d /\ Rpm * d \in Int
    BY <1>1, <2>1
  <2> QED
    BY <2>1, <2>2, <1>2
<1> QED
  BY <1>2, <1>3, <1>4

-----------------------------------------------------------------------------
(***************************************************************************)
(* Buckets over time.                                                      *)
(***************************************************************************)

\* The credits of a bucket are a level, at any time not before its last use.
LEMMA AdvanceType ==
    ASSUME NEW b \in Bucket, NEW t \in Nat, b.last <= t
    PROVE  advance(b, t) \in 0..Full
<1>1. Full \in Nat /\ b.level \in 0..Full /\ b.last \in Nat
  BY FullFillsInTime DEF Bucket
<1>2. Rpm * (t - b.last) \in Int /\ Rpm * (t - b.last) >= 0
  <2>1. t - b.last \in Int /\ t - b.last >= 0
    BY <1>1
  <2> QED
    BY <2>1, Inflow
<1> QED
  BY <1>1, <1>2 DEF advance, Smaller

\* Filling a bucket in two steps is filling it in one.
LEMMA AdvanceAdds ==
    ASSUME NEW b \in Bucket, NEW t \in Nat, NEW d \in Nat, b.last <= t
    PROVE  advance(b, t + d) = Smaller(Full, advance(b, t) + Rpm * d)
<1>1. Full \in Nat /\ b.level \in 0..Full /\ b.last \in Nat
  BY FullFillsInTime DEF Bucket
<1>2. /\ Rpm * (t - b.last) \in Int /\ Rpm * d \in Int /\ Rpm * d >= 0
      /\ Rpm * ((t - b.last) + d) = Rpm * (t - b.last) + Rpm * d
  <2>1. t - b.last \in Int /\ d \in Int /\ d >= 0
    BY <1>1
  <2> QED
    BY <2>1, Inflow
<1>3. (t + d) - b.last = (t - b.last) + d
  BY <1>1
<1> QED
  BY <1>1, <1>2, <1>3 DEF advance, Smaller

\* A bucket that may be forgotten is full.
LEMMA IdleIsFull ==
    ASSUME NEW b \in Bucket, NEW t \in Nat, b.last <= t - IdleSeconds
    PROVE  advance(b, t) = Full
<1>1. Full \in Nat /\ b.level \in 0..Full /\ b.last \in Nat /\ Full <= Rpm * IdleSeconds
  BY FullFillsInTime DEF Bucket
<1>2. Rpm * IdleSeconds <= Rpm * (t - b.last) /\ Rpm * (t - b.last) \in Int /\ Rpm * IdleSeconds \in Int
  <2>1. IdleSeconds \in Int /\ t - b.last \in Int /\ IdleSeconds <= t - b.last
    BY <1>1 DEF IdleSeconds
  <2> QED
    BY <2>1, Inflow
<1> QED
  BY <1>1, <1>2 DEF advance, Smaller

\* A bucket that was brought up to date is as it is.
LEMMA AdvanceNow ==
    ASSUME NEW n \in 0..Full, NEW t \in Nat, NEW u
    PROVE  advance([level |-> n, last |-> t, lastSeen |-> u], t) = n
<1>1. Full \in Nat /\ n \in Nat /\ n <= Full
  BY FullFillsInTime
<1>2. Rpm * (t - t) = 0
  BY LimiterAssumption
<1> QED
  BY <1>1, <1>2 DEF advance, Smaller

-----------------------------------------------------------------------------
(***************************************************************************)
(* The inductive invariant: no bucket was used after now, none after its   *)
(* address was last seen, and what an address has spent since mark and     *)
(* what it has left are paid for by a full bucket and the inflow since.    *)
(***************************************************************************)
Timed ==
    /\ \A a \in DOMAIN table :
          table[a].last <= table[a].lastSeen /\ table[a].lastSeen <= now
    /\ mark <= now

Paid ==
    \A a \in Addresses : Price * admitted[a] + LevelNow(a) <= Full + Rpm * (now - mark)

LimiterInv == LimiterTypeOK /\ Timed /\ Paid /\ TableHoldsTheRecent

\* What every address has is a level.
LEMMA LevelNowType ==
    ASSUME LimiterTypeOK, Timed, NEW a \in Addresses
    PROVE  LevelNow(a) \in 0..Full
<1>1. CASE a \in DOMAIN table
  <2>1. table[a] \in Bucket /\ table[a].last <= now /\ now \in Nat
    BY <1>1 DEF LimiterTypeOK, Timed, Bucket
  <2> QED
    BY <1>1, <2>1, AdvanceType DEF LevelNow
<1>2. CASE a \notin DOMAIN table
  BY <1>2, FullFillsInTime DEF LevelNow
<1> QED
  BY <1>1, <1>2

\* The bucket a request finds is a bucket with what its address has.
LEMMA FoundBucket ==
    ASSUME LimiterTypeOK, Timed, NEW a \in Addresses
    PROVE  /\ Found(a) \in Bucket
           /\ Found(a).last <= now
           /\ advance(Found(a), now) = LevelNow(a)
<1>1. Sweep \subseteq DOMAIN table /\ now \in Nat
  BY DEF Sweep, LimiterTypeOK
<1>2. CASE a \in Sweep
  BY <1>1, <1>2 DEF Found, LevelNow, LimiterTypeOK, Timed, Bucket
<1>3. CASE a \notin Sweep
  <2>1. NewLimiter \in Bucket /\ NewLimiter.last = now
    BY <1>1, FullFillsInTime DEF NewLimiter, Bucket
  <2>2. advance(NewLimiter, now) = Full
    BY <1>1, FullFillsInTime, AdvanceNow DEF NewLimiter
  <2>3. CASE a \in DOMAIN table
    <3>1. table[a] \in Bucket /\ table[a].last <= table[a].lastSeen
          /\ ~(table[a].lastSeen >= now - IdleSeconds)
      BY <1>3, <2>3 DEF Sweep, LimiterTypeOK, Timed
    <3>2. table[a].last <= now - IdleSeconds
      BY <1>1, <3>1 DEF Bucket, IdleSeconds
    <3> QED
      BY <1>1, <1>3, <2>1, <2>2, <2>3, <3>1, <3>2, IdleIsFull DEF Found, LevelNow
  <2>4. CASE a \notin DOMAIN table
    BY <1>1, <1>3, <2>1, <2>2, <2>4 DEF Found, LevelNow
  <2> QED
    BY <2>3, <2>4
<1> QED
  BY <1>2, <1>3

\* What a request leaves every address with: its own pays if it is let
\* through, the others', and those that are dropped, keep what they have.
LEMMA LimitLevels ==
    ASSUME LimiterTypeOK, Timed, NEW a \in Addresses, NEW allowed \in BOOLEAN,
           Limit(a, allowed), NEW x \in Addresses
    PROVE  LevelNow(x)' = IF x = a /\ allowed THEN LevelNow(x) - Price ELSE LevelNow(x)
<1>1. Sweep \subseteq DOMAIN table /\ now \in Nat /\ now' = now
  BY DEF Sweep, LimiterTypeOK, Limit
<1>2. /\ DOMAIN table' = Sweep \cup {a}
      /\ \A y \in Sweep \cup {a} :
            table'[y] = IF y = a THEN Allow(Found(a), allowed) ELSE table[y]
  BY DEF Limit
<1>3. /\ Found(a) \in Bucket /\ Found(a).last <= now
      /\ advance(Found(a), now) = LevelNow(a) /\ LevelNow(a) \in 0..Full
  BY FoundBucket, LevelNowType
<1>4. CASE x = a /\ allowed
  <2>1. LevelNow(a) >= Price
    BY <1>3, <1>4 DEF Limit
  <2>2. LevelNow(a) - Price \in 0..Full
    BY <1>3, <2>1, FullFillsInTime DEF Price
  <2>3. table'[a] = [level |-> LevelNow(a) - Price, last |-> now, lastSeen |-> now]
    BY <1>2, <1>3, <1>4 DEF Allow
  <2>4. LevelNow(a)' = advance(table'[a], now)
    BY <1>1, <1>2 DEF LevelNow, advance, Full
  <2> QED
    BY <1>1, <1>4, <2>2, <2>3, <2>4, AdvanceNow
<1>5. CASE x = a /\ ~allowed
  <2>1. table'[a] = [Found(a) EXCEPT !.lastSeen = now]
    BY <1>2, <1>5 DEF Allow
  <2>2. table'[a].level = Found(a).level /\ table'[a].last = Found(a).last
    BY <1>3, <2>1 DEF Bucket
  <2>3. LevelNow(a)' = advance(table'[a], now)
    BY <1>1, <1>2 DEF LevelNow, advance, Full
  <2> QED
    BY <1>3, <1>5, <2>2, <2>3 DEF advance
<1>6. CASE x # a /\ x \in Sweep
  BY <1>1, <1>2, <1>6 DEF LevelNow, advance
<1>7. CASE x # a /\ x \notin Sweep
  <2>1. LevelNow(x)' = Full
    BY <1>2, <1>7 DEF LevelNow
  <2>2. LevelNow(x) = Full
    <3>1. CASE x \in DOMAIN table
      <4>1. table[x] \in Bucket /\ table[x].last <= table[x].lastSeen
            /\ ~(table[x].lastSeen >= now - IdleSeconds)
        BY <1>7, <3>1 DEF Sweep, LimiterTypeOK, Timed
      <4>2. table[x].last <= now - IdleSeconds
        BY <1>1, <4>1 DEF Bucket, IdleSeconds
      <4> QED
        BY <1>1, <3>1, <4>1, <4>2, IdleIsFull DEF LevelNow
    <3>2. CASE x \notin DOMAIN table
      BY <3>2 DEF LevelNow
    <3> QED
      BY <3>1, <3>2
  <2> QED
    BY <1>7, <2>1, <2>2
<1> QED
  BY <1>4, <1>5, <1>6, <1>7

\* Time fills every bucket.
LEMMA PassLevels ==
    ASSUME LimiterTypeOK, Timed, NEW d \in Durations, Pass(d), NEW x \in Addresses
    PROVE  LevelNow(x)' = Smaller(Full, LevelNow(x) + Rpm * d)
<1>1. d \in Nat /\ now \in Nat /\ now' = now + d /\ table' = table
  BY LimiterAssumption DEF Pass, LimiterTypeOK
<1>2. CASE x \in DOMAIN table
  <2>1. table[x] \in Bucket /\ table[x].last <= now
    BY <1>1, <1>2 DEF LimiterTypeOK, Timed, Bucket
  <2>2. LevelNow(x)' = advance(table[x], now + d)
    BY <1>1, <1>2 DEF LevelNow, advance, Full
  <2> QED
    BY <1>1, <1>2, <2>1, <2>2, AdvanceAdds DEF LevelNow
<1>3. CASE x \notin DOMAIN table
  <2>1. Rpm * d >= 0 /\ Rpm * d \in Int /\ Full \in Nat
    BY <1>1, Inflow, FullFillsInTime
  <2> QED
    BY <1>1, <1>3, <2>1 DEF LevelNow, Smaller, Full
<1> QED
  BY <1>2, <1>3

\* At the start, and in a new process, every bucket is full.
LEMMA EmptyTableLevels ==
    ASSUME table = [a \in {} |-> 0], NEW x \in Addresses
    PROVE  LevelNow(x) = Full
  BY DEF LevelNow

-----------------------------------------------------------------------------
(***************************************************************************)
(* The invariant holds.                                                    *)
(***************************************************************************)
LEMMA LimiterInitInv == LimiterInit => LimiterInv
<1> SUFFICES ASSUME LimiterInit PROVE LimiterInv
  OBVIOUS
<1>1. LimiterTypeOK
  <2>1. DOMAIN table = {} /\ table = [a \in {} |-> table[a]]
    BY DEF LimiterInit
  <2>2. verdict \in [addr: Addresses, allowed: BOOLEAN, at: Nat]
    <3>1. {FALSE} \subseteq BOOLEAN /\ {0} \subseteq Nat
      OBVIOUS
    <3>2. verdict \in [addr: Addresses, allowed: {FALSE}, at: {0}]
      BY DEF LimiterInit
    <3> QED
      BY <3>1, <3>2
  <2>3. now \in Nat /\ mark \in Nat /\ admitted \in [Addresses -> Nat]
    BY DEF LimiterInit
  <2> QED
    BY <2>1, <2>2, <2>3 DEF LimiterTypeOK
<1>2. Timed
  BY DEF LimiterInit, Timed
<1>3. Paid
  <2> SUFFICES ASSUME NEW a \in Addresses
               PROVE  Price * admitted[a] + LevelNow(a) <= Full + Rpm * (now - mark)
    BY DEF Paid
  <2>1. LevelNow(a) = Full
    BY EmptyTableLevels DEF LimiterInit
  <2>2. Price * admitted[a] = 0 /\ Rpm * (now - mark) = 0
    BY LimiterAssumption DEF LimiterInit, Price
  <2> QED
    BY <2>1, <2>2, FullFillsInTime
<1>4. TableHoldsTheRecent
  BY DEF LimiterInit, TableHoldsTheRecent
<1> QED
  BY <1>1, <1>2, <1>3, <1>4 DEF LimiterInv

LEMMA LimitInv ==
    ASSUME LimiterInv, NEW a \in Addresses, NEW allowed \in BOOLEAN, Limit(a, allowed)
    PROVE  LimiterInv'
<1>1. LimiterTypeOK /\ Timed /\ Paid /\ TableHoldsTheRecent
  BY DEF LimiterInv
<1>2. /\ Sweep \subseteq DOMAIN table /\ DOMAIN table \subseteq Addresses
      /\ now \in Nat /\ now' = now /\ mark' = mark
      /\ verdict' = [addr |-> a, allowed |-> allowed, at |-> now]
      /\ DOMAIN table' = Sweep \cup {a}
      /\ \A y \in Sweep \cup {a} :
            table'[y] = IF y = a THEN Allow(Found(a), allowed) ELSE table[y]
  BY <1>1 DEF Sweep, LimiterTypeOK, Limit
<1>3. /\ Found(a) \in Bucket /\ Found(a).last <= now
      /\ advance(Found(a), now) = LevelNow(a) /\ LevelNow(a) \in 0..Full
  BY <1>1, FoundBucket, LevelNowType
<1>4. /\ Allow(Found(a), allowed) \in Bucket
      /\ Allow(Found(a), allowed).last <= now
      /\ Allow(Found(a), allowed).lastSeen = now
  <2>1. CASE allowed
    <3>1. LevelNow(a) >= Price
      BY <1>3, <2>1 DEF Limit
    <3> QED
      BY <1>2, <1>3, <2>1, <3>1, FullFillsInTime DEF Allow, Bucket, Price
  <2>2. CASE ~allowed
    BY <1>2, <1>3, <2>2 DEF Allow, Bucket
  <2> QED
    BY <2>1, <2>2
<1>5. LimiterTypeOK'
  <2>1. table' \in [DOMAIN table' -> Bucket]
    <3>1. \A y \in DOMAIN table' : table'[y] \in Bucket
      BY <1>1, <1>2, <1>4 DEF LimiterTypeOK
    <3> QED
      BY <3>1 DEF Limit
  <2>2. admitted' \in [Addresses -> Nat]
    BY <1>1 DEF LimiterTypeOK, Limit
  <2> QED
    BY <1>1, <1>2, <2>1, <2>2 DEF LimiterTypeOK, Bucket
<1>6. Timed'
  BY <1>1, <1>2, <1>4 DEF Timed
<1>7. Paid'
  <2> SUFFICES ASSUME NEW x \in Addresses
               PROVE  (Price * admitted[x] + LevelNow(x) <= Full + Rpm * (now - mark))'
    BY DEF Paid
  <2>1. Price * admitted[x] + LevelNow(x) <= Full + Rpm * (now - mark)
    BY <1>1 DEF Paid
  <2>2. LevelNow(x)' = IF x = a /\ allowed THEN LevelNow(x) - Price ELSE LevelNow(x)
    BY <1>1, LimitLevels
  <2>3. admitted'[x] = IF x = a /\ allowed THEN admitted[x] + 1 ELSE admitted[x]
    BY <1>1 DEF LimiterTypeOK, Limit
  <2>4. LevelNow(x) \in Nat /\ admitted[x] \in Nat
    BY <1>1, LevelNowType, FullFillsInTime DEF LimiterTypeOK
  <2>5. Full' = Full /\ (Rpm * (now - mark))' = Rpm * (now - mark)
    BY <1>2 DEF Full
  <2>6. Full \in Nat /\ Rpm * (now - mark) \in Int
    BY <1>1, <1>2, LimiterAssumption, FullFillsInTime DEF LimiterTypeOK
  <2>7. Price * admitted'[x] + LevelNow(x)' <= Price * admitted[x] + LevelNow(x)
    BY <2>2, <2>3, <2>4 DEF Price
  <2> QED
    BY <2>1, <2>2, <2>3, <2>4, <2>5, <2>6, <2>7 DEF Price
<1>8. TableHoldsTheRecent'
  <2>1. IsFiniteSet(DOMAIN table)
    BY <1>2, LimiterAssumption, FS_Subset
  <2>2. CASE Cardinality(DOMAIN table) <= TableLimit
    <3>1. Sweep = DOMAIN table
      <4>1. Cardinality(DOMAIN table) \in Nat /\ TableLimit \in Nat
        BY <2>1, FS_CardinalityType, LimiterAssumption
      <4> QED
        BY <2>2, <4>1 DEF Sweep
    <3>2. Cardinality(DOMAIN table') <= Cardinality(DOMAIN table) + 1
          /\ Cardinality(DOMAIN table') \in Nat /\ Cardinality(DOMAIN table) \in Nat
      <4>1. DOMAIN table' = DOMAIN table \cup {a}
        BY <1>2, <3>1
      <4>2. /\ IsFiniteSet(DOMAIN table \cup {a})
            /\ Cardinality(DOMAIN table \cup {a}) = IF a \in DOMAIN table
                  THEN Cardinality(DOMAIN table) ELSE Cardinality(DOMAIN table) + 1
        BY <2>1, FS_AddElement
      <4>3. Cardinality(DOMAIN table) \in Nat
        BY <2>1, FS_CardinalityType
      <4> QED
        BY <4>1, <4>2, <4>3
    <3> QED
      BY <2>2, <3>2, LimiterAssumption DEF TableHoldsTheRecent
  <2>3. CASE Cardinality(DOMAIN table) > TableLimit
    <3>1. \A y \in Sweep : table[y].lastSeen >= now - IdleSeconds
      BY <2>3 DEF Sweep
    <3>2. \A y \in DOMAIN table' : table'[y].lastSeen >= now - IdleSeconds
      BY <1>2, <1>4, <3>1 DEF IdleSeconds
    <3> QED
      BY <1>2, <3>2 DEF TableHoldsTheRecent
  <2>4. Cardinality(DOMAIN table) \in Nat /\ TableLimit \in Nat
    BY <2>1, FS_CardinalityType, LimiterAssumption
  <2> QED
    BY <2>2, <2>3, <2>4
<1> QED
  BY <1>5, <1>6, <1>7, <1>8 DEF LimiterInv

LEMMA PassInv ==
    ASSUME LimiterInv, NEW d \in Durations, Pass(d)
    PROVE  LimiterInv'
<1>1. LimiterTypeOK /\ Timed /\ Paid /\ TableHoldsTheRecent
  BY DEF LimiterInv
<1>2. /\ d \in Nat /\ now \in Nat /\ mark \in Nat /\ mark <= now /\ now' = now + d
      /\ table' = table /\ verdict' = verdict /\ mark' = mark /\ admitted' = admitted
  BY <1>1, LimiterAssumption DEF Pass, LimiterTypeOK, Timed
<1>3. LimiterTypeOK'
  BY <1>1, <1>2 DEF LimiterTypeOK, Bucket
<1>4. Timed'
  BY <1>1, <1>2 DEF Timed, LimiterTypeOK, Bucket
<1>5. Paid'
  <2> SUFFICES ASSUME NEW x \in Addresses
               PROVE  (Price * admitted[x] + LevelNow(x) <= Full + Rpm * (now - mark))'
    BY DEF Paid
  <2>1. Price * admitted[x] + LevelNow(x) <= Full + Rpm * (now - mark)
    BY <1>1 DEF Paid
  <2>2. LevelNow(x)' = Smaller(Full, LevelNow(x) + Rpm * d)
    BY <1>1, PassLevels
  <2>3. LevelNow(x) \in Nat /\ admitted[x] \in Nat /\ Full \in Nat
    BY <1>1, LevelNowType, FullFillsInTime DEF LimiterTypeOK
  <2>4. /\ Rpm * d \in Int /\ Rpm * (now - mark) \in Int
        /\ Rpm * ((now - mark) + d) = Rpm * (now - mark) + Rpm * d
    <3>1. now - mark \in Int /\ d \in Int
      BY <1>2
    <3> QED
      BY <3>1, Inflow
  <2>5. now' - mark' = (now - mark) + d
    BY <1>2
  <2>6. LevelNow(x)' <= LevelNow(x) + Rpm * d /\ LevelNow(x)' \in Int
    BY <2>2, <2>3, <2>4 DEF Smaller
  <2>7. Price * admitted[x] \in Int
    BY <2>3 DEF Price
  <2> QED
    BY <1>2, <2>1, <2>3, <2>4, <2>5, <2>6, <2>7 DEF Full, Price
<1>6. TableHoldsTheRecent'
  BY <1>1, <1>2 DEF TableHoldsTheRecent
<1> QED
  BY <1>3, <1>4, <1>5, <1>6 DEF LimiterInv

LEMMA ObserveInv ==
    ASSUME LimiterInv, Observe \/ NewTable
    PROVE  LimiterInv'
<1>1. LimiterTypeOK /\ Timed /\ TableHoldsTheRecent
  BY DEF LimiterInv
<1>2. /\ now' = now /\ verdict' = verdict /\ mark' = now /\ now \in Nat
      /\ table' = table \/ table' = [a \in {} |-> 0]
      /\ admitted' = [a \in Addresses |-> 0]
  BY <1>1 DEF Observe, NewTable, LimiterTypeOK
<1>3. LimiterTypeOK'
  BY <1>1, <1>2 DEF LimiterTypeOK
<1>4. Timed'
  BY <1>1, <1>2 DEF Timed
<1>5. Paid'
  <2> SUFFICES ASSUME NEW x \in Addresses
               PROVE  (Price * admitted[x] + LevelNow(x) <= Full + Rpm * (now - mark))'
    BY DEF Paid
  <2>1. LevelNow(x)' \in 0..Full
    <3>1. LevelNow(x) \in 0..Full /\ Full \in Nat
      BY <1>1, LevelNowType, FullFillsInTime
    <3>2. LevelNow(x)' = LevelNow(x) \/ LevelNow(x)' = Full
      BY <1>2 DEF LevelNow, advance, Full
    <3> QED
      BY <3>1, <3>2
  <2>2. Price * admitted'[x] = 0 /\ Rpm * (now' - mark') = 0 /\ Full \in Nat
    BY <1>2, LimiterAssumption, FullFillsInTime DEF Price
  <2> QED
    BY <2>1, <2>2 DEF Full
<1>6. TableHoldsTheRecent'
  <2>1. CASE table' = table
    BY <1>1, <1>2, <2>1 DEF TableHoldsTheRecent
  <2>2. CASE table' = [a \in {} |-> 0]
    BY <2>2 DEF TableHoldsTheRecent
  <2> QED
    BY <1>2, <2>1, <2>2
<1> QED
  BY <1>3, <1>4, <1>5, <1>6 DEF LimiterInv

LEMMA LimiterNextInv == LimiterInv /\ [LimiterNext]_limiterVars => LimiterInv'
<1> SUFFICES ASSUME LimiterInv, [LimiterNext]_limiterVars PROVE LimiterInv'
  OBVIOUS
<1>1. ASSUME NEW a \in Addresses, NEW allowed \in BOOLEAN, Limit(a, allowed)
      PROVE  LimiterInv'
  BY <1>1, LimitInv
<1>2. ASSUME NEW d \in Durations, Pass(d) PROVE LimiterInv'
  BY <1>2, PassInv
<1>3. CASE Observe \/ NewTable
  BY <1>3, ObserveInv
<1>4. CASE UNCHANGED limiterVars
  BY <1>4 DEF limiterVars, LimiterInv, LimiterTypeOK, Timed, Paid, TableHoldsTheRecent,
              LevelNow, advance, Full, Bucket
<1> QED
  BY <1>1, <1>2, <1>3, <1>4 DEF LimiterNext

\* The limiter's variables have their types, and the invariant holds.
THEOREM LimiterInvariant == LimiterSpec => []LimiterInv
  BY LimiterInitInv, LimiterNextInv, PTL DEF LimiterSpec

\* For any rate, burst, table limit and number of addresses: no more requests
\* of an address are let through than a full bucket and the inflow pay for,
\* though the table forgets addresses (Limit, ratelimit.go).
THEOREM RateIsBounded == LimiterSpec => []AdmittedIsBounded
<1>1. LimiterInv => AdmittedIsBounded
  <2> SUFFICES ASSUME LimiterInv, NEW a \in Addresses
               PROVE  Price * admitted[a] <= Full + Rpm * (now - mark)
    BY DEF AdmittedIsBounded
  <2>1. /\ Price * admitted[a] + LevelNow(a) <= Full + Rpm * (now - mark)
        /\ LevelNow(a) \in Nat /\ Full \in Nat
    BY LevelNowType, FullFillsInTime DEF LimiterInv, Paid
  <2>2. Price * admitted[a] \in Nat /\ Rpm * (now - mark) \in Int
    BY LimiterAssumption DEF LimiterInv, LimiterTypeOK, Price
  <2> QED
    BY <2>1, <2>2
<1> QED
  BY <1>1, LimiterInvariant, PTL

\* What the sweep leaves behind is recent, whatever the table limit.
THEOREM TableForgets == LimiterSpec => []TableHoldsTheRecent
<1>1. LimiterInv => TableHoldsTheRecent
  BY DEF LimiterInv
<1> QED
  BY <1>1, LimiterInvariant, PTL

-----------------------------------------------------------------------------
(***************************************************************************)
(* The table implements a bucket for each address.                         *)
(***************************************************************************)

\* Every step of the limiter is one of the buckets, or invisible.
LEMMA BucketStep == LimiterInv /\ [LimiterNext]_limiterVars => [Buckets!Next]_(Buckets!vars)
<1> SUFFICES ASSUME LimiterInv, [LimiterNext]_limiterVars
             PROVE  [Buckets!Next]_(Buckets!vars)
  OBVIOUS
<1> DEFINE level == [a \in Addresses |-> LevelNow(a)]
<1>1. LimiterTypeOK /\ Timed
  BY DEF LimiterInv
<1>2. ASSUME NEW a \in Addresses, NEW allowed \in BOOLEAN, Limit(a, allowed)
      PROVE  Buckets!Grant(a) \/ Buckets!Deny(a)
  <2>1. \A x \in Addresses :
           LevelNow(x)' = IF x = a /\ allowed THEN LevelNow(x) - Price ELSE LevelNow(x)
    BY <1>1, <1>2, LimitLevels
  <2>2. allowed <=> LevelNow(a) >= Price
    BY <1>1, <1>2, FoundBucket DEF Limit
  <2>3. verdict'.addr = a /\ verdict'.allowed = allowed
    BY <1>2 DEF Limit
  <2>4. CASE allowed
    <3>1. level' = [level EXCEPT ![a] = @ - Price]
      BY <2>1, <2>4
    <3>2. level[a] >= Price
      BY <2>2, <2>4
    <3> QED
      BY <2>3, <2>4, <3>1, <3>2 DEF Buckets!Grant
  <2>5. CASE ~allowed
    <3>1. level' = level
      BY <2>1, <2>5
    <3>2. level[a] < Price
      BY <1>1, <2>2, <2>5, LevelNowType, FullFillsInTime DEF Price
    <3> QED
      BY <2>3, <2>5, <3>1, <3>2 DEF Buckets!Deny
  <2> QED
    BY <2>4, <2>5
<1>3. ASSUME NEW d \in Durations, Pass(d)
      PROVE  Buckets!Refill(d)
  <2>1. \A x \in Addresses : LevelNow(x)' = Smaller(Full, LevelNow(x) + Rpm * d)
    BY <1>1, <1>3, PassLevels
  <2>2. level' = [a \in Addresses |-> Buckets!Smaller(Full, level[a] + Rpm * d)]
    BY <2>1 DEF Smaller, Buckets!Smaller
  <2> QED
    BY <1>3, <2>2 DEF Pass, Buckets!Refill
<1>4. CASE Observe
  BY <1>4 DEF Observe, Buckets!vars, LevelNow, advance, Full
<1>5. CASE NewTable
  <2>1. \A x \in Addresses : LevelNow(x)' = Full
    BY <1>5 DEF NewTable, LevelNow, Full
  <2> QED
    BY <1>5, <2>1 DEF NewTable, Buckets!Refresh, Buckets!Next
<1>6. CASE UNCHANGED limiterVars
  BY <1>6 DEF limiterVars, Buckets!vars, LevelNow, advance, Full
<1> QED
  BY <1>2, <1>3, <1>4, <1>5, <1>6 DEF LimiterNext, Buckets!Next

\* To its clients, the table that forgets and fills late is a limiter that
\* keeps a bucket for every address (TokenBucket).
THEOREM LimiterImplementsTokenBuckets == LimiterSpec => ImplementsTokenBuckets
<1>1. LimiterInit => Buckets!Init
  <2> SUFFICES ASSUME LimiterInit PROVE Buckets!Init
    OBVIOUS
  <2>1. \A x \in Addresses : LevelNow(x) = Full
    BY EmptyTableLevels DEF LimiterInit
  <2> QED
    BY <2>1 DEF LimiterInit, Buckets!Init
<1> QED
  BY <1>1, BucketStep, LimiterInvariant, PTL DEF LimiterSpec, ImplementsTokenBuckets, Buckets!Spec
=============================================================================
