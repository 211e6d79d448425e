-------------------------- MODULE AccountingProofs --------------------------
(***************************************************************************)
(* What the server counts: the rate limiter's buckets (RateLimit), the     *)
(* table of usage cells (CellTable), the windows of samples and the queue  *)
(* for the writer's mutex (Metrics).  The three share no state: each has   *)
(* constants, variables and an invariant of its own.                       *)
(***************************************************************************)
EXTENDS Integers, Sequences, FiniteSets, FiniteSetTheorems, TLAPS

-----------------------------------------------------------------------------
(* RateLimit: the table of buckets.                                        *)

CONSTANTS Owners, Requests, Raw(_), Token, Second, MaxTracked, MaxDuration, MaxClock
VARIABLES clock, buckets, poisoned, last, ideal, notBefore

Limits == INSTANCE RateLimit

\* A rate, in fractions of a token.
RateSet == [burst : Nat, refill : Nat]
\* A bucket, as of its last update.
Bucket == [tokens : Int, updated : Nat]

\* Every class has a rate.
LEMMA Configured ==
  ASSUME Limits!RateBounds, NEW c \in Limits!Classes
  PROVE  Limits!configured_rate(c) \in RateSet
<1>1. Token \in Nat \ {0} /\ Second \in Nat \ {0}
  BY DEF Limits!RateBounds
<1>2. \A a, b \in Nat : Limits!Rate(a, b) \in RateSet
  <2> SUFFICES ASSUME NEW a \in Nat, NEW b \in Nat
               PROVE  Limits!Rate(a, b) \in RateSet
    OBVIOUS
  <2>1. a * Token \in Nat /\ b * Token \in Nat
    BY <1>1
  <2>2. \A x \in Nat : x \div Second \in Nat
    BY <1>1
  <2> QED  BY <2>1, <2>2 DEF Limits!Rate, RateSet
<1>3. Limits!default_rate(c) \in RateSet
  BY <1>2 DEF Limits!default_rate, Limits!Classes
<1>4. Limits!parse_rate_from(c, Raw(c)) \in RateSet
  BY <1>3 DEF Limits!parse_rate_from, Limits!Disabled, RateSet, Limits!RateBounds
<1> QED  BY <1>4 DEF Limits!configured_rate

\* What a bucket holds once refilled.
Holds(b, rate, now) == Limits!Refilled(b, rate, now).tokens

\* Refilling a bucket: what it holds, up to the burst.
LEMMA HoldsNow ==
  ASSUME NEW b \in Bucket, NEW rate \in RateSet, NEW now \in Nat, b.updated <= now
  PROVE  /\ Limits!Refilled(b, rate, now) \in Bucket
         /\ Limits!Refilled(b, rate, now).updated = now
         /\ Holds(b, rate, now) \in Int /\ Holds(b, rate, now) <= rate.burst
         /\ Holds(b, rate, now) =
              Limits!AtMost(b.tokens + (now - b.updated) * rate.refill, rate.burst)
<1>1. (now - b.updated) * rate.refill \in Nat /\ rate.burst \in Nat /\ b.tokens \in Int
  BY DEF Bucket, RateSet
<1> QED  BY <1>1 DEF Limits!Refilled, Limits!AtMost, Holds, Bucket

\* One tick later.
LEMMA HoldsLater ==
  ASSUME NEW b \in Bucket, NEW rate \in RateSet, NEW now \in Nat, b.updated <= now
  PROVE  Holds(b, rate, now + 1) = Limits!AtMost(Holds(b, rate, now) + rate.refill, rate.burst)
<1> DEFINE p == (now - b.updated) * rate.refill
           q == (now + 1 - b.updated) * rate.refill
<1>1. b.tokens \in Int /\ b.updated \in Nat /\ rate.refill \in Nat /\ rate.burst \in Nat
  BY DEF Bucket, RateSet
<1>2. q = p + rate.refill /\ p \in Int
  BY <1>1
<1>3. /\ Holds(b, rate, now) = Limits!AtMost(b.tokens + p, rate.burst)
      /\ Holds(b, rate, now + 1) = Limits!AtMost(b.tokens + q, rate.burst)
  BY <1>1 DEF Holds, Limits!Refilled
<1> HIDE DEF p, q
<1> QED  BY <1>1, <1>2, <1>3 DEF Limits!AtMost

\* A bucket written just now.
LEMMA HoldsFresh ==
  ASSUME NEW b \in Bucket, NEW rate \in RateSet, NEW now \in Nat, b.updated = now
  PROVE  Holds(b, rate, now) = Limits!AtMost(b.tokens, rate.burst)
<1>1. b.tokens \in Int /\ b.updated \in Nat /\ rate.refill \in Nat /\ rate.burst \in Nat
  BY DEF Bucket, RateSet
<1>2. (now - b.updated) * rate.refill = 0
  BY <1>1
<1> QED  BY <1>1, <1>2 DEF Holds, Limits!Refilled

\* Every request has a class.
LEMMA ClassOfRequest == \A method, path : Limits!ClassOf(method, path) \in Limits!Classes
BY DEF Limits!ClassOf, Limits!Classes

\* The rate of an identity's bucket.
RateOf(k) == Limits!configured_rate(k[2])

\* The bucket of a key that is never dropped.
Kept(k) == Holds(ideal[k], RateOf(k), clock)

\* A bucket in a table has at most what the one that is never dropped has, and a
\* bucket that is not in it would be full.
TableInv(table) ==
  /\ DOMAIN table \subseteq Limits!Keys
  /\ \A k \in DOMAIN table : table[k] \in Bucket /\ table[k].updated <= clock
  /\ \A k \in DOMAIN table : Holds(table[k], RateOf(k), clock) <= Kept(k)
  /\ \A k \in Limits!Keys \ DOMAIN table : Kept(k) = RateOf(k).burst

\* The bucket that is never dropped is never overdrawn.
IdealInv ==
  /\ clock \in Nat
  /\ ideal \in [Limits!Keys -> Bucket]
  /\ \A k \in Limits!Keys : ideal[k].updated <= clock /\ ideal[k].tokens >= 0

\* The inductive invariant of NoAllowanceTwice.
RateInv == IdealInv /\ TableInv(buckets)

\* The table starts empty, and every bucket would be full.
LEMMA RateInit == Limits!RateBounds /\ Limits!Init => RateInv
<1> SUFFICES ASSUME Limits!RateBounds, Limits!Init PROVE RateInv
  OBVIOUS
<1>1. \A k \in Limits!Keys : RateOf(k) \in RateSet
  BY Configured DEF RateOf, Limits!Keys
<1>2. \A k \in Limits!Keys : ideal[k] = [tokens |-> RateOf(k).burst, updated |-> 0]
  BY DEF Limits!Init, Limits!Full, RateOf
<1>3. \A k \in Limits!Keys : RateOf(k).burst \in Nat
  BY <1>1 DEF RateSet
<1>4. ASSUME NEW k \in Limits!Keys
      PROVE  ideal[k] \in Bucket /\ ideal[k].updated = 0 /\ ideal[k].tokens = RateOf(k).burst
  <2>1. RateOf(k).burst \in Int
    BY <1>3
  <2>2. \A n \in Int : [tokens |-> n, updated |-> 0] \in Bucket
    BY DEF Bucket
  <2>3. ideal[k] = [tokens |-> RateOf(k).burst, updated |-> 0]
    BY <1>2
  <2>4. ideal[k] \in Bucket
    BY <2>1, <2>2, <2>3, Zenon
  <2>5. ideal[k].updated = 0 /\ ideal[k].tokens = RateOf(k).burst
    BY <2>3
  <2> QED  BY <2>4, <2>5
<1>5. \A k \in Limits!Keys : Holds(ideal[k], RateOf(k), 0) = RateOf(k).burst
  BY <1>1, <1>3, <1>4, HoldsFresh DEF Limits!AtMost
<1>6. ideal \in [Limits!Keys -> Bucket]
  BY <1>4 DEF Limits!Init
<1>7. DOMAIN buckets = {} /\ clock = 0
  BY DEF Limits!Init
<1> QED  BY <1>3, <1>4, <1>5, <1>6, <1>7 DEF RateInv, IdealInv, TableInv, Kept

\* Every bucket has a rate.
LEMMA RatesOf == Limits!RateBounds => \A k \in Limits!Keys : RateOf(k) \in RateSet
BY Configured DEF RateOf, Limits!Keys

\* What the bucket that is never dropped holds now.
LEMMA KeptFacts ==
  ASSUME Limits!RateBounds, IdealInv, NEW k \in Limits!Keys
  PROVE  /\ RateOf(k).burst \in Nat /\ RateOf(k).refill \in Nat
         /\ Kept(k) \in Int /\ Kept(k) <= RateOf(k).burst
         /\ Limits!Refilled(ideal[k], RateOf(k), clock) \in Bucket
         /\ Limits!Refilled(ideal[k], RateOf(k), clock).updated = clock
<1>1. RateOf(k) \in RateSet /\ ideal[k] \in Bucket /\ ideal[k].updated <= clock /\ clock \in Nat
  BY RatesOf DEF IdealInv
<1>2. RateOf(k).burst \in Nat /\ RateOf(k).refill \in Nat
  BY <1>1 DEF RateSet
<1> QED  BY <1>1, <1>2, HoldsNow DEF Kept

\* retain drops only buckets that are full, or whose class has no limit.
LEMMA Evicted ==
  ASSUME Limits!RateBounds, RateInv
  PROVE  TableInv(Limits!Evict(buckets, clock))
<1> DEFINE stays == {k \in DOMAIN buckets :
                       /\ RateOf(k) # Limits!Disabled
                       /\ ~Limits!is_full(buckets[k], RateOf(k), clock)}
           table == Limits!Evict(buckets, clock)
<1>1. table = [k \in stays |-> buckets[k]]
  BY DEF Limits!Evict, Limits!Restrict, RateOf
<1>2. ASSUME NEW k \in DOMAIN buckets, k \notin stays PROVE Kept(k) = RateOf(k).burst
  <2>1. /\ k \in Limits!Keys /\ buckets[k] \in Bucket /\ buckets[k].updated <= clock
        /\ Holds(buckets[k], RateOf(k), clock) <= Kept(k) /\ clock \in Nat
        /\ RateOf(k) \in RateSet
    BY RatesOf DEF RateInv, TableInv, IdealInv
  <2>2. /\ RateOf(k).burst \in Nat /\ RateOf(k).refill \in Nat
        /\ Kept(k) \in Int /\ Kept(k) <= RateOf(k).burst
    BY <2>1, KeptFacts DEF RateInv
  <2>3. CASE RateOf(k) = Limits!Disabled
    <3>1. RateOf(k).burst = 0 /\ RateOf(k).refill = 0
      BY <2>3 DEF Limits!Disabled
    <3>2. ideal[k].tokens \in Nat /\ ideal[k].updated \in Nat
      BY <2>1 DEF RateInv, IdealInv, Bucket
    <3>3. Kept(k) = Limits!AtMost(ideal[k].tokens + (clock - ideal[k].updated) * 0, 0)
      BY <3>1 DEF Kept, Holds, Limits!Refilled
    <3> QED  BY <2>1, <3>1, <3>2, <3>3 DEF Limits!AtMost
  <2>4. CASE Limits!is_full(buckets[k], RateOf(k), clock)
    <3> DEFINE has == buckets[k].tokens + (clock - buckets[k].updated) * RateOf(k).refill
    <3>1. has >= RateOf(k).burst /\ has \in Int
      BY <2>1, <2>2, <2>4 DEF Limits!is_full, Bucket
    <3>2. Holds(buckets[k], RateOf(k), clock) = Limits!AtMost(has, RateOf(k).burst)
      BY <2>1, HoldsNow
    <3> HIDE DEF has
    <3> QED  BY <2>1, <2>2, <3>1, <3>2 DEF Limits!AtMost
  <2> QED  BY <1>2, <2>3, <2>4
<1> HIDE DEF stays, table
<1>3. stays \subseteq DOMAIN buckets
  BY DEF stays
<1>4. DOMAIN table = stays /\ \A k \in stays : table[k] = buckets[k]
  BY <1>1
<1>5. TableInv(table)
  BY <1>2, <1>3, <1>4 DEF RateInv, TableInv
<1> QED  BY <1>5 DEF table

\* A call takes a token from a bucket that has no more than it may.
LEMMA Taken ==
  ASSUME Limits!RateBounds, IdealInv, NEW k \in Limits!Keys, NEW table, TableInv(table),
         NEW bucket \in Bucket, bucket.updated = clock, bucket.tokens <= Kept(k),
         Limits!TakeFrom(k, table, bucket, RateOf(k)), clock' = clock
  PROVE  RateInv'
<1>0. /\ clock \in Nat /\ ideal \in [Limits!Keys -> Bucket]
      /\ \A x \in Limits!Keys : ideal[x].updated <= clock /\ ideal[x].tokens >= 0
      /\ \A x \in Limits!Keys : RateOf(x) \in RateSet
  BY RatesOf DEF IdealInv
<1>1. /\ RateOf(k).burst \in Nat /\ RateOf(k).refill \in Nat
      /\ Kept(k) \in Int /\ Kept(k) <= RateOf(k).burst
      /\ Limits!Refilled(ideal[k], RateOf(k), clock) \in Bucket
      /\ Limits!Refilled(ideal[k], RateOf(k), clock).updated = clock
  BY KeptFacts
<1>2. bucket.tokens \in Int /\ Token \in Nat \ {0}
  BY DEF Bucket, Limits!RateBounds
<1>3. CASE Limits!Allow(k, table, bucket, RateOf(k))
  <2> DEFINE mine == Limits!Spend(bucket)
             yours == Limits!Spend(Limits!Refilled(ideal[k], RateOf(k), clock))
  <2>1. /\ bucket.tokens >= Token
        /\ buckets' = Limits!insert(table, k, mine)
        /\ ideal' = [ideal EXCEPT ![k] = yours]
    BY <1>3 DEF Limits!Allow, Limits!Ideal
  <2>2. /\ mine \in Bucket /\ mine.updated = clock /\ mine.tokens = bucket.tokens - Token
    BY <1>2 DEF Limits!Spend, Bucket
  <2>3. /\ yours \in Bucket /\ yours.updated = clock /\ yours.tokens = Kept(k) - Token
    BY <1>1, <1>2 DEF Limits!Spend, Bucket, Kept, Holds
  <2> HIDE DEF mine, yours
  <2>4. yours.tokens >= 0 /\ mine.tokens <= yours.tokens /\ yours.tokens <= RateOf(k).burst
    BY <1>1, <1>2, <2>1, <2>2, <2>3
  <2>5. /\ Holds(mine, RateOf(k), clock) = mine.tokens
        /\ Holds(yours, RateOf(k), clock) = yours.tokens
    <3>1. mine.tokens \in Int /\ yours.tokens \in Int
      BY <2>2, <2>3 DEF Bucket
    <3> QED  BY <1>0, <1>1, <2>2, <2>3, <2>4, <3>1, HoldsFresh DEF Limits!AtMost
  <2>6. /\ ideal' \in [Limits!Keys -> Bucket]
        /\ ideal'[k] = yours /\ \A x \in Limits!Keys : x # k => ideal'[x] = ideal[x]
    BY <1>0, <2>1, <2>3
  <2>7. /\ DOMAIN buckets' = DOMAIN table \cup {k} /\ buckets'[k] = mine
        /\ \A x \in DOMAIN table : x # k => buckets'[x] = table[x]
    BY <2>1 DEF Limits!insert
  <2>8. IdealInv'
    BY <1>0, <2>3, <2>4, <2>6 DEF IdealInv
  <2>9. /\ Kept(k)' = yours.tokens /\ \A x \in Limits!Keys : x # k => Kept(x)' = Kept(x)
    BY <2>5, <2>6 DEF Kept, RateOf
  <2>10. TableInv(buckets)'
    <3>1. DOMAIN buckets' \subseteq Limits!Keys
      BY <2>7 DEF TableInv
    <3>2. ASSUME NEW x \in DOMAIN buckets'
          PROVE  buckets'[x] \in Bucket /\ buckets'[x].updated <= clock
      BY <1>0, <2>2, <2>7 DEF TableInv
    <3>3. ASSUME NEW x \in DOMAIN buckets'
          PROVE  Holds(buckets'[x], RateOf(x), clock) <= Kept(x)'
      BY <2>4, <2>5, <2>7, <2>9, <3>1 DEF TableInv
    <3>4. ASSUME NEW x \in Limits!Keys \ DOMAIN buckets' PROVE Kept(x)' = RateOf(x).burst
      BY <2>7, <2>9 DEF TableInv
    <3> QED  BY <3>1, <3>2, <3>3, <3>4 DEF TableInv, RateOf
  <2> QED  BY <2>8, <2>10 DEF RateInv
<1>4. CASE ~Limits!Allow(k, table, bucket, RateOf(k))
  <2>1. ideal' = ideal /\ (buckets' = table \/ buckets' = Limits!insert(table, k, bucket))
    BY <1>4 DEF Limits!TakeFrom, Limits!Deny, Limits!Panic
  <2>2. \A x \in Limits!Keys : Kept(x)' = Kept(x)
    BY <2>1 DEF Kept, RateOf
  <2>3. IdealInv'
    BY <2>1 DEF IdealInv
  <2>4. CASE buckets' = table
    BY <2>2, <2>3, <2>4 DEF RateInv, TableInv, RateOf
  <2>5. CASE buckets' = Limits!insert(table, k, bucket)
    <3>1. /\ DOMAIN buckets' = DOMAIN table \cup {k} /\ buckets'[k] = bucket
          /\ \A x \in DOMAIN table : x # k => buckets'[x] = table[x]
      BY <2>5 DEF Limits!insert
    <3>2. Holds(bucket, RateOf(k), clock) <= Kept(k)
      BY <1>0, <1>1, <1>2, HoldsFresh DEF Limits!AtMost
    <3>3. TableInv(buckets)'
      BY <1>0, <2>2, <3>1, <3>2 DEF TableInv, RateOf
    <3> QED  BY <2>3, <3>3 DEF RateInv
  <2> QED  BY <2>1, <2>4, <2>5
<1> QED  BY <1>3, <1>4

\* Time passes: every bucket refills, the full ones stay full.
LEMMA RateTick ==
  ASSUME Limits!RateBounds, RateInv, Limits!Tick
  PROVE  RateInv'
<1>0. /\ clock \in Nat /\ clock' = clock + 1 /\ buckets' = buckets /\ ideal' = ideal
      /\ \A x \in Limits!Keys : RateOf(x) \in RateSet
      /\ \A x \in Limits!Keys : ideal[x] \in Bucket /\ ideal[x].updated <= clock
  BY RatesOf DEF Limits!Tick, RateInv, IdealInv
<1>1. \A x \in Limits!Keys :
        /\ RateOf(x)' = RateOf(x)
        /\ RateOf(x).burst \in Nat /\ RateOf(x).refill \in Nat
        /\ Kept(x) \in Int /\ Kept(x) <= RateOf(x).burst
  BY KeptFacts DEF RateInv, RateOf
<1>2. \A x \in Limits!Keys :
        Kept(x)' = Limits!AtMost(Kept(x) + RateOf(x).refill, RateOf(x).burst)
  BY <1>0, <1>1, HoldsLater DEF Kept
<1>3. IdealInv'
  <2>1. \A x \in Limits!Keys : ideal[x].updated <= clock + 1
    BY <1>0 DEF Bucket
  <2> QED  BY <1>0, <2>1 DEF RateInv, IdealInv
<1>4. ASSUME NEW x \in DOMAIN buckets
      PROVE  /\ buckets[x] \in Bucket /\ buckets[x].updated <= clock + 1
             /\ Holds(buckets[x], RateOf(x), clock + 1) <= Kept(x)'
  <2>1. /\ x \in Limits!Keys /\ buckets[x] \in Bucket /\ buckets[x].updated <= clock
        /\ Holds(buckets[x], RateOf(x), clock) <= Kept(x)
    BY DEF RateInv, TableInv
  <2>2. Holds(buckets[x], RateOf(x), clock + 1) =
          Limits!AtMost(Holds(buckets[x], RateOf(x), clock) + RateOf(x).refill, RateOf(x).burst)
    BY <1>0, <2>1, HoldsLater
  <2>3. Holds(buckets[x], RateOf(x), clock) \in Int
    BY <1>0, <2>1, HoldsNow
  <2>4. buckets[x].updated <= clock + 1
    BY <1>0, <2>1 DEF Bucket
  <2> QED  BY <1>1, <1>2, <2>1, <2>2, <2>3, <2>4 DEF Limits!AtMost
<1>5. ASSUME NEW x \in Limits!Keys \ DOMAIN buckets PROVE Kept(x)' = RateOf(x).burst
  <2>1. Kept(x) = RateOf(x).burst
    BY DEF RateInv, TableInv
  <2> QED  BY <1>1, <1>2, <2>1 DEF Limits!AtMost
<1>6. TableInv(buckets)'
  BY <1>0, <1>1, <1>4, <1>5 DEF RateInv, TableInv
<1> QED  BY <1>3, <1>6 DEF RateInv

\* Buckets::take, on a tracked bucket, on a new one and on a full table.
LEMMA RateTake ==
  ASSUME Limits!RateBounds, RateInv, NEW k \in Limits!Keys, Limits!take(k, RateOf(k)),
         clock' = clock
  PROVE  RateInv'
<1> DEFINE table == IF Limits!Cardinality(DOMAIN buckets) >= MaxTracked
                      THEN Limits!Evict(buckets, clock) ELSE buckets
<1>1. TableInv(table)
  BY Evicted DEF RateInv
<1>2. /\ RateOf(k) \in RateSet /\ RateOf(k).burst \in Nat /\ Kept(k) \in Int /\ clock \in Nat
  BY RatesOf, KeptFacts DEF RateInv, IdealInv
<1>3. CASE k \in DOMAIN buckets
  <2> DEFINE bucket == Limits!Refilled(buckets[k], RateOf(k), clock)
  <2>1. Limits!TakeFrom(k, buckets, bucket, RateOf(k))
    BY <1>3 DEF Limits!take
  <2>2. /\ buckets[k] \in Bucket /\ buckets[k].updated <= clock
        /\ Holds(buckets[k], RateOf(k), clock) <= Kept(k)
    BY <1>3 DEF RateInv, TableInv
  <2>3. bucket \in Bucket /\ bucket.updated = clock /\ bucket.tokens <= Kept(k)
    BY <1>2, <2>2, HoldsNow DEF Holds
  <2> HIDE DEF bucket
  <2> QED  BY <2>1, <2>3, Taken DEF RateInv
<1>4. CASE k \notin DOMAIN buckets /\ ~(Limits!Cardinality(DOMAIN table) >= MaxTracked)
  <2> DEFINE bucket == Limits!Full(RateOf(k), clock)
  <2>1. Limits!TakeFrom(k, table, bucket, RateOf(k))
    BY <1>4, Zenon DEF Limits!take
  <2>2. Kept(k) = RateOf(k).burst
    BY <1>4 DEF RateInv, TableInv
  <2>3. bucket \in Bucket /\ bucket.updated = clock /\ bucket.tokens <= Kept(k)
    BY <1>2, <2>2 DEF Limits!Full, Bucket
  <2> HIDE DEF bucket, table
  <2> QED  BY <1>1, <2>1, <2>3, Taken DEF RateInv
<1>5. CASE k \notin DOMAIN buckets /\ Limits!Cardinality(DOMAIN table) >= MaxTracked
  <2>1. buckets' = table /\ ideal' = ideal
    BY <1>5, Zenon DEF Limits!take, Limits!Refuse
  <2> HIDE DEF table
  <2> QED  BY <1>1, <2>1 DEF RateInv, IdealInv, TableInv, Kept, RateOf
<1> QED  BY <1>3, <1>4, <1>5

\* Every step of RateLimit keeps the invariant.
LEMMA RateStep ==
  ASSUME Limits!RateBounds, RateInv, [Limits!Next]_(Limits!vars)
  PROVE  RateInv'
<1>1. CASE Limits!Tick
  BY <1>1, RateTick
<1>2. CASE UNCHANGED <<clock, buckets, ideal>>
  BY <1>2 DEF RateInv, IdealInv, TableInv, Kept, RateOf
<1>3. ASSUME NEW o \in Owners, NEW r \in Requests, Limits!rate_limit(o, r) PROVE RateInv'
  <2> DEFINE k == <<o, Limits!ClassOf(r.method, r.path)>>
  <2>1. k \in Limits!Keys /\ RateOf(k) = Limits!configured_rate(Limits!ClassOf(r.method, r.path))
    BY ClassOfRequest DEF Limits!Keys, RateOf
  <2>2. clock' = clock
    BY <1>3 DEF Limits!rate_limit
  <2>3. \/ UNCHANGED <<buckets, poisoned, ideal, notBefore>>
        \/ Limits!Refuse(k, buckets)
        \/ Limits!take(k, RateOf(k))
    BY <1>3, <2>1, Zenon DEF Limits!rate_limit
  <2> HIDE DEF k
  <2>4. CASE Limits!take(k, RateOf(k))
    BY <2>1, <2>2, <2>4, RateTake
  <2> QED  BY <1>2, <2>2, <2>3, <2>4 DEF Limits!Refuse
<1>4. CASE UNCHANGED Limits!vars
  BY <1>2, <1>4 DEF Limits!vars
<1> QED  BY <1>1, <1>3, <1>4 DEF Limits!Next

\* For any rates, identities and size of the table: dropping a bucket and making a new
\* one admits nobody more often than a bucket that is never dropped (NoAllowanceTwice).
THEOREM NoAllowanceIsTwice ==
  ASSUME Limits!RateBounds
  PROVE  Limits!Spec => []Limits!NoAllowanceTwice
<1>1. RateInv => Limits!NoAllowanceTwice
  BY DEF RateInv, IdealInv, Limits!NoAllowanceTwice
<1> QED  BY RateInit, RateStep, <1>1, PTL DEF Limits!Spec

\* Refilling in between changes nothing.
LEMMA HoldsRefilled ==
  ASSUME NEW b \in Bucket, NEW rate \in RateSet, NEW now \in Nat, NEW t \in Nat,
         b.updated <= now, now <= t
  PROVE  Holds(Limits!Refilled(b, rate, now), rate, t) = Holds(b, rate, t)
<1> DEFINE p == (now - b.updated) * rate.refill
           q == (t - now) * rate.refill
           r == (t - b.updated) * rate.refill
           u == Limits!Refilled(b, rate, now)
<1>1. b.tokens \in Int /\ b.updated \in Nat /\ rate.refill \in Nat /\ rate.burst \in Nat
  BY DEF Bucket, RateSet
<1>2. r = p + q /\ p \in Nat /\ q \in Nat
  <2>2. now - b.updated \in Nat /\ t - now \in Nat
        /\ t - b.updated = (now - b.updated) + (t - now)
    BY <1>1
  <2> DEFINE x == now - b.updated
             y == t - now
  <2>3. x \in Nat /\ y \in Nat /\ t - b.updated = x + y
    BY <2>2
  <2>4. p = x * rate.refill /\ q = y * rate.refill
    OBVIOUS
  <2> HIDE DEF x, y
  <2>5. (x + y) * rate.refill = x * rate.refill + y * rate.refill
        /\ x * rate.refill \in Nat /\ y * rate.refill \in Nat
    BY <1>1, <2>3
  <2> QED  BY <2>3, <2>4, <2>5, Zenon
<1>3. u.updated = now /\ u.tokens = Limits!AtMost(b.tokens + p, rate.burst)
  BY DEF Limits!Refilled
<1>4. /\ Holds(b, rate, t) = Limits!AtMost(b.tokens + r, rate.burst)
      /\ Holds(u, rate, t) = Limits!AtMost(u.tokens + q, rate.burst)
  BY <1>3 DEF Holds, Limits!Refilled
<1> HIDE DEF p, q, r, u
<1>5. Holds(u, rate, t) = Holds(b, rate, t)
  BY <1>1, <1>2, <1>3, <1>4 DEF Limits!AtMost
<1> QED  BY <1>5 DEF u

\* A quotient rounded up.
LEMMA RoundedUp ==
  ASSUME NEW n \in Nat, NEW d \in Nat \ {0}
  PROVE  Limits!CeilDiv(n, d) \in Nat /\ Limits!CeilDiv(n, d) * d >= n
<1> DEFINE x == n + d - 1
<1>1. x \in Nat /\ x = n + (d - 1)
  OBVIOUS
<1>2. \A m \in Nat : m \div d \in Nat
  OBVIOUS
<1>3. \A m \in Nat : m = d * (m \div d) + (m % d)
  OBVIOUS
<1>4. \A m \in Nat : m % d \in 0 .. d - 1
  OBVIOUS
<1> QED  BY <1>1, <1>2, <1>3, <1>4 DEF Limits!CeilDiv

\* Bucket::take rounds the wait up: past it there is a token.
LEMMA WaitIsEnough ==
  ASSUME Second \in Nat \ {0}, Token \in Nat \ {0},
         NEW b \in Bucket, NEW rate \in RateSet, rate.refill > 0, rate.burst >= Token,
         b.tokens < Token, NEW t \in Nat, t >= b.updated + Limits!Retry(b, rate) * Second
  PROVE  Holds(b, rate, t) >= Token
<1>1. b.tokens \in Int /\ b.updated \in Nat /\ rate.refill \in Nat \ {0} /\ rate.burst \in Nat
  BY DEF Bucket, RateSet
<1> DEFINE n == Token - b.tokens
           d == rate.refill * Second
           w == Limits!Retry(b, rate)
<1>2. n \in Nat /\ d \in Nat \ {0} /\ w = Limits!CeilDiv(n, d)
  BY <1>1 DEF Limits!Retry
<1>3. w \in Nat /\ w * d >= n
  BY <1>2, RoundedUp
<1>4. w * d = (w * Second) * rate.refill
  BY <1>1, <1>3
<1> DEFINE e == t - b.updated
           g == w * Second
<1>5. e \in Int /\ g \in Nat /\ e >= g
  BY <1>1, <1>3
<1> HIDE DEF w, d, e, g
<1>6. e * rate.refill >= g * rate.refill /\ e * rate.refill \in Int
  BY <1>1, <1>5
<1>7. e * rate.refill >= n
  BY <1>2, <1>3, <1>4, <1>6 DEF g
<1>8. Holds(b, rate, t) = Limits!AtMost(b.tokens + e * rate.refill, rate.burst)
  BY DEF Holds, Limits!Refilled, e
<1> QED  BY <1>1, <1>6, <1>7, <1>8 DEF Limits!AtMost

\* From a time on, as far as the bucket goes, there is a token.
Serves(b, rate, when) == \A t \in Nat : t >= when /\ t >= b.updated => Holds(b, rate, t) >= Token

\* Past the time a caller was told to wait for, its bucket has a token.
RetryInv ==
  /\ clock \in Nat /\ clock <= MaxClock
  /\ notBefore \in [Limits!Keys -> Int]
  /\ \A k \in DOMAIN buckets :
       notBefore[k] <= MaxClock => Serves(buckets[k], RateOf(k), notBefore[k])
  /\ Limits!RetryAfterIsEnough

\* Nobody has been told to wait.
LEMMA RetryInit == Limits!RateBounds /\ Limits!Init => RetryInv
BY DEF Limits!RateBounds, Limits!Init, Limits!NoAnswer, RetryInv,
   Limits!RetryAfterIsEnough

\* An answer that is not a 429 with a time, and leaves the times to wait alone.
LEMMA RetryQuiet ==
  ASSUME RetryInv, clock' = clock, notBefore' = notBefore, last'.what # "retry",
         DOMAIN buckets' \subseteq DOMAIN buckets,
         \A k \in DOMAIN buckets' : buckets'[k] = buckets[k]
  PROVE  RetryInv'
BY DEF RetryInv, Limits!RetryAfterIsEnough, Serves, RateOf

\* Refilling in between does not delay a bucket.
LEMMA RefilledServes ==
  ASSUME NEW b \in Bucket, NEW rate \in RateSet, NEW now \in Nat, b.updated <= now,
         NEW when \in Int, Serves(b, rate, when)
  PROVE  Serves(Limits!Refilled(b, rate, now), rate, when)
<1> SUFFICES ASSUME NEW t \in Nat, t >= when, t >= Limits!Refilled(b, rate, now).updated
             PROVE  Holds(Limits!Refilled(b, rate, now), rate, t) >= Token
  BY DEF Serves
<1>1. t >= now
  BY DEF Limits!Refilled
<1>2. t >= b.updated
  BY <1>1 DEF Bucket
<1>3. Holds(b, rate, t) >= Token
  BY <1>2 DEF Serves
<1> QED  BY <1>1, <1>3, HoldsRefilled

\* A call on a tracked bucket: it is served, or told how long to wait.
LEMMA RetryTaken ==
  ASSUME Limits!RateBounds, Limits!LimitsAdmit, RateInv, RetryInv, NEW k \in DOMAIN buckets,
         RateOf(k) # Limits!Disabled,
         Limits!TakeFrom(k, buckets, Limits!Refilled(buckets[k], RateOf(k), clock), RateOf(k)),
         clock' = clock
  PROVE  RetryInv'
<1> DEFINE bucket == Limits!Refilled(buckets[k], RateOf(k), clock)
           rate == RateOf(k)
<1>1. /\ k \in Limits!Keys /\ rate \in RateSet /\ rate.burst >= Token /\ rate.refill > 0
      /\ Token \in Nat \ {0} /\ Second \in Nat \ {0} /\ MaxClock \in Nat
  BY RatesOf DEF RateInv, TableInv, Limits!LimitsAdmit, RateOf, Limits!Keys, Limits!RateBounds
<1>2. /\ buckets[k] \in Bucket /\ buckets[k].updated <= clock /\ clock \in Nat /\ clock <= MaxClock
      /\ notBefore \in [Limits!Keys -> Int]
      /\ notBefore[k] <= MaxClock => Serves(buckets[k], rate, notBefore[k])
  BY DEF RateInv, TableInv, RetryInv
<1>3. bucket \in Bucket /\ bucket.updated = clock
  BY <1>1, <1>2, HoldsNow
<1>4. notBefore[k] <= MaxClock => Serves(bucket, rate, notBefore[k])
  BY <1>1, <1>2, RefilledServes
<1>5. bucket.tokens \in Int /\ bucket.tokens = Holds(buckets[k], rate, clock)
  BY <1>3 DEF Bucket, Holds
<1> HIDE DEF bucket
<1>6. CASE Limits!Allow(k, buckets, bucket, rate)
  <2>1. /\ buckets' = Limits!insert(buckets, k, Limits!Spend(bucket))
        /\ notBefore' = [notBefore EXCEPT ![k] = MaxClock + 1] /\ last'.what = "allow"
    BY <1>6 DEF Limits!Allow, Limits!Answer
  <2>2. /\ DOMAIN buckets' = DOMAIN buckets
        /\ \A x \in DOMAIN buckets : x # k => buckets'[x] = buckets[x]
    BY <2>1 DEF Limits!insert
  <2>3. /\ notBefore' \in [Limits!Keys -> Int] /\ ~(notBefore'[k] <= MaxClock)
        /\ \A x \in Limits!Keys : x # k => notBefore'[x] = notBefore[x]
    BY <1>1, <1>2, <2>1
  <2>4. DOMAIN buckets \subseteq Limits!Keys
    BY DEF RateInv, TableInv
  <2>5. ASSUME NEW x \in DOMAIN buckets, notBefore'[x] <= MaxClock
        PROVE  Serves(buckets'[x], RateOf(x), notBefore'[x])
    BY <2>2, <2>3, <2>4, <2>5 DEF RetryInv
  <2> QED  BY <1>2, <2>1, <2>2, <2>3, <2>5 DEF RetryInv, Limits!RetryAfterIsEnough, Serves, RateOf
<1>7. CASE Limits!Panic(k, buckets, bucket, rate)
  <2>1. /\ buckets' = Limits!insert(buckets, k, bucket)
        /\ notBefore' = notBefore /\ last'.what = "panic"
    BY <1>7 DEF Limits!Panic, Limits!Answer
  <2>2. /\ DOMAIN buckets' = DOMAIN buckets /\ buckets'[k] = bucket
        /\ \A x \in DOMAIN buckets : x # k => buckets'[x] = buckets[x]
    BY <2>1 DEF Limits!insert
  <2>3. ASSUME NEW x \in DOMAIN buckets, notBefore[x] <= MaxClock
        PROVE  Serves(buckets'[x], RateOf(x), notBefore[x])
    BY <1>4, <2>2, <2>3 DEF RetryInv
  <2> QED  BY <1>2, <2>1, <2>2, <2>3 DEF RetryInv, Limits!RetryAfterIsEnough, Serves, RateOf
<1>8. CASE Limits!Deny(k, buckets, bucket, rate)
  <2> DEFINE until == clock + Limits!Retry(bucket, rate) * Second
  <2>1. /\ bucket.tokens < Token
        /\ buckets' = Limits!insert(buckets, k, bucket)
        /\ notBefore' = [notBefore EXCEPT ![k] = Limits!AtMost(notBefore[k], until)]
        /\ last'.due = (notBefore[k] <= clock) /\ last'.what = "retry"
    BY <1>8 DEF Limits!Deny, Limits!Answer
  <2>2. /\ DOMAIN buckets' = DOMAIN buckets /\ buckets'[k] = bucket
        /\ \A x \in DOMAIN buckets : x # k => buckets'[x] = buckets[x]
    BY <2>1 DEF Limits!insert
  <2>3. ~(notBefore[k] <= clock)
    <3> SUFFICES ASSUME notBefore[k] <= clock PROVE FALSE
      OBVIOUS
    <3>1. Serves(buckets[k], rate, notBefore[k])
      BY <1>1, <1>2
    <3>2. Holds(buckets[k], rate, clock) >= Token
      BY <1>2, <3>1 DEF Serves
    <3> QED  BY <1>1, <1>5, <2>1, <3>2
  <2>4. until \in Int /\ Serves(bucket, rate, until)
    <3>1. Limits!Retry(bucket, rate) \in Nat
      <4>1. Token - bucket.tokens \in Nat /\ rate.refill * Second \in Nat \ {0}
        BY <1>1, <1>5, <2>1 DEF RateSet
      <4> QED  BY <4>1, RoundedUp DEF Limits!Retry
    <3>2. until \in Int
      BY <1>1, <1>2, <3>1
    <3>3. ASSUME NEW t \in Nat, t >= until PROVE Holds(bucket, rate, t) >= Token
      BY <1>1, <1>3, <2>1, <3>3, WaitIsEnough
    <3> QED  BY <3>2, <3>3 DEF Serves
  <2> HIDE DEF until
  <2>5. /\ notBefore' \in [Limits!Keys -> Int]
        /\ notBefore'[k] = Limits!AtMost(notBefore[k], until)
        /\ \A x \in Limits!Keys : x # k => notBefore'[x] = notBefore[x]
    BY <1>1, <1>2, <2>1, <2>4 DEF Limits!AtMost
  <2>6. notBefore'[k] <= MaxClock => Serves(bucket, rate, notBefore'[k])
    BY <1>4, <2>4, <2>5 DEF Limits!AtMost
  <2>7. DOMAIN buckets \subseteq Limits!Keys
    BY DEF RateInv, TableInv
  <2>8. ASSUME NEW x \in DOMAIN buckets, notBefore'[x] <= MaxClock
        PROVE  Serves(buckets'[x], RateOf(x), notBefore'[x])
    BY <2>2, <2>5, <2>6, <2>7, <2>8 DEF RetryInv
  <2> QED
    BY <1>2, <2>1, <2>2, <2>3, <2>5, <2>8, Zenon
    DEF RetryInv, Limits!RetryAfterIsEnough, Serves, RateOf
<1> QED  BY <1>6, <1>7, <1>8 DEF Limits!TakeFrom, bucket

\* Buckets::take: a new bucket is full, so it serves.
LEMMA RetryTake ==
  ASSUME Limits!RateBounds, Limits!LimitsAdmit, RateInv, RetryInv, NEW k \in Limits!Keys,
         RateOf(k) # Limits!Disabled, Limits!take(k, RateOf(k)), clock' = clock
  PROVE  RetryInv'
<1> DEFINE table == IF Limits!Cardinality(DOMAIN buckets) >= MaxTracked
                      THEN Limits!Evict(buckets, clock) ELSE buckets
<1>1. DOMAIN table \subseteq DOMAIN buckets /\ \A x \in DOMAIN table : table[x] = buckets[x]
  BY DEF Limits!Evict, Limits!Restrict
<1>2. CASE k \in DOMAIN buckets
  BY <1>2, RetryTaken DEF Limits!take
<1>3. CASE k \notin DOMAIN buckets /\ Limits!Cardinality(DOMAIN table) >= MaxTracked
  <2>1. Limits!Refuse(k, table)
    BY <1>3, Zenon DEF Limits!take
  <2> HIDE DEF table
  <2> QED  BY <1>1, <2>1, RetryQuiet DEF Limits!Refuse, Limits!Answer
<1>4. CASE k \notin DOMAIN buckets /\ ~(Limits!Cardinality(DOMAIN table) >= MaxTracked)
  <2> DEFINE bucket == Limits!Full(RateOf(k), clock)
  <2>1. Limits!TakeFrom(k, table, bucket, RateOf(k))
    BY <1>4, Zenon DEF Limits!take
  <2>2. bucket.tokens >= Token /\ bucket.tokens \in Nat /\ Token \in Nat /\ MaxClock \in Nat
    <3>1. RateOf(k).burst >= Token /\ RateOf(k).burst \in Nat
      BY RatesOf DEF Limits!LimitsAdmit, RateOf, Limits!Keys, RateSet
    <3> QED  BY <3>1 DEF Limits!Full, Limits!RateBounds
  <2> HIDE DEF bucket, table
  <2>3. Limits!Allow(k, table, bucket, RateOf(k))
    BY <2>1, <2>2 DEF Limits!TakeFrom, Limits!Deny, Limits!Panic
  <2>4. /\ buckets' = Limits!insert(table, k, Limits!Spend(bucket))
        /\ notBefore' = [notBefore EXCEPT ![k] = MaxClock + 1] /\ last'.what = "allow"
    BY <2>3 DEF Limits!Allow, Limits!Answer
  <2>5. /\ DOMAIN buckets' = DOMAIN table \cup {k}
        /\ \A x \in DOMAIN table : x # k => buckets'[x] = buckets[x]
    BY <1>1, <2>4 DEF Limits!insert
  <2>6. /\ notBefore' \in [Limits!Keys -> Int] /\ ~(notBefore'[k] <= MaxClock)
        /\ \A x \in Limits!Keys : x # k => notBefore'[x] = notBefore[x]
    BY <2>2, <2>4 DEF RetryInv
  <2>7. DOMAIN table \subseteq Limits!Keys
    BY <1>1 DEF RateInv, TableInv
  <2>8. ASSUME NEW x \in DOMAIN buckets', notBefore'[x] <= MaxClock
        PROVE  Serves(buckets'[x], RateOf(x), notBefore'[x])
    BY <1>1, <2>5, <2>6, <2>7, <2>8 DEF RetryInv
  <2>9. clock' \in Nat /\ clock' <= MaxClock
    BY DEF RetryInv
  <2> QED
    BY <2>4, <2>6, <2>8, <2>9, Zenon DEF RetryInv, Limits!RetryAfterIsEnough, Serves, RateOf
<1> QED  BY <1>2, <1>3, <1>4

\* Every step of RateLimit keeps the invariant of RetryAfterIsEnough.
LEMMA RetryStep ==
  ASSUME Limits!RateBounds, Limits!LimitsAdmit, RateInv, RetryInv, [Limits!Next]_(Limits!vars)
  PROVE  RetryInv'
<1>1. CASE Limits!Tick
  <2>1. /\ clock' \in Nat /\ clock' <= MaxClock
        /\ buckets' = buckets /\ notBefore' = notBefore /\ last' = last
    BY <1>1 DEF Limits!Tick, RetryInv, Limits!RateBounds
  <2> QED  BY <2>1 DEF RetryInv, Limits!RetryAfterIsEnough, Serves, RateOf
<1>2. ASSUME NEW o \in Owners, NEW r \in Requests, Limits!rate_limit(o, r) PROVE RetryInv'
  <2> DEFINE k == <<o, Limits!ClassOf(r.method, r.path)>>
  <2>1. k \in Limits!Keys /\ RateOf(k) = Limits!configured_rate(Limits!ClassOf(r.method, r.path))
    BY ClassOfRequest DEF Limits!Keys, RateOf
  <2>2. clock' = clock
    BY <1>2 DEF Limits!rate_limit
  <2>3. \/ UNCHANGED <<buckets, poisoned, ideal, notBefore>> /\ Limits!Answer(k, "off", 200)
        \/ Limits!Refuse(k, buckets)
        \/ Limits!take(k, RateOf(k)) /\ RateOf(k) # Limits!Disabled
    BY <1>2, <2>1, Zenon DEF Limits!rate_limit
  <2> HIDE DEF k
  <2>4. CASE Limits!take(k, RateOf(k)) /\ RateOf(k) # Limits!Disabled
    BY <2>1, <2>2, <2>4, RetryTake
  <2>5. CASE Limits!Refuse(k, buckets)
    BY <2>2, <2>5, RetryQuiet DEF Limits!Refuse, Limits!Answer
  <2>6. CASE UNCHANGED <<buckets, poisoned, ideal, notBefore>> /\ Limits!Answer(k, "off", 200)
    BY <2>2, <2>6, RetryQuiet DEF Limits!Answer
  <2> QED  BY <2>3, <2>4, <2>5, <2>6
<1>3. CASE UNCHANGED Limits!vars
  BY <1>3 DEF Limits!vars, RetryInv, Limits!RetryAfterIsEnough, Serves, RateOf
<1> QED  BY <1>1, <1>2, <1>3 DEF Limits!Next

\* For any rates that admit a call at all: who waits out the Retry-After of a 429 and
\* asks again is not told to wait again (RetryAfterIsEnough).
THEOREM RetryAfterSuffices ==
  ASSUME Limits!RateBounds, Limits!LimitsAdmit
  PROVE  Limits!Spec => []Limits!RetryAfterIsEnough
<1>1. RetryInv => Limits!RetryAfterIsEnough
  BY DEF RetryInv
<1> QED  BY RateInit, RateStep, RetryInit, RetryStep, <1>1, PTL DEF Limits!Spec

\* For any such rates: dropping buckets hands out no allowance twice, and a Retry-After
\* is long enough (AllowanceIsKept).
THEOREM AllowanceKept ==
  ASSUME Limits!RateBounds, Limits!LimitsAdmit
  PROVE  Limits!Spec => []Limits!AllowanceIsKept
<1>1. Limits!NoAllowanceTwice /\ Limits!RetryAfterIsEnough => Limits!AllowanceIsKept
  BY DEF Limits!AllowanceIsKept
<1> QED  BY <1>1, NoAllowanceIsTwice, RetryAfterSuffices, PTL

-----------------------------------------------------------------------------
(* CellTable: who owns a slot.                                             *)

CONSTANTS Threads, Coordinates, Home(_), CellSlots, CellProbes, MaxCharges, Free
VARIABLES keys, counts, overflow, at, key, index, probes, charged, spilled

Cells == INSTANCE CellTable

\* The slot a coordinate comes to after j steps.
Probe(k, j) == IF Home(k) + j < CellSlots THEN Home(k) + j ELSE Home(k) + j - CellSlots

\* Every slot a coordinate comes to before its j-th belongs to another one.
Passed(k, j) == \A i \in 0 .. j - 1 : keys[Probe(k, i)] \notin {Free, k}

\* How many slots a thread has passed.
Steps(t) == CellProbes - probes[t]

\* A thread that looks for its slot has passed only slots of others, and a claimed
\* slot was reached the same way.
CellInv ==
  /\ keys \in [Cells!Slots -> Coordinates \cup {Free}]
  /\ at \in [Threads -> {"idle", "load", "claim", "add", "spill"}]
  /\ key \in [Threads -> Coordinates \cup {Free}]
  /\ index \in [Threads -> Cells!Slots]
  /\ probes \in [Threads -> Int]
  /\ \A t \in Threads : at[t] \in {"load", "claim"} =>
       /\ key[t] \in Coordinates /\ probes[t] \in 1 .. CellProbes
       /\ index[t] = Probe(key[t], Steps(t)) /\ Passed(key[t], Steps(t))
  /\ \A s \in Cells!Slots : keys[s] # Free =>
       \E j \in 0 .. CellProbes - 1 : s = Probe(keys[s], j) /\ Passed(keys[s], j)

\* One slot on, round the end of the table.
LEMMA NextSlot ==
  ASSUME Cells!CellBounds, NEW s \in Cells!Slots
  PROVE  (s + 1) % CellSlots = IF s + 1 < CellSlots THEN s + 1 ELSE 0
<1>1. CellSlots \in Nat \ {0} /\ s \in 0 .. CellSlots - 1
  BY DEF Cells!CellBounds, Cells!Slots
<1>2. CASE s + 1 < CellSlots
  BY <1>1, <1>2
<1>3. CASE s + 1 = CellSlots
  BY <1>1, <1>3
<1> QED  BY <1>1, <1>2, <1>3

\* Probing stays in the table.
LEMMA ProbeSlots ==
  ASSUME Cells!CellBounds, NEW k \in Coordinates, NEW j \in 0 .. CellProbes
  PROVE  Probe(k, j) \in Cells!Slots
BY DEF Cells!CellBounds, Cells!Slots, Probe

\* One step of a probe.
LEMMA ProbeNext ==
  ASSUME Cells!CellBounds, NEW k \in Coordinates, NEW j \in 0 .. CellProbes - 1
  PROVE  (Probe(k, j) + 1) % CellSlots = Probe(k, j + 1)
<1>1. Probe(k, j) \in Cells!Slots
  BY ProbeSlots DEF Cells!CellBounds
<1>2. (Probe(k, j) + 1) % CellSlots =
        IF Probe(k, j) + 1 < CellSlots THEN Probe(k, j) + 1 ELSE 0
  BY <1>1, NextSlot
<1> QED  BY <1>1, <1>2 DEF Cells!CellBounds, Cells!Slots, Probe

\* The table starts empty and no thread is in it.
LEMMA CellInit == Cells!CellBounds /\ Cells!Init => CellInv
BY DEF Cells!CellBounds, Cells!Slots, Cells!Init, CellInv

\* A slot once claimed stays claimed, so what was passed stays passed.
LEMMA StaysPassed ==
  ASSUME Cells!CellBounds, CellInv, NEW k \in Coordinates, NEW j \in 0 .. CellProbes,
         \A s \in Cells!Slots : keys[s] # Free => keys'[s] = keys[s],
         Passed(k, j)
  PROVE  Passed(k, j)'
<1>1. \A i \in 0 .. j - 1 : i \in 0 .. CellProbes
  BY DEF Cells!CellBounds
<1> QED  BY <1>1, ProbeSlots, Zenon DEF Passed

\* The thread of the last slot it looked at goes on.
LEMMA CellAdvance ==
  ASSUME Cells!CellBounds, CellInv, NEW t \in Threads, at[t] \in {"load", "claim"},
         keys[index[t]] \notin {Free, key[t]},
         Cells!Advance(t), UNCHANGED <<keys, key>>
  PROVE  CellInv'
<1>0. /\ keys \in [Cells!Slots -> Coordinates \cup {Free}]
      /\ at \in [Threads -> {"idle", "load", "claim", "add", "spill"}]
      /\ index \in [Threads -> Cells!Slots] /\ probes \in [Threads -> Int]
      /\ CellProbes \in Nat /\ CellSlots \in Nat \ {0}
  BY DEF CellInv, Cells!CellBounds
<1> DEFINE k == key[t]
           j == Steps(t)
<1>1. /\ k \in Coordinates /\ j \in 0 .. CellProbes - 1 /\ index[t] = Probe(k, j)
      /\ Passed(k, j) /\ probes[t] = CellProbes - j
  BY <1>0 DEF CellInv, Steps
<1>2. /\ index' = [index EXCEPT ![t] = (index[t] + 1) % CellSlots]
      /\ probes' = [probes EXCEPT ![t] = probes[t] - 1]
      /\ at' = [at EXCEPT ![t] = IF probes[t] = 1 THEN "spill" ELSE "load"]
  BY DEF Cells!Advance
<1> HIDE DEF j
<1>3. index'[t] = Probe(k, j + 1) /\ index'[t] \in Cells!Slots
  BY <1>0, <1>1, <1>2, ProbeNext, ProbeSlots
<1>4. probes'[t] = CellProbes - (j + 1) /\ (at'[t] = "load" => j + 1 < CellProbes)
      /\ at'[t] \in {"load", "spill"}
  BY <1>0, <1>1, <1>2
<1>5. Passed(k, j + 1)
  <2>1. \A i \in 0 .. j : i = j \/ i \in 0 .. j - 1
    BY <1>1
  <2>2. \A i \in 0 .. j : keys[Probe(k, i)] \notin {Free, k}
    BY <1>1, <2>1, Zenon DEF Passed
  <2>3. j + 1 - 1 = j
    BY <1>1
  <2> QED  BY <1>1, <2>2, <2>3 DEF Passed
<1>6. \A u \in Threads : u # t => index'[u] = index[u] /\ probes'[u] = probes[u] /\ at'[u] = at[u]
  BY <1>0, <1>2
<1>7. /\ at' \in [Threads -> {"idle", "load", "claim", "add", "spill"}]
      /\ index' \in [Threads -> Cells!Slots] /\ probes' \in [Threads -> Int]
  BY <1>0, <1>1, <1>2, <1>3
<1>8. ASSUME NEW u \in Threads, at'[u] \in {"load", "claim"}
      PROVE  /\ key'[u] \in Coordinates /\ probes'[u] \in 1 .. CellProbes
             /\ index'[u] = Probe(key'[u], Steps(u)') /\ Passed(key[u], Steps(u))'
  <2>1. CASE u = t
    <3>1. probes'[u] \in 1 .. CellProbes /\ Steps(u)' = j + 1
      BY <1>0, <1>1, <1>4, <1>8, <2>1 DEF Steps
    <3> QED  BY <1>1, <1>3, <1>5, <2>1, <3>1 DEF Passed
  <2>2. CASE u # t
    BY <1>6, <1>8, <2>2 DEF CellInv, Steps, Passed
  <2> QED  BY <2>1, <2>2
<1> QED  BY <1>0, <1>7, <1>8 DEF CellInv, Passed

\* Steps that leave the table, and who looks where in it, alone.
LEMMA CellQuiet ==
  ASSUME Cells!CellBounds, CellInv, UNCHANGED keys,
         at' \in [Threads -> {"idle", "load", "claim", "add", "spill"}],
         key' \in [Threads -> Coordinates \cup {Free}],
         index' \in [Threads -> Cells!Slots], probes' \in [Threads -> Int],
         \A u \in Threads : at'[u] \in {"load", "claim"} =>
           \/ /\ at[u] \in {"load", "claim"}
              /\ key'[u] = key[u] /\ index'[u] = index[u] /\ probes'[u] = probes[u]
           \/ /\ key'[u] \in Coordinates /\ index'[u] = Home(key'[u]) /\ probes'[u] = CellProbes
  PROVE  CellInv'
<1>1. ASSUME NEW u \in Threads, at'[u] \in {"load", "claim"}
      PROVE  /\ key'[u] \in Coordinates /\ probes'[u] \in 1 .. CellProbes
             /\ index'[u] = Probe(key'[u], Steps(u)') /\ Passed(key[u], Steps(u))'
  <2>1. CASE /\ at[u] \in {"load", "claim"}
             /\ key'[u] = key[u] /\ index'[u] = index[u] /\ probes'[u] = probes[u]
    BY <2>1 DEF CellInv, Steps, Passed
  <2>2. CASE key'[u] \in Coordinates /\ index'[u] = Home(key'[u]) /\ probes'[u] = CellProbes
    <3>1. CellProbes \in Nat \ {0} /\ CellSlots \in Nat /\ Home(key'[u]) \in 0 .. CellSlots - 1
      BY <2>2 DEF Cells!CellBounds, Cells!Slots
    <3>2. Steps(u)' = 0
      BY <2>2, <3>1 DEF Steps
    <3>3. Probe(key'[u], 0) = Home(key'[u])
      BY <3>1 DEF Probe
    <3>4. Passed(key[u], Steps(u))'
      BY <3>2 DEF Passed
    <3> QED  BY <2>2, <3>1, <3>2, <3>3, <3>4
  <2> QED  BY <1>1, <2>1, <2>2
<1> QED  BY <1>1 DEF CellInv, Passed

\* The compare_exchange that wins.
LEMMA CellClaimed ==
  ASSUME Cells!CellBounds, CellInv, NEW t \in Threads, at[t] = "claim",
         keys[index[t]] = Free, keys' = [keys EXCEPT ![index[t]] = key[t]],
         at' = [at EXCEPT ![t] = "add"], UNCHANGED <<key, index, probes>>
  PROVE  CellInv'
<1>0. /\ keys \in [Cells!Slots -> Coordinates \cup {Free}]
      /\ at \in [Threads -> {"idle", "load", "claim", "add", "spill"}]
      /\ index \in [Threads -> Cells!Slots] /\ probes \in [Threads -> Int]
      /\ key \in [Threads -> Coordinates \cup {Free}]
      /\ CellProbes \in Nat /\ CellSlots \in Nat \ {0} /\ Free \notin Coordinates
  BY DEF CellInv, Cells!CellBounds
<1>1. /\ key[t] \in Coordinates /\ probes[t] \in 1 .. CellProbes
      /\ index[t] = Probe(key[t], Steps(t)) /\ Passed(key[t], Steps(t))
  BY DEF CellInv
<1>2. \A s \in Cells!Slots : keys[s] # Free => keys'[s] = keys[s]
  BY <1>0, <1>1
<1>3. /\ keys' \in [Cells!Slots -> Coordinates \cup {Free}]
      /\ at' \in [Threads -> {"idle", "load", "claim", "add", "spill"}]
  BY <1>0, <1>1
<1>4. ASSUME NEW k \in Coordinates, NEW j \in 0 .. CellProbes, Passed(k, j) PROVE Passed(k, j)'
  BY <1>2, <1>4, StaysPassed
<1>5. ASSUME NEW u \in Threads, at'[u] \in {"load", "claim"}
      PROVE  /\ key'[u] \in Coordinates /\ probes'[u] \in 1 .. CellProbes
             /\ index'[u] = Probe(key'[u], Steps(u)') /\ Passed(key[u], Steps(u))'
  <2>1. at[u] \in {"load", "claim"}
    BY <1>0, <1>5
  <2>2. /\ key[u] \in Coordinates /\ probes[u] \in 1 .. CellProbes
        /\ index[u] = Probe(key[u], Steps(u)) /\ Passed(key[u], Steps(u))
    BY <2>1 DEF CellInv
  <2>3. Steps(u) \in 0 .. CellProbes /\ Steps(u)' = Steps(u) /\ key'[u] = key[u]
    BY <1>0, <2>2 DEF Steps
  <2>4. Passed(key[u], Steps(u))'
    BY <1>4, <2>2, <2>3 DEF Passed
  <2> QED  BY <2>2, <2>3, <2>4
<1>6. ASSUME NEW s \in Cells!Slots, keys'[s] # Free
      PROVE  \E j \in 0 .. CellProbes - 1 : s = Probe(keys'[s], j) /\ Passed(keys[s], j)'
  <2>1. CASE s = index[t]
    <3>1. keys'[s] = key[t] /\ Steps(t) \in 0 .. CellProbes - 1 /\ Steps(t) \in 0 .. CellProbes
      BY <1>0, <1>1, <2>1 DEF Steps
    <3>2. Steps(t)' = Steps(t) /\ key' = key
      BY DEF Steps
    <3>3. Passed(keys[s], Steps(t))'
      BY <1>1, <1>4, <3>1, <3>2 DEF Passed
    <3> QED  BY <1>1, <2>1, <3>1, <3>2, <3>3
  <2>2. CASE s # index[t]
    <3>1. keys'[s] = keys[s] /\ keys[s] # Free /\ keys[s] \in Coordinates
      BY <1>0, <1>6, <2>2
    <3>2. PICK j \in 0 .. CellProbes - 1 : s = Probe(keys[s], j) /\ Passed(keys[s], j)
      BY <3>1 DEF CellInv
    <3>3. j \in 0 .. CellProbes
      BY <1>0
    <3>4. Passed(keys[s], j)'
      BY <1>4, <3>1, <3>2, <3>3 DEF Passed
    <3> QED  BY <3>1, <3>2, <3>4
  <2> QED  BY <2>1, <2>2
<1> QED  BY <1>0, <1>3, <1>5, <1>6 DEF CellInv

\* Every step of CellTable keeps the invariant.
LEMMA CellStep ==
  ASSUME Cells!CellBounds, CellInv, [Cells!Next]_(Cells!vars)
  PROVE  CellInv'
<1>0. /\ at \in [Threads -> {"idle", "load", "claim", "add", "spill"}]
      /\ index \in [Threads -> Cells!Slots] /\ probes \in [Threads -> Int]
      /\ key \in [Threads -> Coordinates \cup {Free}]
      /\ CellProbes \in Nat /\ \A k \in Coordinates : Home(k) \in Cells!Slots
  BY DEF CellInv, Cells!CellBounds
<1>1. ASSUME NEW t \in Threads, NEW k \in Coordinates, Cells!Begin(t, k) PROVE CellInv'
  BY <1>0, <1>1, CellQuiet DEF Cells!Begin
<1>2. ASSUME NEW t \in Threads, Cells!Load(t) PROVE CellInv'
  <2>1. CASE keys[index[t]] \notin {Free, key[t]} /\ Cells!Advance(t)
    BY <1>2, <2>1, CellAdvance DEF Cells!Load
  <2>2. CASE UNCHANGED <<index, probes>> /\ \E l \in {"add", "claim"} : at' = [at EXCEPT ![t] = l]
    BY <1>0, <1>2, <2>2, CellQuiet DEF Cells!Load
  <2> QED  BY <1>2, <2>1, <2>2 DEF Cells!Load
<1>3. ASSUME NEW t \in Threads, Cells!Claim(t) PROVE CellInv'
  <2>1. CASE keys[index[t]] \notin {Free, key[t]} /\ Cells!Advance(t) /\ UNCHANGED keys
    BY <1>3, <2>1, CellAdvance DEF Cells!Claim
  <2>2. CASE Cells!Found(t) /\ UNCHANGED keys
    BY <1>0, <1>3, <2>2, CellQuiet DEF Cells!Claim, Cells!Found
  <2>3. CASE /\ keys[index[t]] = Free /\ keys' = [keys EXCEPT ![index[t]] = key[t]]
             /\ Cells!Found(t)
    BY <1>3, <2>3, CellClaimed, Zenon DEF Cells!Claim, Cells!Found
  <2> QED  BY <1>3, <2>1, <2>2, <2>3 DEF Cells!Claim
<1>4. ASSUME NEW t \in Threads, Cells!Done(t) PROVE CellInv'
  BY <1>0, <1>4, CellQuiet DEF Cells!Done
<1>5. CASE UNCHANGED Cells!vars
  BY <1>0, <1>5, CellQuiet DEF Cells!vars
<1> QED
  BY <1>1, <1>2, <1>3, <1>4, <1>5 DEF Cells!Next, Cells!Add, Cells!Spill

\* The invariant leaves a coordinate one slot: of two, the later one was passed by way
\* of the earlier one, which would have been taken.
LEMMA CellsApart ==
  ASSUME Cells!CellBounds, CellInv
  PROVE  Cells!OneCellPerCoordinate
<1> SUFFICES ASSUME NEW s \in Cells!Slots, NEW r \in Cells!Slots, keys[s] = keys[r], keys[s] # Free
             PROVE  s = r
  BY DEF Cells!OneCellPerCoordinate
<1>1. PICK i \in 0 .. CellProbes - 1 : s = Probe(keys[s], i) /\ Passed(keys[s], i)
  BY DEF CellInv
<1>2. PICK j \in 0 .. CellProbes - 1 : r = Probe(keys[s], j) /\ Passed(keys[s], j)
  BY DEF CellInv
<1>3. i = j \/ i \in 0 .. j - 1 \/ j \in 0 .. i - 1
  BY DEF Cells!CellBounds
<1> QED  BY <1>1, <1>2, <1>3, Zenon DEF Passed

\* For any number of threads, coordinates and slots: the compare-and-swap of
\* CellTable::slot never gives one coordinate two slots (OneCellPerCoordinate), so
\* no charge is split between two cells.
THEOREM OneCellEach ==
  ASSUME Cells!CellBounds
  PROVE  Cells!Spec => []Cells!OneCellPerCoordinate
<1> QED  BY CellInit, CellStep, CellsApart, PTL DEF Cells!Spec

-----------------------------------------------------------------------------
(* Metrics: the windows of samples, and the queue for the writer's mutex.  *)

CONSTANTS Samples, MaxSamples, Pollers, MinWindow, MaxTime, Arrivals, MaxWrites, Nobody
VARIABLES time, recorded, window, published, told, windowLock, poll, depth, contended,
          writer, writes, waited

Stats == INSTANCE Metrics
  WITH MaxClock <- MaxTime, Writers <- Arrivals, clock <- time, last <- published,
       lock <- windowLock

\* Samples by latency.
Histogram == [Samples -> Nat]
\* What a poll of GET /stats has in hand.
Poll == [at : {"idle", "lock", "copy", "close"}, now : Nat, copied : SUBSET Stats!Indices,
         copy : Histogram]

\* Whoever copies has the mutex, and what it has copied lies between what the window
\* was opened with and what is recorded by now.
Copying(p) ==
  /\ \A us \in Samples : poll[p].copy[us] <= recorded[us]
  /\ poll[p].at = "lock" => poll[p].copied = {}
  /\ poll[p].at \in {"copy", "close"} =>
       /\ windowLock = p
       /\ \A us \in Samples :
            poll[p].at = "close" \/ Stats!bucket_index(us) \in poll[p].copied
              => told[us] <= poll[p].copy[us]

\* The windows closed so far have told what the open one was opened with.
WindowInv ==
  /\ time \in Nat /\ recorded \in Histogram /\ told \in Histogram /\ window.open = told
  /\ \A us \in Samples : told[us] <= recorded[us]
  /\ poll \in [Pollers -> Poll]
  /\ \A p \in Pollers : Copying(p)

\* There are no samples yet and nobody polls.
LEMMA WindowInit == Stats!Init => WindowInv
<1> SUFFICES ASSUME Stats!Init PROVE WindowInv
  OBVIOUS
<1>1. Stats!None \in Histogram /\ \A us \in Samples : Stats!None[us] = 0
  BY DEF Stats!None, Histogram
<1>2. Stats!Idle \in Poll /\ Stats!Idle.at = "idle" /\ Stats!Idle.copy = Stats!None
  BY <1>1 DEF Stats!Idle, Poll
<1>3. /\ time = 0 /\ recorded = Stats!None /\ told = Stats!None /\ window.open = told
      /\ poll = [p \in Pollers |-> Stats!Idle]
  BY DEF Stats!Init
<1> QED  BY <1>1, <1>2, <1>3 DEF WindowInv, Copying

\* A step of one poll: the others stay as they are, and keep the mutex.
LEMMA PollStep ==
  ASSUME WindowInv, NEW p \in Pollers, NEW new \in Poll, poll' = [poll EXCEPT ![p] = new],
         UNCHANGED <<time, recorded, window, told>>,
         \A q \in Pollers : q # p /\ windowLock = q => windowLock' = q,
         \A us \in Samples : new.copy[us] <= recorded[us],
         new.at = "lock" => new.copied = {},
         new.at \in {"copy", "close"} => windowLock' = p,
         new.at \in {"copy", "close"} =>
           \A us \in Samples : new.at = "close" \/ Stats!bucket_index(us) \in new.copied
                                => told[us] <= new.copy[us]
  PROVE  WindowInv'
<1>1. /\ poll' \in [Pollers -> Poll] /\ poll'[p] = new
      /\ \A q \in Pollers : q # p => poll'[q] = poll[q]
  BY DEF WindowInv
<1>2. ASSUME NEW q \in Pollers PROVE Copying(q)'
  <2>1. CASE q = p
    BY <1>1, <2>1, Zenon DEF Copying
  <2>2. CASE q # p
    BY <1>1, <2>2, Zenon DEF WindowInv, Copying
  <2> QED  BY <2>1, <2>2
<1> QED  BY <1>1, <1>2, Zenon DEF WindowInv

\* A poll begins.
LEMMA WindowStats ==
  ASSUME WindowInv, NEW p \in Pollers, Stats!window_stats(p)
  PROVE  WindowInv'
<1> DEFINE new == [Stats!Idle EXCEPT !.at = "lock", !.now = time]
<1>1. Stats!None \in Histogram /\ time \in Nat /\ recorded \in Histogram
  BY DEF WindowInv, Stats!None, Histogram
<1>2. new \in Poll /\ new.at = "lock" /\ new.copied = {} /\ new.copy = Stats!None
  <2> DEFINE none == Stats!None
  <2>1. none \in Histogram /\ new = [[at |-> "idle", now |-> 0, copied |-> {}, copy |-> none]
                                      EXCEPT !.at = "lock", !.now = time]
    BY <1>1, Zenon DEF Stats!Idle
  <2> HIDE DEF none, new
  <2>2. /\ new \in Poll /\ new.at = "lock" /\ new.copied = {} /\ new.copy = none
    BY <1>1, <2>1, Zenon DEF Poll
  <2> QED  BY <2>2 DEF none
<1>3. poll' = [poll EXCEPT ![p] = new] /\ UNCHANGED <<time, recorded, window, told, windowLock>>
  BY DEF Stats!window_stats
<1> HIDE DEF new
<1>4. \A us \in Samples : new.copy[us] <= recorded[us]
  BY <1>1, <1>2 DEF Stats!None, Histogram
<1>5. new.at \notin {"copy", "close"}
  BY <1>2
<1> QED  BY <1>2, <1>3, <1>4, <1>5, PollStep, Zenon

\* A poll gets the mutex, and starts to copy or goes home with the published window.
LEMMA WindowLock ==
  ASSUME Nobody \notin Pollers, WindowInv, NEW p \in Pollers, Stats!Lock(p)
  PROVE  WindowInv'
<1>1. /\ poll[p].at = "lock" /\ windowLock = Nobody /\ UNCHANGED <<time, recorded, window, told>>
      /\ \/ windowLock' = p /\ poll' = [poll EXCEPT ![p].at = "copy"]
         \/ windowLock' = windowLock /\ poll' = [poll EXCEPT ![p] = Stats!Idle]
  BY DEF Stats!Lock
<1>2. /\ poll[p] \in Poll /\ poll[p].copied = {}
      /\ \A us \in Samples : poll[p].copy[us] <= recorded[us]
  BY <1>1 DEF WindowInv, Copying
<1>3. \A q \in Pollers : q # p /\ windowLock = q => windowLock' = q
  BY <1>1
<1>4. CASE windowLock' = p /\ poll' = [poll EXCEPT ![p].at = "copy"]
  <2> DEFINE new == [poll[p] EXCEPT !.at = "copy"]
  <2>1. /\ new \in Poll /\ new.at = "copy" /\ new.copied = {} /\ new.copy = poll[p].copy
    BY <1>2 DEF Poll
  <2>2. poll' = [poll EXCEPT ![p] = new]
    BY <1>4
  <2> HIDE DEF new
  <2> QED  BY <1>1, <1>2, <1>3, <1>4, <2>1, <2>2, PollStep, Zenon
<1>5. CASE windowLock' = windowLock /\ poll' = [poll EXCEPT ![p] = Stats!Idle]
  <2> DEFINE new == Stats!Idle
  <2>1. Stats!None \in Histogram /\ recorded \in Histogram
    BY DEF WindowInv, Stats!None, Histogram
  <2>2. /\ new \in Poll /\ new.at = "idle" /\ new.copy = Stats!None
    BY <2>1 DEF Stats!Idle, Poll
  <2> HIDE DEF new
  <2>3. \A us \in Samples : new.copy[us] <= recorded[us]
    BY <2>1, <2>2 DEF Stats!None, Histogram
  <2>4. new.at # "lock" /\ new.at \notin {"copy", "close"}
    BY <2>2
  <2>5. poll' = [poll EXCEPT ![p] = new]
    BY <1>5 DEF new
  <2> QED  BY <1>1, <1>3, <2>2, <2>3, <2>4, <2>5, PollStep, Zenon
<1> QED  BY <1>1, <1>4, <1>5

\* A poll copies one more bucket, as it is by now.
LEMMA WindowSnapshot ==
  ASSUME WindowInv, NEW p \in Pollers, Stats!snapshot(p)
  PROVE  WindowInv'
<1>1. PICK i \in Stats!Indices :
        poll' = [poll EXCEPT
            ![p].copied = @ \cup {i},
            ![p].copy = [us \in Samples |-> IF us \in Stats!InBucket(i) THEN recorded[us]
                                            ELSE @[us]],
            ![p].at = IF poll[p].copied \cup {i} = Stats!Indices THEN "close" ELSE "copy"]
  BY Zenon DEF Stats!snapshot
<1>2. poll[p].at = "copy" /\ UNCHANGED <<time, recorded, window, told, windowLock>>
  BY Zenon DEF Stats!snapshot
<1>3. /\ poll \in [Pollers -> Poll] /\ poll[p] \in Poll /\ windowLock = p
      /\ recorded \in Histogram
      /\ \A us \in Samples : told[us] <= recorded[us] /\ poll[p].copy[us] <= recorded[us]
      /\ \A us \in Samples : Stats!bucket_index(us) \in poll[p].copied
                               => told[us] <= poll[p].copy[us]
  BY <1>2 DEF WindowInv, Copying
<1> DEFINE copied == poll[p].copied \cup {i}
           copy == [us \in Samples |-> IF us \in Stats!InBucket(i) THEN recorded[us]
                                       ELSE poll[p].copy[us]]
           where == IF copied = Stats!Indices THEN "close" ELSE "copy"
           new == [poll[p] EXCEPT !.copied = copied, !.copy = copy, !.at = where]
<1>4. poll' = [poll EXCEPT ![p] = new]
  BY <1>1, <1>3, Zenon
<1>5. \A us \in Samples :
        copy[us] = IF Stats!bucket_index(us) = i THEN recorded[us] ELSE poll[p].copy[us]
  BY DEF Stats!InBucket
<1>6. copy \in Histogram
  BY <1>3 DEF Histogram, Poll
<1>7. copied \in SUBSET Stats!Indices /\ where \in {"copy", "close"}
  BY <1>3 DEF Poll
<1> HIDE DEF copied, copy, where
<1>8. new \in Poll /\ new.copied = copied /\ new.copy = copy /\ new.at = where
  <2> DEFINE old == poll[p]
  <2>1. old \in Poll /\ new = [old EXCEPT !.copied = copied, !.copy = copy, !.at = where]
    BY <1>3
  <2> HIDE DEF old, new
  <2> QED  BY <1>6, <1>7, <2>1, Zenon DEF Poll
<1> HIDE DEF new
<1>9. \A us \in Samples : copy[us] <= recorded[us]
  BY <1>3, <1>5 DEF Histogram
<1>10. \A us \in Samples : Stats!bucket_index(us) \in copied => told[us] <= copy[us]
  BY <1>3, <1>5 DEF copied
<1>11. \A us \in Samples : where = "close" => Stats!bucket_index(us) \in copied
  BY DEF where, Stats!Indices
<1>12. where # "lock"
  BY <1>7
<1> QED  BY <1>2, <1>3, <1>4, <1>8, <1>9, <1>10, <1>11, <1>12, PollStep, Zenon

\* A poll closes the window with its copy, which the next window opens on.
LEMMA WindowClose ==
  ASSUME Nobody \notin Pollers, WindowInv, NEW p \in Pollers, Stats!Close(p)
  PROVE  WindowInv'
<1> DEFINE copy == poll[p].copy
           delta == [us \in Samples |-> copy[us] - window.open[us]]
<1>1. /\ poll[p].at = "close" /\ told' = [us \in Samples |-> told[us] + delta[us]]
      /\ window' = [opened |-> poll[p].now, open |-> copy]
      /\ windowLock' = Nobody /\ poll' = [poll EXCEPT ![p] = Stats!Idle]
      /\ time' = time /\ recorded' = recorded
  BY Zenon DEF Stats!Close, Stats!Publish
<1>2. /\ poll \in [Pollers -> Poll] /\ poll[p] \in Poll /\ recorded \in Histogram
      /\ told \in Histogram /\ window.open = told /\ time \in Nat /\ Copying(p)
  BY DEF WindowInv
<1>3. copy \in Histogram /\ windowLock = p /\ \A us \in Samples : copy[us] <= recorded[us]
  BY <1>1, <1>2 DEF Poll, Copying
<1>4. window'.open = copy
  BY <1>1
<1> HIDE DEF copy
<1>5. told' = copy
  BY <1>1, <1>2, <1>3 DEF Histogram
<1>6. Stats!None \in Histogram /\ Stats!Idle \in Poll /\ Stats!Idle.at = "idle"
      /\ \A us \in Samples : Stats!Idle.copy[us] <= recorded[us]
  <2>1. Stats!None \in Histogram /\ \A us \in Samples : Stats!None[us] <= recorded[us]
    BY <1>2 DEF Stats!None, Histogram
  <2>2. Stats!Idle \in Poll /\ Stats!Idle.at = "idle" /\ Stats!Idle.copy = Stats!None
    BY <2>1 DEF Stats!Idle, Poll
  <2> QED  BY <2>1, <2>2, Zenon
<1>7. /\ poll' \in [Pollers -> Poll] /\ poll'[p] = Stats!Idle
      /\ \A q \in Pollers : q # p => poll'[q] = poll[q]
  BY <1>1, <1>2, <1>6, Zenon
<1>8. ASSUME NEW q \in Pollers PROVE Copying(q)'
  <2>1. CASE q = p
    BY <1>1, <1>6, <1>7, <2>1 DEF Copying
  <2>2. CASE q # p
    <3>1. Copying(q) /\ poll'[q] = poll[q] /\ windowLock # q
      BY <1>3, <1>7, <2>2 DEF WindowInv
    <3>2. poll[q].at \notin {"copy", "close"}
      BY <3>1, Zenon DEF Copying
    <3> QED  BY <1>1, <3>1, <3>2, Zenon DEF Copying
  <2> QED  BY <2>1, <2>2
<1> QED  BY <1>1, <1>2, <1>3, <1>4, <1>5, <1>7, <1>8, Zenon DEF WindowInv

\* A request ends and its latency is recorded, whoever is copying.
LEMMA WindowRecord ==
  ASSUME WindowInv, NEW sample \in Samples, Stats!record(sample)
  PROVE  WindowInv'
<1>1. /\ recorded' = [recorded EXCEPT ![sample] = @ + 1]
      /\ UNCHANGED <<time, window, told, windowLock, poll>>
  BY Zenon DEF Stats!record
<1>2. /\ recorded' \in Histogram
      /\ \A us \in Samples : \A n \in Nat : n <= recorded[us] => n <= recorded'[us]
  BY <1>1 DEF WindowInv, Histogram
<1>3. \A us \in Samples : told[us] \in Nat /\ \A p \in Pollers : poll[p].copy[us] \in Nat
  BY DEF WindowInv, Histogram, Poll
<1>4. ASSUME NEW p \in Pollers PROVE Copying(p)'
  <2>1. Copying(p) /\ poll' = poll /\ windowLock' = windowLock /\ told' = told
    BY <1>1 DEF WindowInv
  <2> QED  BY <1>2, <1>3, <2>1, Zenon DEF Copying
<1> QED  BY <1>1, <1>2, <1>3, <1>4, Zenon DEF WindowInv

\* Every step of Metrics keeps the invariant of the windows.
LEMMA WindowStep ==
  Nobody \notin Pollers /\ WindowInv /\ [Stats!Next]_(Stats!vars) => WindowInv'
<1> SUFFICES ASSUME Nobody \notin Pollers, WindowInv, [Stats!Next]_(Stats!vars) PROVE WindowInv'
  OBVIOUS
<1>1. CASE Stats!Tick
  <2>1. /\ time' = time + 1 /\ UNCHANGED <<recorded, window, told, windowLock, poll>>
    BY <1>1, Zenon DEF Stats!Tick
  <2>2. time' \in Nat
    BY <2>1 DEF WindowInv
  <2> QED  BY <2>1, <2>2, Zenon DEF WindowInv, Copying
<1>2. CASE UNCHANGED Stats!windowVars
  <2>1. UNCHANGED <<time, recorded, window, told, windowLock, poll>>
    BY <1>2 DEF Stats!windowVars
  <2> QED  BY <2>1, Zenon DEF WindowInv, Copying
<1>3. ASSUME NEW w \in Arrivals,
             \/ Stats!enter_write_queue(w) \/ Stats!Acquire(w)
             \/ Stats!leave_write_queue(w) \/ Stats!Release(w)
      PROVE  UNCHANGED Stats!windowVars
  BY <1>3, Zenon DEF Stats!enter_write_queue, Stats!Acquire, Stats!leave_write_queue, Stats!Release
<1> QED
  BY <1>1, <1>2, <1>3, WindowRecord, WindowStats, WindowLock, WindowSnapshot, WindowClose, Zenon
  DEF Stats!Next, Stats!vars

\* For any number of polls and samples: whatever is recorded while window_stats copies
\* the histogram, each sample is told by one closed window at most and by the open one
\* otherwise (EverySampleInOneWindow).
THEOREM WindowsPartition ==
  ASSUME Stats!MetricsBounds
  PROVE  Stats!Spec => []Stats!EverySampleInOneWindow
<1>1. WindowInv => Stats!EverySampleInOneWindow
  BY DEF WindowInv, Stats!EverySampleInOneWindow
<1>2. Nobody \notin Pollers
  BY DEF Stats!MetricsBounds
<1> QED  BY <1>1, <1>2, WindowInit, WindowStep, PTL DEF Stats!Spec

\* The writers that have arrived and not yet left the queue.
Queued == {w \in Arrivals : writer[w] \in {"arrived", "acquired"}}

\* The depth counts them.
QueueInv ==
  /\ writer \in [Arrivals -> {"idle", "arrived", "acquired", "holding"}]
  /\ depth = Cardinality(Queued)
  /\ contended \in Nat /\ waited \in Nat /\ contended <= waited

\* The queue starts empty.
LEMMA QueueInit == Stats!Init => QueueInv
<1> SUFFICES ASSUME Stats!Init PROVE QueueInv
  OBVIOUS
<1>1. writer = [w \in Arrivals |-> "idle"] /\ depth = 0 /\ contended = 0 /\ waited = 0
  BY Zenon DEF Stats!Init
<1>2. Queued = {}
  BY <1>1 DEF Queued
<1> QED  BY <1>1, <1>2, FS_EmptySet DEF QueueInv

\* A writer arrives; where the depth is not zero, another one is there.
LEMMA QueueEnter ==
  ASSUME IsFiniteSet(Arrivals), QueueInv, NEW w \in Arrivals, Stats!enter_write_queue(w)
  PROVE  QueueInv'
<1>1. /\ writer[w] = "idle" /\ writer' = [writer EXCEPT ![w] = "arrived"]
      /\ depth' = depth + 1
      /\ contended' = IF depth > 0 THEN contended + 1 ELSE contended
      /\ waited' = IF Stats!Busy # {} THEN waited + 1 ELSE waited
  BY Zenon DEF Stats!enter_write_queue
<1>2. w \notin Queued /\ Queued' = Queued \cup {w} /\ IsFiniteSet(Queued)
  BY <1>1, FS_Subset DEF QueueInv, Queued
<1>3. Cardinality(Queued') = Cardinality(Queued) + 1 /\ Cardinality(Queued) \in Nat
  BY <1>2, FS_AddElement, FS_CardinalityType, Zenon
<1>4. depth > 0 => Stats!Busy # {}
  <2> SUFFICES ASSUME depth > 0 PROVE Stats!Busy # {}
    OBVIOUS
  <2>1. Queued # {}
    BY FS_EmptySet DEF QueueInv
  <2> QED  BY <2>1 DEF Queued, Stats!Busy
<1> QED  BY <1>1, <1>3, <1>4 DEF QueueInv

\* A writer that has the mutex leaves the queue.
LEMMA QueueLeave ==
  ASSUME IsFiniteSet(Arrivals), QueueInv, NEW w \in Arrivals, Stats!leave_write_queue(w)
  PROVE  QueueInv'
<1>1. /\ writer[w] = "acquired" /\ writer' = [writer EXCEPT ![w] = "holding"]
      /\ depth' = depth - 1 /\ contended' = contended /\ waited' = waited
  BY Zenon DEF Stats!leave_write_queue
<1>2. w \in Queued /\ Queued' = Queued \ {w} /\ IsFiniteSet(Queued)
  BY <1>1, FS_Subset DEF QueueInv, Queued
<1>3. Cardinality(Queued') = Cardinality(Queued) - 1 /\ Cardinality(Queued) \in Nat
  BY <1>2, FS_RemoveElement, FS_CardinalityType, Zenon
<1> QED  BY <1>1, <1>3 DEF QueueInv

\* Steps that neither enter nor leave the queue.
LEMMA QueueQuiet ==
  ASSUME QueueInv, UNCHANGED <<depth, contended, waited>>,
         writer' \in [Arrivals -> {"idle", "arrived", "acquired", "holding"}],
         \A w \in Arrivals : writer'[w] \in {"arrived", "acquired"}
                               <=> writer[w] \in {"arrived", "acquired"}
  PROVE  QueueInv'
<1>1. Queued' = Queued
  BY Zenon DEF Queued
<1> QED  BY <1>1, Zenon DEF QueueInv

\* Every step of Metrics keeps the invariant of the queue.
LEMMA QueueStep ==
  IsFiniteSet(Arrivals) /\ QueueInv /\ [Stats!Next]_(Stats!vars) => QueueInv'
<1> SUFFICES ASSUME IsFiniteSet(Arrivals), QueueInv, [Stats!Next]_(Stats!vars) PROVE QueueInv'
  OBVIOUS
<1>1. ASSUME UNCHANGED Stats!queueVars PROVE QueueInv'
  <2>1. UNCHANGED <<depth, contended, waited, writer>>
    BY <1>1 DEF Stats!queueVars
  <2> QED  BY <2>1, Zenon DEF QueueInv, Queued
<1>2. ASSUME NEW w \in Arrivals, Stats!Acquire(w) PROVE QueueInv'
  <2>1. /\ writer[w] = "arrived" /\ writer' = [writer EXCEPT ![w] = "acquired"]
        /\ UNCHANGED <<depth, contended, waited>>
    BY <1>2, Zenon DEF Stats!Acquire
  <2> QED  BY <2>1, QueueQuiet DEF QueueInv
<1>3. ASSUME NEW w \in Arrivals, Stats!Release(w) PROVE QueueInv'
  <2>1. /\ writer[w] = "holding" /\ writer' = [writer EXCEPT ![w] = "idle"]
        /\ UNCHANGED <<depth, contended, waited>>
    BY <1>3, Zenon DEF Stats!Release
  <2> QED  BY <2>1, QueueQuiet DEF QueueInv
<1>4. ASSUME NEW us \in Samples, Stats!record(us) PROVE UNCHANGED Stats!queueVars
  BY <1>4, Zenon DEF Stats!record
<1>5. ASSUME NEW p \in Pollers,
             \/ Stats!window_stats(p) \/ Stats!Lock(p) \/ Stats!snapshot(p) \/ Stats!Close(p)
      PROVE  UNCHANGED Stats!queueVars
  BY <1>5, Zenon DEF Stats!window_stats, Stats!Lock, Stats!snapshot, Stats!Close, Stats!Publish
<1>6. Stats!Tick => UNCHANGED Stats!queueVars
  BY Zenon DEF Stats!Tick
<1> QED
  BY <1>1, <1>2, <1>3, <1>4, <1>5, <1>6, QueueEnter, QueueLeave, Zenon DEF Stats!Next, Stats!vars

\* For any number of writers: enter_write_queue counts an arrival as contended only
\* if the writer mutex was held or wanted (ContentionIsReal).
THEOREM ContentionWasThere ==
  ASSUME IsFiniteSet(Arrivals)
  PROVE  Stats!Spec => []Stats!ContentionIsReal
<1>1. QueueInv => Stats!ContentionIsReal
  BY DEF QueueInv, Stats!ContentionIsReal
<1> QED  BY <1>1, QueueInit, QueueStep, PTL DEF Stats!Spec
=============================================================================
