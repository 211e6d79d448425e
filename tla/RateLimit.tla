----------------------------- MODULE RateLimit -----------------------------
(***************************************************************************)
(* The per-identity rate limiter of api/limits.rs: the class a path falls  *)
(* in, the configured rate of a class, the token buckets with the cap on   *)
(* how many are tracked, the eviction of full ones, and what rate_limit    *)
(* answers.                                                                *)
(*                                                                         *)
(* Numbers are fixed-point: Token units make one token, a refill is in     *)
(* units per tick, Second ticks make one second.  Instant::now() is read   *)
(* with the mutex held, so one action is one call of take.                 *)
(***************************************************************************)
EXTENDS Integers, Sequences, FiniteSets, Functions

CONSTANTS
  Owners,
  Requests,       \* [method, path]: what a caller sends
  Raw(_),         \* the environment variable of a class
  Token, Second,
  MaxTracked,     \* MAX_TRACKED_BUCKETS
  MaxDuration,    \* seconds a Duration holds
  MaxClock

VARIABLES
  clock,
  buckets,        \* the tracked (owner, class) pairs
  poisoned,       \* a thread panicked with the mutex held
  last,           \* what the last call decided
  ideal,          \* history: the buckets of a limiter that forgets nothing
  notBefore       \* history: when the earliest unused Retry-After runs out

vars == <<clock, buckets, poisoned, last, ideal, notBefore>>

-----------------------------------------------------------------------------
(* The class of a path and its rate.                                       *)

Classes == {"Read", "Write", "Bulk", "Admin", "Subscribe"}

BulkPaths == {<<"transaction">>, <<"changes">>} \cup
             {<<"nodes", s>> : s \in {"multiget", "query", "count", "count_by",
                                      "aggregate", "aggregate_by"}}

\* EndpointClass::of.
ClassOf(method, path) ==
  LET head == path[1] IN
  CASE path = <<>> -> "Read"
    [] path # <<>> /\ (head = "admin" \/ path = <<"stats">>) -> "Admin"
    [] path = <<"events">> -> "Subscribe"
    [] path \in BulkPaths -> "Bulk"
    [] path \in {<<"publish">>, <<"edge">>, <<"node">>} -> "Write"
    [] Len(path) = 3 /\ head = "node" /\ path[3] = "claim" -> "Write"
    [] Len(path) = 3 /\ head = "sequence" /\ path[3] = "next" -> "Write"
    [] path = <<"nodes">> -> "Read"
    [] Len(path) = 3 /\ head = "node" /\ path[3] \in {"history", "owned"} -> "Read"
    [] Len(path) = 4 /\ head = "node" /\ path[3] = "edges" -> "Read"
    [] Len(path) = 2 /\ head = "node" -> IF method = "GET" THEN "Read" ELSE "Write"
    [] OTHER -> "Admin"

Rate(burst, perSecond) ==
  [burst |-> burst * Token, refill |-> (perSecond * Token) \div Second]

default_rate(class) ==
  CASE class = "Read" -> Rate(600, 300)
    [] class = "Write" -> Rate(300, 150)
    [] class = "Bulk" -> Rate(120, 60)
    [] class = "Admin" -> Rate(60, 30)
    [] class = "Subscribe" -> Rate(30, 5)

Disabled == [burst |-> 0, refill |-> 0]

\* The variable is unset, off, or a burst with a refill (the burst again where only
\* one number is given); a number that does not parse is 0.
parse_rate_from(class, raw) ==
  CASE raw.form = "off" -> Disabled
    [] raw.form = "unset" -> default_rate(class)
    [] OTHER -> IF raw.burst > 0 /\ raw.refill > 0
                  THEN [burst |-> raw.burst, refill |-> raw.refill]
                  ELSE default_rate(class)

configured_rate(class) == parse_rate_from(class, Raw(class))

\* The numbers of a variable are in the fractions of a token that Token counts.
RateBounds ==
  /\ Token \in Nat \ {0} /\ Second \in Nat \ {0}
  /\ MaxTracked \in Nat \ {0} /\ MaxClock \in Nat
  /\ \A c \in Classes :
       Raw(c).form \notin {"off", "unset"} => {Raw(c).burst, Raw(c).refill} \subseteq Int

\* A limit that is on admits a call in the end: a whole token fits, and it refills.
LimitsAdmit ==
  \A c \in Classes :
    LET rate == configured_rate(c) IN
    rate # Disabled => rate.burst >= Token /\ rate.refill > 0

-----------------------------------------------------------------------------
(* One bucket.                                                             *)

AtMost(a, b) == IF a < b THEN a ELSE b
CeilDiv(a, b) == (a + b - 1) \div b

Full(rate, now) == [tokens |-> rate.burst, updated |-> now]

Refilled(bucket, rate, now) ==
  [tokens |-> AtMost(bucket.tokens + (now - bucket.updated) * rate.refill, rate.burst),
   updated |-> now]

\* How long until there will be a token, in whole seconds.
RetryFloor(bucket, rate) == (Token - bucket.tokens) \div (rate.refill * Second)
Retry(bucket, rate) == CeilDiv(Token - bucket.tokens, rate.refill * Second)

Spend(bucket) == [bucket EXCEPT !.tokens = @ - Token]

\* Has the bucket refilled completely?
IsFullWithin(bucket, rate, now) ==
  bucket.tokens + (now - bucket.updated) * rate.refill >= rate.burst - Token
is_full(bucket, rate, now) ==
  bucket.tokens + (now - bucket.updated) * rate.refill >= rate.burst

-----------------------------------------------------------------------------
(* The table.                                                              *)

\* What retain keeps when a new key finds the table at its cap.
Evict(table, now) ==
  Restrict(table, {k \in DOMAIN table : LET rate == configured_rate(k[2])
                                        IN rate # Disabled /\ ~is_full(table[k], rate, now)})

\* HashMap::insert, or the bucket written through get_mut.
insert(table, k, bucket) ==
  [x \in DOMAIN table \cup {k} |-> IF x = k THEN bucket ELSE table[x]]

Keys == Owners \X Classes

\* What the limiter that forgets nothing holds for a key now.
Ideal(k, rate) == Refilled(ideal[k], rate, clock)

\* Has a request of this key been let through before?
Known(k) == ideal[k].tokens < configured_rate(k[2]).burst

Answer(k, what, status) ==
  last' = [what |-> what, status |-> status, failed |-> poisoned,
           due |-> notBefore[k] <= clock,
           earned |-> Known(k) /\ Ideal(k, configured_rate(k[2])).tokens >= Token]

Allow(k, table, bucket, rate) ==
  /\ bucket.tokens >= Token
  /\ buckets' = insert(table, k, Spend(bucket))
  /\ ideal' = [ideal EXCEPT ![k] = Spend(Ideal(k, rate))]
  /\ notBefore' = [notBefore EXCEPT ![k] = MaxClock + 1]
  /\ Answer(k, "allow", 200)
  /\ UNCHANGED poisoned

Deny(k, table, bucket, rate) ==
  LET wait == Retry(bucket, rate) IN
  /\ bucket.tokens < Token
  /\ wait <= MaxDuration
  /\ buckets' = insert(table, k, bucket)
  /\ notBefore' = [notBefore EXCEPT ![k] = AtMost(@, clock + wait * Second)]
  /\ Answer(k, "retry", 429)
  /\ UNCHANGED <<ideal, poisoned>>

\* Duration::from_secs_f64 of more than a Duration holds panics.  A tracked bucket
\* has been refilled by then, a new one has not been inserted.
Panic(k, table, bucket, rate) ==
  /\ bucket.tokens < Token
  /\ Retry(bucket, rate) > MaxDuration
  /\ buckets' = IF k \in DOMAIN table THEN insert(table, k, bucket) ELSE table
  /\ poisoned' = TRUE
  /\ Answer(k, "panic", 0)
  /\ UNCHANGED <<ideal, notBefore>>

\* Bucket::take on a bucket refilled up to now, and the insert that follows.
TakeFrom(k, table, bucket, rate) ==
  \/ Allow(k, table, bucket, rate)
  \/ Deny(k, table, bucket, rate)
  \/ Panic(k, table, bucket, rate)

\* Decision::Deny(None).
Refuse(k, table) ==
  /\ buckets' = table
  /\ Answer(k, "refuse", 429)
  /\ UNCHANGED <<poisoned, ideal, notBefore>>

\* Buckets::take.
take(k, rate) ==
  LET table == IF Cardinality(DOMAIN buckets) >= MaxTracked
                 THEN Evict(buckets, clock) ELSE buckets
  IN IF k \in DOMAIN buckets
       THEN TakeFrom(k, buckets, Refilled(buckets[k], rate, clock), rate)
     ELSE IF Cardinality(DOMAIN table) >= MaxTracked
       THEN Refuse(k, table)
     ELSE TakeFrom(k, table, Full(rate, clock), rate)

\* The middleware.  Past it the handler runs.
rate_limit(owner, request) ==
  LET class == ClassOf(request.method, request.path)
      k == <<owner, class>>
      rate == configured_rate(class)
  IN /\ IF rate = Disabled
          THEN Answer(k, "off", 200) /\ UNCHANGED <<buckets, poisoned, ideal, notBefore>>
        ELSE IF poisoned THEN Refuse(k, buckets)
        ELSE take(k, rate)
     /\ UNCHANGED clock

Tick ==
  /\ clock < MaxClock
  /\ clock' = clock + 1
  /\ UNCHANGED <<buckets, poisoned, last, ideal, notBefore>>

NoAnswer == [what |-> "none", status |-> 0, failed |-> FALSE, due |-> FALSE,
             earned |-> FALSE]

Init ==
  /\ clock = 0
  /\ buckets = [k \in {} |-> 0]
  /\ poisoned = FALSE
  /\ last = NoAnswer
  /\ ideal = [k \in Keys |-> Full(configured_rate(k[2]), 0)]
  /\ notBefore = [k \in Keys |-> MaxClock + 1]

Next == Tick \/ \E o \in Owners, r \in Requests : rate_limit(o, r)

Spec == Init /\ [][Next]_vars

-----------------------------------------------------------------------------
(* Properties.                                                             *)

\* Whatever the table evicts and recreates, no identity is admitted more often than
\* by a bucket of its own that is never dropped: Buckets::take evicts only what
\* hands nobody an allowance already spent.
NoAllowanceTwice == \A k \in Keys : ideal[k].tokens >= 0

\* A caller that waits out the Retry-After it was given, and asks again, is not
\* told to wait once more: Bucket::take rounds the interval up.
RetryAfterIsEnough == last.due => last.what # "retry"

AllowanceIsKept == NoAllowanceTwice /\ RetryAfterIsEnough

\* A bucket dropped from the full table and one kept there answer alike: an
\* identity that had one, and would have a token in it now, is not refused.
EvictionIsInvisible == last.earned => last.what # "refuse"

\* With the limiter's mutex poisoned the answer blames the server (503), not the
\* caller (429).
FailureIsTheServers == last.failed => last.status = 503
=============================================================================
