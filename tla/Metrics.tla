------------------------------ MODULE Metrics ------------------------------
(***************************************************************************)
(* The latency histogram, its observation windows and the write-queue      *)
(* counters of metrics.rs.                                                 *)
(*                                                                         *)
(* A histogram is told by how often each latency was recorded: a bucket    *)
(* holds the sum over the latencies that fall in it.  Buckets no sample of *)
(* an instance falls in stay 0 and are passed over.  The read and the      *)
(* write histogram are alike; one is modelled.                             *)
(***************************************************************************)
EXTENDS Integers, FiniteSetsExt

CONSTANTS
  Samples,        \* latencies that occur, in microseconds
  MaxSamples,
  Pollers,        \* GET /stats
  MinWindow, MaxClock,
  Writers, MaxWrites,
  Nobody

MetricsBounds ==
  Samples \subseteq Nat /\ MinWindow \in Nat \ {0} /\ Nobody \notin Pollers

VARIABLES
  clock,
  recorded,       \* the histogram
  window,         \* the open window: when it opened, what the histogram was then
  last,           \* the last window closed: its samples and what is published of them
  told,           \* history: the samples of all windows closed so far
  lock,           \* who has the window's mutex
  poll,           \* each poller: where it is, its now, its copy so far
  depth, contended,         \* write_queue_depth, write_queue_contended
  writer,         \* each writer: idle, arrived, acquired, holding
  writes,
  waited          \* history: writers that arrived at a mutex held or wanted

windowVars == <<clock, recorded, window, last, told, lock, poll>>
queueVars == <<depth, contended, writer, writes, waited>>
vars == <<windowVars, queueVars>>

-----------------------------------------------------------------------------
(* Buckets.                                                                *)

SUB_BITS == 3
SUB_BUCKETS == 2 ^ SUB_BITS
BUCKET_COUNT == 512

\* The position of the leading one bit.
Msb(us) == Max({b \in 0 .. 30 : 2 ^ b <= us})

AtMost(a, b) == IF a < b THEN a ELSE b

bucket_index(us) ==
  IF us < SUB_BUCKETS THEN us
  ELSE LET shift == Msb(us) - SUB_BITS
           sub == (us \div 2 ^ shift) % SUB_BUCKETS
       IN AtMost((shift + 1) * SUB_BUCKETS + sub, BUCKET_COUNT - 1)

\* The largest latency of a bucket.
bucket_upper_us(i) ==
  IF i < SUB_BUCKETS THEN i
  ELSE LET shift == (i \div SUB_BUCKETS) - 1
       IN (SUB_BUCKETS + (i % SUB_BUCKETS)) * 2 ^ shift + 2 ^ shift - 1

Indices == {bucket_index(us) : us \in Samples}
InBucket(i) == {us \in Samples : bucket_index(us) = i}

CountUpTo(delta, i) == SumFunctionOnSet(delta, {us \in Samples : bucket_index(us) <= i})
Count(delta) == SumFunctionOnSet(delta, Samples)

CeilDiv(a, b) == (a + b - 1) \div b

RankDown(n, percent) == (n * percent) \div 100
\* The 1-based rank of the sample at a percentile, rounded up.
Rank(n, percent) == CeilDiv(n * percent, 100)

\* LatencyStats::from_delta: the first bucket at which enough has been seen.
quantile(delta, percent) ==
  bucket_upper_us(Min({i \in Indices : CountUpTo(delta, i) >= Rank(Count(delta), percent)}))

max_us(delta) == bucket_upper_us(Max({i \in Indices : \E us \in InBucket(i) : delta[us] > 0}))

None == [us \in Samples |-> 0]
Empty == [samples |-> None, p50 |-> 0, p99 |-> 0, max |-> 0]

from_delta(delta) ==
  IF Count(delta) = 0 THEN Empty
  ELSE [samples |-> delta, p50 |-> quantile(delta, 50), p99 |-> quantile(delta, 99),
        max |-> max_us(delta)]

-----------------------------------------------------------------------------
(* Requests and windows.                                                   *)

\* observe, once the handler has answered: Histogram::record.
record(us) ==
  /\ Count(recorded) < MaxSamples
  /\ recorded' = [recorded EXCEPT ![us] = @ + 1]
  /\ UNCHANGED <<clock, window, last, told, lock, poll, queueVars>>

Tick ==
  /\ clock < MaxClock
  /\ clock' = clock + 1
  /\ UNCHANGED <<recorded, window, last, told, lock, poll, queueVars>>

Idle == [at |-> "idle", now |-> 0, copied |-> {}, copy |-> None]

\* window_stats reads the clock before it asks for the mutex.
window_stats(p) ==
  /\ poll[p].at = "idle"
  /\ poll' = [poll EXCEPT ![p] = [Idle EXCEPT !.at = "lock", !.now = clock]]
  /\ UNCHANGED <<clock, recorded, window, last, told, lock, queueVars>>

Elapsed(p) == IF poll[p].now > window.opened THEN poll[p].now - window.opened ELSE 0

\* A window that is old enough is closed; otherwise the last one is returned.
Lock(p) ==
  /\ poll[p].at = "lock" /\ lock = Nobody
  /\ IF Elapsed(p) >= MinWindow
       THEN lock' = p /\ poll' = [poll EXCEPT ![p].at = "copy"]
       ELSE UNCHANGED lock /\ poll' = [poll EXCEPT ![p] = Idle]
  /\ UNCHANGED <<clock, recorded, window, last, told, queueVars>>

\* Histogram::snapshot, one bucket after the other.
snapshot(p) ==
  /\ poll[p].at = "copy"
  /\ \E i \in Indices \ poll[p].copied :
       /\ \A j \in Indices \ poll[p].copied : i <= j
       /\ poll' = [poll EXCEPT
            ![p].copied = @ \cup {i},
            ![p].copy = [us \in Samples |-> IF us \in InBucket(i) THEN recorded[us] ELSE @[us]],
            ![p].at = IF poll[p].copied \cup {i} = Indices THEN "close" ELSE "copy"]
  /\ UNCHANGED <<clock, recorded, window, last, told, lock, queueVars>>

Publish(p, open) ==
  LET delta == [us \in Samples |-> poll[p].copy[us] - window.open[us]] IN
  /\ poll[p].at = "close"
  /\ last' = from_delta(delta)
  /\ told' = [us \in Samples |-> told[us] + delta[us]]
  /\ window' = [opened |-> poll[p].now, open |-> open]
  /\ lock' = Nobody
  /\ poll' = [poll EXCEPT ![p] = Idle]
  /\ UNCHANGED <<clock, recorded, queueVars>>

\* The next window opens on a second look at the histogram.
CloseLooksAgain(p) == Publish(p, recorded)
\* The next window opens on the copy the last one was closed with.
Close(p) == Publish(p, poll[p].copy)

-----------------------------------------------------------------------------
(* The queue for the engine's writer mutex: StorageEngine::writer.         *)

Busy == {w \in Writers : writer[w] # "idle"}

enter_write_queue(w) ==
  /\ writer[w] = "idle" /\ writes < MaxWrites
  /\ writer' = [writer EXCEPT ![w] = "arrived"]
  /\ depth' = depth + 1
  /\ contended' = IF depth > 0 THEN contended + 1 ELSE contended
  /\ waited' = IF Busy # {} THEN waited + 1 ELSE waited
  /\ writes' = writes + 1
  /\ UNCHANGED windowVars

Acquire(w) ==
  /\ writer[w] = "arrived"
  /\ \A v \in Writers : writer[v] \notin {"acquired", "holding"}
  /\ writer' = [writer EXCEPT ![w] = "acquired"]
  /\ UNCHANGED <<depth, contended, writes, waited, windowVars>>

StayInQueue(w) ==
  /\ writer[w] = "acquired"
  /\ writer' = [writer EXCEPT ![w] = "holding"]
  /\ UNCHANGED <<depth, contended, writes, waited, windowVars>>

leave_write_queue(w) ==
  /\ writer[w] = "acquired"
  /\ writer' = [writer EXCEPT ![w] = "holding"]
  /\ depth' = depth - 1
  /\ UNCHANGED <<contended, writes, waited, windowVars>>

Release(w) ==
  /\ writer[w] = "holding"
  /\ writer' = [writer EXCEPT ![w] = "idle"]
  /\ UNCHANGED <<depth, contended, writes, waited, windowVars>>

-----------------------------------------------------------------------------

Init ==
  /\ clock = 0
  /\ recorded = None /\ told = None
  /\ window = [opened |-> 0, open |-> None]
  /\ last = Empty
  /\ lock = Nobody /\ poll = [p \in Pollers |-> Idle]
  /\ depth = 0 /\ contended = 0 /\ writes = 0 /\ waited = 0
  /\ writer = [w \in Writers |-> "idle"]

Next ==
  \/ Tick
  \/ \E us \in Samples : record(us)
  \/ \E p \in Pollers : window_stats(p) \/ Lock(p) \/ snapshot(p) \/ Close(p)
  \/ \E w \in Writers :
       enter_write_queue(w) \/ Acquire(w) \/ leave_write_queue(w) \/ Release(w)

Spec == Init /\ [][Next]_vars

-----------------------------------------------------------------------------
(* Properties.                                                             *)

\* A sample that lands while a poll copies the histogram is in that window or in the
\* next one, in one of them and once: closed windows and the open one partition what
\* was recorded.
EverySampleInOneWindow ==
  \A us \in Samples : told[us] = window.open[us] /\ told[us] <= recorded[us]

\* The smallest sample with at least that share of the window at or below it.
TrueQuantile(delta, percent) ==
  Min({us \in Samples : 100 * SumFunctionOnSet(delta, {v \in Samples : v <= us})
                          >= percent * Count(delta)})

Bracketed(reported, exact) ==
  /\ exact <= reported
  /\ SUB_BUCKETS * (reported - exact) <= exact

\* What a window publishes errs upwards only, by at most an eighth: from_delta over
\* log-linear buckets against the percentiles of the samples themselves.
PercentilesArePessimistic ==
  LET delta == last.samples IN
  Count(delta) > 0 =>
    /\ Bracketed(last.p50, TrueQuantile(delta, 50))
    /\ Bracketed(last.p99, TrueQuantile(delta, 99))
    /\ Bracketed(last.max, Max({us \in Samples : delta[us] > 0}))

\* An arrival is counted as contended only if the mutex was held or wanted.
ContentionIsReal == contended <= waited

\* Every writer that finds the mutex held or wanted is counted.
NoBurstHides == waited <= contended
=============================================================================
