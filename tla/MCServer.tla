------------------------------ MODULE MCServer ------------------------------
(***************************************************************************)
(* What the server shows and measures, on small instances: the change      *)
(* channels (GET /changes, GET /events), the rate limiter, the metrics     *)
(* windows, the write queue's counters and the table of attributed         *)
(* charges. Each behaviour is one scenario, picked in the initial state:   *)
(* one component with one choice of its constants. The variables of the    *)
(* components that do not run keep a fixed value; a name that two of them  *)
(* use is one variable here.                                               *)
(***************************************************************************)
EXTENDS Integers, Sequences

CONSTANTS o1, o2, p1, p2, w1, w2, w3, t1, t2, k1, k2, k3, Nobody, Free

VARIABLES
  scenario,
  log, nextSeq, nextOp, nextTx, ckpt, applied, scanHorizon, rotating, nodes,
  unit, left, unsent, retained, earliest, up, restarts, scanner, stream,
  changes, versions, issued, born, lost, reset,  \* Changes
  clock, buckets, poisoned, last, ideal, notBefore,  \* RateLimit
  recorded, window, told, lock, poll, depth, contended, writer, writes,
  waited,  \* Metrics
  keys, counts, overflow, at, key, index, probes, charged, spilled  \* CellTable

changeVars == <<log, nextSeq, nextOp, nextTx, ckpt, applied, scanHorizon,
                rotating, nodes, unit, left, unsent, retained, earliest, up,
                restarts, scanner, stream, changes, versions, issued, born,
                lost, reset>>
rateVars == <<clock, buckets, poisoned, last, ideal, notBefore>>
metricVars == <<clock, recorded, window, last, told, lock, poll, depth,
                contended, writer, writes, waited>>
cellVars == <<keys, counts, overflow, at, key, index, probes, charged,
              spilled>>
vars == <<scenario, changeVars, rateVars, metricVars, cellVars>>

-----------------------------------------------------------------------------
(* Changes: what writers submit.                                           *)

mine == [owner |-> "me", public |-> FALSE]
open == [owner |-> "other", public |-> TRUE]
hidden == [owner |-> "other", public |-> FALSE]

Ins(a, n) == [what |-> "insert", address |-> a, node |-> n]
Del(a) == [what |-> "delete", address |-> a,
           node |-> [owner |-> "none", public |-> FALSE]]

\* A create or overwrite, a delete, a delete and re-create in one batch, a batch
\* whose second half is not for this reader.
Mixed == {<<Ins("a", mine)>>, <<Del("a")>>, <<Del("a"), Ins("a", open)>>,
          <<Ins("a", hidden), Ins("b", mine)>>}
OneOrBoth == {<<Ins("a", mine)>>, <<Ins("a", mine), Ins("b", open)>>}

-----------------------------------------------------------------------------
(* RateLimit: what callers send, and the limits in the environment.        *)

\* A write of a node, a scan, a stream.
Calls == {[method |-> "PUT", path |-> <<"node", "a">>],
          [method |-> "POST", path |-> <<"nodes", "query">>],
          [method |-> "GET", path |-> <<"events">>]}

\* Writes: two tokens and a quarter, three quarters back every tick.  Scans: one
\* token, back after four ticks.  Streams: not limited.
RateOf(class) ==
  CASE class = "Write" -> [form |-> "two", burst |-> 9, refill |-> 3]
    [] class = "Bulk" -> [form |-> "two", burst |-> 4, refill |-> 1]
    [] class = "Subscribe" -> [form |-> "off"]
    [] OTHER -> [form |-> "unset"]

-----------------------------------------------------------------------------
(* CellTable: three coordinates of which two share a home slot.            *)

HomeOf(k) == IF k = k3 THEN 1 ELSE 0

-----------------------------------------------------------------------------
(* The scenarios.                                                          *)

\* A reader of GET /changes beside a writer, rotations and a restart.
Scans == INSTANCE Changes
  WITH Addresses <- {"a", "b"}, Nodes <- {mine, open, hidden}, Units <- Mixed,
       Me <- "me", IsAdmin <- FALSE, Limits <- {1, 2}, Capacity <- 1,
       AppendFaults <- FALSE, MaxOp <- 12, MaxRestarts <- 1,
       Clients <- {"scan"}

\* The same where an append may fail.
Faults == INSTANCE Changes
  WITH Addresses <- {"a", "b"}, Nodes <- {mine, open, hidden},
       Units <- OneOrBoth, Me <- "me", IsAdmin <- FALSE, Limits <- {1},
       Capacity <- 1, AppendFaults <- TRUE, MaxOp <- 11, MaxRestarts <- 1,
       Clients <- {"scan"}

\* A subscriber of GET /events that lags and reconnects.
Feed == INSTANCE Changes
  WITH Addresses <- {"a"}, Nodes <- {mine, open, hidden},
       Units <- {<<Ins("a", mine)>>}, Me <- "me", IsAdmin <- FALSE,
       Limits <- {1}, Capacity <- 2, AppendFaults <- FALSE, MaxOp <- 9,
       MaxRestarts <- 0, Clients <- {"events", "publish"}

\* Overwrites of one node, their events, rotations, checkpoints and a restart:
\* numbers are drawn faster than records are written.
Restarts == INSTANCE Changes
  WITH Addresses <- {"a"}, Nodes <- {mine}, Units <- {<<Ins("a", mine)>>},
       Me <- "me", IsAdmin <- FALSE, Limits <- {1}, Capacity <- 1,
       AppendFaults <- FALSE, MaxOp <- 21, MaxRestarts <- 1,
       Clients <- {}

\* Two identities, a table of two buckets.
Rates == INSTANCE RateLimit
  WITH Owners <- {o1, o2}, Requests <- Calls, Raw <- RateOf, Token <- 4,
       Second <- 2, MaxTracked <- 2, MaxDuration <- 1, MaxClock <- 4

\* Two polls of GET /stats beside the samples.
Windows == INSTANCE Metrics
  WITH Samples <- {5, 17, 18, 1000}, MaxSamples <- 3, Pollers <- {p1, p2},
       MinWindow <- 1, MaxClock <- 2, Writers <- {}, MaxWrites <- 0

\* Three writers at the mutex.
Queue == INSTANCE Metrics
  WITH Samples <- {5}, MaxSamples <- 0, Pollers <- {}, MinWindow <- 1,
       MaxClock <- 0, Writers <- {w1, w2, w3}, MaxWrites <- 6

\* Two threads that race for three slots.
Cells == INSTANCE CellTable
  WITH Threads <- {t1, t2}, Coordinates <- {k1, k2, k3}, Home <- HomeOf,
       CellSlots <- 3, CellProbes <- 2, MaxCharges <- 5

ASSUME ConstantsSensible ==
  /\ Scans!ConstantsAssumption /\ Faults!ConstantsAssumption /\ Feed!ConstantsAssumption
  /\ Restarts!ConstantsAssumption
  /\ Rates!RateBounds /\ Rates!LimitsAdmit /\ Cells!CellBounds
  /\ Windows!MetricsBounds /\ Queue!MetricsBounds

\* What a scenario of Changes leaves alone.
notChange == <<clock, buckets, poisoned, last, ideal, notBefore, recorded,
               window, told, lock, poll, depth, contended, writer, writes,
               waited, keys, counts, overflow, at, key, index, probes,
               charged, spilled>>
OnlyChange ==
  /\ clock = 0 /\ buckets = 0 /\ poisoned = 0 /\ last = 0 /\ ideal = 0
  /\ notBefore = 0 /\ recorded = 0 /\ window = 0 /\ told = 0 /\ lock = 0
  /\ poll = 0 /\ depth = 0 /\ contended = 0 /\ writer = 0 /\ writes = 0
  /\ waited = 0 /\ keys = 0 /\ counts = 0 /\ overflow = 0 /\ at = 0
  /\ key = 0 /\ index = 0 /\ probes = 0 /\ charged = 0 /\ spilled = 0

\* What a scenario of RateLimit leaves alone.
notRate == <<log, nextSeq, nextOp, nextTx, ckpt, applied, scanHorizon,
             rotating, nodes, unit, left, unsent, retained, earliest, up,
             restarts, scanner, stream, changes, versions, issued, born, lost,
             reset, recorded, window, told, lock, poll, depth, contended,
             writer, writes, waited, keys, counts, overflow, at, key, index,
             probes, charged, spilled>>
OnlyRate ==
  /\ log = 0 /\ nextSeq = 0 /\ nextOp = 0 /\ nextTx = 0 /\ ckpt = 0
  /\ applied = 0 /\ scanHorizon = 0 /\ rotating = 0 /\ nodes = 0
  /\ unit = 0 /\ left = 0 /\ unsent = 0 /\ retained = 0 /\ earliest = 0
  /\ up = 0 /\ restarts = 0 /\ scanner = 0 /\ stream = 0 /\ changes = 0
  /\ versions = 0 /\ issued = 0 /\ born = 0 /\ lost = 0 /\ reset = 0
  /\ recorded = 0 /\ window = 0 /\ told = 0 /\ lock = 0 /\ poll = 0
  /\ depth = 0 /\ contended = 0 /\ writer = 0 /\ writes = 0 /\ waited = 0
  /\ keys = 0 /\ counts = 0 /\ overflow = 0 /\ at = 0 /\ key = 0
  /\ index = 0 /\ probes = 0 /\ charged = 0 /\ spilled = 0

\* What a scenario of Metrics leaves alone.
notMetric == <<log, nextSeq, nextOp, nextTx, ckpt, applied, scanHorizon,
               rotating, nodes, unit, left, unsent, retained, earliest, up,
               restarts, scanner, stream, changes, versions, issued, born,
               lost, reset, buckets, poisoned, ideal, notBefore, keys, counts,
               overflow, at, key, index, probes, charged, spilled>>
OnlyMetric ==
  /\ log = 0 /\ nextSeq = 0 /\ nextOp = 0 /\ nextTx = 0 /\ ckpt = 0
  /\ applied = 0 /\ scanHorizon = 0 /\ rotating = 0 /\ nodes = 0
  /\ unit = 0 /\ left = 0 /\ unsent = 0 /\ retained = 0 /\ earliest = 0
  /\ up = 0 /\ restarts = 0 /\ scanner = 0 /\ stream = 0 /\ changes = 0
  /\ versions = 0 /\ issued = 0 /\ born = 0 /\ lost = 0 /\ reset = 0
  /\ buckets = 0 /\ poisoned = 0 /\ ideal = 0 /\ notBefore = 0 /\ keys = 0
  /\ counts = 0 /\ overflow = 0 /\ at = 0 /\ key = 0 /\ index = 0
  /\ probes = 0 /\ charged = 0 /\ spilled = 0

\* What a scenario of CellTable leaves alone.
notCell == <<log, nextSeq, nextOp, nextTx, ckpt, applied, scanHorizon,
             rotating, nodes, unit, left, unsent, retained, earliest, up,
             restarts, scanner, stream, changes, versions, issued, born, lost,
             reset, clock, buckets, poisoned, last, ideal, notBefore,
             recorded, window, told, lock, poll, depth, contended, writer,
             writes, waited>>
OnlyCell ==
  /\ log = 0 /\ nextSeq = 0 /\ nextOp = 0 /\ nextTx = 0 /\ ckpt = 0
  /\ applied = 0 /\ scanHorizon = 0 /\ rotating = 0 /\ nodes = 0
  /\ unit = 0 /\ left = 0 /\ unsent = 0 /\ retained = 0 /\ earliest = 0
  /\ up = 0 /\ restarts = 0 /\ scanner = 0 /\ stream = 0 /\ changes = 0
  /\ versions = 0 /\ issued = 0 /\ born = 0 /\ lost = 0 /\ reset = 0
  /\ clock = 0 /\ buckets = 0 /\ poisoned = 0 /\ last = 0 /\ ideal = 0
  /\ notBefore = 0 /\ recorded = 0 /\ window = 0 /\ told = 0 /\ lock = 0
  /\ poll = 0 /\ depth = 0 /\ contended = 0 /\ writer = 0 /\ writes = 0
  /\ waited = 0

Init ==
  \/ /\ OnlyChange
     /\ \/ scenario = "scans" /\ Scans!Init
        \/ scenario = "faults" /\ Faults!Init
        \/ scenario = "feed" /\ Feed!Init
        \/ scenario = "restarts" /\ Restarts!Init
  \/ /\ OnlyRate
     /\ \/ scenario = "rates" /\ Rates!Init
  \/ /\ OnlyMetric
     /\ \/ scenario = "windows" /\ Windows!Init
        \/ scenario = "queue" /\ Queue!Init
  \/ /\ OnlyCell
     /\ \/ scenario = "cells" /\ Cells!Init

Next ==
  \/ scenario = "scans" /\ Scans!Next /\ UNCHANGED <<scenario, notChange>>
  \/ scenario = "faults" /\ Faults!Next /\ UNCHANGED <<scenario, notChange>>
  \/ scenario = "feed" /\ Feed!Next /\ UNCHANGED <<scenario, notChange>>
  \/ scenario = "restarts" /\ Restarts!Next /\ UNCHANGED <<scenario, notChange>>
  \/ scenario = "rates" /\ Rates!Next /\ UNCHANGED <<scenario, notRate>>
  \/ scenario = "windows" /\ Windows!Next /\ UNCHANGED <<scenario, notMetric>>
  \/ scenario = "queue" /\ Queue!Next /\ UNCHANGED <<scenario, notMetric>>
  \/ scenario = "cells" /\ Cells!Next /\ UNCHANGED <<scenario, notCell>>

Spec == Init /\ [][Next]_vars

-----------------------------------------------------------------------------
(* What is checked, in which scenario. The formulas are the components'.   *)

\* changes.rs, scan and horizon: paging by next shows every committed change the
\* reader may see, in order and once, across rotations, crashes and failed appends;
\* a scan is refused only on a log that lost records, and no log that recovery
\* accepts is one that the scan cannot read.
ScanLosesNothing ==
  /\ scenario = "scans" => /\ Scans!ScanLosesNothing /\ Scans!ScanIsServed
                           /\ Scans!RefusalMeansLoss
  /\ scenario = "faults" => Faults!ScanLosesNothing /\ Faults!ScanIsServed

\* database.rs, subscribe and publish: a subscriber that was not told it
\* lagged has exactly the events since it subscribed.
StreamIsTheFeed == scenario = "feed" => Feed!Ring!StreamIsTheFeed

\* wal.rs, initialize_counters, and history.rs: across rotations and restarts that
\* find records in the log, no version of a node's history is given out again.
VersionsNeverReissued ==
  /\ scenario = "scans" => Scans!VersionsNeverReissued
  /\ scenario = "restarts" => Restarts!VersionsNeverReissued

\* limits.rs, the table of buckets and Bucket::take: evicting a bucket hands nobody
\* an allowance twice, and who waits out a Retry-After is not told to wait again.
AllowanceIsKept ==
  scenario = "rates" => Rates!AllowanceIsKept

\* metrics.rs, window_stats, from_delta, enter_write_queue and CellTable: what
\* racing threads count is counted once. A sample is in exactly one window and a
\* percentile errs upwards only, an arrival is contended only if the mutex was held
\* or wanted, and what is charged to a coordinate is in its one slot or in the
\* overflow count.
CountsAddUp ==
  /\ scenario = "windows" => /\ Windows!EverySampleInOneWindow
                             /\ Windows!PercentilesArePessimistic
  /\ scenario = "queue" => Queue!ContentionIsReal
  /\ scenario = "cells" => Cells!OneCellPerCoordinate /\ Cells!AttributionAddsUp

=============================================================================
