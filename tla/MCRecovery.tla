----------------------------- MODULE MCRecovery -----------------------------
(***************************************************************************)
(* What a restart reads back, on small instances: the index trees that a   *)
(* replay rebuilds, the end of the write-ahead log digit by digit, and the *)
(* users log. Each behaviour is one scenario, picked in the initial state: *)
(* one component with one choice of its constants. The variables of the    *)
(* components that do not run keep a fixed value; a name that two          *)
(* components use is one variable here.                                    *)
(***************************************************************************)
EXTENDS Integers

CONSTANTS a, b, u1, u2, NoNode, None

VARIABLES
  scenario,
  log, ckpt, pos, mem, disk, flushed, pc, ideal,  \* IndexRecovery
  file, synced, dropped, open, separator, nextSeq, appended, durable, at,
  frame, waiting, applied, settled, base, acked, crashes, faults,  \* WalTail
  before, wal, users, records, op, todo, left, owed, unsure  \* FlatLogs

indexVars == <<log, ckpt, pos, mem, disk, flushed, pc, ideal>>
tailVars == <<file, synced, dropped, open, separator, nextSeq, appended,
              durable, at, frame, waiting, applied, settled, base, ckpt,
              acked, crashes, faults>>
usersVars == <<file, before, wal, applied, users, records, at, op, todo, left,
               crashes, owed, unsure>>
vars == <<scenario, indexVars, tailVars, usersVars>>

\* Contents that differ in kind, in owner and in the indexed value.
MCContents == {[kind |-> "k1", owner |-> "o1", value |-> 1],
               [kind |-> "k1", owner |-> "o2", value |-> 2],
               [kind |-> "k2", owner |-> "o1", value |-> 1]}

-----------------------------------------------------------------------------
(* The scenarios.                                                          *)

\* Crashes at every point of a checkpoint of seven trees.
Index == INSTANCE IndexRecovery
  WITH Addresses <- {a, b}, Contents <- MCContents, IndexedKind <- "k1",
       MaxOps <- 3

\* Lines of up to six digits, rotations, two crashes or power losses that cut
\* the log anywhere behind the last flush, and two failed calls.
Tail == INSTANCE WalTail
  WITH MaxSeq <- 3, MaxCrashes <- 2, MaxFaults <- 2, RotateCells <- 10,
       PageCells <- 4, Faults <- {}

\* No call fails, and a power loss may skip any pages behind the last flush.
Pages == INSTANCE WalTail
  WITH MaxSeq <- 3, MaxCrashes <- 2, MaxFaults <- 0, RotateCells <- 10,
       PageCells <- 4, Faults <- {"reorder"}

\* Two identities and a floor low enough that compaction happens.
UsersLog == INSTANCE FlatLogs
  WITH Users <- {u1, u2}, PutCells <- 2, Floor <- 3, Tears <- {}, MaxOps <- 3,
       MaxCrashes <- 2

ASSUME ConstantsSensible ==
  /\ Index!ContentsAssumption /\ UsersLog!FlatLogBounds
  /\ Tail!WalTailBounds /\ Pages!WalTailBounds

\* What a scenario of IndexRecovery leaves alone.
notIndex == <<file, synced, dropped, open, separator, nextSeq, appended,
              durable, at, frame, waiting, applied, settled, base, acked,
              crashes, faults, before, wal, users, records, op, todo, left,
              owed, unsure>>
OnlyIndex ==
  /\ file = 0 /\ synced = 0 /\ dropped = 0 /\ open = 0 /\ separator = 0
  /\ nextSeq = 0 /\ appended = 0 /\ durable = 0 /\ at = 0 /\ frame = 0
  /\ waiting = 0 /\ applied = 0 /\ settled = 0 /\ base = 0 /\ acked = 0
  /\ crashes = 0 /\ faults = 0 /\ before = 0 /\ wal = 0 /\ users = 0
  /\ records = 0 /\ op = 0 /\ todo = 0 /\ left = 0 /\ owed = 0 /\ unsure = 0

\* What a scenario of WalTail leaves alone.
notTail == <<log, pos, mem, disk, flushed, pc, ideal, before, wal, users,
             records, op, todo, left, owed, unsure>>
OnlyTail ==
  /\ log = 0 /\ pos = 0 /\ mem = 0 /\ disk = 0 /\ flushed = 0 /\ pc = 0
  /\ ideal = 0 /\ before = 0 /\ wal = 0 /\ users = 0 /\ records = 0 /\ op = 0
  /\ todo = 0 /\ left = 0 /\ owed = 0 /\ unsure = 0

\* What a scenario of FlatLogs leaves alone.
notUsers == <<log, ckpt, pos, mem, disk, flushed, pc, ideal, synced, dropped,
              open, separator, nextSeq, appended, durable, frame, waiting, settled,
              base, acked, faults>>
OnlyUsers ==
  /\ log = 0 /\ ckpt = 0 /\ pos = 0 /\ mem = 0 /\ disk = 0 /\ flushed = 0
  /\ pc = 0 /\ ideal = 0 /\ synced = 0 /\ dropped = 0 /\ open = 0 /\ separator = 0
  /\ nextSeq = 0 /\ appended = 0 /\ durable = 0 /\ frame = 0 /\ waiting = 0
  /\ settled = 0 /\ base = 0 /\ acked = 0 /\ faults = 0

Init ==
  \/ /\ OnlyIndex
     /\ \/ scenario = "index" /\ Index!Init
  \/ /\ OnlyTail
     /\ \/ scenario = "tail" /\ Tail!Init
        \/ scenario = "pages" /\ Pages!Init
  \/ /\ OnlyUsers
     /\ \/ scenario = "users" /\ UsersLog!Init

Next ==
  \/ scenario = "index" /\ Index!Next /\ UNCHANGED <<scenario, notIndex>>
  \/ scenario = "tail" /\ Tail!Next /\ UNCHANGED <<scenario, notTail>>
  \/ scenario = "pages" /\ Pages!Next /\ UNCHANGED <<scenario, notTail>>
  \/ scenario = "users" /\ UsersLog!Next /\ UNCHANGED <<scenario, notUsers>>

Spec == Init /\ [][Next]_vars

-----------------------------------------------------------------------------
(* What is checked, in which scenario. The formulas are the components'.   *)

\* engine.rs, replay: the records after a recovery are those before the
\* crash.
ReplayReproducesRecords == scenario = "index" => Index!ReplayReproducesRecords

\* engine.rs, apply and replay: each live node is listed under its kind, its
\* owner and its value.
EveryNodeReachable == scenario = "index" => Index!EveryNodeReachable

\* wal.rs, write_line, sync_pending and truncate_torn_tail: wherever a crash or a
\* power loss cuts the log behind the last flush, recovery accepts it, and a write
\* that was acknowledged is in a checkpoint or is replayed.  Where a power loss also
\* skips pages, recovery may refuse the log, but whoever serves has every
\* acknowledged write, and a refused log still holds each of them.
AckedSurvives ==
  /\ scenario = "tail" => Tail!StartsAgain /\ Tail!AckedSurvives
  /\ scenario = "pages" => Pages!AckedKept

\* engine.rs, the users and compact_user_log: whoever serves knows the identities
\* that the acknowledged operations leave, and starts serving with a log of at most
\* four records per identity, or of the floor.
UsersAreTheLog ==
  /\ [](scenario = "users" => UsersLog!UsersAreTheLog)
  /\ [][scenario = "users" /\ at \in {"compact", "renamed"} /\ at' = "serving"
          => UsersLog!Compacted']_vars

=============================================================================
