----------------------------- MODULE Durability -----------------------------
(***************************************************************************)
(* The durability core of FacetQL: the write-ahead log, the BEGIN..COMMIT  *)
(* frames of multi-record batches, the physical state (heap and index      *)
(* trees, in the buffer pool and on disk), the checkpoint with its fences, *)
(* log rotation, process crashes, power loss and startup recovery.         *)
(*                                                                         *)
(* One writer at a time holds StorageEngine::writer; pc says where it is.  *)
(* The fsync that makes a write durable runs after the lock is released,   *)
(* so several finished units may wait for one flush (GroupCommit.tla has   *)
(* the flush itself).                                                      *)
(*                                                                         *)
(* Data: key k stands for one entry of the k-th index tree, in the order   *)
(* Indexes::commit flushes them.  A value is the number of the mutation    *)
(* that wrote it, so newer mutations have larger values; 0 is the initial  *)
(* entry.  Insert, Delete, Archive, InsertEdge... are all a "put" here.    *)
(* The log is the set of its records; file order is sequence order.        *)
(***************************************************************************)
EXTENDS Naturals, FiniteSets

CONSTANTS
  NTrees,              \* index trees, each with the one entry we follow
  CheckpointInterval,  \* applied mutations between two checkpoints
  Faults,              \* the failures this environment can produce
  MaxSeq, MaxTx, MaxWrite  \* bounds on sequence, transaction and write numbers

\* "append":           an append fails before any of its bytes are written
\* "apply_framed":     applying a committed batch to the trees fails midway
\* "apply_standalone": applying a standalone mutation fails
\* "flush":            a heap, tree or checkpoint-file write fails
\* "rotate_dirsync":   the rotated log is renamed, then the directory's
\*                     fsync (or the open before it) fails
\* "power":            the machine stops; unsynced log bytes may be lost
FaultKinds == {"append", "apply_framed", "apply_standalone", "flush",
               "rotate_dirsync", "power"}

ASSUME ConstantsAssumption ==
  /\ NTrees \in Nat \ {0}
  /\ CheckpointInterval \in Nat \ {0}
  /\ Faults \subseteq FaultKinds
  /\ MaxSeq \in Nat /\ MaxTx \in Nat /\ MaxWrite \in Nat

VARIABLES
  log,       \* records in the file named facetql.wal
  orphan,    \* the cached WalHandle points at an inode that lost its name
  synced,    \* every record up to this sequence is on stable storage
  nextSeq, nextTx,  \* NEXT_SEQUENCE and NEXT_TRANSACTION_ID
  mem,       \* entries of the working trees (buffer pool)
  disk,      \* entries of the committed trees
  ckpt,      \* content of facetql.checkpoint
  fences,    \* checkpoint::fences
  applied, pending,  \* applied_sequence and pending_mutations
  pc,        \* where the holder of the writer lock is
  unit,      \* the unit (frame or standalone mutation) it is writing
  todo,      \* records of the unit not applied yet
  flushed,   \* index trees committed so far by the running checkpoint
  resume,    \* what follows the running checkpoint: serving, or the exit
  waiting,   \* applied units whose writers have yet to return
  acked,     \* records of units acknowledged to their clients
  nextWrite, \* number of the next mutation
  stray      \* history: the mutations appended while the handle was orphaned

logVars == <<log, orphan, synced, nextSeq, nextTx, nextWrite, stray>>
stateVars == <<mem, disk, ckpt, fences, applied, pending>>
lockVars == <<pc, unit, todo, flushed, resume>>
clientVars == <<waiting, acked>>
vars == <<logVars, stateVars, lockVars, clientVars>>

Keys == 1 .. NTrees

WalRecord == [seq : Nat, tx : Nat, op : {"begin", "put", "commit", "abort"},
              key : Keys \cup {0}, val : Nat]

\* begin is the BEGIN sequence (0 for a standalone mutation), last the sequence
\* of the record that makes the unit committed.
Unit == [tx : Nat, begin : Nat, last : Nat, ops : SUBSET WalRecord]

NoUnit == [tx |-> 0, begin |-> 0, last |-> 0, ops |-> {}]

Larger(a, b) == IF a >= b THEN a ELSE b

Smaller(a, b) == IF a <= b THEN a ELSE b

-----------------------------------------------------------------------------
(* Reading the log back: recovery.rs.                                       *)

CommittedTx(S) == {r.tx : r \in {c \in S : c.op = "commit"}}

EffectiveIgnoringCommit(S) == {r \in S : r.op = "put"}

\* The mutations replay applies: standalone ones and those of committed frames.
Effective(S) ==
  {r \in S : r.op = "put" /\ (r.tx = 0 \/ r.tx \in CommittedTx(S))}

LastPut(S, k) ==
  CHOOSE r \in S : r.key = k /\ \A q \in S : q.key = k => q.seq <= r.seq

Replay(S, base) ==
  [k \in Keys |-> IF \E r \in Effective(S) : r.key = k
                    THEN LastPut(Effective(S), k).val
                    ELSE base[k]]

\* classify_transaction on the records of one transaction: FALSE is the
\* InvalidData error that refuses startup.
FrameAccepted(F) ==
  IF \E b \in F : b.op = "begin" /\ \A r \in F : b.seq <= r.seq
    THEN /\ \A b \in F : b.op = "begin" => \A r \in F : b.seq <= r.seq
         /\ \A t \in F : t.op \in {"commit", "abort"} =>
                           \A r \in F : r.seq <= t.seq
    ELSE \A r \in F : r.op # "commit"

classify_transactions(S) ==
  /\ \A r \in S : r.tx = 0 => r.op = "put"
  /\ \A t \in {r.tx : r \in S} \ {0} : FrameAccepted({r \in S : r.tx = t})

\* The records recovery looks at: those above the checkpoint.
Suffix == {r \in log : r.seq > ckpt}

\* What a restart would read back right now.
Recovered == Replay(Suffix, disk)

-----------------------------------------------------------------------------
(* Appending: wal.rs.  The bytes go to the inode the cached handle has open *)
(* and are not synced.                                                      *)

append(S) == log' = IF orphan THEN log ELSE log \cup S

Record(seq, tx, op) == [seq |-> seq, tx |-> tx, op |-> op, key |-> 0, val |-> 0]

Put(tx, k) ==
  [seq |-> nextSeq, tx |-> tx, op |-> "put", key |-> k, val |-> nextWrite]

\* History: a mutation appended to a file without a name is noted as such.
NoteStray == stray' = IF orphan THEN stray \cup {nextWrite} ELSE stray

-----------------------------------------------------------------------------
(* A write, under the writer lock: commit.rs, transaction.rs, apply_atomic. *)

Init ==
  /\ log = {} /\ orphan = FALSE /\ synced = 0
  /\ nextSeq = 1 /\ nextTx = 1 /\ nextWrite = 1
  /\ mem = [k \in Keys |-> 0] /\ disk = [k \in Keys |-> 0]
  /\ ckpt = 0 /\ fences = {} /\ applied = 0 /\ pending = 0
  /\ pc = "idle" /\ unit = NoUnit /\ todo = {} /\ flushed = 0 /\ resume = "idle"
  /\ waiting = {} /\ acked = {} /\ stray = {}

open ==
  /\ pc = "idle" /\ nextSeq <= MaxSeq /\ nextTx <= MaxTx
  /\ append({Record(nextSeq, nextTx, "begin")})
  /\ fences' = fences \cup {nextSeq}
  /\ unit' = [tx |-> nextTx, begin |-> nextSeq, last |-> 0, ops |-> {}]
  /\ nextSeq' = nextSeq + 1 /\ nextTx' = nextTx + 1
  /\ pc' = "stage"
  /\ UNCHANGED <<orphan, synced, nextWrite, stray, mem, disk, ckpt, applied,
                 pending, todo, flushed, resume, clientVars>>

stage(k) ==
  /\ pc = "stage" /\ nextSeq <= MaxSeq /\ nextWrite <= MaxWrite
  /\ append({Put(unit.tx, k)})
  /\ unit' = [unit EXCEPT !.ops = @ \cup {Put(unit.tx, k)}]
  /\ nextSeq' = nextSeq + 1 /\ nextWrite' = nextWrite + 1 /\ NoteStray
  /\ UNCHANGED <<orphan, synced, nextTx, stateVars, pc, todo, flushed, resume,
                 clientVars>>

commitReportingLastStaged ==
  /\ pc = "stage" /\ unit.ops # {} /\ nextSeq <= MaxSeq
  /\ append({Record(nextSeq, unit.tx, "commit")})
  /\ unit' = [unit EXCEPT !.last = nextSeq - 1]
  /\ todo' = unit.ops
  /\ nextSeq' = nextSeq + 1
  /\ pc' = "apply"
  /\ UNCHANGED <<orphan, synced, nextTx, nextWrite, stray, stateVars, flushed,
                 resume, clientVars>>

commit ==
  /\ pc = "stage" /\ unit.ops # {} /\ nextSeq <= MaxSeq
  /\ append({Record(nextSeq, unit.tx, "commit")})
  /\ unit' = [unit EXCEPT !.last = nextSeq]
  /\ todo' = unit.ops
  /\ nextSeq' = nextSeq + 1
  /\ pc' = "apply"
  /\ UNCHANGED <<orphan, synced, nextTx, nextWrite, stray, stateVars, flushed,
                 resume, clientVars>>

\* An append of the open frame failed.  Its number is burned, the frame is
\* dropped: the fence goes, an ABORT follows if it can be written.
drop ==
  /\ "append" \in Faults
  /\ pc = "stage" /\ nextSeq < MaxSeq
  /\ \/ append({Record(nextSeq + 1, unit.tx, "abort")})
     \/ UNCHANGED log
  /\ fences' = fences \ {unit.begin}
  /\ unit' = NoUnit
  /\ nextSeq' = nextSeq + 2
  /\ pc' = "idle"
  /\ UNCHANGED <<orphan, synced, nextTx, nextWrite, stray, mem, disk, ckpt,
                 applied, pending, todo, flushed, resume, clientVars>>

\* The first append of a unit failed: a standalone record, or a BEGIN (which
\* has also drawn a transaction number).
FailedFirstAppend ==
  /\ "append" \in Faults
  /\ pc = "idle" /\ nextSeq <= MaxSeq /\ nextTx <= MaxTx
  /\ nextSeq' = nextSeq + 1
  /\ nextTx' \in {nextTx, nextTx + 1}
  /\ UNCHANGED <<log, orphan, synced, nextWrite, stray, stateVars, lockVars,
                 clientVars>>

\* apply_atomic with exactly one operation: no frame, no fence.
standalone(k) ==
  /\ pc = "idle" /\ nextSeq <= MaxSeq /\ nextWrite <= MaxWrite
  /\ append({Put(0, k)})
  /\ unit' = [tx |-> 0, begin |-> 0, last |-> nextSeq, ops |-> {Put(0, k)}]
  /\ todo' = {Put(0, k)}
  /\ nextSeq' = nextSeq + 1 /\ nextWrite' = nextWrite + 1 /\ NoteStray
  /\ pc' = "apply"
  /\ UNCHANGED <<orphan, synced, nextTx, stateVars, flushed, resume, clientVars>>

\* apply_committed, one operation of the unit at a time and in order.
apply_committed ==
  /\ pc = "apply"
  /\ \E r \in todo :
       /\ \A q \in todo : r.seq <= q.seq
       /\ mem' = [mem EXCEPT ![r.key] = r.val]
       /\ todo' = todo \ {r}
  /\ UNCHANGED <<logVars, disk, ckpt, fences, applied, pending, pc, unit, flushed,
                 resume, clientVars>>

ApplyFailsKeepingTodo ==
  /\ pc = "apply"
  /\ (IF unit.tx = 0 THEN "apply_standalone" ELSE "apply_framed") \in Faults
  /\ \E r \in todo :
       /\ \A q \in todo : r.seq <= q.seq
       /\ mem' \in {mem, [mem EXCEPT ![r.key] = r.val]}
  /\ UNCHANGED todo /\ unit' = NoUnit /\ pc' = "idle"
  /\ UNCHANGED <<logVars, disk, ckpt, fences, applied, pending, flushed, resume,
                 clientVars>>

ApplyFailsReleasingFence ==
  /\ pc = "apply"
  /\ (IF unit.tx = 0 THEN "apply_standalone" ELSE "apply_framed") \in Faults
  /\ \E r \in todo :
       /\ \A q \in todo : r.seq <= q.seq
       /\ mem' \in {mem, [mem EXCEPT ![r.key] = r.val]}
  /\ todo' = {} /\ unit' = NoUnit /\ pc' = "idle"
  /\ fences' = fences \ {unit.begin}
  /\ UNCHANGED <<logVars, disk, ckpt, applied, pending, flushed, resume, clientVars>>

\* Applying fails after the unit is committed; the entry may have been written.
\* The writer gets the error.  A frame keeps its fence, for good.
ApplyFails ==
  /\ pc = "apply"
  /\ (IF unit.tx = 0 THEN "apply_standalone" ELSE "apply_framed") \in Faults
  /\ \E r \in todo :
       /\ \A q \in todo : r.seq <= q.seq
       /\ mem' \in {mem, [mem EXCEPT ![r.key] = r.val]}
  /\ todo' = {} /\ unit' = NoUnit /\ pc' = "idle"
  /\ UNCHANGED <<logVars, disk, ckpt, fences, applied, pending, flushed, resume,
                 clientVars>>

\* The lock is released: a finished unit's writer goes on to the flush.
Release ==
  /\ waiting' = IF unit = NoUnit THEN waiting ELSE waiting \cup {unit}
  /\ unit' = NoUnit

\* StagedCommit::settle and note_applied, whose checkpoint runs under the lock.
settle ==
  /\ pc = "apply" /\ todo = {}
  /\ fences' = fences \ {unit.begin}
  /\ applied' = Larger(applied, unit.last)
  /\ pending' = pending + 1
  /\ IF pending + 1 < CheckpointInterval
       THEN pc' = "idle" /\ Release /\ UNCHANGED flushed
       ELSE pc' = "flush" /\ flushed' = 0 /\ UNCHANGED <<unit, waiting>>
  /\ UNCHANGED <<logVars, mem, disk, ckpt, todo, resume, acked>>

-----------------------------------------------------------------------------
(* The checkpoint, under the writer lock: engine.rs, checkpoint.rs, wal.rs. *)

\* The last checkpoint of a process that is asked to stop.
Shutdown ==
  /\ pc = "idle"
  /\ pc' = "flush" /\ flushed' = 0 /\ resume' = "stopped"
  /\ UNCHANGED <<logVars, stateVars, unit, todo, clientVars>>

\* Indexes::commit, tree by tree (the heap was synced before the first one).
CommitTree ==
  /\ pc = "flush" /\ flushed < NTrees
  /\ disk' = [disk EXCEPT ![flushed + 1] = mem[flushed + 1]]
  /\ flushed' = flushed + 1
  /\ UNCHANGED <<logVars, mem, ckpt, fences, applied, pending, pc, unit, todo,
                 resume, clientVars>>

ClampedIgnoringFences(n) == n

\* checkpoint::ceiling, applied to the requested sequence.
Clamped(n) ==
  IF fences = {}
    THEN n
    ELSE Smaller(n, (CHOOSE f \in fences : \A g \in fences : f <= g) - 1)

Target == Larger(ckpt, Clamped(applied))

advanceBeforeFlush ==
  /\ pc = "flush"
  /\ ckpt' = Target
  /\ pending' = 0
  /\ pc' = "rotate"
  /\ UNCHANGED <<logVars, mem, disk, fences, applied, unit, todo, flushed, resume,
                 clientVars>>

advance ==
  /\ pc = "flush" /\ flushed = NTrees
  /\ ckpt' = Target
  /\ pending' = 0
  /\ pc' = "rotate"
  /\ UNCHANGED <<logVars, mem, disk, fences, applied, unit, todo, flushed, resume,
                 clientVars>>

\* The log is below the rotation threshold (its size in bytes is not modelled),
\* or it is rewritten without the records a recovery would skip.
rotate ==
  /\ pc = "rotate"
  /\ \/ UNCHANGED <<log, orphan, synced>>
     \/ /\ log # Suffix
        /\ log' = Suffix
        /\ orphan' = FALSE
        /\ synced' = Larger(synced, nextSeq - 1)
  /\ Release
  /\ pc' = resume
  /\ UNCHANGED <<nextSeq, nextTx, nextWrite, stray, stateVars, todo, flushed,
                 resume, acked>>

\* A checkpoint of a write that failed is only a warning: the write returns.
\* During startup or shutdown there is no write, and the process ends.
Abandon == Release /\ pc' = IF unit = NoUnit THEN "stopped" ELSE "idle"

\* A flush, the checkpoint file or the rotated log could not be written.  The
\* checkpoint's rename may have happened before the error.
CheckpointFails ==
  /\ "flush" \in Faults
  /\ pc \in {"flush", "rotate"}
  /\ ckpt' \in {ckpt} \cup IF pc = "flush" /\ flushed = NTrees THEN {Target} ELSE {}
  /\ Abandon
  /\ UNCHANGED <<logVars, mem, disk, fences, applied, pending, todo, flushed,
                 resume, acked>>

\* rotate after its rename: sync_parent_dir returns the error and reset_handle
\* is not reached, so the cached handle keeps the unlinked inode.
RotateLosesHandle ==
  /\ "rotate_dirsync" \in Faults
  /\ pc = "rotate" /\ log # Suffix
  /\ log' = Suffix
  /\ orphan' = TRUE
  /\ Abandon
  /\ UNCHANGED <<synced, nextSeq, nextTx, nextWrite, stray, stateVars, todo,
                 flushed, resume, acked>>

-----------------------------------------------------------------------------
(* The flush outside the lock, and the answer to the client.                *)

\* sync_pending returned Ok to the unit's writer: some fsync has covered the
\* unit's last record.  Of what else that fsync covered only the least is
\* assumed.  A writer whose flush failed stays in waiting: nothing else changes.
Acknowledge(u) ==
  /\ synced' = Larger(synced, u.last)
  /\ acked' = acked \cup u.ops
  /\ waiting' = waiting \ {u}
  /\ UNCHANGED <<log, orphan, nextSeq, nextTx, nextWrite, stray, stateVars,
                 lockVars>>

-----------------------------------------------------------------------------
(* Crashes and recovery.                                                    *)

\* The process dies.  Bytes it has appended stay in the file, synced or not.
LoseMemory ==
  /\ pc # "down"
  /\ pc' = "down"
  /\ orphan' = FALSE /\ nextSeq' = 1 /\ nextTx' = 1
  /\ mem' = disk /\ fences' = {} /\ applied' = 0 /\ pending' = 0
  /\ unit' = NoUnit /\ todo' = {} /\ flushed' = 0 /\ resume' = "idle"
  /\ waiting' = {}
  /\ UNCHANGED <<nextWrite, stray, disk, ckpt, acked>>

Crash == LoseMemory /\ UNCHANGED <<log, synced>>

\* The machine dies.  Any part of the log beyond the synced prefix may be gone
\* (a torn last record is gone too: recovery truncates it).
PowerLoss ==
  /\ "power" \in Faults
  /\ LoseMemory
  /\ \E s \in {synced} \cup {r.seq : r \in log} :
       /\ s >= synced
       /\ log' = {r \in log : r.seq <= s}
       /\ synced' = s

Highest(S) == CHOOSE n \in S : \A m \in S : m <= n

\* The counters of a new process continue past every number in the file, and
\* sequences past the checkpoint too.
SequenceFloorFromLog == Highest({0} \cup {r.seq : r \in log})

SequenceFloor == Highest({ckpt} \cup {r.seq : r \in log})

TransactionFloor == Highest({0} \cup {r.tx : r \in log})

\* Sequences recovery reports to note_recovered.
Replayed == {r.seq : r \in {q \in Suffix : \/ q.tx = 0
                                           \/ q.op = "commit"}}

recover ==
  /\ pc = "down"
  /\ classify_transactions(Suffix)
  /\ nextSeq' = SequenceFloor + 1
  /\ nextTx' = TransactionFloor + 1
  /\ synced' = Smaller(synced, SequenceFloor)
  /\ mem' = Recovered
  /\ applied' = Highest({0} \cup Replayed)
  /\ pc' = "flush"
  /\ UNCHANGED <<log, orphan, nextWrite, stray, disk, ckpt, fences, pending, unit,
                 todo, flushed, resume, clientVars>>

-----------------------------------------------------------------------------
Next ==
  \/ open \/ commit \/ drop \/ FailedFirstAppend
  \/ \E k \in Keys : stage(k) \/ standalone(k)
  \/ apply_committed \/ ApplyFails \/ settle
  \/ Shutdown \/ CommitTree \/ advance \/ rotate
  \/ CheckpointFails \/ RotateLosesHandle
  \/ \E u \in waiting : Acknowledge(u)
  \/ Crash \/ PowerLoss \/ recover

Spec == Init /\ [][Next]_vars

-----------------------------------------------------------------------------
(* Properties.                                                              *)

\* Every variable holds a value of its kind.
TypeOK ==
  /\ log \subseteq WalRecord /\ orphan \in BOOLEAN
  /\ synced \in Nat /\ nextSeq \in Nat \ {0} /\ nextTx \in Nat \ {0}
  /\ nextWrite \in Nat \ {0} /\ stray \subseteq Nat
  /\ mem \in [Keys -> Nat] /\ disk \in [Keys -> Nat]
  /\ ckpt \in Nat /\ fences \subseteq Nat /\ applied \in Nat /\ pending \in Nat
  /\ pc \in {"idle", "stage", "apply", "flush", "rotate", "stopped", "down"}
  /\ unit \in Unit /\ todo \subseteq unit.ops
  /\ flushed \in 0 .. NTrees /\ resume \in {"idle", "stopped"}
  /\ waiting \subseteq Unit /\ acked \subseteq WalRecord

\* Whatever happens next, a crash now brings back every acknowledged write (or
\* a newer write of the same entry): sync_pending returned for it, and neither
\* the checkpoint, rotation, a crash, a power loss nor a recovery undoes that.
AckedRecoverable == \A a \in acked : Recovered[a.key] >= a.val

\* The same whatever fails, for the writes appended while the cached handle's file
\* had its name: those that a rotation which lost the handle did not mislead.
NamedWritesSurvive ==
  \A a \in acked : a.val \notin stray => Recovered[a.key] >= a.val

\* Recovery can always explain the log it finds: the checkpoint and rotation
\* never cut a frame in two, and no transaction or sequence number is reused,
\* so classify_transactions never refuses startup.
RecoveryNeverRefuses == classify_transactions(Suffix)

\* The checkpoint never runs ahead (checkpoint.rs): an effective mutation at or
\* below it is in the committed trees.
CheckpointReflected ==
  \A r \in Effective(log) : r.seq <= ckpt => disk[r.key] >= r.val

\* Between writes, and unless a batch failed while it was applied, what readers
\* see is what a restart would bring back.
VisibleIsRecoverable == pc = "idle" /\ fences = {} => mem = Recovered

Writes(S) == {[key |-> r.key, val |-> r.val] : r \in S}

Store == INSTANCE DurableStore
           WITH store <- Recovered,
                staged <- IF pc = "stage" THEN Writes(unit.ops) ELSE {},
                acked <- Writes(acked)

\* The core implements DurableStore: only the COMMIT of a frame or the append
\* of a standalone record changes what a restart brings back, all at once.
ImplementsDurableStore == Store!Spec
=============================================================================
