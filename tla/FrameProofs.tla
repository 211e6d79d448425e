---------------------------- MODULE FrameProofs ----------------------------
(***************************************************************************)
(* RecoveryNeverRefuses of Durability, whatever fails: no checkpoint, no   *)
(* rotation and no reuse of a number cuts a frame of the log in two.       *)
(* RangeStep, about the numbers of the writes, is for CheckpointProofs.    *)
(***************************************************************************)
EXTENDS DurabilityProofs

-----------------------------------------------------------------------------
(* The bound of the write numbers.                                         *)

\* The number of a write is within its bound, also once its unit is acknowledged.
LEMMA RangeStep == TypeInv /\ InRange /\ [Next]_vars => InRange'
<1> SUFFICES ASSUME TypeInv, InRange, [Next]_vars PROVE InRange'
  OBVIOUS
<1>0. nextWrite \in Nat \ {0}
  BY DEF TypeInv, TypeOK
<1>1. ASSUME Written' \subseteq Written PROVE InRange'
  BY <1>1 DEF InRange
<1>2. ASSUME NEW p, Written' \subseteq Written \cup {p}, p.val \in 1 .. MaxWrite
      PROVE  InRange'
  BY <1>2 DEF InRange
<1>3. NoUnit.ops = {}
  BY DEF NoUnit
<1>4. Release => Written' \subseteq Written \cup acked'
  BY <1>3 DEF Release, Written, OpsOf
<1>5. ASSUME NEW k \in Keys, stage(k) PROVE InRange'
  <2>1. Written' \subseteq Written \cup {Put(unit.tx, k)}
    BY <1>5 DEF stage, clientVars, Written, TypeInv, TypeOK, Unit
  <2>2. nextWrite <= MaxWrite
    BY <1>5 DEF stage
  <2>3. Put(unit.tx, k).val \in 1 .. MaxWrite
    BY <1>0, <2>2, ConstantsAssumption DEF Put
  <2> QED  BY <1>2, <2>1, <2>3
<1>6. ASSUME NEW k \in Keys, standalone(k) PROVE InRange'
  <2>1. Written' \subseteq Written \cup {Put(0, k)}
    BY <1>6 DEF standalone, clientVars, Written
  <2>2. nextWrite <= MaxWrite
    BY <1>6 DEF standalone
  <2>3. Put(0, k).val \in 1 .. MaxWrite
    BY <1>0, <2>2, ConstantsAssumption DEF Put
  <2> QED  BY <1>2, <2>1, <2>3
<1>7. CASE open \/ drop \/ ApplyFails
  BY <1>1, <1>3, <1>7 DEF open, drop, ApplyFails, clientVars, Written
<1>8. CASE commit
  BY <1>1, <1>8 DEF commit, clientVars, Written, TypeInv, TypeOK, Unit
<1>9. CASE settle
  BY <1>1, <1>4, <1>9 DEF settle, Written
<1>10. CASE rotate \/ CheckpointFails \/ RotateLosesHandle
  BY <1>1, <1>4, <1>10 DEF rotate, CheckpointFails, RotateLosesHandle, Abandon, Written
<1>11. ASSUME NEW u \in waiting, Acknowledge(u) PROVE InRange'
  BY <1>1, <1>11 DEF Acknowledge, lockVars, Written, OpsOf
<1>12. CASE Crash \/ PowerLoss
  BY <1>1, <1>3, <1>12 DEF Crash, PowerLoss, LoseMemory, Written, OpsOf
<1>13. CASE FailedFirstAppend \/ apply_committed \/ Shutdown \/ CommitTree \/ advance \/ recover
  BY <1>1, <1>13 DEF FailedFirstAppend, apply_committed, Shutdown, CommitTree, advance,
                     recover, lockVars, clientVars, Written
<1>14. CASE UNCHANGED vars
  BY <1>1, <1>14 DEF vars, lockVars, clientVars, Written
<1> QED
  BY <1>5, <1>6, <1>7, <1>8, <1>9, <1>10, <1>11, <1>12, <1>13, <1>14 DEF Next

-----------------------------------------------------------------------------
(* The inductive invariant.                                                *)

\* In the records of a transaction BEGIN is first, COMMIT and ABORT are last, and
\* a record outside a transaction is a mutation.
Nested(L) ==
  /\ \A r \in L : r.tx = 0 => r.op = "put"
  /\ \A t, r \in L : t.op \in {"commit", "abort"} /\ r.tx = t.tx => r.seq <= t.seq
  /\ \A b, r \in L : b.op = "begin" /\ r.tx = b.tx => b.seq <= r.seq

\* The frame that c closes begins in L above cp, and nothing the checkpoint may
\* move to, m or just below a fence of F, is inside it.
Whole(L, cp, m, F, c) ==
  \E b \in L :
    /\ b.op = "begin" /\ b.tx = c.tx /\ b.seq > cp
    /\ ~ (b.seq <= m /\ m < c.seq)
    /\ \A f \in F : ~ (b.seq < f /\ f <= c.seq)

Uncut ==
  \A c \in log : c.op = "commit" /\ c.seq > ckpt => Whole(log, ckpt, applied, fences, c)

\* Numbers in use are below the counters they were drawn from.
Counted ==
  /\ pc # "down" => /\ ckpt < nextSeq /\ applied < nextSeq
                    /\ \A r \in log : r.seq < nextSeq /\ r.tx < nextTx
                    /\ \A f \in fences : f < nextSeq
  /\ pc = "down" => fences = {}

\* The open frame lies above all that was committed or fenced before it, and the
\* log has its BEGIN unless the handle is lost.
OpenFrame ==
  pc = "stage" =>
    /\ unit.tx # 0 /\ unit.tx < nextTx
    /\ ckpt < unit.begin /\ applied < unit.begin /\ unit.begin < nextSeq
    /\ \A f \in fences : f <= unit.begin
    /\ ~ orphan => \E b \in log : b.op = "begin" /\ b.tx = unit.tx /\ b.seq = unit.begin
    /\ \A r \in log : r.tx = unit.tx => r.op \in {"begin", "put"}

\* The unit being applied is the last of the log.
LastUnit == pc = "apply" => unit.last < nextSeq /\ \A r \in log : r.seq <= unit.last

Frames == Nested(log) /\ Uncut /\ Counted /\ OpenFrame /\ LastUnit

FInv == TypeInv /\ Frames

-----------------------------------------------------------------------------
(* Lemmas about the operators.                                             *)

\* The fields of a log record are naturals.
LEMMA RecordFields ==
  ASSUME TypeInv
  PROVE  \A r \in log : r.seq \in Nat /\ r.tx \in Nat
BY DEF TypeInv, TypeOK, WalRecord

\* A frame stays whole when the log loses no record, the checkpoint stays where
\* it was or moves to a place not inside the frame, and no fence is added.
LEMMA WholeKept ==
  ASSUME NEW L, NEW M, NEW cp, NEW m, NEW F, NEW G, NEW c,
         Whole(L, cp, m, F, c), L \subseteq M, G \subseteq F
  PROVE  Whole(M, cp, m, G, c)
BY DEF Whole

\* Where checkpoint::advance_to moves the checkpoint: nowhere, to the applied
\* sequence, or to just below a fence.
LEMMA TargetCases ==
  ASSUME TypeInv
  PROVE  \/ Target = ckpt
         \/ Target = applied
         \/ \E f \in fences : f \in Nat /\ Target = f - 1
<1> USE DEF TypeInv
<1>1. CASE fences = {}
  BY <1>1 DEF Target, Clamped, Larger
<1>2. CASE fences # {}
  <2> DEFINE f == CHOOSE f \in fences : \A g \in fences : f <= g
  <2>1. f \in fences
    BY <1>2, LeastExists, Zenon DEF TypeOK
  <2>2. Clamped(applied) = Smaller(applied, f - 1)
    BY <1>2 DEF Clamped
  <2> HIDE DEF f
  <2>3. f \in Nat
    BY <2>1 DEF TypeOK
  <2> QED  BY <2>1, <2>2, <2>3 DEF Target, Smaller, Larger
<1> QED  BY <1>1, <1>2

\* The checkpoint a whole frame sees move does not end up inside it.
LEMMA WholeAboveTarget ==
  ASSUME TypeInv, NEW c \in log, c.seq > Target, Whole(log, ckpt, applied, fences, c)
  PROVE  Whole(log, Target, applied, fences, c)
<1>1. c.seq \in Nat /\ \A b \in log : b.seq \in Nat
  BY RecordFields
<1>2. PICK b \in log : /\ b.op = "begin" /\ b.tx = c.tx /\ b.seq > ckpt
                       /\ ~ (b.seq <= applied /\ applied < c.seq)
                       /\ \A f \in fences : ~ (b.seq < f /\ f <= c.seq)
  BY DEF Whole
<1>3. applied \in Nat /\ ckpt \in Nat /\ Target \in Nat
  BY TargetBounds DEF TypeInv, TypeOK
<1>4. b.seq > Target
  <2>1. CASE Target = ckpt
    BY <1>2, <2>1
  <2>2. CASE Target = applied
    BY <1>1, <1>2, <1>3, <2>2
  <2>3. ASSUME NEW f \in fences, f \in Nat, Target = f - 1
        PROVE  b.seq > Target
    BY <1>1, <1>2, <1>3, <2>3
  <2> QED  BY <2>1, <2>2, <2>3, TargetCases
<1> QED  BY <1>2, <1>4 DEF Whole

\* Dropping what is at or below the checkpoint keeps the frames above it whole.
LEMMA WholeInSuffix ==
  ASSUME NEW c, Whole(log, ckpt, applied, fences, c)
  PROVE  Whole(Suffix, ckpt, applied, fences, c)
BY DEF Whole, Suffix

\* A part of a well-nested log is well nested.
LEMMA NestedPart ==
  ASSUME NEW L, NEW M, Nested(L), M \subseteq L
  PROVE  Nested(M)
BY DEF Nested

-----------------------------------------------------------------------------
(* Init and every step.                                                    *)

\* The log of a new data directory has no frames.
LEMMA FrameInit == Init => FInv
<1> SUFFICES ASSUME Init PROVE FInv
  OBVIOUS
<1>1. TypeInv
  BY TypeInit
<1>2. Frames
  BY DEF Init, Frames, Nested, Uncut, Counted, OpenFrame, LastUnit
<1> QED  BY <1>1, <1>2 DEF FInv

\* BEGIN draws a transaction number no record of the log has, and its fence is
\* above every COMMIT there is.
LEMMA FrameOpen == FInv /\ open => Frames'
<1> SUFFICES ASSUME FInv, open PROVE Frames'
  OBVIOUS
<1> USE DEF FInv
<1> DEFINE b == Record(nextSeq, nextTx, "begin")
<1>1. b.seq = nextSeq /\ b.tx = nextTx /\ b.op = "begin"
  BY DEF Record
<1>2. log' = log \/ log' = log \cup {b}
  BY DEF open, append
<1>3. ~ orphan => b \in log'
  BY DEF open, append
<1> HIDE DEF b
<1>4. /\ nextSeq \in Nat /\ nextTx \in Nat /\ nextTx > 0 /\ ckpt \in Nat
      /\ applied \in Nat /\ fences \subseteq Nat
  BY DEF TypeInv, TypeOK
<1>5. \A r \in log : r.seq \in Nat /\ r.tx \in Nat /\ r.seq < nextSeq /\ r.tx < nextTx
  BY RecordFields DEF open, Frames, Counted
<1>6. /\ ckpt < nextSeq /\ applied < nextSeq /\ \A f \in fences : f < nextSeq
  BY DEF open, Frames, Counted
<1>7. /\ pc' = "stage" /\ nextSeq' = nextSeq + 1 /\ nextTx' = nextTx + 1
      /\ fences' = fences \cup {nextSeq} /\ ckpt' = ckpt /\ applied' = applied
      /\ unit'.tx = nextTx /\ unit'.begin = nextSeq /\ orphan' = orphan
  BY DEF open
<1>8. Nested(log')
  BY <1>1, <1>2, <1>4, <1>5 DEF Frames, Nested
<1>9. Uncut'
  <2> SUFFICES ASSUME NEW c \in log', c.op = "commit", c.seq > ckpt
               PROVE  Whole(log', ckpt, applied, fences', c)
    BY <1>7 DEF Uncut
  <2>1. c \in log
    BY <1>1, <1>2
  <2>2. PICK d \in log : /\ d.op = "begin" /\ d.tx = c.tx /\ d.seq > ckpt
                         /\ ~ (d.seq <= applied /\ applied < c.seq)
                         /\ \A f \in fences : ~ (d.seq < f /\ f <= c.seq)
    BY <2>1 DEF Frames, Uncut, Whole
  <2>3. \A f \in fences' : ~ (d.seq < f /\ f <= c.seq)
    BY <1>4, <1>5, <1>7, <2>1, <2>2
  <2>4. d \in log'
    BY <1>2
  <2> QED  BY <2>2, <2>3, <2>4 DEF Whole
<1>10. Counted'
  BY <1>1, <1>2, <1>4, <1>5, <1>6, <1>7 DEF Counted
<1>11. OpenFrame'
  BY <1>1, <1>2, <1>3, <1>4, <1>5, <1>6, <1>7 DEF OpenFrame
<1>12. LastUnit'
  BY <1>7 DEF LastUnit
<1> QED  BY <1>8, <1>9, <1>10, <1>11, <1>12 DEF Frames

\* A staged mutation joins a frame that has no COMMIT or ABORT.
LEMMA FrameStage ==
  ASSUME NEW k \in Keys
  PROVE  FInv /\ stage(k) => Frames'
<1> SUFFICES ASSUME FInv, stage(k) PROVE Frames'
  OBVIOUS
<1> USE DEF FInv
<1> DEFINE p == Put(unit.tx, k)
<1>1. p.seq = nextSeq /\ p.tx = unit.tx /\ p.op = "put"
  BY DEF Put
<1>2. log' = log \/ log' = log \cup {p}
  BY DEF stage, append
<1> HIDE DEF p
<1>3. /\ nextSeq \in Nat /\ nextTx \in Nat /\ ckpt \in Nat
      /\ applied \in Nat /\ fences \subseteq Nat /\ unit.tx \in Nat /\ unit.begin \in Nat
  BY DEF TypeInv, TypeOK, Unit
<1>4. \A r \in log : r.seq \in Nat /\ r.tx \in Nat /\ r.seq < nextSeq /\ r.tx < nextTx
  BY RecordFields DEF stage, Frames, Counted
<1>5. /\ unit.tx # 0 /\ unit.tx < nextTx
      /\ \A r \in log : r.tx = unit.tx => r.op \in {"begin", "put"}
  BY DEF stage, Frames, OpenFrame
<1>6. /\ pc = "stage" /\ pc' = "stage" /\ nextSeq' = nextSeq + 1 /\ nextTx' = nextTx
      /\ fences' = fences /\ ckpt' = ckpt /\ applied' = applied /\ orphan' = orphan
  BY DEF stage, stateVars
<1>7. unit'.tx = unit.tx /\ unit'.begin = unit.begin
  BY DEF stage, TypeInv, TypeOK, Unit
<1>8. Nested(log')
  BY <1>1, <1>2, <1>3, <1>4, <1>5 DEF Frames, Nested
<1>9. Uncut'
  BY <1>1, <1>2, <1>6, WholeKept DEF Frames, Uncut
<1>10. Counted'
  BY <1>1, <1>2, <1>3, <1>4, <1>5, <1>6 DEF Frames, Counted
<1>11. OpenFrame'
  BY <1>1, <1>2, <1>3, <1>6, <1>7 DEF Frames, OpenFrame
<1>12. LastUnit'
  BY <1>6 DEF LastUnit
<1> QED  BY <1>8, <1>9, <1>10, <1>11, <1>12 DEF Frames

\* COMMIT is the last record of its frame; the frame begins above the checkpoint,
\* above what was applied and at or above every fence.
LEMMA FrameCommit == FInv /\ commit => Frames'
<1> SUFFICES ASSUME FInv, commit PROVE Frames'
  OBVIOUS
<1> USE DEF FInv
<1> DEFINE c == Record(nextSeq, unit.tx, "commit")
<1>1. c.seq = nextSeq /\ c.tx = unit.tx /\ c.op = "commit"
  BY DEF Record
<1>2. log' = log \/ (log' = log \cup {c} /\ ~ orphan)
  BY DEF commit, append
<1> HIDE DEF c
<1>3. /\ nextSeq \in Nat /\ nextTx \in Nat /\ ckpt \in Nat
      /\ applied \in Nat /\ fences \subseteq Nat /\ unit.tx \in Nat /\ unit.begin \in Nat
  BY DEF TypeInv, TypeOK, Unit
<1>4. \A r \in log : r.seq \in Nat /\ r.tx \in Nat /\ r.seq < nextSeq /\ r.tx < nextTx
  BY RecordFields DEF commit, Frames, Counted
<1>5. /\ unit.tx # 0 /\ unit.tx < nextTx
      /\ ckpt < unit.begin /\ applied < unit.begin
      /\ \A f \in fences : f <= unit.begin
      /\ ~ orphan => \E b \in log : b.op = "begin" /\ b.tx = unit.tx /\ b.seq = unit.begin
      /\ \A r \in log : r.tx = unit.tx => r.op \in {"begin", "put"}
  BY DEF commit, Frames, OpenFrame
<1>6. /\ pc = "stage" /\ pc' = "apply" /\ nextSeq' = nextSeq + 1 /\ nextTx' = nextTx
      /\ fences' = fences /\ ckpt' = ckpt /\ applied' = applied /\ orphan' = orphan
  BY DEF commit, stateVars
<1>7. unit'.last = nextSeq
  BY DEF commit, TypeInv, TypeOK, Unit
<1>8. Nested(log')
  BY <1>1, <1>2, <1>3, <1>4, <1>5 DEF Frames, Nested
<1>9. Uncut'
  <2> SUFFICES ASSUME NEW d \in log', d.op = "commit", d.seq > ckpt
               PROVE  Whole(log', ckpt, applied, fences, d)
    BY <1>6 DEF Uncut
  <2>1. CASE d \in log
    BY <1>2, <2>1, WholeKept DEF Frames, Uncut
  <2>2. CASE d = c /\ ~ orphan
    <3>1. PICK b \in log : b.op = "begin" /\ b.tx = unit.tx /\ b.seq = unit.begin
      BY <1>5, <2>2
    <3>2. /\ b.tx = d.tx /\ b.seq > ckpt /\ ~ (b.seq <= applied)
          /\ \A f \in fences : ~ (b.seq < f)
      BY <1>1, <1>3, <1>5, <2>2, <3>1
    <3>3. b \in log'
      BY <1>2
    <3> QED  BY <3>1, <3>2, <3>3 DEF Whole
  <2> QED  BY <1>2, <2>1, <2>2
<1>10. Counted'
  BY <1>1, <1>2, <1>3, <1>4, <1>5, <1>6 DEF Frames, Counted
<1>11. OpenFrame' /\ LastUnit'
  BY <1>1, <1>2, <1>3, <1>4, <1>6, <1>7 DEF OpenFrame, LastUnit
<1> QED  BY <1>8, <1>9, <1>10, <1>11 DEF Frames

\* A dropped frame ends with its ABORT, or with nothing; its fence may go.
LEMMA FrameDrop == FInv /\ drop => Frames'
<1> SUFFICES ASSUME FInv, drop PROVE Frames'
  OBVIOUS
<1> USE DEF FInv
<1> DEFINE a == Record(nextSeq + 1, unit.tx, "abort")
<1>1. a.seq = nextSeq + 1 /\ a.tx = unit.tx /\ a.op = "abort"
  BY DEF Record
<1>2. log' = log \/ log' = log \cup {a}
  BY DEF drop, append
<1> HIDE DEF a
<1>3. nextSeq \in Nat /\ nextTx \in Nat /\ ckpt \in Nat /\ applied \in Nat
      /\ fences \subseteq Nat /\ unit.tx \in Nat
  BY DEF TypeInv, TypeOK, Unit
<1>4. \A r \in log : r.seq \in Nat /\ r.tx \in Nat /\ r.seq < nextSeq /\ r.tx < nextTx
  BY RecordFields DEF drop, Frames, Counted
<1>5. /\ unit.tx # 0 /\ unit.tx < nextTx
      /\ \A r \in log : r.tx = unit.tx => r.op \in {"begin", "put"}
  BY DEF drop, Frames, OpenFrame
<1>6. /\ pc = "stage" /\ pc' = "idle" /\ nextSeq' = nextSeq + 2 /\ nextTx' = nextTx
      /\ fences' \subseteq fences /\ ckpt' = ckpt /\ applied' = applied
  BY DEF drop
<1>7. Nested(log')
  BY <1>1, <1>2, <1>3, <1>4, <1>5 DEF Frames, Nested
<1>8. Uncut'
  BY <1>1, <1>2, <1>6, WholeKept DEF Frames, Uncut
<1>9. Counted'
  BY <1>1, <1>2, <1>3, <1>4, <1>5, <1>6 DEF Frames, Counted
<1>10. OpenFrame' /\ LastUnit'
  BY <1>6 DEF OpenFrame, LastUnit
<1> QED  BY <1>7, <1>8, <1>9, <1>10 DEF Frames

\* A standalone mutation belongs to no frame.
LEMMA FrameStandalone ==
  ASSUME NEW k \in Keys
  PROVE  FInv /\ standalone(k) => Frames'
<1> SUFFICES ASSUME FInv, standalone(k) PROVE Frames'
  OBVIOUS
<1> USE DEF FInv
<1> DEFINE p == Put(0, k)
<1>1. p.seq = nextSeq /\ p.tx = 0 /\ p.op = "put"
  BY DEF Put
<1>2. log' = log \/ log' = log \cup {p}
  BY DEF standalone, append
<1> HIDE DEF p
<1>3. /\ nextSeq \in Nat /\ nextTx \in Nat /\ nextTx > 0 /\ ckpt \in Nat
      /\ applied \in Nat /\ fences \subseteq Nat
  BY DEF TypeInv, TypeOK
<1>4. \A r \in log : r.seq \in Nat /\ r.tx \in Nat /\ r.seq < nextSeq /\ r.tx < nextTx
  BY RecordFields DEF standalone, Frames, Counted
<1>5. /\ pc = "idle" /\ pc' = "apply" /\ nextSeq' = nextSeq + 1 /\ nextTx' = nextTx
      /\ fences' = fences /\ ckpt' = ckpt /\ applied' = applied /\ unit'.last = nextSeq
  BY DEF standalone, stateVars
<1>6. Nested(log')
  BY <1>1, <1>2, <1>3, <1>4 DEF Frames, Nested
<1>7. Uncut'
  BY <1>1, <1>2, <1>5, WholeKept DEF Frames, Uncut
<1>8. Counted'
  BY <1>1, <1>2, <1>3, <1>4, <1>5 DEF Frames, Counted
<1>9. OpenFrame' /\ LastUnit'
  BY <1>1, <1>2, <1>3, <1>4, <1>5 DEF OpenFrame, LastUnit
<1> QED  BY <1>6, <1>7, <1>8, <1>9 DEF Frames

\* Once a unit is applied nothing of the log is above the applied sequence.
LEMMA FrameSettle == FInv /\ settle => Frames'
<1> SUFFICES ASSUME FInv, settle PROVE Frames'
  OBVIOUS
<1> USE DEF FInv
<1>1. /\ ckpt \in Nat /\ applied \in Nat /\ unit.last \in Nat /\ nextSeq \in Nat
  BY DEF TypeInv, TypeOK, Unit
<1>2. /\ unit.last < nextSeq /\ \A r \in log : r.seq \in Nat /\ r.seq <= unit.last
  BY RecordFields DEF settle, Frames, LastUnit
<1>3. /\ pc = "apply" /\ pc' \in {"idle", "flush"} /\ nextSeq' = nextSeq
      /\ nextTx' = nextTx /\ fences' \subseteq fences /\ ckpt' = ckpt /\ log' = log
      /\ applied' = Larger(applied, unit.last)
  BY DEF settle, logVars
<1>4. applied' \in Nat /\ applied' < nextSeq /\ \A r \in log : ~ (applied' < r.seq)
  BY <1>1, <1>2, <1>3 DEF Frames, Counted, Larger
<1>5. Uncut'
  BY <1>3, <1>4 DEF Frames, Uncut, Whole
<1>6. Counted'
  BY <1>3, <1>4 DEF Frames, Counted
<1>7. OpenFrame' /\ LastUnit'
  BY <1>3 DEF OpenFrame, LastUnit
<1> QED  BY <1>3, <1>5, <1>6, <1>7 DEF Frames

\* Steps that touch neither the log nor what recovery compares it with.
LEMMA FrameQuiet ==
  ASSUME FInv, pc # "down", pc' # "down",
         log' = log, ckpt' = ckpt, fences' = fences, applied' = applied,
         orphan' = orphan, nextSeq' \in Nat, nextSeq <= nextSeq',
         nextTx' \in Nat, nextTx <= nextTx',
         pc' \in {"stage", "apply"} => pc' = pc /\ unit' = unit
  PROVE  Frames'
<1> USE DEF FInv
<1>1. /\ ckpt \in Nat /\ applied \in Nat /\ nextSeq \in Nat /\ nextTx \in Nat
      /\ fences \subseteq Nat /\ \A r \in log : r.seq \in Nat /\ r.tx \in Nat
      /\ unit.tx \in Nat /\ unit.begin \in Nat /\ unit.last \in Nat
  BY RecordFields DEF TypeInv, TypeOK, Unit
<1>2. Nested(log') /\ Uncut'
  BY DEF Frames, Uncut
<1>3. Counted'
  BY <1>1 DEF Frames, Counted
<1>4. OpenFrame'
  BY <1>1 DEF Frames, OpenFrame
<1>5. LastUnit'
  BY <1>1 DEF Frames, LastUnit
<1> QED  BY <1>2, <1>3, <1>4, <1>5 DEF Frames

\* The checkpoint moves to its target, or stays: no frame has it inside.
LEMMA FrameCheckpoint ==
  ASSUME FInv, pc \in {"flush", "rotate"}, pc' \in {"rotate", "idle", "stopped"},
         ckpt' \in {ckpt, Target}, log' = log, fences' = fences, applied' = applied,
         nextSeq' = nextSeq, nextTx' = nextTx
  PROVE  Frames'
<1> USE DEF FInv
<1>1. ckpt \in Nat /\ Target \in Nat /\ applied \in Nat /\ nextSeq \in Nat
      /\ Target >= ckpt /\ (Target = ckpt \/ Target <= applied)
  BY TargetBounds DEF TypeInv, TypeOK
<1>2. Uncut'
  <2> SUFFICES ASSUME NEW c \in log, c.op = "commit", c.seq > ckpt'
               PROVE  Whole(log, ckpt', applied, fences, c)
    BY DEF Uncut
  <2>1. c.seq > ckpt
    BY <1>1, RecordFields
  <2>2. Whole(log, ckpt, applied, fences, c)
    BY <2>1 DEF Frames, Uncut
  <2> QED  BY <2>2, WholeAboveTarget
<1>3. Counted'
  BY <1>1 DEF Frames, Counted
<1>4. OpenFrame' /\ LastUnit'
  BY DEF OpenFrame, LastUnit
<1> QED  BY <1>2, <1>3, <1>4 DEF Frames

\* Rotation keeps every record recovery looks at.
LEMMA FrameRotate ==
  ASSUME FInv, pc = "rotate", pc' \in {"idle", "stopped"}, log' \in {log, Suffix},
         ckpt' = ckpt, fences' = fences, applied' = applied,
         nextSeq' = nextSeq, nextTx' = nextTx
  PROVE  Frames'
<1> USE DEF FInv
<1>1. log' \subseteq log
  BY DEF Suffix
<1>2. Nested(log')
  BY <1>1, NestedPart DEF Frames
<1>3. Uncut'
  <2> SUFFICES ASSUME NEW c \in log', c.op = "commit", c.seq > ckpt
               PROVE  Whole(log', ckpt, applied, fences, c)
    BY DEF Uncut
  <2>1. Whole(log, ckpt, applied, fences, c)
    BY <1>1 DEF Frames, Uncut
  <2> QED  BY <2>1, WholeInSuffix
<1>4. Counted'
  BY <1>1 DEF Frames, Counted
<1>5. OpenFrame' /\ LastUnit'
  BY DEF OpenFrame, LastUnit
<1> QED  BY <1>2, <1>3, <1>4, <1>5 DEF Frames

\* A crash forgets the fences and the applied sequence; a power loss also cuts
\* the end of the log, and a COMMIT that is left still has its BEGIN.
LEMMA FrameLoseMemory ==
  ASSUME FInv, LoseMemory, log' \subseteq log,
         \A b, c \in log : c \in log' /\ b.seq <= c.seq => b \in log'
  PROVE  Frames'
<1> USE DEF FInv
<1>1. pc' = "down" /\ fences' = {} /\ applied' = 0 /\ ckpt' = ckpt
  BY DEF LoseMemory
<1>2. Nested(log')
  BY NestedPart DEF Frames
<1>3. Uncut'
  <2> SUFFICES ASSUME NEW c \in log', c.op = "commit", c.seq > ckpt
               PROVE  Whole(log', ckpt, 0, {}, c)
    BY <1>1 DEF Uncut
  <2>1. PICK b \in log : b.op = "begin" /\ b.tx = c.tx /\ b.seq > ckpt
    BY DEF Frames, Uncut, Whole
  <2>2. b \in log'
    BY <2>1 DEF Frames, Nested
  <2>3. ~ (b.seq <= 0)
    BY <2>1, RecordFields DEF TypeInv, TypeOK
  <2> QED  BY <2>1, <2>2, <2>3 DEF Whole
<1>4. Counted' /\ OpenFrame' /\ LastUnit'
  BY <1>1 DEF Counted, OpenFrame, LastUnit
<1> QED  BY <1>2, <1>3, <1>4 DEF Frames

\* Recovery reports every COMMIT it replays, so the applied sequence it starts
\* from is above all of them.
LEMMA FrameRecover == FInv /\ recover => Frames'
<1> SUFFICES ASSUME FInv, recover PROVE Frames'
  OBVIOUS
<1> USE DEF FInv
<1>1. /\ SequenceFloor \in Nat /\ ckpt <= SequenceFloor
      /\ \A r \in log : r.seq <= SequenceFloor
      /\ TransactionFloor \in Nat /\ \A r \in log : r.tx <= TransactionFloor
      /\ applied' \in Nat /\ applied' <= SequenceFloor
      /\ \A n \in Replayed : n <= applied'
  BY FloorBounds DEF recover, TypeInv
<1>2. /\ pc = "down" /\ pc' = "flush" /\ log' = log /\ ckpt' = ckpt /\ fences' = fences
      /\ nextSeq' = SequenceFloor + 1 /\ nextTx' = TransactionFloor + 1
  BY DEF recover
<1>3. \A r \in log : r.seq \in Nat /\ r.tx \in Nat
  BY RecordFields
<1>4. Uncut'
  <2> SUFFICES ASSUME NEW c \in log, c.op = "commit", c.seq > ckpt
               PROVE  Whole(log, ckpt, applied', fences, c)
    BY <1>2 DEF Uncut
  <2>1. ~ (applied' < c.seq)
    <3>1. c.seq \in Replayed
      BY DEF Replayed, Suffix
    <3> QED  BY <1>1, <1>3, <3>1
  <2>2. Whole(log, ckpt, applied, fences, c)
    BY DEF Frames, Uncut
  <2> QED  BY <2>1, <2>2 DEF Whole
<1>5. Counted'
  <2>1. fences = {}
    BY <1>2 DEF Frames, Counted
  <2> QED  BY <1>1, <1>2, <1>3, <2>1 DEF Counted, TypeInv, TypeOK
<1>6. OpenFrame' /\ LastUnit'
  BY <1>2 DEF OpenFrame, LastUnit
<1> QED  BY <1>2, <1>4, <1>5, <1>6 DEF Frames

\* Every step of the engine keeps the frames whole, whatever fails.
LEMMA FrameStep == FInv /\ [Next]_vars => FInv'
<1> SUFFICES ASSUME FInv, [Next]_vars PROVE Frames'
  BY TypeStep DEF FInv
<1> USE DEF FInv
<1>1. nextSeq \in Nat /\ nextTx \in Nat /\ resume \in {"idle", "stopped"}
  BY DEF TypeInv, TypeOK
<1>2. CASE open
  BY <1>2, FrameOpen
<1>3. ASSUME NEW k \in Keys, stage(k) \/ standalone(k) PROVE Frames'
  BY <1>3, FrameStage, FrameStandalone
<1>4. CASE commit
  BY <1>4, FrameCommit
<1>5. CASE drop
  BY <1>5, FrameDrop
<1>6. CASE FailedFirstAppend
  <2>1. /\ pc' = "idle" /\ pc = "idle" /\ nextSeq' = nextSeq + 1
        /\ nextTx' \in {nextTx, nextTx + 1}
        /\ UNCHANGED <<log, ckpt, fences, applied, orphan, unit>>
    BY <1>6 DEF FailedFirstAppend, stateVars, lockVars
  <2> QED  BY <1>1, <2>1, FrameQuiet
<1>7. CASE apply_committed
  <2>1. /\ pc' = "apply" /\ pc = "apply"
        /\ UNCHANGED <<nextSeq, nextTx, log, ckpt, fences, applied, orphan, unit>>
    BY <1>7 DEF apply_committed, logVars
  <2> QED  BY <1>1, <2>1, FrameQuiet
<1>8. CASE ApplyFails
  <2>1. /\ pc' = "idle" /\ pc = "apply"
        /\ UNCHANGED <<nextSeq, nextTx, log, ckpt, fences, applied, orphan>>
    BY <1>8 DEF ApplyFails, logVars
  <2> QED  BY <1>1, <2>1, FrameQuiet
<1>9. CASE settle
  BY <1>9, FrameSettle
<1>10. CASE Shutdown
  <2>1. /\ pc' = "flush" /\ pc = "idle"
        /\ UNCHANGED <<nextSeq, nextTx, log, ckpt, fences, applied, orphan>>
    BY <1>10 DEF Shutdown, logVars, stateVars
  <2> QED  BY <1>1, <2>1, FrameQuiet
<1>11. CASE CommitTree
  <2>1. /\ pc' = "flush" /\ pc = "flush"
        /\ UNCHANGED <<nextSeq, nextTx, log, ckpt, fences, applied, orphan>>
    BY <1>11 DEF CommitTree, logVars
  <2> QED  BY <1>1, <2>1, FrameQuiet
<1>12. CASE advance
  <2>1. /\ pc' = "rotate" /\ pc = "flush" /\ ckpt' = Target
        /\ UNCHANGED <<nextSeq, nextTx, log, fences, applied>>
    BY <1>12 DEF advance, logVars
  <2> QED  BY <2>1, FrameCheckpoint
<1>13. CASE rotate
  <2>1. /\ pc' = resume /\ pc = "rotate" /\ log' \in {log, Suffix}
        /\ UNCHANGED <<nextSeq, nextTx, ckpt, fences, applied>>
    BY <1>13 DEF rotate, stateVars
  <2> QED  BY <1>1, <2>1, FrameRotate
<1>14. CASE CheckpointFails
  <2>1. /\ pc' \in {"idle", "stopped"} /\ pc \in {"flush", "rotate"}
        /\ ckpt' \in {ckpt, Target}
        /\ UNCHANGED <<nextSeq, nextTx, log, fences, applied>>
    BY <1>14 DEF CheckpointFails, Abandon, logVars
  <2> QED  BY <2>1, FrameCheckpoint
<1>15. CASE RotateLosesHandle
  <2>1. /\ pc' \in {"idle", "stopped"} /\ pc = "rotate" /\ log' = Suffix
        /\ UNCHANGED <<nextSeq, nextTx, ckpt, fences, applied>>
    BY <1>15 DEF RotateLosesHandle, Abandon, stateVars
  <2> QED  BY <2>1, FrameRotate
<1>16. ASSUME NEW u \in waiting, Acknowledge(u) PROVE Frames'
  <2>1. UNCHANGED <<nextSeq, nextTx, log, ckpt, fences, applied, orphan, pc, unit>>
    BY <1>16, Zenon DEF Acknowledge, stateVars, lockVars
  <2> QED  BY <2>1 DEF Frames, Nested, Uncut, Counted, OpenFrame, LastUnit
<1>17. CASE Crash
  BY <1>17, FrameLoseMemory DEF Crash
<1>18. CASE PowerLoss
  <2>1. PICK s \in {synced} \cup {r.seq : r \in log} : log' = {r \in log : r.seq <= s}
    BY <1>18 DEF PowerLoss
  <2>2. s \in Nat /\ \A r \in log : r.seq \in Nat
    BY RecordFields DEF TypeInv, TypeOK
  <2>3. \A b, c \in log : c \in log' /\ b.seq <= c.seq => b \in log'
    BY <2>1, <2>2
  <2> QED  BY <1>18, <2>1, <2>3, FrameLoseMemory DEF PowerLoss
<1>19. CASE recover
  BY <1>19, FrameRecover
<1>20. CASE UNCHANGED vars
  <2>1. UNCHANGED <<nextSeq, nextTx, log, ckpt, fences, applied, orphan, pc, unit>>
    BY <1>20 DEF vars, logVars, stateVars, lockVars
  <2> QED  BY <2>1 DEF Frames, Nested, Uncut, Counted, OpenFrame, LastUnit
<1> QED
  BY <1>2, <1>3, <1>4, <1>5, <1>6, <1>7, <1>8, <1>9, <1>10, <1>11, <1>12, <1>13,
     <1>14, <1>15, <1>16, <1>17, <1>18, <1>19, <1>20 DEF Next

\* A log of whole frames is one classify_transactions accepts.
LEMMA WholeIsAccepted == FInv => RecoveryNeverRefuses
<1> SUFFICES ASSUME FInv PROVE classify_transactions(Suffix)
  BY DEF RecoveryNeverRefuses
<1>1. Nested(Suffix)
  BY NestedPart DEF FInv, Frames, Suffix
<1>2. ASSUME NEW t \in {r.tx : r \in Suffix} \ {0}
      PROVE  FrameAccepted({r \in Suffix : r.tx = t})
  <2> DEFINE F == {r \in Suffix : r.tx = t}
  <2>1. /\ \A b \in F : b.op = "begin" => \A r \in F : b.seq <= r.seq
        /\ \A c \in F : c.op \in {"commit", "abort"} => \A r \in F : r.seq <= c.seq
    BY <1>1 DEF Nested
  <2>2. ASSUME NEW c \in F, c.op = "commit"
        PROVE  \E b \in F : b.op = "begin"
    <3>1. c \in log /\ c.seq > ckpt /\ c.tx = t
      BY DEF Suffix
    <3>2. Whole(log, ckpt, applied, fences, c)
      BY <2>2, <3>1 DEF FInv, Frames, Uncut
    <3> QED  BY <3>1, <3>2 DEF Whole, Suffix
  <2> HIDE DEF F
  <2>3. FrameAccepted(F)
    BY <2>1, <2>2 DEF FrameAccepted
  <2> QED  BY <2>3 DEF F
<1> QED  BY <1>1, <1>2 DEF classify_transactions, Nested

\* A restart never refuses the log it finds: whatever fails and whenever the
\* process or the machine stops, the checkpoint and rotation leave whole frames
\* above the checkpoint, so classify_transactions returns no error.
THEOREM RecoveryAlwaysStarts == Spec => []RecoveryNeverRefuses
<1>1. Init => FInv
  BY FrameInit
<1>2. FInv /\ [Next]_vars => FInv'
  BY FrameStep
<1>3. FInv => RecoveryNeverRefuses
  BY WholeIsAccepted
<1> QED  BY <1>1, <1>2, <1>3, PTL DEF Spec
=============================================================================
