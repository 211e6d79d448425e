---------------------------- MODULE AckedProofs -----------------------------
(***************************************************************************)
(* AckedRecoverable and NamedWritesSurvive of Durability: IInv of          *)
(* DurabilityProofs is inductive, and where it holds a restart brings back *)
(* every acknowledged write that was appended to a file with a name.  When *)
(* rotation keeps the handle that is every acknowledged write (NoneStray). *)
(***************************************************************************)
EXTENDS DurabilityProofs

\* The invariant holds when an empty database is opened.
LEMMA InvInit == Init => IInv
<1> SUFFICES ASSUME Init PROVE IInv
  OBVIOUS
<1>1. Issued = {} /\ InMemory = {}
  BY DEF Init, Issued, InMemory, Named, OpsOf, NoUnit
<1>2. Shape /\ Ordered /\ Staged /\ AllSafe /\ MemoryCurrent
  BY <1>1 DEF Init, Shape, Ordered, Staged, AllSafe, Named, MemoryCurrent
<1>3. Drawn /\ Fresh /\ FlushProgress
  BY <1>1 DEF Init, Drawn, Fresh, FlushProgress, NoUnit
<1> QED  BY <1>2, <1>3, TypeInit DEF IInv

-----------------------------------------------------------------------------
(* The other steps of a writer.                                             *)

\* A step that touches neither the log nor a client nor the trees: it may draw a
\* sequence or begin a checkpoint.
LEMMA InvQuiet ==
  ASSUME IInv, TypeInv', log' = log, orphan' = orphan, stray' = stray, synced' = synced,
         nextWrite' = nextWrite, mem' = mem, disk' = disk, ckpt' = ckpt, unit' = unit,
         todo' = todo, waiting' = waiting, acked' = acked, nextSeq <= nextSeq',
         pc # "down" => applied' < nextSeq',
         \/ pc' = pc /\ flushed' = flushed
         \/ /\ pc = "idle" \/ (pc = "apply" /\ todo = {})
            /\ pc' = "flush" /\ flushed' = 0
  PROVE  IInv'
<1>0. /\ TypeInv /\ Shape /\ Drawn /\ Ordered /\ Staged /\ AllSafe /\ Fresh
      /\ MemoryCurrent /\ FlushProgress
  BY DEF IInv
<1>1. pc = "idle" => unit.ops = {}
  BY <1>0 DEF Shape, NoUnit
<1>2. Issued' = Issued /\ InMemory' \subseteq InMemory
  BY <1>1, Zenon DEF Issued, InMemory, Named
<1>3. Drawn'
  <2>1. /\ nextSeq \in Nat /\ nextSeq' \in Nat /\ ckpt \in Nat /\ unit.last \in Nat
        /\ \A r \in log \cup Issued : r.seq \in Nat
    BY <1>0, Fields, IssuedFields DEF TypeInv, TypeOK
  <2> QED  BY <1>0, <1>2, <2>1 DEF Drawn
<1>4. Shape' /\ Staged' /\ Fresh' /\ FlushProgress'
  BY <1>0 DEF Shape, Staged, Named, Fresh, FlushProgress
<1>5. AllSafe' /\ MemoryCurrent'
  BY <1>0, <1>1, <1>2 DEF AllSafe, Safe, Named, MemoryCurrent
<1> QED  BY <1>0, OrderedKept, <1>2, <1>3, <1>4, <1>5 DEF IInv

\* An append that wrote nothing only uses up a sequence.
LEMMA InvFailedFirst == IInv /\ TypeInv' /\ FailedFirstAppend => IInv'
<1> SUFFICES ASSUME IInv, TypeInv', FailedFirstAppend PROVE IInv'
  OBVIOUS
<1>1. /\ nextSeq' = nextSeq + 1 /\ applied' = applied
      /\ UNCHANGED <<log, orphan, stray, synced, nextWrite, mem, disk, ckpt, unit, todo,
                    waiting, acked, pc, flushed>>
  BY DEF FailedFirstAppend, stateVars, lockVars, clientVars
<1>2. nextSeq <= nextSeq' /\ (pc # "down" => applied' < nextSeq')
  BY <1>1, Fields DEF IInv, Drawn
<1> QED  BY <1>1, <1>2, InvQuiet

\* A standalone mutation is safe as soon as it is appended.
LEMMA InvStandalone ==
  ASSUME NEW k \in Keys
  PROVE  IInv /\ TypeInv' /\ standalone(k) => IInv'
<1> SUFFICES ASSUME IInv, TypeInv', standalone(k) PROVE IInv'
  OBVIOUS
<1>0. /\ TypeInv /\ Shape /\ Drawn /\ Ordered /\ Staged /\ AllSafe /\ Fresh
      /\ MemoryCurrent /\ FlushProgress
  BY DEF IInv
<1> DEFINE p == Put(0, k)
<1>1. /\ p.op = "put" /\ p.key = k /\ p.seq = nextSeq /\ p.val = nextWrite /\ p.tx = 0
  BY DEF Put
<1>2. /\ log \subseteq log' /\ log' \subseteq log \cup {p} /\ stray \subseteq stray'
      /\ ckpt' = ckpt /\ disk' = disk /\ mem' = mem
      /\ pc = "idle" /\ pc' = "apply" /\ nextSeq' = nextSeq + 1 /\ nextWrite' = nextWrite + 1
      /\ unit'.ops = {p} /\ unit'.last = nextSeq
      /\ todo' = {p} /\ applied' = applied /\ synced' = synced
      /\ acked' = acked /\ waiting' = waiting /\ orphan' = orphan
  BY <1>0 DEF standalone, append, NoteStray, stateVars, clientVars
<1>a. IF orphan THEN nextWrite \in stray' ELSE p \in log'
  BY DEF standalone, append, NoteStray
<1> HIDE DEF p
<1>3. Issued' \subseteq Issued \cup {p}
  BY <1>2 DEF Issued, Named
<1>4. Shape' /\ FlushProgress' /\ Staged'
  BY <1>0, <1>2 DEF Shape, FlushProgress, Staged
<1>5. Ordered'
  BY <1>0, OrderedNew, <1>1, <1>2, <1>3
<1>6. Drawn'
  BY <1>0, Fields, IssuedFields, <1>1, <1>2, <1>3 DEF Drawn, TypeInv, TypeOK
<1>7. p.val \notin stray' => SafeIn(log', ckpt', disk', p, nextSeq)
  BY <1>0, Fields, <1>1, <1>2, <1>a DEF SafeIn, Drawn
<1>8. AllSafe'
  <2>1. /\ \A a \in Named(acked) : SafeIn(log', ckpt', disk', a, synced)
        /\ \A u \in waiting : \A a \in Named(u.ops) : SafeIn(log', ckpt', disk', a, u.last)
    BY <1>0, SafeAppend, <1>2
  <2> QED  BY <1>2, <1>7, <2>1 DEF AllSafe, Safe, Named
<1>9. Fresh'
  <2>1. nextWrite \in Nat /\ \A q \in Keys : mem[q] \in Nat /\ mem[q] < nextWrite
    BY <1>0 DEF Drawn, TypeInv, TypeOK
  <2>2. \A q \in Keys : mem'[q] <= p.val
    BY <1>1, <1>2, <2>1
  <2> QED  BY <1>0, <1>2, <2>2 DEF Fresh
<1>10. MemoryCurrent'
  BY <1>0, <1>2 DEF MemoryCurrent, InMemory, Named
<1> QED  BY <1>4, <1>5, <1>6, <1>8, <1>9, <1>10 DEF IInv

\* The oldest mutation still to be applied enters the working trees.
LEMMA InvApply == IInv /\ TypeInv' /\ apply_committed => IInv'
<1> SUFFICES ASSUME IInv, TypeInv', apply_committed PROVE IInv'
  OBVIOUS
<1>0. /\ TypeInv /\ Shape /\ Drawn /\ Ordered /\ Staged /\ AllSafe /\ Fresh
      /\ MemoryCurrent /\ FlushProgress
  BY DEF IInv
<1>1. PICK r \in todo : /\ \A q \in todo : r.seq <= q.seq
                        /\ mem' = [mem EXCEPT ![r.key] = r.val]
                        /\ todo' = todo \ {r}
  BY Zenon DEF apply_committed
<1>2. /\ pc = "apply" /\ pc' = "apply"
      /\ log' = log /\ stray' = stray /\ synced' = synced /\ nextSeq' = nextSeq
      /\ nextWrite' = nextWrite /\ disk' = disk /\ ckpt' = ckpt
      /\ applied' = applied /\ unit' = unit /\ waiting' = waiting /\ acked' = acked
  BY DEF apply_committed, logVars, clientVars
<1>3. r \in unit.ops /\ r \in Issued /\ todo \subseteq unit.ops
  <2>1. todo \subseteq unit.ops
    BY <1>0 DEF TypeInv, TypeOK
  <2> QED  BY <2>1, Zenon DEF Issued
<1>4. /\ \A k \in Keys : /\ mem[k] \in Nat /\ mem'[k] \in Nat /\ mem'[k] >= mem[k]
                           /\ mem'[k] \in {mem[k], r.val}
      /\ mem'[r.key] = r.val
  BY <1>0, Fields, IssuedFields, <1>1, <1>3 DEF Fresh, TypeInv, TypeOK
<1>5. Issued' = Issued
  BY <1>2, Zenon DEF Issued, Named
<1>6. Shape' /\ Staged' /\ AllSafe' /\ FlushProgress'
  BY <1>0, <1>2 DEF Shape, Staged, AllSafe, Safe, Named, FlushProgress
<1>7. Drawn'
  BY <1>0, Fields, IssuedFields, <1>2, <1>3, <1>4, <1>5 DEF Drawn
<1>8. Fresh'
  <2>1. \A q \in todo : r.val <= q.val
    BY <1>0, <1>1, <1>3 DEF Ordered, Issued
  <2> QED  BY <1>0, <1>1, <1>2, <1>4, <2>1 DEF Fresh
<1>9. MemoryCurrent'
  <2>1. \A a \in InMemory' : a \in InMemory \/ a = r
    BY <1>1, <1>2 DEF InMemory, Named
  <2>2. \A a \in InMemory : a \in Issued
    BY DEF InMemory, Issued
  <2>3. \A a \in InMemory : mem'[a.key] >= a.val
    BY <1>0, IssuedFields, <1>2, <1>4, <2>2 DEF MemoryCurrent
  <2> QED  BY <1>0, IssuedFields, <1>3, <1>4, <2>1, <2>3 DEF MemoryCurrent
<1> QED  BY <1>0, OrderedKept, <1>5, <1>6, <1>7, <1>8, <1>9 DEF IInv

\* A unit that fails while it is applied is abandoned: its client got no Ok.
LEMMA InvApplyFails == IInv /\ TypeInv' /\ ApplyFails => IInv'
<1> SUFFICES ASSUME IInv, TypeInv', ApplyFails PROVE IInv'
  OBVIOUS
<1>0. /\ TypeInv /\ Shape /\ Drawn /\ Ordered /\ Staged /\ AllSafe /\ Fresh
      /\ MemoryCurrent /\ FlushProgress
  BY DEF IInv
<1>1. PICK r \in todo : mem' \in {mem, [mem EXCEPT ![r.key] = r.val]}
  BY DEF ApplyFails
<1>2. /\ pc = "apply" /\ pc' = "idle" /\ todo' = {} /\ unit' = NoUnit
      /\ unit'.ops = {} /\ unit'.last = 0
      /\ log' = log /\ stray' = stray /\ synced' = synced /\ nextSeq' = nextSeq
      /\ nextWrite' = nextWrite /\ disk' = disk /\ ckpt' = ckpt
      /\ applied' = applied /\ waiting' = waiting /\ acked' = acked
  BY DEF ApplyFails, NoUnit, logVars, clientVars
<1>3. r \in Issued
  <2>1. todo \subseteq unit.ops
    BY <1>0 DEF TypeInv, TypeOK
  <2> QED  BY <2>1, Zenon DEF Issued
<1>4. \A k \in Keys : /\ mem[k] \in Nat /\ mem'[k] \in Nat /\ mem'[k] >= mem[k]
                        /\ mem'[k] \in {mem[k], r.val}
  BY <1>0, IssuedFields, <1>1, <1>3 DEF Fresh, TypeInv, TypeOK
<1>5. Issued' \subseteq Issued /\ InMemory' \subseteq InMemory
  <2>1. /\ unit'.ops = {} /\ log' = log /\ waiting' = waiting /\ acked' = acked
        /\ stray' = stray /\ pc' = "idle"
    BY <1>2
  <2> QED  BY <2>1 DEF Issued, InMemory, Named
<1>6. Shape' /\ Staged' /\ AllSafe' /\ FlushProgress' /\ Fresh'
  BY <1>0, <1>2 DEF Shape, Staged, AllSafe, Safe, Named, FlushProgress, Fresh
<1>7. Drawn'
  <2>1. /\ log' = log /\ ckpt' = ckpt /\ applied' = applied /\ disk' = disk
        /\ nextSeq' = nextSeq /\ nextWrite' = nextWrite
    BY <1>2
  <2>2. \A k \in Keys : mem'[k] < nextWrite' /\ disk'[k] < nextWrite'
    BY <1>0, <1>3, <1>4, <2>1 DEF Drawn
  <2>3. ckpt' < nextSeq' /\ applied' < nextSeq' /\ unit'.last < nextSeq'
    BY <1>0, Fields, <1>2, <2>1 DEF Drawn
  <2>4. \A q \in log' \cup Issued' : q.seq < nextSeq'
    BY <1>0, <1>2, <1>5, <2>1 DEF Drawn
  <2>5. \A q \in Issued' : q.val < nextWrite'
    BY <1>0, <1>5, <2>1 DEF Drawn
  <2> QED  BY <1>0, <2>2, <2>3, <2>4, <2>5 DEF Drawn
<1>8. MemoryCurrent'
  <2>1. \A a \in InMemory : a \in Issued
    BY DEF InMemory, Issued
  <2>2. ASSUME NEW a \in InMemory' PROVE mem'[a.key] >= a.val
    <3>1. a \in Issued /\ mem[a.key] >= a.val
      BY <1>0, <1>2, <1>5, <2>1 DEF MemoryCurrent
    <3>2. a.key \in Keys /\ a.val \in Nat
      BY <1>0, IssuedFields, <3>1
    <3> QED  BY <1>4, <3>1, <3>2
  <2> QED  BY <1>0, <2>2 DEF MemoryCurrent
<1> QED  BY <1>0, OrderedKept, <1>5, <1>6, <1>7, <1>8 DEF IInv

-----------------------------------------------------------------------------
(* Settling and checkpointing.                                              *)

\* The lock is released, after a unit was applied or a checkpoint ended: the log
\* keeps every record above the checkpoint, and the checkpoint moves only if every
\* tree was flushed.
LEMMA InvReleased ==
  ASSUME IInv, TypeInv', pc \in {"apply", "flush", "rotate"}, todo = {}, todo' = todo,
         Release, pc' \in {"idle", "stopped"}, log' \in {log, Suffix}, synced <= synced',
         acked' = acked, stray' = stray, nextSeq' = nextSeq, nextWrite' = nextWrite,
         mem' = mem, disk' = disk, ckpt <= ckpt', ckpt' < nextSeq, applied' < nextSeq,
         ckpt' = ckpt \/ (pc = "flush" /\ log' = log /\ \A k \in Keys : disk[k] = mem[k])
  PROVE  IInv'
<1>0. /\ TypeInv /\ Shape /\ Drawn /\ Ordered /\ Staged /\ AllSafe /\ Fresh
      /\ MemoryCurrent /\ FlushProgress
  BY DEF IInv
<1>1. log' \subseteq log /\ \A r \in log : r.seq > ckpt => r \in log'
  BY DEF Suffix
<1>2. /\ Issued' \subseteq Issued /\ InMemory' \subseteq InMemory
      /\ \A u \in waiting' : u \in waiting \/ u = unit
      /\ unit' = NoUnit /\ unit'.ops = {} /\ unit'.last = 0
  BY ReleaseKeeps, <1>1
<1>3. Shape' /\ Staged' /\ FlushProgress' /\ Fresh' /\ MemoryCurrent'
  BY <1>0, <1>2 DEF Shape, Staged, FlushProgress, Fresh, MemoryCurrent
<1>4. Drawn'
  BY <1>0, DrawnKept, <1>1, <1>2
<1>5. AllSafe'
  <2>0. ckpt' \in Nat /\ synced' \in Nat
    BY DEF TypeInv, TypeOK
  <2>1. /\ \A a \in Named(acked) : SafeIn(log', ckpt', disk', a, synced)
        /\ \A u \in waiting : \A a \in Named(u.ops) : SafeIn(log', ckpt', disk', a, u.last)
        /\ \A a \in Named(unit.ops) : SafeIn(log', ckpt', disk', a, unit.last)
    <3>1. CASE ckpt' = ckpt
      BY <1>0, SafeAppend, <1>1, <3>1
    <3>2. CASE pc = "flush" /\ log' = log /\ \A k \in Keys : disk[k] = mem[k]
      BY <1>0, SafeFlush, <2>0, <3>2
    <3> QED  BY <3>1, <3>2
  <2>2. ASSUME NEW a \in Named(acked) PROVE SafeIn(log', ckpt', disk', a, synced')
    <3>1. SafeIn(log', ckpt', disk', a, synced) /\ a \in acked
      BY <2>1 DEF Named
    <3>2. \A c \in log' : c.seq \in Nat
      BY <1>0, Fields, <1>1
    <3> QED  BY <1>0, Fields, <2>0, <3>1, <3>2 DEF SafeIn
  <2> QED  BY <1>2, <2>1, <2>2, Zenon DEF AllSafe, Safe, Named
<1> QED  BY <1>0, OrderedKept, <1>2, <1>3, <1>4, <1>5 DEF IInv

\* The unit is handed to its writer, or a checkpoint begins.
LEMMA InvSettle == IInv /\ TypeInv' /\ settle => IInv'
<1> SUFFICES ASSUME IInv, TypeInv', settle PROVE IInv'
  OBVIOUS
<1>1. /\ pc = "apply" /\ todo = {} /\ todo' = todo
      /\ UNCHANGED <<acked, log, orphan, stray, synced, nextSeq, nextWrite, mem, disk, ckpt>>
      /\ applied' \in {applied, unit.last}
  BY DEF settle, logVars, Larger
<1>2. /\ applied' < nextSeq /\ ckpt < nextSeq /\ synced <= synced' /\ ckpt <= ckpt'
      /\ nextSeq <= nextSeq'
  BY <1>1, Fields DEF IInv, Drawn
<1>3. CASE pc' = "idle" /\ Release
  BY <1>1, <1>2, <1>3, InvReleased
<1>4. CASE pc' = "flush" /\ flushed' = 0 /\ UNCHANGED <<unit, waiting>>
  BY <1>1, <1>2, <1>4, InvQuiet
<1> QED  BY <1>3, <1>4 DEF settle

\* Shutting down begins a checkpoint.
LEMMA InvShutdown == IInv /\ TypeInv' /\ Shutdown => IInv'
<1> SUFFICES ASSUME IInv, TypeInv', Shutdown PROVE IInv'
  OBVIOUS
<1>1. /\ pc = "idle" /\ pc' = "flush" /\ flushed' = 0 /\ nextSeq' = nextSeq
      /\ applied' = applied
      /\ UNCHANGED <<log, orphan, stray, synced, nextWrite, mem, disk, ckpt, unit, todo,
                    waiting, acked>>
  BY DEF Shutdown, logVars, stateVars, clientVars
<1>2. nextSeq <= nextSeq' /\ applied' < nextSeq'
  BY <1>1, Fields DEF IInv, Drawn
<1> QED  BY <1>1, <1>2, InvQuiet

\* Flushing one tree.
LEMMA InvCommitTree == IInv /\ TypeInv' /\ CommitTree => IInv'
<1> SUFFICES ASSUME IInv, TypeInv', CommitTree PROVE IInv'
  OBVIOUS
<1>0. /\ TypeInv /\ Shape /\ Drawn /\ Ordered /\ Staged /\ AllSafe /\ Fresh
      /\ MemoryCurrent /\ FlushProgress
  BY DEF IInv
<1>1. /\ pc = "flush" /\ pc' = "flush" /\ flushed' = flushed + 1 /\ flushed + 1 \in Keys
      /\ disk' = [disk EXCEPT ![flushed + 1] = mem[flushed + 1]]
      /\ log' = log /\ stray' = stray /\ synced' = synced /\ nextSeq' = nextSeq
      /\ nextWrite' = nextWrite /\ mem' = mem /\ ckpt' = ckpt
      /\ applied' = applied /\ unit' = unit /\ todo' = todo
      /\ waiting' = waiting /\ acked' = acked
  BY <1>0, ConstantsAssumption DEF CommitTree, TypeInv, TypeOK, Keys, logVars, clientVars
<1>2. \A k \in Keys : disk'[k] = IF k = flushed + 1 THEN mem[k] ELSE disk[k]
  BY <1>0, <1>1 DEF TypeInv, TypeOK
<1>3. Issued' = Issued /\ InMemory' = InMemory
  BY <1>1 DEF Issued, InMemory, Named
<1>4. Shape' /\ Staged' /\ Fresh' /\ MemoryCurrent'
  BY <1>0, <1>1, <1>3 DEF Shape, Staged, Fresh, MemoryCurrent
<1>5. Drawn'
  BY <1>0, <1>1, <1>2, <1>3 DEF Drawn
<1>6. AllSafe'
  <2>1. \A k \in Keys : disk'[k] = mem[k] \/ (disk'[k] = disk[k] /\ ckpt' = ckpt)
    BY <1>1, <1>2
  <2>2. log' = log /\ ckpt' \in Nat /\ ckpt <= ckpt'
    BY <1>0, Fields, <1>1
  <2> QED  BY <1>0, SafeFlush, <1>1, <2>1, <2>2, Zenon DEF AllSafe, Safe, Named
<1>7. FlushProgress'
  <2>1. ASSUME NEW k \in 1 .. (flushed + 1) PROVE disk'[k] = mem[k]
    <3>1. k \in Keys /\ (k = flushed + 1 \/ k \in 1 .. flushed)
      BY <1>0, <1>1, ConstantsAssumption, SMTT(30) DEF Keys, TypeInv, TypeOK
    <3> QED  BY <1>0, <1>1, <1>2, <3>1 DEF FlushProgress
  <2> QED  BY <1>0, <1>1, <2>1 DEF FlushProgress
<1> QED  BY <1>0, OrderedKept, <1>3, <1>4, <1>5, <1>6, <1>7 DEF IInv

\* The checkpoint moves once every tree is flushed.
LEMMA InvAdvance == IInv /\ TypeInv' /\ advance => IInv'
<1> SUFFICES ASSUME IInv, TypeInv', advance PROVE IInv'
  OBVIOUS
<1>0. /\ TypeInv /\ Shape /\ Drawn /\ Ordered /\ Staged /\ AllSafe /\ Fresh
      /\ MemoryCurrent /\ FlushProgress
  BY DEF IInv
<1>1. /\ pc = "flush" /\ pc' = "rotate" /\ ckpt' = Target
      /\ log' = log /\ stray' = stray /\ synced' = synced /\ nextSeq' = nextSeq
      /\ nextWrite' = nextWrite /\ mem' = mem /\ disk' = disk
      /\ applied' = applied /\ unit' = unit /\ todo' = todo
      /\ waiting' = waiting /\ acked' = acked
  BY DEF advance, logVars, clientVars
<1>2. \A k \in Keys : disk'[k] = mem[k]
  BY <1>0 DEF advance, FlushProgress, Keys
<1>3. Target \in Nat /\ ckpt <= Target /\ Target < nextSeq
  BY <1>0, Fields, <1>1, TargetBounds DEF TypeInv, Drawn
<1>4. Issued' = Issued /\ InMemory' = InMemory
  BY <1>1 DEF Issued, InMemory, Named
<1>5. Shape' /\ Staged' /\ Fresh' /\ MemoryCurrent' /\ FlushProgress'
  BY <1>0, <1>1, <1>4 DEF Shape, Staged, Fresh, MemoryCurrent, FlushProgress
<1>6. Drawn'
  BY <1>0, <1>1, <1>3, <1>4 DEF Drawn
<1>7. AllSafe'
  BY <1>0, SafeFlush, <1>1, <1>2, <1>3 DEF AllSafe, Safe, Named
<1> QED  BY <1>0, OrderedKept, <1>4, <1>5, <1>6, <1>7 DEF IInv

\* Rotation keeps every record above the checkpoint, whether or not the handle
\* follows it to the new file.
LEMMA InvRotate == IInv /\ TypeInv' /\ (rotate \/ RotateLosesHandle) => IInv'
<1> SUFFICES ASSUME IInv, TypeInv', rotate \/ RotateLosesHandle PROVE IInv'
  OBVIOUS
<1>1. /\ pc = "rotate" /\ Release /\ log' \in {log, Suffix} /\ todo' = todo
      /\ acked' = acked /\ nextSeq' = nextSeq /\ nextWrite' = nextWrite
      /\ stray' = stray /\ mem' = mem /\ disk' = disk /\ ckpt' = ckpt
      /\ applied' = applied
  BY Zenon DEF rotate, RotateLosesHandle, Abandon, stateVars
<1>2. pc' \in {"idle", "stopped"} /\ todo = {}
  BY <1>1 DEF rotate, RotateLosesHandle, Abandon, IInv, TypeInv, TypeOK, Bounded
<1>3. synced' \in {synced, Larger(synced, nextSeq - 1)}
  BY Zenon DEF rotate, RotateLosesHandle
<1>4. synced <= synced' /\ ckpt <= ckpt' /\ ckpt' < nextSeq /\ applied' < nextSeq
  BY <1>1, <1>3, Fields DEF IInv, Drawn, Larger
<1> QED  BY InvReleased, <1>1, <1>2, <1>4

\* A checkpoint that fails leaves the log alone.
LEMMA InvCheckpointFails == IInv /\ TypeInv' /\ CheckpointFails => IInv'
<1> SUFFICES ASSUME IInv, TypeInv', CheckpointFails PROVE IInv'
  OBVIOUS
<1>0. TypeInv /\ Drawn /\ FlushProgress
  BY DEF IInv
<1>1. /\ pc \in {"flush", "rotate"} /\ todo = {} /\ todo' = todo /\ acked' = acked
      /\ pc' \in {"idle", "stopped"}
      /\ Release /\ log' = log /\ stray' = stray /\ synced' = synced
      /\ nextSeq' = nextSeq /\ nextWrite' = nextWrite /\ mem' = mem
      /\ disk' = disk /\ applied' = applied
  BY <1>0 DEF CheckpointFails, Abandon, TypeInv, Bounded, logVars
<1>2. /\ ckpt <= ckpt' /\ ckpt' < nextSeq
      /\ ckpt' = ckpt \/ (pc = "flush" /\ \A k \in Keys : disk[k] = mem[k])
  <2>1. CASE ckpt' = ckpt
    BY <1>0, Fields, <1>1, <2>1 DEF Drawn
  <2>2. CASE ckpt' = Target /\ pc = "flush" /\ flushed = NTrees
    <3>1. Target \in Nat /\ ckpt <= Target /\ Target < nextSeq
      BY <1>0, Fields, <1>1, TargetBounds DEF TypeInv, Drawn
    <3> QED  BY <1>0, <2>2, <3>1 DEF FlushProgress, Keys
  <2> QED  BY <2>1, <2>2 DEF CheckpointFails
<1>3. applied' < nextSeq /\ synced <= synced'
  BY <1>0, <1>1, Fields DEF Drawn
<1> QED  BY <1>1, <1>2, <1>3, InvReleased

-----------------------------------------------------------------------------
(* The clients, crashes and recovery.                                       *)

\* What is acknowledged was synced, up to the last record of its unit.
LEMMA InvAcknowledge ==
  ASSUME NEW u \in waiting
  PROVE  IInv /\ TypeInv' /\ Acknowledge(u) => IInv'
<1> SUFFICES ASSUME IInv, TypeInv', Acknowledge(u) PROVE IInv'
  OBVIOUS
<1>0. /\ TypeInv /\ Shape /\ Drawn /\ Ordered /\ Staged /\ AllSafe /\ Fresh
      /\ MemoryCurrent /\ FlushProgress
  BY DEF IInv
<1>1. /\ acked' = acked \cup u.ops /\ waiting' = waiting \ {u}
      /\ log' = log /\ orphan' = orphan /\ nextSeq' = nextSeq /\ nextWrite' = nextWrite
      /\ stray' = stray
      /\ mem' = mem /\ disk' = disk /\ ckpt' = ckpt
      /\ applied' = applied /\ pc' = pc /\ unit' = unit
      /\ todo' = todo /\ flushed' = flushed
  BY DEF Acknowledge, stateVars, lockVars
<1>2. synced' \in Nat /\ synced <= synced' /\ u.last <= synced'
  BY <1>0, Fields DEF Acknowledge, Larger
<1>3. Issued' \subseteq Issued /\ InMemory' \subseteq InMemory
  BY <1>1 DEF Issued, InMemory, OpsOf, Named
<1>4. Shape' /\ Staged' /\ FlushProgress' /\ Fresh' /\ MemoryCurrent'
  BY <1>0, <1>1, <1>3 DEF Shape, Staged, Named, FlushProgress, Fresh, MemoryCurrent
<1>5. Drawn'
  BY <1>0, <1>1, <1>3, Zenon DEF Drawn
<1>6. AllSafe'
  <2>1. ASSUME NEW a \in WalRecord, NEW n \in Nat, Safe(a, n), n <= synced'
        PROVE  SafeIn(log', ckpt', disk', a, synced')
    <3>1. log' = log /\ ckpt' = ckpt /\ disk' = disk
      BY <1>1
    <3>2. a.seq \in Nat
      BY DEF WalRecord
    <3> QED  BY <1>0, Fields, <1>2, <2>1, <3>1, <3>2 DEF Safe, SafeIn
  <2>2. \A a \in Named(acked \cup u.ops) : SafeIn(log', ckpt', disk', a, synced')
    BY <1>0, Fields, <1>2, <2>1 DEF AllSafe, Named
  <2> QED  BY <1>0, <1>1, <2>2 DEF AllSafe, Safe, Named
<1> QED  BY <1>0, OrderedKept, <1>3, <1>4, <1>5, <1>6 DEF IInv

\* Recovery rebuilds the counters above everything the log or a client knows.
LEMMA InvRecover == IInv /\ TypeInv' /\ recover => IInv'
<1> SUFFICES ASSUME IInv, TypeInv', recover PROVE IInv'
  OBVIOUS
<1>0. /\ TypeInv /\ Shape /\ Drawn /\ Ordered /\ Staged /\ AllSafe /\ Fresh
      /\ MemoryCurrent /\ FlushProgress
  BY DEF IInv
<1>1. /\ mem' = Recovered /\ nextSeq' = SequenceFloor + 1
      /\ synced' = Smaller(synced, SequenceFloor) /\ applied' = Highest({0} \cup Replayed)
  BY DEF recover
<1>2. /\ pc = "down" /\ pc' = "flush" /\ log' = log /\ stray' = stray
      /\ nextWrite' = nextWrite /\ disk' = disk /\ ckpt' = ckpt /\ unit' = unit
      /\ todo' = todo /\ flushed' = flushed /\ waiting' = waiting /\ acked' = acked
  BY DEF recover, clientVars
<1>3. /\ unit = NoUnit /\ unit.ops = {} /\ unit.last = 0 /\ waiting = {} /\ flushed = 0
      /\ OpsOf(waiting) = {} /\ todo = {}
  BY <1>0, <1>2 DEF Shape, NoUnit, OpsOf, TypeInv, Bounded
<1>4. /\ SequenceFloor \in Nat /\ ckpt <= SequenceFloor /\ applied' <= SequenceFloor
      /\ applied' \in Nat /\ \A r \in log : r.seq <= SequenceFloor
  BY <1>0, <1>1, FloorBounds DEF TypeInv
<1>5. \A a \in Named(acked) : Safe(a, synced) /\ a.seq <= SequenceFloor /\ a \in acked
  BY <1>0, Fields, <1>4 DEF AllSafe, Safe, SafeIn, Named
<1>6. Issued' = Issued /\ Issued \subseteq log \cup Named(acked)
  BY <1>2, <1>3 DEF Issued, Named
<1>7. Shape' /\ Staged' /\ Fresh'
  BY <1>0, <1>2, <1>3, Zenon DEF Shape, Staged, Fresh
<1>8. Drawn'
  <2>1. \A r \in log' \cup Issued' : r.seq < nextSeq'
    <3>1. log' = log /\ nextSeq' = SequenceFloor + 1
      BY <1>1, <1>2
    <3>2. \A r \in log \cup Named(acked) : r.seq \in Nat /\ r.seq <= SequenceFloor
      BY <1>0, Fields, <1>4, <1>5
    <3> QED  BY <1>4, <1>6, <3>1, <3>2
  <2>2. ckpt' < nextSeq' /\ applied' < nextSeq' /\ unit'.last < nextSeq'
    <3>1. nextSeq' = SequenceFloor + 1 /\ ckpt' = ckpt /\ unit'.last = 0
      BY <1>1, <1>2, <1>3
    <3> QED  BY <1>0, Fields, <1>4, <3>1
  <2>3. \A k \in Keys : mem'[k] < nextWrite' /\ disk'[k] < nextWrite'
    BY <1>0, <1>1, <1>2, RecoveredIssued DEF Drawn, TypeInv
  <2> QED  BY <1>0, <1>2, <1>6, <2>1, <2>2, <2>3 DEF Drawn
<1>9. AllSafe'
  <2>1. ASSUME NEW a \in Named(acked) PROVE SafeIn(log', ckpt', disk', a, synced')
    <3>1. SafeIn(log, ckpt, disk, a, synced)
      BY <1>5 DEF Safe
    <3>2. \A n \in Nat : n <= synced /\ n <= SequenceFloor => n <= synced'
      BY <1>0, Fields, <1>1, <1>4 DEF Smaller
    <3>3. log' = log /\ ckpt' = ckpt /\ disk' = disk
      BY <1>2
    <3> QED  BY <1>0, Fields, <1>4, <1>5, <3>1, <3>2, <3>3 DEF SafeIn
  <2> QED  BY <1>0, <1>2, <1>3, <2>1 DEF AllSafe, Safe, Named
<1>10. MemoryCurrent'
  <2>1. InMemory' \subseteq Named(acked)
    BY <1>2, <1>3 DEF InMemory, Named
  <2>2. \A a \in Named(acked) : Recovered[a.key] >= a.val
    BY <1>0, Fields, <1>5, SafeIsRecovered DEF Issued, TypeInv
  <2>3. mem' = Recovered
    BY <1>1
  <2> QED  BY <2>1, <2>2, <2>3, Zenon DEF MemoryCurrent
<1>11. FlushProgress'
  BY <1>0, <1>2, <1>3 DEF FlushProgress
<1> QED  BY <1>0, OrderedKept, <1>6, <1>7, <1>8, <1>9, <1>10, <1>11 DEF IInv

\* A crash or a power loss keeps every record that was synced.
LEMMA InvLoseMemory ==
  ASSUME IInv, TypeInv', LoseMemory, log' \subseteq log, synced' \in Nat,
         synced <= synced', \A r \in log : r.seq <= synced => r \in log'
  PROVE  IInv'
<1>0. /\ TypeInv /\ Drawn /\ Ordered /\ AllSafe
  BY DEF IInv
<1>1. /\ pc' = "down" /\ orphan' = FALSE /\ mem' = disk /\ todo' = {} /\ flushed' = 0
      /\ unit' = NoUnit /\ unit'.ops = {} /\ waiting' = {}
      /\ nextWrite' = nextWrite /\ disk' = disk /\ ckpt' = ckpt /\ acked' = acked
      /\ stray' = stray
  BY DEF LoseMemory, NoUnit
<1>2. Issued' \subseteq Issued
  BY <1>1 DEF Issued, Named, OpsOf
<1>3. Shape' /\ Staged' /\ FlushProgress' /\ Fresh' /\ MemoryCurrent'
  BY <1>1 DEF Shape, Staged, FlushProgress, Fresh, MemoryCurrent
<1>4. Drawn'
  BY <1>0, <1>1, <1>2 DEF Drawn
<1>5. AllSafe'
  <2>1. ASSUME NEW a \in Named(acked) PROVE SafeIn(log', ckpt', disk', a, synced')
    <3>1. Safe(a, synced) /\ a \in WalRecord
      BY <1>0, Fields DEF AllSafe, Named
    <3>2. a.seq <= ckpt' => disk'[a.key] >= a.val
      BY <1>0, <1>1, <3>1, SafeBelow
    <3>3. /\ log \in SUBSET WalRecord /\ synced \in Nat
          /\ ckpt \in Nat /\ ckpt' = ckpt /\ ckpt <= ckpt /\ disk' = disk
      BY <1>0, <1>1, Fields
    <3> QED  BY <3>1, <3>2, <3>3, SafeKept DEF Safe
  <2> QED  BY <1>1, <2>1, Zenon DEF AllSafe, Safe, Named
<1> QED  BY <1>0, <1>2, <1>3, <1>4, <1>5, OrderedKept DEF IInv

\* No step breaks the invariant.
LEMMA InvStep == IInv /\ [Next]_vars => IInv'
<1> SUFFICES ASSUME IInv, [Next]_vars PROVE IInv'
  OBVIOUS
<1>1. TypeInv /\ TypeInv'
  BY TypeStep DEF IInv
<1>2. \A k \in Keys : stage(k) \/ standalone(k) => IInv'
  BY <1>1, InvStage, InvStandalone
<1>3. \A u \in waiting : Acknowledge(u) => IInv'
  BY <1>1, InvAcknowledge
<1>4. open \/ commit \/ drop \/ FailedFirstAppend \/ apply_committed \/ ApplyFails => IInv'
  BY <1>1, InvOpen, InvCommit, InvDrop, InvFailedFirst, InvApply, InvApplyFails
<1>5. /\ settle \/ Shutdown \/ CommitTree \/ advance \/ rotate \/ CheckpointFails => IInv'
      /\ RotateLosesHandle => IInv'
  BY <1>1, InvSettle, InvShutdown, InvCommitTree, InvAdvance, InvRotate, InvCheckpointFails
<1>7. CASE Crash
  BY <1>1, <1>7, Fields, InvLoseMemory DEF Crash
<1>8. CASE PowerLoss
  <2>1. PICK s \in {synced} \cup {r.seq : r \in log} :
           s >= synced /\ log' = {r \in log : r.seq <= s} /\ synced' = s
    BY <1>8 DEF PowerLoss
  <2>2. s \in Nat /\ \A r \in log : r.seq <= synced => r \in log'
    BY <1>1, <2>1, Fields
  <2> QED  BY <1>1, <1>8, <2>1, <2>2, Fields, InvLoseMemory DEF PowerLoss
<1>9. recover => IInv'
  BY <1>1, InvRecover
<1>10. CASE UNCHANGED vars
  <2>1. /\ nextSeq' = nextSeq /\ applied' = applied
        /\ UNCHANGED <<log, orphan, stray, synced, nextWrite, mem, disk, ckpt, unit, todo,
                      waiting, acked, pc, flushed>>
    BY <1>10 DEF vars, logVars, stateVars, lockVars, clientVars
  <2>2. nextSeq <= nextSeq' /\ (pc # "down" => applied' < nextSeq')
    BY <1>1, <2>1, Fields DEF IInv, Drawn
  <2> QED  BY <1>1, <2>1, <2>2, InvQuiet
<1> QED  BY <1>2, <1>3, <1>4, <1>5, <1>7, <1>8, <1>9, <1>10, Zenon DEF Next

\* The invariant makes every acknowledged write of the named file recoverable.
LEMMA InvImpliesNamed == IInv => NamedWritesSurvive
<1> SUFFICES ASSUME IInv, NEW a \in acked, a.val \notin stray PROVE Recovered[a.key] >= a.val
  BY DEF NamedWritesSurvive
<1>1. a \in Named(acked)
  BY DEF Named
<1>2. TypeOK /\ Bounded /\ Ordered /\ Safe(a, synced) /\ synced \in Nat /\ a \in Issued
  BY <1>1 DEF IInv, TypeInv, TypeOK, AllSafe, Issued
<1> QED  BY <1>2, SafeIsRecovered

\* Where the directory fsync of rotate never fails, no write goes astray.
NoneStray == orphan = FALSE /\ stray = {}

\* At the start nothing has been appended, so nothing is astray.
LEMMA NoneStrayInit == Init => NoneStray
BY DEF Init, NoneStray

\* wal.rs, rotate: only its directory fsync, failing after the rename, leaves the
\* process with a handle that has no name.
LEMMA NoneStrayStep ==
  ASSUME "rotate_dirsync" \notin Faults
  PROVE  NoneStray /\ [Next]_vars => NoneStray'
<1> SUFFICES ASSUME NoneStray, [Next]_vars PROVE NoneStray'
  OBVIOUS
<1> USE DEF NoneStray
<1>1. CASE open \/ commit \/ drop \/ FailedFirstAppend
  BY <1>1, Zenon DEF open, commit, drop, FailedFirstAppend
<1>2. ASSUME NEW k \in Keys, stage(k) \/ standalone(k) PROVE NoneStray'
  BY <1>2, Zenon DEF stage, standalone, NoteStray
<1>3. CASE apply_committed \/ ApplyFails \/ settle \/ Shutdown
  BY <1>3, Zenon DEF apply_committed, ApplyFails, settle, Shutdown, logVars
<1>4. CASE CommitTree \/ advance \/ CheckpointFails
  BY <1>4, Zenon DEF CommitTree, advance, CheckpointFails, logVars
<1>5. CASE rotate \/ RotateLosesHandle
  BY <1>5, Zenon DEF rotate, RotateLosesHandle
<1>6. ASSUME NEW u \in waiting, Acknowledge(u) PROVE NoneStray'
  BY <1>6, Zenon DEF Acknowledge
<1>7. CASE Crash \/ PowerLoss \/ recover
  BY <1>7, Zenon DEF Crash, PowerLoss, LoseMemory, recover
<1>8. CASE UNCHANGED vars
  BY <1>8, Zenon DEF vars, logVars
<1> QED  BY <1>1, <1>2, <1>3, <1>4, <1>5, <1>6, <1>7, <1>8, Zenon DEF Next

\* No acknowledged write is lost while the handle has its name: whatever batches,
\* checkpoints, rotations, failed appends, failed applies, failed flushes, lost
\* handles, crashes, power losses and recoveries a behaviour has, a restart
\* brings back every write a client got an Ok for, or a newer one of the same
\* entry, unless it was appended after rotate renamed the log away under the
\* handle and failed before reset_handle.  No failure is excluded.
THEOREM NamedSurvive == Spec => []NamedWritesSurvive
BY InvInit, InvStep, InvImpliesNamed, PTL DEF Spec

\* So no acknowledged write at all is lost where that one failure, the directory
\* fsync failing after the rename, does not happen.
THEOREM AckedSurvive ==
  ASSUME "rotate_dirsync" \notin Faults
  PROVE  Spec => []AckedRecoverable
<1>1. IInv /\ NoneStray => AckedRecoverable
  BY InvImpliesNamed DEF NamedWritesSurvive, NoneStray, AckedRecoverable
<1> QED  BY <1>1, InvInit, InvStep, NoneStrayInit, NoneStrayStep, PTL DEF Spec
=============================================================================
