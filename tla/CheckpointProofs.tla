-------------------------- MODULE CheckpointProofs --------------------------
(***************************************************************************)
(* CheckpointReflected and VisibleIsRecoverable of Durability: the steps   *)
(* of a checkpoint, of a crash and of recovery keep the invariant of       *)
(* TreeProofs, and what follows from it.  Then that the durability core    *)
(* implements DurableStore, step by step: what a restart would bring back  *)
(* changes only when a COMMIT or a standalone record is appended, and then *)
(* by the whole unit.                                                      *)
(***************************************************************************)
EXTENDS TreeProofs

-----------------------------------------------------------------------------
(* The steps outside a write.                                              *)

\* Steps that touch neither log nor trees nor checkpoint, and remove no fence but
\* the one of the unit that is done.
LEMMA TreesQuiet ==
  ASSUME CInv, pc # "down", pc' \notin {"stage", "apply", "down"}, todo' = todo,
         todo = {}, UNCHANGED <<log, mem, disk, ckpt>>,
         fences' = OtherFences
  PROVE  Trees'
<1>0. /\ Unique /\ Staging /\ Applying /\ FencesAhead /\ Holds
  BY DEF CInv, Trees, Holds
<1>1. OtherFences' = OtherFences /\ fences' \subseteq fences
  BY DEF OtherFences
<1>2. Effective(Suffix') = Effective(Suffix)
  BY DEF Suffix
<1>3. Holds'
  BY <1>0, <1>1, <1>2, HoldsKept DEF Settled
<1>4. Unique' /\ Staging' /\ Applying' /\ FencesAhead'
  BY <1>0, <1>1 DEF Unique, Staging, Applying, FencesAhead
<1> QED  BY <1>3, <1>4 DEF Holds, Trees

\* Committing a tree: what the checkpoint promises is in memory too.
LEMMA TreesCommitTree == CInv /\ CommitTree => Trees'
<1> SUFFICES ASSUME CInv, CommitTree PROVE Trees'
  OBVIOUS
<1>0. /\ IInv /\ TypeInv /\ Unique /\ Staging /\ Applying /\ FencesAhead /\ MemoryHas
      /\ Exact /\ CheckpointReflected
  BY DEF CInv, IInv, Frames, Trees
<1>1. /\ pc = "flush" /\ pc' = "flush" /\ todo' = todo /\ todo = {}
      /\ disk' = [disk EXCEPT ![flushed + 1] = mem[flushed + 1]]
      /\ log' = log /\ mem' = mem /\ ckpt' = ckpt /\ fences' = fences
  <2>1. pc = "flush" => todo = {}
    BY <1>0 DEF TypeInv, Bounded
  <2> QED  BY <2>1 DEF CommitTree, logVars
<1>2. disk \in [Keys -> Nat] /\ \A k \in Keys : disk'[k] = disk[k] \/ disk'[k] = mem[k]
  BY <1>0, <1>1 DEF TypeInv, TypeOK
<1>3. OtherFences' = fences /\ OtherFences = fences
  BY <1>1 DEF OtherFences
<1>4. CheckpointReflected'
  <2> SUFFICES ASSUME NEW r \in Effective(log), r.seq <= ckpt
               PROVE  disk'[r.key] >= r.val
    BY <1>0, <1>1 DEF CheckpointReflected
  <2>1. Settled(r)
    <3>1. ckpt \in Nat /\ r.seq \in Nat /\ \A f \in fences : f \in Nat /\ ckpt < f
      BY <1>0, EffectiveFields DEF TypeInv, TypeOK, FencesAhead
    <3> QED  BY <1>1, <1>3, <3>1 DEF Settled
  <2>2. mem[r.key] >= r.val /\ disk[r.key] >= r.val /\ r.key \in Keys
    BY <1>0, <1>1, <2>1, EffectiveFields DEF MemoryHas, CheckpointReflected
  <2> QED  BY <1>2, <2>2
<1>5. MemoryHas' /\ Exact'
  BY <1>0, <1>1, <1>2, <1>3 DEF MemoryHas, Exact, Settled, Latest, Suffix
<1>6. Unique' /\ Staging' /\ Applying' /\ FencesAhead'
  BY <1>0, <1>1 DEF Unique, Staging, Applying, FencesAhead
<1> QED  BY <1>4, <1>5, <1>6 DEF Trees

\* checkpoint::ceiling: the checkpoint stays below every fence.
LEMMA TargetBelowFences ==
  ASSUME TypeInv, FencesAhead
  PROVE  \A f \in fences : Target < f
<1> SUFFICES ASSUME NEW f \in fences PROVE Target < f
  OBVIOUS
<1> DEFINE g == CHOOSE g \in fences : \A h \in fences : g <= h
<1>1. g \in fences /\ \A h \in fences : g <= h
  BY LeastExists, Zenon DEF TypeInv, TypeOK
<1>2. Clamped(applied) = Smaller(applied, g - 1)
  BY DEF Clamped
<1> HIDE DEF g
<1>3. f \in Nat /\ g \in Nat /\ g <= f /\ ckpt \in Nat /\ applied \in Nat /\ ckpt < f
  BY <1>1 DEF TypeInv, TypeOK, FencesAhead
<1> QED  BY <1>2, <1>3 DEF Target, Smaller, Larger

\* The checkpoint moves once every tree is committed: what it passes was applied
\* for certain, and is on disk as it is in memory.
LEMMA TreesAdvance ==
  ASSUME CInv, IInv', Frames', pc = "flush", flushed = NTrees, ckpt' = Target,
         pc' \notin {"stage", "apply", "down"}, todo' = todo,
         UNCHANGED <<log, mem, disk, fences>>
  PROVE  Trees'
<1>0. /\ IInv /\ TypeInv /\ FlushProgress /\ Nested(log) /\ Unique /\ Staging
      /\ Applying /\ FencesAhead /\ MemoryHas /\ Exact /\ CheckpointReflected
      /\ TypeInv' /\ Nested(log')
  BY DEF CInv, IInv, Frames, Trees
<1>1. todo = {} /\ OtherFences = fences /\ OtherFences' = fences
  BY <1>0 DEF TypeInv, Bounded, OtherFences
<1>2. \A k \in Keys : disk[k] = mem[k]
  BY <1>0 DEF FlushProgress, Keys
<1>3. /\ Target \in Nat /\ ckpt \in Nat /\ Target >= ckpt
      /\ \A f \in fences : f \in Nat /\ Target < f
  BY <1>0, TargetBounds, TargetBelowFences DEF TypeInv, TypeOK
<1>4. \A r \in Effective(log) : r.key \in Keys /\ r.seq \in Nat
  BY <1>0, EffectiveFields
<1>5. CheckpointReflected'
  <2> SUFFICES ASSUME NEW r \in Effective(log), r.seq <= Target
               PROVE  disk[r.key] >= r.val
    BY <1>0 DEF CheckpointReflected
  <2>1. Settled(r)
    BY <1>1, <1>3, <1>4 DEF Settled
  <2> QED  BY <1>0, <1>2, <1>4, <2>1 DEF MemoryHas
<1>6. MemoryHas'
  BY <1>0, <1>1 DEF MemoryHas, Settled
<1>7. /\ Effective(Suffix) = {r \in Effective(log) : r.seq > ckpt}
      /\ Effective(Suffix') = {r \in Effective(log) : r.seq > Target}
  BY <1>0, EffectiveSuffix, EffectiveSuffixNext
<1>8. ASSUME NEW r \in Effective(Suffix'), Latest(r)', Settled(r)'
      PROVE  mem[r.key] = r.val
  <2>1. r \in Effective(Suffix) /\ r.seq > Target
    BY <1>3, <1>4, <1>7
  <2>2. ASSUME NEW q \in Effective(Suffix), q.key = r.key PROVE q.seq <= r.seq
    <3>1. CASE q.seq > Target
      <4>1. q \in Effective(Suffix')
        BY <1>7, <3>1
      <4> QED  BY <1>8, <2>2, <4>1 DEF Latest
    <3>2. CASE ~ (q.seq > Target)
      BY <1>3, <1>4, <1>7, <2>1, <3>2
    <3> QED  BY <3>1, <3>2
  <2>3. Latest(r) /\ Settled(r)
    BY <1>1, <1>8, <2>2 DEF Latest, Settled
  <2> QED  BY <1>0, <2>1, <2>3 DEF Exact
<1>9. Exact'
  BY <1>0, <1>2, <1>8 DEF Exact
<1>10. Unique' /\ Staging' /\ Applying' /\ FencesAhead'
  BY <1>0, <1>3 DEF Unique, Staging, Applying, FencesAhead
<1> QED  BY <1>5, <1>6, <1>9, <1>10 DEF Trees

\* Rotation drops nothing recovery looks at.
LEMMA TreesRotate ==
  ASSUME CInv, pc = "rotate", pc' \in {"idle", "stopped"}, todo' = todo,
         log' = Suffix, UNCHANGED <<mem, disk, ckpt, fences>>
  PROVE  Trees'
<1>0. /\ TypeInv /\ Unique /\ Staging /\ Applying /\ FencesAhead /\ Holds
  BY DEF CInv, IInv, Frames, Trees, Holds
<1>1. todo = {} /\ OtherFences' = OtherFences
  BY <1>0 DEF TypeInv, Bounded, OtherFences
<1>2. log' \subseteq log /\ Suffix' = Suffix
  BY DEF Suffix
<1>3. Effective(log') \subseteq Effective(log)
  BY <1>2, EffectivePart
<1>4. Holds'
  BY <1>0, <1>1, <1>2, <1>3, HoldsKept DEF Settled
<1>5. Unique' /\ Staging' /\ Applying' /\ FencesAhead'
  BY <1>0, <1>2 DEF Unique, Staging, Applying, FencesAhead
<1> QED  BY <1>4, <1>5 DEF Holds, Trees

\* After a crash or a power loss only the trees on disk count.
LEMMA TreesLoseMemory ==
  ASSUME CInv, LoseMemory, log' \subseteq log
  PROVE  Trees'
<1>0. /\ Unique /\ Staging /\ Applying /\ FencesAhead /\ MemoryHas /\ Exact
      /\ CheckpointReflected
  BY DEF CInv, Trees
<1>1. pc' = "down" /\ fences' = {} /\ UNCHANGED <<disk, ckpt>>
  BY DEF LoseMemory
<1>2. Effective(log') \subseteq Effective(log)
  BY EffectivePart
<1>3. Unique' /\ CheckpointReflected'
  BY <1>0, <1>1, <1>2 DEF Unique, CheckpointReflected
<1> QED  BY <1>0, <1>1, <1>3 DEF Staging, Applying, FencesAhead, MemoryHas, Exact, Trees

\* A restart has every effective mutation, or a newer one of its entry, and the
\* deciding ones exactly.
LEMMA RecoveredHas ==
  ASSUME CInv
  PROVE  /\ \A r \in Effective(log) : Recovered[r.key] >= r.val
         /\ \A r \in Effective(Suffix) : Latest(r) => Recovered[r.key] = r.val
<1>0. /\ IInv /\ TypeInv /\ Ordered /\ Nested(log) /\ Unique /\ CheckpointReflected
  BY DEF CInv, IInv, Frames, Trees
<1>1. TypeOK /\ Bounded /\ ckpt \in Nat /\ disk \in [Keys -> Nat]
  BY <1>0 DEF TypeInv, TypeOK
<1>2. \A r \in Effective(log) : /\ r \in log /\ r \in Issued /\ r.key \in Keys
                                /\ r.seq \in Nat /\ r.val \in Nat
  BY <1>0, EffectiveFields
<1>3. Effective(Suffix) = {r \in Effective(log) : r.seq > ckpt}
  BY <1>0, EffectiveSuffix
<1>4. ASSUME NEW r \in Effective(log) PROVE Recovered[r.key] >= r.val
  <2>1. ASSUME NEW q \in Effective(Suffix), Recovered[r.key] = q.val, r.seq <= q.seq
        PROVE  Recovered[r.key] >= r.val
    BY <1>0, <1>2, <1>3, <2>1 DEF Ordered
  <2>2. CASE r.seq <= ckpt
    <3>1. disk[r.key] >= r.val
      BY <1>0, <2>2 DEF CheckpointReflected
    <3>2. \A q \in Effective(Suffix) : r.seq <= q.seq
      BY <1>1, <1>2, <1>3, <2>2
    <3> QED  BY <1>0, <1>1, <1>2, <2>1, <3>1, <3>2, RecoveredEntry
  <2>3. CASE r.seq > ckpt
    <3>1. r \in Effective(Suffix)
      BY <1>3, <2>3
    <3> QED  BY <1>0, <1>1, <1>2, <2>1, <3>1, RecoveredEntry
  <2> QED  BY <1>1, <1>2, <2>2, <2>3
<1>5. ASSUME NEW r \in Effective(Suffix), Latest(r) PROVE Recovered[r.key] = r.val
  <2>1. PICK q \in Effective(Suffix) :
           /\ q.key = r.key /\ Recovered[r.key] = q.val
           /\ \A x \in Effective(Suffix) : x.key = r.key => x.seq <= q.seq
    BY <1>0, <1>1, <1>2, <1>3, RecoveredEntry
  <2>2. q.seq = r.seq
    BY <1>2, <1>3, <1>5, <2>1 DEF Latest
  <2>3. q = r
    BY <1>0, <1>2, <1>3, <2>2 DEF Unique
  <2> QED  BY <2>1, <2>3
<1> QED  BY <1>4, <1>5
\* Recovery puts into the working trees what it read back.
LEMMA TreesRecover == CInv /\ recover => Trees'
<1> SUFFICES ASSUME CInv, recover PROVE Trees'
  OBVIOUS
<1>0. /\ TypeInv /\ Unique /\ Staging /\ Applying /\ FencesAhead /\ MemoryHas /\ Exact
      /\ CheckpointReflected
  BY DEF CInv, IInv, Frames, Trees
<1>1. /\ pc = "down" /\ pc' = "flush" /\ mem' = Recovered
      /\ UNCHANGED <<log, disk, ckpt, fences>>
  BY DEF recover
<1>2. Suffix' = Suffix
  BY <1>1 DEF Suffix
<1>3. MemoryHas'
  BY <1>0, <1>1, RecoveredHas DEF MemoryHas
<1>4. Exact'
  <2>1. ASSUME NEW k \in Keys, \A r \in Effective(Suffix) : r.key # k
        PROVE  Recovered[k] = disk[k]
    BY <1>0, <2>1, RecoveredEntry DEF TypeInv
  <2>2. \A r \in Effective(Suffix) : Latest(r)' => Recovered[r.key] = r.val
    BY <1>2, RecoveredHas DEF Latest
  <2> QED  BY <1>0, <1>1, <1>2, <2>1, <2>2 DEF Exact
<1>5. Unique' /\ Staging' /\ Applying' /\ FencesAhead' /\ CheckpointReflected'
  BY <1>0, <1>1 DEF Unique, Staging, Applying, FencesAhead, CheckpointReflected
<1> QED  BY <1>3, <1>4, <1>5 DEF Trees

\* A new data directory has no records, fences or entries.
LEMMA CheckpointInit == Init => CInv
<1> SUFFICES ASSUME Init PROVE CInv
  OBVIOUS
<1>1. IInv /\ Frames /\ NoneStray
  BY InvInit, FrameInit, NoneStrayInit DEF FInv
<1>2. Effective(log) = {} /\ Effective(Suffix) = {}
  BY DEF Init, Effective, Suffix
<1>3. Trees
  BY <1>2 DEF Init, Trees, Unique, Staging, Applying, FencesAhead, MemoryHas, Exact,
              CheckpointReflected
<1> QED  BY <1>1, <1>3 DEF CInv

\* Every step keeps what the trees hold, whatever fails but a standalone mutation
\* being applied and the directory's fsync in rotate.
LEMMA CheckpointStep ==
  ASSUME "rotate_dirsync" \notin Faults, "apply_standalone" \notin Faults
  PROVE  CInv /\ [Next]_vars => CInv'
<1> SUFFICES ASSUME CInv, [Next]_vars PROVE Trees'
  BY InvStep, NoneStrayStep, FrameStep DEF CInv, FInv, IInv
<1>1. IInv' /\ Frames'
  BY InvStep, FrameStep DEF CInv, FInv, IInv
<1>2. /\ pc \notin {"stage", "apply"} => OtherFences = fences
      /\ pc # "apply" => todo = {}
      /\ resume \in {"idle", "stopped"}
  BY DEF OtherFences, CInv, IInv, TypeInv, TypeOK, Bounded
<1>3. CASE open
  BY <1>1, <1>3, TreesOpen
<1>4. ASSUME NEW k \in Keys, stage(k) \/ standalone(k) PROVE Trees'
  BY <1>1, <1>4, TreesStage, TreesStandalone
<1>5. CASE commit
  BY <1>1, <1>5, TreesCommit
<1>6. CASE drop
  BY <1>1, <1>6, TreesDrop
<1>7. CASE FailedFirstAppend
  <2>1. pc = "idle" /\ pc' = "idle" /\ UNCHANGED <<log, mem, disk, ckpt, fences, todo>>
    BY <1>7 DEF FailedFirstAppend, stateVars, lockVars
  <2> QED  BY <1>2, <2>1, TreesQuiet
<1>8. CASE apply_committed
  BY <1>1, <1>8, TreesApply
<1>9. CASE ApplyFails
  BY <1>1, <1>9, TreesApplyFails
<1>10. CASE settle
  <2>1. /\ pc = "apply" /\ pc' \in {"idle", "flush"} /\ todo = {}
        /\ fences' = fences \ {unit.begin} /\ UNCHANGED <<log, mem, disk, ckpt, todo>>
    BY <1>10 DEF settle, logVars
  <2>2. fences' = OtherFences
    BY <2>1 DEF OtherFences
  <2> QED  BY <2>1, <2>2, TreesQuiet
<1>11. CASE Shutdown
  <2>1. pc = "idle" /\ pc' = "flush" /\ UNCHANGED <<log, mem, disk, ckpt, fences, todo>>
    BY <1>11 DEF Shutdown, logVars, stateVars
  <2> QED  BY <1>2, <2>1, TreesQuiet
<1>12. CASE CommitTree
  BY <1>12, TreesCommitTree
<1>13. CASE advance
  <2>1. /\ pc = "flush" /\ flushed = NTrees /\ ckpt' = Target /\ pc' = "rotate"
        /\ UNCHANGED <<log, mem, disk, fences, todo>>
    BY <1>13 DEF advance, logVars
  <2> QED  BY <1>1, <2>1, TreesAdvance
<1>14. CASE rotate
  <2>1. /\ pc = "rotate" /\ pc' \in {"idle", "stopped"}
        /\ (log' = log \/ log' = Suffix) /\ UNCHANGED <<mem, disk, ckpt, fences, todo>>
    BY <1>2, <1>14 DEF rotate, stateVars
  <2> QED  BY <1>2, <2>1, TreesQuiet, TreesRotate
<1>15. CASE CheckpointFails
  <2>1. /\ pc \in {"flush", "rotate"} /\ pc' \in {"idle", "stopped"}
        /\ ckpt' = ckpt \/ (pc = "flush" /\ flushed = NTrees /\ ckpt' = Target)
        /\ UNCHANGED <<log, mem, disk, fences, todo>>
    BY <1>15 DEF CheckpointFails, Abandon, logVars
  <2> QED  BY <1>1, <1>2, <2>1, TreesQuiet, TreesAdvance
<1>16. CASE RotateLosesHandle
  BY <1>16 DEF RotateLosesHandle
<1>17. ASSUME UNCHANGED <<log, mem, disk, ckpt, fences, pc, unit, todo>> PROVE Trees'
  BY <1>17, Zenon DEF CInv, Trees, Unique, Staging, Applying, FencesAhead, MemoryHas,
               Exact, Settled, Latest, OtherFences, Suffix, CheckpointReflected
<1>18. ASSUME NEW u \in waiting, Acknowledge(u) PROVE Trees'
  BY <1>17, <1>18 DEF Acknowledge, stateVars, lockVars
<1>19. CASE Crash
  BY <1>19, TreesLoseMemory DEF Crash
<1>20. CASE PowerLoss
  <2>1. LoseMemory /\ log' \subseteq log
    BY <1>20 DEF PowerLoss
  <2> QED  BY <2>1, TreesLoseMemory
<1>21. CASE recover
  BY <1>21, TreesRecover
<1>22. CASE UNCHANGED vars
  BY <1>17, <1>22 DEF vars, logVars, stateVars, lockVars
<1> QED
  BY <1>3, <1>4, <1>5, <1>6, <1>7, <1>8, <1>9, <1>10, <1>11, <1>12, <1>13, <1>14,
     <1>15, <1>16, <1>18, <1>19, <1>20, <1>21, <1>22 DEF Next

\* With no fence left and no write under way, memory is what a restart reads back.
LEMMA InvImpliesVisible == CInv => VisibleIsRecoverable
<1> SUFFICES ASSUME CInv, pc = "idle", fences = {} PROVE mem = Recovered
  BY DEF VisibleIsRecoverable
<1>0. /\ TypeInv /\ Exact
  BY DEF CInv, IInv, Trees
<1>1. \A r : Settled(r)
  BY <1>0 DEF Settled, OtherFences, TypeInv, Bounded
<1>2. ASSUME NEW k \in Keys PROVE mem[k] = Recovered[k]
  <2>1. CASE \A r \in Effective(Suffix) : r.key # k
    BY <1>0, <2>1, RecoveredEntry DEF Exact, TypeInv
  <2>2. ASSUME NEW r \in Effective(Suffix), r.key = k, Recovered[k] = r.val,
               \A q \in Effective(Suffix) : q.key = k => q.seq <= r.seq
        PROVE  mem[k] = Recovered[k]
    BY <1>0, <1>1, <2>2 DEF Exact, Latest
  <2> QED  BY <1>0, <2>1, <2>2, RecoveredEntry DEF TypeInv
<1>3. mem \in [Keys -> Nat] /\ Recovered \in [Keys -> Nat]
  BY <1>0, RecoveredType DEF TypeInv, TypeOK
<1> QED  BY <1>2, <1>3

\* The checkpoint never runs ahead of the committed trees: fences, the flush before
\* checkpoint::advance_to and the clamp to checkpoint::ceiling see to it, through
\* failed appends, failed batches, failed flushes, crashes and power loss.
THEOREM CheckpointNeverAhead ==
  ASSUME "rotate_dirsync" \notin Faults, "apply_standalone" \notin Faults
  PROVE  Spec => []CheckpointReflected
<1>1. Init => CInv
  BY CheckpointInit
<1>2. CInv /\ [Next]_vars => CInv'
  BY CheckpointStep
<1>3. CInv => CheckpointReflected
  BY DEF CInv, Trees
<1> QED  BY <1>1, <1>2, <1>3, PTL DEF Spec

\* Readers of the trees in memory see, between writes, what a restart would rebuild
\* from the trees on disk and the log, as long as no batch failed while applied.
THEOREM ReadersSeeTheRestart ==
  ASSUME "rotate_dirsync" \notin Faults, "apply_standalone" \notin Faults
  PROVE  Spec => []VisibleIsRecoverable
<1>1. Init => CInv
  BY CheckpointInit
<1>2. CInv /\ [Next]_vars => CInv'
  BY CheckpointStep
<1>3. CInv => VisibleIsRecoverable
  BY InvImpliesVisible
<1> QED  BY <1>1, <1>2, <1>3, PTL DEF Spec

-----------------------------------------------------------------------------
(* A checkpoint changes nothing for a restart.                             *)

\* Replay gives an entry the value of its last effective record.
LEMMA ReplayLast ==
  ASSUME NEW S \in SUBSET WalRecord, NEW b \in Nat, \A r \in S : r.seq <= b,
         \A q, r \in S : q.seq = r.seq => q = r,
         NEW base, NEW k \in Keys, NEW r \in Effective(S), r.key = k,
         \A q \in Effective(S) : q.key = k => q.seq <= r.seq
  PROVE  Replay(S, base)[k] = r.val
<1> DEFINE l == LastPut(Effective(S), k)
<1>1. Effective(S) \subseteq S
  BY DEF Effective
<1>2. l \in Effective(S) /\ l.key = k /\ \A q \in Effective(S) : q.key = k => q.seq <= l.seq
  BY <1>1, LastPutIsLast
<1>3. Replay(S, base)[k] = l.val
  BY DEF Replay
<1> HIDE DEF l
<1>4. l.seq = r.seq
  BY <1>1, <1>2 DEF WalRecord
<1> QED  BY <1>1, <1>2, <1>3, <1>4

\* Replay leaves an entry without effective records as it is in the trees.
LEMMA ReplayNone ==
  ASSUME NEW S, NEW base, NEW k \in Keys, \A r \in Effective(S) : r.key # k
  PROVE  Replay(S, base)[k] = base[k]
BY DEF Replay

\* What a restart brings back is a function of the effective records above the
\* checkpoint and of the trees on disk.
LEMMA RecoveredKept ==
  ASSUME Effective(Suffix') = Effective(Suffix), disk' = disk
  PROVE  Recovered' = Recovered
BY DEF Recovered, Replay

\* Committing a tree changes nothing for a restart: the entry is decided by the
\* log, or is the same in memory and on disk.
LEMMA RecoveredFlush == CInv /\ CommitTree => Recovered' = Recovered
<1> SUFFICES ASSUME CInv, CommitTree PROVE Recovered' = Recovered
  OBVIOUS
<1>1. /\ pc = "flush" /\ Suffix' = Suffix
      /\ disk' = [disk EXCEPT ![flushed + 1] = mem[flushed + 1]]
  BY DEF CommitTree, logVars, Suffix
<1>2. ASSUME NEW k \in Keys, \A r \in Effective(Suffix) : r.key # k
      PROVE  disk'[k] = disk[k]
  BY <1>1, <1>2 DEF CInv, IInv, TypeInv, TypeOK, Trees, Exact
<1> QED  BY <1>1, <1>2 DEF Recovered, Replay

\* Moving the checkpoint over committed trees changes nothing for a restart.
LEMMA RecoveredAdvance ==
  ASSUME CInv, TypeInv', Nested(log'), pc = "flush", flushed = NTrees, ckpt' = Target,
         UNCHANGED <<log, disk>>
  PROVE  Recovered' = Recovered
<1>0. /\ IInv /\ TypeInv /\ FlushProgress /\ Nested(log)
      /\ Unique /\ FencesAhead /\ Exact
  BY DEF CInv, IInv, Frames, Trees
<1>1. /\ Suffix \in SUBSET WalRecord /\ Suffix' \in SUBSET WalRecord /\ MaxSeq \in Nat
      /\ \A r \in Suffix : r.seq <= MaxSeq
      /\ \A r \in Suffix' : r.seq <= MaxSeq
      /\ \A q, r \in Suffix : q.seq = r.seq => q = r
      /\ \A q, r \in Suffix' : q.seq = r.seq => q = r
  BY <1>0, ConstantsAssumption DEF TypeInv, TypeOK, Bounded, Suffix, Unique
<1>2. \A k \in Keys : disk[k] = mem[k]
  BY <1>0 DEF FlushProgress, Keys
<1>3. /\ Target \in Nat /\ ckpt \in Nat /\ Target >= ckpt
      /\ \A f \in fences : f \in Nat /\ Target < f
  BY <1>0, TargetBounds, TargetBelowFences DEF TypeInv, TypeOK
<1>4. \A r \in Effective(log) : r.key \in Keys /\ r.seq \in Nat
  BY <1>0, EffectiveFields
<1>5. /\ Effective(Suffix) = {r \in Effective(log) : r.seq > ckpt}
      /\ Effective(Suffix') = {r \in Effective(log) : r.seq > Target}
  BY <1>0, EffectiveSuffix, EffectiveSuffixNext
<1>6. ASSUME NEW k \in Keys PROVE Recovered'[k] = Recovered[k]
  <2>1. CASE \A r \in Effective(Suffix) : r.key # k
    <3>1. \A r \in Effective(Suffix') : r.key # k
      BY <1>3, <1>4, <1>5, <2>1
    <3> QED  BY <2>1, <3>1, ReplayNone DEF Recovered
  <2>2. ASSUME NEW r \in Effective(Suffix), r.key = k, Recovered[k] = r.val,
               \A q \in Effective(Suffix) : q.key = k => q.seq <= r.seq
        PROVE  Recovered'[k] = Recovered[k]
    <3>1. CASE r.seq > Target
      <4>1. /\ r \in Effective(Suffix')
            /\ \A q \in Effective(Suffix') : q.key = k => q.seq <= r.seq
        BY <1>3, <1>4, <1>5, <2>2, <3>1
      <4> QED  BY <1>1, <2>2, <4>1, ReplayLast DEF Recovered
    <3>2. CASE ~ (r.seq > Target)
      <4>1. \A q \in Effective(Suffix') : q.key # k
        BY <1>3, <1>4, <1>5, <2>2, <3>2
      <4>2. Recovered'[k] = disk[k]
        BY <4>1, ReplayNone DEF Recovered
      <4>3. Latest(r) /\ Settled(r)
        BY <1>0, <1>3, <1>4, <1>5, <2>2, <3>2 DEF Latest, Settled, OtherFences, TypeInv, Bounded
      <4> QED  BY <1>0, <1>2, <2>2, <4>2, <4>3 DEF Exact
    <3> QED  BY <3>1, <3>2
  <2> QED  BY <1>0, <2>1, <2>2, RecoveredEntry DEF TypeInv
<1>7. Recovered = [k \in Keys |-> Recovered[k]] /\ Recovered' = [k \in Keys |-> Recovered'[k]]
  BY DEF Recovered, Replay
<1> QED  BY <1>6, <1>7

-----------------------------------------------------------------------------
(* Refinement.  The invariant is CInv, with the numbers of the writes.     *)

SInv == CInv /\ InRange

-----------------------------------------------------------------------------
(* Lemmas about Overlay.                                                   *)

\* One more record is one more write.
LEMMA WritesOne ==
  ASSUME NEW S, NEW p
  PROVE  Writes(S \cup {p}) = Writes(S) \cup {[key |-> p.key, val |-> p.val]}
BY Zenon DEF Writes

\* Of the writes W to an entry, Overlay takes the newest.
LEMMA OverlayNewest ==
  ASSUME NEW W, NEW base, NEW k \in Keys, NEW w \in W, w.key = k,
         \A x \in W : x.val \in Nat, \A x \in W : x.key = k => x.val <= w.val
  PROVE  Store!Overlay(W, base)[k] = w.val
<1> DEFINE V == {x.val : x \in {y \in W : y.key = k}}
           v == CHOOSE v \in V : \A x \in W : x.key = k => x.val <= v
<1>1. w.val \in V
  OBVIOUS
<1>2. v \in V /\ \A x \in W : x.key = k => x.val <= v
  BY <1>1
<1>3. Store!Overlay(W, base)[k] = v
  BY DEF Store!Overlay
<1>4. v <= w.val /\ w.val <= v /\ v \in Nat
  BY <1>2
<1> HIDE DEF v, V
<1> QED  BY <1>3, <1>4

\* An entry W does not write stays.
LEMMA OverlayOther ==
  ASSUME NEW W, NEW base, NEW k \in Keys, \A x \in W : x.key # k
  PROVE  Store!Overlay(W, base)[k] = base[k]
BY DEF Store!Overlay

-----------------------------------------------------------------------------
(* What changes the state a restart brings back.                           *)

\* A unit that becomes effective above all others is overlaid, whole.
LEMMA RecoveredCommitted ==
  ASSUME TypeInv', Unique', NEW U \in SUBSET WalRecord, disk' = disk,
         Effective(Suffix') = Effective(Suffix) \cup U,
         Effective(Suffix) \subseteq WalRecord, TypeInv, Unique,
         \A q \in Effective(Suffix), r \in U : q.seq < r.seq,
         \A q, r \in U : q.seq <= r.seq => q.val <= r.val
  PROVE  Recovered' = Store!Overlay(Writes(U), Recovered)
<1>1. /\ Suffix \in SUBSET WalRecord /\ Suffix' \in SUBSET WalRecord /\ MaxSeq \in Nat
      /\ \A r \in Suffix : r.seq <= MaxSeq
      /\ \A r \in Suffix' : r.seq <= MaxSeq
      /\ \A q, r \in Suffix : q.seq = r.seq => q = r
      /\ \A q, r \in Suffix' : q.seq = r.seq => q = r
  BY ConstantsAssumption DEF TypeInv, TypeOK, Bounded, Suffix, Unique
<1>2. \A r \in U : r.seq \in Nat /\ r.val \in Nat /\ r \in Suffix'
  BY DEF WalRecord, Effective
<1>3. /\ \A x \in Writes(U) : \E r \in U : x.key = r.key /\ x.val = r.val
      /\ \A r \in U : \E x \in Writes(U) : x.key = r.key /\ x.val = r.val
  <2>1. ASSUME NEW x \in Writes(U) PROVE \E r \in U : x.key = r.key /\ x.val = r.val
    BY DEF Writes
  <2>2. ASSUME NEW r \in U PROVE \E x \in Writes(U) : x.key = r.key /\ x.val = r.val
    <3>1. [key |-> r.key, val |-> r.val] \in Writes(U)
      BY DEF Writes
    <3> QED  BY <3>1
  <2> QED  BY <2>1, <2>2
<1>4. ASSUME NEW k \in Keys
      PROVE  Recovered'[k] = Store!Overlay(Writes(U), Recovered)[k]
  <2>1. CASE \E r \in U : r.key = k
    <3>1. PICK r \in U : r.key = k /\ \A q \in U : q.key = k => q.seq <= r.seq
      <4>1. \A q \in U : q.seq <= MaxSeq
        BY <1>1, <1>2
      <4>2. LastPut(U, k) \in U /\ LastPut(U, k).key = k
        BY <1>1, <2>1, <4>1, LastPutIsLast, Zenon
      <4>3. \A q \in U : q.key = k => q.seq <= LastPut(U, k).seq
        BY <1>1, <2>1, <4>1, LastPutIsLast, Zenon
      <4> QED  BY <4>2, <4>3, Zenon
    <3>2. Replay(Suffix', disk')[k] = r.val
      <4>1. /\ r \in Effective(Suffix')
            /\ \A q \in Effective(Suffix') : q.key = k => q.seq <= r.seq
        BY <1>2, <3>1 DEF WalRecord
      <4> QED  BY <1>1, <3>1, <4>1, ReplayLast
    <3>3. PICK w \in Writes(U) : w.key = k /\ w.val = r.val
      BY <1>3, <3>1
    <3>4. /\ \A x \in Writes(U) : x.val \in Nat
          /\ \A x \in Writes(U) : x.key = k => x.val <= w.val
      BY <1>2, <1>3, <3>1, <3>3
    <3>5. Store!Overlay(Writes(U), Recovered)[k] = w.val
      BY <3>3, <3>4, OverlayNewest
    <3> QED  BY <3>2, <3>3, <3>5 DEF Recovered
  <2>2. CASE \A r \in U : r.key # k
    <3>1. Store!Overlay(Writes(U), Recovered)[k] = Recovered[k]
      BY <1>3, <2>2, OverlayOther
    <3>2. CASE \A r \in Effective(Suffix) : r.key # k
      <4>1. \A r \in Effective(Suffix') : r.key # k
        BY <2>2, <3>2
      <4> QED  BY <3>1, <3>2, <4>1, ReplayNone DEF Recovered
    <3>3. ASSUME NEW r \in Effective(Suffix), r.key = k,
                 \A q \in Effective(Suffix) : q.key = k => q.seq <= r.seq
          PROVE  Recovered'[k] = Recovered[k]
      <4>1. /\ r \in Effective(Suffix')
            /\ \A q \in Effective(Suffix') : q.key = k => q.seq <= r.seq
        BY <2>2, <3>3
      <4> QED  BY <1>1, <3>3, <4>1, ReplayLast DEF Recovered
    <3> QED  BY <3>1, <3>2, <3>3, RecoveredEntry DEF TypeInv
  <2> QED  BY <2>1, <2>2
<1>5. /\ Recovered' = [k \in Keys |-> Recovered'[k]]
      /\ Store!Overlay(Writes(U), Recovered) =
           [k \in Keys |-> Store!Overlay(Writes(U), Recovered)[k]]
  BY DEF Recovered, Replay, Store!Overlay
<1> QED  BY <1>4, <1>5

-----------------------------------------------------------------------------
(* The steps.                                                              *)

\* A step that changes neither the state a restart brings back, nor the open frame,
\* nor what is acknowledged is a stutter of the store; one that ends the open frame
\* discards it.
LEMMA StoreQuiet ==
  ASSUME Recovered' = Recovered, acked' = acked, pc' # "stage"
  PROVE  Store!Next
BY DEF Store!Next, Store!Discard, Writes

\* Appending a standalone record writes it to the store.
LEMMA StoreStandalone ==
  ASSUME SInv, CInv', NEW k \in Keys, standalone(k)
  PROVE  Store!Next
<1>0. /\ CInv /\ TypeInv /\ Unique /\ Counted
      /\ TypeInv' /\ Unique' /\ Nested(log')
  BY DEF SInv, CInv, IInv, Frames, Trees
<1> DEFINE p == Put(0, k)
           w == [key |-> k, val |-> nextWrite]
<1>1. p \in WalRecord /\ p.seq = nextSeq /\ Writes({p}) = {w} /\ w \in Store!Writes
  <2>1. nextSeq \in Nat /\ nextWrite \in Nat /\ nextWrite \in 1 .. MaxWrite
    BY <1>0, ConstantsAssumption DEF standalone, TypeInv, TypeOK
  <2>2. p.seq = nextSeq /\ p.key = k /\ p.val = nextWrite
    BY DEF Put
  <2>3. p \in WalRecord
    BY <2>1 DEF Put, WalRecord
  <2>4. w \in Store!Writes
    BY <2>1 DEF Store!Writes
  <2>5. Writes({p}) = {w}
    BY <2>2, Zenon DEF Writes
  <2> QED  BY <2>2, <2>3, <2>4, <2>5
<1>2. Effective(Suffix') = Effective(Suffix) \cup {p}
  BY <1>0, EffectiveAppends
<1> HIDE DEF p
<1>3. /\ pc = "idle" /\ pc' = "apply" /\ disk' = disk /\ acked' = acked
  BY DEF standalone, stateVars, clientVars
<1>4. Effective(Suffix) \subseteq WalRecord /\ \A q \in Effective(Suffix) : q.seq < nextSeq
  BY <1>0, <1>3 DEF Effective, Suffix, TypeInv, TypeOK, Counted
<1>5. Recovered' = Store!Overlay({w}, Recovered)
  <2>1. \A q, r \in {p} : q.seq <= r.seq => q.val <= r.val
    BY <1>1 DEF WalRecord
  <2>2. Recovered' = Store!Overlay(Writes({p}), Recovered)
    BY <1>0, <1>1, <1>2, <1>3, <1>4, <2>1, RecoveredCommitted
  <2> QED  BY <1>1, <2>2
<1> HIDE DEF w
<1> QED  BY <1>1, <1>3, <1>5 DEF Store!Next, Store!WriteOne

\* COMMIT writes the open frame to the store, all at once.
LEMMA StoreCommit ==
  ASSUME SInv, CInv', commit
  PROVE  Store!Next
<1>0. /\ CInv /\ TypeInv /\ Ordered /\ Unique /\ Staging
      /\ TypeInv' /\ Unique' /\ Nested(log')
  BY DEF SInv, CInv, IInv, Frames, Trees
<1>1. /\ pc = "stage" /\ pc' = "apply" /\ disk' = disk /\ acked' = acked /\ unit.ops # {}
  BY DEF commit, stateVars, clientVars
<1>2. Effective(Suffix') = Effective(Suffix) \cup unit.ops
  BY <1>0, EffectiveAppends
<1>3. unit.ops \in SUBSET WalRecord /\ unit.ops \subseteq Issued /\ unit.begin \in Nat
  BY <1>0 DEF TypeInv, TypeOK, Unit, Issued
<1>4. Effective(Suffix) \subseteq WalRecord
  BY <1>0 DEF Effective, Suffix, TypeInv, TypeOK
<1>5. \A q \in Effective(Suffix), r \in unit.ops : q.seq < r.seq
  <2>1. Effective(Suffix) \subseteq Effective(log)
    BY EffectivePart DEF Suffix
  <2> QED  BY <1>0, <1>1, <1>3, <1>4, <2>1 DEF Staging, WalRecord
<1>6. \A q, r \in unit.ops : q.seq <= r.seq => q.val <= r.val
  BY <1>0, <1>3 DEF Ordered
<1>7. Recovered' = Store!Overlay(Writes(unit.ops), Recovered)
  BY <1>0, <1>1, <1>2, <1>3, <1>4, <1>5, <1>6, RecoveredCommitted
<1>8. Writes(unit.ops) # {}
  BY <1>1, Zenon DEF Writes
<1> QED  BY <1>1, <1>7, <1>8 DEF Store!Next, Store!Commit

\* A staged mutation joins the open frame, and the store does not change.
LEMMA StoreStage ==
  ASSUME SInv, CInv', NEW k \in Keys, stage(k)
  PROVE  Store!Next
<1>0. CInv /\ TypeInv /\ TypeInv' /\ Nested(log')
  BY DEF SInv, CInv, IInv, Frames
<1> DEFINE w == [key |-> k, val |-> nextWrite]
<1>1. Effective(Suffix') = Effective(Suffix)
  BY <1>0, EffectiveAppends
<1>2. pc = "stage" /\ pc' = "stage" /\ disk' = disk /\ acked' = acked
  BY DEF stage, stateVars, clientVars
<1>3. Recovered' = Recovered
  BY <1>1, <1>2, RecoveredKept
<1>4. w \in Store!Writes
  BY <1>0, ConstantsAssumption DEF stage, TypeInv, TypeOK, Store!Writes
<1>5. Writes(unit'.ops) = Writes(unit.ops) \cup {w}
  <2>1. unit'.ops = unit.ops \cup {Put(unit.tx, k)}
    BY <1>0 DEF stage, TypeInv, TypeOK, Unit
  <2>2. Put(unit.tx, k).key = k /\ Put(unit.tx, k).val = nextWrite
    BY DEF Put
  <2> QED  BY <2>1, <2>2, WritesOne
<1> HIDE DEF w
<1> QED  BY <1>2, <1>3, <1>4, <1>5 DEF Store!Next, Store!Stage

\* A write is acknowledged when the store has it.
LEMMA StoreAcknowledge ==
  ASSUME IInv', NoneStray', InRange', AckedRecoverable', NEW u \in waiting, Acknowledge(u)
  PROVE  Store!Next
<1>1. /\ acked' = acked \cup u.ops /\ log' = log /\ ckpt' = ckpt /\ disk' = disk
      /\ pc' = pc /\ unit' = unit
  BY DEF Acknowledge, stateVars, lockVars
<1>2. Recovered' = Recovered
  BY <1>1 DEF Recovered, Suffix
<1>3. \A a \in acked' : /\ a.key \in Keys /\ a.val \in 1 .. MaxWrite
                        /\ Recovered[a.key] >= a.val
  BY <1>2 DEF IInv, Ordered, Issued, Named, NoneStray, InRange, Written, AckedRecoverable
<1>4. Writes(acked') \subseteq {w \in Store!Writes : w.val <= Recovered[w.key]}
  BY <1>3 DEF Writes, Store!Writes
<1>5. Writes(acked) \subseteq Writes(acked')
  BY <1>1 DEF Writes
<1>6. /\ Recovered' = Recovered
      /\ (IF pc' = "stage" THEN Writes(unit'.ops) ELSE {}) =
           (IF pc = "stage" THEN Writes(unit.ops) ELSE {})
  BY <1>1, <1>2
<1> QED  BY <1>4, <1>5, <1>6 DEF Store!Next, Store!Acknowledge

\* Every step of the engine but a power loss is a step or a stutter of the store.
LEMMA StoreStep ==
  ASSUME "rotate_dirsync" \notin Faults, "apply_standalone" \notin Faults,
         SInv, SInv', AckedRecoverable', [Next]_vars
  PROVE  Store!Next \/ PowerLoss \/ UNCHANGED Store!vars
<1>1. /\ CInv /\ CInv' /\ IInv' /\ NoneStray' /\ InRange' /\ TypeInv /\ TypeInv' /\ Nested(log')
  BY DEF SInv, CInv, IInv, Frames
<1>2. ASSUME log' = log /\ ckpt' = ckpt /\ disk' = disk PROVE Recovered' = Recovered
  BY <1>2 DEF Recovered, Suffix
<1>3. CASE open
  <2>1. /\ pc = "idle" /\ pc' = "stage" /\ unit'.ops = {} /\ acked' = acked /\ disk' = disk
    <3>1. /\ pc = "idle" /\ pc' = "stage" /\ clientVars' = clientVars /\ disk' = disk
      BY <1>3, Zenon DEF open, stateVars
    <3>2. unit'.ops = {}
      BY <1>3 DEF open
    <3> QED  BY <3>1, <3>2 DEF clientVars
  <2>2. Recovered' = Recovered
    BY <1>1, <1>3, <2>1, EffectiveAppends, RecoveredKept
  <2>3. Writes({}) = {}
    BY DEF Writes
  <2> QED  BY <2>1, <2>2, <2>3 DEF Store!vars
<1>4. ASSUME NEW k \in Keys, stage(k) \/ standalone(k) PROVE Store!Next
  BY <1>1, <1>4, StoreStage, StoreStandalone
<1>5. CASE commit
  BY <1>1, <1>5, StoreCommit
<1>6. CASE drop
  <2>1. pc' = "idle" /\ acked' = acked /\ disk' = disk
    BY <1>6, Zenon DEF drop, stateVars, clientVars
  <2>2. Recovered' = Recovered
    BY <1>1, <1>6, <2>1, EffectiveAppends, RecoveredKept
  <2> QED  BY <2>1, <2>2, StoreQuiet, Zenon
<1>7. CASE FailedFirstAppend \/ apply_committed \/ ApplyFails \/ settle \/ Shutdown \/ recover
  <2>1. pc' # "stage" /\ acked' = acked /\ log' = log /\ ckpt' = ckpt /\ disk' = disk
    BY <1>7 DEF FailedFirstAppend, apply_committed, ApplyFails, settle, Shutdown, recover,
                logVars, stateVars, lockVars, clientVars
  <2>2. Recovered' = Recovered
    BY <1>2, <2>1, Zenon
  <2> QED  BY <2>1, <2>2, StoreQuiet, Zenon
<1>8. CASE CommitTree
  <2>1. pc' # "stage" /\ acked' = acked
    BY <1>8 DEF CommitTree, clientVars
  <2> QED  BY <1>1, <1>8, <2>1, RecoveredFlush, StoreQuiet
<1>9. CASE advance
  <2>1. /\ pc = "flush" /\ flushed = NTrees /\ ckpt' = Target /\ pc' = "rotate"
        /\ acked' = acked /\ log' = log /\ disk' = disk
    BY <1>9 DEF advance, logVars, clientVars
  <2> QED  BY <1>1, <2>1, RecoveredAdvance, StoreQuiet
<1>10. CASE rotate
  <2>1. pc' # "stage" /\ acked' = acked /\ ckpt' = ckpt /\ disk' = disk
    BY <1>1, <1>10 DEF rotate, stateVars, TypeInv, TypeOK
  <2>2. Suffix' = Suffix
    BY <1>10, <2>1 DEF rotate, Suffix
  <2>3. Recovered' = Recovered
    BY <2>1, <2>2, RecoveredKept
  <2> QED  BY <2>1, <2>3, StoreQuiet, Zenon
<1>11. CASE CheckpointFails
  <2>1. /\ pc' # "stage" /\ acked' = acked /\ log' = log /\ disk' = disk
        /\ ckpt' = ckpt \/ (pc = "flush" /\ flushed = NTrees /\ ckpt' = Target)
    BY <1>11 DEF CheckpointFails, Abandon, logVars
  <2>2. Recovered' = Recovered
    BY <1>1, <1>2, <2>1, RecoveredAdvance
  <2> QED  BY <2>1, <2>2, StoreQuiet, Zenon
<1>12. CASE RotateLosesHandle
  BY <1>12 DEF RotateLosesHandle
<1>13. ASSUME NEW u \in waiting, Acknowledge(u) PROVE Store!Next
  BY <1>1, <1>13, StoreAcknowledge
<1>14. CASE Crash
  <2>1. pc' = "down" /\ acked' = acked /\ log' = log /\ ckpt' = ckpt /\ disk' = disk
    BY <1>14 DEF Crash, LoseMemory
  <2> QED  BY <1>2, <2>1, StoreQuiet, Zenon
<1>15. CASE UNCHANGED vars
  <2>1. log' = log /\ ckpt' = ckpt /\ disk' = disk /\ pc' = pc /\ unit' = unit /\ acked' = acked
    BY <1>15 DEF vars, logVars, stateVars, lockVars, clientVars
  <2> QED  BY <1>2, <2>1 DEF Store!vars
<1> QED
  BY <1>3, <1>4, <1>5, <1>6, <1>7, <1>8, <1>9, <1>10, <1>11, <1>12, <1>13, <1>14,
     <1>15, Zenon DEF Next

\* The invariant holds throughout.
LEMMA StoreInvariant ==
  ASSUME "rotate_dirsync" \notin Faults, "apply_standalone" \notin Faults
  PROVE  Spec => []SInv
<1>1. Init => SInv
  <2> SUFFICES ASSUME Init PROVE SInv
    OBVIOUS
  <2>1. InRange
    BY DEF Init, InRange, Written, OpsOf, NoUnit
  <2> QED  BY <2>1, CheckpointInit DEF SInv
<1>2. SInv /\ [Next]_vars => SInv'
  BY CheckpointStep, RangeStep DEF SInv, CInv, IInv
<1> QED  BY <1>1, <1>2, PTL DEF Spec

\* Initially a restart brings back empty trees.
LEMMA StoreInit == Init => Store!Init
<1> SUFFICES ASSUME Init PROVE Store!Init
  OBVIOUS
<1>1. Effective(Suffix) = {}
  BY DEF Init, Effective, Suffix
<1>2. Recovered = [k \in Keys |-> 0]
  BY <1>1 DEF Init, Recovered, Replay
<1>3. Writes(acked) = {} /\ pc # "stage"
  BY DEF Init, Writes
<1> QED  BY <1>2, <1>3 DEF Store!Init

\* What a restart would bring back changes only by whole units, when their COMMIT or
\* their one record is appended: not while a unit is applied, not in any step of a
\* checkpoint, not by a rotation, a crash or a recovery, also when appends, batches
\* or flushes fail.  Only a power loss may take unsynced units away.
THEOREM OnlyUnitsChangeTheStore ==
  ASSUME "rotate_dirsync" \notin Faults, "apply_standalone" \notin Faults
  PROVE  Spec => [][Store!Next \/ PowerLoss]_(Store!vars)
<1>1. SInv => AckedRecoverable
  BY InvImpliesNamed DEF SInv, CInv, NoneStray, NamedWritesSurvive, AckedRecoverable
<1>2. SInv /\ SInv' /\ AckedRecoverable' /\ [Next]_vars
        => [Store!Next \/ PowerLoss]_(Store!vars)
  BY StoreStep
<1> QED  BY <1>1, <1>2, StoreInvariant, PTL DEF Spec

\* On a machine that keeps its power the durability core implements DurableStore:
\* commit.rs, transaction.rs, engine.rs, checkpoint.rs, wal.rs and recovery.rs
\* together are one atomic, durable map.
THEOREM Refinement ==
  ASSUME "rotate_dirsync" \notin Faults, "apply_standalone" \notin Faults,
         "power" \notin Faults
  PROVE  Spec => ImplementsDurableStore
<1>1. SInv => AckedRecoverable
  BY InvImpliesNamed DEF SInv, CInv, NoneStray, NamedWritesSurvive, AckedRecoverable
<1>2. SInv /\ SInv' /\ AckedRecoverable' /\ [Next]_vars => [Store!Next]_(Store!vars)
  <2>1. ~ PowerLoss
    BY DEF PowerLoss
  <2> QED  BY <2>1, StoreStep
<1>3. Init => Store!Init
  BY StoreInit
<1> QED
  BY <1>1, <1>2, <1>3, StoreInvariant, PTL DEF Spec, ImplementsDurableStore, Store!Spec
=============================================================================
