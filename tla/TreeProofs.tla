----------------------------- MODULE TreeProofs -----------------------------
(***************************************************************************)
(* What the trees hold, in memory and on disk, relative to the log: the    *)
(* inductive invariant behind CheckpointReflected and VisibleIsRecoverable *)
(* of Durability, and that the steps of a write keep it.  It needs that no *)
(* standalone mutation fails while it is applied (nothing fences it) and   *)
(* that no rotation loses the handle.                                      *)
(***************************************************************************)
EXTENDS FrameProofs, AckedProofs

\* More time for each leaf than the default.
USE SMTT(30), ZenonT(30)

-----------------------------------------------------------------------------
(* The inductive invariant.                                                *)

\* The fences of the frames whose application failed; the unit being written
\* has its own.
OtherFences == IF pc \in {"stage", "apply"} THEN fences \ {unit.begin} ELSE fences

\* Applied for certain: not waiting to be, and below every failed frame.
Settled(r) == r \notin todo /\ \A f \in OtherFences : r.seq < f

\* The effective record that decides its entry at a restart.
Latest(r) == \A q \in Effective(Suffix) : q.key = r.key => q.seq <= r.seq

\* No two records of the log share a sequence number.
Unique == \A q, r \in log : q.seq = r.seq => q = r

\* The mutations of the open frame are those staged so far, and lie above all
\* effective ones.
Staging ==
  pc = "stage" =>
    /\ \A r \in log : r.tx = unit.tx /\ r.op = "put" => r \in unit.ops
    /\ \A r \in unit.ops : r.seq > unit.begin
    /\ \A r \in Effective(log) : r.seq < unit.begin
    /\ unit.begin \in fences

\* The unit being applied is effective and above all other effective mutations;
\* it is applied in order; a frame still has its fence.
Applying ==
  pc = "apply" =>
    /\ unit.ops \subseteq Effective(Suffix)
    /\ \A q \in unit.ops, r \in Effective(log) : q.seq <= r.seq => r \in unit.ops
    /\ \A q \in unit.ops \ todo, r \in todo : q.seq < r.seq
    /\ unit.tx # 0 => unit.begin \in fences /\ \A r \in unit.ops : r.seq > unit.begin

FencesAhead == \A f \in fences : ckpt < f

\* The working trees have every mutation applied for certain, or a newer one.
MemoryHas ==
  pc # "down" => \A r \in Effective(log) : Settled(r) => mem[r.key] >= r.val

\* An entry no effective record is about is the same in memory and on disk; one
\* whose deciding record is applied for certain has that record's value.
Exact ==
  pc # "down" =>
    /\ \A k \in Keys : (\A r \in Effective(Suffix) : r.key # k) => mem[k] = disk[k]
    /\ \A r \in Effective(Suffix) : Latest(r) /\ Settled(r) => mem[r.key] = r.val

Trees ==
  /\ Unique /\ Staging /\ Applying /\ FencesAhead
  /\ MemoryHas /\ Exact /\ CheckpointReflected

CInv == IInv /\ NoneStray /\ Frames /\ Trees
-----------------------------------------------------------------------------
(* Lemmas about Effective.                                                 *)

\* A part of the log has no effective record the whole has not.
LEMMA EffectivePart ==
  ASSUME NEW L, NEW M, M \subseteq L
  PROVE  Effective(M) \subseteq Effective(L)
BY DEF Effective, CommittedTx

\* Cutting off the records up to n, as recovery and rotation do, cuts off the
\* effective ones up to n: a COMMIT is above the mutations of its frame.
LEMMA EffectiveCut ==
  ASSUME NEW L \in SUBSET WalRecord, NEW n \in Nat, Nested(L)
  PROVE  Effective({r \in L : r.seq > n}) = {r \in Effective(L) : r.seq > n}
<1> DEFINE M == {r \in L : r.seq > n}
<1>1. ASSUME NEW r \in Effective(M) PROVE r \in Effective(L) /\ r.seq > n
  BY EffectivePart DEF Effective
<1>2. ASSUME NEW r \in Effective(L), r.seq > n PROVE r \in Effective(M)
  <2>1. r \in M /\ r.op = "put"
    BY <1>2 DEF Effective
  <2>2. CASE r.tx = 0
    BY <2>1, <2>2 DEF Effective
  <2>3. ASSUME NEW c \in L, c.op = "commit", c.tx = r.tx
        PROVE  r \in Effective(M)
    <3>1. r.seq <= c.seq
      BY <2>1, <2>3 DEF Nested
    <3>2. c.seq \in Nat /\ r.seq \in Nat
      BY <2>1, <2>3 DEF WalRecord
    <3>3. c \in M
      BY <1>2, <2>3, <3>1, <3>2
    <3> QED  BY <2>1, <2>3, <3>3 DEF Effective, CommittedTx
  <2>4. r.tx = 0 \/ \E c \in L : c.op = "commit" /\ c.tx = r.tx
    BY <1>2 DEF Effective, CommittedTx
  <2> QED  BY <2>2, <2>3, <2>4
<1> QED  BY <1>1, <1>2

\* A BEGIN or an ABORT makes nothing effective, and neither does a mutation of a
\* frame that has no COMMIT.
LEMMA EffectiveSame ==
  ASSUME NEW L, NEW r,
         \/ r.op \in {"begin", "abort"}
         \/ r.op = "put" /\ r.tx # 0 /\ \A c \in L : c.tx = r.tx => c.op # "commit"
  PROVE  Effective(L \cup {r}) = Effective(L)
<1>1. ASSUME NEW q \in Effective(L \cup {r}) PROVE q \in Effective(L)
  <2>1. CommittedTx(L \cup {r}) = CommittedTx(L)
    BY DEF CommittedTx
  <2>2. q # r
    <3>1. r.tx \notin CommittedTx(L) \/ r.op # "put"
      BY DEF CommittedTx
    <3> QED  BY <2>1, <3>1 DEF Effective
  <2> QED  BY <2>1, <2>2 DEF Effective
<1> QED  BY <1>1, EffectivePart

\* A standalone mutation is effective at once.
LEMMA EffectiveStandalone ==
  ASSUME NEW L, NEW r, r.op = "put", r.tx = 0
  PROVE  Effective(L \cup {r}) = Effective(L) \cup {r}
<1>1. CommittedTx(L \cup {r}) = CommittedTx(L)
  BY DEF CommittedTx
<1> QED  BY <1>1 DEF Effective

\* A COMMIT makes exactly the mutations of its frame effective.
LEMMA EffectiveCommit ==
  ASSUME NEW L, NEW c, c.op = "commit"
  PROVE  Effective(L \cup {c}) =
           Effective(L) \cup {r \in L : r.op = "put" /\ r.tx = c.tx}
<1>1. CommittedTx(L \cup {c}) = CommittedTx(L) \cup {c.tx}
  BY DEF CommittedTx
<1> QED  BY <1>1, Zenon DEF Effective

\* The effective records recovery sees are those of the log above the checkpoint.
LEMMA EffectiveSuffix ==
  ASSUME TypeInv, Nested(log)
  PROVE  Effective(Suffix) = {r \in Effective(log) : r.seq > ckpt}
BY EffectiveCut DEF Suffix, TypeInv, TypeOK

\* The fields of an effective record.
LEMMA EffectiveFields ==
  ASSUME IInv
  PROVE  \A r \in Effective(log) :
            /\ r \in log /\ r \in Issued /\ r.op = "put" /\ r.key \in Keys
            /\ r.seq \in Nat /\ r.val \in Nat
<1>1. \A r \in Effective(log) : r \in log /\ r.op = "put" /\ r \in Issued
  BY DEF Effective, Issued
<1> QED  BY <1>1 DEF IInv, Ordered, TypeInv, TypeOK, WalRecord

-----------------------------------------------------------------------------
(* What keeps MemoryHas, Exact and CheckpointReflected.                    *)

Holds == MemoryHas /\ Exact /\ CheckpointReflected

\* A step that touches neither trees nor checkpoint, and leaves recovery the same
\* effective records.
LEMMA HoldsKept ==
  ASSUME Holds, pc # "down", UNCHANGED <<mem, disk, ckpt>>,
         Effective(log') \subseteq Effective(log),
         Effective(Suffix') = Effective(Suffix),
         \A r \in Effective(log) : Settled(r)' => Settled(r)
  PROVE  Holds'
<1>1. MemoryHas' /\ CheckpointReflected'
  BY DEF Holds, MemoryHas, CheckpointReflected
<1>2. Effective(Suffix) \subseteq Effective(log)
  BY EffectivePart DEF Suffix
<1>3. ASSUME NEW r \in Effective(Suffix), Latest(r)' PROVE Latest(r)
  BY <1>3 DEF Latest
<1>4. Exact'
  BY <1>2, <1>3 DEF Holds, Exact
<1> QED  BY <1>1, <1>4 DEF Holds

\* A unit becomes effective; it is above the checkpoint and waits to be applied.
LEMMA HoldsCommitted ==
  ASSUME Holds, pc # "down", UNCHANGED <<mem, disk, ckpt>>, ckpt \in Nat,
         todo = {}, OtherFences' = OtherFences,
         Effective(log') = Effective(log) \cup todo',
         Effective(Suffix') = Effective(Suffix) \cup todo',
         \A r \in todo' : r.seq \in Nat /\ r.seq > ckpt
  PROVE  Holds'
<1>1. \A r : Settled(r)' => r \notin todo' /\ Settled(r)
  BY DEF Settled
<1>2. MemoryHas'
  BY <1>1 DEF Holds, MemoryHas
<1>3. CheckpointReflected'
  BY DEF Holds, CheckpointReflected
<1>4. \A r : Latest(r)' => Latest(r)
  BY DEF Latest
<1>5. Exact'
  BY <1>1, <1>4 DEF Holds, Exact
<1> QED  BY <1>2, <1>3, <1>5 DEF Holds
\* EffectiveSuffix for the state after a step.
LEMMA EffectiveSuffixNext ==
  ASSUME TypeInv', Nested(log')
  PROVE  Effective(Suffix') = {r \in Effective(log') : r.seq > ckpt'}
BY EffectiveCut DEF Suffix, TypeInv, TypeOK

\* What an append makes effective: a COMMIT the mutations of its frame, a standalone
\* mutation itself, any other record nothing.
LEMMA EffectiveAppends ==
  ASSUME CInv, TypeInv', Nested(log')
  PROVE  /\ (open \/ drop \/ \E k \in Keys : stage(k)) =>
              /\ Effective(log') = Effective(log)
              /\ Effective(Suffix') = Effective(Suffix)
         /\ commit => /\ Effective(log') = Effective(log) \cup unit.ops
                      /\ Effective(Suffix') = Effective(Suffix) \cup unit.ops
         /\ \A k \in Keys : standalone(k) =>
              /\ Effective(log') = Effective(log) \cup {Put(0, k)}
              /\ Effective(Suffix') = Effective(Suffix) \cup {Put(0, k)}
<1>0. /\ TypeInv /\ NoneStray /\ Ordered /\ Staged /\ Nested(log) /\ Counted /\ OpenFrame
      /\ Staging /\ TypeInv' /\ Nested(log')
  BY DEF CInv, IInv, Frames, Trees
<1>1. /\ Effective(Suffix) = {r \in Effective(log) : r.seq > ckpt}
      /\ Effective(Suffix') = {r \in Effective(log') : r.seq > ckpt'}
  BY <1>0, EffectiveSuffix, EffectiveSuffixNext
<1>2. nextSeq \in Nat /\ ckpt \in Nat /\ orphan = FALSE
  BY <1>0 DEF TypeInv, TypeOK, NoneStray
<1>3. ASSUME open \/ drop \/ \E k \in Keys : stage(k)
      PROVE  Effective(log') = Effective(log) /\ ckpt' = ckpt
  <2>1. CASE open
    <3>1. log' = log \cup {Record(nextSeq, nextTx, "begin")} /\ ckpt' = ckpt
      BY <1>2, <2>1 DEF open, append
    <3> QED  BY <3>1, EffectiveSame DEF Record
  <2>2. CASE drop
    <3>1. /\ log' = log \/ log' = log \cup {Record(nextSeq + 1, unit.tx, "abort")}
          /\ ckpt' = ckpt
      BY <2>2 DEF drop, append
    <3> QED  BY <3>1, EffectiveSame DEF Record
  <2>3. ASSUME NEW k \in Keys, stage(k)
        PROVE  Effective(log') = Effective(log) /\ ckpt' = ckpt
    <3>1. log' = log \cup {Put(unit.tx, k)} /\ ckpt' = ckpt /\ pc = "stage"
      BY <1>2, <2>3 DEF stage, append, stateVars
    <3>2. unit.tx # 0 /\ \A c \in log : c.tx = unit.tx => c.op # "commit"
      BY <1>0, <3>1 DEF OpenFrame
    <3> QED  BY <3>1, <3>2, EffectiveSame DEF Put
  <2> QED  BY <1>3, <2>1, <2>2, <2>3
<1>4. ASSUME commit
      PROVE  /\ Effective(log') = Effective(log) \cup unit.ops
             /\ ckpt' = ckpt /\ \A r \in unit.ops : r.seq > ckpt
  <2> DEFINE c == Record(nextSeq, unit.tx, "commit")
  <2>1. c.op = "commit" /\ c.tx = unit.tx
    BY DEF Record
  <2>2. log' = log \cup {c} /\ ckpt' = ckpt /\ pc = "stage"
    BY <1>2, <1>4 DEF commit, append, stateVars
  <2> HIDE DEF c
  <2>3. \A r \in unit.ops : r \in log /\ r.seq > ckpt /\ r.tx = unit.tx /\ r.op = "put"
    BY <1>0, <2>2 DEF Staged, Named, NoneStray, Ordered, Issued
  <2>4. {r \in log : r.op = "put" /\ r.tx = c.tx} = unit.ops
    BY <1>0, <2>1, <2>2, <2>3 DEF Staging
  <2> QED  BY <2>1, <2>2, <2>3, <2>4, EffectiveCommit
<1>5. ASSUME NEW k \in Keys, standalone(k)
      PROVE  /\ Effective(log') = Effective(log) \cup {Put(0, k)}
             /\ ckpt' = ckpt /\ Put(0, k).seq > ckpt
  <2>1. log' = log \cup {Put(0, k)} /\ ckpt' = ckpt /\ pc = "idle"
    BY <1>2, <1>5 DEF standalone, append, stateVars
  <2>2. Put(0, k).seq = nextSeq /\ Put(0, k).op = "put" /\ Put(0, k).tx = 0
    BY DEF Put
  <2>3. nextSeq > ckpt
    BY <1>0, <1>2, <2>1 DEF Counted
  <2> QED  BY <2>1, <2>2, <2>3, EffectiveStandalone
<1> QED  BY <1>1, <1>3, <1>4, <1>5

-----------------------------------------------------------------------------
(* The steps of a write.                                                   *)

\* BEGIN makes nothing effective, and its fence is its own.
LEMMA TreesOpen == CInv /\ IInv' /\ Frames' /\ open => Trees'
<1> SUFFICES ASSUME CInv, IInv', Frames', open PROVE Trees'
  OBVIOUS
<1>0. /\ TypeInv /\ NoneStray /\ Counted /\ Unique /\ Staging /\ Applying /\ FencesAhead
      /\ Holds /\ TypeInv' /\ Nested(log')
  BY DEF CInv, IInv, Frames, Trees, Holds
<1> DEFINE b == Record(nextSeq, nextTx, "begin")
<1>1. log' = log \cup {b} /\ b.seq = nextSeq /\ b.tx = nextTx /\ b.op = "begin"
  BY <1>0 DEF open, append, Record, NoneStray
<1> HIDE DEF b
<1>2. /\ pc = "idle" /\ pc' = "stage" /\ todo' = todo /\ todo = {} /\ unit'.ops = {}
      /\ unit'.tx = nextTx /\ unit'.begin = nextSeq /\ fences' = fences \cup {nextSeq}
      /\ UNCHANGED <<mem, disk, ckpt>>
  BY <1>0 DEF open, TypeInv, Bounded
<1>3. /\ nextSeq \in Nat /\ nextTx \in Nat /\ ckpt < nextSeq
      /\ \A r \in log : r.seq \in Nat /\ r.tx \in Nat /\ r.seq < nextSeq /\ r.tx < nextTx
      /\ \A f \in fences : f \in Nat /\ f < nextSeq
  BY <1>0, <1>2, RecordFields DEF TypeInv, TypeOK, Counted
<1>4. Effective(log') = Effective(log)
  BY <1>0, EffectiveAppends
<1>5. Effective(Suffix') = Effective(Suffix)
  BY <1>0, EffectiveAppends
<1>6. OtherFences' = OtherFences
  BY <1>2, <1>3 DEF OtherFences
<1>7. Holds'
  BY <1>0, <1>2, <1>4, <1>5, <1>6, HoldsKept DEF Settled
<1>8. Unique'
  BY <1>0, <1>1, <1>3 DEF Unique
<1>9. Staging'
  <2>1. \A r \in Effective(log) : r \in log
    BY DEF Effective
  <2> QED  BY <1>0, <1>1, <1>2, <1>3, <1>4, <2>1 DEF Staging
<1>10. Applying' /\ FencesAhead'
  BY <1>0, <1>2, <1>3 DEF Applying, FencesAhead
<1> QED  BY <1>7, <1>8, <1>9, <1>10 DEF Holds, Trees

\* A staged mutation is not effective: its frame has no COMMIT.
LEMMA TreesStage ==
  ASSUME NEW k \in Keys
  PROVE  CInv /\ IInv' /\ Frames' /\ stage(k) => Trees'
<1> SUFFICES ASSUME CInv, IInv', Frames', stage(k) PROVE Trees'
  OBVIOUS
<1>0. /\ TypeInv /\ NoneStray /\ Counted /\ OpenFrame /\ Unique /\ Staging /\ Applying
      /\ FencesAhead /\ Holds /\ TypeInv' /\ Nested(log')
  BY DEF CInv, IInv, Frames, Trees, Holds
<1> DEFINE p == Put(unit.tx, k)
<1>1. log' = log \cup {p} /\ p.seq = nextSeq /\ p.tx = unit.tx /\ p.op = "put"
  BY <1>0 DEF stage, append, Put, NoneStray
<1>2. /\ unit'.ops = unit.ops \cup {p} /\ unit'.tx = unit.tx /\ unit'.begin = unit.begin
  BY <1>0 DEF stage, TypeInv, TypeOK, Unit
<1> HIDE DEF p
<1>3. /\ pc = "stage" /\ pc' = "stage" /\ todo' = todo
      /\ UNCHANGED <<mem, disk, ckpt, fences>>
  BY DEF stage, stateVars
<1>4. /\ nextSeq \in Nat /\ unit.begin \in Nat /\ unit.begin < nextSeq /\ unit.tx # 0
      /\ \A r \in log : r.tx = unit.tx => r.op \in {"begin", "put"}
      /\ \A r \in log : r.seq \in Nat /\ r.seq < nextSeq
  BY <1>0, <1>3, RecordFields DEF TypeInv, TypeOK, Unit, OpenFrame, Counted
<1>5. Effective(log') = Effective(log)
  BY <1>0, EffectiveAppends
<1>6. Effective(Suffix') = Effective(Suffix)
  BY <1>0, EffectiveAppends
<1>7. Holds'
  BY <1>0, <1>2, <1>3, <1>5, <1>6, HoldsKept DEF Settled, OtherFences
<1>8. Unique'
  BY <1>0, <1>1, <1>4 DEF Unique
<1>9. Staging'
  BY <1>0, <1>1, <1>2, <1>3, <1>4, <1>5 DEF Staging
<1>10. Applying' /\ FencesAhead'
  BY <1>0, <1>3 DEF Applying, FencesAhead
<1> QED  BY <1>7, <1>8, <1>9, <1>10 DEF Holds, Trees

\* COMMIT makes the staged mutations effective, and no others.
LEMMA TreesCommit == CInv /\ IInv' /\ Frames' /\ commit => Trees'
<1> SUFFICES ASSUME CInv, IInv', Frames', commit PROVE Trees'
  OBVIOUS
<1>0. /\ TypeInv /\ NoneStray /\ Ordered /\ Staged /\ Counted /\ Unique /\ Staging
      /\ Applying /\ FencesAhead /\ Holds /\ TypeInv' /\ Nested(log')
  BY DEF CInv, IInv, Frames, Trees, Holds
<1> DEFINE c == Record(nextSeq, unit.tx, "commit")
<1>1. log' = log \cup {c} /\ c.seq = nextSeq /\ c.tx = unit.tx /\ c.op = "commit"
  BY <1>0 DEF commit, append, Record, NoneStray
<1> HIDE DEF c
<1>2. unit'.ops = unit.ops /\ unit'.begin = unit.begin /\ unit'.tx = unit.tx
  BY <1>0 DEF commit, TypeInv, TypeOK, Unit
<1>3. /\ pc = "stage" /\ pc' = "apply" /\ todo' = unit.ops /\ todo = {}
      /\ UNCHANGED <<mem, disk, ckpt, fences>>
  BY <1>0 DEF commit, stateVars, TypeInv, Bounded
<1>4. /\ nextSeq \in Nat /\ ckpt \in Nat /\ unit.begin \in Nat
      /\ \A r \in log : r.seq \in Nat /\ r.seq < nextSeq
  BY <1>0, <1>3, RecordFields DEF TypeInv, TypeOK, Unit, Counted
<1>5. \A r \in unit.ops : /\ r \in log /\ r.seq \in Nat /\ r.seq > ckpt
                          /\ r.tx = unit.tx /\ r.op = "put" /\ r.seq > unit.begin
  <2>1. \A r \in unit.ops : r \in Issued
    BY DEF Issued
  <2> QED  BY <1>0, <1>3, <1>4, <2>1 DEF Staged, Named, NoneStray, Staging, Ordered
<1>7. Effective(log') = Effective(log) \cup unit.ops
  BY <1>0, EffectiveAppends
<1>8. Effective(Suffix') = Effective(Suffix) \cup unit.ops
  BY <1>0, EffectiveAppends
<1>9. OtherFences' = OtherFences
  BY <1>2, <1>3 DEF OtherFences
<1>10. Holds'
  BY <1>0, <1>3, <1>4, <1>5, <1>7, <1>8, <1>9, HoldsCommitted
<1>11. Unique'
  BY <1>0, <1>1, <1>4 DEF Unique
<1>12. Applying'
  <2>1. ASSUME NEW q \in unit.ops, NEW r \in Effective(log'), q.seq <= r.seq
        PROVE  r \in unit.ops
    <3>1. \A x \in Effective(log) : x.seq < unit.begin /\ x \in log
      BY <1>0, <1>3 DEF Staging, Effective
    <3> QED  BY <1>4, <1>5, <1>7, <2>1, <3>1
  <2>2. unit.begin \in fences
    BY <1>0, <1>3 DEF Staging
  <2> QED  BY <1>0, <1>2, <1>3, <1>5, <1>8, <2>1, <2>2 DEF Applying
<1>13. Staging' /\ FencesAhead'
  BY <1>0, <1>3 DEF Staging, FencesAhead
<1> QED  BY <1>10, <1>11, <1>12, <1>13 DEF Holds, Trees
\* An ABORT makes nothing effective; the fence that goes was the frame's own.
LEMMA TreesDrop == CInv /\ IInv' /\ Frames' /\ drop => Trees'
<1> SUFFICES ASSUME CInv, IInv', Frames', drop PROVE Trees'
  OBVIOUS
<1>0. /\ TypeInv /\ Counted /\ Unique /\ Staging /\ Applying /\ FencesAhead /\ Holds
      /\ TypeInv' /\ Nested(log')
  BY DEF CInv, IInv, Frames, Trees, Holds
<1> DEFINE a == Record(nextSeq + 1, unit.tx, "abort")
<1>1. a.seq = nextSeq + 1 /\ a.tx = unit.tx /\ a.op = "abort"
  BY DEF Record
<1>2. log' = log \/ log' = log \cup {a}
  BY DEF drop, append
<1> HIDE DEF a
<1>3. /\ pc = "stage" /\ pc' = "idle" /\ todo' = todo
      /\ fences' = fences \ {unit.begin} /\ UNCHANGED <<mem, disk, ckpt>>
  BY DEF drop
<1>4. nextSeq \in Nat /\ \A r \in log : r.seq \in Nat /\ r.seq < nextSeq
  BY <1>0, <1>3, RecordFields DEF TypeInv, TypeOK, Counted
<1>5. Effective(log') = Effective(log)
  BY <1>0, EffectiveAppends
<1>6. Effective(Suffix') = Effective(Suffix)
  BY <1>0, EffectiveAppends
<1>7. OtherFences' = OtherFences
  BY <1>3 DEF OtherFences
<1>8. Holds'
  BY <1>0, <1>3, <1>5, <1>6, <1>7, HoldsKept DEF Settled
<1>9. Unique'
  BY <1>0, <1>1, <1>2, <1>4 DEF Unique
<1>10. Staging' /\ Applying' /\ FencesAhead'
  BY <1>0, <1>3 DEF Staging, Applying, FencesAhead
<1> QED  BY <1>8, <1>9, <1>10 DEF Holds, Trees

\* A standalone mutation is effective as soon as it is appended.
LEMMA TreesStandalone ==
  ASSUME NEW k \in Keys
  PROVE  CInv /\ IInv' /\ Frames' /\ standalone(k) => Trees'
<1> SUFFICES ASSUME CInv, IInv', Frames', standalone(k) PROVE Trees'
  OBVIOUS
<1>0. /\ TypeInv /\ NoneStray /\ Counted /\ Unique /\ Staging /\ Applying /\ FencesAhead
      /\ Holds /\ TypeInv' /\ Nested(log')
  BY DEF CInv, IInv, Frames, Trees, Holds
<1> DEFINE p == Put(0, k)
<1>1. log' = log \cup {p} /\ p.seq = nextSeq /\ p.tx = 0 /\ p.op = "put"
  BY <1>0 DEF standalone, append, Put, NoneStray
<1>2. /\ unit'.ops = {p} /\ unit'.begin = 0 /\ unit'.tx = 0 /\ todo' = {p}
  BY DEF standalone
<1> HIDE DEF p
<1>3. /\ pc = "idle" /\ pc' = "apply" /\ todo = {}
      /\ UNCHANGED <<mem, disk, ckpt, fences>>
  BY <1>0 DEF standalone, stateVars, TypeInv, Bounded
<1>4. /\ nextSeq \in Nat /\ ckpt \in Nat /\ ckpt < nextSeq /\ 0 \notin fences
      /\ \A r \in log : r.seq \in Nat /\ r.seq < nextSeq
  BY <1>0, <1>3, RecordFields DEF TypeInv, TypeOK, Bounded, Counted
<1>5. Effective(log') = Effective(log) \cup {p}
  BY <1>0, EffectiveAppends DEF p
<1>6. Effective(Suffix') = Effective(Suffix) \cup {p}
  BY <1>0, EffectiveAppends DEF p
<1>7. OtherFences' = OtherFences
  BY <1>2, <1>3, <1>4 DEF OtherFences
<1>8. Holds'
  BY <1>0, <1>1, <1>2, <1>3, <1>4, <1>5, <1>6, <1>7, HoldsCommitted
<1>9. Unique'
  BY <1>0, <1>1, <1>4 DEF Unique
<1>10. Applying'
  <2>1. \A r \in Effective(log') : nextSeq <= r.seq => r = p
    BY <1>4, <1>5 DEF Effective
  <2> QED  BY <1>1, <1>2, <1>3, <1>6, <2>1, Zenon DEF Applying
<1>11. Staging' /\ FencesAhead'
  BY <1>0, <1>3 DEF Staging, FencesAhead
<1> QED  BY <1>8, <1>9, <1>10, <1>11 DEF Holds, Trees

\* The next mutation of the unit enters the working trees; none of its entry that
\* is not in the unit is above it.
LEMMA TreesApply == CInv /\ IInv' /\ Frames' /\ apply_committed => Trees'
<1> SUFFICES ASSUME CInv, IInv', Frames', apply_committed PROVE Trees'
  OBVIOUS
<1>0. /\ IInv /\ TypeInv /\ Fresh /\ Unique /\ Staging /\ Applying /\ FencesAhead
      /\ MemoryHas /\ Exact /\ CheckpointReflected
  BY DEF CInv, IInv, Frames, Trees
<1>1. PICK r \in todo : /\ \A q \in todo : r.seq <= q.seq
                        /\ mem' = [mem EXCEPT ![r.key] = r.val]
                        /\ todo' = todo \ {r}
  BY Zenon DEF apply_committed
<1>2. /\ pc = "apply" /\ pc' = "apply"
      /\ UNCHANGED <<log, disk, ckpt, fences, unit>>
  BY DEF apply_committed, logVars
<1>3. /\ r \in unit.ops /\ todo \subseteq unit.ops /\ r \in Effective(Suffix)
      /\ unit.ops \subseteq Effective(Suffix)
  BY <1>0, <1>2 DEF TypeInv, TypeOK, Applying
<1>4. \A q \in Effective(log) : /\ q \in log /\ q.key \in Keys /\ q.seq \in Nat
                                /\ q.val \in Nat
  BY <1>0, EffectiveFields
<1>5. Effective(Suffix) \subseteq Effective(log)
  BY EffectivePart DEF Suffix
<1>6. Effective(log') = Effective(log) /\ Suffix' = Suffix /\ OtherFences' = OtherFences
  BY <1>2 DEF Suffix, OtherFences
<1>7. mem \in [Keys -> Nat] /\ \A k \in Keys : mem[k] <= r.val
  BY <1>0 DEF TypeInv, TypeOK, Fresh
<1>8. \A k \in Keys : mem'[k] = IF k = r.key THEN r.val ELSE mem[k]
  BY <1>1, <1>7
<1>9. \A q : Settled(q)' => q = r \/ Settled(q)
  BY <1>1, <1>6 DEF Settled
<1>10. MemoryHas'
  <2> SUFFICES ASSUME NEW q \in Effective(log), Settled(q)'
               PROVE  mem'[q.key] >= q.val
    BY <1>0, <1>6 DEF MemoryHas
  <2>1. CASE q = r
    BY <1>4, <1>8, <2>1
  <2>2. CASE Settled(q)
    <3>1. mem[q.key] >= q.val
      BY <1>0, <1>2, <2>2 DEF MemoryHas
    <3> QED  BY <1>3, <1>4, <1>5, <1>7, <1>8, <3>1
  <2> QED  BY <1>9, <2>1, <2>2
<1>11. Exact'
  <2>1. ASSUME NEW k \in Keys, \A q \in Effective(Suffix) : q.key # k
        PROVE  mem'[k] = disk[k]
    BY <1>0, <1>2, <1>3, <1>8, <2>1 DEF Exact
  <2>2. ASSUME NEW q \in Effective(Suffix), Latest(q), Settled(q)'
        PROVE  mem'[q.key] = q.val
    <3>1. CASE q = r
      BY <1>4, <1>5, <1>8, <3>1
    <3>2. CASE q # r /\ q.key = r.key
      <4>1. r.seq <= q.seq
        BY <1>3, <2>2, <3>2 DEF Latest
      <4>2. q \in unit.ops /\ q \notin todo
        BY <1>0, <1>1, <1>2, <1>3, <1>5, <2>2, <3>2, <4>1 DEF Applying, Settled
      <4>3. q.seq < r.seq
        BY <1>0, <1>2, <4>2 DEF Applying
      <4> QED  BY <1>3, <1>4, <1>5, <4>1, <4>3
    <3>3. CASE q.key # r.key
      BY <1>0, <1>2, <1>4, <1>5, <1>8, <1>9, <2>2, <3>3 DEF Exact
    <3> QED  BY <3>1, <3>2, <3>3
  <2> QED  BY <1>0, <1>2, <1>6, <2>1, <2>2 DEF Exact, Latest
<1>12. Applying'
  <2>1. \A q \in unit.ops \ todo', x \in todo' : q.seq < x.seq
    <3> SUFFICES ASSUME NEW q \in unit.ops \ todo', NEW x \in todo' PROVE q.seq < x.seq
      OBVIOUS
    <3>1. CASE q = r
      <4>1. r.seq # x.seq
        BY <1>0, <1>1, <1>3, <1>4, <1>5 DEF Unique
      <4>2. r.seq <= x.seq /\ r.seq \in Nat /\ x.seq \in Nat
        BY <1>1, <1>3, <1>4, <1>5
      <4> QED  BY <3>1, <4>1, <4>2
    <3>2. CASE q # r
      BY <1>0, <1>1, <1>2, <3>2 DEF Applying
    <3> QED  BY <3>1, <3>2
  <2> QED  BY <1>0, <1>1, <1>2, <1>6, <2>1 DEF Applying
<1>13. Unique' /\ Staging' /\ FencesAhead' /\ CheckpointReflected'
  BY <1>0, <1>2 DEF Unique, Staging, FencesAhead, CheckpointReflected
<1> QED  BY <1>10, <1>11, <1>12, <1>13 DEF Trees
\* A frame that fails while it is applied keeps its fence, so that nothing of it
\* counts as applied; a standalone mutation is assumed not to fail here.
LEMMA TreesApplyFails ==
  ASSUME "apply_standalone" \notin Faults
  PROVE  CInv /\ IInv' /\ Frames' /\ ApplyFails => Trees'
<1> SUFFICES ASSUME CInv, IInv', Frames', ApplyFails PROVE Trees'
  OBVIOUS
<1>0. /\ IInv /\ TypeInv /\ Fresh /\ Unique /\ Staging /\ Applying /\ FencesAhead
      /\ MemoryHas /\ Exact /\ CheckpointReflected
  BY DEF CInv, IInv, Frames, Trees
<1>1. PICK r \in todo : mem' \in {mem, [mem EXCEPT ![r.key] = r.val]}
  BY DEF ApplyFails
<1>2. /\ pc = "apply" /\ pc' = "idle" /\ todo' = {} /\ unit.tx # 0
      /\ UNCHANGED <<log, disk, ckpt, fences>>
  BY DEF ApplyFails, logVars
<1>3. /\ r \in unit.ops /\ todo \subseteq unit.ops /\ unit.begin \in fences
      /\ unit.ops \subseteq Effective(Suffix)
      /\ \A q \in unit.ops : q.seq > unit.begin
  BY <1>0, <1>2 DEF TypeInv, TypeOK, Applying
<1>4. unit.begin \in Nat /\ \A q \in Effective(log) :
        q \in log /\ q.key \in Keys /\ q.seq \in Nat /\ q.val \in Nat
  BY <1>0, EffectiveFields DEF TypeInv, TypeOK, Unit
<1>5. Effective(Suffix) \subseteq Effective(log)
  BY EffectivePart DEF Suffix
<1>6. Effective(log') = Effective(log) /\ Suffix' = Suffix /\ OtherFences' = fences
  BY <1>2 DEF Suffix, OtherFences
<1>7. mem \in [Keys -> Nat] /\ \A k \in Keys : mem[k] <= r.val
  BY <1>0 DEF TypeInv, TypeOK, Fresh
<1>8. \A k \in Keys : mem'[k] = mem[k] \/ (k = r.key /\ mem'[k] = r.val)
  BY <1>1, <1>7
<1>9. \A q \in Effective(log) : Settled(q)' => Settled(q) /\ q \notin unit.ops
  BY <1>3, <1>4, <1>5, <1>6 DEF Settled, OtherFences
<1>10. MemoryHas'
  <2> SUFFICES ASSUME NEW q \in Effective(log), Settled(q)'
               PROVE  mem'[q.key] >= q.val
    BY <1>0, <1>6 DEF MemoryHas
  <2>1. mem[q.key] >= q.val
    BY <1>0, <1>2, <1>9 DEF MemoryHas
  <2> QED  BY <1>3, <1>4, <1>5, <1>7, <1>8, <2>1
<1>11. Exact'
  <2>1. ASSUME NEW k \in Keys, \A q \in Effective(Suffix) : q.key # k
        PROVE  mem'[k] = disk[k]
    BY <1>0, <1>2, <1>3, <1>8, <2>1 DEF Exact
  <2>2. ASSUME NEW q \in Effective(Suffix), Latest(q), Settled(q)'
        PROVE  mem'[q.key] = q.val
    <3>1. q.key # r.key
      <4> SUFFICES ASSUME q.key = r.key PROVE FALSE
        OBVIOUS
      <4>1. r.seq <= q.seq
        BY <1>3, <2>2 DEF Latest
      <4>2. q \in unit.ops
        BY <1>0, <1>2, <1>3, <1>5, <4>1 DEF Applying
      <4> QED  BY <1>5, <1>9, <2>2, <4>2
    <3> QED  BY <1>0, <1>2, <1>4, <1>5, <1>8, <1>9, <2>2, <3>1 DEF Exact
  <2> QED  BY <1>0, <1>2, <1>6, <2>1, <2>2 DEF Exact, Latest
<1>12. Unique' /\ Staging' /\ Applying' /\ FencesAhead' /\ CheckpointReflected'
  BY <1>0, <1>2 DEF Unique, Staging, Applying, FencesAhead, CheckpointReflected
<1> QED  BY <1>10, <1>11, <1>12 DEF Trees
=============================================================================
