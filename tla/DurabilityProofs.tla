-------------------------- MODULE DurabilityProofs --------------------------
(***************************************************************************)
(* Durability, for every number of trees, every checkpoint interval and    *)
(* every bound: the inductive invariants IInv and TypeInv, lemmas about    *)
(* the operators, type correctness, and the writer's steps up to its       *)
(* COMMIT.  AckedProofs shows that the other steps keep IInv.              *)
(*                                                                         *)
(* IInv says how a restart finds each mutation: in the trees on disk, or   *)
(* in the log past the checkpoint with the COMMIT of its frame (Safe).  It *)
(* holds of the mutations appended to a file that had its name (Named),    *)
(* whatever fails.                                                         *)
(***************************************************************************)
EXTENDS Durability, WellFoundedInduction, TLAPS

-----------------------------------------------------------------------------
(* The inductive invariant.                                                 *)

OpsOf(U) == UNION {u.ops : u \in U}

\* The mutations of S that were appended to a file that had its name.
Named(S) == {r \in S : r.val \notin stray}

\* Every mutation the log or the current writer knows of, and those of clients that
\* were appended to the named file.
Issued ==
  {r \in log : r.op = "put"} \cup Named(acked) \cup Named(OpsOf(waiting)) \cup unit.ops

\* The mutations whose effect is in the working trees.
InMemory ==
  Named(acked) \cup Named(OpsOf(waiting))
    \cup IF pc \in {"apply", "flush", "rotate"} THEN unit.ops \ todo ELSE {}

\* With log L, checkpoint cp and trees D, a restart brings a back even if the
\* log is cut after sequence n: the trees on disk have it, or the log has it,
\* and the COMMIT of its frame, by n.
SafeIn(L, cp, D, a, n) ==
  /\ a.seq <= n
  /\ \/ a.seq <= cp /\ D[a.key] >= a.val
     \/ /\ a \in L /\ a.seq > cp
        /\ \/ a.tx = 0
           \/ \E c \in L : /\ c.op = "commit" /\ c.tx = a.tx
                           /\ a.seq < c.seq /\ c.seq <= n

Safe(a, n) == SafeIn(log, ckpt, disk, a, n)

Bounded ==
  /\ \A r \in log : r.seq <= MaxSeq /\ r.tx <= MaxTx
  /\ 0 \notin fences /\ unit.tx <= MaxTx
  /\ pc # "apply" => todo = {}

\* TypeOK needs the bounds: recovery computes its counters from the log.
TypeInv == TypeOK /\ Bounded

Shape ==
  /\ pc \in {"idle", "down"} => unit = NoUnit
  /\ pc = "down" => waiting = {} /\ flushed = 0

\* Numbers in use are below the counters they were drawn from.
Drawn ==
  /\ pc # "down" => /\ ckpt < nextSeq /\ applied < nextSeq /\ unit.last < nextSeq
                    /\ \A r \in log \cup Issued : r.seq < nextSeq
  /\ \A k \in Keys : mem[k] < nextWrite /\ disk[k] < nextWrite
  /\ \A r \in Issued : r.val < nextWrite

\* Sequence order is the order the mutations were issued in.
Ordered ==
  /\ \A r \in Issued : r.op = "put" /\ r.key \in Keys
  /\ \A q, r \in Issued : q.seq <= r.seq => q.val <= r.val

\* The mutations of the open frame are in the log, above the checkpoint, or the
\* handle was orphaned before the first of them.
Staged ==
  pc = "stage" =>
    /\ \A r \in Named(unit.ops) : r \in log /\ r.seq > ckpt /\ r.tx = unit.tx
    /\ orphan => Named(unit.ops) = {}

AllSafe ==
  /\ \A a \in Named(acked) : Safe(a, synced)
  /\ \A u \in waiting : \A a \in Named(u.ops) : Safe(a, u.last)
  /\ pc \in {"apply", "flush", "rotate"} => \A a \in Named(unit.ops) : Safe(a, unit.last)

\* What is still to be applied is newer than everything in the working trees.
Fresh ==
  /\ pc = "stage" => \A r \in unit.ops : \A k \in Keys : mem[k] <= r.val
  /\ \A r \in todo : \A k \in Keys : mem[k] <= r.val

MemoryCurrent == pc # "down" => \A a \in InMemory : mem[a.key] >= a.val

FlushProgress == pc = "flush" => \A k \in 1 .. flushed : disk[k] = mem[k]

IInv ==
  /\ TypeInv /\ Shape /\ Drawn /\ Ordered /\ Staged
  /\ AllSafe /\ Fresh /\ MemoryCurrent /\ FlushProgress

\* The mutations of clients, acknowledged or on their way, and the numbers of their
\* writes.
Written == acked \cup OpsOf(waiting) \cup unit.ops

InRange == \A r \in Written : r.val \in 1 .. MaxWrite

-----------------------------------------------------------------------------
(* Lemmas about the operators.                                              *)

\* A non-empty set of naturals has a least element.
LEMMA LeastExists ==
  ASSUME NEW S, S \subseteq Nat, S # {}
  PROVE  \E n \in S : \A m \in S : n <= m
<1> DEFINE R == OpToRel(<, Nat)
<1>1. \E n \in S : \A m \in S : ~(<<m, n>> \in R)
  <2>1. IsWellFoundedOn(R, Nat)
    BY NatLessThanWellFounded, Zenon
  <2> HIDE DEF R
  <2> QED  BY <2>1, WFMin, Zenon
<1>2. \A m, n \in Nat : <<m, n>> \in R <=> m < n
  BY DEF OpToRel
<1> HIDE DEF R
<1>3. PICK n \in S : \A m \in S : ~(<<m, n>> \in R)
  BY <1>1
<1>4. \A m \in S : n <= m
  <2> SUFFICES ASSUME NEW m \in S PROVE n <= m
    OBVIOUS
  <2>1. m \in Nat /\ n \in Nat
    OBVIOUS
  <2>2. ~(m < n)
    BY <1>2, <1>3, <2>1, Zenon
  <2> QED  BY <2>1, <2>2
<1> QED  BY <1>4

\* Highest is the maximum of a non-empty bounded set of naturals: the counter
\* floors and applied_sequence that recovery computes from the log.
LEMMA HighestIsMax ==
  ASSUME NEW S, S \subseteq Nat, S # {}, NEW b \in Nat, \A n \in S : n <= b
  PROVE  Highest(S) \in S /\ \A m \in S : m <= Highest(S)
<1> DEFINE D == {b - n : n \in S}
<1>1. D \subseteq Nat /\ D # {}
  <2>1. \A n \in S : n \in Nat /\ n <= b
    OBVIOUS
  <2>2. \A n \in S : b - n \in Nat
    BY <2>1
  <2> QED  BY <2>2, Zenon
<1>2. PICK d \in D : \A e \in D : d <= e
  <2> HIDE DEF D
  <2> QED  BY <1>1, LeastExists, Zenon
<1>3. PICK n \in S : d = b - n
  OBVIOUS
<1>4. \A m \in S : m <= n
  <2> SUFFICES ASSUME NEW m \in S PROVE m <= n
    OBVIOUS
  <2>1. b - m \in D
    OBVIOUS
  <2>2. d <= b - m
    BY <1>2, <2>1
  <2> QED  BY <2>2, <1>3
<1> QED  BY <1>4, Zenon DEF Highest

\* Among the records for k in a set bounded in sequence, LastPut is one of the
\* highest sequence: the record whose replay decides the entry.
LEMMA LastPutIsLast ==
  ASSUME NEW S, S \subseteq WalRecord, NEW b \in Nat, \A r \in S : r.seq <= b,
         NEW k, \E r \in S : r.key = k
  PROVE  /\ LastPut(S, k) \in S /\ LastPut(S, k).key = k
         /\ \A q \in S : q.key = k => q.seq <= LastPut(S, k).seq
<1> DEFINE D == {b - r.seq : r \in {q \in S : q.key = k}}
<1>1. D \subseteq Nat /\ D # {}
  BY DEF WalRecord
<1>2. PICK d \in D : \A e \in D : d <= e
  <2> HIDE DEF D
  <2> QED  BY <1>1, LeastExists, Zenon
<1>3. PICK r \in S : r.key = k /\ d = b - r.seq
  OBVIOUS
<1>4. ASSUME NEW q \in S, q.key = k
      PROVE  q.seq <= r.seq
  <2>1. b - q.seq \in D
    BY <1>4
  <2>2. d <= b - q.seq
    BY <1>2, <2>1
  <2> QED  BY <2>2, <1>3 DEF WalRecord
<1> QED  BY <1>3, <1>4 DEF LastPut

\* What replay leaves in an entry: the value on disk, or that of the last
\* effective record for it above the checkpoint.
LEMMA RecoveredEntry ==
  ASSUME TypeOK, Bounded, NEW k \in Keys
  PROVE  \/ /\ Recovered[k] = disk[k]
            /\ \A r \in Effective(Suffix) : r.key # k
         \/ \E r \in Effective(Suffix) :
              /\ r.key = k /\ Recovered[k] = r.val
              /\ \A q \in Effective(Suffix) : q.key = k => q.seq <= r.seq
<1>1. /\ Effective(Suffix) \subseteq WalRecord /\ MaxSeq \in Nat
      /\ \A r \in Effective(Suffix) : r.seq <= MaxSeq
  BY ConstantsAssumption DEF Effective, Suffix, TypeOK, Bounded
<1>2. CASE \E r \in Effective(Suffix) : r.key = k
  <2> DEFINE r == LastPut(Effective(Suffix), k)
  <2>1. /\ r \in Effective(Suffix) /\ r.key = k
        /\ \A q \in Effective(Suffix) : q.key = k => q.seq <= r.seq
    BY <1>1, <1>2, LastPutIsLast
  <2>2. Recovered[k] = r.val
    BY <1>2 DEF Recovered, Replay
  <2> QED  BY <2>1, <2>2
<1>3. CASE ~ \E r \in Effective(Suffix) : r.key = k
  BY <1>3 DEF Recovered, Replay
<1> QED  BY <1>2, <1>3

\* Recovery rebuilds trees of the right type.
LEMMA RecoveredType ==
  ASSUME TypeOK, Bounded
  PROVE  Recovered \in [Keys -> Nat]
<1>1. ASSUME NEW k \in Keys
      PROVE  Recovered[k] \in Nat
  <2>1. CASE Recovered[k] = disk[k]
    BY <2>1 DEF TypeOK
  <2>2. CASE \E r \in Effective(Suffix) : Recovered[k] = r.val
    BY <2>2 DEF Effective, Suffix, TypeOK, WalRecord
  <2> QED  BY <2>1, <2>2, RecoveredEntry
<1>2. Recovered = [k \in Keys |-> Recovered[k]]
  BY DEF Recovered, Replay
<1> QED  BY <1>1, <1>2

\* Recovery brings back values that were issued, never newer ones.
LEMMA RecoveredIssued ==
  ASSUME TypeOK, Bounded, Drawn, NEW k \in Keys
  PROVE  Recovered[k] < nextWrite
<1>1. CASE Recovered[k] = disk[k]
  BY <1>1 DEF Drawn
<1>2. CASE \E r \in Effective(Suffix) : Recovered[k] = r.val
  BY <1>2 DEF Effective, Suffix, Drawn, Issued
<1> QED  BY <1>1, <1>2, RecoveredEntry

\* A safe mutation is brought back by a restart, or a newer one of its entry is.
LEMMA SafeIsRecovered ==
  ASSUME TypeOK, Bounded, Ordered, NEW a \in Issued, NEW n \in Nat, Safe(a, n)
  PROVE  Recovered[a.key] >= a.val
<1>1. /\ a \in WalRecord /\ a.op = "put" /\ a.key \in Keys
  BY DEF Issued, Named, OpsOf, TypeOK, Ordered, Unit
<1>2. \A r \in Effective(Suffix) :
         r \in Issued /\ r \in log /\ r.seq > ckpt /\ r \in WalRecord
  BY DEF Effective, Suffix, Issued, TypeOK
<1>3. CASE a.seq <= ckpt /\ disk[a.key] >= a.val
  <2>1. CASE Recovered[a.key] = disk[a.key]
    BY <1>3, <2>1
  <2>2. ASSUME NEW r \in Effective(Suffix), Recovered[a.key] = r.val
        PROVE  Recovered[a.key] >= a.val
    <3>1. a.seq <= r.seq
      BY <1>1, <1>2, <1>3 DEF TypeOK, WalRecord
    <3>2. a.val <= r.val
      BY <1>2, <3>1 DEF Ordered
    <3> QED  BY <1>1, <1>2, <2>2, <3>2 DEF WalRecord
  <2> QED  BY <1>1, <2>1, <2>2, RecoveredEntry
<1>4. CASE /\ a \in log /\ a.seq > ckpt
           /\ \/ a.tx = 0
              \/ \E c \in log : /\ c.op = "commit" /\ c.tx = a.tx
                                /\ a.seq < c.seq /\ c.seq <= n
  <2>1. a \in Effective(Suffix)
    <3>1. a \in Suffix
      BY <1>4 DEF Suffix
    <3>2. CASE a.tx = 0
      BY <1>1, <3>1, <3>2 DEF Effective
    <3>3. ASSUME NEW c \in log, c.op = "commit", c.tx = a.tx, a.seq < c.seq
          PROVE  a \in Effective(Suffix)
      <4>1. c \in Suffix
        BY <1>1, <1>4, <3>3 DEF Suffix, TypeOK, WalRecord
      <4>2. a.tx \in CommittedTx(Suffix)
        BY <3>3, <4>1 DEF CommittedTx
      <4> QED  BY <1>1, <3>1, <4>2 DEF Effective
    <3> QED  BY <1>4, <3>2, <3>3
  <2>2. PICK r \in Effective(Suffix) :
           r.key = a.key /\ Recovered[a.key] = r.val /\ a.seq <= r.seq
    BY <1>1, <2>1, RecoveredEntry
  <2>3. a.val <= r.val
    BY <1>2, <2>2 DEF Ordered
  <2> QED  BY <1>1, <1>2, <2>2, <2>3 DEF WalRecord
<1> QED  BY <1>3, <1>4 DEF Safe, SafeIn

\* A safe mutation stays safe when the log keeps what is above the checkpoint
\* (up to the cut), and the trees have what the checkpoint passed.
LEMMA SafeKept ==
  ASSUME NEW L1 \in SUBSET WalRecord, NEW L2, NEW cp1 \in Nat, NEW cp2 \in Nat,
         NEW D1, NEW D2, NEW a \in WalRecord, NEW n \in Nat, NEW m \in Nat,
         SafeIn(L1, cp1, D1, a, n), n <= m, cp1 <= cp2,
         \A r \in L1 : r.seq > cp2 /\ r.seq <= n => r \in L2,
         a.seq <= cp2 => D2[a.key] >= a.val
  PROVE  SafeIn(L2, cp2, D2, a, m)
<1>1. a.seq \in Nat /\ \A c \in L1 : c.seq \in Nat
  BY DEF WalRecord
<1>2. CASE a.seq <= cp2
  BY <1>1, <1>2 DEF SafeIn
<1>3. CASE a.seq > cp2
  <2>1. a \in L2
    BY <1>1, <1>3 DEF SafeIn
  <2>2. ASSUME NEW c \in L1, a.seq < c.seq, c.seq <= n
        PROVE  c \in L2 /\ c.seq <= m
    BY <1>1, <1>3, <2>2
  <2> QED  BY <1>1, <1>3, <2>1, <2>2 DEF SafeIn
<1> QED  BY <1>1, <1>2, <1>3

\* The checkpoint only moves forward, and never past what was applied.
LEMMA TargetBounds ==
  ASSUME TypeOK, Bounded
  PROVE  Target \in Nat /\ Target >= ckpt /\ (Target = ckpt \/ Target <= applied)
<1>1. Clamped(applied) \in Nat /\ Clamped(applied) <= applied
  <2>1. CASE fences = {}
    BY <2>1 DEF Clamped, TypeOK
  <2>2. CASE fences # {}
    <3> DEFINE f == CHOOSE f \in fences : \A g \in fences : f <= g
    <3>1. f \in fences
      BY <2>2, LeastExists, Zenon DEF TypeOK
    <3>2. f - 1 \in Nat
      <4> HIDE DEF f
      <4>1. f \in Nat /\ f # 0
        BY <3>1 DEF TypeOK, Bounded
      <4> QED  BY <4>1
    <3>3. Clamped(applied) = Smaller(applied, f - 1)
      BY <2>2 DEF Clamped
    <3> HIDE DEF f
    <3> QED  BY <3>2, <3>3 DEF Smaller, TypeOK
  <2> QED  BY <2>1, <2>2
<1> QED  BY <1>1 DEF Target, Larger, TypeOK

\* The counters and applied_sequence recovery computes.
LEMMA FloorBounds ==
  ASSUME TypeOK, Bounded
  PROVE  /\ SequenceFloor \in Nat /\ ckpt <= SequenceFloor
         /\ \A r \in log : r.seq <= SequenceFloor
         /\ TransactionFloor \in Nat /\ \A r \in log : r.tx <= TransactionFloor
         /\ Highest({0} \cup Replayed) \in Nat
         /\ Highest({0} \cup Replayed) <= SequenceFloor
         /\ \A n \in Replayed : n <= Highest({0} \cup Replayed)
<1> DEFINE Seqs == {ckpt} \cup {r.seq : r \in log}
           Txs == {0} \cup {r.tx : r \in log}
           Rep == {0} \cup Replayed
<1>1. \A r \in log : r.seq \in Nat /\ r.tx \in Nat /\ r.seq <= MaxSeq /\ r.tx <= MaxTx
  BY DEF TypeOK, Bounded, WalRecord
<1>2. ckpt \in Nat /\ MaxSeq \in Nat /\ MaxTx \in Nat
  BY ConstantsAssumption DEF TypeOK
<1>3. Highest(Seqs) \in Seqs /\ \A m \in Seqs : m <= Highest(Seqs)
  <2>1. Seqs \subseteq Nat /\ Seqs # {}
    BY <1>1, <1>2
  <2>2. \A n \in Seqs : n <= ckpt + MaxSeq
    BY <1>1, <1>2
  <2>3. ckpt + MaxSeq \in Nat
    BY <1>2
  <2> HIDE DEF Seqs
  <2> QED  BY <2>1, <2>2, <2>3, HighestIsMax, Zenon
<1>4. Highest(Txs) \in Txs /\ \A m \in Txs : m <= Highest(Txs)
  <2>1. Txs \subseteq Nat /\ Txs # {}
    BY <1>1
  <2>2. \A n \in Txs : n <= MaxTx
    BY <1>1, <1>2
  <2> HIDE DEF Txs
  <2> QED  BY <1>2, <2>1, <2>2, HighestIsMax, Zenon
<1>5. Highest(Rep) \in Rep /\ \A m \in Rep : m <= Highest(Rep)
  <2>1. Rep \subseteq Nat /\ Rep # {}
    BY <1>1 DEF Replayed, Suffix
  <2>2. \A n \in Rep : n <= MaxSeq
    BY <1>1, <1>2 DEF Replayed, Suffix
  <2> HIDE DEF Rep
  <2> QED  BY <1>2, <2>1, <2>2, HighestIsMax, Zenon
<1>6. Highest(Rep) \in Nat /\ (Highest(Rep) = 0 \/ Highest(Rep) \in Seqs)
  <2>1. \A n \in Rep : n \in Nat /\ (n = 0 \/ n \in Seqs)
    BY <1>1 DEF Replayed, Suffix
  <2> HIDE DEF Rep, Seqs
  <2> QED  BY <1>5, <2>1
<1>7. SequenceFloor = Highest(Seqs) /\ TransactionFloor = Highest(Txs)
  BY DEF SequenceFloor, TransactionFloor
<1>8. Highest(Seqs) \in Nat /\ Highest(Txs) \in Nat
  BY <1>1, <1>2, <1>3, <1>4
<1>9. /\ ckpt \in Seqs /\ \A r \in log : r.seq \in Seqs /\ r.tx \in Txs
      /\ \A n \in Replayed : n \in Rep
  OBVIOUS
<1> HIDE DEF Seqs, Txs, Rep
<1>10. \A n \in Replayed : n <= Highest(Rep)
  BY <1>5, <1>9
<1>11. \A r \in log : r.seq <= Highest(Seqs) /\ r.tx <= Highest(Txs)
  BY <1>3, <1>4, <1>9
<1>12. Highest(Rep) <= Highest(Seqs) /\ ckpt <= Highest(Seqs)
  BY <1>3, <1>6, <1>8, <1>9
<1> QED  BY <1>6, <1>7, <1>8, <1>10, <1>11, <1>12, Zenon DEF Rep

-----------------------------------------------------------------------------
(* Type correctness.                                                        *)

\* Init establishes the type invariant and its strengthening.
LEMMA TypeInit == Init => TypeInv
<1> SUFFICES ASSUME Init PROVE TypeInv
  OBVIOUS
<1> USE ConstantsAssumption DEF Init
<1>1. unit \in Unit /\ todo \subseteq unit.ops
  BY DEF NoUnit, Unit
<1>2. mem \in [Keys -> Nat] /\ disk \in [Keys -> Nat] /\ flushed \in 0 .. NTrees
  OBVIOUS
<1>3. orphan \in BOOLEAN
  BY Zenon
<1>4. TypeOK
  BY <1>1, <1>2, <1>3 DEF TypeOK
<1> QED  BY <1>4 DEF TypeInv, Bounded, NoUnit

\* Every step of the engine preserves them.
LEMMA TypeStep == TypeInv /\ [Next]_vars => TypeInv'
<1> SUFFICES ASSUME TypeInv, [Next]_vars PROVE TypeInv'
  OBVIOUS
<1> USE ConstantsAssumption DEF TypeInv, Bounded
<1> NoUnit \in Unit /\ NoUnit.ops = {} /\ NoUnit.tx = 0
  BY DEF NoUnit, Unit
<1>1. CASE open
  BY <1>1 DEF open, append, Record, TypeOK, Unit, WalRecord, clientVars
<1>0. NoteStray => stray' \subseteq Nat
  BY DEF NoteStray, TypeOK
<1>2. ASSUME NEW k \in Keys, stage(k) PROVE TypeInv'
  <2>1. Put(unit.tx, k) \in WalRecord
    BY DEF Put, TypeOK, Unit, WalRecord
  <2>2. log' \subseteq log \cup {Put(unit.tx, k)}
    BY <1>2 DEF stage, append
  <2>3. unit' \in Unit
    BY <1>2, <2>1 DEF stage, TypeOK, Unit
  <2>4. todo' = {} /\ unit'.tx = unit.tx
    BY <1>2 DEF stage, TypeOK, Unit
  <2>5. Put(unit.tx, k).seq <= MaxSeq /\ Put(unit.tx, k).tx = unit.tx
    BY <1>2 DEF stage, Put
  <2>6. TypeOK'
    BY <1>0, <1>2, <2>1, <2>2, <2>3, <2>4 DEF stage, TypeOK, clientVars, stateVars
  <2> QED  BY <1>2, <2>2, <2>4, <2>5, <2>6 DEF stage, stateVars
<1>3. CASE commit
  <2> DEFINE c == Record(nextSeq, unit.tx, "commit")
  <2>1. c \in WalRecord /\ c.seq <= MaxSeq /\ c.tx <= MaxTx
    BY <1>3 DEF commit, Record, TypeOK, Unit, WalRecord
  <2>2. log' \subseteq log \cup {c}
    BY <1>3 DEF commit, append
  <2>3. unit' \in Unit /\ unit'.tx = unit.tx /\ unit'.ops = unit.ops
    BY <1>3 DEF commit, TypeOK, Unit
  <2> HIDE DEF c
  <2>4. TypeOK'
    BY <1>3, <2>1, <2>2, <2>3 DEF commit, TypeOK, clientVars, stateVars
  <2> QED  BY <1>3, <2>1, <2>2, <2>3, <2>4 DEF commit, stateVars
<1>4. CASE drop
  <2> DEFINE a == Record(nextSeq + 1, unit.tx, "abort")
  <2>1. a \in WalRecord /\ a.seq <= MaxSeq /\ a.tx <= MaxTx
    BY <1>4 DEF drop, Record, TypeOK, Unit, WalRecord
  <2>2. log' \subseteq log \cup {a}
    BY <1>4 DEF drop, append
  <2> HIDE DEF a
  <2>3. fences' \subseteq fences /\ nextSeq' \in Nat \ {0}
    BY <1>4 DEF drop, TypeOK
  <2>4. unit' = NoUnit /\ todo' = {} /\ orphan' = orphan
    BY <1>4 DEF drop
  <2>5. TypeOK'
    BY <1>4, <2>1, <2>2, <2>3, <2>4, Zenon DEF drop, TypeOK, clientVars
  <2> QED  BY <1>4, <2>1, <2>2, <2>3, <2>4, <2>5 DEF drop
<1>5. CASE FailedFirstAppend
  BY <1>5 DEF FailedFirstAppend, TypeOK, clientVars, stateVars, lockVars
<1>6. ASSUME NEW k \in Keys, standalone(k) PROVE TypeInv'
  BY <1>0, <1>6 DEF standalone, append, Put, TypeOK, Unit, WalRecord, clientVars, stateVars
<1>7. CASE apply_committed
  <2>1. PICK r \in todo : /\ mem' = [mem EXCEPT ![r.key] = r.val]
                          /\ todo' = todo \ {r}
    BY <1>7, Zenon DEF apply_committed
  <2>2. r.val \in Nat
    BY DEF TypeOK, Unit, WalRecord
  <2>3. mem' \in [Keys -> Nat] /\ todo' \subseteq unit'.ops
    BY <1>7, <2>1, <2>2, Zenon DEF apply_committed, TypeOK
  <2>4. TypeOK'
    BY <1>7, <2>3 DEF apply_committed, TypeOK, clientVars, logVars
  <2> QED  BY <1>7, <2>4 DEF apply_committed, logVars
<1>8. CASE ApplyFails
  BY <1>8 DEF ApplyFails, TypeOK, Unit, WalRecord, clientVars, logVars
<1>9. CASE settle
  <2>1. unit' \in Unit /\ todo' = {} /\ unit'.tx <= MaxTx
    BY <1>9 DEF settle, Release, TypeOK
  <2>2. waiting' \subseteq Unit /\ pc' \in {"idle", "flush"} /\ flushed' \in 0 .. NTrees
    BY <1>9 DEF settle, Release, TypeOK
  <2>3. applied' \in Nat /\ pending' \in Nat /\ fences' \subseteq fences
    BY <1>9 DEF settle, Larger, TypeOK, Unit
  <2>4. TypeOK'
    BY <1>9, <2>1, <2>2, <2>3, Zenon DEF settle, TypeOK, logVars
  <2> QED  BY <1>9, <2>1, <2>2, <2>3, <2>4 DEF settle, logVars
<1>10. CASE Shutdown
  BY <1>10 DEF Shutdown, TypeOK, logVars, stateVars, clientVars
<1>11. CASE CommitTree
  <2>1. disk' \in [Keys -> Nat] /\ flushed' \in 0 .. NTrees
    BY <1>11, ConstantsAssumption DEF CommitTree, TypeOK, Keys
  <2> QED  BY <1>11, <2>1 DEF CommitTree, TypeOK, logVars, clientVars
<1>12. CASE advance
  BY <1>12, TargetBounds DEF advance, TypeOK, logVars, clientVars
<1>13. CASE rotate
  <2>1. log' \subseteq log /\ synced' \in Nat
    BY <1>13 DEF rotate, Suffix, Larger, TypeOK
  <2>2. orphan' \in BOOLEAN
    BY <1>13, Zenon DEF rotate, TypeOK
  <2>3. unit' = NoUnit /\ todo' = {} /\ waiting' \subseteq Unit
    BY <1>13 DEF rotate, Release, TypeOK
  <2>4. TypeOK'
    BY <1>13, <2>1, <2>2, <2>3, Zenon DEF rotate, TypeOK, stateVars
  <2> QED  BY <1>13, <2>1, <2>3, <2>4 DEF rotate, stateVars
<1>14. CASE CheckpointFails
  <2>1. ckpt' \in Nat
    BY <1>14, TargetBounds DEF CheckpointFails, TypeOK
  <2>2. unit' = NoUnit /\ waiting' \subseteq Unit /\ pc' \in {"idle", "stopped"}
    BY <1>14, Zenon DEF CheckpointFails, Abandon, Release, TypeOK
  <2>3. TypeOK'
    BY <1>14, <2>1, <2>2, Zenon DEF CheckpointFails, TypeOK, logVars
  <2> QED  BY <1>14, <2>2, <2>3 DEF CheckpointFails, logVars
<1>15. CASE RotateLosesHandle
  BY <1>15 DEF RotateLosesHandle, Abandon, Release, Suffix, TypeOK, stateVars
<1>16. ASSUME NEW u \in waiting, Acknowledge(u) PROVE TypeInv'
  BY <1>16 DEF Acknowledge, Larger, TypeOK, Unit, stateVars, lockVars
<1>17. CASE Crash
  <2>1. orphan' \in BOOLEAN
    BY <1>17, Zenon DEF Crash, LoseMemory
  <2>2. TypeOK'
    BY <1>17, <2>1 DEF Crash, LoseMemory, TypeOK
  <2> QED  BY <1>17, <2>2 DEF Crash, LoseMemory
<1>18. CASE PowerLoss
  <2>1. log' \subseteq log /\ synced' \in Nat
    BY <1>18 DEF PowerLoss, TypeOK, WalRecord
  <2>2. TypeOK'
    <3>1. orphan' \in BOOLEAN
      BY <1>18, Zenon DEF PowerLoss, LoseMemory
    <3> QED  BY <1>18, <2>1, <3>1 DEF PowerLoss, LoseMemory, TypeOK
  <2> QED  BY <1>18, <2>1, <2>2 DEF PowerLoss, LoseMemory
<1>19. CASE recover
  <2>1. /\ mem' = Recovered /\ applied' = Highest({0} \cup Replayed)
        /\ nextSeq' = SequenceFloor + 1 /\ nextTx' = TransactionFloor + 1
        /\ synced' = Smaller(synced, SequenceFloor)
    BY <1>19, Zenon DEF recover
  <2>2. synced \in Nat
    BY DEF TypeOK
  <2>3. applied' \in Nat /\ nextSeq' \in Nat \ {0} /\ nextTx' \in Nat \ {0} /\ synced' \in Nat
    BY <2>1, <2>2, FloorBounds DEF Smaller
  <2>4. mem' \in [Keys -> Nat]
    BY <2>1, RecoveredType
  <2> QED  BY <1>19, <2>3, <2>4 DEF recover, TypeOK, clientVars
<1>20. CASE UNCHANGED vars
  BY <1>20 DEF vars, logVars, stateVars, lockVars, clientVars, TypeOK
<1> QED  BY <1>1, <1>2, <1>3, <1>4, <1>5, <1>6, <1>7, <1>8, <1>9, <1>10, <1>11, <1>12, <1>13,
            <1>14, <1>15, <1>16, <1>17, <1>18, <1>19, <1>20, Zenon DEF Next

\* Every variable of the durability core keeps its type in every behaviour:
\* in particular the clamped checkpoint and the recovered counters stay
\* naturals, whatever frames, failures and restarts came before.
THEOREM TypeCorrect == Spec => []TypeOK
<1>1. TypeInv => TypeOK
  BY DEF TypeInv
<1> QED  BY <1>1, TypeInit, TypeStep, PTL DEF Spec

-----------------------------------------------------------------------------
(* What the steps share.                                                    *)

\* The numbers of the log, of the clients and of the writer are naturals.
LEMMA Fields ==
  ASSUME TypeInv
  PROVE  /\ \A r \in log : r \in WalRecord /\ r.seq \in Nat /\ r.val \in Nat
         /\ \A a \in acked : a \in WalRecord /\ a.seq \in Nat /\ a.val \in Nat
         /\ \A u \in waiting : /\ u.last \in Nat /\ u.ops \subseteq WalRecord
                              /\ \A a \in u.ops : a.seq \in Nat /\ a.val \in Nat
         /\ unit.last \in Nat /\ unit.ops \subseteq WalRecord
         /\ \A a \in unit.ops : a.seq \in Nat /\ a.val \in Nat
         /\ ckpt \in Nat /\ synced \in Nat /\ nextSeq \in Nat /\ nextWrite \in Nat
         /\ applied \in Nat
BY DEF TypeInv, TypeOK, Unit, WalRecord

\* The fields of the mutations of clients, in the kinds arithmetic needs.
LEMMA IssuedFields ==
  ASSUME TypeInv, Ordered
  PROVE  \A r \in Issued : r.seq \in Nat /\ r.val \in Nat /\ r.key \in Keys
BY Fields DEF Issued, Named, OpsOf, Ordered

\* A safe mutation the checkpoint covers is in the committed tree, or a newer one is.
LEMMA SafeBelow ==
  ASSUME TypeInv
  PROVE  \A a, n : Safe(a, n) /\ a \in WalRecord /\ a.seq <= ckpt => disk[a.key] >= a.val
BY Fields DEF Safe, SafeIn, WalRecord

\* A step that issues no mutation keeps their order.
LEMMA OrderedKept ==
  ASSUME Ordered, Issued' \subseteq Issued
  PROVE  Ordered'
BY DEF Ordered

\* A new mutation takes the next sequence and the next write number.
LEMMA OrderedNew ==
  ASSUME TypeInv, Ordered, Drawn, NEW p, Issued' \subseteq Issued \cup {p}, pc # "down",
         p.op = "put", p.key \in Keys, p.seq = nextSeq, p.val = nextWrite
  PROVE  Ordered'
BY Fields, IssuedFields DEF Ordered, Drawn

\* Appending to the log, or rotating it, keeps what was safe.
LEMMA SafeAppend ==
  ASSUME TypeInv, AllSafe, \A r \in log : r.seq > ckpt => r \in log',
         ckpt' = ckpt, disk' = disk
  PROVE  /\ \A a \in Named(acked) : SafeIn(log', ckpt', disk', a, synced)
         /\ \A u \in waiting : \A a \in Named(u.ops) : SafeIn(log', ckpt', disk', a, u.last)
         /\ pc \in {"apply", "flush", "rotate"} =>
              \A a \in Named(unit.ops) : SafeIn(log', ckpt', disk', a, unit.last)
<1>1. ASSUME NEW a \in WalRecord, NEW n \in Nat, Safe(a, n)
      PROVE  SafeIn(log', ckpt', disk', a, n)
  <2>1. a.seq <= ckpt' => disk'[a.key] >= a.val
    BY <1>1, SafeBelow
  <2>2. log \in SUBSET WalRecord /\ ckpt \in Nat /\ ckpt <= ckpt' /\ n <= n
    BY Fields
  <2> QED  BY <1>1, <2>1, <2>2, SafeKept DEF Safe
<1> QED  BY <1>1, Fields DEF AllSafe, Named

\* So does flushing the working trees, and moving the checkpoint once that is done.
LEMMA SafeFlush ==
  ASSUME TypeInv, Ordered, AllSafe, MemoryCurrent, pc = "flush", log' = log,
         ckpt' \in Nat, ckpt <= ckpt',
         \A k \in Keys : disk'[k] = mem[k] \/ (disk'[k] = disk[k] /\ ckpt' = ckpt)
  PROVE  /\ \A a \in Named(acked) : SafeIn(log', ckpt', disk', a, synced)
         /\ \A u \in waiting : \A a \in Named(u.ops) : SafeIn(log', ckpt', disk', a, u.last)
         /\ \A a \in Named(unit.ops) : SafeIn(log', ckpt', disk', a, unit.last)
<1>1. ASSUME NEW a \in WalRecord, NEW n \in Nat, Safe(a, n), a \in InMemory, a \in Issued
      PROVE  SafeIn(log', ckpt', disk', a, n)
  <2>1. mem[a.key] >= a.val /\ a.key \in Keys
    BY <1>1, IssuedFields DEF MemoryCurrent
  <2>2. a.seq <= ckpt' => disk'[a.key] >= a.val
    BY <1>1, <2>1, SafeBelow
  <2>3. log \in SUBSET WalRecord /\ ckpt \in Nat /\ n <= n
    BY Fields
  <2> QED  BY <1>1, <2>2, <2>3, SafeKept DEF Safe
<1>2. \A a \in Named(acked) \cup Named(OpsOf(waiting)) \cup unit.ops :
         a \in InMemory /\ a \in Issued
  BY DEF InMemory, Issued, TypeInv, Bounded
<1>3. /\ \A u \in waiting : Named(u.ops) \subseteq Named(OpsOf(waiting))
      /\ Named(unit.ops) \subseteq unit.ops
  BY Zenon DEF OpsOf, Named
<1>4. /\ Named(acked) \subseteq WalRecord
      /\ \A u \in waiting : Named(u.ops) \subseteq WalRecord /\ u.last \in Nat
      /\ Named(unit.ops) \subseteq WalRecord /\ unit.last \in Nat /\ synced \in Nat
  BY Fields DEF Named
<1> QED  BY <1>1, <1>2, <1>3, <1>4 DEF AllSafe

\* Releasing the lock draws no number.
LEMMA DrawnKept ==
  ASSUME TypeInv, Drawn, Issued' \subseteq Issued, log' \subseteq log, pc # "down",
         mem' = mem, disk' = disk, applied' < nextSeq, nextSeq' = nextSeq,
         nextWrite' = nextWrite, ckpt' < nextSeq, unit'.last = 0
  PROVE  Drawn'
<1>1. \A r \in log' \cup Issued' : r.seq < nextSeq'
  BY DEF Drawn
<1>2. ckpt' < nextSeq' /\ applied' < nextSeq' /\ unit'.last < nextSeq'
  BY Fields DEF Drawn
<1>3. /\ \A k \in Keys : mem'[k] < nextWrite' /\ disk'[k] < nextWrite'
      /\ \A r \in Issued' : r.val < nextWrite'
  BY DEF Drawn
<1> QED  BY <1>1, <1>2, <1>3 DEF Drawn

\* Releasing the lock hands the finished unit to its writer.
LEMMA ReleaseKeeps ==
  ASSUME Release, pc \in {"apply", "flush", "rotate"}, todo = {}, log' \subseteq log,
         acked' = acked, stray' = stray, pc' \in {"idle", "stopped"}
  PROVE  /\ Issued' \subseteq Issued /\ InMemory' \subseteq InMemory
         /\ \A u \in waiting' : u \in waiting \/ u = unit
         /\ unit' = NoUnit /\ unit'.ops = {} /\ unit'.last = 0
<1>1. /\ \A u \in waiting' : u \in waiting \/ u = unit
      /\ unit' = NoUnit /\ unit'.ops = {} /\ unit'.last = 0
  BY DEF Release, NoUnit
<1>2. /\ Named(OpsOf(waiting))' \subseteq Named(OpsOf(waiting)) \cup unit.ops
      /\ Named(acked)' = Named(acked)
  BY <1>1 DEF OpsOf, Named
<1>3. Issued' \subseteq Issued
  BY <1>1, <1>2 DEF Issued
<1>4. InMemory' \subseteq InMemory
  BY <1>1, <1>2 DEF InMemory
<1> QED  BY <1>1, <1>3, <1>4

-----------------------------------------------------------------------------
(* The steps that append to a frame.                                        *)

\* BEGIN: nothing that was safe is touched.
LEMMA InvOpen == IInv /\ TypeInv' /\ open => IInv'
<1> SUFFICES ASSUME IInv, TypeInv', open PROVE IInv'
  OBVIOUS
<1>0. /\ TypeInv /\ Shape /\ Drawn /\ Ordered /\ Staged /\ AllSafe /\ Fresh
      /\ MemoryCurrent /\ FlushProgress
  BY DEF IInv
<1>1. /\ log \subseteq log' /\ ckpt' = ckpt /\ disk' = disk /\ mem' = mem
      /\ \A r \in log' : r \in log \/ (r.op = "begin" /\ r.seq = nextSeq)
      /\ pc = "idle" /\ pc' = "stage" /\ nextSeq' = nextSeq + 1 /\ nextWrite' = nextWrite
      /\ unit'.ops = {} /\ unit'.last = 0
      /\ todo' = {} /\ applied' = applied /\ synced' = synced
      /\ acked' = acked /\ waiting' = waiting /\ stray' = stray
  BY <1>0 DEF open, append, Record, clientVars, TypeInv, Bounded
<1>2. Issued' \subseteq Issued
  BY <1>1 DEF Issued, Named
<1>3. InMemory' \subseteq InMemory
  BY <1>1 DEF InMemory, Named
<1>4. Shape' /\ Staged' /\ FlushProgress'
  BY <1>0, <1>1 DEF Shape, Staged, Named, FlushProgress
<1>5. Drawn'
  BY <1>0, Fields, IssuedFields, <1>1, <1>2 DEF Drawn
<1>6. AllSafe'
  BY <1>0, SafeAppend, <1>1, Zenon DEF AllSafe, Safe, Named
<1>7. Fresh' /\ MemoryCurrent'
  BY <1>0, <1>1, <1>3 DEF Fresh, MemoryCurrent
<1> QED  BY <1>0, OrderedKept, <1>2, <1>4, <1>5, <1>6, <1>7 DEF IInv

\* A staged mutation is newer than everything issued before.
LEMMA InvStage ==
  ASSUME NEW k \in Keys
  PROVE  IInv /\ TypeInv' /\ stage(k) => IInv'
<1> SUFFICES ASSUME IInv, TypeInv', stage(k) PROVE IInv'
  OBVIOUS
<1>0. /\ TypeInv /\ Shape /\ Drawn /\ Ordered /\ Staged /\ AllSafe /\ Fresh
      /\ MemoryCurrent /\ FlushProgress
  BY DEF IInv
<1> DEFINE p == Put(unit.tx, k)
<1>1. /\ p.op = "put" /\ p.key = k /\ p.seq = nextSeq /\ p.val = nextWrite /\ p.tx = unit.tx
  BY DEF Put
<1>2. /\ log \subseteq log' /\ log' \subseteq log \cup {p} /\ stray \subseteq stray'
      /\ ckpt' = ckpt /\ disk' = disk /\ mem' = mem
      /\ pc = "stage" /\ pc' = "stage" /\ nextSeq' = nextSeq + 1 /\ nextWrite' = nextWrite + 1
      /\ unit'.ops = unit.ops \cup {p} /\ unit'.last = unit.last /\ unit'.tx = unit.tx
      /\ todo' = {} /\ applied' = applied /\ synced' = synced
      /\ acked' = acked /\ waiting' = waiting /\ orphan' = orphan
  BY <1>0 DEF stage, append, NoteStray, stateVars, clientVars, TypeInv, TypeOK, Bounded, Unit
<1>a. IF orphan THEN nextWrite \in stray' ELSE p \in log'
  BY DEF stage, append, NoteStray
<1> HIDE DEF p
<1>3. Issued' \subseteq Issued \cup {p} /\ InMemory' \subseteq InMemory
  BY <1>2 DEF Issued, InMemory, Named
<1>4. Shape' /\ FlushProgress'
  BY <1>0, <1>2, Zenon DEF Shape, FlushProgress
<1>5. Ordered'
  BY <1>0, OrderedNew, <1>1, <1>2, <1>3, Zenon
<1>6. Drawn'
  <2>1. /\ nextSeq \in Nat /\ nextWrite \in Nat /\ ckpt \in Nat /\ applied \in Nat
        /\ unit.last \in Nat /\ \A r \in log \cup Issued : r.seq \in Nat /\ r.val \in Nat
        /\ mem \in [Keys -> Nat] /\ disk \in [Keys -> Nat]
    BY <1>0, Fields, IssuedFields DEF TypeInv, TypeOK
  <2> QED  BY <1>0, <1>1, <1>2, <1>3, <2>1 DEF Drawn
<1>7. Staged'
  <2>1. p.seq > ckpt
    BY <1>0, Fields, <1>1, <1>2 DEF Drawn
  <2> QED  BY <1>0, <1>1, <1>2, <1>a, <2>1 DEF Staged, Named
<1>8. AllSafe'
  <2>1. /\ \A a \in Named(acked) : SafeIn(log', ckpt', disk', a, synced)
        /\ \A u \in waiting : \A a \in Named(u.ops) : SafeIn(log', ckpt', disk', a, u.last)
    BY <1>0, SafeAppend, <1>2, Zenon
  <2> QED  BY <1>2, <2>1 DEF AllSafe, Safe, Named
<1>9. Fresh'
  <2>1. nextWrite \in Nat /\ \A q \in Keys : mem[q] \in Nat /\ mem[q] < nextWrite
    BY <1>0 DEF Drawn, TypeInv, TypeOK
  <2>2. \A q \in Keys : mem[q] <= p.val
    BY <1>1, <2>1
  <2> QED  BY <1>0, <1>2, <2>2, Zenon DEF Fresh
<1>10. MemoryCurrent'
  BY <1>0, <1>2, <1>3, Zenon DEF MemoryCurrent
<1> QED  BY <1>4, <1>5, <1>6, <1>7, <1>8, <1>9, <1>10 DEF IInv

\* COMMIT makes the frame's mutations safe up to its own sequence.
LEMMA InvCommit == IInv /\ TypeInv' /\ commit => IInv'
<1> SUFFICES ASSUME IInv, TypeInv', commit PROVE IInv'
  OBVIOUS
<1>0. /\ TypeInv /\ Shape /\ Drawn /\ Ordered /\ Staged /\ AllSafe /\ Fresh
      /\ MemoryCurrent /\ FlushProgress
  BY DEF IInv
<1> DEFINE c == Record(nextSeq, unit.tx, "commit")
<1>1. c.op = "commit" /\ c.seq = nextSeq /\ c.tx = unit.tx
  BY DEF Record
<1>2. /\ log \subseteq log' /\ log' \subseteq log \cup {c} /\ (~ orphan => c \in log')
      /\ ckpt' = ckpt /\ disk' = disk /\ mem' = mem /\ stray' = stray
      /\ pc = "stage" /\ pc' = "apply" /\ nextSeq' = nextSeq + 1 /\ nextWrite' = nextWrite
      /\ unit'.ops = unit.ops /\ unit'.last = nextSeq
      /\ todo' = unit.ops /\ applied' = applied /\ synced' = synced
      /\ acked' = acked /\ waiting' = waiting /\ orphan' = orphan
  BY <1>0 DEF commit, append, stateVars, clientVars, TypeInv, TypeOK, Unit
<1> HIDE DEF c
<1>3. Issued' \subseteq Issued
  BY <1>1, <1>2 DEF Issued, Named
<1>4. Shape' /\ FlushProgress' /\ Staged'
  BY <1>0, <1>2 DEF Shape, FlushProgress, Staged
<1>5. Drawn'
  BY <1>0, Fields, IssuedFields, <1>1, <1>2, <1>3 DEF Drawn
<1>6. \A a \in Named(unit.ops) : SafeIn(log', ckpt', disk', a, nextSeq)
  <2> SUFFICES ASSUME NEW a \in Named(unit.ops) PROVE SafeIn(log', ckpt', disk', a, nextSeq)
    OBVIOUS
  <2>1. a \in log /\ a.seq > ckpt /\ a.tx = unit.tx /\ ~ orphan
    BY <1>0, <1>2 DEF Staged
  <2>2. a.seq < nextSeq /\ a.seq \in Nat
    BY <1>0, Fields, <1>2 DEF Drawn, Issued, Named
  <2> QED  BY <1>0, Fields, <1>1, <1>2, <2>1, <2>2 DEF SafeIn
<1>7. AllSafe'
  <2>1. /\ \A a \in Named(acked) : SafeIn(log', ckpt', disk', a, synced)
        /\ \A u \in waiting : \A a \in Named(u.ops) : SafeIn(log', ckpt', disk', a, u.last)
    BY <1>0, <1>2, SafeAppend
  <2> QED  BY <1>2, <1>6, <2>1, Zenon DEF AllSafe, Safe, Named
<1>8. Fresh' /\ MemoryCurrent'
  BY <1>0, <1>2, Zenon DEF Fresh, MemoryCurrent, InMemory, Named
<1> QED  BY <1>0, OrderedKept, <1>3, <1>4, <1>5, <1>7, <1>8 DEF IInv

\* A failed append gives up the frame, with or without an ABORT.
LEMMA InvDrop == IInv /\ TypeInv' /\ drop => IInv'
<1> SUFFICES ASSUME IInv, TypeInv', drop PROVE IInv'
  OBVIOUS
<1>0. /\ TypeInv /\ Shape /\ Drawn /\ Ordered /\ Staged /\ AllSafe /\ Fresh
      /\ MemoryCurrent /\ FlushProgress
  BY DEF IInv
<1>1. /\ log \subseteq log' /\ ckpt' = ckpt /\ disk' = disk /\ mem' = mem
      /\ \A r \in log' : r \in log \/ (r.op = "abort" /\ r.seq = nextSeq + 1)
      /\ pc' = "idle" /\ nextSeq' = nextSeq + 2 /\ nextWrite' = nextWrite
      /\ todo' = {} /\ applied' = applied /\ synced' = synced /\ unit' = NoUnit
      /\ acked' = acked /\ waiting' = waiting /\ stray' = stray
      /\ pc = "stage" /\ unit'.ops = {} /\ unit'.last = 0
  BY <1>0 DEF drop, append, Record, clientVars, TypeInv, Bounded, NoUnit
<1>2. Issued' \subseteq Issued
  BY <1>1 DEF Issued, Named
<1>3. Shape' /\ FlushProgress' /\ Staged'
  BY <1>0, <1>1, Zenon DEF Shape, FlushProgress, Staged
<1>4. Drawn'
  BY <1>0, Fields, IssuedFields, <1>1, <1>2 DEF Drawn
<1>5. AllSafe'
  BY <1>0, SafeAppend, <1>1, Zenon DEF AllSafe, Safe, Named
<1>6. Fresh' /\ MemoryCurrent'
  BY <1>0, <1>1 DEF Fresh, MemoryCurrent, InMemory, Named
<1> QED  BY <1>0, OrderedKept, <1>2, <1>3, <1>4, <1>5, <1>6 DEF IInv
=============================================================================
