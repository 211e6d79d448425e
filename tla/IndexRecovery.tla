---------------------------- MODULE IndexRecovery ----------------------------
(***************************************************************************)
(* What operations do to the index trees, what a checkpoint cut short by a *)
(* crash leaves of them, and what replaying the log makes of that.         *)
(*                                                                         *)
(* A tree is its set of entries; the record an entry of primary or history *)
(* points at is immutable, so it stands for its heap location.  Of a       *)
(* node's data the value of the one indexed field is kept.  The log holds  *)
(* committed operations (Durability.tla says which those are).             *)
(***************************************************************************)
EXTENDS Naturals, Sequences

CONSTANTS
  Addresses,
  Contents,     \* the [kind, owner, value] a node may have
  IndexedKind,  \* the kind the declared data index covers
  NoNode,
  MaxOps        \* bound on the length of the log

ContentsAssumption ==
  /\ \A n \in Contents : DOMAIN n = {"kind", "owner", "value"}
  /\ NoNode \notin Contents /\ MaxOps \in Nat

VARIABLES
  log,       \* the operations, oldest first
  ckpt,      \* how many of them the checkpoint covers
  pos,       \* how many are applied to the working trees
  mem,       \* the working trees
  disk,      \* the committed trees
  flushed,   \* trees the running checkpoint has committed
  pc,        \* "ready", "recover" (replaying at startup) or "flush"
  ideal      \* history: the trees of an engine that never crashes, before the
             \* first operation and after each operation begun so far

vars == <<log, ckpt, pos, mem, disk, flushed, pc, ideal>>

\* The order of Indexes::commit.
Trees == <<"primary", "kind", "owner", "edge_out", "edge_in", "history", "data">>

Kinds == {n.kind : n \in Contents}
Owners == {n.owner : n \in Contents}
Values == {n.value : n \in Contents}

Operation ==
  [op : {"Insert"}, address : Addresses, node : Contents]
    \cup [op : {"Delete"}, address : Addresses]
    \cup [op : {"Archive"}, address : Addresses, version : Nat, node : Contents]
    \cup [op : {"InsertEdge", "DeleteEdge"}, from : Addresses, to : Addresses]
    \cup [op : {"CreateIndex", "DropIndex"}]

\* declared is the definitions file, which is synced as it is written.
NoEntries ==
  [primary |-> [a \in Addresses |-> NoNode], kind |-> {}, owner |-> {},
   edge_out |-> {}, edge_in |-> {}, history |-> {}, data |-> {}, declared |-> FALSE]

-----------------------------------------------------------------------------
(* apply_operation.                                                         *)

Kind(n, a) == IF n = NoNode THEN {} ELSE {<<n.kind, a>>}

Owner(n, a) == IF n = NoNode THEN {} ELSE {<<n.owner, a>>}

\* The keys assert_data_keys puts and retract_data_keys removes.
data_keys(t, n, a) ==
  IF t.declared /\ n # NoNode /\ n.kind = IndexedKind THEN {<<n.value, a>>} ELSE {}

applyInsertIfChanged(t, a, n) ==
  LET previous == t.primary[a]
      changed == previous = NoNode \/ previous.kind # n.kind
  IN  [t EXCEPT
         !.primary[a] = n,
         !.kind = IF changed THEN (@ \ Kind(previous, a)) \cup Kind(n, a) ELSE @,
         !.owner = (@ \ Owner(previous, a)) \cup Owner(n, a),
         !.data = (@ \ data_keys(t, previous, a)) \cup data_keys(t, n, a)]

applyInsert(t, a, n) ==
  LET previous == t.primary[a]
  IN  [t EXCEPT
         !.primary[a] = n,
         !.kind = (@ \ Kind(previous, a)) \cup Kind(n, a),
         !.owner = (@ \ Owner(previous, a)) \cup Owner(n, a),
         !.data = (@ \ data_keys(t, previous, a)) \cup data_keys(t, n, a)]

\* A node that is already gone retracts nothing.
applyDelete(t, a) ==
  LET node == t.primary[a]
  IN  [t EXCEPT
         !.primary[a] = NoNode,
         !.kind = @ \ Kind(node, a),
         !.owner = @ \ Owner(node, a),
         !.data = @ \ data_keys(t, node, a)]

applyArchive(t, a, v, n) ==
  [t EXCEPT !.history = {h \in @ : h[1] # a \/ h[2] # v} \cup {<<a, v, n>>}]

applyInsertEdge(t, f, o) ==
  [t EXCEPT !.edge_out = @ \cup {<<f, o>>}, !.edge_in = @ \cup {<<o, f>>}]

applyDeleteEdgeIfFound(t, f, o) ==
  IF <<f, o>> \in t.edge_out
    THEN [t EXCEPT !.edge_out = @ \ {<<f, o>>}, !.edge_in = @ \ {<<o, f>>}]
    ELSE t

applyDeleteEdge(t, f, o) ==
  [t EXCEPT !.edge_out = @ \ {<<f, o>>}, !.edge_in = @ \ {<<o, f>>}]

\* The definition, the tree, and the backfill through the kind index.
applyCreateIndex(t) ==
  [t EXCEPT
     !.declared = TRUE,
     !.data = @ \cup {<<t.primary[a].value, a>> :
                        a \in {b \in Addresses : /\ <<IndexedKind, b>> \in t.kind
                                                 /\ t.primary[b] # NoNode}}]

applyDropIndex(t) == [t EXCEPT !.declared = FALSE, !.data = {}]

apply_operation(t, r) ==
  CASE r.op = "Insert" -> applyInsert(t, r.address, r.node)
    [] r.op = "Delete" -> applyDelete(t, r.address)
    [] r.op = "Archive" -> applyArchive(t, r.address, r.version, r.node)
    [] r.op = "InsertEdge" -> applyInsertEdge(t, r.from, r.to)
    [] r.op = "DeleteEdge" -> applyDeleteEdge(t, r.from, r.to)
    [] r.op = "CreateIndex" -> applyCreateIndex(t)
    [] r.op = "DropIndex" -> applyDropIndex(t)

-----------------------------------------------------------------------------
(* Writing.  A mutation is lowered against the working trees.               *)

Init ==
  /\ log = <<>> /\ ckpt = 0 /\ pos = 0 /\ flushed = 0 /\ pc = "ready"
  /\ mem = NoEntries /\ disk = NoEntries /\ ideal = <<NoEntries>>

Commit(ops) ==
  /\ pc = "ready" /\ pos = Len(log) /\ Len(log) + Len(ops) <= MaxOps
  /\ log' = log \o ops
  /\ UNCHANGED <<ckpt, pos, mem, disk, flushed, pc, ideal>>

\* The version of a history entry is drawn from a counter.
ArchivePrevious(a) ==
  IF mem.primary[a] = NoNode
    THEN <<>>
    ELSE <<[op |-> "Archive", address |-> a, version |-> Len(log) + 1,
            node |-> mem.primary[a]]>>

insert(a, n) == Commit(ArchivePrevious(a) \o <<[op |-> "Insert", address |-> a, node |-> n]>>)

delete(a) == Commit(ArchivePrevious(a) \o <<[op |-> "Delete", address |-> a]>>)

insert_edge(f, o) ==
  /\ mem.primary[f] # NoNode /\ mem.primary[o] # NoNode
  /\ Commit(<<[op |-> "InsertEdge", from |-> f, to |-> o]>>)

delete_edge(f, o) ==
  /\ <<f, o>> \in mem.edge_out
  /\ Commit(<<[op |-> "DeleteEdge", from |-> f, to |-> o]>>)

create_index == ~mem.declared /\ Commit(<<[op |-> "CreateIndex"]>>)

drop_index == mem.declared /\ Commit(<<[op |-> "DropIndex"]>>)

\* The next operation, seen for the first time or replayed.
BeginOperation ==
  ideal' = IF pos + 1 < Len(ideal)
             THEN ideal
             ELSE Append(ideal, apply_operation(ideal[pos + 1], log[pos + 1]))

\* The next operation, of a write or of recovery.  The definitions file and
\* the removal of a dropped index's file do not wait for the checkpoint.  While
\* the index is not declared, data is what its file holds.
apply_committed ==
  /\ pc \in {"ready", "recover"} /\ pos < Len(log)
  /\ mem' = apply_operation(mem, log[pos + 1])
  /\ disk' = [disk EXCEPT !.declared = mem'.declared,
                          !.data = IF log[pos + 1].op = "DropIndex" THEN {} ELSE @]
  /\ pos' = pos + 1
  /\ BeginOperation
  /\ UNCHANGED <<log, ckpt, flushed, pc>>

-----------------------------------------------------------------------------
(* Checkpoint, crash and restart.                                           *)

checkpoint ==
  /\ pc \in {"ready", "recover"} /\ pos = Len(log)
  /\ pc' = "flush" /\ flushed' = 0
  /\ UNCHANGED <<log, ckpt, pos, mem, disk, ideal>>

CommitTree ==
  /\ pc = "flush" /\ flushed < Len(Trees)
  /\ disk' = [disk EXCEPT ![Trees[flushed + 1]] = mem[Trees[flushed + 1]]]
  /\ flushed' = flushed + 1
  /\ UNCHANGED <<log, ckpt, pos, mem, pc, ideal>>

advance ==
  /\ pc = "flush" /\ flushed = Len(Trees)
  /\ ckpt' = pos
  /\ pc' = "ready"
  /\ UNCHANGED <<log, pos, mem, disk, flushed, ideal>>

\* The process dies; the next one opens the trees as they were committed, with
\* the declared indexes, and replays what the checkpoint does not cover.
Crash ==
  /\ mem' = disk /\ pos' = ckpt /\ pc' = "recover" /\ flushed' = 0
  /\ UNCHANGED <<log, ckpt, disk, ideal>>

\* Between the drop's line in the definitions file and the removal of the tree.
CrashInDropIndex ==
  /\ pc \in {"ready", "recover"} /\ pos < Len(log) /\ log[pos + 1].op = "DropIndex"
  /\ disk' = [disk EXCEPT !.declared = FALSE]
  /\ mem' = disk' /\ pos' = ckpt /\ pc' = "recover"
  /\ BeginOperation
  /\ UNCHANGED <<log, ckpt, flushed>>

Next ==
  \/ \E a \in Addresses : delete(a) \/ \E n \in Contents : insert(a, n)
  \/ \E f, o \in Addresses : insert_edge(f, o) \/ delete_edge(f, o)
  \/ create_index \/ drop_index
  \/ apply_committed \/ checkpoint \/ CommitTree \/ advance
  \/ Crash \/ CrashInDropIndex

Spec == Init /\ [][Next]_vars

-----------------------------------------------------------------------------
(* Properties.                                                              *)

Entries ==
  [primary : [Addresses -> Contents \cup {NoNode}],
   kind : SUBSET (Kinds \X Addresses), owner : SUBSET (Owners \X Addresses),
   edge_out : SUBSET (Addresses \X Addresses), edge_in : SUBSET (Addresses \X Addresses),
   history : SUBSET (Addresses \X (1 .. MaxOps) \X Contents),
   data : SUBSET (Values \X Addresses), declared : BOOLEAN]

\* Every variable holds a value of its kind, and a running engine keeps no
\* entries of an index that is not declared.
TypeOK ==
  /\ log \in Seq(Operation) /\ ckpt \in 0 .. Len(log) /\ pos \in ckpt .. Len(log)
  /\ mem \in Entries /\ disk \in Entries
  /\ pc # "recover" /\ ~mem.declared => mem.data = {} /\ disk.data = {}
  /\ flushed \in 0 .. Len(Trees) /\ pc \in {"ready", "recover", "flush"}

Settled == pos = Len(log)

\* The trees of an engine that never crashed, once every operation is applied.
Expected == ideal[Len(ideal)]

\* Whatever part of a checkpoint a crash left behind, replay brings back
\* exactly the nodes, both directions of every edge, and the history.
ReplayReproducesRecords ==
  Settled => \A t \in {"primary", "edge_out", "edge_in", "history"} : mem[t] = Expected[t]

\* No live node is lost to a query: replay leaves every node in the kind, owner
\* and declared data indexes under its current values.
EveryNodeReachable ==
  Settled => /\ Expected.kind \subseteq mem.kind
             /\ Expected.owner \subseteq mem.owner
             /\ Expected.data \subseteq mem.data

\* "recovery replays those operations and reproduces exactly the state that did
\* not make it" (engine.rs, checkpoint).
ReplayReproducesIndexes == Settled => mem = Expected
=============================================================================
