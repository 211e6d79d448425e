------------------------------ MODULE Batches ------------------------------
(***************************************************************************)
(* How a batch of operations becomes mutations (storage/engine.rs,         *)
(* reference.rs): lower_transaction validates each operation against the   *)
(* committed nodes overlaid with what the batch has done so far, expands   *)
(* deletes into what the declared references entail, and the whole batch   *)
(* is then checked for uniqueness and for references before it is logged   *)
(* and applied.  Standalone mutations are batches of one operation.        *)
(*                                                                         *)
(* A node carries a kind, an owner, a field val that may be indexed, and a *)
(* field ref that may reference another node.  None stands for an absent   *)
(* node, an absent field and JSON null.  The index over a field is read    *)
(* off the committed nodes: that the trees agree with them is the subject  *)
(* of IndexRecovery.tla.                                                   *)
(***************************************************************************)
EXTENDS Integers, Sequences, FiniteSets, SequencesExt

CONSTANTS
  Addrs,      \* addresses, numbers: the order of keys
  Shapes,     \* the nodes clients write: [kind, own, val, ref]
  Defs,       \* references that may be declared
  IndexDefs,  \* indexes that may be declared
  Callers,    \* owners that run bulk operations
  EdgeIds,    \* pairs of addresses
  MaxBatch,   \* operations in one batch
  MaxOps,     \* max_transaction_ops
  Rewrites,   \* whether clients rewrite the kind or val of a live node
  None, Untouched

BatchBounds == MaxBatch \in Nat \ {0} /\ MaxOps \in Nat \ {0}

VARIABLES
  nodes,      \* committed nodes: address -> node or None
  edges,      \* committed edges: pair of addresses -> owner or None
  refs,       \* declared references
  ixs,        \* declared indexes
  staged,     \* the overlay of the batch being lowered
  stagedEdges,
  lowered,    \* its mutations
  size,       \* operations lowered so far
  refused     \* why the last batch was refused, and the batch

vars == <<nodes, edges, refs, ixs, staged, stagedEdges, lowered, size, refused>>

Kinds == {s.kind : s \in Shapes}
Vals == {s.val : s \in Shapes}

\* Mutations, in the order they will be applied.
Archive(a, n) == [op |-> "archive", addr |-> a, node |-> n]
Insert(a, n) == [op |-> "insert", addr |-> a, node |-> n]
Delete(a) == [op |-> "delete", addr |-> a, node |-> None]
InsertEdge(e) == [op |-> "insert_edge", addr |-> e, node |-> None]
DeleteEdge(e) == [op |-> "delete_edge", addr |-> e, node |-> None]

Clean == [a \in Addrs |-> Untouched]
CleanEdges == [e \in EdgeIds |-> Untouched]

\* staged_node: the overlay, and the committed node under it.
StagedNode(stg, a) == IF stg[a] = Untouched THEN nodes[a] ELSE stg[a]
StagedEdge(e) == IF stagedEdges[e] = Untouched THEN edges[e] ELSE stagedEdges[e]

\* data_find: is there an index over this field of this kind?
HasIndex(k, f) == \E i \in ixs : i.kind = k /\ i.field = f
HasUnique(k, f) == \E i \in ixs : i.kind = k /\ i.field = f /\ i.unique
FieldOf(n, f) == IF f = "val" THEN n.val ELSE n.ref

-----------------------------------------------------------------------------
(* References.                                                             *)

ReferencingKey(n) == n.ref
ReferencedKey(a, n, d) == IF d.by = "address" THEN a ELSE n.val
ForParent(k) == {d \in refs : d.parent = k}
ForChild(k) == {d \in refs : d.kind = k}

ResolvesIn(ns, d, key) ==
  \E a \in Addrs : /\ ns[a] # None /\ ns[a].kind = d.parent
                   /\ ReferencedKey(a, ns[a], d) = key

\* resolves_live.  By address it compares the kind; by field it trusts the
\* parent's unique index.
ResolvesLive(d, key) == ResolvesIn(nodes, d, key)

\* referencing_nodes: the index proposes committed children, the batch the
\* nodes it wrote (written), and the staged value decides.
ReferencingNodes(d, key, stg, written) ==
  LET indexed == {a \in Addrs : /\ nodes[a] # None /\ nodes[a].kind = d.kind
                                /\ ReferencingKey(nodes[a]) = key}
      candidates == indexed \cup {a \in written : stg[a] # Untouched}
  IN {a \in candidates : LET n == StagedNode(stg, a)
                         IN n # None /\ n.kind = d.kind /\ ReferencingKey(n) = key}

Ascending(S) == SetToSortSeq(S, <)
Node(a, n) == [addr |-> a, node |-> n]

-----------------------------------------------------------------------------
(* lower_delete_closure.  The state of the closure is a record: the        *)
(* mutations, the overlay, the queue, the removed addresses, the outcome.  *)

\* Children are removed where they are found: their own children are not.
ReactOneLevel(c, node, d, written) ==
  LET key == ReferencedKey(node.addr, node.node, d)
      kids == IF key = None THEN {}
              ELSE ReferencingNodes(d, key, c.stg, written) \ c.gone
      seq == Ascending(kids)
  IN IF kids = {} THEN c
     ELSE IF d.act = "restrict" THEN [c EXCEPT !.why = "restrict"]
     ELSE [c EXCEPT !.low = @ \o FlattenSeq([i \in DOMAIN seq |->
                      <<Archive(seq[i], StagedNode(c.stg, seq[i])), Delete(seq[i])>>]),
                    !.stg = [a \in Addrs |-> IF a \in kids THEN None ELSE c.stg[a]],
                    !.gone = @ \cup kids]

\* One reference of one removed node: what it does to the children.
React(c, node, d, written) ==
  LET key == ReferencedKey(node.addr, node.node, d)
      kids == IF key = None THEN {}
              ELSE ReferencingNodes(d, key, c.stg, written) \ c.gone
      seq == Ascending(kids)
      kid(i) == StagedNode(c.stg, seq[i])
      cleared(a) == [StagedNode(c.stg, a) EXCEPT !.ref = None]
  IN IF c.why # "ok" \/ kids = {} THEN c
     ELSE CASE d.act = "cascade" ->
                 [c EXCEPT !.queue = @ \o [i \in DOMAIN seq |-> Node(seq[i], kid(i))]]
            [] d.act = "restrict" -> [c EXCEPT !.why = "restrict"]
            [] d.act = "set_null" ->
                 [c EXCEPT !.low = @ \o FlattenSeq([i \in DOMAIN seq |->
                              <<Archive(seq[i], kid(i)),
                                Insert(seq[i], cleared(seq[i]))>>]),
                           !.stg = [a \in Addrs |-> IF a \in kids THEN cleared(a)
                                                    ELSE c.stg[a]]]

RECURSIVE ReactAll(_, _, _, _)
ReactAll(c, node, ds, written) ==
  IF ds = <<>> THEN c
  ELSE ReactAll(React(c, node, Head(ds), written), node, Tail(ds), written)

ByName(S) == SetToSortSeq(S, LAMBDA x, y : x.name < y.name)
RemoveNode(c, node) ==
  [c EXCEPT !.low = @ \o <<Archive(node.addr, node.node), Delete(node.addr)>>,
            !.stg[node.addr] = None, !.gone = @ \cup {node.addr}]
Bounded(c) ==
  IF refs # {} /\ c.why = "ok" /\ Len(c.low) > MaxOps THEN [c EXCEPT !.why = "bound"] ELSE c

RECURSIVE Drain(_, _)
Drain(c, written) ==
  IF c.why # "ok" \/ c.queue = <<>> THEN c
  ELSE LET node == Head(c.queue)
           rest == [c EXCEPT !.queue = Tail(@)]
       IN IF node.addr \in c.gone THEN Drain(rest, written)
          ELSE Drain(Bounded(ReactAll(RemoveNode(rest, node), node,
                                      ByName(ForParent(node.node.kind)), written)),
                     written)

\* The removals of the closure are not staged.
UnstagedClosure(seeds) ==
  LET written == {a \in Addrs : staged[a] \notin {Untouched, None}}
  IN [Drain([low |-> lowered, stg |-> staged, queue |-> seeds, gone |-> {},
             why |-> "ok"], written) EXCEPT !.stg = staged]

LowerDeleteClosure(seeds) ==
  LET written == {a \in Addrs : staged[a] \notin {Untouched, None}}
  IN Drain([low |-> lowered, stg |-> staged, queue |-> seeds, gone |-> {},
            why |-> "ok"], written)

-----------------------------------------------------------------------------
(* check_unique and check_references, over the whole lowered batch.        *)

Inserts == {i \in DOMAIN lowered : lowered[i].op = "insert"}
Released == {lowered[i].addr : i \in {j \in DOMAIN lowered :
                                        lowered[j].op \in {"insert", "delete"}}}

\* Only the index is asked: two inserts of one batch are not compared.
UniqueConflictIndexOnly ==
  \E i \in Inserts, x \in ixs :
    LET n == lowered[i].node
        v == FieldOf(n, x.field)
    IN /\ x.unique /\ x.kind = n.kind
       /\ \E a \in Addrs \ Released :
            nodes[a] # None /\ nodes[a].kind = n.kind /\ FieldOf(nodes[a], x.field) = v

\* Two inserts of the batch with one value, or another node holding it that
\* the batch neither removes nor rewrites.
UniqueConflict ==
  \E i \in Inserts, x \in ixs :
    LET n == lowered[i].node
        v == FieldOf(n, x.field)
    IN /\ x.unique /\ x.kind = n.kind
       /\ \/ \E j \in Inserts : /\ j < i /\ lowered[j].node.kind = n.kind
                                /\ FieldOf(lowered[j].node, x.field) = v
          \/ \E a \in Addrs \ Released :
               /\ nodes[a] # None /\ nodes[a].kind = n.kind
               /\ FieldOf(nodes[a], x.field) = v

\* The net effect of the batch: what it leaves present and what it removes.
NodeWrites(a) == {i \in DOMAIN lowered : /\ lowered[i].op \in {"insert", "delete"}
                                         /\ lowered[i].addr = a}
LastOf(a) == {i \in NodeWrites(a) : \A j \in NodeWrites(a) : j <= i}
Inserted == {a \in Addrs : \E i \in LastOf(a) : lowered[i].op = "insert"}
Deleted == {a \in Addrs : \E i \in LastOf(a) : lowered[i].op = "delete"}
InsertedNode(a) == lowered[CHOOSE i \in LastOf(a) : TRUE].node

\* resolves_committed: the committed parents minus the ones being removed.
ResolvesCommitted(d, key) ==
  \E a \in Addrs \ Deleted : /\ nodes[a] # None /\ nodes[a].kind = d.parent
                             /\ ReferencedKey(a, nodes[a], d) = key

DanglingInsert ==
  \E a \in Inserted : LET n == InsertedNode(a) IN
    \E d \in ForChild(n.kind) :
      /\ ReferencingKey(n) # None
      /\ ~\E p \in Inserted : /\ InsertedNode(p).kind = d.parent
                              /\ ReferencedKey(p, InsertedNode(p), d) = ReferencingKey(n)
      /\ ~(ResolvesCommitted(d, ReferencingKey(n)))

-----------------------------------------------------------------------------
(* Applying the mutations: apply_operation, on nodes and edges.            *)

ApplyTo(ns, m) ==
  IF m.op \in {"insert", "delete"} THEN [ns EXCEPT ![m.addr] = m.node] ELSE ns
RECURSIVE ApplyAll(_, _)
ApplyAll(ns, ms) == IF ms = <<>> THEN ns ELSE ApplyAll(ApplyTo(ns, Head(ms)), Tail(ms))
Overlay == [a \in Addrs |-> StagedNode(staged, a)]
EdgesAfter == [e \in EdgeIds |-> StagedEdge(e)]

Init ==
  /\ nodes = [a \in Addrs |-> None] /\ edges = [e \in EdgeIds |-> None] /\ refs = {} /\ ixs = {}
  /\ staged = Clean /\ stagedEdges = CleanEdges
  /\ lowered = <<>> /\ size = 0 /\ refused = None

\* A new batch begins where the last one ended.
EndBatch(why) ==
  /\ staged' = Clean /\ stagedEdges' = CleanEdges /\ lowered' = <<>> /\ size' = 0
  /\ refused' = why

Refusal(op, why) ==
  [op |-> op, why |-> why, net |-> IF why = "unique" THEN Overlay ELSE nodes]
Fail(op, why) == EndBatch(Refusal(op, why)) /\ UNCHANGED <<nodes, edges, refs, ixs>>
Stage(low, stg) ==
  /\ lowered' = low /\ staged' = stg /\ refused' = None
  /\ UNCHANGED <<nodes, edges, refs, ixs, stagedEdges>>
StageClosure(c, op) ==
  IF c.why = "ok" THEN size' = size + 1 /\ Stage(c.low, c.stg)
  ELSE Fail(op, c.why)

\* Where Rewrites is FALSE, clients leave a live node's kind and val alone.
Keeps(old, n) == IF old = None THEN TRUE ELSE old.kind = n.kind /\ old.val = n.val

\* The committed node is archived, not the one the batch staged over it.
InsertNodeArchivingCommitted(a, n) ==
  LET old == nodes[a]
  IN /\ size < MaxBatch
     /\ ~Rewrites => Keeps(StagedNode(staged, a), n) /\ Keeps(nodes[a], n)
     /\ IF old # None /\ old.own # n.own THEN Fail("insert", "owner")
        ELSE /\ size' = size + 1
             /\ Stage(lowered \o (IF old = None THEN <<>> ELSE <<Archive(a, old)>>)
                              \o <<Insert(a, n)>>,
                      [staged EXCEPT ![a] = n])

InsertNode(a, n) ==
  LET old == StagedNode(staged, a)
  IN /\ size < MaxBatch
     /\ ~Rewrites => Keeps(old, n) /\ Keeps(nodes[a], n)
     /\ IF old # None /\ old.own # n.own THEN Fail("insert", "owner")
        ELSE /\ size' = size + 1
             /\ Stage(lowered \o (IF old = None THEN <<>> ELSE <<Archive(a, old)>>)
                              \o <<Insert(a, n)>>,
                      [staged EXCEPT ![a] = n])

DeleteNode(a) ==
  LET old == StagedNode(staged, a)
  IN /\ size < MaxBatch
     /\ IF staged[a] = None THEN size' = size + 1 /\ Stage(lowered, staged)
        ELSE IF old = None THEN Fail("delete", "missing")
        ELSE StageClosure(LowerDeleteClosure(<<Node(a, old)>>), "delete")

\* lower_selection: clear_kind, or delete_where with a predicate on val.
Selection(k, where, caller, admin) ==
  Ascending({a \in Addrs : LET n == StagedNode(staged, a)
                           IN /\ n # None /\ n.kind = k
                              /\ admin \/ n.own = caller
                              /\ where = Untouched \/ n.val = where})
DeleteWhere(k, where, caller, admin) ==
  /\ size < MaxBatch
  /\ LET sel == Selection(k, where, caller, admin)
     IN StageClosure(LowerDeleteClosure(
          [i \in DOMAIN sel |-> Node(sel[i], StagedNode(staged, sel[i]))]), "delete_where")

\* set_if: the condition on val, and the merge of a new val or ref.
SetIf(a, expect, field, new, caller, admin) ==
  LET old == StagedNode(staged, a)
      holds == old.val = expect
      next == IF field = "val" THEN [old EXCEPT !.val = new] ELSE [old EXCEPT !.ref = new]
  IN /\ size < MaxBatch
     /\ (~Rewrites /\ old # None) => Keeps(old, next)
     /\ IF old = None THEN Fail("set_if", "precondition")
        ELSE IF ~(admin \/ old.own = caller) THEN Fail("set_if", "owner")
        ELSE IF ~holds THEN Fail("set_if", "precondition")
        ELSE /\ size' = size + 1
             /\ Stage(lowered \o <<Archive(a, old), Insert(a, next)>>,
                      [staged EXCEPT ![a] = next])

\* The endpoints are looked up among the committed nodes.
AddEdgeToCommitted(e, caller) ==
  /\ size < MaxBatch
  /\ IF nodes[e[1]] = None \/ nodes[e[2]] = None
     THEN Fail("insert_edge", "endpoint")
     ELSE /\ size' = size + 1 /\ lowered' = Append(lowered, InsertEdge(e))
          /\ stagedEdges' = [stagedEdges EXCEPT ![e] = caller] /\ refused' = None
          /\ UNCHANGED <<nodes, edges, refs, ixs, staged>>

AddEdge(e, caller) ==
  /\ size < MaxBatch
  /\ IF StagedNode(staged, e[1]) = None \/ StagedNode(staged, e[2]) = None
     THEN Fail("insert_edge", "endpoint")
     ELSE /\ size' = size + 1 /\ lowered' = Append(lowered, InsertEdge(e))
          /\ stagedEdges' = [stagedEdges EXCEPT ![e] = caller] /\ refused' = None
          /\ UNCHANGED <<nodes, edges, refs, ixs, staged>>

CutEdge(e, caller, admin) ==
  /\ size < MaxBatch
  /\ IF stagedEdges[e] = None THEN size' = size + 1 /\ Stage(lowered, staged)
     ELSE IF StagedEdge(e) = None THEN Fail("delete_edge", "missing")
     ELSE IF ~(admin \/ StagedEdge(e) = caller) THEN Fail("delete_edge", "owner")
     ELSE /\ size' = size + 1 /\ lowered' = Append(lowered, DeleteEdge(e))
          /\ stagedEdges' = [stagedEdges EXCEPT ![e] = None] /\ refused' = None
          /\ UNCHANGED <<nodes, edges, refs, ixs, staged>>

\* The rest of execute_transaction: the bound, the two checks, the commit.
Commit ==
  /\ size > 0
  /\ IF Len(lowered) > MaxOps THEN Fail("commit", "bound")
     ELSE IF UniqueConflict THEN Fail("commit", "unique")
     ELSE IF DanglingInsert THEN Fail("commit", "reference")
     ELSE /\ nodes' = ApplyAll(nodes, lowered) /\ edges' = EdgesAfter
          /\ EndBatch(None) /\ UNCHANGED <<refs, ixs>>

-----------------------------------------------------------------------------
(* Declarations: mutations of their own, outside any batch.                *)

Between == size = 0
UnchangedByDeclaration ==
  UNCHANGED <<nodes, edges, staged, stagedEdges, lowered, size, refused>>

\* check_backfill_admissible: no two nodes share a value.
BackfillAdmissible(x) ==
  \A a, b \in Addrs :
    (/\ a # b /\ nodes[a] # None /\ nodes[b] # None
     /\ nodes[a].kind = x.kind /\ nodes[b].kind = x.kind)
    => FieldOf(nodes[a], x.field) # FieldOf(nodes[b], x.field)

CreateIndex(x) ==
  /\ Between /\ ~HasIndex(x.kind, x.field)
  /\ x.unique => BackfillAdmissible(x)
  /\ ixs' = ixs \cup {x}
  /\ UnchangedByDeclaration /\ UNCHANGED refs

DependsOn(d, x) == \/ d.kind = x.kind /\ x.field = "ref"
                   \/ d.by = "val" /\ d.parent = x.kind /\ x.field = "val"
\* An index a reference resolves through is dropped.
DropIndexUnchecked(x) ==
  /\ Between /\ x \in ixs /\ ixs' = ixs \ {x}
  /\ UnchangedByDeclaration /\ UNCHANGED refs

DropIndex(x) ==
  /\ Between /\ x \in ixs /\ ~\E d \in refs : DependsOn(d, x)
  /\ ixs' = ixs \ {x}
  /\ UnchangedByDeclaration /\ UNCHANGED refs

Satisfied(d) ==
  \A a \in Addrs :
    (nodes[a] # None /\ nodes[a].kind = d.kind /\ ReferencingKey(nodes[a]) # None)
      => ResolvesLive(d, ReferencingKey(nodes[a]))
CreateReference(d) ==
  /\ Between /\ d \notin refs /\ ~\E e \in refs : e.name = d.name
  /\ HasIndex(d.kind, "ref") /\ (d.by = "val" => HasUnique(d.parent, "val"))
  /\ Satisfied(d)
  /\ refs' = refs \cup {d}
  /\ UnchangedByDeclaration /\ UNCHANGED ixs

DropReference(d) ==
  /\ Between /\ d \in refs /\ refs' = refs \ {d}
  /\ UnchangedByDeclaration /\ UNCHANGED ixs

Declare ==
  \/ \E x \in IndexDefs : CreateIndex(x) \/ DropIndex(x)
  \/ \E d \in Defs : CreateReference(d) \/ DropReference(d)

Next ==
  \/ \E a \in Addrs, n \in Shapes : InsertNode(a, n)
  \/ \E a \in Addrs : DeleteNode(a)
  \/ \E k \in Kinds, o \in Callers, adm \in BOOLEAN, w \in {Untouched} \cup Vals :
       DeleteWhere(k, w, o, adm)
  \/ \E a \in Addrs, v \in Vals, o \in Callers, adm \in BOOLEAN :
       \/ \E w \in Vals : SetIf(a, v, "val", w, o, adm)
       \/ SetIf(a, v, "ref", None, o, adm)
  \/ \E e \in EdgeIds, o \in Callers : AddEdge(e, o) \/ \E adm \in BOOLEAN : CutEdge(e, o, adm)
  \/ Commit
  \/ Declare

Spec == Init /\ [][Next]_vars

-----------------------------------------------------------------------------
(* Properties.                                                             *)

TypeOK ==
  /\ nodes \in [Addrs -> {None} \cup [kind : Kinds, own : Callers, val : Vals,
                  ref : {None} \cup {s.ref : s \in Shapes}]]
  /\ edges \in [EdgeIds -> {None} \cup Callers] /\ refs \subseteq Defs /\ ixs \subseteq IndexDefs
  /\ size \in 0..MaxBatch

\* Whatever batches are lowered and committed, every reference a committed
\* node holds names a live node of the referenced kind: no cascade, set_null,
\* bulk delete or insert leaves one dangling (lower_delete_closure,
\* check_references), and none is accepted over data that breaks it
\* (check_reference_satisfied).
ReferencesHold ==
  \A d \in refs, a \in Addrs :
    (nodes[a] # None /\ nodes[a].kind = d.kind /\ ReferencingKey(nodes[a]) # None)
      => ResolvesIn(nodes, d, ReferencingKey(nodes[a]))

\* No two committed nodes of a kind share the value of a unique index, however
\* batches move, free and claim values (check_unique, create_index).
UniqueHolds ==
  \A x \in ixs : x.unique =>
    \A a, b \in Addrs :
      (/\ a # b /\ nodes[a] # None /\ nodes[b] # None
       /\ nodes[a].kind = x.kind /\ nodes[b].kind = x.kind)
      => FieldOf(nodes[a], x.field) # FieldOf(nodes[b], x.field)

\* A reference stays enforceable: the indexes it finds children and parents
\* through exist as long as it is declared (drop_index, create_reference).
ReferencesEnforceable ==
  \A d \in refs : HasIndex(d.kind, "ref") /\ (d.by = "val" => HasUnique(d.parent, "val"))

\* The view each operation is judged against is the state the mutations will
\* produce: applying what is lowered so far gives the overlay
\* (lower_transaction: "each operation is judged against the state it will
\* actually meet when applied").
StagedIsWhatApplies == ApplyAll(nodes, lowered) = Overlay

\* Each archive holds the state that the mutation after it supersedes
\* (delete: the final state is archived; lower_transaction: "An Archive
\* immediately precedes the Insert that supersedes it").
ArchivesWhatIsSuperseded ==
  \A i \in DOMAIN lowered :
    lowered[i].op = "archive" =>
      ApplyAll(nodes, SubSeq(lowered, 1, i - 1))[lowered[i].addr] = lowered[i].node

\* The apply pass meets what lowering promised it: each edge is inserted
\* between nodes that are live at that point of the frame, each delete finds
\* its node, each edge delete its edge ("That ordering is what makes the apply
\* pass infallible, and it has to be").
EdgesAt(i) ==
  {e \in EdgeIds : LET w == {j \in 1..(i - 1) : /\ lowered[j].op \in {"insert_edge", "delete_edge"}
                                               /\ lowered[j].addr = e}
                   IN IF w = {} THEN edges[e] # None
                      ELSE lowered[CHOOSE j \in w : \A k \in w : k <= j].op = "insert_edge"}
ApplyMeetsWhatWasLowered ==
  \A i \in DOMAIN lowered :
    LET m == lowered[i]
        before == ApplyAll(nodes, SubSeq(lowered, 1, i - 1))
    IN CASE m.op = "insert_edge" -> before[m.addr[1]] # None /\ before[m.addr[2]] # None
         [] m.op = "delete" -> before[m.addr] # None
         [] m.op = "delete_edge" -> m.addr \in EdgesAt(i)
         [] OTHER -> TRUE

\* A batch refused for uniqueness really would have left two nodes with one
\* value ("A value freed earlier in the same batch is not a conflict").
UniqueRefusalsJustified ==
  (refused # None /\ refused.why = "unique") =>
    \E x \in ixs : /\ x.unique
                   /\ \E a, b \in Addrs :
                        /\ a # b /\ refused.net[a] # None /\ refused.net[b] # None
                        /\ refused.net[a].kind = x.kind /\ refused.net[b].kind = x.kind
                        /\ FieldOf(refused.net[a], x.field) = FieldOf(refused.net[b], x.field)

\* A bulk delete is never refused by a reference ("The one way a delete_where
\* can abort the batch" is its predicate).
BulkDeletesNeverRestricted ==
  refused = None \/ refused.op # "delete_where" \/ refused.why # "restrict"

=============================================================================
