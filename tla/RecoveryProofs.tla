--------------------------- MODULE RecoveryProofs ---------------------------
(***************************************************************************)
(* Recovery is exact, for any nodes, any log and any checkpoint cut short. *)
(*                                                                         *)
(* Replay starts from trees of different ages: some the checkpoint         *)
(* committed before the crash, some it did not reach.  The invariant, RInv,*)
(* says how old an entry may be.  Every entry of the working trees is the  *)
(* one the trees of an engine that never crashed had after some number of  *)
(* operations, pos or more, and every entry of the committed trees after   *)
(* ckpt or more (Seen).  The number differs from entry to entry.  Replaying*)
(* an operation moves each entry's number up to pos + 1 or leaves it where *)
(* it was above; once every operation is replayed only the last number is  *)
(* left, and the entry is the one expected.                                *)
(*                                                                         *)
(* The kind, owner and data trees are held to less, as they may keep the   *)
(* entry of a value since replaced: a node no remaining operation touches  *)
(* has its entry.                                                          *)
(***************************************************************************)
EXTENDS IndexRecovery, TLAPS

\* The trees of a running engine or of a restarted one.
TreesT ==
  [primary : [Addresses -> Contents \cup {NoNode}],
   kind : SUBSET (Kinds \X Addresses), owner : SUBSET (Owners \X Addresses),
   edge_out : SUBSET (Addresses \X Addresses), edge_in : SUBSET (Addresses \X Addresses),
   history : SUBSET (Addresses \X Nat \X Contents),
   data : SUBSET (Values \X Addresses), declared : BOOLEAN]

Live(n) == n # NoNode

\* Every entry of the kind, owner and data trees is that of a node.
NothingStale(t) ==
  /\ \A e \in t.kind : \E a \in Addresses :
       Live(t.primary[a]) /\ e = <<t.primary[a].kind, a>>
  /\ \A e \in t.owner : \E a \in Addresses :
       Live(t.primary[a]) /\ e = <<t.primary[a].owner, a>>
  /\ \A e \in t.data : \E a \in Addresses :
       /\ t.declared /\ Live(t.primary[a]) /\ t.primary[a].kind = IndexedKind
       /\ e = <<t.primary[a].value, a>>

\* The positions of I from the state after i operations on.
From(I, i) == i + 1 .. Len(I)

Final(I) == I[Len(I)]

\* Nothing happens to the node at a after the first i operations.
Keeps(I, i, a) == \A q \in From(I, i) : I[q].primary[a] = Final(I).primary[a]

\* The index is declared from then on.
Declared(I, i) == \A q \in From(I, i) : I[q].declared

\* Every node of T, edge of T, history entry of T is the one of some state from the
\* one after i operations on.
PrimarySeen(T, I, i) ==
  \A a \in Addresses : \E q \in From(I, i) : T[a] = I[q].primary[a]

OutSeen(T, I, i) ==
  \A f, o \in Addresses : \E q \in From(I, i) : <<f, o>> \in T <=> <<f, o>> \in I[q].edge_out

InSeen(T, I, i) ==
  \A f, o \in Addresses : \E q \in From(I, i) : <<o, f>> \in T <=> <<o, f>> \in I[q].edge_in

HistorySeen(T, I, i) ==
  \A a \in Addresses, v \in Nat : \E q \in From(I, i) :
     \A n \in Contents : <<a, v, n>> \in T <=> <<a, v, n>> \in I[q].history

\* A node the operations after the first i leave alone has its entry.
KindSeen(T, I, i) ==
  \A a \in Addresses :
     LET n == Final(I).primary[a] IN
     Keeps(I, i, a) /\ Live(n) => <<n.kind, a>> \in T

OwnerSeen(T, I, i) ==
  \A a \in Addresses :
     LET n == Final(I).primary[a] IN
     Keeps(I, i, a) /\ Live(n) => <<n.owner, a>> \in T

DataSeen(T, I, i) ==
  \A a \in Addresses :
     LET n == Final(I).primary[a] IN
     Keeps(I, i, a) /\ Declared(I, i) /\ Live(n) /\ n.kind = IndexedKind => <<n.value, a>> \in T

DeclaredSeen(b, I, i) == \E q \in From(I, i) : b = I[q].declared

\* Each entry of the trees t is as old as some state after i operations or more.
Seen(t, I, i) ==
  /\ PrimarySeen(t.primary, I, i) /\ KindSeen(t.kind, I, i)
  /\ OwnerSeen(t.owner, I, i) /\ OutSeen(t.edge_out, I, i)
  /\ InSeen(t.edge_in, I, i) /\ HistorySeen(t.history, I, i)
  /\ DataSeen(t.data, I, i) /\ DeclaredSeen(t.declared, I, i)

\* Every variable has its type, and a checkpoint runs only when every operation
\* is applied.
RShape ==
  /\ log \in Seq(Operation)
  /\ ckpt \in Nat /\ pos \in Nat /\ ckpt <= pos /\ pos <= Len(log)
  /\ mem \in TreesT /\ disk \in TreesT /\ mem.declared = disk.declared
  /\ flushed \in 0 .. 7 /\ pc \in {"ready", "recover", "flush"}
  /\ pc = "flush" => pos = Len(log)

\* ideal holds the trees after each of the first operations of the log, at least
\* the applied ones, and none of its entries is stale.
RIdeal ==
  /\ ideal \in Seq(TreesT)
  /\ pos < Len(ideal) /\ Len(ideal) <= Len(log) + 1
  /\ \A q \in 1 .. Len(ideal) : NothingStale(ideal[q])
  /\ \A q \in 1 .. Len(ideal) - 1 : ideal[q + 1] = apply_operation(ideal[q], log[q])

\* The trees the running checkpoint has committed are the working ones.
RFlushed == pc = "flush" => \A k \in 1 .. flushed : disk[Trees[k]] = mem[Trees[k]]

\* The inductive invariant: the working trees have seen the applied operations,
\* the committed ones those the checkpoint covers.
RInv ==
  /\ RShape /\ RIdeal /\ RFlushed
  /\ Seen(mem, ideal, pos) /\ Seen(disk, ideal, ckpt)

-----------------------------------------------------------------------------
(* One operation on the trees.                                              *)

\* The seven operations and what each carries.
LEMMA OperationKinds ==
  ASSUME NEW r \in Operation
  PROVE  \/ r.op = "Insert" /\ r.address \in Addresses /\ r.node \in Contents
         \/ r.op = "Delete" /\ r.address \in Addresses
         \/ /\ r.op = "Archive" /\ r.address \in Addresses /\ r.version \in Nat
            /\ r.node \in Contents
         \/ r.op = "InsertEdge" /\ r.from \in Addresses /\ r.to \in Addresses
         \/ r.op = "DeleteEdge" /\ r.from \in Addresses /\ r.to \in Addresses
         \/ r.op = "CreateIndex"
         \/ r.op = "DropIndex"
BY DEF Operation

\* What an Insert does to each tree.
LEMMA InsertFields ==
  ASSUME NEW t \in TreesT, NEW r, r.op = "Insert",
         r.address \in Addresses, r.node \in Contents
  PROVE  LET u == apply_operation(t, r) IN
         /\ u.primary = [t.primary EXCEPT ![r.address] = r.node]
         /\ u.kind = (t.kind \ Kind(t.primary[r.address], r.address)) \cup Kind(r.node, r.address)
         /\ u.owner = (t.owner \ Owner(t.primary[r.address], r.address)) \cup Owner(r.node, r.address)
         /\ u.data = (t.data \ data_keys(t, t.primary[r.address], r.address)) \cup data_keys(t, r.node, r.address)
         /\ u.edge_out = t.edge_out /\ u.edge_in = t.edge_in
         /\ u.history = t.history /\ u.declared = t.declared
         /\ DOMAIN u = DOMAIN t
<1> DEFINE u == apply_operation(t, r)
<1>1. u = applyInsert(t, r.address, r.node)
  BY DEF apply_operation
<1> QED  BY <1>1 DEF applyInsert, TreesT

\* What a Delete does to each tree.
LEMMA DeleteFields ==
  ASSUME NEW t \in TreesT, NEW r, r.op = "Delete",
         r.address \in Addresses
  PROVE  LET u == apply_operation(t, r) IN
         /\ u.primary = [t.primary EXCEPT ![r.address] = NoNode]
         /\ u.kind = t.kind \ Kind(t.primary[r.address], r.address)
         /\ u.owner = t.owner \ Owner(t.primary[r.address], r.address)
         /\ u.data = t.data \ data_keys(t, t.primary[r.address], r.address)
         /\ u.edge_out = t.edge_out /\ u.edge_in = t.edge_in
         /\ u.history = t.history /\ u.declared = t.declared
         /\ DOMAIN u = DOMAIN t
<1> DEFINE u == apply_operation(t, r)
<1>1. u = applyDelete(t, r.address)
  BY DEF apply_operation
<1> QED  BY <1>1 DEF applyDelete, TreesT

\* An Archive touches the history alone.
LEMMA ArchiveFields ==
  ASSUME NEW t \in TreesT, NEW r, r.op = "Archive",
         r.address \in Addresses, r.version \in Nat, r.node \in Contents
  PROVE  LET u == apply_operation(t, r) IN
         /\ u.history = {h \in t.history : h[1] # r.address \/ h[2] # r.version} \cup {<<r.address, r.version, r.node>>}
         /\ u.primary = t.primary /\ u.kind = t.kind /\ u.owner = t.owner
         /\ u.edge_out = t.edge_out /\ u.edge_in = t.edge_in
         /\ u.data = t.data /\ u.declared = t.declared
         /\ DOMAIN u = DOMAIN t
<1> DEFINE u == apply_operation(t, r)
<1>1. u = applyArchive(t, r.address, r.version, r.node)
  BY DEF apply_operation
<1> QED  BY <1>1 DEF applyArchive, TreesT

\* The two edge operations change both directions of one edge.
LEMMA EdgeFields ==
  ASSUME NEW t \in TreesT, NEW r, r.op \in {"InsertEdge", "DeleteEdge"},
         r.from \in Addresses, r.to \in Addresses
  PROVE  LET u == apply_operation(t, r) IN
         /\ r.op = "InsertEdge" => u.edge_out = t.edge_out \cup {<<r.from, r.to>>}
         /\ r.op = "DeleteEdge" => u.edge_out = t.edge_out \ {<<r.from, r.to>>}
         /\ r.op = "InsertEdge" => u.edge_in = t.edge_in \cup {<<r.to, r.from>>}
         /\ r.op = "DeleteEdge" => u.edge_in = t.edge_in \ {<<r.to, r.from>>}
         /\ u.primary = t.primary /\ u.kind = t.kind /\ u.owner = t.owner
         /\ u.history = t.history /\ u.data = t.data /\ u.declared = t.declared
         /\ DOMAIN u = DOMAIN t
<1> DEFINE u == apply_operation(t, r)
<1>1. CASE r.op = "InsertEdge"
  <2>1. u = applyInsertEdge(t, r.from, r.to)
    BY <1>1 DEF apply_operation
  <2> QED  BY <1>1, <2>1 DEF applyInsertEdge, TreesT
<1>2. CASE r.op = "DeleteEdge"
  <2>1. u = applyDeleteEdge(t, r.from, r.to)
    BY <1>2 DEF apply_operation
  <2> QED  BY <1>2, <2>1 DEF applyDeleteEdge, TreesT
<1> QED  BY <1>1, <1>2

\* CreateIndex adds to the data tree the node each entry of the kind tree leads to.
LEMMA CreateFields ==
  ASSUME NEW t \in TreesT, NEW r, r.op = "CreateIndex"
  PROVE  LET u == apply_operation(t, r) IN
         /\ u.declared = TRUE
         /\ u.data = t.data \cup {<<t.primary[a].value, a>> :
                                    a \in {b \in Addresses : /\ <<IndexedKind, b>> \in t.kind
                                                             /\ t.primary[b] # NoNode}}
         /\ u.primary = t.primary /\ u.kind = t.kind /\ u.owner = t.owner
         /\ u.edge_out = t.edge_out /\ u.edge_in = t.edge_in /\ u.history = t.history
         /\ DOMAIN u = DOMAIN t
<1> DEFINE u == apply_operation(t, r)
<1>1. u = applyCreateIndex(t)
  BY DEF apply_operation
<1> QED  BY <1>1 DEF applyCreateIndex, TreesT

\* DropIndex empties the data tree and touches no other.
LEMMA DropFields ==
  ASSUME NEW t \in TreesT, NEW r, r.op = "DropIndex"
  PROVE  LET u == apply_operation(t, r) IN
         /\ u.declared = FALSE /\ u.data = {}
         /\ u.primary = t.primary /\ u.kind = t.kind /\ u.owner = t.owner
         /\ u.edge_out = t.edge_out /\ u.edge_in = t.edge_in /\ u.history = t.history
         /\ DOMAIN u = DOMAIN t
<1> DEFINE u == apply_operation(t, r)
<1>1. u = applyDropIndex(t)
  BY DEF apply_operation
<1> QED  BY <1>1 DEF applyDropIndex, TreesT

\* After a DropIndex the index is not declared.
LEMMA DropDeclared ==
  \A t \in TreesT : \A r : r.op = "DropIndex" => apply_operation(t, r).declared = FALSE
BY DropFields, Zenon

\* apply_operation keeps the trees well-formed.
LEMMA ApplyType ==
  ASSUME NEW t \in TreesT, NEW r \in Operation
  PROVE  apply_operation(t, r) \in TreesT
<1> DEFINE u == apply_operation(t, r)
<1>1. CASE r.op = "Insert" /\ r.address \in Addresses /\ r.node \in Contents
  <2> DEFINE a == r.address  n == r.node
  <2>1. u = applyInsert(t, a, n)
    BY <1>1 DEF apply_operation
  <2>2. Kind(n, a) \in SUBSET (Kinds \X Addresses)
    BY <1>1 DEF Kind, Kinds
  <2>3. Owner(n, a) \in SUBSET (Owners \X Addresses)
    BY <1>1 DEF Owner, Owners
  <2>4. data_keys(t, n, a) \in SUBSET (Values \X Addresses)
    BY <1>1 DEF data_keys, Values
  <2>5. /\ (t.kind \ Kind(t.primary[a], a)) \cup Kind(n, a)
             \in SUBSET (Kinds \X Addresses)
        /\ (t.owner \ Owner(t.primary[a], a)) \cup Owner(n, a)
             \in SUBSET (Owners \X Addresses)
        /\ (t.data \ data_keys(t, t.primary[a], a)) \cup data_keys(t, n, a)
             \in SUBSET (Values \X Addresses)
    BY <2>2, <2>3, <2>4 DEF TreesT
  <2>6. [t.primary EXCEPT ![a] = n] \in [Addresses -> Contents \cup {NoNode}]
    BY <1>1 DEF TreesT
  <2> QED  BY <2>1, <2>5, <2>6, Zenon DEF applyInsert, TreesT
<1>2. CASE r.op = "Delete" /\ r.address \in Addresses
  <2> DEFINE a == r.address
  <2>1. u = applyDelete(t, a)
    BY <1>2 DEF apply_operation
  <2>5. /\ t.kind \ Kind(t.primary[a], a) \in SUBSET (Kinds \X Addresses)
        /\ t.owner \ Owner(t.primary[a], a) \in SUBSET (Owners \X Addresses)
        /\ t.data \ data_keys(t, t.primary[a], a) \in SUBSET (Values \X Addresses)
    BY DEF TreesT
  <2>6. [t.primary EXCEPT ![a] = NoNode] \in [Addresses -> Contents \cup {NoNode}]
    BY <1>2 DEF TreesT
  <2> QED  BY <2>1, <2>5, <2>6, Zenon DEF applyDelete, TreesT
<1>3. CASE /\ r.op = "Archive" /\ r.address \in Addresses /\ r.version \in Nat
           /\ r.node \in Contents
  <2> DEFINE H == {h \in t.history : h[1] # r.address \/ h[2] # r.version}
                    \cup {<<r.address, r.version, r.node>>}
  <2>1. u = applyArchive(t, r.address, r.version, r.node)
    BY <1>3 DEF apply_operation
  <2>2. H \in SUBSET (Addresses \X Nat \X Contents)
    BY <1>3 DEF TreesT
  <2>3. u = [t EXCEPT !.history = H]
    BY <2>1 DEF applyArchive
  <2> HIDE DEF H, u
  <2>4. u \in TreesT
    BY <2>2, <2>3 DEF TreesT
  <2> QED  BY <2>4 DEF u
<1>4. CASE r.op = "InsertEdge" /\ r.from \in Addresses /\ r.to \in Addresses
  <2>1. u = applyInsertEdge(t, r.from, r.to)
    BY <1>4 DEF apply_operation
  <2>2. /\ t.edge_out \cup {<<r.from, r.to>>} \in SUBSET (Addresses \X Addresses)
        /\ t.edge_in \cup {<<r.to, r.from>>} \in SUBSET (Addresses \X Addresses)
    BY <1>4 DEF TreesT
  <2> QED  BY <2>1, <2>2, Zenon DEF applyInsertEdge, TreesT
<1>5. CASE r.op = "DeleteEdge" /\ r.from \in Addresses /\ r.to \in Addresses
  <2>1. u = applyDeleteEdge(t, r.from, r.to)
    BY <1>5 DEF apply_operation
  <2>2. /\ t.edge_out \ {<<r.from, r.to>>} \in SUBSET (Addresses \X Addresses)
        /\ t.edge_in \ {<<r.to, r.from>>} \in SUBSET (Addresses \X Addresses)
    BY DEF TreesT
  <2> QED  BY <2>1, <2>2, Zenon DEF applyDeleteEdge, TreesT
<1>6. CASE r.op = "CreateIndex"
  <2> DEFINE B == {<<t.primary[a].value, a>> :
                     a \in {b \in Addresses : /\ <<IndexedKind, b>> \in t.kind
                                              /\ t.primary[b] # NoNode}}
  <2>1. u = applyCreateIndex(t)
    BY <1>6 DEF apply_operation
  <2>2. ASSUME NEW b \in Addresses, t.primary[b] # NoNode
        PROVE  <<t.primary[b].value, b>> \in Values \X Addresses
    <3>1. t.primary[b] \in Contents
      BY <2>2 DEF TreesT
    <3> QED  BY <3>1 DEF Values
  <2>3. t.data \cup B \in SUBSET (Values \X Addresses)
    <3>1. t.data \in SUBSET (Values \X Addresses)
      BY DEF TreesT
    <3>2. B \in SUBSET (Values \X Addresses)
      BY <2>2, Zenon
    <3> HIDE DEF B
    <3> QED  BY <3>1, <3>2, Zenon
  <2>4. u = [[t EXCEPT !.declared = TRUE] EXCEPT !.data = t.data \cup B]
    BY <2>1 DEF applyCreateIndex, TreesT
  <2> HIDE DEF B, u
  <2>5. u \in TreesT
    BY <2>3, <2>4, Zenon DEF TreesT
  <2> QED  BY <2>5 DEF u
<1>7. CASE r.op = "DropIndex"
  <2>1. u = applyDropIndex(t)
    BY <1>7 DEF apply_operation
  <2>2. {} \in SUBSET (Values \X Addresses)
    OBVIOUS
  <2> QED  BY <2>1, <2>2, Zenon DEF applyDropIndex, TreesT
<1> QED  BY <1>1, <1>2, <1>3, <1>4, <1>5, <1>6, <1>7, OperationKinds

-----------------------------------------------------------------------------
(* What an operation does to Seen.                                          *)

\* The states from the next operation on.
LEMMA FromStep ==
  ASSUME NEW I \in Seq(TreesT), NEW i \in Nat, i + 1 < Len(I)
  PROVE  /\ i + 1 \in From(I, i) /\ i + 2 \in From(I, i) /\ i + 2 \in From(I, i + 1)
         /\ \A q \in From(I, i) : q = i + 1 \/ q \in From(I, i + 1)
         /\ From(I, i + 1) \subseteq From(I, i)
         /\ Len(I) \in From(I, i + 1)
         /\ \A q \in From(I, i) : I[q] \in TreesT
BY DEF From

\* A node the operation writes is the one of the next state; one it leaves alone stays
\* a node of some later state.
LEMMA PrimaryStep ==
  ASSUME NEW I \in Seq(TreesT), NEW i \in Nat, i + 1 < Len(I),
         NEW T, NEW U, PrimarySeen(T, I, i),
         \A a \in Addresses :
           \/ U[a] = I[i + 2].primary[a]
           \/ U[a] = T[a] /\ I[i + 2].primary[a] = I[i + 1].primary[a]
  PROVE  PrimarySeen(U, I, i + 1)
<1> SUFFICES ASSUME NEW a \in Addresses
             PROVE  \E q \in From(I, i + 1) : U[a] = I[q].primary[a]
  BY Zenon DEF PrimarySeen
<1>1. PICK q \in From(I, i) : T[a] = I[q].primary[a]
  BY DEF PrimarySeen
<1> QED  BY <1>1, FromStep

\* The same of an outgoing edge.
LEMMA OutStep ==
  ASSUME NEW I \in Seq(TreesT), NEW i \in Nat, i + 1 < Len(I),
         NEW T, NEW U, OutSeen(T, I, i),
         \A f, o \in Addresses :
           \/ <<f, o>> \in U <=> <<f, o>> \in I[i + 2].edge_out
           \/ /\ <<f, o>> \in U <=> <<f, o>> \in T
              /\ <<f, o>> \in I[i + 2].edge_out <=> <<f, o>> \in I[i + 1].edge_out
  PROVE  OutSeen(U, I, i + 1)
BY FromStep, Zenon DEF OutSeen

\* The same of an incoming edge.
LEMMA InStep ==
  ASSUME NEW I \in Seq(TreesT), NEW i \in Nat, i + 1 < Len(I),
         NEW T, NEW U, InSeen(T, I, i),
         \A f, o \in Addresses :
           \/ <<o, f>> \in U <=> <<o, f>> \in I[i + 2].edge_in
           \/ /\ <<o, f>> \in U <=> <<o, f>> \in T
              /\ <<o, f>> \in I[i + 2].edge_in <=> <<o, f>> \in I[i + 1].edge_in
  PROVE  InSeen(U, I, i + 1)
BY FromStep, Zenon DEF InSeen

\* The same of a history entry, whatever node it holds.
LEMMA HistoryStep ==
  ASSUME NEW I \in Seq(TreesT), NEW i \in Nat, i + 1 < Len(I),
         NEW T, NEW U, HistorySeen(T, I, i),
         \A a \in Addresses, v \in Nat :
           \/ \A n \in Contents : <<a, v, n>> \in U <=> <<a, v, n>> \in I[i + 2].history
           \/ \A n \in Contents :
                /\ <<a, v, n>> \in U <=> <<a, v, n>> \in T
                /\ <<a, v, n>> \in I[i + 2].history <=> <<a, v, n>> \in I[i + 1].history
  PROVE  HistorySeen(U, I, i + 1)
BY FromStep, Zenon DEF HistorySeen

\* The same of the declaration of the index.
LEMMA DeclaredStep ==
  ASSUME NEW I \in Seq(TreesT), NEW i \in Nat, i + 1 < Len(I),
         NEW b, NEW c, DeclaredSeen(b, I, i),
         c = I[i + 2].declared \/ (c = b /\ I[i + 2].declared = I[i + 1].declared)
  PROVE  DeclaredSeen(c, I, i + 1)
BY FromStep DEF DeclaredSeen

\* A node untouched after the next operation has its final contents by then.
LEMMA KeepsStep ==
  ASSUME NEW I \in Seq(TreesT), NEW i \in Nat, i + 1 < Len(I), NEW a \in Addresses,
         Keeps(I, i + 1, a)
  PROVE  /\ I[i + 2].primary[a] = Final(I).primary[a]
         /\ I[i + 2].primary[a] = I[i + 1].primary[a] => Keeps(I, i, a)
BY FromStep, Zenon DEF Keeps

\* The operation puts the kind entry of the node it writes, or leaves the node alone and
\* removes no kind entry of it.
LEMMA KindStep ==
  ASSUME NEW I \in Seq(TreesT), NEW i \in Nat, i + 1 < Len(I),
         NEW T, NEW U, KindSeen(T, I, i),
         \A a \in Addresses :
           \/ Live(I[i + 2].primary[a]) => <<I[i + 2].primary[a].kind, a>> \in U
           \/ /\ I[i + 2].primary[a] = I[i + 1].primary[a]
              /\ \A k : <<k, a>> \in T => <<k, a>> \in U
  PROVE  KindSeen(U, I, i + 1)
<1> SUFFICES ASSUME NEW a \in Addresses, Keeps(I, i + 1, a), Live(Final(I).primary[a])
             PROVE  <<Final(I).primary[a].kind, a>> \in U
  BY DEF KindSeen
<1> QED  BY KeepsStep DEF KindSeen

\* The same of the owner entries.
LEMMA OwnerStep ==
  ASSUME NEW I \in Seq(TreesT), NEW i \in Nat, i + 1 < Len(I),
         NEW T, NEW U, OwnerSeen(T, I, i),
         \A a \in Addresses :
           \/ Live(I[i + 2].primary[a]) => <<I[i + 2].primary[a].owner, a>> \in U
           \/ /\ I[i + 2].primary[a] = I[i + 1].primary[a]
              /\ \A k : <<k, a>> \in T => <<k, a>> \in U
  PROVE  OwnerSeen(U, I, i + 1)
<1> SUFFICES ASSUME NEW a \in Addresses, Keeps(I, i + 1, a), Live(Final(I).primary[a])
             PROVE  <<Final(I).primary[a].owner, a>> \in U
  BY DEF OwnerSeen
<1> QED  BY KeepsStep DEF OwnerSeen

\* b is whether the index is declared while the operation is applied.
LEMMA DataStep ==
  ASSUME NEW I \in Seq(TreesT), NEW i \in Nat, i + 1 < Len(I),
         NEW T, NEW U, DataSeen(T, I, i), NEW b, DeclaredSeen(b, I, i),
         I[i + 2].declared = I[i + 1].declared,
         \A a \in Addresses :
           \/ b /\ Live(I[i + 2].primary[a]) /\ I[i + 2].primary[a].kind = IndexedKind
                => <<I[i + 2].primary[a].value, a>> \in U
           \/ /\ I[i + 2].primary[a] = I[i + 1].primary[a]
              /\ \A v : <<v, a>> \in T => <<v, a>> \in U
  PROVE  DataSeen(U, I, i + 1)
<1> SUFFICES ASSUME NEW a \in Addresses, Keeps(I, i + 1, a), Declared(I, i + 1),
                    Live(Final(I).primary[a]), Final(I).primary[a].kind = IndexedKind
             PROVE  <<Final(I).primary[a].value, a>> \in U
  BY DEF DataSeen
<1>1. Declared(I, i)
  BY FromStep DEF Declared
<1>2. b
  BY <1>1 DEF Declared, DeclaredSeen
<1> QED  BY <1>1, <1>2, KeepsStep DEF DataSeen

\* An operation replayed on trees no older than the state before it leaves trees
\* no older than the state after it.
LEMMA SeenApply ==
  ASSUME NEW I \in Seq(TreesT), NEW i \in Nat, i + 1 < Len(I),
         NEW r \in Operation, I[i + 2] = apply_operation(I[i + 1], r),
         NEW t \in TreesT, Seen(t, I, i)
  PROVE  Seen(apply_operation(t, r), I, i + 1)
<1> DEFINE u == apply_operation(t, r)
           x == I[i + 1]
           y == I[i + 2]
<1>0. x \in TreesT /\ y \in TreesT
  OBVIOUS
<1>s. /\ PrimarySeen(t.primary, I, i) /\ KindSeen(t.kind, I, i)
      /\ OwnerSeen(t.owner, I, i) /\ OutSeen(t.edge_out, I, i)
      /\ InSeen(t.edge_in, I, i) /\ HistorySeen(t.history, I, i)
      /\ DataSeen(t.data, I, i) /\ DeclaredSeen(t.declared, I, i)
  BY DEF Seen
<1> SUFFICES /\ PrimarySeen(u.primary, I, i + 1) /\ KindSeen(u.kind, I, i + 1)
             /\ OwnerSeen(u.owner, I, i + 1) /\ OutSeen(u.edge_out, I, i + 1)
             /\ InSeen(u.edge_in, I, i + 1) /\ HistorySeen(u.history, I, i + 1)
             /\ DataSeen(u.data, I, i + 1) /\ DeclaredSeen(u.declared, I, i + 1)
  BY DEF Seen
<1>u. u = apply_operation(t, r) /\ y = apply_operation(x, r)
  OBVIOUS
<1> HIDE DEF u
<1> HIDE DEF x, y
<1>p. (\A b \in Addresses : \/ u.primary[b] = y.primary[b]
                            \/ u.primary[b] = t.primary[b] /\ y.primary[b] = x.primary[b])
        => PrimarySeen(u.primary, I, i + 1)
  BY <1>s, PrimaryStep, Zenon DEF x, y
<1>k. (\A b \in Addresses : \/ Live(y.primary[b]) => <<y.primary[b].kind, b>> \in u.kind
                            \/ /\ y.primary[b] = x.primary[b]
                               /\ \A k : <<k, b>> \in t.kind => <<k, b>> \in u.kind)
        => KindSeen(u.kind, I, i + 1)
  BY <1>s, KindStep, Zenon DEF x, y
<1>o. (\A b \in Addresses : \/ Live(y.primary[b]) => <<y.primary[b].owner, b>> \in u.owner
                            \/ /\ y.primary[b] = x.primary[b]
                               /\ \A k : <<k, b>> \in t.owner => <<k, b>> \in u.owner)
        => OwnerSeen(u.owner, I, i + 1)
  BY <1>s, OwnerStep, Zenon DEF x, y
<1>d. /\ y.declared = x.declared
      /\ \A b \in Addresses :
           \/ t.declared /\ Live(y.primary[b]) /\ y.primary[b].kind = IndexedKind
                => <<y.primary[b].value, b>> \in u.data
           \/ /\ y.primary[b] = x.primary[b]
              /\ \A v : <<v, b>> \in t.data => <<v, b>> \in u.data
      => DataSeen(u.data, I, i + 1)
  <2> DEFINE T == t.data
             U == u.data
             d == t.declared
  <2>1. SUFFICES ASSUME y.declared = x.declared,
                        \A b \in Addresses :
                          \/ d /\ Live(y.primary[b]) /\ y.primary[b].kind = IndexedKind
                               => <<y.primary[b].value, b>> \in U
                          \/ /\ y.primary[b] = x.primary[b]
                             /\ \A v : <<v, b>> \in T => <<v, b>> \in U
                 PROVE  DataSeen(U, I, i + 1)
    OBVIOUS
  <2>2. DataSeen(T, I, i) /\ DeclaredSeen(d, I, i)
    BY <1>s
  <2> HIDE DEF T, U, d
  <2> QED  BY <2>1, <2>2, DataStep DEF x, y
<1>e. ASSUME u.edge_out = t.edge_out, u.edge_in = t.edge_in,
             y.edge_out = x.edge_out, y.edge_in = x.edge_in
      PROVE  OutSeen(u.edge_out, I, i + 1) /\ InSeen(u.edge_in, I, i + 1)
  BY <1>s, <1>e, OutStep, InStep DEF x, y
<1>h. ASSUME u.history = t.history, y.history = x.history
      PROVE  HistorySeen(u.history, I, i + 1)
  BY <1>s, <1>h, HistoryStep DEF x, y
<1>c. ASSUME \/ u.declared = y.declared
             \/ u.declared = t.declared /\ y.declared = x.declared
      PROVE  DeclaredSeen(u.declared, I, i + 1)
  BY <1>s, <1>c, DeclaredStep, Zenon DEF x, y
<1>1. CASE r.op = "Insert" /\ r.address \in Addresses /\ r.node \in Contents
  <2> DEFINE a == r.address  n == r.node
  <2>1. /\ u.primary = [t.primary EXCEPT ![a] = n]
        /\ u.kind = (t.kind \ Kind(t.primary[a], a)) \cup Kind(n, a)
        /\ u.owner = (t.owner \ Owner(t.primary[a], a)) \cup Owner(n, a)
        /\ u.data = (t.data \ data_keys(t, t.primary[a], a)) \cup data_keys(t, n, a)
        /\ u.edge_out = t.edge_out /\ u.edge_in = t.edge_in
        /\ u.history = t.history /\ u.declared = t.declared
    BY <1>1, <1>u, InsertFields, Zenon
  <2>2. /\ y.primary = [x.primary EXCEPT ![a] = n]
        /\ y.kind = (x.kind \ Kind(x.primary[a], a)) \cup Kind(n, a)
        /\ y.owner = (x.owner \ Owner(x.primary[a], a)) \cup Owner(n, a)
        /\ y.data = (x.data \ data_keys(x, x.primary[a], a)) \cup data_keys(x, n, a)
        /\ y.edge_out = x.edge_out /\ y.edge_in = x.edge_in
        /\ y.history = x.history /\ y.declared = x.declared
    <3>1. x \in TreesT /\ y = apply_operation(x, r)
      BY <1>0, <1>u
    <3> QED  BY <1>1, <3>1, InsertFields, Zenon
  <2>3. \A b \in Addresses : b # a => u.primary[b] = t.primary[b] /\ y.primary[b] = x.primary[b]
    BY <2>1, <2>2, <1>0 DEF TreesT
  <2>4. u.primary[a] = n /\ y.primary[a] = n
    BY <1>1, <2>1, <2>2, <1>0 DEF TreesT
  <2>5. PrimarySeen(u.primary, I, i + 1)
    BY <2>3, <2>4, <1>p, Zenon
  <2>6. \A b \in Addresses : \A k : b # a /\ <<k, b>> \in t.kind => <<k, b>> \in u.kind
    BY <2>1 DEF Kind
  <2>7. <<n.kind, a>> \in u.kind \/ ~Live(n)
    BY <2>1 DEF Kind, Live
  <2>8. KindSeen(u.kind, I, i + 1)
    BY <2>3, <2>4, <2>6, <2>7, <1>k, Zenon
  <2>9. \A b \in Addresses : \A k : b # a /\ <<k, b>> \in t.owner => <<k, b>> \in u.owner
    BY <2>1 DEF Owner
  <2>10. <<n.owner, a>> \in u.owner \/ ~Live(n)
    BY <2>1 DEF Owner, Live
  <2>11. OwnerSeen(u.owner, I, i + 1)
    BY <2>3, <2>4, <2>9, <2>10, <1>o, Zenon
  <2>12. \A b \in Addresses : \A k : b # a /\ <<k, b>> \in t.data => <<k, b>> \in u.data
    BY <2>1 DEF data_keys
  <2>13. t.declared /\ Live(n) /\ n.kind = IndexedKind => <<n.value, a>> \in u.data
    BY <2>1 DEF data_keys, Live
  <2>14. DataSeen(u.data, I, i + 1)
    BY <2>2, <1>d, <2>3, <2>4, <2>12, <2>13, Zenon
  <2> QED  BY <2>1, <2>2, <2>5, <2>8, <2>11, <2>14, <1>e, <1>h, <1>c
<1>2. CASE r.op = "Delete" /\ r.address \in Addresses
  <2> DEFINE a == r.address
  <2>1. /\ u.primary = [t.primary EXCEPT ![a] = NoNode]
        /\ u.kind = t.kind \ Kind(t.primary[a], a)
        /\ u.owner = t.owner \ Owner(t.primary[a], a)
        /\ u.data = t.data \ data_keys(t, t.primary[a], a)
        /\ u.edge_out = t.edge_out /\ u.edge_in = t.edge_in
        /\ u.history = t.history /\ u.declared = t.declared
    BY <1>2, <1>u, DeleteFields, Zenon
  <2>2. /\ y.primary = [x.primary EXCEPT ![a] = NoNode]
        /\ y.edge_out = x.edge_out /\ y.edge_in = x.edge_in
        /\ y.history = x.history /\ y.declared = x.declared
    <3>1. x \in TreesT /\ y = apply_operation(x, r)
      BY <1>0, <1>u
    <3> QED  BY <1>2, <3>1, DeleteFields, Zenon
  <2>3. \A b \in Addresses : b # a => u.primary[b] = t.primary[b] /\ y.primary[b] = x.primary[b]
    BY <2>1, <2>2, <1>0 DEF TreesT
  <2>4. u.primary[a] = NoNode /\ y.primary[a] = NoNode
    BY <1>2, <2>1, <2>2, <1>0 DEF TreesT
  <2>5. PrimarySeen(u.primary, I, i + 1)
    BY <2>3, <2>4, <1>p, Zenon
  <2>6. \A b \in Addresses : \A k : b # a /\ <<k, b>> \in t.kind => <<k, b>> \in u.kind
    BY <2>1 DEF Kind
  <2>7. KindSeen(u.kind, I, i + 1)
    BY <2>3, <2>4, <2>6, <1>k, Zenon DEF Live
  <2>8. \A b \in Addresses : \A k : b # a /\ <<k, b>> \in t.owner => <<k, b>> \in u.owner
    BY <2>1 DEF Owner
  <2>9. OwnerSeen(u.owner, I, i + 1)
    BY <2>3, <2>4, <2>8, <1>o, Zenon DEF Live
  <2>10. \A b \in Addresses : \A k : b # a /\ <<k, b>> \in t.data => <<k, b>> \in u.data
    BY <2>1 DEF data_keys
  <2>11. DataSeen(u.data, I, i + 1)
    BY <2>2, <1>d, <2>3, <2>4, <2>10, Zenon DEF Live
  <2> QED  BY <2>1, <2>2, <2>5, <2>7, <2>9, <2>11, <1>e, <1>h, <1>c
<1>3. CASE /\ r.op = "Archive" /\ r.address \in Addresses /\ r.version \in Nat
           /\ r.node \in Contents
  <2> DEFINE a == r.address  v == r.version  n == r.node
  <2>1. /\ u.history = {h \in t.history : h[1] # a \/ h[2] # v} \cup {<<a, v, n>>}
        /\ u.primary = t.primary /\ u.kind = t.kind /\ u.owner = t.owner
        /\ u.edge_out = t.edge_out /\ u.edge_in = t.edge_in
        /\ u.data = t.data /\ u.declared = t.declared
    BY <1>3, <1>u, ArchiveFields, Zenon
  <2>2. /\ y.history = {h \in x.history : h[1] # a \/ h[2] # v} \cup {<<a, v, n>>}
        /\ y.primary = x.primary
        /\ y.edge_out = x.edge_out /\ y.edge_in = x.edge_in /\ y.declared = x.declared
    BY <1>0, <1>3, <1>u, ArchiveFields, Zenon
  <2>3. ASSUME NEW b \in Addresses, NEW w \in Nat
        PROVE  \/ \A m \in Contents : <<b, w, m>> \in u.history <=> <<b, w, m>> \in y.history
               \/ \A m \in Contents :
                    /\ <<b, w, m>> \in u.history <=> <<b, w, m>> \in t.history
                    /\ <<b, w, m>> \in y.history <=> <<b, w, m>> \in x.history
    <3>1. CASE b = a /\ w = v
      <4>1. \A m \in Contents : <<b, w, m>> \in u.history <=> m = n
        BY <2>1, <3>1
      <4>2. \A m \in Contents : <<b, w, m>> \in y.history <=> m = n
        BY <2>2, <3>1
      <4> QED  BY <4>1, <4>2
    <3>2. CASE ~(b = a /\ w = v)
      <4>1. \A m \in Contents : <<b, w, m>> \in u.history <=> <<b, w, m>> \in t.history
        BY <2>1, <3>2
      <4>2. \A m \in Contents : <<b, w, m>> \in y.history <=> <<b, w, m>> \in x.history
        BY <2>2, <3>2
      <4> QED  BY <4>1, <4>2
    <3> QED  BY <3>1, <3>2
  <2>4. HistorySeen(u.history, I, i + 1)
    BY <1>s, <2>3, HistoryStep, Zenon DEF x, y
  <2> QED  BY <2>1, <2>2, <2>4, <1>p, <1>k, <1>o, <1>e, <1>c, <1>d
<1>4. CASE /\ r.op \in {"InsertEdge", "DeleteEdge"}
           /\ r.from \in Addresses /\ r.to \in Addresses
  <2> DEFINE f == r.from  o == r.to
  <2>1. /\ r.op = "InsertEdge" => u.edge_out = t.edge_out \cup {<<f, o>>}
        /\ r.op = "DeleteEdge" => u.edge_out = t.edge_out \ {<<f, o>>}
        /\ r.op = "InsertEdge" => u.edge_in = t.edge_in \cup {<<o, f>>}
        /\ r.op = "DeleteEdge" => u.edge_in = t.edge_in \ {<<o, f>>}
        /\ u.primary = t.primary /\ u.kind = t.kind /\ u.owner = t.owner
        /\ u.history = t.history /\ u.data = t.data /\ u.declared = t.declared
    BY <1>4, <1>u, EdgeFields
  <2>2. /\ r.op = "InsertEdge" => y.edge_out = x.edge_out \cup {<<f, o>>}
        /\ r.op = "DeleteEdge" => y.edge_out = x.edge_out \ {<<f, o>>}
        /\ r.op = "InsertEdge" => y.edge_in = x.edge_in \cup {<<o, f>>}
        /\ r.op = "DeleteEdge" => y.edge_in = x.edge_in \ {<<o, f>>}
        /\ y.primary = x.primary /\ y.history = x.history /\ y.declared = x.declared
    BY <1>0, <1>4, <1>u, EdgeFields
  <2>3. OutSeen(u.edge_out, I, i + 1)
    <3>1. ASSUME NEW g \in Addresses, NEW p \in Addresses
          PROVE  \/ <<g, p>> \in u.edge_out <=> <<g, p>> \in y.edge_out
                 \/ /\ <<g, p>> \in u.edge_out <=> <<g, p>> \in t.edge_out
                    /\ <<g, p>> \in y.edge_out <=> <<g, p>> \in x.edge_out
      BY <1>4, <2>1, <2>2
    <3> QED  BY <1>s, <3>1, OutStep, Zenon DEF x, y
  <2>4. InSeen(u.edge_in, I, i + 1)
    <3>1. ASSUME NEW g \in Addresses, NEW p \in Addresses
          PROVE  \/ <<p, g>> \in u.edge_in <=> <<p, g>> \in y.edge_in
                 \/ /\ <<p, g>> \in u.edge_in <=> <<p, g>> \in t.edge_in
                    /\ <<p, g>> \in y.edge_in <=> <<p, g>> \in x.edge_in
      BY <1>4, <2>1, <2>2
    <3> QED  BY <1>s, <3>1, InStep, Zenon DEF x, y
  <2> QED  BY <2>1, <2>2, <2>3, <2>4, <1>p, <1>k, <1>o, <1>h, <1>c, <1>d
<1>5. CASE r.op = "CreateIndex"
  <2> DEFINE B == {<<t.primary[a].value, a>> :
                     a \in {b \in Addresses : /\ <<IndexedKind, b>> \in t.kind
                                              /\ t.primary[b] # NoNode}}
  <2>1. /\ u.declared = TRUE /\ u.data = t.data \cup B
        /\ u.primary = t.primary /\ u.kind = t.kind /\ u.owner = t.owner
        /\ u.edge_out = t.edge_out /\ u.edge_in = t.edge_in /\ u.history = t.history
    BY <1>5, <1>u, CreateFields, Zenon
  <2>2. /\ y.declared = TRUE
        /\ y.primary = x.primary
        /\ y.edge_out = x.edge_out /\ y.edge_in = x.edge_in /\ y.history = x.history
    BY <1>0, <1>5, <1>u, CreateFields, Zenon
  <2>3. DeclaredSeen(u.declared, I, i + 1)
    BY <2>1, <2>2, <1>c, Zenon
  <2>4. ASSUME NEW a \in Addresses, Keeps(I, i + 1, a), Live(Final(I).primary[a]),
               Final(I).primary[a].kind = IndexedKind
        PROVE  <<Final(I).primary[a].value, a>> \in u.data
    <3>1. Keeps(I, i, a)
      BY <2>2, <2>4, KeepsStep DEF x, y
    <3>2. <<IndexedKind, a>> \in t.kind
      BY <1>s, <2>4, <3>1 DEF KindSeen
    <3>3. t.primary[a] = Final(I).primary[a]
      BY <1>s, <3>1 DEF PrimarySeen, Keeps
    <3>4. <<t.primary[a].value, a>> \in B
      BY <2>4, <3>2, <3>3 DEF Live
    <3> QED  BY <2>1, <3>3, <3>4, Zenon
  <2>5. DataSeen(u.data, I, i + 1)
    BY <2>4, Zenon DEF DataSeen
  <2> QED  BY <2>1, <2>2, <2>3, <2>5, <1>p, <1>k, <1>o, <1>e, <1>h
<1>6. CASE r.op = "DropIndex"
  <2>1. /\ u.declared = FALSE
        /\ u.primary = t.primary /\ u.kind = t.kind /\ u.owner = t.owner
        /\ u.edge_out = t.edge_out /\ u.edge_in = t.edge_in /\ u.history = t.history
    BY <1>6, <1>u, DropFields, Zenon
  <2>2. /\ y.declared = FALSE
        /\ y.primary = x.primary
        /\ y.edge_out = x.edge_out /\ y.edge_in = x.edge_in /\ y.history = x.history
    <3>1. x \in TreesT /\ y = apply_operation(x, r)
      BY <1>0, <1>u
    <3> QED  BY <1>6, <3>1, DropFields, Zenon
  <2>3. DeclaredSeen(u.declared, I, i + 1)
    BY <2>1, <2>2, <1>c, Zenon
  <2>4. ~Declared(I, i + 1)
    BY <2>2, FromStep, Zenon DEF Declared, y
  <2>5. DataSeen(u.data, I, i + 1)
    BY <2>4, Zenon DEF DataSeen
  <2> QED  BY <2>1, <2>2, <2>3, <2>5, <1>p, <1>k, <1>o, <1>e, <1>h
<1> QED  BY <1>1, <1>2, <1>3, <1>4, <1>5, <1>6, OperationKinds, Zenon

-----------------------------------------------------------------------------
(* Moving along the history of the trees.                                   *)

\* Trees no older than a state are no older than an earlier one.
LEMMA SeenOlder ==
  ASSUME NEW I \in Seq(TreesT), NEW i \in Nat, NEW j \in Nat, i <= j, NEW t, Seen(t, I, j)
  PROVE  Seen(t, I, i)
<1>1. From(I, j) \subseteq From(I, i)
  BY DEF From
<1>2. \A a : Keeps(I, i, a) => Keeps(I, j, a)
  BY <1>1, Zenon DEF Keeps
<1>3. Declared(I, i) => Declared(I, j)
  BY <1>1, Zenon DEF Declared
<1>4. PrimarySeen(t.primary, I, i) /\ DeclaredSeen(t.declared, I, i)
  BY <1>1, Zenon DEF Seen, PrimarySeen, DeclaredSeen
<1>5. OutSeen(t.edge_out, I, i) /\ InSeen(t.edge_in, I, i)
  BY <1>1, Zenon DEF Seen, OutSeen, InSeen
<1>6. HistorySeen(t.history, I, i)
  BY <1>1, Zenon DEF Seen, HistorySeen
<1>7. KindSeen(t.kind, I, i) /\ OwnerSeen(t.owner, I, i)
  BY <1>2, Zenon DEF Seen, KindSeen, OwnerSeen
<1>8. DataSeen(t.data, I, i)
  BY <1>2, <1>3, Zenon DEF Seen, DataSeen
<1> QED  BY <1>4, <1>5, <1>6, <1>7, <1>8, Zenon DEF Seen

\* They stay so when the history grows.
LEMMA SeenExtend ==
  ASSUME NEW I \in Seq(TreesT), NEW i \in Nat, i < Len(I), NEW x \in TreesT,
         NEW t, Seen(t, I, i)
  PROVE  Seen(t, Append(I, x), i)
<1> DEFINE J == Append(I, x)
<1>1. /\ From(I, i) \subseteq From(J, i) /\ \A q \in From(I, i) : J[q] = I[q]
      /\ Len(I) \in From(I, i)
  BY DEF From
<1> HIDE DEF J
<1>2. \A a : Keeps(J, i, a) => Keeps(I, i, a) /\ Final(J).primary[a] = Final(I).primary[a]
  BY <1>1, Zenon DEF Keeps, Final
<1>3. Declared(J, i) => Declared(I, i)
  BY <1>1, Zenon DEF Declared
<1>4. PrimarySeen(t.primary, J, i) /\ DeclaredSeen(t.declared, J, i)
  BY <1>1 DEF Seen, PrimarySeen, DeclaredSeen
<1>5. OutSeen(t.edge_out, J, i)
  <2> SUFFICES ASSUME NEW f \in Addresses, NEW o \in Addresses
               PROVE  \E q \in From(J, i) : <<f, o>> \in t.edge_out <=> <<f, o>> \in J[q].edge_out
    BY Zenon DEF OutSeen
  <2>1. PICK q \in From(I, i) : <<f, o>> \in t.edge_out <=> <<f, o>> \in I[q].edge_out
    BY Zenon DEF Seen, OutSeen
  <2>2. q \in From(J, i) /\ J[q] = I[q]
    BY <1>1
  <2> QED  BY <2>1, <2>2, Zenon
<1>6. InSeen(t.edge_in, J, i)
  <2> SUFFICES ASSUME NEW f \in Addresses, NEW o \in Addresses
               PROVE  \E q \in From(J, i) : <<o, f>> \in t.edge_in <=> <<o, f>> \in J[q].edge_in
    BY Zenon DEF InSeen
  <2>1. PICK q \in From(I, i) : <<o, f>> \in t.edge_in <=> <<o, f>> \in I[q].edge_in
    BY Zenon DEF Seen, InSeen
  <2>2. q \in From(J, i) /\ J[q] = I[q]
    BY <1>1
  <2> QED  BY <2>1, <2>2, Zenon
<1>7. HistorySeen(t.history, J, i)
  <2> SUFFICES ASSUME NEW a \in Addresses, NEW v \in Nat
               PROVE  \E q \in From(J, i) : \A n \in Contents :
                        <<a, v, n>> \in t.history <=> <<a, v, n>> \in J[q].history
    BY Zenon DEF HistorySeen
  <2>1. PICK q \in From(I, i) :
          \A n \in Contents : <<a, v, n>> \in t.history <=> <<a, v, n>> \in I[q].history
    BY Zenon DEF Seen, HistorySeen
  <2>2. q \in From(J, i) /\ J[q] = I[q]
    BY <1>1
  <2> QED  BY <2>1, <2>2, Zenon
<1>8. KindSeen(t.kind, J, i) /\ OwnerSeen(t.owner, J, i)
  BY <1>2 DEF Seen, KindSeen, OwnerSeen
<1>9. DataSeen(t.data, J, i)
  BY <1>2, <1>3 DEF Seen, DataSeen
<1> QED  BY <1>4, <1>5, <1>6, <1>7, <1>8, <1>9, Zenon DEF Seen, J

\* The trees of an engine that never crashes hold no entry that is not a node's.
LEMMA StaleApply ==
  ASSUME NEW t \in TreesT, NEW r \in Operation, NothingStale(t)
  PROVE  NothingStale(apply_operation(t, r))
<1> DEFINE u == apply_operation(t, r)
<1>n. /\ \A e \in t.kind : \E b \in Addresses :
           Live(t.primary[b]) /\ e = <<t.primary[b].kind, b>>
      /\ \A e \in t.owner : \E b \in Addresses :
           Live(t.primary[b]) /\ e = <<t.primary[b].owner, b>>
      /\ \A e \in t.data : \E b \in Addresses :
           /\ t.declared /\ Live(t.primary[b]) /\ t.primary[b].kind = IndexedKind
           /\ e = <<t.primary[b].value, b>>
  BY DEF NothingStale
<1> SUFFICES /\ \A e \in u.kind : \E b \in Addresses :
                  Live(u.primary[b]) /\ e = <<u.primary[b].kind, b>>
             /\ \A e \in u.owner : \E b \in Addresses :
                  Live(u.primary[b]) /\ e = <<u.primary[b].owner, b>>
             /\ \A e \in u.data : \E b \in Addresses :
                  /\ u.declared /\ Live(u.primary[b]) /\ u.primary[b].kind = IndexedKind
                  /\ e = <<u.primary[b].value, b>>
  BY DEF NothingStale
<1>u. u = apply_operation(t, r)
  OBVIOUS
<1> HIDE DEF u
<1>1. CASE r.op = "Insert" /\ r.address \in Addresses /\ r.node \in Contents
  <2> DEFINE a == r.address  n == r.node  p == t.primary[r.address]
  <2>1. /\ u.primary = [t.primary EXCEPT ![a] = n]
        /\ u.kind = (t.kind \ Kind(p, a)) \cup Kind(n, a)
        /\ u.owner = (t.owner \ Owner(p, a)) \cup Owner(n, a)
        /\ u.data = (t.data \ data_keys(t, p, a)) \cup data_keys(t, n, a)
        /\ u.declared = t.declared
    BY <1>1, <1>u, InsertFields, Zenon
  <2>2. u.primary[a] = n /\ \A b \in Addresses : b # a => u.primary[b] = t.primary[b]
    BY <1>1, <2>1 DEF TreesT
  <2>3. ASSUME NEW e \in u.kind
        PROVE  \E b \in Addresses : Live(u.primary[b]) /\ e = <<u.primary[b].kind, b>>
    <3>1. CASE e \in t.kind \ Kind(p, a)
      <4>1. PICK b \in Addresses : Live(t.primary[b]) /\ e = <<t.primary[b].kind, b>>
        BY <1>n, <3>1
      <4>2. b # a
        BY <3>1, <4>1 DEF Kind, Live
      <4> QED  BY <2>2, <4>1, <4>2, Zenon
    <3>2. CASE e \in Kind(n, a)
      BY <1>1, <2>2, <3>2 DEF Kind, Live
    <3> QED  BY <2>1, <3>1, <3>2, Zenon
  <2>4. ASSUME NEW e \in u.owner
        PROVE  \E b \in Addresses : Live(u.primary[b]) /\ e = <<u.primary[b].owner, b>>
    <3>1. CASE e \in t.owner \ Owner(p, a)
      <4>1. PICK b \in Addresses : Live(t.primary[b]) /\ e = <<t.primary[b].owner, b>>
        BY <1>n, <3>1
      <4>2. b # a
        BY <3>1, <4>1 DEF Owner, Live
      <4> QED  BY <2>2, <4>1, <4>2, Zenon
    <3>2. CASE e \in Owner(n, a)
      BY <1>1, <2>2, <3>2 DEF Owner, Live
    <3> QED  BY <2>1, <3>1, <3>2, Zenon
  <2>5. ASSUME NEW e \in u.data
        PROVE  \E b \in Addresses :
                 /\ u.declared /\ Live(u.primary[b]) /\ u.primary[b].kind = IndexedKind
                 /\ e = <<u.primary[b].value, b>>
    <3>1. CASE e \in t.data \ data_keys(t, p, a)
      <4>1. PICK b \in Addresses :
              /\ t.declared /\ Live(t.primary[b]) /\ t.primary[b].kind = IndexedKind
              /\ e = <<t.primary[b].value, b>>
        BY <1>n, <3>1
      <4>2. b # a
        BY <3>1, <4>1 DEF data_keys, Live
      <4> QED  BY <2>1, <2>2, <4>1, <4>2, Zenon
    <3>2. CASE e \in data_keys(t, n, a)
      BY <1>1, <2>1, <2>2, <3>2 DEF data_keys, Live
    <3> QED  BY <2>1, <3>1, <3>2, Zenon
  <2> QED  BY <2>3, <2>4, <2>5, Zenon
<1>2. CASE r.op = "Delete" /\ r.address \in Addresses
  <2> DEFINE a == r.address  p == t.primary[r.address]
  <2>1. /\ u.primary = [t.primary EXCEPT ![a] = NoNode]
        /\ u.kind = t.kind \ Kind(p, a)
        /\ u.owner = t.owner \ Owner(p, a)
        /\ u.data = t.data \ data_keys(t, p, a)
        /\ u.declared = t.declared
    BY <1>2, <1>u, DeleteFields, Zenon
  <2>2. \A b \in Addresses : b # a => u.primary[b] = t.primary[b]
    BY <1>2, <2>1 DEF TreesT
  <2>3. ASSUME NEW e \in u.kind
        PROVE  \E b \in Addresses : Live(u.primary[b]) /\ e = <<u.primary[b].kind, b>>
    <3>1. PICK b \in Addresses : Live(t.primary[b]) /\ e = <<t.primary[b].kind, b>>
      BY <1>n, <2>1
    <3>2. b # a
      BY <2>1, <3>1 DEF Kind, Live
    <3> QED  BY <2>2, <3>1, <3>2, Zenon
  <2>4. ASSUME NEW e \in u.owner
        PROVE  \E b \in Addresses : Live(u.primary[b]) /\ e = <<u.primary[b].owner, b>>
    <3>1. PICK b \in Addresses : Live(t.primary[b]) /\ e = <<t.primary[b].owner, b>>
      BY <1>n, <2>1
    <3>2. b # a
      BY <2>1, <3>1 DEF Owner, Live
    <3> QED  BY <2>2, <3>1, <3>2, Zenon
  <2>5. ASSUME NEW e \in u.data
        PROVE  \E b \in Addresses :
                 /\ u.declared /\ Live(u.primary[b]) /\ u.primary[b].kind = IndexedKind
                 /\ e = <<u.primary[b].value, b>>
    <3>1. PICK b \in Addresses :
            /\ t.declared /\ Live(t.primary[b]) /\ t.primary[b].kind = IndexedKind
            /\ e = <<t.primary[b].value, b>>
      BY <1>n, <2>1
    <3>2. b # a
      BY <2>1, <3>1 DEF data_keys, Live
    <3> QED  BY <2>1, <2>2, <3>1, <3>2, Zenon
  <2> QED  BY <2>3, <2>4, <2>5, Zenon
<1>3. CASE /\ r.op = "Archive" /\ r.address \in Addresses /\ r.version \in Nat
           /\ r.node \in Contents
  <2>1. /\ u.primary = t.primary /\ u.kind = t.kind /\ u.owner = t.owner
        /\ u.data = t.data /\ u.declared = t.declared
    BY <1>3, <1>u, ArchiveFields, Zenon
  <2> QED  BY <1>n, <2>1
<1>4. CASE /\ r.op \in {"InsertEdge", "DeleteEdge"}
           /\ r.from \in Addresses /\ r.to \in Addresses
  <2>1. /\ u.primary = t.primary /\ u.kind = t.kind /\ u.owner = t.owner
        /\ u.data = t.data /\ u.declared = t.declared
    BY <1>4, <1>u, EdgeFields
  <2> QED  BY <1>n, <2>1
<1>5. CASE r.op = "CreateIndex"
  <2> DEFINE B == {<<t.primary[a].value, a>> :
                     a \in {b \in Addresses : /\ <<IndexedKind, b>> \in t.kind
                                              /\ t.primary[b] # NoNode}}
  <2>1. /\ u.declared = TRUE /\ u.data = t.data \cup B
        /\ u.primary = t.primary /\ u.kind = t.kind /\ u.owner = t.owner
    BY <1>5, <1>u, CreateFields, Zenon
  <2>2. ASSUME NEW e \in B
        PROVE  \E b \in Addresses :
                 /\ Live(t.primary[b]) /\ t.primary[b].kind = IndexedKind
                 /\ e = <<t.primary[b].value, b>>
    <3>1. PICK b \in Addresses : /\ <<IndexedKind, b>> \in t.kind /\ t.primary[b] # NoNode
                                 /\ e = <<t.primary[b].value, b>>
      BY <2>2, Zenon
    <3>2. PICK c \in Addresses : <<IndexedKind, b>> = <<t.primary[c].kind, c>>
      BY <1>n, <3>1
    <3>3. t.primary[b].kind = IndexedKind
      BY <3>2
    <3> QED  BY <3>1, <3>3 DEF Live
  <2> HIDE DEF B
  <2> QED  BY <1>n, <2>1, <2>2
<1>6. CASE r.op = "DropIndex"
  <2>1. /\ u.data = {} /\ u.primary = t.primary /\ u.kind = t.kind /\ u.owner = t.owner
    BY <1>6, <1>u, DropFields, Zenon
  <2> QED  BY <1>n, <2>1
<1> QED  BY <1>1, <1>2, <1>3, <1>4, <1>5, <1>6, OperationKinds, Zenon

-----------------------------------------------------------------------------
(* The invariant.                                                           *)

\* RInv holds of an empty database.
LEMMA RInit ==
  Init => RInv
<1> SUFFICES ASSUME Init PROVE RInv
  OBVIOUS
<1> DEFINE e == NoEntries
<1>1. e \in TreesT
  BY DEF NoEntries, TreesT
<1>2. /\ e.primary = [a \in Addresses |-> NoNode] /\ e.declared = FALSE
      /\ e.kind = {} /\ e.owner = {} /\ e.data = {}
  BY DEF NoEntries
<1>3. NothingStale(e)
  BY <1>2 DEF NothingStale
<1> HIDE DEF e
<1>4. /\ ideal = <<e>> /\ log = <<>> /\ ckpt = 0 /\ pos = 0 /\ flushed = 0 /\ pc = "ready"
      /\ mem = e /\ disk = e
  BY DEF Init, e
<1>5. ideal \in Seq(TreesT) /\ Len(ideal) = 1 /\ ideal[1] = e
  BY <1>1, <1>4
<1>6. Final(ideal) = e /\ From(ideal, 0) = {1}
  BY <1>5 DEF Final, From
<1>7. Seen(e, ideal, 0)
  <2>1. PrimarySeen(e.primary, ideal, 0) /\ DeclaredSeen(e.declared, ideal, 0)
    BY <1>5, <1>6, Zenon DEF PrimarySeen, DeclaredSeen
  <2>2. OutSeen(e.edge_out, ideal, 0) /\ InSeen(e.edge_in, ideal, 0)
    BY <1>5, <1>6, Zenon DEF OutSeen, InSeen
  <2>3. HistorySeen(e.history, ideal, 0)
    BY <1>5, <1>6, Zenon DEF HistorySeen
  <2>4. \A a \in Addresses : ~Live(Final(ideal).primary[a])
    BY <1>2, <1>6, Zenon DEF Live
  <2>5. /\ KindSeen(e.kind, ideal, 0) /\ OwnerSeen(e.owner, ideal, 0)
        /\ DataSeen(e.data, ideal, 0)
    BY <2>4, Zenon DEF KindSeen, OwnerSeen, DataSeen
  <2> QED  BY <2>1, <2>2, <2>3, <2>5, Zenon DEF Seen
<1>8. RShape
  BY <1>1, <1>4 DEF RShape
<1>9. RIdeal
  BY <1>3, <1>4, <1>5 DEF RIdeal
<1> QED  BY <1>4, <1>7, <1>8, <1>9 DEF RInv, RFlushed

\* A write appends operations to the log and touches nothing else.
LEMMA RCommit ==
  ASSUME RInv, NEW ops \in Seq(Operation), Commit(ops)
  PROVE  RInv'
<1>1. /\ log' \in Seq(Operation) /\ Len(log') >= Len(log)
      /\ \A q \in 1 .. Len(log) : log'[q] = log[q]
  BY DEF Commit, RInv, RShape
<1>2. /\ ckpt' = ckpt /\ pos' = pos /\ mem' = mem /\ disk' = disk /\ flushed' = flushed
      /\ pc' = pc /\ ideal' = ideal /\ pc = "ready"
  BY DEF Commit
<1>3. RShape'
  BY <1>1, <1>2 DEF RInv, RShape
<1>4. RIdeal'
  <2>1. /\ ideal \in Seq(TreesT) /\ pos < Len(ideal) /\ Len(ideal) <= Len(log) + 1
        /\ \A q \in 1 .. Len(ideal) : NothingStale(ideal[q])
        /\ \A q \in 1 .. Len(ideal) - 1 : ideal[q + 1] = apply_operation(ideal[q], log[q])
        /\ log \in Seq(Operation)
    BY DEF RInv, RIdeal, RShape
  <2>2. \A q \in 1 .. Len(ideal) - 1 : ideal[q + 1] = apply_operation(ideal[q], log'[q])
    <3> TAKE q \in 1 .. Len(ideal) - 1
    <3>1. q \in 1 .. Len(log)
      BY <2>1
    <3>2. log'[q] = log[q]
      BY <1>1, <3>1
    <3> QED  BY <2>1, <3>2
  <2>3. Len(ideal) <= Len(log') + 1
    BY <1>1, <2>1
  <2> QED  BY <1>2, <2>1, <2>2, <2>3 DEF RIdeal
<1>5. Seen(mem, ideal, pos)' /\ Seen(disk, ideal, ckpt)'
  BY <1>2 DEF RInv
<1> QED  BY <1>2, <1>3, <1>4, <1>5 DEF RInv, RFlushed

\* What a mutation is lowered to is a sequence of operations.
LEMMA Lowered ==
  ASSUME RInv, NEW a \in Addresses
  PROVE  /\ \A n \in Contents :
              ArchivePrevious(a) \o <<[op |-> "Insert", address |-> a, node |-> n]>>
                \in Seq(Operation)
         /\ ArchivePrevious(a) \o <<[op |-> "Delete", address |-> a]>>
              \in Seq(Operation)
<1>1. mem.primary[a] \in Contents \cup {NoNode} /\ Len(log) + 1 \in Nat
  BY DEF RInv, RShape, TreesT
<1>2. ArchivePrevious(a) \in Seq(Operation)
  <2>1. CASE mem.primary[a] = NoNode
    BY <2>1 DEF ArchivePrevious
  <2>2. CASE mem.primary[a] \in Contents /\ mem.primary[a] # NoNode
    <3>1. [op |-> "Archive", address |-> a, version |-> Len(log) + 1, node |-> mem.primary[a]]
            \in Operation
      BY <1>1, <2>2 DEF Operation
    <3> QED  BY <2>2, <3>1 DEF ArchivePrevious
  <2> QED  BY <1>1, <2>1, <2>2
<1>3. \A n \in Contents : [op |-> "Insert", address |-> a, node |-> n] \in Operation
  BY DEF Operation
<1>4. [op |-> "Delete", address |-> a] \in Operation
  BY DEF Operation
<1> QED  BY <1>2, <1>3, <1>4

\* Beginning an operation extends the history of the trees, or finds it there.
LEMMA RBegin ==
  ASSUME RInv, pos < Len(log), BeginOperation
  PROVE  /\ ideal' \in Seq(TreesT) /\ pos + 1 < Len(ideal') /\ Len(ideal') <= Len(log) + 1
         /\ \A q \in 1 .. Len(ideal') : NothingStale(ideal'[q])
         /\ \A q \in 1 .. Len(ideal') - 1 :
              ideal'[q + 1] = apply_operation(ideal'[q], log[q])
         /\ Seen(mem, ideal', pos) /\ Seen(disk, ideal', ckpt)
<1>1. /\ ideal \in Seq(TreesT) /\ pos < Len(ideal) /\ Len(ideal) <= Len(log) + 1
      /\ \A q \in 1 .. Len(ideal) : NothingStale(ideal[q])
      /\ \A q \in 1 .. Len(ideal) - 1 : ideal[q + 1] = apply_operation(ideal[q], log[q])
      /\ pos \in Nat /\ ckpt \in Nat /\ ckpt <= pos /\ log \in Seq(Operation)
  BY DEF RInv, RIdeal, RShape
<1>2. CASE pos + 1 < Len(ideal)
  <2>1. ideal' = ideal
    BY <1>2 DEF BeginOperation
  <2> QED  BY <1>1, <1>2, <2>1 DEF RInv
<1>3. CASE ~(pos + 1 < Len(ideal))
  <2> DEFINE x == apply_operation(ideal[pos + 1], log[pos + 1])
  <2>1. ideal' = Append(ideal, x) /\ Len(ideal) = pos + 1
    BY <1>1, <1>3 DEF BeginOperation
  <2>2. log[pos + 1] \in Operation /\ ideal[pos + 1] \in TreesT
    BY <1>1, <2>1
  <2>3. x \in TreesT /\ NothingStale(x)
    BY <1>1, <2>1, <2>2, ApplyType, StaleApply
  <2>4. x = apply_operation(ideal[pos + 1], log[pos + 1])
    OBVIOUS
  <2> HIDE DEF x
  <2>5. /\ ideal' \in Seq(TreesT) /\ Len(ideal') = pos + 2 /\ ideal'[pos + 2] = x
        /\ \A q \in 1 .. pos + 1 : ideal'[q] = ideal[q]
    BY <1>1, <2>1, <2>3
  <2>6. \A q \in 1 .. Len(ideal') : NothingStale(ideal'[q])
    BY <1>1, <2>1, <2>3, <2>5
  <2>7. \A q \in 1 .. Len(ideal') - 1 :
          ideal'[q + 1] = apply_operation(ideal'[q], log[q])
    BY <1>1, <2>1, <2>4, <2>5
  <2>8. Seen(mem, ideal', pos)
    BY <1>1, <2>1, <2>3, SeenExtend DEF RInv
  <2>9. Seen(disk, ideal', ckpt)
    BY <1>1, <2>1, <2>3, SeenExtend DEF RInv
  <2>10. pos + 1 < Len(ideal') /\ Len(ideal') <= Len(log) + 1
    <3>1. Len(log) \in Nat /\ pos + 1 <= Len(log)
      BY <1>1
    <3> QED  BY <1>1, <2>5, <3>1
  <2> QED  BY <2>5, <2>6, <2>7, <2>8, <2>9, <2>10, Zenon
<1> QED  BY <1>2, <1>3

\* The next operation, of a write or of recovery.
LEMMA RApply ==
  ASSUME RInv, apply_committed
  PROVE  RInv'
<1> DEFINE r == log[pos + 1]
           u == apply_operation(mem, r)
<1>1. /\ pos < Len(log) /\ pos' = pos + 1 /\ log' = log /\ ckpt' = ckpt /\ flushed' = flushed
      /\ pc' = pc /\ pc \in {"ready", "recover"} /\ mem' = u /\ BeginOperation
      /\ disk' = [disk EXCEPT !.declared = u.declared,
                              !.data = IF r.op = "DropIndex" THEN {} ELSE @]
  BY DEF apply_committed
<1>2. /\ log \in Seq(Operation) /\ pos \in Nat /\ ckpt \in Nat /\ ckpt <= pos
      /\ mem \in TreesT /\ disk \in TreesT /\ flushed \in 0 .. 7
  BY DEF RInv, RShape
<1>3. r \in Operation
  BY <1>1, <1>2
<1>4. u \in TreesT
  BY <1>2, <1>3, ApplyType
<1>5. /\ ideal' \in Seq(TreesT) /\ pos + 1 < Len(ideal') /\ Len(ideal') <= Len(log) + 1
      /\ \A q \in 1 .. Len(ideal') : NothingStale(ideal'[q])
      /\ \A q \in 1 .. Len(ideal') - 1 :
           ideal'[q + 1] = apply_operation(ideal'[q], log[q])
      /\ Seen(mem, ideal', pos) /\ Seen(disk, ideal', ckpt)
  BY <1>1, RBegin
<1>6. ideal'[pos + 2] = apply_operation(ideal'[pos + 1], r)
  BY <1>2, <1>5
<1>7. Seen(u, ideal', pos + 1)
  BY <1>2, <1>3, <1>5, <1>6, SeenApply
<1>u. u = apply_operation(mem, r)
  OBVIOUS
<1> HIDE DEF u, r
<1>8. /\ disk' \in TreesT /\ disk'.declared = u.declared
      /\ disk'.primary = disk.primary /\ disk'.kind = disk.kind /\ disk'.owner = disk.owner
      /\ disk'.edge_out = disk.edge_out /\ disk'.edge_in = disk.edge_in
      /\ disk'.history = disk.history
      /\ disk'.data = IF r.op = "DropIndex" THEN {} ELSE disk.data
  BY <1>1, <1>2, <1>4, Zenon DEF TreesT
<1>9. DeclaredSeen(disk'.declared, ideal', ckpt)
  <2>1. Seen(u, ideal', ckpt)
    BY <1>2, <1>5, <1>7, SeenOlder
  <2> QED  BY <1>8, <2>1 DEF Seen
<1>10. DataSeen(disk'.data, ideal', ckpt)
  <2>1. CASE r.op = "DropIndex"
    <3>1. ideal'[pos + 1] \in TreesT
      BY <1>2, <1>5
    <3>2. ideal'[pos + 2].declared = FALSE
      BY <1>6, <2>1, <3>1, DropDeclared, Zenon
    <3>3. pos + 2 \in From(ideal', ckpt)
      BY <1>2, <1>5 DEF From
    <3>4. ~Declared(ideal', ckpt)
      BY <3>2, <3>3 DEF Declared
    <3> QED  BY <3>4 DEF DataSeen
  <2>2. CASE r.op # "DropIndex"
    BY <1>5, <1>8, <2>2 DEF Seen
  <2> QED  BY <2>1, <2>2
<1>11. Seen(disk', ideal', ckpt)
  BY <1>5, <1>8, <1>9, <1>10 DEF Seen
<1>12. RShape'
  BY <1>1, <1>2, <1>4, <1>8 DEF RShape
<1>13. RIdeal'
  BY <1>1, <1>2, <1>5 DEF RIdeal
<1>14. Seen(mem', ideal', pos') /\ Seen(disk', ideal', ckpt')
  BY <1>1, <1>7, <1>11
<1> QED  BY <1>1, <1>12, <1>13, <1>14 DEF RInv, RFlushed

\* A crash inside drop_index leaves the definitions file ahead of the tree's.
LEMMA RCrashInDrop ==
  ASSUME RInv, CrashInDropIndex
  PROVE  RInv'
<1> DEFINE r == log[pos + 1]
<1>1. /\ pos < Len(log) /\ pos' = ckpt /\ log' = log /\ ckpt' = ckpt /\ flushed' = flushed
      /\ pc' = "recover" /\ mem' = disk' /\ BeginOperation /\ r.op = "DropIndex"
      /\ disk' = [disk EXCEPT !.declared = FALSE]
  BY DEF CrashInDropIndex
<1>2. /\ log \in Seq(Operation) /\ pos \in Nat /\ ckpt \in Nat /\ ckpt <= pos
      /\ disk \in TreesT /\ flushed \in 0 .. 7
  BY DEF RInv, RShape
<1>5. /\ ideal' \in Seq(TreesT) /\ pos + 1 < Len(ideal') /\ Len(ideal') <= Len(log) + 1
      /\ \A q \in 1 .. Len(ideal') : NothingStale(ideal'[q])
      /\ \A q \in 1 .. Len(ideal') - 1 :
           ideal'[q + 1] = apply_operation(ideal'[q], log[q])
      /\ Seen(disk, ideal', ckpt)
  BY <1>1, RBegin
<1>6. ideal'[pos + 2] = apply_operation(ideal'[pos + 1], r)
  BY <1>2, <1>5
<1> HIDE DEF r
<1>8. /\ disk' \in TreesT /\ disk'.declared = FALSE
      /\ disk'.primary = disk.primary /\ disk'.kind = disk.kind /\ disk'.owner = disk.owner
      /\ disk'.edge_out = disk.edge_out /\ disk'.edge_in = disk.edge_in
      /\ disk'.history = disk.history /\ disk'.data = disk.data
  BY <1>1, <1>2, Zenon DEF TreesT
<1>9. DeclaredSeen(disk'.declared, ideal', ckpt)
  <2>1. ideal'[pos + 1] \in TreesT
    BY <1>2, <1>5
  <2>2. ideal'[pos + 2].declared = FALSE
    BY <1>1, <1>6, <2>1, DropDeclared, Zenon
  <2>3. pos + 2 \in From(ideal', ckpt)
    BY <1>2, <1>5 DEF From
  <2> QED  BY <1>8, <2>2, <2>3, Zenon DEF DeclaredSeen
<1>11. Seen(disk', ideal', ckpt)
  BY <1>5, <1>8, <1>9 DEF Seen
<1>12. RShape'
  BY <1>1, <1>2, <1>8 DEF RShape
<1>13. RIdeal'
  BY <1>1, <1>2, <1>5 DEF RIdeal
<1>14. Seen(mem', ideal', pos') /\ Seen(disk', ideal', ckpt')
  BY <1>1, <1>11
<1> QED  BY <1>1, <1>12, <1>13, <1>14 DEF RInv, RFlushed

\* A tree committed by a running checkpoint is as fresh as the working one.
LEMMA RCommitTree ==
  ASSUME RInv, CommitTree
  PROVE  RInv'
<1> DEFINE k == Trees[flushed + 1]
           F == {"primary", "kind", "owner", "edge_out", "edge_in", "history", "data"}
<1>1. /\ pc = "flush" /\ flushed < 7 /\ disk' = [disk EXCEPT ![k] = mem[k]]
      /\ flushed' = flushed + 1 /\ log' = log /\ ckpt' = ckpt /\ pos' = pos /\ mem' = mem
      /\ pc' = pc /\ ideal' = ideal
  BY DEF CommitTree, Trees
<1>2. /\ pos \in Nat /\ ckpt \in Nat /\ ckpt <= pos /\ mem \in TreesT /\ disk \in TreesT
      /\ flushed \in 0 .. 7 /\ mem.declared = disk.declared /\ ideal \in Seq(TreesT)
  BY DEF RInv, RShape, RIdeal
<1>3. \A j \in 1 .. 7 : Trees[j] \in F
  BY DEF Trees
<1>4. k \in F
  BY <1>1, <1>2, <1>3
<1>k. k = Trees[flushed + 1]
  OBVIOUS
<1> HIDE DEF k
<1>5. DOMAIN disk = F \cup {"declared"} /\ DOMAIN mem = F \cup {"declared"}
  BY <1>2 DEF TreesT
<1>6. /\ \A f \in F : disk'[f] = disk[f] \/ disk'[f] = mem[f]
      /\ disk'[k] = mem[k] /\ disk'.declared = disk.declared
  BY <1>1, <1>4, <1>5
<1>7. disk' \in TreesT
  BY <1>1, <1>2, <1>4, Zenon DEF TreesT
<1>8. Seen(mem, ideal, ckpt) /\ Seen(disk, ideal, ckpt)
  BY <1>2, SeenOlder DEF RInv
<1>9. Seen(disk', ideal, ckpt)
  <2>1. /\ disk'.primary = disk.primary \/ disk'.primary = mem.primary
        /\ disk'.kind = disk.kind \/ disk'.kind = mem.kind
        /\ disk'.owner = disk.owner \/ disk'.owner = mem.owner
        /\ disk'.edge_out = disk.edge_out \/ disk'.edge_out = mem.edge_out
        /\ disk'.edge_in = disk.edge_in \/ disk'.edge_in = mem.edge_in
        /\ disk'.history = disk.history \/ disk'.history = mem.history
        /\ disk'.data = disk.data \/ disk'.data = mem.data
        /\ disk'.declared = disk.declared
    BY <1>6
  <2> QED  BY <1>8, <2>1 DEF Seen
<1>10. RShape'
  BY <1>1, <1>2, <1>6, <1>7 DEF RInv, RShape
<1>11. RIdeal'
  BY <1>1 DEF RInv, RIdeal
<1>12. ASSUME NEW j \in 1 .. flushed + 1
       PROVE  disk'[Trees[j]] = mem[Trees[j]]
  <2>1. CASE j = flushed + 1
    BY <1>6, <1>k, <2>1
  <2>2. CASE j \in 1 .. flushed
    <3>1. disk[Trees[j]] = mem[Trees[j]]
      BY <1>1, <2>2 DEF RInv, RFlushed
    <3>2. Trees[j] \in F
      BY <1>2, <1>3, <2>2
    <3> QED  BY <1>6, <3>1, <3>2
  <2> QED  BY <1>2, <2>1, <2>2
<1>13. RFlushed'
  BY <1>1, <1>12 DEF RFlushed
<1>14. Seen(mem', ideal', pos') /\ Seen(disk', ideal', ckpt')
  BY <1>1, <1>9 DEF RInv
<1> QED  BY <1>10, <1>11, <1>13, <1>14 DEF RInv

\* The checkpoint that has committed every tree.
LEMMA RAdvance ==
  ASSUME RInv, advance
  PROVE  RInv'
<1>1. /\ pc = "flush" /\ flushed = 7 /\ ckpt' = pos /\ pc' = "ready" /\ log' = log
      /\ pos' = pos /\ mem' = mem /\ disk' = disk /\ flushed' = flushed /\ ideal' = ideal
  BY DEF advance, Trees
<1>2. \A k \in 1 .. 7 : disk[Trees[k]] = mem[Trees[k]]
  BY <1>1 DEF RInv, RFlushed
<1>3. /\ disk.primary = mem.primary /\ disk.kind = mem.kind /\ disk.owner = mem.owner
      /\ disk.edge_out = mem.edge_out /\ disk.edge_in = mem.edge_in
      /\ disk.history = mem.history /\ disk.data = mem.data
  BY <1>2 DEF Trees
<1>4. Seen(disk, ideal, pos)
  BY <1>3 DEF RInv, RShape, Seen
<1>5. RShape'
  BY <1>1 DEF RInv, RShape
<1>6. RIdeal'
  BY <1>1 DEF RInv, RIdeal
<1>7. Seen(mem', ideal', pos') /\ Seen(disk', ideal', ckpt')
  BY <1>1, <1>4 DEF RInv
<1> QED  BY <1>1, <1>5, <1>6, <1>7 DEF RInv, RFlushed

\* RInv is inductive: writing, applying, checkpointing, crashing and replaying keep it.
LEMMA RStep ==
  RInv /\ [Next]_vars => RInv'
<1> SUFFICES ASSUME RInv, [Next]_vars PROVE RInv'
  OBVIOUS
<1>1. CASE \E a \in Addresses : delete(a) \/ \E n \in Contents : insert(a, n)
  <2> PICK a \in Addresses : delete(a) \/ \E n \in Contents : insert(a, n)
    BY <1>1
  <2>1. CASE delete(a)
    BY <2>1, Lowered, RCommit, Zenon DEF delete
  <2>2. CASE \E n \in Contents : insert(a, n)
    BY <2>2, Lowered, RCommit, Zenon DEF insert
  <2> QED  BY <2>1, <2>2
<1>2. CASE \E f, o \in Addresses : insert_edge(f, o) \/ delete_edge(f, o)
  <2> PICK f \in Addresses, o \in Addresses : insert_edge(f, o) \/ delete_edge(f, o)
    BY <1>2
  <2>1. /\ <<[op |-> "InsertEdge", from |-> f, to |-> o]>> \in Seq(Operation)
        /\ <<[op |-> "DeleteEdge", from |-> f, to |-> o]>> \in Seq(Operation)
    BY DEF Operation
  <2> QED  BY <2>1, RCommit, Zenon DEF insert_edge, delete_edge
<1>3. CASE create_index \/ drop_index
  <2>1. /\ <<[op |-> "CreateIndex"]>> \in Seq(Operation)
        /\ <<[op |-> "DropIndex"]>> \in Seq(Operation)
    BY DEF Operation
  <2> QED  BY <1>3, <2>1, RCommit, Zenon DEF create_index, drop_index
<1>4. CASE apply_committed
  BY <1>4, RApply
<1>5. CASE checkpoint
  <2>1. /\ pos = Len(log) /\ pc' = "flush" /\ flushed' = 0 /\ log' = log /\ ckpt' = ckpt
        /\ pos' = pos /\ mem' = mem /\ disk' = disk /\ ideal' = ideal
    BY <1>5 DEF checkpoint
  <2>2. RShape' /\ RIdeal'
    BY <2>1 DEF RInv, RShape, RIdeal
  <2>3. RFlushed'
    BY <2>1 DEF RFlushed
  <2> QED  BY <2>1, <2>2, <2>3 DEF RInv
<1>6. CASE CommitTree
  BY <1>6, RCommitTree
<1>7. CASE advance
  BY <1>7, RAdvance
<1>8. CASE Crash
  <2>1. /\ pos' = ckpt /\ pc' = "recover" /\ flushed' = 0 /\ log' = log /\ ckpt' = ckpt
        /\ mem' = disk /\ disk' = disk /\ ideal' = ideal
    BY <1>8 DEF Crash
  <2>2. RShape' /\ RIdeal'
    BY <2>1 DEF RInv, RShape, RIdeal
  <2>3. RFlushed'
    BY <2>1 DEF RFlushed
  <2> QED  BY <2>1, <2>2, <2>3 DEF RInv
<1>9. CASE CrashInDropIndex
  BY <1>9, RCrashInDrop
<1>10. CASE UNCHANGED vars
  <2>1. /\ pos' = pos /\ pc' = pc /\ flushed' = flushed /\ log' = log /\ ckpt' = ckpt
        /\ mem' = mem /\ disk' = disk /\ ideal' = ideal
    BY <1>10 DEF vars
  <2>2. RShape' /\ RIdeal' /\ RFlushed'
    BY <2>1 DEF RInv, RShape, RIdeal, RFlushed
  <2> QED  BY <2>1, <2>2 DEF RInv
<1> QED
  BY <1>1, <1>2, <1>3, <1>4, <1>5, <1>6, <1>7, <1>8, <1>9, <1>10, Zenon DEF Next

\* Once every operation is applied the trees have nothing old left in them.
LEMMA RSettled ==
  ASSUME RInv, Settled
  PROVE  /\ From(ideal, pos) = {Len(ideal)} /\ Expected = Final(ideal)
         /\ Final(ideal) \in TreesT /\ NothingStale(Final(ideal))
         /\ \A a \in Addresses : Keeps(ideal, pos, a)
<1>1. /\ ideal \in Seq(TreesT) /\ Len(ideal) = pos + 1 /\ pos \in Nat
      /\ NothingStale(ideal[Len(ideal)])
  BY DEF RInv, RShape, RIdeal, Settled
<1>2. From(ideal, pos) = {Len(ideal)}
  BY <1>1 DEF From
<1>3. Final(ideal) \in TreesT /\ NothingStale(Final(ideal)) /\ Expected = Final(ideal)
  BY <1>1 DEF Final, Expected
<1> QED  BY <1>2, <1>3 DEF Keeps, Final

\* Two sets of pairs are equal when they hold the same pairs.
LEMMA SamePairs ==
  ASSUME NEW S, NEW A \in SUBSET (S \X S), NEW B \in SUBSET (S \X S),
         \A f, o \in S : <<f, o>> \in A <=> <<f, o>> \in B
  PROVE  A = B
<1> SUFFICES ASSUME NEW e \in S \X S PROVE e \in A <=> e \in B
  BY Zenon
<1>1. PICK f \in S, o \in S : e = <<f, o>>
  OBVIOUS
<1> QED  BY <1>1, Zenon

\* Two sets of triples are equal when they hold the same triples.
LEMMA SameTriples ==
  ASSUME NEW S, NEW V, NEW C, NEW A \in SUBSET (S \X V \X C), NEW B \in SUBSET (S \X V \X C),
         \A a \in S, v \in V, n \in C : <<a, v, n>> \in A <=> <<a, v, n>> \in B
  PROVE  A = B
<1> SUFFICES ASSUME NEW e \in S \X V \X C PROVE e \in A <=> e \in B
  BY Zenon
<1>1. PICK a \in S, v \in V, n \in C : e = <<a, v, n>>
  OBVIOUS
<1> QED  BY <1>1, Zenon

\* Once every operation is applied only the last state is left to be as old as.
LEMMA RReplay ==
  RInv => ReplayReproducesRecords
<1> SUFFICES ASSUME RInv, Settled
             PROVE  \A t \in {"primary", "edge_out", "edge_in", "history"} :
                      mem[t] = Expected[t]
  BY DEF ReplayReproducesRecords
<1> DEFINE E == Final(ideal)
<1>1. /\ From(ideal, pos) = {Len(ideal)} /\ Expected = E /\ E \in TreesT
      /\ ideal[Len(ideal)] = E
  BY RSettled DEF Final
<1>2. mem \in TreesT
  BY DEF RInv, RShape
<1> HIDE DEF E
<1>3. mem.primary = E.primary
  <2>1. \A a \in Addresses : mem.primary[a] = E.primary[a]
    BY <1>1, Zenon DEF RInv, Seen, PrimarySeen
  <2> QED  BY <1>1, <1>2, <2>1 DEF TreesT
<1>4. mem.edge_out = E.edge_out
  <2>1. \A f, o \in Addresses : <<f, o>> \in mem.edge_out <=> <<f, o>> \in E.edge_out
    BY <1>1, Zenon DEF RInv, Seen, OutSeen
  <2>2. /\ mem.edge_out \in SUBSET (Addresses \X Addresses)
        /\ E.edge_out \in SUBSET (Addresses \X Addresses)
    BY <1>1, <1>2 DEF TreesT
  <2> QED  BY <2>1, <2>2, SamePairs, Zenon
<1>5. mem.edge_in = E.edge_in
  <2>1. \A f, o \in Addresses : <<f, o>> \in mem.edge_in <=> <<f, o>> \in E.edge_in
    BY <1>1, Zenon DEF RInv, Seen, InSeen
  <2>2. /\ mem.edge_in \in SUBSET (Addresses \X Addresses)
        /\ E.edge_in \in SUBSET (Addresses \X Addresses)
    BY <1>1, <1>2 DEF TreesT
  <2> QED  BY <2>1, <2>2, SamePairs, Zenon
<1>6. mem.history = E.history
  <2>1. \A a \in Addresses, v \in Nat, n \in Contents :
          <<a, v, n>> \in mem.history <=> <<a, v, n>> \in E.history
    BY <1>1, Zenon DEF RInv, Seen, HistorySeen
  <2>2. /\ mem.history \in SUBSET (Addresses \X Nat \X Contents)
        /\ E.history \in SUBSET (Addresses \X Nat \X Contents)
    BY <1>1, <1>2 DEF TreesT
  <2> QED  BY <2>1, <2>2, SameTriples, Zenon
<1> QED  BY <1>1, <1>3, <1>4, <1>5, <1>6

\* And no operation is left to touch a node, so that each one has its entries.
LEMMA RReachable ==
  RInv => EveryNodeReachable
<1> SUFFICES ASSUME RInv, Settled
             PROVE  /\ Expected.kind \subseteq mem.kind
                    /\ Expected.owner \subseteq mem.owner
                    /\ Expected.data \subseteq mem.data
  BY DEF EveryNodeReachable
<1> DEFINE E == Final(ideal)
<1>1. /\ From(ideal, pos) = {Len(ideal)} /\ Expected = E /\ NothingStale(E)
      /\ ideal[Len(ideal)] = E /\ \A a \in Addresses : Keeps(ideal, pos, a)
  BY RSettled, Zenon DEF Final
<1>s. /\ KindSeen(mem.kind, ideal, pos) /\ OwnerSeen(mem.owner, ideal, pos)
      /\ DataSeen(mem.data, ideal, pos)
  BY Zenon DEF RInv, Seen
<1>f. E = Final(ideal)
  OBVIOUS
<1> HIDE DEF E
<1>2. E.kind \subseteq mem.kind
  <2> SUFFICES ASSUME NEW e \in E.kind PROVE e \in mem.kind
    OBVIOUS
  <2>1. PICK a \in Addresses : Live(E.primary[a]) /\ e = <<E.primary[a].kind, a>>
    BY <1>1, Zenon DEF NothingStale
  <2> QED  BY <1>1, <1>s, <1>f, <2>1, Zenon DEF KindSeen
<1>3. E.owner \subseteq mem.owner
  <2> SUFFICES ASSUME NEW e \in E.owner PROVE e \in mem.owner
    OBVIOUS
  <2>1. PICK a \in Addresses : Live(E.primary[a]) /\ e = <<E.primary[a].owner, a>>
    BY <1>1, Zenon DEF NothingStale
  <2> QED  BY <1>1, <1>s, <1>f, <2>1, Zenon DEF OwnerSeen
<1>4. E.data \subseteq mem.data
  <2> SUFFICES ASSUME NEW e \in E.data PROVE e \in mem.data
    OBVIOUS
  <2>1. PICK a \in Addresses : /\ E.declared /\ Live(E.primary[a])
                               /\ E.primary[a].kind = IndexedKind
                               /\ e = <<E.primary[a].value, a>>
    BY <1>1, Zenon DEF NothingStale
  <2>2. Declared(ideal, pos)
    BY <1>1, <2>1 DEF Declared
  <2> QED  BY <1>1, <1>s, <1>f, <2>1, <2>2, Zenon DEF DataSeen
<1> QED  BY <1>1, <1>2, <1>3, <1>4

\* Whatever part of a checkpoint a crash left behind, and however many crashes
\* follow, applying the operations past the checkpoint (recovery.rs replay over
\* apply_operation) brings back exactly the nodes, both directions of every
\* edge and the history of an engine that never crashed.
THEOREM ReplayIsExact ==
  Spec => []ReplayReproducesRecords
<1> QED  BY RInit, RStep, RReplay, PTL DEF Spec

\* And no live node is missing from the kind, owner or declared data index.
THEOREM ReplayReachesEveryNode ==
  Spec => []EveryNodeReachable
<1> QED  BY RInit, RStep, RReachable, PTL DEF Spec

=============================================================================
