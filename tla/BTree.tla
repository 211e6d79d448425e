------------------------------- MODULE BTree -------------------------------
(***************************************************************************)
(* The copy-on-write B+tree of storage/btree.rs over the buffer pool of    *)
(* storage/pager.rs.  Pages 0 and 1 are the two alternating meta slots.    *)
(* Within a generation the first change of a page copies it to a new page  *)
(* (cow); commit flushes the data pages, then writes and flushes the meta. *)
(*                                                                         *)
(* Every cell has weight one and a page holds Capacity of them, so the     *)
(* byte arithmetic of page.rs is left to module SlottedPage.  The keys are *)
(* integers; a key prefix of a range scan is an interval of keys.          *)
(*                                                                         *)
(* pages is what pager.read returns (cached, else on disk); disk is what   *)
(* the last fsync made durable, and unsynced the pages written since.  At  *)
(* a crash an unsynced page may hold its old durable contents, its newest  *)
(* contents (written by an eviction or by the flush in progress), or       *)
(* Garbage: a torn page, or one of the versions in between.                *)
(***************************************************************************)
EXTENDS Integers, Sequences, FiniteSets, FiniteSetsExt, SequencesExt, TLC

CONSTANTS Keys,       \* a set of integers
          Vals,       \* the values put under them
          Capacity,   \* cells a page holds
          Readers,    \* threads that may hold a Snapshot
          MaxPage,    \* bound: highest page id the allocator may reach
          MaxFree,    \* MAX_FREE_ENTRIES
          MaxGen,     \* bound: highest generation committed
          MaxOps,     \* bound: puts and removes
          Faults,     \* subset of {"crash", "create", "write", "sync", "rot"}
          None,       \* no value, no entry, no snapshot
          Error       \* what a read of an undecodable page returns

BTreeAssumption ==
    /\ Keys \subseteq Int
    /\ Capacity \in Nat /\ Capacity >= 2
    /\ Faults \subseteq {"crash", "create", "write", "sync", "rot"}

NoPage == [kind |-> "none"]
Garbage == [kind |-> "torn"]
Leaf(cells) == [kind |-> "leaf", cells |-> cells]
Branch(extra, cells) == [kind |-> "branch", extra |-> extra, cells |-> cells]

META_A == 0
META_B == 1
FIRST_DATA_PAGE == 2
MAX_TREE_DEPTH == 6

VARIABLES
    stage,      \* "absent", "creating", "idle", "flushed", "meta", "crashed",
                \* "recovered" (idle, just opened) or "refused"
    generation, root, entries, free, dirty,   \* TreeState
    pageCount,  \* PagerInner.page_count
    pages, disk, unsynced,
    snap,       \* the Snapshot each reader holds, or None
    map,        \* history: the mapping the puts and removes so far define
    promised,   \* history: the mappings each generation's meta was written for
    durable,    \* history: the newest generation whose commit returned
    ops

treeVars == <<generation, root, entries, free, dirty, pageCount, pages>>
vars == <<stage, treeVars, disk, unsynced, snap, map, promised, durable, ops>>

PageIds == 0..MaxPage
EmptyMap == [k \in Keys |-> None]
Open == stage \in {"idle", "recovered"}

-----------------------------------------------------------------------------
(* Searching.  A page that cannot be decoded makes the read an error.      *)

branch_child_at(page, slot) ==
    IF slot = 0 THEN page.extra ELSE page.cells[slot].child

SlotBelowKey(page, key) ==
    Cardinality({i \in DOMAIN page.cells :
                   \A j \in 1..i : page.cells[j].key < key})

branch_slot_for(page, key) ==
    Cardinality({i \in DOMAIN page.cells :
                   \A j \in 1..i : page.cells[j].key <= key})

branch_child_for(page, key) == branch_child_at(page, branch_slot_for(page, key))

(* Binary search over the cells: the first cell at or past key (0-based). *)
RECURSIVE Bisect(_, _, _, _)
Bisect(cells, key, low, high) ==
    IF low >= high THEN low
    ELSE LET mid == (low + high) \div 2
         IN  CASE cells[mid + 1].key < key -> Bisect(cells, key, mid + 1, high)
               [] cells[mid + 1].key > key -> Bisect(cells, key, low, mid)
               [] OTHER                    -> mid

leaf_search(page, key) == Bisect(page.cells, key, 0, Len(page.cells))
leaf_found(page, key) ==
    LET i == leaf_search(page, key)
    IN  i < Len(page.cells) /\ page.cells[i + 1].key = key

RECURSIVE descend(_, _, _, _)
descend(pg, id, key, depth) ==
    CASE depth = MAX_TREE_DEPTH \/ id \notin DOMAIN pg -> Error
      [] pg[id].kind = "leaf"   -> pg[id]
      [] pg[id].kind = "branch" ->
            descend(pg, branch_child_for(pg[id], key), key, depth + 1)
      [] OTHER -> Error

get_at(pg, r, key) ==
    LET leaf == descend(pg, r, key, 0)
    IN  IF leaf = Error THEN Error
        ELSE IF leaf_found(leaf, key)
             THEN leaf.cells[leaf_search(leaf, key) + 1].value
             ELSE None

(* What a reader of the tree rooted at r finds under every key. *)
Contents(pg, r) == [k \in Keys |-> get_at(pg, r, k)]

-----------------------------------------------------------------------------
(* seek: the nearest entry in a direction, and the range scan built on it. *)

RECURSIVE edge_entry_at(_, _, _)
edge_entry_at(pg, id, first) ==
    IF pg[id].kind = "leaf"
    THEN IF pg[id].cells = <<>> THEN None
         ELSE IF first THEN Head(pg[id].cells) ELSE Last(pg[id].cells)
    ELSE LET slots == 0..Len(pg[id].cells)
             edge(s) == edge_entry_at(pg, branch_child_at(pg[id], s), first)
             some == {s \in slots : edge(s) # None}
         IN  IF some = {} THEN None
             ELSE edge(IF first THEN Min(some) ELSE Max(some))

CandidatePastMatch(page, key, mode) ==
    LET index == leaf_search(page, key)
        slot == CASE mode \in {"Ge", "Gt"} /\ leaf_found(page, key) -> index + 1
                  [] mode \in {"Ge", "Gt"} -> index
                  [] OTHER -> index - 1
    IN  IF slot \in 0..(Len(page.cells) - 1) THEN page.cells[slot + 1] ELSE None

(* The entry of one leaf that answers the seek, if the leaf holds it. *)
leaf_candidate(page, key, mode) ==
    LET index == leaf_search(page, key)
        found == leaf_found(page, key)
        slot == CASE mode = "Gt" /\ found -> index + 1
                  [] mode \in {"Ge", "Gt"} -> index
                  [] mode = "Le" /\ found -> index
                  [] OTHER -> index - 1
    IN  IF slot \in 0..(Len(page.cells) - 1) THEN page.cells[slot + 1] ELSE None

(* Down to the leaf; on the way back up each branch offers the neighbouring *)
(* subtree in the direction of travel.                                     *)
RECURSIVE seek_at(_, _, _, _)
seek_at(pg, id, key, mode) ==
    IF pg[id].kind = "leaf" THEN leaf_candidate(pg[id], key, mode)
    ELSE LET slot == branch_slot_for(pg[id], key)
             below == seek_at(pg, branch_child_at(pg[id], slot), key, mode)
             forward == mode \in {"Ge", "Gt"}
             next == IF forward THEN slot + 1 ELSE slot - 1
         IN  CASE below # None -> below
               [] next \in 0..Len(pg[id].cells) ->
                     edge_entry_at(pg, branch_child_at(pg[id], next), forward)
               [] OTHER -> None

(* Every key of the interval lo..hi past the cursor, in scan order.  The   *)
(* scan re-descends from the root for each entry.                          *)
RECURSIVE for_each_range_at(_, _, _, _, _, _)
for_each_range_at(pg, r, lo, hi, cursor, reverse) ==
    LET entry == CASE reverse /\ cursor # None  -> seek_at(pg, r, cursor, "Lt")
                   [] reverse /\ cursor = None  -> seek_at(pg, r, hi + 1, "Lt")
                   [] ~reverse /\ cursor # None -> seek_at(pg, r, cursor, "Gt")
                   [] OTHER                     -> seek_at(pg, r, lo, "Ge")
    IN  IF entry = None \/ entry.key \notin lo..hi THEN <<>>
        ELSE <<entry.key>>
             \o for_each_range_at(pg, r, lo, hi, entry.key, reverse)

-----------------------------------------------------------------------------
(* Writing.  t threads the TreeState and the page cache through one call:  *)
(* [free, dirty, pageCount, pages, writes], where writes is how many pager *)
(* writes still succeed (a failing one has installed its page and returns  *)
(* an error, which ends the call where it stands).                         *)

building == generation + 1

Pinned == {snap[r].generation : r \in {x \in Readers : snap[x] # None}}

ReusableNextGeneration(entry) ==
    /\ entry.generation + 1 <= building
    /\ Pinned = {} \/ Min(Pinned) >= entry.generation

ReusableUnderReaders(entry) == entry.generation + 2 <= building

(* A freed page may be reused two generations on, if no reader is pinned   *)
(* below the generation that freed it.                                     *)
Reusable(entry) ==
    /\ entry.generation + 2 <= building
    /\ Pinned = {} \/ Min(Pinned) >= entry.generation

SwapRemove(s, i) == SubSeq([s EXCEPT ![i] = Last(s)], 1, Len(s) - 1)

(* A page that is used again stays on the free list. *)
AllocateKeepingEntry(t) ==
    LET able == {i \in DOMAIN t.free : Reusable(t.free[i])}
    IN  IF able # {} THEN [page |-> t.free[Min(able)].page, t |-> t]
        ELSE [page |-> t.pageCount, t |-> [t EXCEPT !.pageCount = @ + 1]]

allocate(t) ==
    LET able == {i \in DOMAIN t.free : Reusable(t.free[i])}
    IN  IF able # {}
        THEN [page |-> t.free[Min(able)].page,
              t |-> [t EXCEPT !.free = SwapRemove(@, Min(able))]]
        ELSE [page |-> t.pageCount, t |-> [t EXCEPT !.pageCount = @ + 1]]

release(t, page) ==
    IF Len(t.free) >= MaxFree THEN t
    ELSE [t EXCEPT !.free =
            Append(@, [generation |-> building, page |-> page])]

NewDirty(t) ==
    LET a == allocate(t)
    IN  [page |-> a.page, t |-> [a.t EXCEPT !.dirty = @ \cup {a.page}]]

Releasing(c, page) == [c EXCEPT !.t = release(@, page)]

(* The page to modify: the page itself when this generation already copied *)
(* it, else a fresh copy, the original being released.                     *)
cow(t, id) ==
    IF id \in t.dirty THEN [page |-> id, t |-> t] ELSE Releasing(NewDirty(t), id)

Write(t, id, page) ==
    [t EXCEPT !.pages = (id :> page) @@ @, !.writes = @ - 1]

Failed(t) == t.writes < 0

Kept(t, page) == [split |-> FALSE, page |-> page, t |-> t]
Split(t, left, separator, right) ==
    [split |-> TRUE, page |-> left, separator |-> separator, right |-> right, t |-> t]

(* split_point over cells of one weight: the cut nearest the middle. *)
split_point(cells) ==
    LET n == Len(cells)
        midpoint == Max({1, Min({i \in 0..(n - 1) : (i + 1) * 2 >= n})})
        fits(c) == c \in 1..(n - 1) /\ c <= Capacity /\ n - c <= Capacity
        offset == Min({o \in 0..n : fits(midpoint + o) \/ fits(midpoint - o)})
    IN  IF fits(midpoint + offset) THEN midpoint + offset ELSE midpoint - offset

(* The two halves written; the second write is not tried after a failure. *)
WriteHalves(c, r, left, separator, right) ==
    LET w == Write(r.t, c.page, left)
    IN  Split(IF Failed(w) THEN w ELSE Write(w, r.page, right), c.page, separator, r.page)

StoreLeaf(c, cells) ==
    LET point == split_point(cells)
    IN  IF Len(cells) <= Capacity
        THEN Kept(Write(c.t, c.page, Leaf(cells)), c.page)
        ELSE WriteHalves(c, NewDirty(c.t), Leaf(SubSeq(cells, 1, point)),
                         cells[point + 1].key, Leaf(SubSeq(cells, point + 1, Len(cells))))

insert_into_leaf(t, id, key, value) ==
    LET page == t.pages[id]
        at == leaf_search(page, key) + 1
        cell == [key |-> key, value |-> value]
    IN  StoreLeaf(cow(t, id), IF leaf_found(page, key)
                              THEN [page.cells EXCEPT ![at] = cell]
                              ELSE InsertAt(page.cells, at, cell))

set_branch_child(page, slot, child) ==
    IF slot = 0 THEN [page EXCEPT !.extra = child]
    ELSE [page EXCEPT !.cells[slot].child = child]

(* A branch that is too full splits and promotes the separator at the cut. *)
StoreBranch(c, extra, cells) ==
    LET point == split_point(cells)
    IN  IF Len(cells) <= Capacity
        THEN Kept(Write(c.t, c.page, Branch(extra, cells)), c.page)
        ELSE WriteHalves(c, NewDirty(c.t), Branch(extra, SubSeq(cells, 1, point)),
                         cells[point + 1].key,
                         Branch(cells[point + 1].child,
                                SubSeq(cells, point + 2, Len(cells))))

KeepBranch(c, page) == Kept(Write(c.t, c.page, page), c.page)

(* The branch after the insertion below it. *)
InsertedBelow(id, slot, child, down) ==
    LET page == set_branch_child(down.t.pages[id], slot, down.page)
    IN  CASE Failed(down.t) -> down
          [] ~Failed(down.t) /\ down.split ->
               StoreBranch(cow(down.t, id), page.extra,
                           InsertAt(page.cells, slot + 1,
                                    [key |-> down.separator, child |-> down.right]))
          [] ~Failed(down.t) /\ ~down.split /\ down.page = child -> Kept(down.t, id)
          [] OTHER -> KeepBranch(cow(down.t, id), page)

RECURSIVE insert_into(_, _, _, _)
insert_into(t, id, key, value) ==
    IF t.pages[id].kind = "leaf" THEN insert_into_leaf(t, id, key, value)
    ELSE LET slot == branch_slot_for(t.pages[id], key)
             child == branch_child_at(t.pages[id], slot)
         IN  InsertedBelow(id, slot, child, insert_into(t, child, key, value))

(* put: a split of the root grows the tree by a level. *)
WriteRoot(n, down) ==
    LET w == Write(n.t, n.page, Branch(down.page, <<[key |-> down.separator,
                                                    child |-> down.right]>>))
    IN  [page |-> IF Failed(w) THEN root ELSE n.page, t |-> w]

NewRoot(down) ==
    IF Failed(down.t) THEN [page |-> root, t |-> down.t]
    ELSE IF ~down.split THEN [page |-> down.page, t |-> down.t]
    ELSE WriteRoot(NewDirty(down.t), down)

PutResult(t, key, value) == NewRoot(insert_into(t, root, key, value))

(* remove: an emptied child is unlinked and its page released. *)
Rewritten(c, page, empty) ==
    [page |-> c.page, empty |-> empty, t |-> Write(c.t, c.page, page)]

UnlinkChild(c, page, slot) ==
    CASE slot = 0 /\ page.cells = <<>> -> Rewritten(c, page, TRUE)
      [] slot = 0 /\ page.cells # <<>> ->
           Rewritten(c, Branch(page.cells[1].child, Tail(page.cells)), FALSE)
      [] OTHER -> Rewritten(c, Branch(page.extra, RemoveAt(page.cells, slot)), FALSE)

RemovedBelow(id, page, slot, down) ==
    CASE Failed(down.t) -> down
      [] ~Failed(down.t) /\ ~down.empty ->
           Rewritten(cow(down.t, id), set_branch_child(page, slot, down.page), FALSE)
      [] OTHER -> UnlinkChild(Releasing(cow(down.t, id), down.page), page, slot)

RECURSIVE remove_from(_, _, _)
remove_from(t, id, key) ==
    LET page == t.pages[id]
        slot == branch_slot_for(page, key)
        cells == RemoveAt(page.cells, leaf_search(page, key) + 1)
    IN  IF page.kind = "leaf" THEN Rewritten(cow(t, id), Leaf(cells), cells = <<>>)
        ELSE RemovedBelow(id, page, slot,
                          remove_from(t, branch_child_at(page, slot), key))

RECURSIVE DropSpineFreeingChild(_, _)
DropSpineFreeingChild(t, id) ==
    IF t.pages[id].kind = "branch" /\ t.pages[id].cells = <<>>
    THEN DropSpineFreeingChild(release(t, t.pages[id].extra), t.pages[id].extra)
    ELSE [page |-> id, t |-> t]

(* A root branch left without a separator is replaced by its only child. *)
RECURSIVE DropSpine(_, _)
DropSpine(t, id) ==
    IF t.pages[id].kind = "branch" /\ t.pages[id].cells = <<>>
    THEN DropSpine(release(t, id), t.pages[id].extra)
    ELSE [page |-> id, t |-> t]

ShorterTree(down) ==
    IF Failed(down.t) THEN [page |-> root, t |-> down.t]
    ELSE DropSpine(down.t, down.page)

RemoveResult(t, key) == ShorterTree(remove_from(t, root, key))

-----------------------------------------------------------------------------
(* Actions.                                                                *)

Init ==
    /\ stage = "absent"
    /\ generation = 0 /\ root = 0 /\ entries = 0 /\ free = <<>> /\ dirty = {}
    /\ pageCount = 0
    /\ pages = [p \in PageIds |-> NoPage] /\ disk = pages
    /\ unsynced = {}
    /\ snap = [r \in Readers |-> None]
    /\ map = EmptyMap /\ promised = [g \in 0..MaxGen |-> {}]
    /\ durable = 0 /\ ops = 0

(* BTree::open of a file with fewer than two pages: both meta slots and an *)
(* empty root leaf are reserved, and the first commit follows.             *)
initialize ==
    /\ stage' = "creating"
    /\ generation' = 0 /\ root' = FIRST_DATA_PAGE /\ entries' = 0
    /\ free' = <<>> /\ dirty' = {}
    /\ pageCount' = FIRST_DATA_PAGE + 1
    /\ pages' = [disk EXCEPT ![FIRST_DATA_PAGE] = Leaf(<<>>)]
    /\ unsynced' = {FIRST_DATA_PAGE}

Create ==
    /\ stage = "absent"
    /\ initialize
    /\ UNCHANGED <<disk, snap, map, promised, durable, ops>>

Tree(writes) == [free |-> free, dirty |-> dirty, pageCount |-> pageCount,
                 pages |-> pages, writes |-> writes]

(* Pager writes the call may make before one fails; 9 stands for never. *)
Budgets == IF "write" \in Faults THEN {0, 1, 2, 9} ELSE {9}

Install(res) ==
    /\ res.t.pageCount <= MaxPage + 1
    /\ stage' = "idle"
    /\ root' = res.page
    /\ free' = res.t.free /\ dirty' = res.t.dirty
    /\ pageCount' = res.t.pageCount /\ pages' = res.t.pages
    /\ unsynced' = unsynced \cup {p \in PageIds : pages'[p] # pages[p]}
    /\ ops' = ops + 1
    /\ UNCHANGED <<generation, disk, snap, promised, durable>>

Putting(key, value, res) ==
    /\ Install(res)
    /\ IF Failed(res.t) THEN UNCHANGED <<entries, map>>
       ELSE /\ entries' = IF get_at(pages, root, key) = None
                          THEN entries + 1 ELSE entries
            /\ map' = [map EXCEPT ![key] = value]

put(key, value, writes) ==
    /\ Open /\ ops < MaxOps
    /\ Putting(key, value, PutResult(Tree(writes), key, value))

Removing(key, res) ==
    /\ Install(res)
    /\ IF Failed(res.t) THEN UNCHANGED <<entries, map>>
       ELSE /\ entries' = entries - 1
            /\ map' = [map EXCEPT ![key] = None]

remove(key, writes) ==
    /\ Open /\ ops < MaxOps
    /\ get_at(pages, root, key) \notin {None, Error}
    /\ Removing(key, RemoveResult(Tree(writes), key))

(* commit, step 1: every dirty page written and fsynced.  A failure before *)
(* the fsync leaves the tree as it was.                                    *)
CommitFlush ==
    /\ Open \/ stage = "creating"
    /\ building <= MaxGen
    /\ disk' = [p \in PageIds |-> IF p \in unsynced THEN pages[p] ELSE disk[p]]
    /\ unsynced' = {}
    /\ stage' = "flushed"
    /\ UNCHANGED <<treeVars, snap, map, promised, durable, ops>>

AlwaysSlotA == META_A

MetaSlot == IF building % 2 = 0 THEN META_A ELSE META_B

(* commit, step 2: the meta enters the cache.  The free list has moved     *)
(* into it, so a commit that fails from here on has lost the list.         *)
CommitMeta ==
    /\ stage = "flushed"
    /\ pages' = [pages EXCEPT ![MetaSlot] =
                    [kind |-> "meta", generation |-> building, root |-> root,
                     entries |-> entries, pageCount |-> pageCount, free |-> free]]
    /\ unsynced' = {MetaSlot}
    /\ promised' = [promised EXCEPT ![building] = @ \cup {map}]
    /\ stage' = "meta"
    /\ UNCHANGED <<generation, root, entries, free, dirty, pageCount, disk, snap,
                   map, durable, ops>>

(* The meta is written and the commit returns without the second fsync. *)
CommitUnsynced ==
    /\ stage = "meta"
    /\ generation' = building
    /\ dirty' = {}
    /\ durable' = building
    /\ promised' = [g \in 0..MaxGen |-> CASE g = building -> {map}
                                           [] g = generation -> promised[g]
                                           [] OTHER -> {}]
    /\ stage' = "idle"
    /\ UNCHANGED <<root, entries, free, pageCount, pages, disk, unsynced, snap, map, ops>>

(* The fsync of the meta is the commit point. *)
CommitSync ==
    /\ stage = "meta"
    /\ disk' = [disk EXCEPT ![MetaSlot] = pages[MetaSlot]]
    /\ unsynced' = {}
    /\ generation' = building
    /\ dirty' = {}
    /\ durable' = building
    /\ promised' = [g \in 0..MaxGen |-> CASE g = building -> {map}
                                           [] g = generation -> promised[g]
                                           [] OTHER -> {}]
    /\ stage' = "idle"
    /\ UNCHANGED <<root, entries, free, pageCount, pages, snap, map, ops>>

(* The last flush fails.  The caller sees an error and goes on; generation *)
(* and dirty are as before the commit.                                     *)
CommitSyncFails ==
    /\ "sync" \in Faults /\ stage = "meta" /\ generation > 0
    /\ free' = <<>>
    /\ stage' = "idle"
    /\ UNCHANGED <<generation, root, entries, dirty, pageCount, pages, disk,
                   unsynced, snap, map, promised, durable, ops>>

(* snapshot and Snapshot::drop.  The pinned generation is the committed    *)
(* one, the pinned root is the tree's current root.                        *)
snapshot(r) ==
    /\ Open /\ snap[r] = None
    /\ snap' = [snap EXCEPT ![r] = [generation |-> generation, root |-> root,
                                    clean |-> dirty = {}, seen |-> map]]
    /\ UNCHANGED <<stage, treeVars, disk, unsynced, map, promised, durable, ops>>

release_snapshot(r) ==
    /\ snap[r] # None
    /\ snap' = [snap EXCEPT ![r] = None]
    /\ UNCHANGED <<stage, treeVars, disk, unsynced, map, promised, durable, ops>>

Metas(d) == {d[s] : s \in {x \in {META_A, META_B} : d[x].kind = "meta"}}
Newest(metas) == CHOOSE m \in metas : \A n \in metas : m.generation >= n.generation

(* A crash, of the process or of the machine. *)
Crash ==
    /\ \/ "crash" \in Faults /\ generation > 0
             /\ stage \in {"idle", "recovered", "flushed", "meta"}
       \/ "create" \in Faults /\ generation = 0
             /\ stage \in {"creating", "flushed", "meta"}
    /\ \E fate \in [unsynced -> {"old", "new", "torn"}] :
         disk' = [p \in PageIds |->
                    IF p \notin unsynced \/ fate[p] = "old" THEN disk[p]
                    ELSE IF fate[p] = "new" THEN pages[p] ELSE Garbage]
    /\ unsynced' = {}
    /\ snap' = [r \in Readers |-> None]
    /\ stage' = "crashed"
    /\ UNCHANGED <<treeVars, map, promised, durable, ops>>

(* The newest meta page no longer passes its checks at the next open. *)
MetaRots ==
    /\ "rot" \in Faults /\ stage = "crashed" /\ Cardinality(Metas(disk)) = 2
    /\ \E s \in {META_A, META_B} :
         /\ disk[s] = Newest(Metas(disk))
         /\ disk' = [disk EXCEPT ![s] = Garbage]
    /\ UNCHANGED <<stage, treeVars, unsynced, snap, map, promised, durable, ops>>

(* BTree::open: the valid meta of the higher generation, and the allocator *)
(* back at its high-water mark.                                            *)
FilePages == Max({0} \cup {p + 1 : p \in {q \in PageIds : disk[q] # NoPage}})

open ==
    /\ stage = "crashed" /\ FilePages >= FIRST_DATA_PAGE /\ Metas(disk) # {}
    /\ LET meta == Newest(Metas(disk))
       IN  /\ generation' = meta.generation /\ root' = meta.root
           /\ entries' = meta.entries /\ free' = meta.free
           /\ pageCount' = meta.pageCount
           /\ map' = Contents(disk, meta.root)
    /\ dirty' = {} /\ pages' = disk
    /\ stage' = "recovered"
    /\ promised' = [g \in 0..MaxGen |-> IF g > generation' THEN {} ELSE promised[g]]
    /\ UNCHANGED <<disk, unsynced, snap, durable, ops>>

OpenEmpty ==
    /\ stage = "crashed" /\ FilePages < FIRST_DATA_PAGE
    /\ initialize
    /\ map' = EmptyMap
    /\ UNCHANGED <<disk, snap, promised, durable, ops>>

OpenRefuses ==
    /\ stage = "crashed" /\ FilePages >= FIRST_DATA_PAGE /\ Metas(disk) = {}
    /\ stage' = "refused"
    /\ UNCHANGED <<treeVars, disk, unsynced, snap, map, promised, durable, ops>>

Next ==
    \/ Create \/ CommitFlush \/ CommitMeta \/ CommitSync \/ CommitSyncFails
    \/ Crash \/ MetaRots \/ open \/ OpenEmpty \/ OpenRefuses
    \/ \E k \in Keys, w \in Budgets : remove(k, w) \/ \E v \in Vals : put(k, v, w)
    \/ \E r \in Readers : snapshot(r) \/ release_snapshot(r)

Spec == Init /\ [][Next]_vars

-----------------------------------------------------------------------------
(* Properties.                                                             *)

TypeOK ==
    /\ stage \in {"absent", "creating", "idle", "flushed", "meta", "crashed",
                   "recovered", "refused"}
    /\ generation \in 0..MaxGen /\ root \in PageIds /\ entries \in Nat
    /\ pageCount \in 0..(MaxPage + 1)
    /\ dirty \subseteq PageIds /\ unsynced \subseteq PageIds
    /\ DOMAIN pages = PageIds /\ DOMAIN disk = PageIds

Live == stage \in {"idle", "recovered", "flushed", "meta"}

(* Whatever order of puts, removes, splits, promotions and commits led     *)
(* here, a lookup of every key finds exactly what the calls so far put     *)
(* there, and the entry count is the number of keys.                       *)
LookupsAgree ==
    Live => /\ Contents(pages, root) = map
            /\ entries = Cardinality({k \in Keys : map[k] # None})

(* Forward and reverse range scans, which re-descend for every entry and   *)
(* step over subtree boundaries without sibling pointers, return the keys  *)
(* of the interval past the cursor: all of them, once each, in order.      *)
Ascending(lo, hi) ==
    SelectSeq([i \in 1..(hi - lo + 1) |-> lo + i - 1],
              LAMBDA k : k \in Keys /\ map[k] # None)

ScansAgreeOn(lo, hi) ==
    /\ for_each_range_at(pages, root, lo, hi, None, FALSE) = Ascending(lo, hi)
    /\ for_each_range_at(pages, root, lo, hi, None, TRUE) = Reverse(Ascending(lo, hi))
    /\ \A c \in lo..hi :
         /\ for_each_range_at(pages, root, lo, hi, c, FALSE) = Ascending(c + 1, hi)
         /\ for_each_range_at(pages, root, lo, hi, c, TRUE) = Reverse(Ascending(lo, c - 1))

ScansAgree == Live => \A lo, hi \in Keys : lo <= hi => ScansAgreeOn(lo, hi)

(* The same of the interval of all keys, from every cursor. *)
FullScansAgree == Live => ScansAgreeOn(Min(Keys), Max(Keys))

(* After a crash at any point of a generation or of a commit, open finds a *)
(* tree that answers exactly as the generation it opens was committed, and *)
(* that generation is the last one committed (one older only when its meta *)
(* was damaged since): no page a recoverable meta references is ever       *)
(* overwritten, by copy-on-write, by in-place changes or by page reuse.    *)
RecoveredTreeIntact ==
    stage = "recovered" =>
        /\ map \in promised[generation]
        /\ entries = Cardinality({k \in Keys : map[k] # None})
        /\ generation >= IF "rot" \in Faults THEN durable - 1 ELSE durable

(* The pages of the tree rooted at id. *)
RECURSIVE Reachable(_, _)
Reachable(pg, id) ==
    {id} \cup (IF pg[id].kind # "branch" THEN {}
               ELSE UNION {Reachable(pg, branch_child_at(pg[id], s)) :
                             s \in 0..Len(pg[id].cells)})

(* No page the tree uses is on the free list or past the allocator's mark, *)
(* and none is on the list twice: allocate never hands out a page in use.  *)
NoLivePageFree ==
    Live => /\ \A p \in Reachable(pages, root) : p < pageCount
            /\ \A i \in DOMAIN free :
                 /\ free[i].page \notin Reachable(pages, root)
                 /\ \A j \in DOMAIN free : free[i].page = free[j].page => i = j

(* A snapshot taken when no change was pending keeps answering as it did   *)
(* when it was taken, through any number of later puts, removes and        *)
(* commits: page reuse is withheld while it is pinned.                     *)
SnapshotStable ==
    \A r \in Readers :
        snap[r] # None /\ snap[r].clean => Contents(pages, snap[r].root) = snap[r].seen

(* "The returned Snapshot reads the tree as it stood at the moment it was  *)
(* taken, and keeps reading it that way however many commits happen        *)
(* meanwhile" (btree.rs, snapshot), whenever it was taken.                 *)
EverySnapshotStable ==
    \A r \in Readers : snap[r] # None => Contents(pages, snap[r].root) = snap[r].seen

(* The only file open ever refuses is one in which nothing was committed:  *)
(* the two slots alternate, so a commit cannot destroy both metas.         *)
RefusedNeverCommitted == stage = "refused" => durable = 0

(* "there is no window in which the file describes a tree that does not    *)
(* exist" (btree.rs, the two meta pages): open never refuses the file.     *)
AlwaysOpens == stage # "refused"

=============================================================================
