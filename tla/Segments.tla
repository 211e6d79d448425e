------------------------------ MODULE Segments ------------------------------
(***************************************************************************)
(* The record heap: segment files of pages, the catalog that describes     *)
(* them, the table of open segments, the record cache, and the checkpoint  *)
(* that compacts a mostly dead segment and deletes it once no reader can   *)
(* still hold a location in it (storage/heap.rs, catalog.rs, cache.rs,     *)
(* location.rs and the checkpoint and read-pin code of engine.rs).         *)
(*                                                                         *)
(* One writer (the engine's writer lock) runs mutations and checkpoints;   *)
(* readers run beside it, one action per step they can be interrupted at.  *)
(* The index is a function from a record's key to its location: the trees  *)
(* that hold it are the subject of BTree.tla.  A mutation is durable in    *)
(* the write-ahead log before it is applied (Durability.tla), so the log   *)
(* is the sequence of operations since the last checkpoint.  Sizes count   *)
(* cells: a page body holds PageCap of them.                               *)
(***************************************************************************)
EXTENDS Integers, Sequences, FiniteSets, TLC

CONSTANTS
  Keys,       \* record identities (a LiveKey: address, edge, history key)
  Big,        \* the keys whose records need an overflow chain
  Uncached,   \* the keys of edges and history entries, which no cache holds
  Chunks,     \* pages of the chain of an oversized record
  PageCap,    \* cells a page holds
  MaxPages,   \* MAX_PAGES_PER_SEGMENT
  OpenCap,    \* segment files kept open at once
  CacheCap,   \* records the cache holds
  Readers,
  MaxOps,     \* bound on mutations
  MaxEpoch,   \* bound on checkpoints between two restarts
  MaxCrash,   \* bound on crashes
  Faults,     \* which of "crash", "torn", "flush" can happen
  None, Error

SizesSensible ==
  /\ Big \subseteq Keys /\ Uncached \subseteq Keys
  /\ {Chunks, PageCap, MaxPages, OpenCap, CacheCap} \subseteq Nat \ {0}

VARIABLES
  st,         \* the store in memory and on disk: [cat, pool, lru, disk]
  catD,       \* the catalog file
  index,      \* the index the process uses: key -> location or None
  indexD,     \* the committed generation of it
  log,        \* operations the write-ahead log holds past the checkpoint
  redo,       \* operations recovery has still to replay
  mode,       \* "open", "replay", or "failed" when a replay stops
  pc,         \* the writer's place in checkpoint_locked
  todo,       \* locations drain_segment has still to move
  ready,      \* segments drop_unreferenced_segments is deleting
  epoch, retired,
  rd,         \* the readers
  cache,      \* the record cache, least recently used first
  truth,      \* ghost: the version last written to each key, 0 if none
  ops, crashes

vars == <<st, catD, index, indexD, log, redo, mode, pc, todo, ready, epoch,
          retired, rd, cache, truth, ops, crashes>>

-----------------------------------------------------------------------------
(* Records, cells, pages and locations.                                    *)

Record(k, v) == [key |-> k, ver |-> v]
NoRecord == Record(None, 0)
Stored(r) == [what |-> "record", rec |-> r, at |-> 0, total |-> 1]
Chunk(r, i) == [what |-> "chunk", rec |-> r, at |-> i, total |-> 1]
OverflowStub(first, n) ==
  [what |-> "stub", rec |-> NoRecord, at |-> first, total |-> n]
HeapPage(cells) == [kind |-> "heap", cells |-> cells, extra |-> 0]
OverflowPage(chunk, next) ==
  [kind |-> "overflow", cells |-> <<chunk>>, extra |-> next]
Torn == [kind |-> "torn", cells |-> <<>>, extra |-> 0]
FrameLen(k) == IF k \in Big THEN Chunks * PageCap ELSE 1
RecordLocation(s, p, i, n) == [seg |-> s, page |-> p, slot |-> i, len |-> n]

Empty == <<>>
SegmentMeta == [pages |-> 0, obs |-> 0]
NewCatalog == [next |-> 1, active |-> 0, segs |-> 0 :> SegmentMeta]
Lookup(f, x, default) == IF x \in DOMAIN f THEN f[x] ELSE default
Drop(f, S) == [x \in DOMAIN f \ S |-> f[x]]
Without(s, x) == SelectSeq(s, LAMBDA y : y # x)

-----------------------------------------------------------------------------
(* The table of open segments.                                             *)

\* Pager::flush of one segment.
FlushSegment(s, id) ==
  [s EXCEPT !.disk[id] = s.pool[id] @@ @, !.pool[id] = Empty]
Forget(s, id) == [s EXCEPT !.pool = Drop(@, {id}), !.lru = Without(@, id)]

Victims(s, held) ==
  {i \in 1..Len(s.lru) : s.lru[i] # s.cat.active /\ s.lru[i] \notin held}

RECURSIVE EvictDownTo(_, _)
EvictDownTo(s, held) ==
  LET v == Victims(s, held)
  IN IF Len(s.lru) <= OpenCap \/ v = {} THEN s
     ELSE LET id == s.lru[CHOOSE i \in v : \A j \in v : i <= j]
          IN EvictDownTo(Forget(FlushSegment(s, id), id), held)

\* The victim is written out only after it has left the table, so a flush that
\* fails loses its dirty pages.
EvictFailing(s, held) ==
  LET v == Victims(s, held)
  IN Forget(s, s.lru[CHOOSE i \in v : \A j \in v : i <= j])

Admit(s, id) ==
  IF id \in DOMAIN s.pool
  THEN [s EXCEPT !.lru = Append(Without(@, id), id)]
  ELSE [s EXCEPT !.lru = Append(@, id), !.pool = @ @@ (id :> Empty),
                 !.disk = @ @@ (id :> Empty)]

Known(s, id) == id \in DOMAIN s.pool \/ id \in DOMAIN s.cat.segs

\* RecordStore::pager: touch an open segment, or open it and evict.
Pager(s, id, held) ==
  IF id \in DOMAIN s.pool THEN Admit(s, id)
  ELSE EvictDownTo(Admit(s, id), held \cup {id})

-----------------------------------------------------------------------------
(* Reading a record.                                                       *)

\* Pager::read: the buffered page, or the one on disk.
PageOf(s, id, p) ==
  IF p >= Lookup(s.cat.segs, id, [pages |-> MaxPages + Chunks + 1]).pages
    THEN Torn
  ELSE Lookup(Lookup(s.pool, id, Empty), p,
              Lookup(Lookup(s.disk, id, Empty), p, Torn))

RECURSIVE Walk(_, _, _, _)
Walk(s, id, p, n) ==
  IF n = 0 THEN <<>>
  ELSE LET page == PageOf(s, id, p)
       IN IF page.kind # "overflow" THEN <<Chunk(NoRecord, 0)>>
          ELSE <<page.cells[1]>> \o Walk(s, id, page.extra, n - 1)

\* The whole record, if the chain has every chunk of it in order.
Joined(chain, total) ==
  IF Len(chain) = total /\ \A i \in DOMAIN chain : chain[i] = Chunk(chain[1].rec, i)
  THEN chain[1].rec ELSE Error

FrameIn(s, id, cell) ==
  CASE cell.what = "record" -> cell.rec
    [] cell.what = "stub" -> Joined(Walk(s, id, cell.at, cell.total), cell.total)
    [] OTHER -> Error

\* RecordStore::read: the record at a location, or Error.
ReadFrame(s, loc) ==
  LET page == PageOf(s, loc.seg, loc.page)
  IN IF page.kind = "torn" \/ loc.slot >= Len(page.cells) THEN Error
     ELSE FrameIn(s, loc.seg, page.cells[loc.slot + 1])

-----------------------------------------------------------------------------
(* Appending a record.                                                     *)

Pages(s, id) == Lookup(s.cat.segs, id, SegmentMeta).pages
WritePage(s, id, p, page) == [s EXCEPT !.pool[id] = (p :> page) @@ @]
SetPages(s, id, n) == [s EXCEPT !.cat.segs[id].pages = n]

\* A segment number is handed out again once its segment is gone.
RollReusingIds(s) ==
  LET id == CHOOSE i \in 0..MaxOps * 2 :
              /\ i \notin DOMAIN s.cat.segs
              /\ \A j \in 0..(i - 1) : j \in DOMAIN s.cat.segs
  IN [s EXCEPT !.cat = [next |-> id + 1, active |-> id,
                        segs |-> @.segs @@ (id :> SegmentMeta)]]

Roll(s) ==
  LET id == s.cat.next
  IN [s EXCEPT !.cat = [next |-> id + 1, active |-> id,
                        segs |-> @.segs @@ (id :> SegmentMeta)]]

\* The result of an append: the store, and the location or Error.
Placed(s, id, p, i, n) == [st |-> s, loc |-> RecordLocation(id, p, i, n)]

OnFreshPage(s, id, cell, n) ==
  LET p == Pages(s, id)
  IN Placed(WritePage(SetPages(s, id, p + 1), id, p, HeapPage(<<cell>>)), id, p, 0, n)

\* append_cell_to: the last page if it has room, a fresh page otherwise, in a
\* fresh segment if this one is full and rolling is allowed.
AppendCellIn(s, id, cell, n, roll, held) ==
  LET last == Pages(s, id) - 1
      page == PageOf(s, id, last)
  IN IF last >= 0 /\ page.kind = "torn" THEN [st |-> s, loc |-> Error]
     ELSE IF last >= 0 /\ page.kind = "heap" /\ Len(page.cells) < PageCap
       THEN Placed(WritePage(s, id, last, HeapPage(Append(page.cells, cell))),
                   id, last, Len(page.cells), n)
     ELSE IF roll /\ last + 1 >= MaxPages
       THEN OnFreshPage(Pager(Roll(s), s.cat.next, held), s.cat.next, cell, n)
     ELSE OnFreshPage(Pager(s, id, held), id, cell, n)

AppendCellTo(s, id, cell, n, roll, held) ==
  AppendCellIn(IF Pages(s, id) = 0 THEN s ELSE Pager(s, id, held),
               id, cell, n, roll, held)

\* The chain is written back to front: the last chunk first.
RECURSIVE WriteChain(_, _, _, _, _)
WriteChain(s, id, r, i, next) ==
  IF i = 0 THEN s
  ELSE LET p == Pages(s, id)
       IN WriteChain(SetPages(WritePage(s, id, p, OverflowPage(Chunk(r, i), next)),
                              id, p + 1), id, r, i - 1, p)

\* The chain, and then the stub that names its first page.
AppendStub(s, id, r, roll, held) ==
  AppendCellTo(s, id, OverflowStub(Pages(s, id) - 1, Chunks), FrameLen(r.key), roll, held)

AppendChain(s, id, r, roll, held) ==
  AppendStub(WriteChain(Pager(s, id, held), id, r, Chunks, 0), id, r, roll, held)

\* The cap is looked at only by the path of ordinary records.
AppendOverflowUncapped(s, r, held) == AppendChain(s, s.cat.active, r, FALSE, held)

\* The stub may roll to a fresh segment, away from its chain.
AppendOverflowSplit(s, r, held) ==
  IF Pages(s, s.cat.active) >= MaxPages
  THEN AppendChain(Roll(s), s.cat.next, r, TRUE, held)
  ELSE AppendChain(s, s.cat.active, r, TRUE, held)

AppendOverflow(s, r, held) ==
  IF Pages(s, s.cat.active) >= MaxPages
  THEN AppendChain(Roll(s), s.cat.next, r, FALSE, held)
  ELSE AppendChain(s, s.cat.active, r, FALSE, held)

AppendRecord(s, r, held) ==
  IF r.key \in Big THEN AppendOverflow(s, r, held)
  ELSE AppendCellTo(s, s.cat.active, Stored(r), 1, TRUE, held)

MarkObsolete(s, loc) ==
  IF loc = None \/ loc.seg \notin DOMAIN s.cat.segs THEN s
  ELSE [s EXCEPT !.cat.segs[loc.seg].obs = @ + loc.len]

-----------------------------------------------------------------------------
(* The record cache.                                                       *)

CacheHit(c, loc) == \E i \in DOMAIN c : c[i].loc = loc
CacheGet(c, loc) == c[CHOOSE i \in DOMAIN c : c[i].loc = loc].rec
Invalidate(c, loc) == SelectSeq(c, LAMBDA e : e.loc # loc)
CachePut(c, loc, r) ==
  LET all == Append(Invalidate(c, loc), [loc |-> loc, rec |-> r])
  IN IF Len(all) > CacheCap THEN Tail(all) ELSE all

\* node_at: a hit moves the entry to the recent end; a miss reads and admits.
CacheAfter(c, loc, r) == IF r = Error THEN c ELSE CachePut(c, loc, r)

-----------------------------------------------------------------------------
Held == {rd[r].loc.seg : r \in {q \in Readers : rd[q].at = "holding"}}
Idle == [at |-> "idle", epoch |-> 0, key |-> None, loc |-> None,
         want |-> None, got |-> None]

Init ==
  /\ st = [cat |-> NewCatalog, pool |-> Empty, lru |-> <<>>, disk |-> Empty]
  /\ catD = NewCatalog
  /\ index = [k \in Keys |-> None] /\ indexD = index
  /\ log = <<>> /\ redo = <<>> /\ mode = "open"
  /\ pc = "idle" /\ todo = {} /\ ready = <<>>
  /\ epoch = 1 /\ retired = <<>>
  /\ rd = [r \in Readers |-> Idle]
  /\ cache = <<>> /\ truth = [k \in Keys |-> 0] /\ ops = 0 /\ crashes = 0

(* apply_operation, for the part that touches the heap.  v = 0 deletes.    *)
\* node_at of the node being replaced or deleted: its segment is opened on a
\* cache miss, and the record admitted.  An edge's old record is not read.
Previous(s, loc, rec) == [st |-> s, rec |-> rec, cache |-> CacheAfter(cache, loc, rec)]
PreviousOnMiss(s, loc) == Previous(s, loc, ReadFrame(s, loc))

PreviousRead(k) ==
  LET loc == index[k]
  IN IF k \in Uncached \/ loc = None THEN [st |-> st, rec |-> None, cache |-> cache]
     ELSE IF CacheHit(cache, loc) THEN Previous(st, loc, CacheGet(cache, loc))
     ELSE PreviousOnMiss(IF Known(st, loc.seg) THEN Pager(st, loc.seg, Held) ELSE st, loc)

Inserted(k, v, prev, res) ==
  IF res.loc = Error
  THEN st' = res.st /\ cache' = prev.cache /\ UNCHANGED index
  ELSE /\ st' = MarkObsolete(res.st, index[k])
       /\ index' = [index EXCEPT ![k] = res.loc]
       /\ cache' = IF k \in Uncached THEN cache
                   ELSE CachePut(prev.cache, res.loc, Record(k, v))

ApplyInsert(k, v, prev) ==
  IF prev.rec = Error
  THEN st' = prev.st /\ cache' = prev.cache /\ UNCHANGED index
  ELSE Inserted(k, v, prev, AppendRecord(prev.st, Record(k, v), Held))

ApplyDelete(k, prev) ==
  IF prev.rec = Error
  THEN st' = prev.st /\ UNCHANGED <<index, cache>>
  ELSE /\ st' = MarkObsolete(prev.st, index[k])
       /\ index' = [index EXCEPT ![k] = None]
       /\ cache' = Invalidate(prev.cache, index[k])

Apply(k, v) ==
  IF v = 0 THEN ApplyDelete(k, PreviousRead(k)) ELSE ApplyInsert(k, v, PreviousRead(k))

Mutate(k, v) ==
  /\ mode = "open" /\ pc = "idle" /\ ops < MaxOps
  /\ v = 0 => index[k] # None
  /\ ops' = ops + 1
  /\ log' = Append(log, <<k, v>>)
  /\ truth' = [truth EXCEPT ![k] = v]
  /\ Apply(k, v)
  /\ UNCHANGED <<catD, indexD, redo, mode, pc, todo, ready, epoch, retired,
                 rd, crashes>>

-----------------------------------------------------------------------------
(* checkpoint_locked.                                                      *)

CompactionCandidates ==
  {s \in DOMAIN st.cat.segs :
     LET meta == st.cat.segs[s]
     IN /\ s # st.cat.active /\ meta.pages > 0
        /\ 2 * meta.obs >= meta.pages * PageCap}

Locations(s) ==
  {RecordLocation(s, p, i, n) : p \in 0..Pages(st, s) - 1,
                                i \in 0..PageCap - 1, n \in {FrameLen(k) : k \in Keys}}
\* A page the read of which runs past the end of the file: scan_segment skips
\* it.  Any other page that does not verify aborts the checkpoint.
PastEnd(s, p) ==
  p \notin DOMAIN Lookup(st.pool, s, Empty) /\ \A q \in DOMAIN st.disk[s] : q < p
Unreadable(s) ==
  \E p \in 0..Pages(st, s) - 1 : PageOf(st, s, p).kind = "torn" /\ ~PastEnd(s, p)
\* The locations in a segment that the index names: the live records.
LiveIn(s) ==
  {loc \in Locations(s) : ~PastEnd(s, loc.page) /\ \E k \in Keys : index[k] = loc}

\* compact: the scan of the one segment it picks.
StartCheckpoint ==
  /\ mode = "open" /\ pc = "idle" /\ epoch < MaxEpoch
  /\ LET c == CompactionCandidates
         s == CHOOSE x \in c : \A y \in c : x <= y
     IN IF c = {} THEN /\ pc' = "flush" /\ todo' = {} /\ ready' = <<>>
                       /\ UNCHANGED st
        ELSE /\ st' = Pager(st, s, Held)
             /\ IF Unreadable(s)
                THEN UNCHANGED <<pc, todo, ready>>
                ELSE pc' = "drain" /\ todo' = LiveIn(s) /\ ready' = <<s>>
  /\ UNCHANGED <<catD, index, indexD, log, redo, mode, epoch, retired, rd,
                 cache, truth, ops, crashes>>

\* drain_segment: copy one live record and repoint the index at the copy.
Drained(old, rec, res) ==
  /\ st' = res.st
  /\ IF rec = Error \/ res.loc = Error
     THEN pc' = "idle" /\ UNCHANGED <<index, todo>>
     ELSE /\ index' = [index EXCEPT ![rec.key] = res.loc]
          /\ todo' = todo \ {old} /\ UNCHANGED pc

Drain(old, rec) ==
  Drained(old, rec, AppendRecord(Pager(st, old.seg, Held), rec, Held))

DrainRecord ==
  /\ pc = "drain"
  /\ IF todo = {} THEN pc' = "flush" /\ UNCHANGED <<st, index, todo>>
     ELSE \E old \in todo :
            /\ \A b \in todo : old.page < b.page \/ (old.page = b.page /\ old.slot <= b.slot)
            /\ Drain(old, ReadFrame(st, old))
  /\ UNCHANGED <<catD, indexD, log, redo, mode, ready, epoch, retired, rd,
                 cache, truth, ops, crashes>>

DirtyPages == UNION {{<<s, p>> : p \in DOMAIN st.pool[s]} : s \in DOMAIN st.pool}

\* RecordStore::sync: every dirty page of every open segment, in any order,
\* and then the catalog.
FlushPage(s, p) ==
  /\ pc = "flush" /\ <<s, p>> \in DirtyPages
  /\ st' = [st EXCEPT !.disk[s] = (p :> st.pool[s][p]) @@ @,
                      !.pool[s] = Drop(@, {p})]
  /\ UNCHANGED <<catD, index, indexD, log, redo, mode, pc, todo, ready, epoch,
                 retired, rd, cache, truth, ops, crashes>>

\* The catalog is saved before the pages it describes are written.
CatalogSaveFirst ==
  /\ pc = "flush"
  /\ catD' = st.cat /\ pc' = "commit"
  /\ UNCHANGED <<st, index, indexD, log, redo, mode, todo, ready, epoch,
                 retired, rd, cache, truth, ops, crashes>>

CatalogSave ==
  /\ pc = "flush" /\ DirtyPages = {}
  /\ catD' = st.cat /\ pc' = "commit"
  /\ UNCHANGED <<st, index, indexD, log, redo, mode, todo, ready, epoch,
                 retired, rd, cache, truth, ops, crashes>>

\* indexes.commit and then checkpoint::advance.
IndexCommit ==
  /\ pc = "commit"
  /\ indexD' = index /\ pc' = "advance"
  /\ UNCHANGED <<st, catD, index, log, redo, mode, todo, ready, epoch,
                 retired, rd, cache, truth, ops, crashes>>

Advance ==
  /\ pc = "advance"
  /\ log' = <<>> /\ pc' = "epoch"
  /\ UNCHANGED <<st, catD, index, indexD, redo, mode, todo, ready, epoch,
                 retired, rd, cache, truth, ops, crashes>>

\* The epoch moves and the drained segment is retired at the new one.
RetireDrained ==
  /\ pc = "epoch"
  /\ epoch' = epoch + 1
  /\ retired' = retired \o [i \in DOMAIN ready |-> <<ready[i], epoch + 1>>]
  /\ ready' = <<>> /\ pc' = "select"
  /\ UNCHANGED <<st, catD, index, indexD, log, redo, mode, todo, rd, cache,
                 truth, ops, crashes>>

Pinned == {r \in Readers : rd[r].at \notin {"idle", "loaded"}}
OldestReader == CHOOSE e \in {rd[r].epoch : r \in Pinned} :
                  \A r \in Pinned : e <= rd[r].epoch
\* Off by one: a reader of the epoch before counts as past the retirement.
UnreferencedEarly(e) == Pinned = {} \/ OldestReader >= e - 1
Unreferenced(e) == Pinned = {} \/ OldestReader >= e
\* drop_unreferenced_segments, up to the loop that deletes.
SelectReady ==
  /\ pc = "select"
  /\ LET go == SelectSeq(retired, LAMBDA x : Unreferenced(x[2]))
     IN /\ ready' = [i \in DOMAIN go |-> go[i][1]]
        /\ retired' = SelectSeq(retired, LAMBDA x : ~Unreferenced(x[2]))
  /\ pc' = "drop"
  /\ UNCHANGED <<st, catD, index, indexD, log, redo, mode, todo, epoch, rd,
                 cache, truth, ops, crashes>>

\* drop_segment: out of the catalog, the catalog saved, out of the table ...
DropSegment ==
  /\ pc = "drop"
  /\ IF ready = <<>> THEN pc' = "idle" /\ UNCHANGED <<st, catD>>
     ELSE LET s1 == [st EXCEPT !.cat.segs = Drop(@, {Head(ready)})]
          IN st' = Forget(s1, Head(ready)) /\ catD' = s1.cat /\ pc' = "unlink"
  /\ UNCHANGED <<index, indexD, log, redo, mode, todo, ready, epoch, retired,
                 rd, cache, truth, ops, crashes>>

\* ... and the file deleted.  A descriptor a reader holds stays readable.
RemoveFile ==
  /\ pc = "unlink"
  /\ st' = [st EXCEPT !.disk =
              IF Head(ready) \in Held THEN @ ELSE Drop(@, {Head(ready)})]
  /\ ready' = Tail(ready) /\ pc' = "drop"
  /\ UNCHANGED <<catD, index, indexD, log, redo, mode, todo, epoch, retired,
                 rd, cache, truth, ops, crashes>>

Checkpoint ==
  \/ StartCheckpoint \/ DrainRecord \/ CatalogSave \/ IndexCommit \/ Advance
  \/ RetireDrained \/ SelectReady \/ DropSegment \/ RemoveFile
  \/ \E d \in DirtyPages : FlushPage(d[1], d[2])

-----------------------------------------------------------------------------
(* Readers: with_engine pins, the closure resolves a key and reads it.     *)

UnchangedByReader ==
  UNCHANGED <<catD, index, indexD, log, redo, mode, pc, todo, ready, epoch,
              retired, truth, ops, crashes>>

\* pin_read loads the epoch and only then registers it.
LoadEpoch(r) ==
  /\ mode = "open" /\ rd[r].at = "idle"
  /\ rd' = [rd EXCEPT ![r].at = "loaded", ![r].epoch = epoch]
  /\ UnchangedByReader /\ UNCHANGED <<st, cache>>

PinRead(r) ==
  /\ rd[r].at = "loaded"
  /\ rd' = [rd EXCEPT ![r].at = "pinned"]
  /\ UnchangedByReader /\ UNCHANGED <<st, cache>>

\* node_location: what the index says now.  want is what the key holds now.
Resolve(r, k) ==
  /\ rd[r].at = "pinned" /\ index[k] # None
  /\ rd' = [rd EXCEPT ![r].at = "located", ![r].key = k, ![r].loc = index[k],
                      ![r].want = ReadFrame(st, index[k])]
  /\ UnchangedByReader /\ UNCHANGED <<st, cache>>

\* node_at with a cache hit, or the first half of RecordStore::read.
Consult(r) ==
  /\ rd[r].at = "located"
  /\ LET loc == rd[r].loc
     IN \/ /\ CacheHit(cache, loc)
           /\ rd' = [rd EXCEPT ![r].at = "done", ![r].got = CacheGet(cache, loc)]
           /\ cache' = CachePut(cache, loc, CacheGet(cache, loc))
           /\ UNCHANGED st
        \/ /\ ~CacheHit(cache, loc) /\ Known(st, loc.seg)
           /\ rd' = [rd EXCEPT ![r].at = "holding"]
           /\ st' = Pager(st, loc.seg, Held)
           /\ UNCHANGED cache
        \/ /\ ~CacheHit(cache, loc) /\ ~Known(st, loc.seg)
           /\ rd' = [rd EXCEPT ![r].at = "done", ![r].got = Error]
           /\ UNCHANGED <<st, cache>>
  /\ UnchangedByReader

\* The eviction that opening the segment causes cannot write a page.
ConsultFlushFails(r) ==
  /\ "flush" \in Faults /\ rd[r].at = "located"
  /\ LET loc == rd[r].loc
         opened == Admit(st, loc.seg)
     IN /\ ~CacheHit(cache, loc) /\ loc.seg \in DOMAIN st.cat.segs \ DOMAIN st.pool
        /\ Len(opened.lru) > OpenCap
        /\ Victims(opened, Held \cup {loc.seg}) # {}
        /\ st' = EvictFailing(opened, Held \cup {loc.seg})
  /\ rd' = [rd EXCEPT ![r].at = "done", ![r].got = rd[r].want]
  /\ UnchangedByReader /\ UNCHANGED cache

ReadPage(r) ==
  /\ rd[r].at = "holding"
  /\ LET rec == ReadFrame(st, rd[r].loc)
     IN /\ rd' = [rd EXCEPT ![r].at = "done", ![r].got = rec]
        /\ cache' = IF rd[r].key \in Uncached THEN cache
                    ELSE CacheAfter(cache, rd[r].loc, rec)
        /\ st' = IF rd[r].loc.seg \in DOMAIN st.cat.segs THEN st
                 ELSE [st EXCEPT !.disk = Drop(@, {rd[r].loc.seg} \ (Held \ {rd[r].loc.seg}))]
  /\ UnchangedByReader

\* The closure may resolve another key under the same pin, or end.
ReleaseRead(r) ==
  /\ rd[r].at \in {"pinned", "done"}
  /\ rd' = [rd EXCEPT ![r] = Idle]
  /\ UnchangedByReader /\ UNCHANGED <<st, cache>>

Read(r) ==
  \/ LoadEpoch(r) \/ PinRead(r) \/ Consult(r) \/ ConsultFlushFails(r)
  \/ ReadPage(r) \/ ReleaseRead(r)
  \/ \E k \in Keys : Resolve(r, k)

-----------------------------------------------------------------------------
(* Crashes and recovery.                                                   *)

CrashWith(disk) ==
  /\ "crash" \in Faults /\ crashes < MaxCrash
  /\ crashes' = crashes + 1
  /\ st' = [cat |-> catD, pool |-> Empty, lru |-> <<>>, disk |-> disk]
  /\ index' = indexD /\ cache' = <<>>
  /\ mode' = IF log = <<>> THEN "open" ELSE "replay"
  /\ redo' = log
  /\ pc' = "idle" /\ todo' = {} /\ ready' = <<>>
  /\ epoch' = 1 /\ retired' = <<>>
  /\ rd' = [r \in Readers |-> Idle]
  /\ UNCHANGED <<catD, indexD, log, truth, ops>>

Crash == CrashWith(st.disk)

\* The crash interrupts the rewriting of a page in place.
CrashTearing ==
  /\ "torn" \in Faults /\ pc = "flush"
  /\ \E d \in DirtyPages : CrashWith([st.disk EXCEPT ![d[1]] = (d[2] :> Torn) @@ @])

Replay ==
  /\ mode = "replay"
  /\ Apply(Head(redo)[1], Head(redo)[2])
  /\ LET k == Head(redo)[1]
         failed == index'[k] = index[k] /\ ~(Head(redo)[2] = 0 /\ index[k] = None)
     IN mode' = IF failed THEN "failed"
                ELSE IF Len(redo) = 1 THEN "open" ELSE "replay"
  /\ redo' = Tail(redo)
  /\ UNCHANGED <<catD, indexD, log, pc, todo, ready, epoch, retired, rd, truth,
                 ops, crashes>>

Next ==
  \/ \E k \in Keys : Mutate(k, ops + 1) \/ Mutate(k, 0)
  \/ Checkpoint
  \/ \E r \in Readers : Read(r)
  \/ Crash \/ CrashTearing \/ Replay

Spec == Init /\ [][Next]_vars

-----------------------------------------------------------------------------
(* Properties.                                                             *)

Located == UNION {{loc \in {index[k], indexD[k]} : loc # None} : k \in Keys}
TypeOK ==
  /\ \A loc \in Located : loc.seg \in Nat /\ loc.page \in Nat /\ loc.slot \in Nat
  /\ mode \in {"open", "replay", "failed"}
  /\ pc \in {"idle", "drain", "flush", "commit", "advance", "epoch", "select",
             "drop", "unlink"}
  /\ DOMAIN st.pool = {st.lru[i] : i \in DOMAIN st.lru}
  /\ DOMAIN st.pool \subseteq DOMAIN st.disk
  /\ Len(cache) <= CacheCap

Holds(s, idx, k) ==
  IF truth[k] = 0 THEN idx[k] = None
  ELSE idx[k] # None /\ ReadFrame(s, idx[k]) = Record(k, truth[k])

\* In a serving process every key resolves through the index to the record
\* last written to it: no compaction, roll, eviction or deletion loses a record
\* or mixes two up (heap.rs, LiveKey::repoint).
ServedRecordsResolve == mode = "open" => \A k \in Keys : Holds(st, index, k)

\* What a restart would find: a key the log does not rewrite resolves through
\* the committed index, in the files the saved catalog describes, to the record
\* last written.  This is the order of a checkpoint: pages, catalog, index,
\* boundary, and only then the deletion of a segment (StorageEngine::checkpoint;
\* the ordering rule of catalog.rs).
OnDisk == [cat |-> catD, pool |-> Empty, lru |-> <<>>, disk |-> st.disk]
CheckpointedRecordsReadable ==
  \A k \in Keys :
    (\A i \in DOMAIN log : log[i][1] # k) =>
      /\ Holds(OnDisk, indexD, k)
      /\ indexD[k] # None => indexD[k].seg \in DOMAIN catD.segs

\* A read that resolved a key under its pin returns the record the key had at
\* that moment, whatever checkpoints compacted, retired, deleted or evicted
\* since, and whether or not the cache answers (pin_read, cache.rs).
ReadersGetWhatTheyResolved ==
  \A r \in Readers : rd[r].at = "done" => rd[r].got = rd[r].want

\* A location that outlives its record can only fail to resolve, never name
\* another record (CatalogData::next_segment): every cached entry and every
\* location a reader holds either does not resolve or resolves to its record.
StaleLocationsNeverMisread ==
  /\ \A i \in DOMAIN cache :
       cache[i].loc.seg \in DOMAIN st.cat.segs =>
         ReadFrame(st, cache[i].loc) \in {cache[i].rec, Error}
  /\ \A r \in Readers :
       (rd[r].at \in {"located", "holding"} /\ rd[r].loc.seg \in DOMAIN st.cat.segs)
         => ReadFrame(st, rd[r].loc) \in {rd[r].want, Error}

\* A segment outgrows the cap by one record at most: the chain that filled it
\* and its stub (append_overflow's check of MAX_PAGES_PER_SEGMENT).
SegmentsBounded ==
  \A s \in DOMAIN st.cat.segs : st.cat.segs[s].pages <= MaxPages + Chunks

\* The list of retired segments "grows by one (u32, u64) per deferred segment"
\* (drop_unreferenced_segments): no segment is in it twice.
RetiredOnce ==
  \A i, j \in DOMAIN retired : retired[i][1] = retired[j][1] => i = j

=============================================================================
