------------------------------ MODULE MCStorage ------------------------------
(***************************************************************************)
(* The storage structures on small instances: the copy-on-write tree, the  *)
(* slotted page and the record heap.  They share no state in the code that *)
(* these modules model, so each behaviour is one scenario, picked in the   *)
(* initial state: one component with one choice of its constants.  The     *)
(* variables of the components that do not run keep a fixed value.         *)
(***************************************************************************)
EXTENDS Integers

CONSTANTS None, Error, r1

VARIABLES
  scenario,
  ops,                                                        \* all three count
  stage, generation, root, entries, free, dirty, pageCount, pages, disk,
  unsynced, snap, map, promised, durable,                               \* BTree
  page, cells,                                                    \* SlottedPage
  st, catD, index, indexD, log, redo, mode, pc, todo, ready, epoch, retired,
  rd, cache, truth, crashes                                          \* Segments

treeVars == <<stage, generation, root, entries, free, dirty, pageCount, pages,
              disk, unsynced, snap, map, promised, durable>>
pageVars == <<page, cells>>
heapVars == <<st, catD, index, indexD, log, redo, mode, pc, todo, ready, epoch,
              retired, rd, cache, truth, crashes>>
vars == <<scenario, ops, treeVars, pageVars, heapVars>>

-----------------------------------------------------------------------------
(* The scenarios.                                                          *)

\* Trees three levels deep, built by every order of puts and removes.
Shape == INSTANCE BTree
  WITH Keys <- 1 .. 5, Vals <- {1}, Capacity <- 2, Readers <- {}, MaxPage <- 18,
       MaxFree <- 8, MaxGen <- 1, MaxOps <- 9, Faults <- {}

\* The same with commits in between, so that branches of committed generations
\* are copied and the pages they leave are used again.
Aged == INSTANCE BTree
  WITH Keys <- 1 .. 5, Vals <- {1}, Capacity <- 2, Readers <- {}, MaxPage <- 18,
       MaxFree <- 8, MaxGen <- 3, MaxOps <- 6, Faults <- {}

\* Crashes at every point of three generations.
Crashed == INSTANCE BTree
  WITH Keys <- 1 .. 3, Vals <- {1}, Capacity <- 2, Readers <- {}, MaxPage <- 9,
       MaxFree <- 8, MaxGen <- 4, MaxOps <- 3, Faults <- {"crash", "create"}

\* The same, and the newest meta may rot before the restart.
Broken == INSTANCE BTree
  WITH Keys <- 1 .. 3, Vals <- {1}, Capacity <- 2, Readers <- {}, MaxPage <- 9,
       MaxFree <- 8, MaxGen <- 4, MaxOps <- 3, Faults <- {"crash", "create", "rot"}

\* A pinned reader beside a writer whose commits may fail.
Pinned == INSTANCE BTree
  WITH Keys <- 1 .. 2, Vals <- {1}, Capacity <- 2, Readers <- {r1}, MaxPage <- 12,
       MaxFree <- 8, MaxGen <- 4, MaxOps <- 4, Faults <- {"sync"}

\* Every change of a page of at most six small cells.
Cells == INSTANCE SlottedPage WITH Body <- 12, SLOT_LEN <- 1, Lens <- {1, 3}, MaxOps <- 5

\* Every page a split may meet, with cells up to a third of it.
Split == INSTANCE SlottedPage WITH Body <- 21, SLOT_LEN <- 1, Lens <- {1, 3, 6}, MaxOps <- 6

\* A reader beside compacting checkpoints; segments and caches of one entry.
Heap == INSTANCE Segments
  WITH Keys <- {"a", "b"}, Big <- {"b"}, Uncached <- {}, Chunks <- 2, PageCap <- 2,
       MaxPages <- 1, OpenCap <- 1, CacheCap <- 1, Readers <- {r1}, MaxOps <- 4,
       MaxEpoch <- 2, MaxCrash <- 0, Faults <- {}

\* A crash at every point of a checkpoint.
HeapCrash == INSTANCE Segments
  WITH Keys <- {"a", "b"}, Big <- {"b"}, Uncached <- {"b"}, Chunks <- 2, PageCap <- 2,
       MaxPages <- 2, OpenCap <- 1, CacheCap <- 1, Readers <- {}, MaxOps <- 4,
       MaxEpoch <- 4, MaxCrash <- 1, Faults <- {"crash"}

\* Torn pages and failing flushes under a reader.
HeapFaults == INSTANCE Segments
  WITH Keys <- {"a", "b"}, Big <- {}, Uncached <- {"b"}, Chunks <- 2, PageCap <- 1,
       MaxPages <- 1, OpenCap <- 1, CacheCap <- 2, Readers <- {r1}, MaxOps <- 3,
       MaxEpoch <- 2, MaxCrash <- 1, Faults <- {"crash", "torn", "flush"}

ASSUME ConstantsSensible ==
  /\ Shape!BTreeAssumption /\ Aged!BTreeAssumption /\ Crashed!BTreeAssumption
  /\ Broken!BTreeAssumption /\ Pinned!BTreeAssumption
  /\ Cells!PageAssumption /\ Split!PageAssumption
  /\ Heap!SizesSensible /\ HeapCrash!SizesSensible /\ HeapFaults!SizesSensible

NoTree ==
  /\ stage = "none" /\ generation = 0 /\ root = 0 /\ entries = 0 /\ free = <<>>
  /\ dirty = {} /\ pageCount = 0 /\ pages = <<>> /\ disk = <<>> /\ unsynced = {}
  /\ snap = <<>> /\ map = <<>> /\ promised = <<>> /\ durable = 0
NoPage == page = <<>> /\ cells = <<>>
NoHeap ==
  /\ st = <<>> /\ catD = <<>> /\ index = <<>> /\ indexD = <<>> /\ log = <<>>
  /\ redo = <<>> /\ mode = "none" /\ pc = "none" /\ todo = {} /\ ready = <<>>
  /\ epoch = 0 /\ retired = <<>> /\ rd = <<>> /\ cache = <<>> /\ truth = <<>>
  /\ crashes = 0

Init ==
  \/ /\ NoPage /\ NoHeap
     /\ \/ scenario = "shape" /\ Shape!Init
        \/ scenario = "aged" /\ Aged!Init
        \/ scenario = "crashed" /\ Crashed!Init
        \/ scenario = "broken" /\ Broken!Init
        \/ scenario = "pinned" /\ Pinned!Init
  \/ /\ NoTree /\ NoHeap
     /\ \/ scenario = "cells" /\ Cells!Init
        \/ scenario = "split" /\ Split!Init
  \/ /\ NoTree /\ NoPage
     /\ \/ scenario = "heap" /\ Heap!Init
        \/ scenario = "heapcrash" /\ HeapCrash!Init
        \/ scenario = "heapfaults" /\ HeapFaults!Init

Next ==
  /\ UNCHANGED scenario
  /\ \/ /\ \/ scenario = "shape" /\ Shape!Next
           \/ scenario = "aged" /\ Aged!Next
           \/ scenario = "crashed" /\ Crashed!Next
           \/ scenario = "broken" /\ Broken!Next
           \/ scenario = "pinned" /\ Pinned!Next
        /\ UNCHANGED <<pageVars, heapVars>>
     \/ /\ \/ scenario = "cells" /\ Cells!Next
           \/ scenario = "split" /\ Split!Fill
        /\ UNCHANGED <<treeVars, heapVars>>
     \/ /\ \/ scenario = "heap" /\ Heap!Next
           \/ scenario = "heapcrash" /\ HeapCrash!Next
           \/ scenario = "heapfaults" /\ HeapFaults!Next
        /\ UNCHANGED <<treeVars, pageVars>>

Spec == Init /\ [][Next]_vars

-----------------------------------------------------------------------------
(* What is checked, by scenario.  The definitions are the components'.     *)

\* btree.rs, get_at and for_each_range_at: through every split, promotion, commit,
\* copy of a committed page and reuse of a free one, a lookup finds what the puts
\* and removes so far put there, and forward and reverse scans meet every key past
\* the cursor once, in order; the free list never names a page the tree uses.
TreeIsSound ==
  /\ scenario = "shape" => Shape!LookupsAgree /\ Shape!ScansAgree /\ Shape!NoLivePageFree
  /\ scenario = "aged" => Aged!LookupsAgree /\ Aged!FullScansAgree /\ Aged!NoLivePageFree

\* btree.rs, commit and open: after a crash at any point the newest committed
\* generation answers as it was committed, or the one before it if the newest
\* meta has rotted since; only a file in which nothing was committed is refused.
RecoveredTreeIntact ==
  /\ scenario = "crashed" => Crashed!RecoveredTreeIntact /\ Crashed!RefusedNeverCommitted
  /\ scenario = "broken" => Broken!RecoveredTreeIntact /\ Broken!RefusedNeverCommitted

\* btree.rs, snapshot: a snapshot of a committed tree keeps answering as it did.
SnapshotStable == scenario = "pinned" => Pinned!SnapshotStable

\* page.rs and btree.rs, split_point: every slot reads the bytes of its cell,
\* through inserts, replacements, removals and compactions; a change the capacity
\* check admits succeeds, and a page too full for one has a cut into two that fit.
CellsIntact ==
  /\ scenario = "cells" => Cells!CellsIntact /\ Cells!CheckedChangesSucceed
  /\ scenario = "split" => Split!SplitMakesProgress

\* heap.rs, engine.rs, pin_read, and catalog.rs, next_segment: in a serving process
\* every key resolves to its last record, a pinned read returns the record it
\* resolved, and a location that is no longer pinned fails or names its own record,
\* never another.
LocationsResolve ==
  /\ scenario = "heap" => Heap!ServedRecordsResolve /\ Heap!ReadersGetWhatTheyResolved
  /\ scenario = "heapfaults" => HeapFaults!StaleLocationsNeverMisread

\* engine.rs, checkpoint, and heap.rs, append_overflow: what a restart finds is
\* what the checkpoint covers, in segments that exceed their cap by one record at
\* most.
CheckpointedRecordsReadable ==
  scenario = "heapcrash" =>
    HeapCrash!CheckpointedRecordsReadable /\ HeapCrash!SegmentsBounded

=============================================================================
