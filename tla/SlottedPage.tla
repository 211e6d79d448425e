----------------------------- MODULE SlottedPage -----------------------------
(***************************************************************************)
(* The slotted page of storage/page.rs, byte by byte, and the way          *)
(* storage/btree.rs splits one that is full.  body is the page's bytes;    *)
(* each byte of the cell area is modelled by the cell that wrote it and    *)
(* the position within that cell, so an overlap or a stale slot shows.     *)
(* The header (magic, version, CRC) is left out: offsets start after it.   *)
(***************************************************************************)
EXTENDS Integers, Sequences, FiniteSets, FiniteSetsExt, SequencesExt, TLC

CONSTANTS Body,      \* PAGE_BODY_LEN - PAGE_HEADER_LEN
          SLOT_LEN,  \* bytes of a directory entry
          Lens,      \* lengths a cell may have
          MaxOps     \* bound: operations, which also names the cells

MAX_CELL_LEN == Body - SLOT_LEN

(* btree.rs bounds a cell (2 + MAX_KEY_LEN + MAX_VALUE_LEN = 5122 bytes)   *)
(* below a third of a page's 16332 bytes.                                  *)
PageAssumption ==
    /\ Body \in Nat /\ SLOT_LEN \in Nat /\ Lens \subseteq Nat
    /\ \A n \in Lens : 3 * (n + SLOT_LEN) <= Body

VARIABLES page,    \* the Page: [slots, free_end, body]
          cells,   \* history: the cells the page should hold, in slot order
          ops

vars == <<page, cells, ops>>

Blank == [cell |-> 0, at |-> 0]
NewPage == [slots |-> <<>>, free_end |-> Body, body |-> [b \in 0..(Body - 1) |-> Blank]]
Bytes(c) == [i \in 0..(c.len - 1) |-> [cell |-> c.id, at |-> i]]

directory_end(p) == Len(p.slots) * SLOT_LEN

free_space(p) == Max({0, p.free_end - directory_end(p)})

(* The lengths of the first n slots or cells together. *)
RECURSIVE TotalLen(_, _)
TotalLen(s, n) == IF n = 0 THEN 0 ELSE s[n].len + TotalLen(s, n - 1)

reclaimable_space(p) == Body - directory_end(p) - TotalLen(p.slots, Len(p.slots))

cell(p, i) == [b \in 0..(p.slots[i].len - 1) |-> p.body[p.slots[i].offset + b]]

(* copy_from_slice: data over the bytes from offset on. *)
CopyTo(body, offset, data) ==
    [b \in DOMAIN body |-> IF b - offset \in DOMAIN data THEN data[b - offset] ELSE body[b]]

(* The cells repacked from the end of the page, every slot keeping its index. *)
compact(p) ==
    LET end == [i \in DOMAIN p.slots |-> Body - TotalLen(p.slots, i)]
        Owner(b) == {i \in DOMAIN end : b - end[i] \in 0..(p.slots[i].len - 1)}
    IN  [slots |-> [i \in DOMAIN p.slots |-> [p.slots[i] EXCEPT !.offset = end[i]]],
         free_end |-> Body - TotalLen(p.slots, Len(p.slots)),
         body |-> [b \in DOMAIN p.body |->
                     IF Owner(b) = {} THEN p.body[b]
                     ELSE LET i == CHOOSE x \in Owner(b) : TRUE
                          IN  p.body[p.slots[i].offset + b - end[i]]]]

(* insert_cell: ok is what it returns.  index is the slot after the insert, *)
(* from 1 on.                                                              *)
InsertWithoutCompacting(p, index, data) ==
    LET len == Cardinality(DOMAIN data)
        needed == len + SLOT_LEN
        end == p.free_end - len
    IN  IF len > MAX_CELL_LEN \/ reclaimable_space(p) < needed
        THEN [ok |-> FALSE, page |-> p]
        ELSE [ok |-> TRUE,
              page |-> [slots |-> InsertAt(p.slots, index, [offset |-> end, len |-> len]),
                        free_end |-> end,
                        body |-> CopyTo(p.body, end, data)]]

insert_cell(p, index, data) ==
    LET len == Cardinality(DOMAIN data)
        needed == len + SLOT_LEN
        q == IF free_space(p) < needed THEN compact(p) ELSE p
        end == q.free_end - len
    IN  IF len > MAX_CELL_LEN \/ (free_space(p) < needed /\ reclaimable_space(p) < needed)
        THEN [ok |-> FALSE, page |-> p]
        ELSE [ok |-> TRUE,
              page |-> [slots |-> InsertAt(q.slots, index, [offset |-> end, len |-> len]),
                        free_end |-> end,
                        body |-> CopyTo(q.body, end, data)]]

push_cell(p, data) == insert_cell(p, Len(p.slots) + 1, data)

remove_cell(p, index) == [p EXCEPT !.slots = RemoveAt(@, index)]

(* replace_cell: in place when the length is the same, else removed and    *)
(* inserted again; a failed insert would have lost the old cell.           *)
InsertBeforeRemoving(p, index, data) ==
    LET r == insert_cell(p, index, data)
    IN  IF r.ok THEN [ok |-> TRUE, page |-> remove_cell(r.page, index + 1)] ELSE r

replace_cell(p, index, data) ==
    IF Cardinality(DOMAIN data) = p.slots[index].len
    THEN [ok |-> TRUE, page |-> [p EXCEPT !.body = CopyTo(@, p.slots[index].offset, data)]]
    ELSE insert_cell(remove_cell(p, index), index, data)

(* The structural checks of decode, on a page read back from disk. *)
decode(p) ==
    /\ directory_end(p) <= p.free_end /\ p.free_end <= Body
    /\ \A i \in DOMAIN p.slots :
         p.slots[i].offset >= p.free_end /\ p.slots[i].offset + p.slots[i].len <= Body

-----------------------------------------------------------------------------
(* Splitting: the cells of a page that cannot take one more are cut in two *)
(* and each half is built into a new page.                                 *)

Weight(cs) == TotalLen(cs, Len(cs)) + Len(cs) * SLOT_LEN

fits(cs) == Weight(cs) <= MAX_CELL_LEN + SLOT_LEN

Midpoint(cs) ==
    Max({1, Min({i \in 0..(Len(cs) - 1) : Weight(SubSeq(cs, 1, i + 1)) * 2 >= Weight(cs)})})

(* The cut nearest the middle that leaves two halves that fit; 0 when none. *)
SplitOffFirst(cs) == 1

split_point(cs) ==
    LET able == {c \in 1..(Len(cs) - 1) :
                   fits(SubSeq(cs, 1, c)) /\ fits(SubSeq(cs, c + 1, Len(cs)))}
        mid == Midpoint(cs)
        Distance(c) == IF c >= mid THEN 2 * (c - mid) ELSE 2 * (mid - c) + 1
    IN  IF able = {} THEN 0
        ELSE CHOOSE c \in able : \A d \in able : Distance(c) <= Distance(d)

(* build_page fails when a cell does not fit any more. *)
RECURSIVE build_page(_)
build_page(cs) ==
    IF cs = <<>> THEN [ok |-> TRUE, page |-> NewPage]
    ELSE LET r == build_page(Front(cs))
         IN  IF r.ok THEN push_cell(r.page, Bytes(Last(cs))) ELSE r

-----------------------------------------------------------------------------

Init == page = NewPage /\ cells = <<>> /\ ops = 0

NewCell(len) == [id |-> ops + 1, len |-> len]

InsertCell(index, len) ==
    LET r == insert_cell(page, index, Bytes(NewCell(len)))
    IN  /\ index \in 1..(Len(cells) + 1) /\ ops < MaxOps
        /\ page' = r.page /\ ops' = ops + 1
        /\ cells' = IF r.ok THEN InsertAt(cells, index, NewCell(len)) ELSE cells

(* The B-tree replaces a cell only after checking that the new one fits. *)
CanReplace(p, index, len) == reclaimable_space(p) + p.slots[index].len >= len

ReplaceCell(index, len) ==
    LET r == replace_cell(page, index, Bytes(NewCell(len)))
    IN  /\ index \in DOMAIN cells /\ ops < MaxOps
        /\ CanReplace(page, index, len)
        /\ page' = r.page /\ ops' = ops + 1
        /\ cells' = [cells EXCEPT ![index] = NewCell(len)]

RemoveCell(index) ==
    /\ index \in DOMAIN cells /\ ops < MaxOps
    /\ page' = remove_cell(page, index) /\ ops' = ops + 1
    /\ cells' = RemoveAt(cells, index)

Next ==
    \E index \in 1..(Body \div SLOT_LEN) :
        RemoveCell(index) \/ \E len \in Lens : InsertCell(index, len) \/ ReplaceCell(index, len)

Spec == Init /\ [][Next]_vars

(* The pages of every sequence of cell lengths, for the splits. *)
Fill == \E len \in Lens : InsertCell(Len(cells) + 1, len)

-----------------------------------------------------------------------------
(* Through any sequence of inserts, replacements of another length,        *)
(* removals and compactions, every slot still reads exactly the bytes of   *)
(* the cell put there, in order, and the page passes decode's checks: no   *)
(* two cells overlap and the directory never runs into the cell area.      *)
CellsIntact ==
    /\ Len(page.slots) = Len(cells)
    /\ \A i \in DOMAIN cells : cell(page, i) = Bytes(cells[i])
    /\ decode(page)

(* insert_cell and replace_cell succeed whenever the B-tree's capacity     *)
(* check says they will; their results are ignored there, and a failed     *)
(* replacement would have dropped the old cell.                            *)
CheckedChangesSucceed ==
    \A len \in Lens :
        LET data == Bytes([id |-> 99, len |-> len])
        IN  /\ reclaimable_space(page) >= len + SLOT_LEN => push_cell(page, data).ok
            /\ \A i \in DOMAIN cells :
                 CanReplace(page, i, len) => replace_cell(page, i, data).ok

(* Whatever full page a cell is inserted into, or grown in, a cut exists   *)
(* and both halves build, so a split always makes progress.                *)
SplitMakesProgress ==
    \A len \in Lens : \A i \in 1..(Len(cells) + 1) :
        LET over == {InsertAt(cells, i, [id |-> 99, len |-> len])}
                    \cup (IF i \in DOMAIN cells
                          THEN {[cells EXCEPT ![i] = [id |-> 99, len |-> len]]} ELSE {})
        IN  \A cs \in over : ~fits(cs) =>
                LET cut == split_point(cs)
                IN  /\ cut # 0
                    /\ build_page(SubSeq(cs, 1, cut)).ok
                    /\ build_page(SubSeq(cs, cut + 1, Len(cs))).ok

=============================================================================
