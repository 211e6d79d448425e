------------------------------- MODULE Query -------------------------------
(***************************************************************************)
(* Reads that walk an index page by page (storage/engine.rs, query and     *)
(* query_where) while writers insert, delete and rewrite rows and declare  *)
(* and drop indexes.                                                       *)
(*                                                                         *)
(* A page fixes a plan and pins the index it walks: todo is the range of   *)
(* keys the pinned root holds.  Each key is then read in a step of its     *)
(* own, and what it resolves to is the row of that moment (read_node),     *)
(* except in a walk of the primary index, which reads through the pinned   *)
(* location.  The client hands the cursor of one page to the next.         *)
(*                                                                         *)
(* Index order is the order of values with the address as tiebreak, an     *)
(* equality prefix is the rows that hold an equal value: MCReads checks    *)
(* both for the encoding.                                                  *)
(***************************************************************************)
EXTENDS Predicate, TLC

CONSTANTS
  Addrs,        \* addresses, integers in byte order
  Shapes,       \* the rows that may be stored: [kind, own, pub, f, g]
  StartRows,    \* the contents paging may begin with
  Queries,      \* the queries asked: [kind, own, req, pred, order, desc, limit, offset, list]
  Definitions,  \* the indexes that may be declared: [name, type, kind, field]
  MaxScanRows,  \* max_scan_rows()
  MaxOffset,    \* max_query_offset()
  SeedGrams, SeedEnough, ProbeGrams, ProbeFloor,  \* MAX_TEXT_SEED_GRAMS and the like
  MaxWrites,    \* bound on writes while one query is paged
  Rewrites,     \* may a write land on an address that was written before?
  Declares,     \* may an index be declared or dropped between two pages?
  NoRow         \* nothing stored at an address

AddrsInt == Addrs \subseteq Int

Unset == "unset"
TrueExpr == Lit(Bool(TRUE))

VARIABLES rows, declared, q, walk, cursor, seen, status, touched, writes
vars == <<rows, declared, q, walk, cursor, seen, status, touched, writes>>

NoCursor == [a |-> 0, o |-> Failure]
NoWalk == [via |-> "none", field |-> "none", todo |-> <<>>, got |-> <<>>, skipped |-> 0,
           more |-> FALSE, pinned |-> <<>>]

-----------------------------------------------------------------------------
(* Rows.                                                                   *)

Live == {a \in Addrs : rows[a] # NoRow}
OfKind(kind) == {a \in Live : rows[a].kind = kind}
CanRead(row, req) == req = Unset \/ row.pub \/ row.own = req

\* The matches closure of query_where.
Verdict(row) ==
  IF \/ q.kind # Unset /\ row.kind # q.kind
     \/ q.own # Unset /\ row.own # q.own
     \/ ~CanRead(row, q.req)
  THEN "no"
  ELSE LET v == Eval(q.pred, row)
       IN CASE v = Failure -> "error"
            [] v = Bool(TRUE) -> "yes"
            [] OTHER -> "no"

\* Rows of equal value have no order among them.
KeyLessNoTiebreak(v, a, w, b) == OrderLess(v, w)
KeyLess(v, a, w, b) == OrderLess(v, w) \/ (OrderEqual(v, w) /\ a < b)

InOrder(S, field) ==
  SetToSortSeq(S, LAMBDA a, b : IF field = "none" THEN a < b
                                ELSE KeyLess(rows[a][field], a, rows[b][field], b))

-----------------------------------------------------------------------------
(* Cursors.                                                                *)

\* Encoding and decoding a cursor: the order value is an Option in JSON, and
\* an explicit null comes back as an absent value.
OverTheWire(v) == IF v = Null THEN Absent ELSE v
CursorFromNode(a, row, field) ==
  [a |-> a, o |-> IF field = "none" THEN Absent ELSE OverTheWire(row[field])]

\* Strictly past the cursor in the direction of the walk.
Past(a, v) ==
  \/ cursor = NoCursor
  \/ IF q.desc THEN KeyLess(v, a, cursor.o, cursor.a) ELSE KeyLess(cursor.o, cursor.a, v, a)

Directed(s) == IF q.desc THEN Reverse(s) ELSE s

\* The range of a walk from the cursor: by key of an index over field, or by
\* address alone.
KeyRange(S, field) ==
  Directed(SelectSeq(InOrder(S, field),
                     LAMBDA a : Past(a, IF field = "none" THEN cursor.o ELSE rows[a][field])))

-----------------------------------------------------------------------------
(* Plans.                                                                  *)

\* Declared indexes of one type in name order.
InNameOrder(type) ==
  SetToSortSeq({d \in declared : d.type = type}, LAMBDA d, e : d.name < e.name)

\* equality_selection: the first data index whose field the predicate pins.
EqualitySelection ==
  SelectSeq(InNameOrder("data"),
            LAMBDA d : d.kind = q.kind /\ EqualityLiteral(q.pred, d.field, 0) # Null)
HasEquality == EqualitySelection # <<>>
EqualityField == Head(EqualitySelection).field
EqualRows ==
  {a \in OfKind(q.kind) :
     OrderEqual(rows[a][EqualityField], EqualityLiteral(q.pred, EqualityField, 0))}

DataFind(field) == \E d \in declared : d.type = "data" /\ d.kind = q.kind /\ d.field = field

PrefixRows(field) ==
  {a \in OfKind(q.kind) : rows[a][field].t = StringRank
                          /\ StartsWith(rows[a][field].s, PrefixLiteral(q.pred, field, 0))}

\* text_candidates: seed from the shortest of the first posting lists, then
\* probe the others; every bound drops windows, never candidates.
Posting(d, gram) == {a \in OfKind(d.kind) : gram \in PostingsOf(rows[a][d.field], d.type = "folded")}
NoSeed == [ok |-> FALSE, set |-> {}]

\* A posting list longer than the limit is used as far as it was read.
SeedTruncated(d, grams, best, budget) ==
  [ok |-> TRUE, set |-> LET list == Posting(d, Head(grams))
                        IN {a \in list : Cardinality({b \in list : b <= a}) <= MaxScanRows}]

RECURSIVE Seed(_, _, _, _)
Seed(d, grams, best, budget) ==
  LET most == IF best.ok THEN Cardinality(best.set) ELSE MaxScanRows
      limit == IF most < budget THEN most ELSE budget
      list == Posting(d, Head(grams))
      over == Cardinality(list) > limit
      left == budget - (IF over THEN limit ELSE Cardinality(list))
  IN CASE grams = <<>> \/ limit = 0 -> best
       [] over -> Seed(d, Tail(grams), best, left)
       [] Cardinality(list) <= SeedEnough -> [ok |-> TRUE, set |-> list]
       [] OTHER -> Seed(d, Tail(grams), [ok |-> TRUE, set |-> list], left)

RECURSIVE Probe(_, _, _, _)
Probe(d, grams, set, budget) ==
  IF grams = <<>> \/ Cardinality(set) <= ProbeFloor \/ budget < Cardinality(set) THEN set
  ELSE Probe(d, Tail(grams), set \cap Posting(d, Head(grams)), budget - Cardinality(set))

Firsts(s, n) == SubSeq(s, 1, IF n < Len(s) THEN n ELSE Len(s))

TextCandidates(d) ==
  LET grams == SetToSortSeq(RequiredGrams(q.pred, d.field, d.type = "folded"), BytesLess)
      seed == Seed(d, Firsts(grams, SeedGrams), NoSeed, MaxScanRows)
  IN IF ~seed.ok THEN seed
     ELSE [ok |-> TRUE, set |-> Probe(d, Firsts(grams, ProbeGrams), seed.set, MaxScanRows)]

\* text_candidate_plan: the first inverted index that yields candidates.
TextDefs ==
  SetToSortSeq({d \in declared : /\ d.type \in {"text", "folded"} /\ d.kind = q.kind
                                 /\ RequiredGrams(q.pred, d.field, d.type = "folded") # {}
                                 /\ TextCandidates(d).ok},
               LAMBDA d, e : d.name < e.name)
HasText == TextDefs # <<>>

\* scan_candidates: the kind index, else the owner index, else the primary.
ScanRows ==
  CASE q.kind # Unset -> OfKind(q.kind)
    [] q.own # Unset -> {a \in Live : rows[a].own = q.own}
    [] OTHER -> Live

\* A walk of the primary index carries the rows its pinned locations hold.
Walk(via, field, todo) ==
  [NoWalk EXCEPT !.via = via, !.field = field, !.todo = todo,
                 !.pinned = IF q.kind = Unset /\ q.own = Unset THEN rows ELSE <<>>]

\* The walks of the access paths, each from the cursor on.
Listing == Walk("list", "none", KeyRange(ScanRows, "none"))
QueryByAddress == Walk("address", "none", KeyRange(ScanRows, "none"))
QueryByText == Walk("text", "none", KeyRange(TextCandidates(Head(TextDefs)).set, "none"))
QueryByDataPrefix == Walk("equality", EqualityField, KeyRange(EqualRows, EqualityField))
QueryByKeyPrefix == Walk("prefix", q.order, KeyRange(PrefixRows(q.order), q.order))
QueryByDataIndex == Walk("index", q.order, KeyRange(OfKind(q.kind), q.order))
\* The sorted path takes no part of its candidates off by the cursor.
QuerySorted ==
  Walk("sorted", q.order,
       InOrder(IF HasEquality THEN EqualRows
               ELSE IF HasText THEN TextCandidates(Head(TextDefs)).set
               ELSE ScanRows, "none"))

\* The access path of query_where, in the order it tries them.
Plan ==
  CASE q.list -> Listing
    [] HasEquality /\ q.order \in {"none", EqualityField} -> QueryByDataPrefix
    [] q.order # "none" /\ DataFind(q.order) /\ PrefixLiteral(q.pred, q.order, 0) # <<>> -> QueryByKeyPrefix
    [] q.order = "none" /\ HasText -> QueryByText
    [] q.order = "none" -> QueryByAddress
    [] DataFind(q.order) -> QueryByDataIndex
    [] OTHER -> QuerySorted

-----------------------------------------------------------------------------
(* Paging.                                                                 *)

Init ==
  /\ rows \in StartRows
  /\ declared \in SUBSET Definitions
  /\ q \in Queries
  /\ walk = NoWalk
  /\ cursor = NoCursor
  /\ seen = <<>>
  /\ status = "asking"
  /\ touched = {}
  /\ writes = 0

Fail == status' = "failed" /\ walk' = NoWalk /\ UNCHANGED <<cursor, seen>>

StartPage ==
  /\ status = "asking"
  /\ IF cursor = NoCursor /\ q.offset > MaxOffset THEN Fail
     ELSE /\ walk' = Plan
          /\ status' = "walking"
          /\ UNCHANGED <<cursor, seen>>
  /\ UNCHANGED <<rows, declared, q, touched, writes>>

ToSkip == IF cursor = NoCursor THEN q.offset ELSE 0

ScanNearlyFull == Len(walk.got) + 1 >= MaxScanRows
ScanFull == Len(walk.got) >= MaxScanRows

\* A key whose row is gone is tried again.
RetryMissing == IF rows[Head(walk.todo)] = NoRow THEN walk
                ELSE [walk EXCEPT !.todo = Tail(walk.todo)]
Advance == [walk EXCEPT !.todo = Tail(walk.todo)]

\* One key of the walk: resolve it, test it, and skip, take or stop.
Visit ==
  /\ status = "walking"
  /\ walk.todo # <<>>
  /\ LET a == Head(walk.todo)
         row == IF walk.pinned = <<>> THEN rows[a] ELSE walk.pinned[a]
         next == Advance
         took == Append(walk.got, [a |-> a, row |-> row])
     IN IF row = NoRow \/ (row # NoRow /\ Verdict(row) = "no")
        THEN walk' = next /\ UNCHANGED <<status, cursor, seen>>
        ELSE CASE Verdict(row) = "error" -> Fail
               [] walk.via = "sorted" ->
                    IF ScanFull THEN Fail
                    ELSE walk' = [next EXCEPT !.got = took] /\ UNCHANGED <<status, cursor, seen>>
               [] walk.via # "sorted" /\ walk.skipped < ToSkip ->
                    walk' = [next EXCEPT !.skipped = @ + 1] /\ UNCHANGED <<status, cursor, seen>>
               [] walk.via # "sorted" /\ walk.skipped >= ToSkip /\ Len(walk.got) = q.limit ->
                    walk' = [walk EXCEPT !.todo = <<>>, !.more = TRUE] /\ UNCHANGED <<status, cursor, seen>>
               [] OTHER ->
                    walk' = [next EXCEPT !.got = took,
                                         !.todo = IF walk.via = "list" /\ Len(took) = q.limit THEN <<>> ELSE @]
                    /\ UNCHANGED <<status, cursor, seen>>
  /\ UNCHANGED <<rows, declared, q, touched, writes>>

\* query_sorted, after the scan: sort what matched, find the cursor's place,
\* cut one page.
SortedPage ==
  LET key(x) == x.row[q.order]
      all == Directed(SortSeq(walk.got, LAMBDA x, y : KeyLess(key(x), x.a, key(y), y.a)))
      rest == {i \in DOMAIN all : Past(all[i].a, key(all[i]))}
      start == IF cursor = NoCursor THEN q.offset
               ELSE IF rest = {} THEN Len(all)
               ELSE (CHOOSE i \in rest : \A j \in rest : i <= j) - 1
      page == Firsts(SubSeq(all, start + 1, Len(all)), q.limit)
  IN [page |-> page, more |-> page # <<>> /\ start + Len(page) < Len(all)]

FinishPage ==
  /\ status = "walking"
  /\ walk.todo = <<>>
  /\ LET s == IF walk.via = "sorted" THEN SortedPage
              ELSE [page |-> walk.got, more |-> walk.more /\ walk.got # <<>>]
         last == s.page[Len(s.page)]
     IN /\ seen' = seen \o s.page
        /\ cursor' = IF s.more THEN CursorFromNode(last.a, last.row, walk.field) ELSE cursor
        /\ status' = IF s.more THEN "asking" ELSE "finished"
  /\ walk' = NoWalk
  /\ UNCHANGED <<rows, declared, q, touched, writes>>

-----------------------------------------------------------------------------
(* Writers.                                                                *)

Write(a, row) ==
  /\ status \in {"asking", "walking"}
  /\ writes < MaxWrites
  /\ rows' = [rows EXCEPT ![a] = row]
  /\ touched' = touched \cup {a}
  /\ writes' = writes + 1
  /\ UNCHANGED <<declared, q, walk, cursor, seen, status>>

InsertNode(a, row) == (Rewrites \/ (rows[a] = NoRow /\ a \notin touched)) /\ Write(a, row)
DeleteNode(a) == rows[a] # NoRow /\ Write(a, NoRow)

\* create_index and drop_index: the backfill is complete when the index shows.
DeclareOrDrop(d) ==
  /\ Declares
  /\ status \in {"asking", "walking"}
  /\ writes < MaxWrites
  /\ declared' = IF d \in declared THEN declared \ {d} ELSE declared \cup {d}
  /\ writes' = writes + 1
  /\ UNCHANGED <<rows, q, walk, cursor, seen, status, touched>>

Next ==
  \/ StartPage
  \/ Visit
  \/ FinishPage
  \/ \E a \in Addrs, row \in Shapes : InsertNode(a, row)
  \/ \E a \in Addrs : DeleteNode(a)
  \/ \E d \in Definitions : DeclareOrDrop(d)

\* The thread that serves a page runs to its end; the client asks for the next
\* page while it is given a cursor.
Serve == StartPage \/ Visit \/ FinishPage
Spec == Init /\ [][Next]_vars /\ WF_vars(Serve)

-----------------------------------------------------------------------------
(* Properties.                                                             *)

Selected == {a \in Live : Verdict(rows[a]) = "yes"}
SeenAddrs == [i \in DOMAIN seen |-> seen[i].a]
Stable(a) == rows[a] # NoRow /\ a \notin touched

\* With nothing written while it was paged, an answer is the one a scan, a sort
\* and a cut give, whatever indexes are declared and whatever path was chosen
\* (query_where, all its access paths).
AnswerIsTheScan ==
  status = "finished" /\ touched = {} =>
    LET all == Directed(InOrder(Selected, q.order))
        from == SubSeq(all, q.offset + 1, Len(all))
    IN SeenAddrs = IF q.list THEN Firsts(from, q.limit) ELSE from

\* "missing sorts last either direction" (order_key): rows without the field
\* they are ordered by come after all others.
MissingSortsLast ==
  status = "finished" /\ touched = {} /\ q.order # "none" =>
    \A i, j \in DOMAIN seen :
      seen[i].row[q.order] = Absent /\ i < j => seen[j].row[q.order] = Absent

\* A refused read has a reason: a row on which the predicate has no value, an
\* unindexed sort over too many rows, an offset past its bound.
RefusalsJustified ==
  status = "failed" /\ touched = {} =>
    \/ q.offset > MaxOffset
    \/ \E a \in Live : Verdict(rows[a]) = "error"
    \/ q.order # "none" /\ Cardinality(Selected) > MaxScanRows

\* Rows nobody writes while a query is paged are each returned exactly once if
\* they match, and in the order asked for, whatever is inserted and deleted
\* around them (query_where: "paging stays stable under concurrent inserts and
\* deletes").
StableRowsPagedOnce ==
  status = "finished" /\ q.offset = 0 /\ ~q.list =>
    LET stable == SelectSeq(SeenAddrs, LAMBDA a : Stable(a))
    IN stable = Directed(InOrder({a \in Selected : Stable(a)}, q.order))

\* Paging ends: every page moves the cursor on, so a client that follows
\* cursors comes to the last page although rows are written meanwhile.
PagingEnds == <>(status \in {"finished", "failed"})
=============================================================================
