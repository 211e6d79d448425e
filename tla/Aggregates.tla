----------------------------- MODULE Aggregates -----------------------------
(***************************************************************************)
(* Counts, sums, averages, extremes and their grouped forms                *)
(* (storage/engine.rs fold_where and fold_by, core/aggregate.rs), over the *)
(* rows, indexes and predicates of Query.  The row source is chosen by the *)
(* filter, from index keys alone to a full scan; every row is read in a    *)
(* step of its own while writers go on.                                    *)
(*                                                                         *)
(* Sums are exact: the switch from integers to floats is left out.         *)
(***************************************************************************)
EXTENDS Query

CONSTANTS
  Specs,      \* what is asked: [func, field, group, values]
  MaxGroupValues,   \* MAX_GROUP_VALUES
  NoValues    \* the caller names no values

VARIABLES spec, phase, todo, pinned, runs, acc
avars == <<spec, phase, todo, pinned, runs, acc>>

NeedsField == spec.func # "count"
Grouped == spec.group # "none"
\* The one group of an aggregate that is not grouped.
Whole == Failure

\* Accumulator::new
Empty == [rows |-> 0, contributed |-> 0, sum |-> 0, extreme |-> Null]

FoldRows(x, n) == [x EXCEPT !.rows = @ + n]

\* Rows without a value take part in the average.
FoldCountingMissing(x, v) ==
  LET y == FoldRows(x, 1)
  IN IF v.t # NumberRank THEN [y EXCEPT !.contributed = @ + 1]
     ELSE [y EXCEPT !.contributed = @ + 1, !.sum = @ + AsF64(v), !.extreme = v]

\* Accumulator::fold of a value that is no error for the function.
Fold(x, v) ==
  LET y == FoldRows(x, 1)
      better == \/ x.extreme = Null
                \/ IF spec.func = "min" THEN OrderLess(v, x.extreme) ELSE OrderLess(x.extreme, v)
  IN CASE spec.func = "count" \/ v.t \in {NullRank, AbsentRank} -> y
       [] spec.func \in {"sum", "avg"} -> [y EXCEPT !.contributed = @ + 1, !.sum = @ + AsF64(v)]
       [] OTHER -> [y EXCEPT !.contributed = @ + 1, !.extreme = IF better THEN v ELSE @]

NotANumber(v) == spec.func \in {"sum", "avg"} /\ v.t \notin {NumberRank, NullRank, AbsentRank}

\* finish: an average is kept as the pair it divides.
Finish(x) ==
  CASE spec.func = "count" -> x.rows
    [] spec.func = "sum" -> x.sum
    [] spec.func = "avg" -> IF x.contributed = 0 THEN Null ELSE <<x.sum, x.contributed>>
    [] OTHER -> x.extreme

\* group_entry: find or start a group, within the cap on distinct values.
GroupFitsEarly(key) == key \in DOMAIN acc \/ Cardinality(DOMAIN acc) + 1 < MaxScanRows
GroupFits(key) == key \in DOMAIN acc \/ Cardinality(DOMAIN acc) < MaxScanRows
GroupEntry(key) == IF key \in DOMAIN acc THEN acc[key] ELSE Empty
Put(key, x) == acc' = [k \in DOMAIN acc \cup {key} |-> IF k = key THEN x ELSE acc[k]]

AInit ==
  /\ Init
  /\ spec \in Specs
  /\ phase = "start"
  /\ todo = <<>>
  /\ pinned = <<>>
  /\ runs = <<>>
  /\ acc = IF spec.group = "none" THEN [k \in {Whole} |-> Empty] ELSE <<>>

\* No record is needed to decide about a row or to read from it (TrueExpr
\* stands for no predicate).
KeysOnly == q.pred = TrueExpr /\ q.req = Unset /\ ~NeedsField

FoldWhereSource ==
  IF HasEquality THEN KeyRange(EqualRows, EqualityField)
  ELSE IF HasText THEN InOrder(TextCandidates(Head(TextDefs)).set, "none")
  ELSE InOrder(ScanRows, "none")

\* A walk of the primary index reads through the locations it pinned.
Pinned == IF q.kind = Unset /\ q.own = Unset THEN rows ELSE <<>>

StartFold ==
  /\ phase = "start" /\ ~Grouped
  /\ IF KeysOnly /\ (q.kind = Unset) # (q.own = Unset)
     THEN /\ Put(Whole, FoldRows(Empty, Cardinality(ScanRows)))
          /\ phase' = "done"
          /\ UNCHANGED <<todo, runs>>
     ELSE todo' = FoldWhereSource /\ phase' = "rows" /\ UNCHANGED <<runs, acc>>
  /\ pinned' = Pinned
  /\ UNCHANGED <<spec, vars>>

\* The runs of equal values in the pinned index of the grouping field, each
\* with its first address.
IndexRuns ==
  LET order == InOrder(OfKind(q.kind), spec.group)
      same(a) == {b \in OfKind(q.kind) : OrderEqual(rows[a][spec.group], rows[b][spec.group])}
      firsts == SelectSeq(order, LAMBDA a : \A b \in same(a) : a <= b)
  IN [i \in DOMAIN firsts |-> [a |-> firsts[i], n |-> Cardinality(same(firsts[i]))]]

TooManyValues == spec.values # NoValues /\ Len(spec.values) > MaxGroupValues

StartGroups ==
  LET keys == KeysOnly /\ q.own = Unset /\ q.kind # Unset /\ DataFind(spec.group)
  IN /\ phase = "start" /\ Grouped
     /\ IF TooManyValues THEN phase' = "failed" /\ UNCHANGED <<todo, runs>>
        ELSE IF keys /\ spec.values # NoValues
        THEN todo' = spec.values /\ phase' = "values" /\ UNCHANGED runs
        ELSE IF keys
        THEN IF Len(IndexRuns) > MaxScanRows
             THEN phase' = "failed" /\ UNCHANGED <<todo, runs>>
             ELSE runs' = IndexRuns /\ phase' = "naming" /\ UNCHANGED todo
        ELSE todo' = InOrder(ScanRows, "none") /\ phase' = "rows" /\ UNCHANGED runs
     /\ pinned' = Pinned
     /\ UNCHANGED <<spec, acc, vars>>

\* One requested value: the length of its prefix range, once per value.
CountValue ==
  /\ phase = "values" /\ todo # <<>>
  /\ LET v == Head(todo)
         n == Cardinality({a \in OfKind(q.kind) : OrderEqual(rows[a][spec.group], v)})
     IN IF v \in DOMAIN acc THEN todo' = Tail(todo) /\ UNCHANGED <<phase, acc>>
        ELSE IF ~GroupFits(v) THEN phase' = "failed" /\ UNCHANGED <<todo, acc>>
        ELSE Put(v, FoldRows(Empty, n)) /\ todo' = Tail(todo) /\ UNCHANGED phase
  /\ UNCHANGED <<spec, pinned, runs, vars>>

\* The rows of a run whose representative is gone are dropped.
NameRunOrDrop ==
  /\ phase = "naming" /\ runs # <<>>
  /\ LET row == rows[Head(runs).a]
     IN IF row = NoRow THEN UNCHANGED acc
        ELSE Put(row[spec.group], FoldRows(GroupEntry(row[spec.group]), Head(runs).n))
  /\ runs' = Tail(runs)
  /\ UNCHANGED <<spec, todo, pinned, phase, vars>>

\* One run: its value is read off the representative as it is now; a
\* representative that is gone leaves the run to the rows without a value.
NameRun ==
  /\ phase = "naming" /\ runs # <<>>
  /\ LET row == rows[Head(runs).a]
         key == IF row = NoRow THEN Absent ELSE row[spec.group]
     IN IF GroupFits(key)
        THEN /\ Put(key, FoldRows(GroupEntry(key), Head(runs).n))
             /\ runs' = Tail(runs)
             /\ UNCHANGED phase
        ELSE phase' = "failed" /\ UNCHANGED <<acc, runs>>
  /\ UNCHANGED <<spec, todo, pinned, vars>>

Wanted(v) == spec.values = NoValues \/ \E i \in DOMAIN spec.values : OrderEqual(spec.values[i], v)

\* One row of the general walk.
FoldRow ==
  /\ phase = "rows" /\ todo # <<>>
  /\ LET row == IF pinned = <<>> THEN rows[Head(todo)] ELSE pinned[Head(todo)]
         key == IF Grouped THEN row[spec.group] ELSE Whole
         v == IF NeedsField THEN row[spec.field] ELSE Null
     IN IF row = NoRow \/ (row # NoRow /\ Verdict(row) = "no")
        THEN todo' = Tail(todo) /\ UNCHANGED <<phase, acc>>
        ELSE CASE Verdict(row) = "error" -> phase' = "failed" /\ UNCHANGED <<todo, acc>>
               [] Grouped /\ ~Wanted(key) -> todo' = Tail(todo) /\ UNCHANGED <<phase, acc>>
               [] (Grouped /\ Wanted(key) /\ ~GroupFits(key)) \/ NotANumber(v) ->
                    phase' = "failed" /\ UNCHANGED <<todo, acc>>
               [] OTHER -> /\ Put(key, Fold(GroupEntry(key), v))
                           /\ todo' = Tail(todo)
                           /\ UNCHANGED phase
  /\ UNCHANGED <<spec, pinned, runs, vars>>

\* The closure finish: a requested value without rows still gets its entry.
FinishFold ==
  /\ \/ phase \in {"rows", "values"} /\ todo = <<>>
     \/ phase = "naming" /\ runs = <<>>
  /\ LET asked == IF ~Grouped \/ spec.values = NoValues THEN {}
                  ELSE {spec.values[i] : i \in DOMAIN spec.values}
     IN acc' = [k \in DOMAIN acc \cup asked |-> GroupEntry(k)]
  /\ phase' = "done"
  /\ UNCHANGED <<spec, todo, pinned, runs, vars>>

AWrite ==
  /\ phase \notin {"done", "failed"}
  /\ \/ \E a \in Addrs, row \in Shapes : InsertNode(a, row)
     \/ \E a \in Addrs : DeleteNode(a)
  /\ UNCHANGED avars

ANext == StartFold \/ StartGroups \/ CountValue \/ NameRun \/ FoldRow \/ FinishFold \/ AWrite
ASpec == AInit /\ [][ANext]_<<vars, avars>>

-----------------------------------------------------------------------------
(* Properties.                                                             *)

\* What a scan of the matching rows makes of one group.
RECURSIVE SumOver(_)
SumOver(S) == IF S = {} THEN 0
              ELSE LET a == CHOOSE a \in S : TRUE
                   IN (IF rows[a][spec.field].t = NumberRank THEN AsF64(rows[a][spec.field]) ELSE 0)
                      + SumOver(S \ {a})

Expected(S) ==
  LET held == {a \in S : rows[a][spec.field].t \notin {NullRank, AbsentRank}}
      before(a, b) == IF spec.func = "min" THEN OrderLess(rows[a][spec.field], rows[b][spec.field])
                      ELSE OrderLess(rows[b][spec.field], rows[a][spec.field])
      best == {a \in held : \A b \in held : ~before(b, a)}
  IN CASE spec.func = "count" -> Cardinality(S)
       [] spec.func = "sum" -> SumOver(S)
       [] spec.func = "avg" -> IF held = {} THEN Null ELSE <<SumOver(S), Cardinality(held)>>
       [] OTHER -> IF held = {} THEN Null ELSE rows[CHOOSE a \in best : TRUE][spec.field]

\* With nothing written meanwhile, every aggregate is what the matching rows
\* give, on every path: from index keys, an equality prefix, postings or a
\* scan; grouped answers have exactly the values that occur, or exactly those
\* asked for.  So a count and the sum beside it see the same rows
\* (fold_where, fold_by).
AggregateIsTheFold ==
  phase = "done" /\ touched = {} =>
    IF Grouped
    THEN /\ DOMAIN acc = IF spec.values = NoValues THEN {rows[a][spec.group] : a \in Selected}
                         ELSE {spec.values[i] : i \in DOMAIN spec.values}
         /\ \A k \in DOMAIN acc :
              Finish(acc[k]) = Expected({a \in Selected : OrderEqual(rows[a][spec.group], k)})
    ELSE Finish(acc[Whole]) = Expected(Selected)

\* An aggregate is refused only for a value it cannot add, a predicate that
\* has no value, more groups than the cap, found or asked for, or more values
\* than a request may name.
AggregateRefusalsJustified ==
  phase = "failed" /\ touched = {} =>
    \/ \E a \in Live : Verdict(rows[a]) = "error"
    \/ \E a \in Selected : NeedsField /\ NotANumber(rows[a][spec.field])
    \/ Grouped /\ Cardinality({rows[a][spec.group] : a \in Selected}) > MaxScanRows
    \/ spec.values # NoValues
       /\ Cardinality({spec.values[i] : i \in DOMAIN spec.values}) > MaxScanRows
    \/ spec.values # NoValues /\ Len(spec.values) > MaxGroupValues

\* However inserts and deletes interleave with the walk, no row that nobody
\* wrote is left out and none is counted twice: the total over all groups lies
\* between the stable rows and those plus the written ones.  A run whose
\* representative was deleted is "counted under null rather than dropped".
RowsAreConserved ==
  phase = "done" /\ spec.func = "count" /\ spec.values = NoValues =>
    LET RECURSIVE total(_)
        total(S) == IF S = {} THEN 0 ELSE LET k == CHOOSE k \in S : TRUE IN acc[k].rows + total(S \ {k})
        stable == Cardinality({a \in Selected : Stable(a)})
    IN total(DOMAIN acc) \in stable..(stable + Cardinality(touched))
=============================================================================
