------------------------------ MODULE MCReads -------------------------------
(***************************************************************************)
(* The read path on small instances: index keys, predicates and the        *)
(* literals the planner reads off them, queries and their pages,           *)
(* aggregates. Each behaviour is one scenario, picked in the initial       *)
(* state: one component with one choice of its constants. Keys and         *)
(* predicates are pure: their scenarios walk over inputs.                  *)
(***************************************************************************)
EXTENDS Predicate

CONSTANTS 
  NoRow, NoValues,             \* as in Query and Aggregates
  Magnitudes, Bytes, MaxLen,   \* the numbers and strings of a key
  NegativeZero, Versions,
  Lowered, Compares            \* may lower() meet a value that is no string; may "<" occur

VARIABLES
  scenario,
  x, y,  \* a pair of keys
  e, row,  \* a predicate, a row
  rows, declared, q, walk, cursor, seen, status, touched, writes,  \* Query
  spec, phase, todo, pinned, runs, acc  \* Aggregates

keyVars == <<x, y>>
predicateVars == <<e, row>>
queryVars == <<rows, declared, q, walk, cursor, seen, status, touched,
               writes>>
aggregateVars == <<rows, declared, q, walk, cursor, seen, status, touched,
                   writes, spec, phase, todo, pinned, runs, acc>>
vars == <<scenario, keyVars, predicateVars, queryVars, aggregateVars>>

-----------------------------------------------------------------------------
(* Keys: pairs of rows, each a value, an address and a version.            *)

Strings(n) == UNION {[1..k -> Bytes] : k \in 0..n}
Values == {Null, Absent, Bool(TRUE), Bool(FALSE)}
          \cup {Number(neg, mag) : neg \in BOOLEAN, mag \in Magnitudes}
          \cup {Text(s) : s \in Strings(MaxLen)}
KeyRows == [v : IF NegativeZero THEN Values ELSE Values \ {Number(TRUE, 0)},
            a : {<<1>>, <<2>>, <<2, 0>>}, ver : Versions]

KeysInit == x \in KeyRows /\ y \in KeyRows
KeysNext == x' = y /\ y' = x
-----------------------------------------------------------------------------
(* Predicates: every one of up to three atoms against every row of two fields. *)

F == Get("f")
G == Get("g")
Texts == {Text(<<1, 2>>), Text(<<3, 2, 1>>), Text(<<2, 1>>)}
Numbers == {Number(FALSE, 1), Number(TRUE, 1)}

Atoms ==
  {Bin("==", F, Lit(Number(FALSE, 1))), Bin("==", Lit(Text(<<1, 2>>)), G),
   Bin("==", F, Lit(Null)), Bin("==", F, G), Bin("!=", F, Lit(Number(FALSE, 1))),
   Not(Bin("==", F, Lit(Number(FALSE, 1)))),
   Bin("starts_with", G, Lit(Text(<<1, 2>>))), Bin("ends_with", G, Lit(Text(<<2, 1>>))),
   Bin("contains", G, Lit(Text(<<3, 2>>))), Bin("contains", G, Lit(Text(<<1>>))),
   Bin("contains", LowerCall(G), Lit(Text(<<1, 2>>))),
   Bin("in", F, Lit(List(<<Number(FALSE, 1), Text(<<1, 2>>)>>)))}
  \cup (IF Compares THEN {Bin("<", F, Lit(Number(FALSE, 1)))} ELSE {})
Pairs == {Bin(op, l, r) : op \in {"&&", "||"}, l \in Atoms, r \in Atoms}
Exprs == Atoms \cup Pairs
         \cup {Bin("&&", p, r) : p \in Pairs, r \in Atoms}
         \cup {Bin("&&", Not(p), r) : p \in Pairs, r \in Atoms}

First == [f |-> Absent, g |-> Absent]
PredicateRows == [f : Numbers \cup {Null, Absent, Text(<<1, 2>>)},
                  g : Texts \cup {Absent} \cup (IF Lowered THEN {Number(FALSE, 2), Bool(TRUE)} ELSE {})]

PredicatesInit == e \in Exprs /\ row = First
PredicatesNext ==
  /\ row' \in (IF row = First THEN PredicateRows ELSE {First})
  /\ UNCHANGED e

-----------------------------------------------------------------------------
(* Queries and aggregates: small tables, and what reaches every access path. *)

Unset == "unset"
TrueExpr == Lit(Bool(TRUE))
One == Number(FALSE, 1)
Two == Number(FALSE, 2)
AB == Text(<<1, 2>>)
ABA == Text(<<1, 2, 1>>)
CapAB == Text(<<3, 2>>)
BA == Text(<<2, 1>>)

Row(kind, own, pub, f, g) == [kind |-> kind, own |-> own, pub |-> pub, f |-> f, g |-> g]
K(f, g) == Row("k", "u", TRUE, f, g)

Addrs3 == 1..3
PlanShapes ==
  {K(Two, ABA), K(Absent, CapAB),
   Row("k", "v", FALSE, One, AB), Row("other", "u", TRUE, One, AB)}
PageShapes == {K(One, AB), K(Two, ABA), K(One, BA)}
FoldShapes == {K(One, AB), K(Two, ABA), K(Absent, AB), K(Null, AB), K(AB, AB),
               Row("k", "v", FALSE, Two, AB), Row("other", "u", TRUE, One, AB)}
RaceShapes == {K(One, AB), K(Two, AB)}

\* Tables whose first two addresses are taken.
TwoOf(shapes) == {r \in [Addrs3 -> shapes \cup {NoRow}] : NoRow \notin {r[1], r[2]}}
PageRows == {[a \in Addrs3 |-> IF a \in s THEN r[a] ELSE NoRow] :
               s \in {{1, 2}, {2, 3}, Addrs3}, r \in [Addrs3 -> PageShapes]}
RaceRows == [Addrs3 -> RaceShapes \cup {NoRow}]

IndexOn(n, t, f) == [name |-> n, type |-> t, kind |-> "k", field |-> f]
DataF == IndexOn(1, "data", "f")
DataG == IndexOn(2, "data", "g")
TextG == IndexOn(3, "text", "g")
FoldG == IndexOn(4, "folded", "g")

IsOne == Bin("==", Get("f"), Lit(One))
StartsAB == Bin("starts_with", Get("g"), Lit(AB))
BelowTwo == Bin("<", Get("f"), Lit(Two))
HasABA == Bin("contains", Get("g"), Lit(ABA))
LowAB == Bin("contains", LowerCall(Get("g")), Lit(AB))
Preds == {TrueExpr, IsOne, StartsAB, HasABA, LowAB, Bin("&&", IsOne, StartsAB),
          Bin("||", IsOne, StartsAB)}

Ask(kind, own, req, pred, order, desc, limit, offset) ==
  [kind |-> kind, own |-> own, req |-> req, pred |-> pred, order |-> order,
   desc |-> desc, limit |-> limit, offset |-> offset, list |-> FALSE]
Plain(kind, own, req, pred) == Ask(kind, own, req, pred, "none", FALSE, 1, 0)

PlanQueries ==
  {Ask("k", Unset, Unset, p, o, d, 1, 0) : p \in Preds, o \in {"none", "f"}, d \in BOOLEAN}
  \cup {Ask("k", Unset, Unset, TrueExpr, o, FALSE, 1, 1) : o \in {"none", "f"}}
  \cup {Ask("k", Unset, "u", p, "g", FALSE, 2, 0) : p \in Preds}
  \cup {Plain(k, o, "u", TrueExpr) : k \in {"other", Unset}, o \in {"u", Unset}}
  \cup {[Ask(k, o, "u", TrueExpr, "none", FALSE, 1, n) EXCEPT !.list = TRUE] :
          k \in {"k", Unset}, o \in {"u", Unset}, n \in {0, 1, 3}}
PageQueries ==
  {Ask("k", Unset, Unset, p, o, d, 1, 0) :
     p \in {TrueExpr, IsOne, LowAB}, o \in {"none", "f"}, d \in BOOLEAN}
  \cup {Plain(Unset, Unset, Unset, TrueExpr), Ask("k", Unset, Unset, StartsAB, "g", FALSE, 1, 0)}
FoldQueries == {Plain("k", Unset, Unset, p) : p \in {TrueExpr, IsOne, BelowTwo, HasABA}}
               \cup {Plain("k", Unset, "u", TrueExpr), Plain(Unset, "u", Unset, TrueExpr),
                     Plain(Unset, Unset, Unset, TrueExpr)}
RaceQueries == {Plain("k", Unset, Unset, TrueExpr), Plain("k", Unset, Unset, IsOne),
                Plain(Unset, Unset, Unset, TrueExpr)}

Fold(func, group, values) ==
  [func |-> func, field |-> "f", group |-> group, values |-> values]
FoldSpecs ==
  {Fold(f, g, NoValues) : f \in {"count", "sum", "avg", "min", "max"}, g \in {"none", "f"}}
  \cup {Fold("count", "f", <<One, Two, One>>),
        Fold("count", "f", <<One, Two, AB>>), Fold("sum", "f", <<Two>>),
        Fold("sum", "f", <<Two, Two, Two, Two>>)}
RaceSpecs == {Fold("count", g, NoValues) : g \in {"none", "f"}}
             \cup {Fold("count", "f", <<One, Two>>)}

-----------------------------------------------------------------------------
(* The scenarios.                                                          *)

\* Every query under every set of declared indexes, no writer.
Plan == INSTANCE Query
  WITH Addrs <- Addrs3, Shapes <- PlanShapes, StartRows <- TwoOf(PlanShapes),
       Queries <- PlanQueries, Definitions <- {DataF, DataG, TextG, FoldG},
       MaxScanRows <- 2, MaxWrites <- 0, MaxOffset <- 2, SeedGrams <- 2,
       SeedEnough <- 1, ProbeGrams <- 2, ProbeFloor <- 1, Rewrites <- FALSE,
       Declares <- FALSE

\* Pages of one row, with writers between them.
Paging == INSTANCE Query
  WITH Addrs <- Addrs3, Shapes <- PageShapes, StartRows <- PageRows,
       Queries <- PageQueries, Definitions <- {DataF, DataG},
       MaxScanRows <- 3, MaxWrites <- 2, MaxOffset <- 2, SeedGrams <- 2,
       SeedEnough <- 1, ProbeGrams <- 2, ProbeFloor <- 1, Rewrites <- FALSE,
       Declares <- FALSE

\* Every aggregate, no writer.
Folding == INSTANCE Aggregates
  WITH Addrs <- Addrs3, Shapes <- FoldShapes, StartRows <- TwoOf(FoldShapes),
       Queries <- FoldQueries, Definitions <- {DataF, TextG},
       Specs <- FoldSpecs, MaxGroupValues <- 3, MaxScanRows <- 2, MaxWrites <- 0, MaxOffset <- 2,
       SeedGrams <- 2, SeedEnough <- 1, ProbeGrams <- 2, ProbeFloor <- 1,
       Rewrites <- FALSE, Declares <- FALSE

\* Counts read off an index while rows are written.
Race == INSTANCE Aggregates
  WITH Addrs <- Addrs3, Shapes <- RaceShapes, StartRows <- RaceRows,
       Queries <- RaceQueries, Definitions <- {DataF, TextG},
       Specs <- RaceSpecs, MaxGroupValues <- 3, MaxScanRows <- 3, MaxWrites <- 2, MaxOffset <- 2,
       SeedGrams <- 2, SeedEnough <- 1, ProbeGrams <- 2, ProbeFloor <- 1,
       Rewrites <- FALSE, Declares <- FALSE

ASSUME ConstantsSensible == Plan!AddrsInt /\ Folding!AddrsInt

\* What a scenario of pairs of keys leaves alone.
notKey == <<e, row, rows, declared, q, walk, cursor, seen, status, touched,
            writes, spec, phase, todo, pinned, runs, acc>>
OnlyKey ==
  /\ e = 0 /\ row = 0 /\ rows = 0 /\ declared = 0 /\ q = 0 /\ walk = 0
  /\ cursor = 0 /\ seen = 0 /\ status = 0 /\ touched = 0 /\ writes = 0
  /\ spec = 0 /\ phase = 0 /\ todo = 0 /\ pinned = 0 /\ runs = 0 /\ acc = 0

\* What a scenario of predicates leaves alone.
notPredicate == <<x, y, rows, declared, q, walk, cursor, seen, status,
                  touched, writes, spec, phase, todo, pinned, runs, acc>>
OnlyPredicate ==
  /\ x = 0 /\ y = 0 /\ rows = 0 /\ declared = 0 /\ q = 0 /\ walk = 0
  /\ cursor = 0 /\ seen = 0 /\ status = 0 /\ touched = 0 /\ writes = 0
  /\ spec = 0 /\ phase = 0 /\ todo = 0 /\ pinned = 0 /\ runs = 0 /\ acc = 0

\* What a scenario of Query leaves alone.
notQuery == <<x, y, e, row, spec, phase, todo, pinned, runs, acc>>
OnlyQuery ==
  /\ x = 0 /\ y = 0 /\ e = 0 /\ row = 0 /\ spec = 0 /\ phase = 0
  /\ todo = 0 /\ pinned = 0 /\ runs = 0 /\ acc = 0

\* What a scenario of Aggregates leaves alone.
notAggregate == <<x, y, e, row>>
OnlyAggregate ==
  /\ x = 0 /\ y = 0 /\ e = 0 /\ row = 0

Init ==
  \/ /\ OnlyKey
     /\ \/ scenario = "keys" /\ KeysInit
  \/ /\ OnlyPredicate
     /\ \/ scenario = "predicates" /\ PredicatesInit
  \/ /\ OnlyQuery
     /\ \/ scenario = "plan" /\ Plan!Init
        \/ scenario = "paging" /\ Paging!Init
  \/ /\ OnlyAggregate
     /\ \/ scenario = "fold" /\ Folding!AInit
        \/ scenario = "race" /\ Race!AInit

Next ==
  \/ scenario = "keys" /\ KeysNext /\ UNCHANGED <<scenario, notKey>>
  \/ scenario = "predicates" /\ PredicatesNext /\ UNCHANGED <<scenario, notPredicate>>
  \/ scenario = "plan" /\ Plan!Next /\ UNCHANGED <<scenario, notQuery>>
  \/ scenario = "paging" /\ Paging!Next /\ UNCHANGED <<scenario, notQuery>>
  \/ scenario = "fold" /\ Folding!ANext /\ UNCHANGED <<scenario, notAggregate>>
  \/ scenario = "race" /\ Race!ANext /\ UNCHANGED <<scenario, notAggregate>>

Spec == Init /\ [][Next]_vars

-----------------------------------------------------------------------------
(* What is checked, in which scenario. The formulas are the components'.   *)

\* index.rs: byte order of data keys is the order of the values, with the address
\* as tiebreak ("byte order is compare_order_values order").  So the rows under one
\* value's encoding are exactly those that hold an equal value, those under a
\* string prefix exactly the strings that start with it, and the address comes
\* back out of the key whatever bytes the value holds.
DataKeysFollow ==
  /\ BytesLess(DataKey(x.v, x.a), DataKey(y.v, y.a))
       <=> \/ OrderLess(x.v, y.v)
           \/ OrderEqual(x.v, y.v) /\ BytesLess(x.a, y.a)
  /\ IsPrefix(EncodeOrderValue(x.v), DataKey(y.v, y.a)) <=> OrderEqual(x.v, y.v)
  /\ x.v.t = StringRank =>
       (IsPrefix(EncodeStringPrefix(x.v.s), DataKey(y.v, y.a))
          <=> y.v.t = StringRank /\ StartsWith(y.v.s, x.v.s))
  /\ AddressFromDataKey(DataKey(x.v, x.a)) = x.a

\* index.rs, edge_out_key, kind_key, history_key: no two edges, no two nodes of a
\* kind and no two versions share a key, although addresses and kinds are
\* arbitrary byte strings; versions of one node sort by number.
KeysDistinct ==
  LET str(r) == r.v.s
  IN /\ EdgeOutKey(str(x), x.a, str(y)) = EdgeOutKey(str(y), y.a, str(x))
          => str(x) = str(y) /\ x.a = y.a
     /\ KindKey(str(x), x.a) = KindKey(str(y), y.a) => str(x) = str(y) /\ x.a = y.a
     /\ BytesLess(HistoryKey(x.a, x.ver), HistoryKey(x.a, y.ver)) <=> x.ver < y.ver
     /\ IsPrefix(Component(x.a), HistoryKey(y.a, y.ver)) => x.a = y.a

\* index.rs: whatever values, addresses and kinds are stored, the keys of an index
\* sort and separate as the rows they stand for.
KeysFollowValues == scenario = "keys" => DataKeysFollow /\ KeysDistinct

\* text.rs: if a text contains, starts or ends with a needle, every window of the
\* needle is a posting of the text.
PostingsCoverMatches ==
  ContainsText(x.v.s, y.v.s) \/ StartsWith(x.v.s, y.v.s) \/ EndsWith(x.v.s, y.v.s)
      => Grams(y.v.s) \subseteq Grams(x.v.s)

\* A row the predicate accepts lies under the equality prefix, under the
\* string prefix and in the intersection of the posting lists that the
\* planner reads off it (equality_literal, prefix_literal, substring_literals).
LiteralsAreNecessary ==
  Eval(e, row) = Bool(TRUE) =>
    \A field \in {"f", "g"} :
      /\ LET v == EqualityLiteral(e, field, 0) IN v # Null => OrderEqual(v, row[field])
      /\ LET s == PrefixLiteral(e, field, 0)
         IN s # <<>> => row[field].t = StringRank /\ StartsWith(row[field].s, s)
      /\ \A lowered \in BOOLEAN :
           RequiredGrams(e, field, lowered) \subseteq PostingsOf(row[field], lowered)

\* The rows outside an equality prefix "were going to evaluate false anyway"
\* (equality_literal), and a predicate that validate admits is never cut off by
\* the evaluator's own depth bound.  The one atom whose value may be an error of
\* types, "<", occurs where Compares is TRUE.
SkippedRowsAreFalse ==
  Validate(e) =>
    /\ Eval(e, row) # Failure
    /\ \A field \in {"f", "g"} :
         LET v == EqualityLiteral(e, field, 0)
         IN v # Null /\ ~OrderEqual(v, row[field]) => Eval(e, row) = Bool(FALSE)

\* predicate.rs and text.rs: whatever index is declared, narrowing to what the
\* planner reads off a predicate loses no answer ("never a subset",
\* text_candidate_plan); and for predicates of "==", "!=", "in" and the text
\* operators, which have a value on every row once their depth is admitted, it
\* leaves out only rows that evaluate to false.
NarrowingIsSound ==
  /\ scenario = "keys" => PostingsCoverMatches
  /\ scenario = "predicates" => LiteralsAreNecessary /\ SkippedRowsAreFalse

\* engine.rs, query_where: an answer is the one a scan, a sort and a cut give,
\* whatever access path was chosen, and a query is refused only when its scan or
\* its offset is over the bound.
AnswerIsTheScan ==
  scenario = "plan" => Plan!AnswerIsTheScan /\ Plan!RefusalsJustified

\* engine.rs, query_where with a cursor: a row nobody touches is on exactly one
\* page, whatever other rows are inserted and deleted meanwhile.
StableRowsPagedOnce == scenario = "paging" => Paging!StableRowsPagedOnce

\* engine.rs, aggregate_where: an aggregate is the fold of the rows a scan selects
\* and refused only for a bound it really exceeds; of a count read off an index
\* while writers run, no row is in two groups and none that stayed is left out.
AggregateIsTheFold ==
  /\ scenario = "fold" => /\ Folding!AggregateIsTheFold
                          /\ Folding!AggregateRefusalsJustified
  /\ scenario = "race" => Race!RowsAreConserved

=============================================================================
