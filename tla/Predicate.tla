----------------------------- MODULE Predicate -----------------------------
(***************************************************************************)
(* Pushed-down predicates (core/predicate.rs): the evaluator, the bounds a *)
(* predicate must meet, and the literals a planner reads off a predicate   *)
(* to walk less than every row.                                            *)
(*                                                                         *)
(* An expression is a record with an op; a row is a record of field values *)
(* in the representation of KeyEncoding.  Failure is an evaluation error.  *)
(***************************************************************************)
EXTENDS KeyEncoding

CONSTANTS
  MaxDepth,   \* MAX_PREDICATE_DEPTH
  MaxNodes,   \* MAX_PREDICATE_NODES
  MaxInSet    \* MAX_IN_SET

ASSUME BoundsNat == MaxDepth \in Nat /\ MaxNodes \in Nat /\ MaxInSet \in Nat

ListRank == 80
Failure == [Null EXCEPT !.t = 255]
List(vs) == [Null EXCEPT !.t = ListRank, !.s = vs]

Lit(v) == [op |-> "lit", v |-> v]
Get(field) == [op |-> "get", field |-> field]
Not(x) == [op |-> "!", x |-> x]
LowerCall(x) == [op |-> "lower", x |-> x]
Bin(op, l, r) == [op |-> op, l |-> l, r |-> r]

Children(e) ==
  CASE e.op \in {"lit", "get"} -> <<>>
    [] e.op \in {"!", "lower"} -> <<e.x>>
    [] OTHER -> <<e.l, e.r>>

-----------------------------------------------------------------------------
(* Validation.                                                             *)

RECURSIVE Depth(_), Size(_)
Depth(e) == LET c == Children(e)
                d == {0} \cup {Depth(c[i]) : i \in DOMAIN c}
            IN 1 + CHOOSE m \in d : \A x \in d : x <= m
Size(e) == LET c == Children(e)
           IN 1 + (IF Len(c) > 0 THEN Size(c[1]) ELSE 0)
                + (IF Len(c) > 1 THEN Size(c[2]) ELSE 0)

\* One level more than the evaluator goes is admitted.
ValidateOffByOne(e) == Depth(e) <= MaxDepth + 1 /\ Size(e) <= MaxNodes
Validate(e) == Depth(e) <= MaxDepth /\ Size(e) <= MaxNodes

-----------------------------------------------------------------------------
(* Evaluation.                                                             *)

Truthy(v) == CASE v.t = BoolRank -> v.n.mag = 1
               [] v.t = NullRank -> FALSE
               [] OTHER -> TRUE

ValuesEqual(l, r) == IF l.t = NumberRank /\ r.t = NumberRank THEN AsF64(l) = AsF64(r) ELSE l = r

\* Every value has a lowered text, not only strings.  The digits of a number
\* and the letters of a boolean are bytes like any other.
LowerText(v) ==
  CASE v.t = StringRank -> Lower(v.s)
    [] v.t = BoolRank -> <<1, 2>>
    [] v.t = NumberRank -> <<v.n.mag, 1>>
    [] OTHER -> <<>>

EvalBinOp(op, l, r) ==
  CASE op = "==" -> Bool(ValuesEqual(l, r))
    [] op = "!=" -> Bool(~ValuesEqual(l, r))
    [] op \in {"starts_with", "ends_with", "contains"} ->
         IF l.t # StringRank \/ r.t # StringRank THEN Bool(FALSE)
         ELSE Bool(CASE op = "starts_with" -> StartsWith(l.s, r.s)
                     [] op = "ends_with" -> EndsWith(l.s, r.s)
                     [] OTHER -> ContainsText(l.s, r.s))
    [] op \in {"in", "not in"} ->
         IF r.t # ListRank \/ Len(r.s) > MaxInSet THEN Failure
         ELSE Bool((op = "in") = \E i \in DOMAIN r.s : ValuesEqual(l, r.s[i]))
    [] op \in {"<", ">="} ->
         IF l.t # NumberRank \/ r.t # NumberRank THEN Failure
         ELSE Bool((op = "<") = (AsF64(l) < AsF64(r)))
    [] OTHER -> Failure

RECURSIVE EvalAt(_, _, _)
EvalAt(e, row, depth) ==
  LET at(x) == EvalAt(x, row, depth + 1)
  IN IF depth >= MaxDepth THEN Failure
     ELSE CASE e.op = "lit" -> e.v
            [] e.op = "get" -> IF row[e.field] = Absent THEN Null ELSE row[e.field]
            [] e.op = "!" -> LET v == at(e.x) IN IF v = Failure THEN v ELSE Bool(~Truthy(v))
            [] e.op = "lower" -> LET v == at(e.x) IN IF v = Failure THEN v ELSE Text(LowerText(v))
            [] OTHER ->
                 LET l == at(e.l)
                     r == at(e.r)
                 IN CASE l = Failure -> Failure
                      [] e.op = "&&" /\ ~Truthy(l) -> Bool(FALSE)
                      [] e.op = "||" /\ Truthy(l) -> Bool(TRUE)
                      [] r = Failure -> Failure
                      [] e.op \in {"&&", "||"} -> Bool(Truthy(r))
                      [] OTHER -> EvalBinOp(e.op, l, r)

Eval(e, row) == EvalAt(e, row, 0)

-----------------------------------------------------------------------------
(* The literals a conjunction pins a field to.  Null stands for "none": an *)
(* equality with null pins nothing, because an absent field equals it too. *)

IsFieldAccess(e, field) == e = Get(field)
IsLoweredField(e, field) == e = LowerCall(Get(field))

MatchEquality(access, literal, field) ==
  IF IsFieldAccess(access, field) /\ literal.op = "lit" THEN literal.v ELSE Null

\* A disjunction is searched like a conjunction.
RECURSIVE EqualityLiteralAnySide(_, _, _)
EqualityLiteralAnySide(e, field, depth) ==
  CASE e.op \in {"&&", "||"} ->
         LET l == EqualityLiteralAnySide(e.l, field, depth)
         IN IF l # Null THEN l ELSE EqualityLiteralAnySide(e.r, field, depth)
    [] e.op = "==" -> MatchEquality(e.l, e.r, field)
    [] OTHER -> Null

RECURSIVE EqualityLiteral(_, _, _)
EqualityLiteral(e, field, depth) ==
  CASE depth >= MaxDepth -> Null
    [] e.op = "&&" -> LET l == EqualityLiteral(e.l, field, depth + 1)
                      IN IF l # Null THEN l ELSE EqualityLiteral(e.r, field, depth + 1)
    [] e.op = "==" -> LET l == MatchEquality(e.l, e.r, field)
                      IN IF l # Null THEN l ELSE MatchEquality(e.r, e.l, field)
    [] OTHER -> Null

\* ends_with pins a prefix as starts_with does.
RECURSIVE PrefixLiteralOfEnds(_, _, _)
PrefixLiteralOfEnds(e, field, depth) ==
  CASE e.op = "&&" -> LET l == PrefixLiteralOfEnds(e.l, field, depth)
                      IN IF l # <<>> THEN l ELSE PrefixLiteralOfEnds(e.r, field, depth)
    [] e.op \in {"starts_with", "ends_with"} -> IF IsFieldAccess(e.l, field) /\ e.r.op = "lit" THEN e.r.v.s ELSE <<>>
    [] OTHER -> <<>>

RECURSIVE PrefixLiteral(_, _, _)
PrefixLiteral(e, field, depth) ==
  CASE depth >= MaxDepth -> <<>>
    [] e.op = "&&" -> LET l == PrefixLiteral(e.l, field, depth + 1)
                      IN IF l # <<>> THEN l ELSE PrefixLiteral(e.r, field, depth + 1)
    [] e.op = "starts_with" ->
         IF e.r.op = "lit" /\ IsFieldAccess(e.l, field) /\ e.r.v.t = StringRank THEN e.r.v.s ELSE <<>>
    [] OTHER -> <<>>

\* substring_literals, or lowered_substring_literals of a folded index.
RECURSIVE SubstringLiterals(_, _, _, _)
SubstringLiterals(e, field, lowered, depth) ==
  CASE depth >= MaxDepth -> {}
    [] e.op = "&&" -> SubstringLiterals(e.l, field, lowered, depth + 1)
                        \cup SubstringLiterals(e.r, field, lowered, depth + 1)
    [] e.op \in {"contains", "starts_with", "ends_with"} ->
         LET target == IF lowered THEN IsLoweredField(e.l, field) ELSE IsFieldAccess(e.l, field)
         IN IF e.r.op = "lit" /\ target /\ e.r.v.t = StringRank /\ e.r.v.s # <<>>
            THEN {e.r.v.s} ELSE {}
    [] OTHER -> {}

\* Every window of every literal must be a posting of the row.
RequiredGrams(e, field, lowered) ==
  UNION {Grams(s) : s \in SubstringLiterals(e, field, lowered, 0)}

\* postings: only strings have any; a folded index stores the lowered text.
PostingsOf(v, lowered) ==
  IF v.t # StringRank THEN {} ELSE Grams(IF lowered THEN Lower(v.s) ELSE v.s)
=============================================================================
