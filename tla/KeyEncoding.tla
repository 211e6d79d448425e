---------------------------- MODULE KeyEncoding ----------------------------
(***************************************************************************)
(* The order of data values and the byte strings that stand for them in    *)
(* the indexes (storage/index.rs, storage/text.rs).  A B+tree compares     *)
(* keys byte by byte, so every answer read off an index is right only if   *)
(* the byte order of the keys is the order the in-memory sort uses, if an  *)
(* equal value is exactly a prefix, and if the address can be recovered.   *)
(*                                                                         *)
(* A value is a record [t, n, s]: t is the type rank, n the number (or the *)
(* boolean), s the bytes of a string.  Numbers are floats of a small width *)
(* kept as sign and magnitude, so that zero has two representations.       *)
(***************************************************************************)
EXTENDS Integers, Sequences, FiniteSets, SequencesExt

CONSTANTS
  Half,      \* half the bits of a number: its bytes are two digits base 2^Half
  GramLen    \* GRAM_LEN, the bytes of one posting window

ASSUME WidthsPositive == Half \in Nat \ {0} /\ GramLen \in Nat \ {0}

\* type_rank
NullRank == 16
BoolRank == 32
NumberRank == 48
StringRank == 64
AbsentRank == 240
Escape == 255

Null == [t |-> NullRank, n |-> [neg |-> FALSE, mag |-> 0], s |-> <<>>]
Absent == [Null EXCEPT !.t = AbsentRank]
Bool(b) == [Null EXCEPT !.t = BoolRank, !.n.mag = IF b THEN 1 ELSE 0]
Number(neg, mag) == [t |-> NumberRank, n |-> [neg |-> neg, mag |-> mag], s |-> <<>>]
Text(s) == [Null EXCEPT !.t = StringRank, !.s = s]

\* The number as the comparison sees it: minus zero is zero.
AsF64(v) == IF v.n.neg THEN 0 - v.n.mag ELSE v.n.mag

\* Byte strings compare as the tree compares keys.
BytesLess(s, t) ==
  \E i \in 1..Len(t) : /\ i <= Len(s) + 1
                       /\ \A j \in 1..(i - 1) : s[j] = t[j]
                       /\ IF i = Len(s) + 1 THEN TRUE ELSE s[i] < t[i]

\* compare_order_values: is a strictly before b, are they equal?
OrderLess(a, b) ==
  IF a.t # b.t THEN a.t < b.t
  ELSE IF a.t \in {BoolRank, NumberRank} THEN AsF64(a) < AsF64(b)
  ELSE a.t = StringRank /\ BytesLess(a.s, b.s)
OrderEqual(a, b) == ~OrderLess(a, b) /\ ~OrderLess(b, a)

-----------------------------------------------------------------------------
(* The encodings.                                                          *)

\* Only the sign bit is flipped, whatever the sign.
OrderedBitsSignOnly(x) ==
  LET sign == 2 ^ (2 * Half - 1) IN IF x.neg THEN x.mag ELSE x.mag + sign

\* The order-preserving transform of a float: flip every bit of a negative,
\* only the sign bit of a non-negative.
OrderedBits(x) ==
  LET sign == 2 ^ (2 * Half - 1)
      bits == (IF x.neg THEN sign ELSE 0) + x.mag
  IN IF x.neg THEN 2 ^ (2 * Half) - 1 - bits ELSE bits + sign

BigEndian(x, base) == <<x \div base, x % base>>

EncodeValueBody(v) ==
  <<v.t>> \o CASE v.t = BoolRank -> <<v.n.mag>>
               [] v.t = NumberRank -> BigEndian(OrderedBits(v.n), 2 ^ Half)
               [] v.t = StringRank -> v.s
               [] OTHER -> <<>>

\* A zero byte is escaped; the terminator is the lowest thing at any place.
EscapeZeros(s) == FlattenSeq([i \in DOMAIN s |-> IF s[i] = 0 THEN <<0, Escape>> ELSE <<s[i]>>])
EncodeWithoutEscapes(v) == EncodeValueBody(v) \o <<0, 0>>
EncodeOrderValue(v) == EscapeZeros(EncodeValueBody(v)) \o <<0, 0>>

\* The prefix of strings is terminated like a whole value.
TerminatedStringPrefix(s) == EscapeZeros(<<StringRank>> \o s) \o <<0, 0>>
EncodeStringPrefix(s) == EscapeZeros(<<StringRank>> \o s)

DataKey(v, addr) == EncodeOrderValue(v) \o addr

\* The first zero ends the value.
SkipToFirstZero(key, i) ==
  LET zeros == {j \in DOMAIN key : key[j] = 0}
  IN 2 + CHOOSE j \in zeros : \A k \in zeros : j <= k

\* Past the first terminator that is not an escaped zero.
RECURSIVE SkipValue(_, _)
SkipValue(key, i) ==
  IF i + 1 > Len(key) THEN 0
  ELSE IF key[i] # 0 THEN SkipValue(key, i + 1)
  ELSE IF key[i + 1] = 0 THEN i + 2 ELSE SkipValue(key, i + 2)

AddressFromDataKey(key) ==
  LET at == SkipValue(key, 1) IN IF at = 0 THEN <<>> ELSE SubSeq(key, at, Len(key))

\* Components of the unordered keys carry their length in two bytes.
BareComponent(s) == s
Component(s) == BigEndian(Len(s), 256) \o s
KindKey(kind, addr) == Component(kind) \o addr
EdgeOutKey(from, kind, to) == Component(from) \o Component(kind) \o to
HistoryKey(addr, version) == Component(addr) \o BigEndian(version, 2 ^ Half)

-----------------------------------------------------------------------------
(* Posting windows.  Upper is the capital of the letter 1.                 *)

Upper == 3
Lower(s) == [i \in DOMAIN s |-> IF s[i] = Upper THEN 1 ELSE s[i]]
\* The text is cut into pieces that do not overlap.
Pieces(s) == {SubSeq(s, i, i + GramLen - 1) :
                i \in {j \in 1..(Len(s) - GramLen + 1) : j % GramLen = 1}}
Windows(s) == {SubSeq(s, i, i + GramLen - 1) : i \in 1..(Len(s) - GramLen + 1)}
Grams(s) == Windows(Lower(s))

ContainsText(s, needle) ==
  \E i \in 0..Len(s) : /\ i + Len(needle) <= Len(s)
                       /\ SubSeq(s, i + 1, i + Len(needle)) = needle
StartsWith(s, needle) ==
  Len(needle) <= Len(s) /\ SubSeq(s, 1, Len(needle)) = needle
EndsWith(s, needle) ==
  Len(needle) <= Len(s) /\ SubSeq(s, Len(s) - Len(needle) + 1, Len(s)) = needle
=============================================================================
