------------------------------- MODULE Values -------------------------------
(***************************************************************************)
(* Equality, hash and order of values (runtime/value.go, runtime/hamt.go)   *)
(* and the arithmetic of Int with its overflow (vm/vm.go).  A value is a    *)
(* tuple that begins with its kind.  A Float or Decimal counts in halves;   *)
(* names, strings and tags are numbers, so that they have an order; type 0  *)
(* is none.  A map is a sequence of pairs and a set one of elements, in the *)
(* order of their table.  A hash is a term: two are equal only if what was  *)
(* hashed is.                                                              *)
(***************************************************************************)
EXTENDS Integers, Sequences, FiniteSets, SequencesExt, FiniteSetsExt, Functions

CONSTANT IntBits      \* bits of a small Int

NaN == <<"float", 9999>>
Kind(v) == v[1]
IsDec(v) == Kind(v) = "dec"
IsNum(v) == Kind(v) \in {"int", "float"}
IsNaN(v) == v = NaN
Half(v) == IF Kind(v) = "int" THEN 2 * v[2] ELSE v[2]
Sign(a, b) == IF a < b THEN -1 ELSE IF a > b THEN 1 ELSE 0

-----------------------------------------------------------------------------
(* Equality.  strict is KeyEqual: a Decimal equals Decimals only. *)

RECURSIVE Equals(_, _, _)
EqualSeq(xs, ys, strict) ==
    Len(xs) = Len(ys) /\ \A i \in DOMAIN xs : Equals(xs[i], ys[i], strict)

\* Of two kinds.
EqualMixed(a, b, strict) ==
    CASE IsDec(a) -> ~strict /\ Kind(b) = "int" /\ Half(a) = Half(b)
      [] IsDec(b) -> ~strict /\ Kind(a) = "int" /\ Half(a) = Half(b)
      [] IsNum(a) /\ IsNum(b) -> ~IsNaN(a) /\ ~IsNaN(b) /\ Half(a) = Half(b)
      [] OTHER -> FALSE

EqualMaps(a, b, strict) ==
    Len(a) = Len(b) /\ \A i \in DOMAIN a : \E j \in DOMAIN b :
        Equals(a[i][1], b[j][1], TRUE) /\ Equals(a[i][2], b[j][2], strict)

Field(fs, n) == SelectInSeq(fs, LAMBDA f : f[1] = n)
EqualRecords(a, b, strict) ==
    a[2] = b[2] /\ Len(a[3]) = Len(b[3]) /\ \A i \in DOMAIN a[3] :
        LET j == Field(b[3], a[3][i][1]) IN j # 0 /\ Equals(a[3][i][2], b[3][j][2], strict)

Equals(a, b, strict) ==
    IF Kind(a) # Kind(b) THEN EqualMixed(a, b, strict)
    ELSE CASE Kind(a) = "float" -> a = b /\ ~IsNaN(a)
           [] Kind(a) \in {"tuple", "list", "vector"} -> EqualSeq(a[2], b[2], strict)
           [] Kind(a) = "map" -> EqualMaps(a[2], b[2], strict)
           [] Kind(a) = "set" -> Len(a[2]) = Len(b[2]) /\ \A i \in DOMAIN a[2] :
                                    \E j \in DOMAIN b[2] : Equals(a[2][i], b[2][j], TRUE)
           [] Kind(a) = "variant" -> a[2] = b[2] /\ a[4] = b[4] /\ EqualSeq(a[5], b[5], strict)
           [] Kind(a) = "record" -> EqualRecords(a, b, strict)
           [] OTHER -> a = b
Equal(a, b) == Equals(a, b, FALSE)
\* Mutant of KeyEqual: keys are equal as values are.
KeyEqualLoose(a, b) == Equals(a, b, FALSE)
KeyEqual(a, b) == Equals(a, b, TRUE)

\* A literal of a pattern: values of one kind.
RECURSIVE MatchEqual(_, _)
MatchEqual(a, b) ==
    /\ Kind(a) = Kind(b)
    /\ IF Kind(a) \in {"tuple", "list", "vector"}
       THEN Len(a[2]) = Len(b[2]) /\ \A i \in DOMAIN a[2] : MatchEqual(a[2][i], b[2][i])
       ELSE Equal(a, b)

-----------------------------------------------------------------------------
(* hashKey. *)

RECURSIVE HashKey(_)
HashSeq(vs) == [i \in DOMAIN vs |-> HashKey(vs[i])]
\* A sum of hashes: the order does not count.
HashSum(hs) == {<<h, Cardinality({i \in DOMAIN hs : hs[i] = h})>> : h \in Range(hs)}
HashKey(v) ==
    CASE Kind(v) = "int" -> <<"num", v[2]>>
      [] Kind(v) = "float" -> IF v[2] % 2 = 0 THEN <<"num", v[2] \div 2>> ELSE v
      [] Kind(v) \in {"tuple", "list", "vector"} -> <<Kind(v), HashSeq(v[2])>>
      [] Kind(v) = "map" -> <<"map", HashSum([i \in DOMAIN v[2] |-> HashSeq(v[2][i])])>>
      [] Kind(v) = "set" -> <<"set", HashSum(HashSeq(v[2]))>>
      [] Kind(v) = "record" ->
           <<"record", v[2], HashSum([i \in DOMAIN v[3] |-> <<v[3][i][1], HashKey(v[3][i][2])>>])>>
      [] Kind(v) = "variant" -> <<"variant", v[2], v[4], HashSeq(v[5])>>
      [] Kind(v) = "closure" -> <<"closure", v[3], v[4]>>
      [] OTHER -> v

-----------------------------------------------------------------------------
(* Compare: -1, 0, 1 or Err. *)

Err == 2
Ranks == <<"number", "bool", "range", "atom", "bytes", "str", "tuple", "vector", "list", "map", "set",
           "nominal", "variant", "anon", "pid", "ref", "port">>
RankOf(v) ==
    CASE IsNum(v) \/ IsDec(v) -> "number"
      [] Kind(v) = "unit" -> "tuple"
      [] Kind(v) = "record" -> IF v[2] = 0 THEN "anon" ELSE "nominal"
      [] Kind(v) = "variant" -> IF v[2] = 0 THEN "variant" ELSE "nominal"
      [] OTHER -> Kind(v)
\* termRank: 0 for what has no place in the order.
TermRank(v) == SelectInSeq(Ranks, LAMBDA r : r = RankOf(v))

CompareNumbers(a, b) ==
    CASE IsDec(a) \/ IsDec(b) ->
           IF "float" \in {Kind(a), Kind(b)} THEN Err ELSE Sign(Half(a), Half(b))
      [] IsNaN(a) -> IF IsNaN(b) THEN 0 ELSE 1
      [] IsNaN(b) -> -1
      [] OTHER -> Sign(Half(a), Half(b))

\* The first of n comparisons that decides.
FirstOf(n, C(_)) == FoldLeft(LAMBDA c, i : IF c # 0 THEN c ELSE C(i), 0, [i \in 1 .. n |-> i])

RECURSIVE Compare(_, _)
CompareSlices(xs, ys) ==
    IF Len(xs) # Len(ys) THEN Sign(Len(xs), Len(ys))
    ELSE FirstOf(Len(xs), LAMBDA i : Compare(xs[i], ys[i]))
\* compareLists, vectorCompare.
CompareLists(xs, ys) ==
    LET n == Min({Len(xs), Len(ys)})
        c == FirstOf(n, LAMBDA i : Compare(xs[i], ys[i]))
    IN  IF c # 0 THEN c ELSE Sign(Len(xs), Len(ys))

\* entries: a stable sort of the pairs of a table.
Sink(ps, p) ==
    LET before == Max({0} \cup {i \in DOMAIN ps : Compare(p[1], ps[i][1]) # -1})
    IN  InsertAt(ps, before + 1, p)
Entries(ps) == FoldLeft(Sink, <<>>, ps)
CompareMaps(ps, qs) ==
    LET as == Entries(ps)
        bs == Entries(qs)
    IN  IF Len(as) # Len(bs) THEN Sign(Len(as), Len(bs))
        ELSE FirstOf(2 * Len(as), LAMBDA i : LET n == (i + 1) \div 2
                                             IN  Compare(as[n][2 - (i % 2)], bs[n][2 - (i % 2)]))
KeyList(es) == [i \in DOMAIN es |-> es[i][1]]
Pairs(vs) == [i \in DOMAIN vs |-> <<vs[i], vs[i]>>]

\* None, Some, Ok and Error are the tags 1 to 4.
Builtin(tag) == tag <= 4
CompareVariants(a, b) ==
    CASE Builtin(a[4]) # Builtin(b[4]) -> Err
      [] a[4] # b[4] -> Sign(a[4], b[4])
      [] OTHER -> CompareSlices(a[5], b[5])

CompareRecords(a, b) ==
    LET Sorted(fs) == SortSeq(fs, LAMBDA f, g : f[1] < g[1])
        as == Sorted(a[3])
        bs == Sorted(b[3])
    IN  CASE a[2] # b[2] -> Sign(a[2], b[2])
          [] Len(as) # Len(bs) -> Sign(Len(as), Len(bs))
          [] OTHER -> FirstOf(Len(as), LAMBDA i : IF as[i][1] # bs[i][1] THEN Sign(as[i][1], bs[i][1])
                                                  ELSE Compare(as[i][2], bs[i][2]))

\* Records and variants of declared types: by type, then the place of the tag.
CompareNominal(a, b) ==
    CASE a[2] # b[2] -> Sign(a[2], b[2])
      [] Kind(a) = "variant" /\ Kind(b) = "variant" ->
           IF a[3] # b[3] THEN Sign(a[3], b[3]) ELSE CompareSlices(a[5], b[5])
      [] Kind(a) = "record" /\ Kind(b) = "record" -> CompareRecords(a, b)
      [] OTHER -> IF Kind(a) = "variant" THEN 1 ELSE -1

Compare(a, b) ==
    LET ra == TermRank(a)
        rb == TermRank(b)
    IN  CASE ra = 0 \/ rb = 0 -> Err
          [] ra # rb -> Sign(ra, rb)
          [] RankOf(a) = "number" -> CompareNumbers(a, b)
          [] RankOf(a) = "range" -> IF a[2] # b[2] THEN Sign(a[2], b[2]) ELSE Sign(a[3], b[3])
          [] RankOf(a) = "tuple" ->
               CompareSlices(IF Kind(a) = "unit" THEN <<>> ELSE a[2], IF Kind(b) = "unit" THEN <<>> ELSE b[2])
          [] RankOf(a) \in {"vector", "list"} -> CompareLists(a[2], b[2])
          [] RankOf(a) = "map" -> CompareMaps(a[2], b[2])
          [] RankOf(a) = "set" -> CompareSlices(KeyList(Entries(Pairs(a[2]))), KeyList(Entries(Pairs(b[2]))))
          [] RankOf(a) = "nominal" -> CompareNominal(a, b)
          [] RankOf(a) = "anon" -> CompareRecords(a, b)
          [] RankOf(a) = "variant" -> CompareVariants(a, b)
          [] OTHER -> Sign(a[2], b[2])

-----------------------------------------------------------------------------
(* Operators of the language: a quick path for small Ints and Floats, and the *)
(* slow one.  A raise is Err, a truth value 0 or 1.                           *)

MinSmall == -(2 ^ (IntBits - 1))
IsSmall(n) == n \in MinSmall .. -MinSmall - 1
Wrap(n) == ((n - MinSmall) % (2 ^ IntBits)) + MinSmall
Quick(a, b) == \/ Kind(a) = "int" /\ Kind(b) = "int" /\ IsSmall(a[2]) /\ IsSmall(b[2])
               \/ Kind(a) = "float" /\ Kind(b) = "float"
Truth(p) == IF p THEN 1 ELSE 0
Mixed(a, b) == {"dec", "float"} = {Kind(a), Kind(b)}

OpEq(a, b) ==
    CASE Quick(a, b) -> Truth(a = b /\ ~IsNaN(a))
      [] Mixed(a, b) -> Err
      [] OTHER -> Truth(Equal(a, b))

Holds(op, c) == CASE op = "LT" -> c < 0 [] op = "GT" -> c > 0 [] op = "LE" -> c <= 0 [] op = "GE" -> c >= 0
OpCmp(op, a, b) ==
    CASE Quick(a, b) -> Truth(~IsNaN(a) /\ ~IsNaN(b) /\ Holds(op, Half(a) - Half(b)))
      [] Mixed(a, b) -> Err
      [] IsNaN(a) \/ IsNaN(b) -> 0
      [] Compare(a, b) = Err -> Err
      [] OTHER -> Truth(Holds(op, Compare(a, b)))

\* Go's quotient of two machine words; the least one by -1 wraps.
Abs(n) == IF n < 0 THEN -n ELSE n
Trunc(x, y) == LET q == Abs(x) \div Abs(y) IN IF (x < 0) = (y < 0) THEN q ELSE -q
Quo(x, y) == Wrap(Trunc(x, y))

\* fastAdd, fastSub, fastMul: does the word hold the result?
AddFits(x, y) == LET s == Wrap(x + y) IN (y > 0 /\ s > x) \/ (y < 0 /\ s < x) \/ y = 0
SubFits(x, y) == LET s == Wrap(x - y) IN (y > 0 /\ s < x) \/ (y < 0 /\ s > x) \/ y = 0
MulFits(x, y) ==
    LET r == Wrap(x * y)
    IN  x = 0 \/ (Quo(r, x) = y /\ (x # -1 \/ y # MinSmall) /\ (y # -1 \/ x # MinSmall))

\* add, sub, mul, intDiv, rem and neg of Ints; big numbers are exact.
IntOp(op, x, y) ==
    LET small == IsSmall(x) /\ IsSmall(y)
    IN  CASE op = "ADD" -> IF small /\ AddFits(x, y) THEN Wrap(x + y) ELSE x + y
          [] op = "SUB" -> IF small /\ SubFits(x, y) THEN Wrap(x - y) ELSE x - y
          [] op = "MUL" -> IF small /\ MulFits(x, y) THEN Wrap(x * y) ELSE x * y
          [] op = "INTDIV" -> IF small /\ (x # MinSmall \/ y # -1) THEN Quo(x, y) ELSE Trunc(x, y)
          [] op = "REM" -> IF small THEN Wrap(x - Wrap(Quo(x, y) * y)) ELSE x - Trunc(x, y) * y
          [] op = "NEG" -> IF IsSmall(x) /\ x # MinSmall THEN Wrap(-x) ELSE -x
=============================================================================
