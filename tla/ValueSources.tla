---------------------------- MODULE ValueSources ----------------------------
(***************************************************************************)
(* A small universe of values, and the laws that equality, hash and order   *)
(* of values (Values) must obey on it: what tables, patterns and sorting    *)
(* rely on.                                                                *)
(***************************************************************************)
EXTENDS Values

int(n) == <<"int", n>>
dec(h) == <<"dec", h>>
float(h) == <<"float", h>>
Numbers == <<int(0), int(1), int(MinSmall), int(-MinSmall), int(-MinSmall - 1), float(2 * MinSmall),
             float(0), float(1), float(2), NaN, dec(1), dec(2)>>
Atoms == <<<<"unit">>, <<"bool", 0>>, <<"bool", 1>>, <<"range", 1, 1>>, <<"range", 1, 2>>, <<"atom", 1>>,
           <<"str", 1>>, <<"str", 2>>, <<"bytes", 1>>, <<"pid", 1>>, <<"ref", 1>>, <<"port", 1>>,
           <<"func", 1, 1>>, <<"func", 2, 1>>, <<"closure", 1, 1, 1>>, <<"closure", 2, 1, 1>>>>
One == <<int(1), float(2), dec(2), NaN>>
Of(kind) == <<<<kind, <<>>>>, <<kind, <<int(1)>>>>, <<kind, <<float(2)>>>>, <<kind, <<dec(2)>>>>,
              <<kind, <<NaN>>>>, <<kind, <<int(0), int(1)>>>>, <<kind, <<int(0), <<"func", 1, 1>>>>>>>>
\* The order of a table is that of the hashes of its keys: here decimals, 1, 0.
Tables ==
    <<<<"map", <<>>>>,
      <<"map", <<<<int(1), int(1)>>>>>>, <<"map", <<<<float(2), dec(2)>>>>>>, <<"map", <<<<dec(2), int(1)>>>>>>,
      <<"map", <<<<int(1), int(0)>>, <<int(0), int(1)>>>>>>, <<"map", <<<<float(2), int(0)>>, <<int(0), float(2)>>>>>>,
      <<"map", <<<<dec(2), int(0)>>, <<int(1), int(1)>>>>>>, <<"map", <<<<dec(2), int(1)>>, <<int(1), int(0)>>>>>>,
      <<"set", <<>>>>, <<"set", <<int(1)>>>>, <<"set", <<dec(2)>>>>, <<"set", <<NaN>>>>,
      <<"set", <<int(1), int(0)>>>>, <<"set", <<float(2), int(0)>>>>, <<"set", <<dec(2), int(0)>>>>>>
Variants ==
    <<<<"variant", 0, 0, 1, <<>>>>, <<"variant", 0, 0, 2, <<int(1)>>>>, <<"variant", 0, 0, 2, <<float(2)>>>>,
      <<"variant", 0, 0, 2, <<dec(2)>>>>, <<"variant", 0, 0, 5, <<>>>>,
      <<"variant", 1, 1, 6, <<>>>>, <<"variant", 1, 2, 5, <<int(1)>>>>, <<"variant", 1, 2, 5, <<dec(2)>>>>,
      <<"variant", 2, 1, 5, <<>>>>>>
Records ==
    <<<<"record", 0, <<<<1, int(0)>>, <<2, int(1)>>>>>>, <<"record", 0, <<<<2, float(2)>>, <<1, int(0)>>>>>>,
      <<"record", 0, <<<<1, int(1)>>>>>>, <<"record", 0, <<<<2, int(1)>>>>>>,
      <<"record", 1, <<<<1, int(1)>>>>>>, <<"record", 2, <<<<1, int(1)>>>>>>, <<"record", 1, <<<<1, dec(2)>>>>>>>>
Universe == Numbers \o Atoms \o Of("tuple") \o Of("list") \o Of("vector") \o Tables \o Variants \o Records
Rows == Len(Universe)

RECURSIVE HasNaN(_)
HasNaN(v) ==
    IsNaN(v) \/ CASE Kind(v) \in {"tuple", "list", "vector", "set"} -> \E i \in DOMAIN v[2] : HasNaN(v[2][i])
                  [] Kind(v) = "map" -> \E i \in DOMAIN v[2] : HasNaN(v[2][i][1]) \/ HasNaN(v[2][i][2])
                  [] Kind(v) = "variant" -> \E i \in DOMAIN v[5] : HasNaN(v[5][i])
                  [] Kind(v) = "record" -> \E i \in DOMAIN v[3] : HasNaN(v[3][i][2])
                  [] OTHER -> FALSE
HasDecKey(v) ==
    CASE Kind(v) = "map" -> \E i \in DOMAIN v[2] : IsDec(v[2][i][1])
      [] Kind(v) = "set" -> \E i \in DOMAIN v[2] : IsDec(v[2][i])
      [] OTHER -> FALSE

-----------------------------------------------------------------------------
Row(F(_, _), v) == <<>> \o [j \in 1 .. Rows |-> F(v, Universe[j])]
Pairwise(F(_, _)) == <<>> \o [i \in 1 .. Rows |-> Row(F, Universe[i])]
Hashes == <<>> \o [i \in 1 .. Rows |-> HashKey(Universe[i])]

\* What a table relies on: a key is found again under any equal key.
KeyLaws(keyEqual, equal, hash) ==
    \A i, j \in 1 .. Rows :
       /\ keyEqual[i][i] = ~HasNaN(Universe[i])
       /\ keyEqual[i][j] =>
            /\ keyEqual[j][i] /\ equal[i][j]
            /\ hash[i] = hash[j]
            /\ \A k \in 1 .. Rows : keyEqual[j][k] => keyEqual[i][k]

\* What sorting relies on: an order, that says 0 exactly of what is equal, except
\* for NaN (sorted as one value), (), and the keys 1 and 1d (two keys of one place).
OrderLaws(equal, order) ==
    \A i, j \in 1 .. Rows :
       LET c == order[i][j]
           v == Universe[i]
           w == Universe[j]
       IN  /\ equal[i][j] = equal[j][i]
           /\ MatchEqual(v, w) => equal[i][j]
           /\ order[j][i] = IF c = Err THEN Err ELSE -c
           /\ equal[i][j] => c \in {0, Err}
           /\ c = 0 => equal[i][j] \/ (HasNaN(v) /\ HasNaN(w)) \/ <<"unit">> \in {v, w}
                       \/ HasDecKey(v) \/ HasDecKey(w)
           /\ c \in {-1, 0} => \A k \in 1 .. Rows :
                order[j][k] \in {-1, 0} => order[i][k] \in {Min({c, order[j][k]}), Err}

\* The quick paths of the machine answer as the slow ones.
OperatorLaws ==
    \A a, b \in Range(Numbers) : Quick(a, b) =>
       /\ OpEq(a, b) = Truth(Equal(a, b))
       /\ \A op \in {"LT", "GT", "LE", "GE"} :
            OpCmp(op, a, b) = Truth(~IsNaN(a) /\ ~IsNaN(b) /\ Holds(op, Compare(a, b)))

\* Ints do not overflow.
Exact(op, x, y) == CASE op = "ADD" -> x + y [] op = "SUB" -> x - y [] op = "MUL" -> x * y
                     [] op = "INTDIV" -> Trunc(x, y) [] op = "REM" -> x - Trunc(x, y) * y [] op = "NEG" -> -x
Words == MinSmall - 2 .. -MinSmall + 1
ArithmeticIsExact ==
    \A x \in Words, y \in Words, op \in {"ADD", "SUB", "MUL", "INTDIV", "REM", "NEG"} :
       y # 0 \/ op \notin {"INTDIV", "REM"} => IntOp(op, x, y) = Exact(op, x, y)

Laws ==
    LET keyEqual == Pairwise(KeyEqual)
        equal == Pairwise(Equal)
    IN  /\ KeyLaws(keyEqual, equal, Hashes) /\ OrderLaws(equal, Pairwise(Compare))
        /\ OperatorLaws /\ ArithmeticIsExact
=============================================================================
