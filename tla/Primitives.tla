----------------------------- MODULE Primitives -----------------------------
(***************************************************************************)
(* Values, the operators that work on them and pattern matching, as the     *)
(* instructions of the machine do them (vm/vm.go, vm/scheduler.go,          *)
(* vm/pattern.go).  A value is a tuple that begins with its kind; a string  *)
(* is a sequence of pieces.  Integers are small, so that the big forms of   *)
(* Int, Float and Decimal are left out.  An operator gives Ok(value) or     *)
(* Raised(value).                                                          *)
(***************************************************************************)
EXTENDS Bytecode, TLC

Unit == <<"unit">>
Int_(n) == <<"int", n>>
Bool(b) == <<"bool", b>>
Atom(a) == <<"atom", a>>
Str(pieces) == <<"str", pieces>>
Text(s) == Str(<<<<"text", s>>>>)
Tuple(vs) == <<"tuple", vs>>
List(vs) == <<"list", vs>>
Vector(vs) == <<"vector", vs>>
MapOf(pairs) == <<"map", pairs>>
Variant(tag, vs) == <<"variant", tag, vs>>
Record(type, fields, vals) == <<"record", type, fields, vals>>
Func(name, chunk) == <<"func", name, chunk>>
Closure(name, chunk, caps) == <<"closure", name, chunk, caps>>
Native(name) == <<"native", name>>

Extend(f, k, v) == (k :> v) @@ f

Kind(v) == v[1]
IsInt(v) == Kind(v) = "int"
IsBool(v) == Kind(v) = "bool"
IsList(v) == Kind(v) = "list"

Ok(v) == [raised |-> FALSE, v |-> v]
Raised(v) == [raised |-> TRUE, v |-> v]
TypeErr(op, v) == Raised(Tuple(<<Atom("type_error"), Tuple(<<Atom(op), v>>)>>))
FunctionClause(args) == Tuple(<<Atom("function_clause"), List(args)>>)

-----------------------------------------------------------------------------
(* Operators. *)

OpName ==
    [ADD |-> "add", SUB |-> "sub", MUL |-> "mul", INTDIV |-> "div", REM |-> "rem",
     LT |-> "compare", GT |-> "compare", LE |-> "compare", GE |-> "compare"]
Abs_(n) == IF n < 0 THEN -n ELSE n
\* Quotient and remainder of Go: they truncate.
Quo(a, b) == LET q == Abs_(a) \div Abs_(b) IN IF (a < 0) = (b < 0) THEN q ELSE -q

Arith(op, a, b) ==
    CASE ~IsInt(a) \/ ~IsInt(b) -> TypeErr(OpName[op], Tuple(<<a, b>>))
      [] op \in {"INTDIV", "REM"} /\ b[2] = 0 -> Raised(Tuple(<<Atom("division_by_zero"), Unit>>))
      [] op = "ADD" -> Ok(Int_(a[2] + b[2]))
      [] op = "SUB" -> Ok(Int_(a[2] - b[2]))
      [] op = "MUL" -> Ok(Int_(a[2] * b[2]))
      [] op = "INTDIV" -> Ok(Int_(Quo(a[2], b[2])))
      [] op = "REM" -> Ok(Int_(a[2] - b[2] * Quo(a[2], b[2])))
      [] op = "LT" -> Ok(Bool(a[2] < b[2]))
      [] op = "GT" -> Ok(Bool(a[2] > b[2]))
      [] op = "LE" -> Ok(Bool(a[2] <= b[2]))
      [] op = "GE" -> Ok(Bool(a[2] >= b[2]))

Concat(a, b) ==
    IF Kind(a) # "str" \/ Kind(b) # "str" THEN TypeErr("concat", Tuple(<<a, b>>))
    ELSE Ok(Str(a[2] \o b[2]))

\* vmIndex; a map answers Some or None.
Lookup(pairs, k) == SelectInSeq(pairs, LAMBDA p : p[1] = k)
Index(o, i) ==
    CASE Kind(o) = "map" ->
           Ok(IF Lookup(o[2], i) = 0 THEN Variant("None", <<>>)
              ELSE Variant("Some", <<o[2][Lookup(o[2], i)][2]>>))
      [] Kind(o) \notin {"list", "vector", "tuple", "map"} -> TypeErr("index", o)
      [] ~IsInt(i) -> TypeErr("index_key", i)
      [] i[2] \notin 0 .. Len(o[2]) - 1 ->
           Raised(Tuple(<<Atom("index_out_of_bounds"), Tuple(<<i, Int_(Len(o[2]))>>)>>))
      [] OTHER -> Ok(o[2][i[2] + 1])

GetField(o, n) ==
    CASE Kind(o) # "record" -> TypeErr("field", Tuple(<<n, o>>))
      [] n[2][1][2] \notin DOMAIN o[4] ->
           Raised(Tuple(<<Atom("no_field"), Tuple(<<Atom(n[2][1][2]), o>>)>>))
      [] OTHER -> Ok(o[4][n[2][1][2]])

Range_(a, b) ==
    IF IsInt(a) /\ IsInt(b) THEN Ok(<<"range", a[2], b[2]>>)
    ELSE TypeErr("range", Tuple(<<a, b>>))

BinOp(op, a, b) ==
    CASE op \in DOMAIN OpName -> Arith(op, a, b)
      [] op = "EQ" -> Ok(Bool(a = b))
      [] op = "NEQ" -> Ok(Bool(a # b))
      [] op = "CONCAT" -> Concat(a, b)
      [] op = "INDEX" -> Index(a, b)
      [] op = "RANGE" -> Range_(a, b)
      [] op = "GETFIELD" -> GetField(a, b)

UnOp(op, v) ==
    CASE op = "NEG" -> IF IsInt(v) THEN Ok(Int_(-v[2])) ELSE TypeErr("neg", v)
      [] op = "NOT" -> IF IsBool(v) THEN Ok(Bool(~v[2])) ELSE TypeErr("not", v)

ToStr(v) == IF Kind(v) = "str" THEN v ELSE Str(<<v>>)

\* Native functions and their arity; say stands for output.
Natives == [say |-> 1, to_str |-> 1, raise |-> 1]
RunNative(fn, args) ==
    CASE fn[2] = "raise" -> Raised(args[1])
      [] fn[2] = "to_str" -> Ok(ToStr(args[1]))
      [] fn[2] = "say" -> Ok(Unit)

\* Operations on actors.  What they do is in the module Scheduler: here they
\* are deeds for the log, with operands of the right kind.
Pid(n) == <<"pid", n>>
Ref(n) == <<"ref", n>>
ActorOpcodes == {"SPAWN", "EXIT", "REGISTER", "UNREGISTER", "WHEREIS", "SEND", "SELF", "MAKEREF",
                 "AWAIT", "REPLY", "WATCH", "LINK", "UNWATCH", "MAILBOXSIZE"}
PidAt(op) == CASE op \in {"SEND", "EXIT", "WATCH", "LINK", "MAILBOXSIZE", "REPLY"} -> 1
               [] op = "REGISTER" -> 2 [] OTHER -> 0
Deed(op, mode, vs) == Tuple(<<Atom(op), Int_(mode)>> \o vs)
AskActors(op, vs) ==
    CASE PidAt(op) # 0 /\ Kind(vs[PidAt(op)]) # "pid" -> TypeErr(op, vs[PidAt(op)])
      [] op = "SELF" -> Ok(Pid(0))
      [] op = "SPAWN" -> Ok(Pid(1))
      [] op \in {"MAKEREF", "WATCH"} -> Ok(Ref(1))
      [] OTHER -> Ok(Unit)

MapPut(pairs, k, v) ==
    LET i == Lookup(pairs, k)
    IN  IF i = 0 THEN Append(pairs, <<k, v>>) ELSE [pairs EXCEPT ![i] = <<k, v>>]

-----------------------------------------------------------------------------
(* Spreads: segs is a sequence of [tag, v] (of a map: [tag, k, v]). *)

BadSpread(segs, kinds) ==
    SelectInSeq(segs, LAMBDA s : s.tag /\ Kind(s.v) \notin kinds)
SpreadSeq(kind, segs) ==
    LET bad == BadSpread(segs, IF kind = "list" THEN {"list"} ELSE {"list", "vector"})
        Elems(s) == IF s.tag THEN s.v[2] ELSE <<s.v>>
    IN  IF bad # 0 THEN TypeErr("spread", segs[bad].v)
        ELSE Ok(<<kind, FlattenSeq([i \in DOMAIN segs |-> Elems(segs[i])])>>)

SpreadMap(segs) ==
    LET bad == BadSpread([i \in DOMAIN segs |-> [tag |-> segs[i].tag, v |-> segs[i].k]], {"map"})
        Pairs(s) == IF s.tag THEN s.k[2] ELSE <<<<s.k, s.v>>>>
        all == FlattenSeq([i \in DOMAIN segs |-> Pairs(segs[i])])
    IN  IF bad # 0 THEN TypeErr("spread", segs[bad].k)
        ELSE Ok(MapOf(FoldLeft(LAMBDA m, p : MapPut(m, p[1], p[2]), <<>>, all)))

SpreadArgs(args) ==
    IF IsList(Last(args)) THEN Ok(Front(args) \o Last(args)[2]) ELSE TypeErr("spread", Last(args))

-----------------------------------------------------------------------------
(* vmMakeRecord.  shape is <<"shape", type, fields, names>>; the name of a   *)
(* spread is "..".  A record is <<"record", type, declared, field |-> value>>*)
(* and a spread before any named type makes the record an update of its.    *)

MakeRecord(shape, vals) ==
    LET names == shape[4]
        at == SelectInSeq(names, LAMBDA n : n = "..")
        update == shape[2] = "" /\ at # 0 /\ Kind(vals[at]) = "record" /\ vals[at][2] # ""
        type == IF update THEN vals[at][2] ELSE shape[2]
        declared == IF update THEN vals[at][3] ELSE shape[3]
        Bad(n) == type # "" /\ n \notin declared
        Refuse(n) ==
          Raised(Tuple(IF update THEN <<Atom("no_field"), Tuple(<<Atom(n), vals[at]>>)>>
                       ELSE <<Atom("field_error"), Tuple(<<Atom(n), Text(type)>>)>>))
        Slot(r, i) ==
          CASE r.raised -> r
            [] names[i] # ".." ->
                 IF update /\ Bad(names[i]) THEN Refuse(names[i]) ELSE Ok(Extend(r.v, names[i], vals[i]))
            [] Kind(vals[i]) # "record" -> TypeErr("record_spread", vals[i])
            [] \E n \in DOMAIN vals[i][4] : Bad(n) ->
                 Refuse(CHOOSE n \in DOMAIN vals[i][4] : Bad(n))
            [] OTHER -> Ok([n \in DOMAIN r.v \cup DOMAIN vals[i][4] |->
                              IF n \in DOMAIN vals[i][4] THEN vals[i][4][n] ELSE r.v[n]])
        r == FoldLeft(Slot, Ok(<<>>), [i \in DOMAIN names |-> i])
    IN  IF r.raised THEN r ELSE Ok(Record(type, declared, r.v))

-----------------------------------------------------------------------------
(* MatchPattern: it writes registers as it goes and leaves them written when *)
(* a later part does not match.                                             *)

Miss(regs) == [ok |-> FALSE, regs |-> regs]
Hit(regs) == [ok |-> TRUE, regs |-> regs]
Written(m, slot, v) ==
    IF m.ok /\ slot >= 0 THEN Hit([m.regs EXCEPT ![slot + 1] = v]) ELSE m

RECURSIVE MatchPattern(_, _, _)
\* One after the other; None stands for a key or a field that is missing.
MatchAll(vs, ps, regs) ==
    FoldLeft(LAMBDA m, i : IF ~m.ok THEN m ELSE IF vs[i] = None THEN Miss(m.regs)
                           ELSE MatchPattern(vs[i], ps[i], m.regs),
             Hit(regs), [i \in DOMAIN ps |-> i])

MatchPattern(v, p, regs) ==
    LET Sized(vs) == IF Len(vs) = Len(p.subs) THEN MatchAll(vs, p.subs, regs) ELSE Miss(regs)
        key(i) == Lookup(v[2], p.keys[i])
    IN
    CASE p.p = "wild" -> Hit(regs)
      [] p.p = "id" -> Written(Hit(regs), p.slot, v)
      [] p.p = "lit" -> IF v = p.v THEN Hit(regs) ELSE Miss(regs)
      [] p.p = "concat" ->
           IF Kind(v) = "str" /\ IsPrefix(p.v, v[2])
           THEN MatchPattern(Str(SubSeq(v[2], Len(p.v) + 1, Len(v[2]))), p.subs[1], regs)
           ELSE Miss(regs)
      [] p.p = "as" -> Written(MatchPattern(v, p.subs[1], regs), p.slot, v)
      [] p.p = "ctor" -> IF Kind(v) = "variant" /\ v[2] = p.n THEN Sized(v[3]) ELSE Miss(regs)
      [] p.p \in {"tuple", "vector"} -> IF Kind(v) = p.p THEN Sized(v[2]) ELSE Miss(regs)
      [] p.p = "list" ->
           CASE ~IsList(v) -> Miss(regs)
             [] p.n = "" -> Sized(v[2])
             [] Len(v[2]) < Len(p.subs) -> Miss(regs)
             [] OTHER -> Written(MatchAll(v[2], p.subs, regs), p.slot,
                                 List(SubSeq(v[2], Len(p.subs) + 1, Len(v[2]))))
      [] p.p = "map" ->
           IF Kind(v) # "map" THEN Miss(regs)
           ELSE MatchAll([i \in DOMAIN p.keys |-> IF key(i) = 0 THEN None ELSE v[2][key(i)][2]],
                         p.subs, regs)
      [] p.p = "record" ->
           IF Kind(v) # "record" \/ v[2] # p.n THEN Miss(regs)
           ELSE MatchAll([i \in DOMAIN p.keys |->
                            IF p.keys[i] \in DOMAIN v[4] THEN v[4][p.keys[i]] ELSE None], p.subs, regs)
=============================================================================
