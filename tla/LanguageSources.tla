--------------------------- MODULE LanguageSources ------------------------------
(***************************************************************************)
(* Programs for the compiler and the machine: contexts with a hole, twice   *)
(* nested, around small expressions.  body(x) is called with 3; id, boom    *)
(* and pick are functions of the program.                                   *)
(***************************************************************************)
EXTENDS Compiler

Ex(e) == [s |-> "expr", e |-> e]
Let(p, e) == [s |-> "let", p |-> p, e |-> e]
Ens(e) == [s |-> "ensure", e |-> e]
Def(n, cls) == [s |-> "fn", n |-> n, cls |-> cls]
Cl(ps, guard, body) == [ps |-> ps, guard |-> guard, body |-> body]

Lit(v) == [t |-> "lit", v |-> v]
N(n) == Lit(Int_(n))
A(a) == Lit(Atom(a))
T == Lit(Bool(TRUE))
V(n) == [t |-> "var", n |-> n]
Bin(op, l, r) == [t |-> "bin", op |-> op, l |-> l, r |-> r]
AndOr_(op, l, r) == [t |-> "andor", op |-> op, l |-> l, r |-> r]
If(c, th, el) == [t |-> "if", c |-> c, th |-> th, el |-> el]
Seq_(op, es) == [t |-> "seq", op |-> op, es |-> es]
Spread(e) == [t |-> "spread", e |-> e]
Pair(k, e) == [t |-> "pair", k |-> k, e |-> e]
Cal(f, es) == [t |-> "call", f |-> V(f), es |-> es]
CallE(f, es) == [t |-> "call", f |-> f, es |-> es]
Fn(ps, body) == [t |-> "lambda", ps |-> ps, body |-> body]
MatchE(e, brs) == [t |-> "match", e |-> e, brs |-> brs]
Br(p, e) == [p |-> p, guard |-> NoExpr, body |-> <<Ex(e)>>]
TrapE(items) == [t |-> "trap", items |-> items]

Pat(p, n, subs) == [p |-> p, n |-> n, v |-> None, keys |-> <<>>, subs |-> subs]
PId(n) == Pat("id", n, <<>>)
PAny == Pat("wild", "", <<>>)
PLit(v) == [Pat("lit", "", <<>>) EXCEPT !.v = v]
PRest(n) == Pat("spread", n, <<>>)
PTuple(subs) == Pat("tuple", "", subs)
PCtor(n, subs) == Pat("ctor", n, subs)

PKeys(p, n, keys, subs) == [Pat(p, n, subs) EXCEPT !.keys = keys]
Un(op, e) == [t |-> "un", op |-> op, e |-> e]
Rec(type, fields, slots) == [t |-> "record", type |-> type, fields |-> fields, slots |-> slots]
Slot_(n, e) == [n |-> n, e |-> e]
Member(e, n) == [t |-> "member", e |-> e, n |-> n]
Inline(e) == [t |-> "inline", e |-> e]
Both(e, f) == Seq_("TUPLE", <<e, f>>)
RecvE(brs, els, after) == [t |-> "recv", brs |-> brs, els |-> els, after |-> after]

\* A block as an expression.
Blk(stmts) == If(T, stmts, <<>>)
Say(e) == Cal("say", <<e>>)

Leaves == <<N(1), V("x"), Say(V("x")), Cal("boom", <<A("e")>>), Bin("EQ", V("x"), N(3)),
            Seq_("LIST", <<V("x")>>), Fn(<<PId("a")>>, <<Ex(Seq_("TUPLE", <<V("a"), V("x")>>))>>)>>

Contexts(h) == <<
    Cal("id", <<h>>),
    Bin("ADD", h, N(1)),
    Seq_("TUPLE", <<V("x"), h>>),
    If(h, <<Ex(A("yes"))>>, <<Ex(A("no"))>>),
    If(Bin("EQ", V("x"), N(3)), <<Ex(h)>>, <<Ex(N(0))>>),
    MatchE(h, <<Br(PLit(Int_(1)), A("one")), Br(PId("y"), Seq_("TUPLE", <<V("y"), V("x")>>))>>),
    MatchE(V("x"), <<Br(PLit(Int_(3)), h)>>),
    Blk(<<Let(PId("y"), h), Ex(Seq_("TUPLE", <<V("y"), V("x")>>))>>),
    Blk(<<Let(PTuple(<<PId("y"), PAny>>), h), Ex(V("y"))>>),
    CallE(Fn(<<>>, <<Ex(h)>>), <<>>),
    CallE(Fn(<<PId("q")>>, <<Ex(CallE(Fn(<<>>, <<Ex(Seq_("TUPLE", <<V("q"), h>>))>>), <<>>))>>), <<N(7)>>),
    Blk(<<Def("g", <<Cl(<<PId("a")>>, NoExpr, <<Ex(h)>>)>>), Ex(Cal("g", <<N(5)>>))>>),
    Blk(<<Def("g", <<Cl(<<PRest("r")>>, NoExpr, <<Ex(Seq_("TUPLE", <<V("r"), h>>))>>)>>),
          Ex(Cal("g", <<N(5), Spread(Seq_("LIST", <<V("x")>>))>>))>>),
    Blk(<<Def("g", <<Cl(<<>>, NoExpr, <<Ex(h)>>)>>), Let(PId("k"), V("g")), Ex(Cal("k", <<>>))>>),
    Blk(<<Let(PId("t"), [t |-> "inline", e |-> h]), Ex(Seq_("TUPLE", <<V("t"), V("x")>>))>>),
    Blk(<<Ex(TrapE(<<Ens(Say(V("x"))), Ex(h)>>))>>),
    Blk(<<Ex(TrapE(<<Let(PId("z"), h), Ens(Say(V("z"))), Ens(Cal("boom", <<A("f")>>)), Ex(Cal("id", <<V("z")>>))>>))>>),
    Blk(<<Ex(TrapE(<<Ens(h), Ex(N(1))>>))>>),
    [t |-> "with", items |-> <<[p |-> PId("y"), e |-> h], [p |-> PLit(Int_(3)), e |-> V("y")]>>,
     body |-> <<Ex(Cal("id", <<V("y")>>))>>, els |-> <<Br(PLit(Int_(1)), A("one")), Br(PAny, V("x"))>>],
    [t |-> "interp", parts |-> <<<<<<"text", "a">>>>, <<>>>>, es |-> <<h>>],
    AndOr_("JMPIFNOT", h, Bin("EQ", V("x"), N(1))),
    AndOr_("JMPIF", Bin("EQ", V("x"), N(1)), h),
    Seq_("LIST", <<Spread(Seq_("LIST", <<h>>)), V("x")>>),
    [t |-> "recv", brs |-> <<[p |-> PId("m"), guard |-> Bin("EQ", V("m"), h), body |-> <<Ex(h)>>]>>,
     els |-> <<[n |-> "o", body |-> <<Ex(V("o"))>>]>>, after |-> <<>>],
    [t |-> "pipe", l |-> h, f |-> V("id"), es |-> <<>>],
    \* two functions of one name; functions of each other; clauses and guards
    Both(Blk(<<Def("g", <<Cl(<<>>, NoExpr, <<Ex(N(1))>>)>>), Ex(Cal("g", <<>>))>>),
         Blk(<<Def("g", <<Cl(<<>>, NoExpr, <<Ex(h)>>)>>), Ex(Cal("g", <<>>))>>)),
    Blk(<<Def("ev", <<Cl(<<PLit(Int_(0))>>, NoExpr, <<Ex(h)>>),
                      Cl(<<PId("a")>>, NoExpr, <<Ex(Cal("od", <<Bin("SUB", V("a"), N(1))>>))>>)>>),
          Def("od", <<Cl(<<PLit(Int_(0))>>, NoExpr, <<Ex(V("x"))>>),
                      Cl(<<PId("a")>>, NoExpr, <<Ex(Cal("ev", <<Bin("SUB", V("a"), N(1))>>))>>)>>),
          Ex(Both(Cal("ev", <<N(2)>>), Cal("ev", <<V("x")>>)))>>),
    Blk(<<Def("g", <<Cl(<<PId("a")>>, Bin("EQ", V("a"), h), <<Ex(A("eq"))>>),
                     Cl(<<PTuple(<<PId("a"), PLit(Int_(1))>>)>>, NoExpr, <<Ex(V("a"))>>),
                     Cl(<<PId("b")>>, NoExpr, <<Ex(Both(V("x"), V("b")))>>)>>),
          Ex(Both(Cal("g", <<N(3)>>), Cal("g", <<Seq_("TUPLE", <<N(5), N(2)>>)>>)))>>),
    \* a local function as a value of another one; shadowing
    Blk(<<Def("f", <<Cl(<<>>, NoExpr, <<Ex(h)>>)>>), Def("g", <<Cl(<<PId("a")>>, NoExpr, <<Ex(V("f"))>>)>>),
          Let(PId("x"), Cal("g", <<N(1)>>)), Ex(Both(CallE(V("x"), <<>>), Cal("f", <<>>)))>>),
    Blk(<<Let(PId("y"), h), Let(PId("k"), Fn(<<>>, <<Ex(V("y"))>>)), Ex(Blk(<<
          Let(PId("y"), Both(V("y"), V("x"))), Ex(Both(V("y"), Cal("k", <<>>)))>>))>>),
    \* patterns that fail in the middle
    MatchE(Both(h, N(2)), <<Br(PTuple(<<PId("y"), PLit(Int_(1))>>), V("y")), Br(PId("y"), Both(V("y"), V("x")))>>),
    MatchE(Seq_("LIST", <<h, V("x"), N(4)>>),
           <<Br(PKeys("list", "x", <<>>, <<PAny, PAny, PAny, PAny>>), V("x")),
             Br(Pat("as", "w", <<PKeys("list", "r", <<>>, <<PId("a")>>)>>), Seq_("TUPLE", <<V("a"), V("r"), V("w")>>))>>),
    MatchE([t |-> "interp", parts |-> <<<<<<"text", "a">>>>, <<<<"text", "z">>>>>>, es |-> <<h>>],
           <<Br([Pat("concat", "", <<PId("x")>>) EXCEPT !.v = <<<<"text", "b">>>>], V("x")),
             Br([Pat("concat", "", <<PId("r")>>) EXCEPT !.v = <<<<"text", "a">>>>], Both(V("r"), V("x")))>>),
    MatchE(Inline(h), <<Br(PCtor("Ok", <<PId("v")>>), V("v")), Br(PCtor("Error", <<PId("e")>>), Both(V("e"), V("x")))>>),
    \* records, maps, vectors, ranges
    Blk(<<Let(PId("r"), Rec("P", {"a", "b"}, <<Slot_("a", h), Slot_("b", V("x"))>>)),
          Let(PKeys("record", "P", <<"b">>, <<PId("y")>>), V("r")),
          Ex(Both(Member(Rec("", {}, <<Slot_("..", V("r")), Slot_("a", N(1))>>), "a"), Both(Member(V("r"), "a"), V("y"))))>>),
    Rec("P", {"a"}, <<Slot_("..", Rec("", {}, <<Slot_("a", h), Slot_("c", V("x"))>>))>>),
    MatchE(Seq_("MAP", <<Pair(N(1), h), Spread(Seq_("MAP", <<Pair(V("x"), N(2))>>)), Pair(N(1), V("x"))>>),
           <<Br(PKeys("map", "", <<Int_(7)>>, <<PId("x")>>), V("x")),
             Br(PKeys("map", "", <<Int_(3), Int_(1)>>, <<PId("p"), PId("q")>>), Both(V("p"), V("q")))>>),
    Bin("INDEX", Seq_("VECTOR", <<Spread(Seq_("VECTOR", <<N(8), h>>)), N(9)>>), N(1)),
    Bin("INDEX", Seq_("MAP", <<Pair(V("x"), h)>>), V("x")),
    Bin("RANGE", h, V("x")), Un("NOT", h), Un("NEG", h),
    \* spreads among the arguments of functions that capture
    Blk(<<Def("g", <<Cl(<<PId("a"), PId("b"), PId("c")>>, NoExpr, <<Ex(Seq_("TUPLE", <<V("c"), V("b"), V("a"), h>>))>>)>>),
          Let(PId("y"), Seq_("LIST", <<N(1), V("x")>>)),
          Ex(Both(Cal("g", <<Spread(V("y")), N(7)>>), Cal("g", <<N(6), Spread(V("y"))>>)))>>),
    Blk(<<Def("g", <<Cl(<<PId("a"), PRest("r")>>, NoExpr, <<Ex(Seq_("TUPLE", <<V("a"), V("r"), h>>))>>)>>),
          Let(PId("k"), V("g")),
          Ex(Both(Cal("k", <<N(1), N(2)>>), Cal("g", <<Spread(Seq_("LIST", <<V("x")>>)), N(7)>>)))>>),
    [t |-> "global", n |-> <<"id">>, es |-> <<h>>],
    \* recv with after, and operations on actors
    Both(h, RecvE(<<[p |-> PLit(Int_(1)), guard |-> NoExpr, body |-> <<Ex(RecvE(<<>>, <<>>, <<>>))>>]>>, <<>>, <<>>)),
    RecvE(<<[p |-> PTuple(<<PId("m")>>), guard |-> NoExpr, body |-> <<Ex(V("m"))>>]>>,
          <<[n |-> "u", body |-> <<Ex(RecvE(<<[p |-> PId("m"), guard |-> NoExpr, body |-> <<Ex(
             RecvE(<<>>, <<>>, <<[e |-> N(5), body |-> <<Ex(h)>>]>>))>>]>>, <<>>, <<>>))>>]>>,
          <<[e |-> h, body |-> <<Ex(V("x"))>>]>>),
    Seq_("LIST", <<Cal("self", <<>>), Cal("send", <<Cal("self", <<>>), h>>), Cal("mailbox_size", <<>>)>>),
    Cal("spawn_linked", <<Fn(<<>>, <<Ex(h)>>)>>),
    Blk(<<Let(PId("p"), Cal("spawn", <<Fn(<<>>, <<Ex(h)>>), V("x")>>)), Ex(Cal("register", <<A("n"), V("p")>>)),
          Ex(Both(Cal("await", <<Cal("watch", <<V("p")>>), h>>), Cal("exit", <<V("p"), A("stop")>>)))>>),
    Seq_("LIST", <<Cal("whereis", <<A("n")>>), Cal("unregister", <<A("n")>>), Cal("unwatch", <<Cal("make_ref", <<>>)>>),
                   Cal("link", <<Cal("spawn_watched", <<V("id")>>)>>), Cal("reply", <<Cal("self", <<>>), N(1), h>>)>>)
    >>

X == Cl(<<PId("x")>>, NoExpr, <<Ex(V("x"))>>)
Program(e) == <<
    [n |-> "id", cls |-> <<X>>],
    [n |-> "boom", cls |-> <<Cl(<<PId("x")>>, NoExpr, <<Ex(Cal("raise", <<V("x")>>))>>)>>],
    [n |-> "body", cls |-> <<Cl(<<PId("x")>>, NoExpr, <<Ex(e)>>)>>],
    [n |-> "main", cls |-> <<Cl(<<>>, NoExpr, <<Ex(Cal("body", <<N(3)>>))>>)>>]>>

Mail == <<Int_(1), Int_(3)>>
NumContexts == 51
NumLeaves == 7
Sources == NumContexts * NumContexts * NumLeaves
Source(n) ==
    LET leaf == Leaves[(n % NumLeaves) + 1]
        inner == Contexts(leaf)[((n \div NumLeaves) % NumContexts) + 1]
    IN  Program(Contexts(inner)[(n \div (NumLeaves * NumContexts)) + 1])
=============================================================================
