---------------------------- MODULE SyntaxSources ----------------------------
(***************************************************************************)
(* The trees that Format writes and Parser reads back: every construct      *)
(* around every construct that its place admits, by the precedence of the   *)
(* operators and by where a block may end (docs/01-language-design.md §A).  *)
(***************************************************************************)
EXTENDS Format, FiniteSets

X == Var("x")
Y == Var("y")
One == <<"lit", "1">>
PX == <<"ident", "x">>
Do(e) == <<"expr", e>>
Body(e) == <<"block", <<Do(e)>>>>
Body2(e) == <<"block", <<<<"let", PX, e>>, Do(Call(Var("[]"), <<Y>>))>>>>

\* How tight an operator binds; a lambda the least, a primary the most.
BinLevel == [op \in {"or", "and", "==", "<>", "+", "-", "*", "**"} |->
    CASE op = "or" -> 1 [] op = "and" -> 2 [] op = "==" -> 3 [] op = "<>" -> 5
      [] op \in {"+", "-"} -> 7 [] op = "*" -> 8 [] op = "**" -> 10]
Level(e) ==
    CASE e[1] \in {"lamshort", "lamempty", "lamfull"} -> 0
      [] e[1] = "bin" -> BinLevel[e[2]]
      [] e[1] = "pipe" -> 4
      [] e[1] = "range" -> 6
      [] e[1] = "un" -> 9
      [] e[1] \in {"member", "index"} \/ (e[1] = "call" /\ e[2] = Var("f")) -> 11
      [] OTHER -> 12
\* To the left of an operator, and to the right of it.
LeftLevel(op) == CASE op = "==" -> 4 [] op = "<>" -> 6 [] op = "**" -> 11 [] OTHER -> BinLevel[op]
RightLevel(op) == CASE op = "<>" -> 5 [] op = "**" -> 9 [] OTHER -> BinLevel[op] + 1

\* What stands last in an expression takes all that follows, or is a block.
LastPart(e) ==
    CASE e[1] = "bin" -> e[4]
      [] e[1] \in {"un", "range", "lamshort"} -> e[3]
      [] e[1] = "lamempty" -> e[2]
      [] e[1] = "if" /\ ~e[5] /\ e[4] # None /\ e[4][1] # "block" -> e[4]
      [] OTHER -> None
BlockKind(e) == e[1] \in {"if", "match", "recv", "with", "lamfull"} \/ (e[1] = "trap" /\ e[2] = None)
RECURSIVE EndsInBlock(_)
EndsInBlock(e) == IF LastPart(e) # None THEN EndsInBlock(LastPart(e)) ELSE BlockKind(e)
RECURSIVE Open(_)
Open(e) == \/ BlockKind(e) \/ e[1] \in {"lamshort", "lamempty"}
           \/ LastPart(e) # None /\ Open(LastPart(e))
\* A recv in lines takes the line behind it too; with its after on one line
\* it cannot stand in brackets.
RECURSIVE EndsInRecv(_)
EndsInRecv(e) == e[1] = "recv" \/ (LastPart(e) # None /\ EndsInRecv(LastPart(e)))
RECURSIVE EndsInAfter(_)
EndsInAfter(e) == \/ e[1] = "recv" /\ e[4][1] # None /\ e[4][2][1] # "block"
                  \/ LastPart(e) # None /\ EndsInAfter(LastPart(e))
\* In the header of a block: no block and no opener of one.
Plain(e) == ~EndsInBlock(e) /\ \A i \in DOMAIN ExprString(e, 0, "canonical") :
                                  ExprString(e, 0, "canonical")[i] \notin BlockOpeners

If(c, t, e) == <<"if", c, t, e, FALSE>>
Match(e, b) == <<"match", e, <<<<<<"plit", "1">>, Y>>, <<PX, b>>>>>>
Recv(g, b, else, after) == <<"recv", <<<<<<PX, None>>, Y>>, <<<<PX, g>>, b>>>>, else, after>>
Recv1(g, b) == <<"recv", <<<<<<PX, g>>, b>>>>, <<"", None>>, <<None, None>>>>
With(e, b, bs) == <<"with", <<<<PX, Y>>, <<PX, e>>>>, b, bs>>
Trap(b, es) == <<"trap", None, b, es>>

\* The trees in which e stands at one place, by what may stand there.
BracketPlace(e) ==
    {Call(Var("f"), <<e, Y>>), <<"pipe", X, <<"f">>, <<e, Y>>>>, Call(Var("()"), <<e, Y>>), Call(Var("[]"), <<e, Y>>),
     Call(Var("%{}"), <<<<"bin", "=>", X, e>>, <<"bin", "=>", One, Y>>>>)}
LastInBrackets(e) ==
    {<<"group", e>>, Call(Var("f"), <<e>>), Call(Var("f"), <<Y, e>>),
     <<"index", X, e>>, Call(Var("()"), <<e>>), Call(Var("[]"), <<Y, <<"un", "..", e>>>>), Call(Var("%[]"), <<e>>),
     Call(Var("%{}"), <<<<"bin", "=>", X, Y>>, <<"bin", "=>", One, e>>>>),
     Call(<<"ctor{}", <<>>>>, <<<<"bin", ":", X, e>>>>),
     Call(<<"ctor{}", <<"A", "B">>>>, <<<<"bin", ":", X, One>>, <<"bin", ":", Y, e>>>>),
     <<"trap", e, None, <<>>>>}
LastPlace(e) ==
    {If(X, Y, e), Match(X, e), NewCondExpr(<<<<X, Y>>, <<X, e>>>>),
     Recv(None, e, <<"", None>>, <<None, None>>), Recv(None, X, <<"", None>>, <<One, e>>), Recv1(None, e),
     With(X, Body(Y), <<<<PX, e>>>>), <<"lamshort", <<"x">>, e>>, <<"lamshort", <<"x", "y">>, e>>, <<"lamempty", e>>,
     <<"lamfull", <<PX>>, Body(e)>>}
BlockPlace(b) ==
    {If(X, b, None), If(X, b, b), Match(X, b), NewCondExpr(<<<<X, b>>>>),
     Recv(X, b, <<"y", b>>, <<One, b>>), Recv(None, b, <<"", None>>, <<One, Y>>),
     With(X, b, <<>>), With(X, b, <<<<PX, b>>>>), Trap(b, <<X>>), Trap(b, <<>>),
     <<"lamfull", <<>>, b>>, <<"lamfull", <<PX>>, b>>, <<"lamfull", <<PX, <<"spread", "y">>>>, b>>}
Operand(e) ==
    {<<"bin", op, e, Y>> : op \in {o \in DOMAIN BinLevel : Level(e) >= LeftLevel(o) /\ ~Open(e)}}
    \cup {<<"bin", op, Y, e>> : op \in {o \in DOMAIN BinLevel : Level(e) >= RightLevel(o)}}
    \cup (IF Level(e) >= 4 /\ ~Open(e) THEN {<<"pipe", e, <<"f">>, <<>>>>, <<"pipe", e, <<"A", "f">>, <<Y>>>>} ELSE {})
    \cup (IF Level(e) >= 7 /\ ~Open(e) THEN {<<"range", e, Y>>} ELSE {})
    \cup (IF Level(e) >= 7 THEN {<<"range", Y, e>>} ELSE {})
    \cup (IF Level(e) >= 9 THEN {<<"un", "-", e>>, <<"un", "not", e>>} ELSE {})
    \cup (IF Level(e) >= 11 /\ ~Open(e) THEN {Call(e, <<Y>>), <<"member", e, "x">>, <<"index", e, Y>>} ELSE {})
\* Not at the end of its construct.
InnerPlace(e) ==
    (IF EndsInBlock(e) THEN {} ELSE {If(X, e, Y), Trap(Body(X), <<Y, e>>), Call(Var("%{}"), <<<<"bin", "=>", e, Y>>>>)})
    \cup (IF Open(e) THEN {}
          ELSE {NewCondExpr(<<<<e, X>>>>), Recv1(e, Y), Recv(None, X, <<"", None>>, <<e, Y>>)})
    \cup (IF ~Plain(e) THEN {} ELSE {If(e, X, Y), If(e, Body(X), None), Match(e, X)})

Around(e) == (IF EndsInRecv(e) THEN {} ELSE BracketPlace(e)) \cup (IF EndsInAfter(e) THEN {} ELSE LastInBrackets(e)) \cup LastPlace(e) \cup BlockPlace(Body2(e))
             \cup Operand(e) \cup InnerPlace(e) \cup {With(e, Body(X), <<>>)}
EXPRS == LET first == Around(X) \cup {One, <<"lit", "()">>, <<"atom", "a">>, Var("A")}
         IN  first \cup UNION {Around(e) : e \in first}

-----------------------------------------------------------------------------
(* Patterns. *)

AtomPattern(p) == p[1] \notin {"as", "concat"}
PatternsAround(p) ==
    {<<"ctor", <<"A">>, <<p>>>>, <<"ctor", <<"A", "B">>, <<PX, p>>>>, <<"ptuple", <<p>>>>, <<"ptuple", <<p, PX>>>>,
     <<"pvec", <<p, PX>>>>, <<"plist", <<p>>, FALSE, "">>, <<"plist", <<p, PX>>, TRUE, "y">>, <<"plist", <<p>>, TRUE, "">>,
     <<"pmap", <<<<One, p>>, <<X, p>>>>>>, <<"prec", <<>>, <<<<"x", p>>>>>>, <<"prec", <<"A">>, <<<<"x", PX>>, <<"y", p>>>>>>}
    \cup (IF AtomPattern(p) THEN {<<"as", p, "y">>} ELSE {})
    \cup (IF AtomPattern(p) /\ p \notin {<<"plit", s>> : s \in StrLits} THEN {<<"concat", "s", p>>} ELSE {})
PATTERNS ==
    LET base == {PX, <<"wild">>, <<"plit", "1">>, <<"plit", "s">>, <<"plit", "()">>, <<"plit", "true">>,
                 <<"ctor", <<"A">>, <<>>>>, <<"plist", <<>>, FALSE, "">>, <<"plist", <<>>, TRUE, "y">>}
    IN  base \cup UNION {PatternsAround(p) : p \in base}
DEEPPATTERNS == UNION {PatternsAround(p) : p \in PATTERNS}

-----------------------------------------------------------------------------
(* Types and programs. *)

Named(name) == <<"tname", <<name>>>>
TypesAround(t) ==
    {<<"ttuple", <<t>>>>, <<"ttuple", <<t, Named("A")>>>>, <<"tfn", <<t>>, Named("A")>>, <<"tfn", <<t, Named("A")>>, t>>,
     <<"tfn", <<Named("A")>>, t>>, <<"tapp", "List", <<t>>>>, <<"tapp", "Map", <<Named("B"), t>>>>}
TYPES == LET base == {Named("A"), <<"tname", <<"A", "B">>>>, <<"unit">>}
             first == base \cup UNION {TypesAround(t) : t \in base}
         IN  first \cup UNION {TypesAround(t) : t \in first}
Script(stmts) == <<"script", <<>>, stmts>>
\* An expression outside of brackets and, behind it, within them.
ExprScript(e) == Script(<<<<"let", PX, e>>, Do(Call(Var("[]"), <<e>>))>>)
PatternScript(p) ==
    Script(<<<<"let", p, X>>, Do(<<"match", X, <<<<p, Y>>, <<PX, Body(X)>>>>>>), Do(Recv1(None, X)),
      <<"localfn", "f", <<<<<<p, PX>>, X, Body(Y)>>, <<<<PX, <<"spread", "y">>>>, None, Body2(X)>>>>>>,
      Do(<<"with", <<<<p, X>>>>, Body(Y), <<<<p, Y>>>>>>), Do(<<"lamfull", <<p, PX>>, Body(X)>>)>>)
TypeModule(t) ==
    <<"module", <<"A", "B">>, <<<<"import", <<"A">>>>, <<"alias", <<"A", "B">>, <<"B">>>>,
      <<"typealias", "A", <<>>, t>>, <<"record", "A", <<"B">>, <<<<"x", t>>, <<"y", Named("A")>>>>>>,
      <<"variants", "B", <<"A", "B">>, <<<<"A", <<>>>>, <<"B", <<t, t>>>>>>>>,
      <<"fndecl", "f", <<<<<<<<PX>>, X, Body(Y)>>, TRUE>>, <<<<<<<<"wild">>>>, None, Body2(X)>>, FALSE>>>>>>,
      <<"fndecl", "x", <<<<<<<<>>, None, Body(Y)>>, FALSE>>>>>>>>>>
\* Two blocks in brackets, one in the other, around every construct.
Nested(e) == {Call(Var("f"), <<e, Y>>), <<"lamfull", <<PX>>, Body2(e)>>, If(X, Body(X), Body(e)), Match(X, e)}
DEEP == LET one == UNION {Nested(e) : e \in {x \in {X} \cup Around(X) : ~EndsInRecv(x)}}
        IN  UNION {Nested(e) : e \in one}
SCRIPTS == {ExprScript(e) : e \in EXPRS \cup DEEP} \cup {PatternScript(p) : p \in PATTERNS}
           \cup {Script(<<<<"let", p, X>>>>) : p \in DEEPPATTERNS}
           \cup {<<"script", <<<<"import", <<"A", "B">>>>, <<"alias", <<"A">>, <<"B">>>>>>, <<Do(X)>>>>}
MODULES == {TypeModule(t) : t \in TYPES}

\* Every tree, however written, reads back as itself.
WrittenIn(s, y) == y = "canonical" \/ Format(s, y) # Format(s, "canonical")
RoundTrip(y) == /\ \A s \in SCRIPTS : WrittenIn(s, y) => Parse(Format(s, y)) = s
                /\ \A s \in MODULES : WrittenIn(s, y) => ParseModuleSource(Format(s, y)) = s
=============================================================================
