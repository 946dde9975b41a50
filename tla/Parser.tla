------------------------------- MODULE Parser -------------------------------
(***************************************************************************)
(* The recursive descent of internal/parser: from the tokens of Layout to   *)
(* the tree.  Each operator parses its construct at place i of the tokens   *)
(* ts and gives <<node, the place after it>>, or Fail; a node is a tuple    *)
(* that begins with its kind.  The place before which a block has just     *)
(* ended is one after a DEDENT.  Left out: where a name or a literal is in  *)
(* the text, interpolation, and what an error says.                        *)
(***************************************************************************)
EXTENDS Layout

CONSTANTS LowerIdents, UpperIdents, IntLits, StrLits, AtomLits

Fail == <<None, 0>>
\* Go on with the node and the place, unless it failed.
Then(r, K(_, _)) == IF r[2] = 0 THEN Fail ELSE K(r[1], r[2])
As(r, Node(_)) == Then(r, LAMBDA n, i : <<Node(n), i>>)

At(ts, i) == IF i > Len(ts) THEN "EOF" ELSE ts[i]
IsLower(ts, i) == At(ts, i) \in LowerIdents
IsUpper(ts, i) == At(ts, i) \in UpperIdents
\* expect.
Expect(ts, r, tok) == IF r[2] # 0 /\ At(ts, r[2]) = tok THEN <<r[1], r[2] + 1>> ELSE Fail
RECURSIVE SkipNewlines(_, _)
SkipNewlines(ts, i) == IF At(ts, i) = "NEWLINE" THEN SkipNewlines(ts, i + 1) ELSE i
AfterDedent(ts, i) == i > 1 /\ ts[i - 1] = "DEDENT"
BlockAt(ts, i) == At(ts, i) = "NEWLINE" /\ At(ts, i + 1) = "INDENT"

\* A name with its dots, A.B.
RECURSIVE ScanQualified(_, _, _)
ScanQualified(ts, i, names) ==
    IF At(ts, i) = "." /\ IsUpper(ts, i + 1) THEN ScanQualified(ts, i + 2, Append(names, ts[i + 1]))
    ELSE <<names, i>>
QualifiedRecordAhead(ts, i) == At(ts, ScanQualified(ts, i + 1, <<>>)[2]) = "{"

Var(name) == <<"var", name>>
Call(callee, args) == <<"call", callee, args>>

RECURSIVE ParseExpr(_, _), ParseOr(_, _), ParseAnd(_, _), ParseCmp(_, _), ParsePipe(_, _),
          ParseConcat(_, _), ParseRange(_, _), ParseAdd(_, _), ParseMul(_, _), ParseUnary(_, _),
          ParsePow(_, _), ParsePostfix(_, _), ParsePrimary(_, _), ParseStmtList(_, _, _),
          ParsePattern(_, _), ParsePatternAtom(_, _), ParseStmt(_, _)

-----------------------------------------------------------------------------
(* Lists of elements. *)

\* One element of a bracket of a kind.
ParseElem(kind, ts, i) ==
    CASE kind \in {"pattern", "tuple"} -> ParsePattern(ts, i)
      [] kind = "param" /\ At(ts, i) = ".." ->
           IF IsLower(ts, i + 1) THEN <<<<"spread", ts[i + 1]>>, i + 2>> ELSE Fail
      [] kind = "param" -> ParsePattern(ts, i)
      [] kind = "pmap" -> Then(Expect(ts, ParseExpr(ts, i), "=>"), LAMBDA k, j :
                            As(ParsePattern(ts, j), LAMBDA p : <<k, p>>))
      [] kind = "prec" -> IF IsLower(ts, i) /\ At(ts, i + 1) = ":"
                          THEN As(ParsePattern(ts, i + 2), LAMBDA p : <<ts[i], p>>) ELSE Fail
      [] At(ts, i) = ".." -> As(ParseExpr(ts, i + 1), LAMBDA e : <<"un", "..", e>>)
      [] kind = "pair" -> Then(Expect(ts, ParseExpr(ts, i), "=>"), LAMBDA k, j :
                            As(ParseExpr(ts, j), LAMBDA e : <<"bin", "=>", k, e>>))
      [] kind = "field" -> IF IsLower(ts, i) /\ At(ts, i + 1) = ":"
                           THEN As(ParseExpr(ts, i + 2), LAMBDA e : <<"bin", ":", Var(ts[i]), e>>) ELSE Fail
      [] OTHER -> ParseExpr(ts, i)

\* A comma separates, in expressions and parameters also a line; the last one
\* may stand before the close.
Separators(kind) == IF kind \in {"pattern", "tuple", "pmap", "prec"} THEN {","} ELSE {",", "NEWLINE"}
RECURSIVE ParseElemsFrom(_, _, _, _, _)
ParseElemsFrom(kind, ts, i, close, elems) ==
    Then(ParseElem(kind, ts, i), LAMBDA e, j :
      CASE At(ts, j) \notin Separators(kind) -> <<Append(elems, e), j>>
        [] At(ts, j + 1) = close -> <<Append(elems, e), j + 1>>
        [] OTHER -> ParseElemsFrom(kind, ts, j + 1, close, Append(elems, e)))
\* With the close; i is the place after the open bracket.
ParseElems(kind, ts, i, close) ==
    Expect(ts, IF At(ts, i) = close THEN <<<<>>, i>> ELSE ParseElemsFrom(kind, ts, i, close, <<>>), close)
ParseArgs(ts, i) == IF At(ts, i) = "(" THEN ParseElems("arg", ts, i + 1, ")") ELSE Fail
ParseParams(ts, i) == IF At(ts, i) = "(" THEN ParseElems("param", ts, i + 1, ")") ELSE Fail

-----------------------------------------------------------------------------
(* Patterns. *)

\* Literals that stand together are one prefix; then one pattern may follow.
RECURSIVE ParseStrConcatPattern(_, _, _)
ParseStrConcatPattern(ts, i, prefix) ==
    CASE At(ts, i) # "<>" -> <<<<"plit", prefix>>, i>>
      [] At(ts, i + 1) \in StrLits -> ParseStrConcatPattern(ts, i + 2, prefix \o ts[i + 1])
      [] OTHER -> As(ParsePatternAtom(ts, i + 1), LAMBDA p : <<"concat", prefix, p>>)

\* A comma makes a tuple; brackets alone leave no node.
ParseTupleOrGroupPattern(ts, i) ==
    IF At(ts, i + 1) = ")" THEN <<<<"plit", "()">>, i + 2>>
    ELSE Then(ParsePattern(ts, i + 1), LAMBDA p, j :
           CASE At(ts, j) # "," -> Expect(ts, <<p, j>>, ")")
             [] OTHER -> As(Expect(ts, IF At(ts, j + 1) = ")" THEN <<<<p>>, j + 1>>
                                       ELSE ParseElemsFrom("tuple", ts, j + 1, ")", <<p>>), ")"),
                            LAMBDA ps : <<"ptuple", ps>>))

\* The elements before "..".
RECURSIVE ParseListPatternFrom(_, _, _)
ParseListPatternFrom(ts, i, ps) ==
    CASE At(ts, i) = "]" -> <<<<"plist", ps, FALSE, "">>, i + 1>>
      [] At(ts, i) = ".." /\ IsLower(ts, i + 1) -> Expect(ts, <<<<"plist", ps, TRUE, ts[i + 1]>>, i + 2>>, "]")
      [] At(ts, i) = ".." -> Expect(ts, <<<<"plist", ps, TRUE, "">>, i + 1>>, "]")
      [] OTHER -> Then(ParsePattern(ts, i), LAMBDA p, j :
                    IF At(ts, j) = "," THEN ParseListPatternFrom(ts, j + 1, Append(ps, p))
                    ELSE Expect(ts, <<<<"plist", Append(ps, p), FALSE, "">>, j>>, "]"))

ParseRecordPattern(typ, ts, i) ==
    As(ParseElems("prec", ts, i + 1, "}"), LAMBDA fs : <<"prec", typ, fs>>)
\* No comma may stand before the close.
ParseConstructorPattern(ts, i) ==
    LET q == ScanQualified(ts, i + 1, <<ts[i]>>)
        args == ParseElems("pattern", ts, q[2] + 1, ")")
    IN  CASE At(ts, q[2]) = "{" -> ParseRecordPattern(q[1], ts, q[2])
          [] At(ts, q[2]) # "(" -> <<<<"ctor", q[1], <<>>>>, q[2]>>
          [] args[2] # 0 /\ At(ts, args[2] - 2) = "," -> Fail
          [] OTHER -> As(args, LAMBDA ps : <<"ctor", q[1], ps>>)

ParsePatternAtom(ts, i) ==
    LET t == At(ts, i)
    IN  CASE t = "_" -> <<<<"wild">>, i + 1>>
          [] t \in LowerIdents -> <<<<"ident", t>>, i + 1>>
          [] t \in IntLits \cup AtomLits \cup {"true", "false"} -> <<<<"plit", t>>, i + 1>>
          [] t \in StrLits -> ParseStrConcatPattern(ts, i + 1, t)
          [] t \in UpperIdents -> ParseConstructorPattern(ts, i)
          [] t = "(" -> ParseTupleOrGroupPattern(ts, i)
          [] t = "[" -> ParseListPatternFrom(ts, i + 1, <<>>)
          [] t = "%[" -> As(ParseElems("pattern", ts, i + 1, "]"), LAMBDA ps : <<"pvec", ps>>)
          [] t = "%{" -> As(ParseElems("pmap", ts, i + 1, "}"), LAMBDA ps : <<"pmap", ps>>)
          [] t = "{" -> ParseRecordPattern(<<>>, ts, i)
          [] OTHER -> Fail

ParsePattern(ts, i) ==
    Then(ParsePatternAtom(ts, i), LAMBDA p, j :
      CASE At(ts, j) = "as" -> IF IsLower(ts, j + 1) THEN <<<<"as", p, ts[j + 1]>>, j + 2>> ELSE Fail
        [] At(ts, j) = "<>" -> Fail
        [] OTHER -> <<p, j>>)

-----------------------------------------------------------------------------
(* Operators, the loosest first. *)

\* A row of operators of one level, to the left.
RECURSIVE ParseLeft(_, _, _, _)
ParseLeft(ops, ts, i, left) ==
    LET op == At(ts, i)
        right == CASE op = "or" -> ParseAnd(ts, i + 1)
                   [] op = "and" -> ParseCmp(ts, i + 1)
                   [] op \in {"+", "-"} -> ParseMul(ts, i + 1)
                   [] OTHER -> ParseUnary(ts, i + 1)
    IN  IF op \notin ops THEN <<left, i>>
        ELSE Then(right, LAMBDA e, j : ParseLeft(ops, ts, j, <<"bin", op, left, e>>))

ParseOr(ts, i) == Then(ParseAnd(ts, i), LAMBDA e, j : ParseLeft({"or"}, ts, j, e))
ParseAnd(ts, i) == Then(ParseCmp(ts, i), LAMBDA e, j : ParseLeft({"and"}, ts, j, e))
ParseAdd(ts, i) == Then(ParseMul(ts, i), LAMBDA e, j : ParseLeft({"+", "-"}, ts, j, e))
ParseMul(ts, i) == Then(ParseUnary(ts, i), LAMBDA e, j : ParseLeft({"*", "/", "div", "rem"}, ts, j, e))

CmpOps == {"==", "!=", "<", ">", "<=", ">="}
ParseCmp(ts, i) ==
    Then(ParsePipe(ts, i), LAMBDA e, j :
      IF At(ts, j) \notin CmpOps THEN <<e, j>>
      ELSE Then(ParsePipe(ts, j + 1), LAMBDA f, k :
             IF At(ts, k) \in CmpOps THEN Fail ELSE <<<<"bin", ts[j], e, f>>, k>>))

\* A name with its dots, and arguments or none.
RECURSIVE PipeName(_, _, _)
PipeName(ts, i, names) ==
    CASE ~IsLower(ts, i) /\ ~IsUpper(ts, i) -> Fail
      [] At(ts, i + 1) = "." -> PipeName(ts, i + 2, Append(names, ts[i]))
      [] OTHER -> <<Append(names, ts[i]), i + 1>>
RECURSIVE ParsePipes(_, _, _)
ParsePipes(ts, i, left) ==
    IF At(ts, i) # "|>" THEN <<left, i>>
    ELSE Then(PipeName(ts, i + 1, <<>>), LAMBDA name, j :
           Then(IF At(ts, j) = "(" THEN ParseArgs(ts, j) ELSE <<<<>>, j>>, LAMBDA args, k :
             ParsePipes(ts, k, <<"pipe", left, name, args>>)))
ParsePipe(ts, i) == Then(ParseConcat(ts, i), LAMBDA e, j : ParsePipes(ts, j, e))

ParseConcat(ts, i) ==
    Then(ParseRange(ts, i), LAMBDA e, j :
      IF At(ts, j) # "<>" THEN <<e, j>>
      ELSE As(ParseConcat(ts, j + 1), LAMBDA f : <<"bin", "<>", e, f>>))

\* A range of two literals that goes down is an error.
Digits == <<"0", "1", "2">>
RECURSIVE LitInt(_)
LitInt(e) ==
    CASE e[1] = "lit" /\ e[2] \in IntLits -> <<SelectInSeq(Digits, LAMBDA d : d = e[2]) - 1>>
      [] e[1] = "un" /\ e[2] = "-" /\ LitInt(e[3]) # None -> <<-LitInt(e[3])[1]>>
      [] OTHER -> None
Descending(e, f) == LitInt(e) # None /\ LitInt(f) # None /\ LitInt(e)[1] > LitInt(f)[1]
ParseRange(ts, i) ==
    Then(ParseAdd(ts, i), LAMBDA e, j :
      IF At(ts, j) # "to" THEN <<e, j>>
      ELSE Then(ParseAdd(ts, j + 1), LAMBDA f, k :
             IF Descending(e, f) \/ At(ts, k) = "to" THEN Fail ELSE <<<<"range", e, f>>, k>>))

ParseUnary(ts, i) ==
    IF At(ts, i) \in {"-", "not"} THEN As(ParseUnary(ts, i + 1), LAMBDA e : <<"un", ts[i], e>>)
    ELSE ParsePow(ts, i)
ParsePow(ts, i) ==
    Then(ParsePostfix(ts, i), LAMBDA e, j :
      IF At(ts, j) # "**" THEN <<e, j>>
      ELSE As(ParseUnary(ts, j + 1), LAMBDA f : <<"bin", "**", e, f>>))

EndsWithBlock(ts, i) == AfterDedent(ts, i) /\ At(ts, i) \in {"(", "["}
RECURSIVE ParsePostfixes(_, _, _)
ParsePostfixes(ts, i, left) ==
    CASE EndsWithBlock(ts, i) -> <<left, i>>
      [] At(ts, i) = "." ->
           IF IsLower(ts, i + 1) \/ IsUpper(ts, i + 1) \/ At(ts, i + 1) = "fn"
           THEN ParsePostfixes(ts, i + 2, <<"member", left, ts[i + 1]>>) ELSE Fail
      [] At(ts, i) = "(" -> Then(ParseArgs(ts, i), LAMBDA as, j : ParsePostfixes(ts, j, Call(left, as)))
      [] At(ts, i) = "[" -> Then(Expect(ts, ParseExpr(ts, i + 1), "]"), LAMBDA e, j :
                              ParsePostfixes(ts, j, <<"index", left, e>>))
      [] OTHER -> <<left, i>>
ParsePostfix(ts, i) == Then(ParsePrimary(ts, i), LAMBDA e, j : ParsePostfixes(ts, j, e))

-----------------------------------------------------------------------------
(* Blocks and bodies. *)

\* NEWLINE INDENT stmt_list DEDENT.
ParseBlock(ts, i) ==
    IF ~BlockAt(ts, i) THEN Fail
    ELSE As(Expect(ts, ParseStmtList(ts, i + 2, <<>>), "DEDENT"), LAMBDA ss : <<"block", ss>>)
ParseFnBody(ts, i) ==
    IF At(ts, i) = "NEWLINE" THEN ParseBlock(ts, i)
    ELSE As(ParseExpr(ts, i), LAMBDA e : <<"block", <<<<"expr", e>>>>>>)
ParseBranchBody(ts, i) == IF At(ts, i) = "NEWLINE" THEN ParseBlock(ts, i) ELSE ParseExpr(ts, i)

\* An optional guard: parsed up to "or", so that no lambda begins in it.
ParseGuard(ts, i) ==
    IF At(ts, i) # "when" THEN <<None, i>>
    ELSE LET g == ParseOr(ts, i + 1) IN IF g[2] = 0 THEN <<None, i + 1>> ELSE g

\* The branches of a block, up to its DEDENT: of match and with's else, recv, cond.
ParseHead(kind, ts, i) ==
    CASE kind = "cond" -> ParseOr(ts, i)
      [] kind = "recv" -> Then(ParsePattern(ts, i), LAMBDA p, j :
           IF At(ts, j) = "when" THEN As(ParseOr(ts, j + 1), LAMBDA g : <<p, g>>) ELSE <<<<p, None>>, j>>)
      [] OTHER -> ParsePattern(ts, i)
RECURSIVE ParseBranches(_, _, _, _)
ParseBranches(kind, ts, i, bs) ==
    IF At(ts, i) \in {"DEDENT", "EOF"} THEN Expect(ts, <<bs, i>>, "DEDENT")
    ELSE Then(Expect(ts, ParseHead(kind, ts, i), "->"), LAMBDA h, j :
           Then(ParseBranchBody(ts, j), LAMBDA b, k :
             ParseBranches(kind, ts, SkipNewlines(ts, k), Append(bs, <<h, b>>))))
BranchesAt(kind, ts, i) ==
    IF BlockAt(ts, i) THEN ParseBranches(kind, ts, SkipNewlines(ts, i + 2), <<>>) ELSE Fail

\* On one line with then and else, or in blocks.
ParseIf(ts, i) ==
    Then(ParseExpr(ts, i + 1), LAMBDA c, j :
      IF At(ts, j) = "then"
      THEN Then(Expect(ts, ParseExpr(ts, j + 1), "else"), LAMBDA t, k :
             As(ParseExpr(ts, k), LAMBDA e : <<"if", c, t, e, FALSE>>))
      ELSE Then(ParseBlock(ts, j), LAMBDA t, k :
             IF At(ts, k) = "else" THEN As(ParseBlock(ts, k + 1), LAMBDA e : <<"if", c, t, e, FALSE>>)
             ELSE <<<<"if", c, t, None, FALSE>>, k>>))
ParseMatch(ts, i) ==
    Then(ParseExpr(ts, i + 1), LAMBDA e, j :
      As(BranchesAt("match", ts, j), LAMBDA bs : <<"match", e, bs>>))

\* cond is a row of ifs, the last else raises.
NewCondExpr(bs) ==
    LET row == FoldRight(LAMBDA b, rest : <<"if", b[1], b[2], rest, FALSE>>, bs, <<"raise">>)
    IN  IF bs = <<>> THEN row ELSE [row EXCEPT ![5] = TRUE]
ParseCond(ts, i) == As(BranchesAt("cond", ts, i + 1), NewCondExpr)

\* Binds first, then a body that is not empty.
RECURSIVE ParseWithItems(_, _, _, _)
ParseWithItems(ts, i, items, stmts) ==
    LET p == ParsePattern(ts, i)
        binds == p[2] # 0 /\ At(ts, p[2]) = "<-"
    IN  CASE At(ts, i) \in {"DEDENT", "EOF"} ->
               IF stmts = <<>> THEN Fail ELSE Expect(ts, <<<<items, <<"block", stmts>>>>, i>>, "DEDENT")
          [] binds /\ stmts # <<>> -> Fail
          [] binds -> Then(ParseExpr(ts, p[2] + 1), LAMBDA e, j :
                        ParseWithItems(ts, SkipNewlines(ts, j), Append(items, <<p[1], e>>), stmts))
          [] OTHER -> Then(ParseStmt(ts, i), LAMBDA s, j :
                        ParseWithItems(ts, SkipNewlines(ts, j), items, Append(stmts, s)))
ParseWith(ts, i) ==
    IF ~BlockAt(ts, i + 1) THEN Fail
    ELSE Then(ParseWithItems(ts, SkipNewlines(ts, i + 3), <<>>, <<>>), LAMBDA w, j :
           IF At(ts, j) = "else"
           THEN As(BranchesAt("match", ts, j + 1), LAMBDA bs : <<"with", w[1], w[2], bs>>)
           ELSE <<<<"with", w[1], w[2], <<>>>>, j>>)

\* trap(e), or statements and ensures in one block.
RECURSIVE ParseTrapItems(_, _, _, _)
ParseTrapItems(ts, i, stmts, ensures) ==
    CASE At(ts, i) \in {"DEDENT", "EOF"} -> Expect(ts, <<<<"trap", None, <<"block", stmts>>, ensures>>, i>>, "DEDENT")
      [] At(ts, i) = "ensure" -> Then(ParseExpr(ts, i + 1), LAMBDA e, j :
           IF BlockAt(ts, j) THEN Fail ELSE ParseTrapItems(ts, SkipNewlines(ts, j), stmts, Append(ensures, e)))
      [] OTHER -> Then(ParseStmt(ts, i), LAMBDA s, j :
           ParseTrapItems(ts, SkipNewlines(ts, j), Append(stmts, s), ensures))
ParseTrap(ts, i) ==
    CASE At(ts, i + 1) = "(" ->
           As(Expect(ts, ParseExpr(ts, i + 2), ")"), LAMBDA e : <<"trap", e, None, <<>>>>)
      [] BlockAt(ts, i + 1) -> ParseTrapItems(ts, SkipNewlines(ts, i + 3), <<>>, <<>>)
      [] OTHER -> Fail

\* One branch on the line, or a block with else and after behind it.
RecvElse(ts, i) ==
    CASE At(ts, i) # "else" -> <<<<"", None>>, i>>
      [] IsLower(ts, i + 1) -> As(ParseBlock(ts, i + 2), LAMBDA b : <<ts[i + 1], b>>)
      [] OTHER -> Fail
RecvAfter(ts, i) ==
    IF At(ts, i) # "after" THEN <<<<None, None>>, i>>
    ELSE Then(Expect(ts, ParseOr(ts, i + 1), "->"), LAMBDA t, j :
           As(ParseBranchBody(ts, j), LAMBDA b : <<t, b>>))
ParseRecv(ts, i) ==
    IF At(ts, i + 1) # "NEWLINE"
    THEN Then(Expect(ts, ParseHead("recv", ts, i + 1), "->"), LAMBDA h, j :
           As(ParseExpr(ts, j), LAMBDA e : <<"recv", <<<<h, e>>>>, <<"", None>>, <<None, None>>>>))
    ELSE Then(BranchesAt("recv", ts, i + 1), LAMBDA bs, j :
           Then(RecvElse(ts, SkipNewlines(ts, j)), LAMBDA e, k :
             As(RecvAfter(ts, SkipNewlines(ts, k)), LAMBDA a : <<"recv", bs, e, a>>)))

-----------------------------------------------------------------------------
(* Lambdas and primary expressions. *)

\* The place after "x ->" or "(a, b) ->", and the names; 0 if there is none.
RECURSIVE ShortNames(_, _, _)
ShortNames(ts, i, names) ==
    CASE At(ts, i) = "," /\ IsLower(ts, i + 1) -> ShortNames(ts, i + 2, Append(names, ts[i + 1]))
      [] At(ts, i) = ")" /\ At(ts, i + 1) = "->" -> <<names, i + 2>>
      [] OTHER -> Fail
ShortLambdaHead(ts, i) ==
    CASE IsLower(ts, i) /\ At(ts, i + 1) = "->" -> <<<<ts[i]>>, i + 2>>
      [] At(ts, i) = "(" /\ IsLower(ts, i + 1) -> ShortNames(ts, i + 2, <<ts[i + 1]>>)
      [] OTHER -> Fail
EmptyLambdaAt(ts, i) == At(ts, i) = "(" /\ At(ts, i + 1) = ")" /\ At(ts, i + 2) = "->"
\* The body of a short lambda is on its line.
ShortBody(ts, i) == IF At(ts, i) = "NEWLINE" THEN Fail ELSE ParseExpr(ts, i)
ParseLambdaFull(ts, i) ==
    Then(Expect(ts, IF At(ts, i + 1) = "(" THEN ParseParams(ts, i + 1) ELSE <<<<>>, i + 1>>, "->"), LAMBDA ps, j :
      As(ParseFnBody(ts, j), LAMBDA b : <<"lamfull", ps, b>>))

ParseExpr(ts, i) ==
    LET short == ShortLambdaHead(ts, i)
    IN  CASE EmptyLambdaAt(ts, i) -> As(ShortBody(ts, i + 3), LAMBDA e : <<"lamempty", e>>)
          [] short[2] # 0 -> As(ShortBody(ts, short[2]), LAMBDA e : <<"lamshort", short[1], e>>)
          [] At(ts, i) = "fn" /\ At(ts, i + 1) \in {"(", "->"} -> ParseLambdaFull(ts, i)
          [] OTHER -> ParseOr(ts, i)

\* (e) is a group, a comma makes a tuple.
ParseParenOrTuple(ts, i) ==
    IF At(ts, i + 1) = ")" THEN <<<<"lit", "()">>, i + 2>>
    ELSE Then(ParseExpr(ts, i + 1), LAMBDA e, j :
           IF At(ts, j) # "," THEN As(Expect(ts, <<e, j>>, ")"), LAMBDA g : <<"group", g>>)
           ELSE As(Expect(ts, IF At(ts, j + 1) = ")" THEN <<<<e>>, j + 1>>
                              ELSE ParseElemsFrom("arg", ts, j + 1, ")", <<e>>), ")"),
                   LAMBDA es : Call(Var("()"), es)))
ParseRecord(typ, ts, i) == As(ParseElems("field", ts, i + 1, "}"), LAMBDA es : Call(<<"ctor{}", typ>>, es))

ParsePrimary(ts, i) ==
    LET t == At(ts, i)
        Literal(open, kind, close) == As(ParseElems(kind, ts, i + 1, close), LAMBDA es : Call(Var(open), es))
    IN  CASE t \in IntLits \cup StrLits \cup {"true", "false"} -> <<<<"lit", t>>, i + 1>>
          [] t \in AtomLits -> <<<<"atom", t>>, i + 1>>
          [] t \in LowerIdents -> <<Var(t), i + 1>>
          [] t \in UpperIdents ->
               IF QualifiedRecordAhead(ts, i)
               THEN Then(ScanQualified(ts, i + 1, <<t>>), LAMBDA name, j : ParseRecord(name, ts, j))
               ELSE <<Var(t), i + 1>>
          [] t = "(" -> ParseParenOrTuple(ts, i)
          [] t = "[" -> Literal("[]", "elem", "]")
          [] t = "%[" -> Literal("%[]", "elem", "]")
          [] t = "%{" -> Literal("%{}", "pair", "}")
          [] t = "{" -> ParseRecord(<<>>, ts, i)
          [] t = "if" -> ParseIf(ts, i)
          [] t = "match" -> ParseMatch(ts, i)
          [] t = "cond" -> ParseCond(ts, i)
          [] t = "recv" -> ParseRecv(ts, i)
          [] t = "with" -> ParseWith(ts, i)
          [] t = "trap" -> ParseTrap(ts, i)
          [] OTHER -> Fail

-----------------------------------------------------------------------------
(* Statements. *)

\* i is the place of fn.
ParseFnClause(ts, i) ==
    Then(ParseParams(ts, i + 2), LAMBDA ps, j :
      Then(Expect(ts, ParseGuard(ts, j), "->"), LAMBDA g, k :
        As(ParseFnBody(ts, k), LAMBDA b : <<ps, g, b>>)))
\* Clauses of one name that follow each other; the new lines before another
\* statement are left.
RECURSIVE ParseLocalFn(_, _, _)
ParseLocalFn(ts, i, cs) ==
    Then(ParseFnClause(ts, i), LAMBDA c, j :
      LET next == SkipNewlines(ts, j)
      IN  IF At(ts, next) = "fn" /\ At(ts, next + 1) = ts[i + 1]
          THEN ParseLocalFn(ts, next, Append(cs, c))
          ELSE <<<<"localfn", ts[i + 1], Append(cs, c)>>, j>>)

\* A pattern and "=" is a binding; otherwise it is read again as an expression.
ParseStmt(ts, i) ==
    LET p == ParsePattern(ts, i)
    IN  CASE At(ts, i) = "fn" /\ IsLower(ts, i + 1) -> ParseLocalFn(ts, i, <<>>)
          [] p[2] # 0 /\ At(ts, p[2]) = "=" -> As(ParseExpr(ts, p[2] + 1), LAMBDA e : <<"let", p[1], e>>)
          [] OTHER -> As(ParseExpr(ts, i), LAMBDA e : <<"expr", e>>)

\* Up to DEDENT: a line or the end of a block parts statements.
ParseStmtList(ts, from, stmts) ==
    LET i == SkipNewlines(ts, from)
    IN  IF At(ts, i) \in {"DEDENT", "EOF"} THEN <<stmts, i>>
        ELSE Then(ParseStmt(ts, i), LAMBDA s, j :
               IF At(ts, j) \in {"NEWLINE", "DEDENT", "EOF"} \/ AfterDedent(ts, j)
               THEN ParseStmtList(ts, j, Append(stmts, s)) ELSE Fail)

-----------------------------------------------------------------------------
(* Types: the unit, tuples, functions, names with the arguments they need. *)

Arity == [Tuple |-> 0, List |-> 1, Vector |-> 1, Set |-> 1, Option |-> 1, Map |-> 2, Result |-> 2]
RECURSIVE ParseTypeExpr(_, _)
\* A comma may stand before the close only where trailing.
RECURSIVE ParseTypesFrom(_, _, _, _)
ParseTypesFrom(ts, i, trailing, types) ==
    Then(ParseTypeExpr(ts, i), LAMBDA t, j :
      CASE At(ts, j) # "," -> <<Append(types, t), j>>
        [] trailing /\ At(ts, j + 1) = ")" -> <<Append(types, t), j + 1>>
        [] OTHER -> ParseTypesFrom(ts, j + 1, trailing, Append(types, t)))
\* Of the rest only the names of the language keep their arguments.
NamedType(name, args) ==
    CASE Len(name) > 1 \/ name[1] \notin DOMAIN Arity -> <<"tname", name>>
      [] name = <<"Tuple">> -> <<"ttuple", args>>
      [] OTHER -> <<"tapp", name[1], args>>
TakesArgs(name, args) == \/ Len(name) > 1 \/ name[1] \notin DOMAIN Arity \ {"Tuple"}
                         \/ Len(args) = Arity[name[1]]
\* A type, and whether it is a tuple in brackets of its own.
ParseTypePrimary(ts, i) ==
    LET q == ScanQualified(ts, i + 1, <<ts[i]>>)
        \* The place past the name is past the ">" of its arguments.
        Args == IF At(ts, q[2]) = "<" THEN Expect(ts, ParseTypesFrom(ts, q[2] + 1, FALSE, <<>>), ">") ELSE <<<<>>, q[2]>>
        Group == Then(ParseTypesFrom(ts, i + 1, TRUE, <<>>), LAMBDA types, j :
                   Expect(ts, <<IF Len(types) = 1 /\ ts[j - 1] # "," THEN <<types[1], FALSE>>
                                ELSE <<<<"ttuple", types>>, TRUE>>, j>>, ")"))
    IN  CASE At(ts, i) = "(" -> IF At(ts, i + 1) = ")" THEN <<<<<<"unit">>, FALSE>>, i + 2>> ELSE Group
          [] IsUpper(ts, i) -> Then(Args, LAMBDA args, j :
                                 IF TakesArgs(q[1], args) THEN <<<<NamedType(q[1], args), FALSE>>, j>> ELSE Fail)
          [] OTHER -> Fail
\* Of a tuple in brackets the elements are the parameters; else the type is one.
ParseTypeExpr(ts, i) ==
    Then(ParseTypePrimary(ts, i), LAMBDA t, j :
      IF At(ts, j) # "->" THEN <<t[1], j>>
      ELSE As(ParseTypeExpr(ts, j + 1), LAMBDA r : <<"tfn", IF t[2] THEN t[1][2] ELSE <<t[1]>>, r>>))

-----------------------------------------------------------------------------
(* Declarations and programs. *)

ParseModuleName(ts, i) == IF IsUpper(ts, i) THEN Then(ScanQualified(ts, i + 1, <<ts[i]>>), LAMBDA name, j :
                                                   IF At(ts, j) = "." THEN Fail ELSE <<name, j>>) ELSE Fail
ParseImportDecl(ts, i) == As(ParseModuleName(ts, i + 1), LAMBDA name : <<"import", name>>)
ParseAliasDecl(ts, i) ==
    Then(Expect(ts, ParseModuleName(ts, i + 1), "as"), LAMBDA name, j :
      As(ParseModuleName(ts, j), LAMBDA as : <<"alias", name, as>>))

RECURSIVE ParseNames(_, _, _)
ParseNames(ts, i, names) ==
    CASE ~IsUpper(ts, i) -> Fail
      [] At(ts, i + 1) = "," -> ParseNames(ts, i + 2, Append(names, ts[i]))
      [] OTHER -> <<Append(names, ts[i]), i + 1>>
ParseField(ts, i) ==
    IF IsLower(ts, i) /\ At(ts, i + 1) = ":" THEN As(ParseTypeExpr(ts, i + 2), LAMBDA t : <<ts[i], t>>) ELSE Fail
ParseVariant(ts, i) ==
    CASE ~IsUpper(ts, i) -> Fail
      [] At(ts, i + 1) # "(" -> <<<<ts[i], <<>>>>, i + 1>>
      [] At(ts, i + 2) = ")" -> <<<<ts[i], <<>>>>, i + 3>>
      [] OTHER -> As(Expect(ts, ParseTypesFrom(ts, i + 2, FALSE, <<>>), ")"), LAMBDA types : <<ts[i], types>>)
RECURSIVE ParseMembers(_, _, _, _)
ParseMembers(record, ts, i, ms) ==
    Then(IF record THEN ParseField(ts, i) ELSE ParseVariant(ts, i), LAMBDA x, j :
      CASE At(ts, j) # "," -> <<Append(ms, x), j>>
        [] At(ts, j + 1) = "}" -> <<Append(ms, x), j + 1>>
        [] OTHER -> ParseMembers(record, ts, j + 1, Append(ms, x)))
\* What stands in the braces, fields or variants, its first element says.
ParseBracedTypeBody(name, generic, ts, from) ==
    LET i == SkipNewlines(ts, from)
        record == IsLower(ts, i) /\ At(ts, i + 1) = ":"
    IN  IF At(ts, i) = "}" THEN <<<<"record", name, generic, <<>>>>, i + 1>>
        ELSE Then(ParseMembers(record, ts, i, <<>>), LAMBDA ms, j :
               Expect(ts, <<<<IF record THEN "record" ELSE "variants", name, generic, ms>>, SkipNewlines(ts, j)>>, "}"))
ParseTypeDecl(ts, i) ==
    Then(IF At(ts, i + 2) = "<" THEN Expect(ts, ParseNames(ts, i + 3, <<>>), ">") ELSE <<<<>>, i + 2>>, LAMBDA generic, j :
      CASE ~IsUpper(ts, i + 1) -> Fail
        [] At(ts, j) = "=" -> As(ParseTypeExpr(ts, j + 1), LAMBDA t : <<"typealias", ts[i + 1], generic, t>>)
        [] At(ts, j) = "{" -> ParseBracedTypeBody(ts[i + 1], generic, ts, j + 1)
        [] OTHER -> Fail)

\* The place of fn in a clause that begins at i, or 0.
FnClauseAt(ts, i) ==
    LET j == IF At(ts, i) = "pub" THEN i + 1 ELSE i
    IN  IF At(ts, j) = "fn" /\ IsLower(ts, j + 1) THEN j ELSE 0
RECURSIVE ParseFnDecl(_, _, _)
ParseFnDecl(ts, i, cs) ==
    LET at == FnClauseAt(ts, i)
    IN  IF at = 0 THEN Fail
        ELSE Then(ParseFnClause(ts, at), LAMBDA c, j :
               LET next == SkipNewlines(ts, j)
                   clauses == Append(cs, <<c, at > i>>)
               IN  IF FnClauseAt(ts, next) # 0 /\ ts[FnClauseAt(ts, next) + 1] = ts[at + 1]
                   THEN ParseFnDecl(ts, next, clauses)
                   ELSE <<<<"fndecl", ts[at + 1], clauses>>, j>>)

\* The lines of a module: declarations only.
RECURSIVE ParseModule(_, _, _)
ParseModule(ts, from, decls) ==
    LET i == SkipNewlines(ts, from)
        decl == CASE At(ts, i) = "import" -> ParseImportDecl(ts, i)
                  [] At(ts, i) = "alias" -> ParseAliasDecl(ts, i)
                  [] At(ts, i) = "type" -> ParseTypeDecl(ts, i)
                  [] At(ts, i) \in {"fn", "pub"} -> ParseFnDecl(ts, i, <<>>)
                  [] OTHER -> Fail
    IN  IF At(ts, i) = "EOF" THEN <<decls, i>>
        ELSE Then(decl, LAMBDA d, j : ParseModule(ts, j, Append(decls, d)))

\* A script: lines that end with NEWLINE, EOF or a block; no type and no pub.
RECURSIVE ParseScript(_, _, _, _)
ParseScript(ts, from, decls, stmts) ==
    LET i == SkipNewlines(ts, from)
        isDecl == At(ts, i) \in {"import", "alias"}
        line == CASE At(ts, i) \in {"type", "pub", "module"} -> Fail
                  [] At(ts, i) = "import" -> ParseImportDecl(ts, i)
                  [] At(ts, i) = "alias" -> ParseAliasDecl(ts, i)
                  [] OTHER -> ParseStmt(ts, i)
    IN  IF At(ts, i) = "EOF" THEN <<<<"script", decls, stmts>>, i>>
        ELSE Then(line, LAMBDA l, j :
               IF At(ts, j) \in {"NEWLINE", "EOF"} \/ AfterDedent(ts, j)
               THEN ParseScript(ts, j, IF isDecl THEN Append(decls, l) ELSE decls, IF isDecl THEN stmts ELSE Append(stmts, l))
               ELSE Fail)

\* The tree of a source, of a script or of a module; None if it does not parse.
Parse(source) ==
    LET ts == Lex(source)
        r == ParseScript(ts, 1, <<>>, <<>>)
    IN  IF ts = None \/ r[2] = 0 THEN None ELSE r[1]
ParseModuleSource(source) ==
    LET ts == Lex(source)
        name == IF At(ts, 1) = "module" THEN Expect(ts, ParseModuleName(ts, 2), "NEWLINE") ELSE <<<<>>, 1>>
        r == Then(name, LAMBDA n, i : As(ParseModule(ts, i, <<>>), LAMBDA ds : <<"module", n, ds>>))
    IN  IF ts = None \/ r[2] = 0 THEN None ELSE r[1]
=============================================================================
