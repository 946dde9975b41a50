------------------------------- MODULE Format -------------------------------
(***************************************************************************)
(* Writes a tree of Parser as a source of Layout.  The style "canonical" is *)
(* internal/ast/format.go.  The others differ from it where the grammar     *)
(* lets a person write the same tree another way: "rows" has the elements   *)
(* of a bracket on lines of their own without commas, "chains" begins a     *)
(* deeper line with the operator, "short" has a body of one expression on   *)
(* the line of its arrow.                                                   *)
(***************************************************************************)
EXTENDS Parser

Styles == <<"canonical", "rows", "chains", "short">>

CommaJoin(ss) == FlattenSeq([i \in DOMAIN ss |-> IF i = 1 THEN ss[i] ELSE <<",">> \o ss[i]])
DotJoin(names) == FlattenSeq([i \in DOMAIN names |-> IF i = 1 THEN <<names[i]>> ELSE <<".", names[i]>>])
\* Elements of a bracket at depth n of the text; In is the depth of an element.
In(n, y) == IF y = "rows" THEN n + 1 ELSE n
Bracket(open, ss, close, n, y) ==
    IF y = "rows" /\ ss # <<>>
    THEN <<open>> \o FlattenSeq([i \in DOMAIN ss |-> <<Mark(n + 1)>> \o ss[i]]) \o <<Mark(n), close>>
    ELSE <<open>> \o CommaJoin(ss) \o <<close>>
\* The operator and what follows it, behind its left operand.
Continue(op, rest, n, y) ==
    IF y = "chains" /\ op \in ContinuationOps THEN <<Mark(n + 1), op>> \o rest ELSE <<op>> \o rest
Literal(v) == IF v = "()" THEN <<"(", ")">> ELSE <<v>>

\* cond back from its row of ifs (accessors.go).
RECURSIVE CondBranches(_)
CondBranches(e) == IF e[1] # "if" THEN <<>> ELSE <<<<e[2], e[3]>>>> \o CondBranches(e[4])

RECURSIVE ExprString(_, _, _), WriteStmt(_, _, _), PatternString(_)

WriteBlock(b, n, y) == FlattenSeq([i \in DOMAIN b[2] |-> WriteStmt(b[2][i], n, y)])
\* The body of a function or of a branch.
FnBody(b, n, y) ==
    IF y = "short" /\ Len(b[2]) = 1 /\ b[2][1][1] = "expr" THEN ExprString(b[2][1][2], n, y)
    ELSE WriteBlock(b, n + 1, y)
WriteBranchTail(e, n, y) == IF e[1] = "block" THEN WriteBlock(e, n + 1, y) ELSE ExprString(e, n, y)
WriteBranchBody(e, n, y) == IF e[1] = "block" THEN WriteBlock(e, n, y) ELSE <<Mark(n)>> \o ExprString(e, n, y)
Guard(g, n, y) == IF g = None THEN <<>> ELSE <<"when">> \o ExprString(g, n, y)

Patterns(ps) == [i \in DOMAIN ps |-> PatternString(ps[i])]
TuplePattern(ps) ==
    <<"(">> \o CommaJoin(Patterns(ps)) \o (IF Len(ps) = 1 THEN <<",", ")">> ELSE <<")">>)
Rest(p) == IF ~p[3] THEN <<>> ELSE <<IF p[4] = "" THEN <<"..">> ELSE <<"..", p[4]>>>>
PatternString(p) ==
    CASE p[1] = "wild" -> <<"_">>
      [] p[1] = "ident" -> <<p[2]>>
      [] p[1] = "plit" -> Literal(p[2])
      [] p[1] = "concat" -> <<p[2], "<>">> \o PatternString(p[3])
      [] p[1] = "ctor" -> DotJoin(p[2]) \o (IF p[3] = <<>> THEN <<>>
                                             ELSE <<"(">> \o CommaJoin(Patterns(p[3])) \o <<")">>)
      [] p[1] = "as" -> PatternString(p[2]) \o <<"as", p[3]>>
      [] p[1] = "ptuple" -> TuplePattern(p[2])
      [] p[1] = "pvec" -> <<"%[">> \o CommaJoin(Patterns(p[2])) \o <<"]">>
      [] p[1] = "plist" -> <<"[">> \o CommaJoin(Patterns(p[2]) \o Rest(p)) \o <<"]">>
      [] p[1] = "spread" -> <<"..", p[2]>>
      [] p[1] = "pmap" -> <<"%{">> \o CommaJoin([i \in DOMAIN p[2] |->
            ExprString(p[2][i][1], 0, "canonical") \o <<"=>">> \o PatternString(p[2][i][2])]) \o <<"}">>
      [] p[1] = "prec" -> DotJoin(p[2]) \o <<"{">> \o CommaJoin([i \in DOMAIN p[3] |->
            <<p[3][i][1], ":">> \o PatternString(p[3][i][2])]) \o <<"}">>
Params(ps) == <<"(">> \o CommaJoin(Patterns(ps)) \o <<")">>

-----------------------------------------------------------------------------
(* Expressions, n levels deep. *)

Exprs(es, n, y) == [i \in DOMAIN es |-> ExprString(es[i], n, y)]
\* The literals of collections are calls of a name no source has.
CallString(callee, args, n, y) ==
    LET row(open, close) == Bracket(open, Exprs(args, In(n, y), y), close, n, y)
    IN  CASE callee = Var("()") -> <<"(">> \o CommaJoin(Exprs(args, n, y))
                                     \o (IF Len(args) = 1 THEN <<",", ")">> ELSE <<")">>)
          [] callee = Var("[]") -> row("[", "]")
          [] callee = Var("%[]") -> row("%[", "]")
          [] callee = Var("%{}") -> row("%{", "}")
          [] callee[1] = "ctor{}" -> DotJoin(callee[2]) \o row("{", "}")
          [] OTHER -> ExprString(callee, n, y) \o row("(", ")")

\* Each branch on its line, a level deeper; heads are their printed heads.
BranchLines(bs, heads, n, y) ==
    FlattenSeq([i \in DOMAIN bs |-> <<Mark(n + 1)>> \o heads[i] \o <<"->">> \o WriteBranchTail(bs[i][2], n + 1, y)])
PatternHeads(bs) == [i \in DOMAIN bs |-> PatternString(bs[i][1])]
CondString(bs, n, y) ==
    <<"cond">> \o BranchLines(bs, [i \in DOMAIN bs |-> ExprString(bs[i][1], n + 1, y)], n, y)
\* A block inside brackets opens only behind a header of one line.
HeaderString(e, n) == ExprString(e, n, "canonical")
IfString(e, n, y) ==
    IF e[5] THEN CondString(CondBranches(e), n, y)
    ELSE IF e[3][1] # "block" /\ e[4] # None /\ e[4][1] # "block"
    THEN <<"if">> \o ExprString(e[2], n, y) \o <<"then">> \o ExprString(e[3], n, y)
         \o <<"else">> \o ExprString(e[4], n, y)
    ELSE <<"if">> \o HeaderString(e[2], n) \o WriteBranchBody(e[3], n + 1, y)
         \o (IF e[4] = None THEN <<>> ELSE <<Mark(n), "else">> \o WriteBranchBody(e[4], n + 1, y))
MatchString(e, n, y) == <<"match">> \o HeaderString(e[2], n) \o BranchLines(e[3], PatternHeads(e[3]), n, y)
OneLineRecv(e) == Len(e[2]) = 1 /\ e[2][1][2][1] # "block" /\ e[3][1] = "" /\ e[4][1] = None
RecvString(e, n, y) ==
    LET head(h) == PatternString(h[1]) \o Guard(h[2], n + 1, y)
    IN  IF y = "short" /\ OneLineRecv(e)
        THEN <<"recv">> \o head(e[2][1][1]) \o <<"->">> \o ExprString(e[2][1][2], n, y)
        ELSE <<"recv">> \o BranchLines(e[2], [i \in DOMAIN e[2] |-> head(e[2][i][1])], n, y)
             \o (IF e[3][1] = "" THEN <<>> ELSE <<Mark(n), "else", e[3][1]>> \o WriteBranchBody(e[3][2], n + 1, y))
             \o (IF e[4][1] = None THEN <<>>
                 ELSE <<Mark(n), "after">> \o ExprString(e[4][1], n, y) \o <<"->">> \o WriteBranchTail(e[4][2], n, y))
WithString(e, n, y) ==
    <<"with">>
    \o FlattenSeq([i \in DOMAIN e[2] |-> <<Mark(n + 1)>> \o PatternString(e[2][i][1]) \o <<"<-">>
                                          \o ExprString(e[2][i][2], n + 1, y)])
    \o WriteBlock(e[3], n + 1, y)
    \o (IF e[4] = <<>> THEN <<>> ELSE <<Mark(n), "else">> \o BranchLines(e[4], PatternHeads(e[4]), n, y))
\* The ensures behind the statements.
TrapString(e, n, y) ==
    IF e[2] # None THEN <<"trap", "(">> \o ExprString(e[2], n, y) \o <<")">>
    ELSE <<"trap">> \o WriteBlock(e[3], n + 1, y)
         \o FlattenSeq([i \in DOMAIN e[4] |-> <<Mark(n + 1), "ensure">> \o ExprString(e[4][i], n + 1, y)])

ExprString(e, n, y) ==
    CASE e[1] \in {"lit", "atom"} -> Literal(e[2])
      [] e[1] = "var" -> <<e[2]>>
      [] e[1] = "bin" /\ e[2] \in {":", "=>"} -> ExprString(e[3], n, y) \o <<e[2]>> \o ExprString(e[4], n, y)
      [] e[1] = "bin" -> ExprString(e[3], n, y) \o Continue(e[2], ExprString(e[4], n, y), n, y)
      [] e[1] = "un" -> <<e[2]>> \o ExprString(e[3], n, y)
      [] e[1] = "group" -> <<"(">> \o ExprString(e[2], n, y) \o <<")">>
      [] e[1] = "call" -> CallString(e[2], e[3], n, y)
      [] e[1] = "pipe" -> ExprString(e[2], n, y) \o Continue("|>", DotJoin(e[3]) \o
            (IF e[4] = <<>> THEN <<>> ELSE Bracket("(", Exprs(e[4], In(n, y), y), ")", n, y)), n, y)
      [] e[1] = "member" -> ExprString(e[2], n, y) \o <<".", e[3]>>
      [] e[1] = "index" -> ExprString(e[2], n, y) \o <<"[">> \o ExprString(e[3], n, y) \o <<"]">>
      [] e[1] = "if" -> IfString(e, n, y)
      [] e[1] = "match" -> MatchString(e, n, y)
      [] e[1] = "recv" -> RecvString(e, n, y)
      [] e[1] = "with" -> WithString(e, n, y)
      [] e[1] = "trap" -> TrapString(e, n, y)
      [] e[1] = "lamshort" -> (IF Len(e[2]) = 1 THEN e[2] ELSE Params([i \in DOMAIN e[2] |-> <<"ident", e[2][i]>>]))
                              \o <<"->">> \o ExprString(e[3], n, y)
      [] e[1] = "lamempty" -> <<"(", ")", "->">> \o ExprString(e[2], n, y)
      [] e[1] = "lamfull" -> <<"fn">> \o (IF e[2] = <<>> THEN <<>> ELSE Params(e[2])) \o <<"->">> \o FnBody(e[3], n, y)
      [] e[1] = "range" -> ExprString(e[2], n, y) \o Continue("to", ExprString(e[3], n, y), n, y)
      [] e[1] = "block" -> WriteBlock(e, n, y)

-----------------------------------------------------------------------------
(* Statements, each on lines of its own. *)

Clause(c, n, y) == Params(c[1]) \o Guard(c[2], n, y) \o <<"->">> \o FnBody(c[3], n, y)
WriteStmt(s, n, y) ==
    CASE s[1] = "let" -> <<Mark(n)>> \o PatternString(s[2]) \o <<"=">> \o ExprString(s[3], n, y)
      [] s[1] = "expr" -> <<Mark(n)>> \o ExprString(s[2], n, y)
      [] s[1] = "localfn" -> FlattenSeq([i \in DOMAIN s[3] |-> <<Mark(n), "fn", s[2]>> \o Clause(s[3][i], n, y)])

-----------------------------------------------------------------------------
(* Types, declarations, programs. *)

RECURSIVE TypeString(_)
Types(types) == [i \in DOMAIN types |-> TypeString(types[i])]
TupleType(types) == <<"(">> \o CommaJoin(Types(types)) \o (IF Len(types) = 1 THEN <<",", ")">> ELSE <<")">>)
TypeString(t) ==
    CASE t[1] = "unit" -> <<"(", ")">>
      [] t[1] = "ttuple" -> TupleType(t[2])
      [] t[1] = "tfn" -> <<"(">> \o CommaJoin(Types(t[2])) \o <<")", "->">> \o TypeString(t[3])
      [] t[1] = "tname" -> DotJoin(t[2])
      [] t[1] = "tapp" -> <<t[2], "<">> \o CommaJoin(Types(t[3])) \o <<">">>

Generic(names) == IF names = <<>> THEN <<>> ELSE <<"<">> \o CommaJoin([i \in DOMAIN names |-> <<names[i]>>]) \o <<">">>
Member(kind, x) == CASE kind = "record" -> <<x[1], ":">> \o TypeString(x[2])
                     [] x[2] = <<>> -> <<x[1]>>
                     [] OTHER -> <<x[1], "(">> \o CommaJoin(Types(x[2])) \o <<")">>
TypeDeclString(d) ==
    <<"type", d[2]>> \o Generic(d[3])
    \o (IF d[1] = "typealias" THEN <<"=">> \o TypeString(d[4])
        ELSE <<"{">> \o CommaJoin([i \in DOMAIN d[4] |-> Member(d[1], d[4][i])]) \o <<"}">>)
FuncDeclString(d, y) ==
    FlattenSeq([i \in DOMAIN d[3] |-> (IF i = 1 THEN <<>> ELSE <<Mark(0)>>) \o (IF d[3][i][2] THEN <<"pub">> ELSE <<>>)
                                      \o <<"fn", d[2]>> \o Clause(d[3][i][1], 0, y)])
DeclString(d, y) ==
    <<Mark(0)>> \o (CASE d[1] = "import" -> <<"import">> \o DotJoin(d[2])
                       [] d[1] = "alias" -> <<"alias">> \o DotJoin(d[2]) \o <<"as">> \o DotJoin(d[3])
                       [] d[1] = "fndecl" -> FuncDeclString(d, y)
                       [] OTHER -> TypeDeclString(d))
\* The declarations of a script stand before its statements.
Format(program, y) ==
    LET decls(ds) == FlattenSeq([i \in DOMAIN ds |-> DeclString(ds[i], y)])
    IN  IF program[1] = "script" THEN decls(program[2]) \o WriteBlock(<<"block", program[3]>>, 0, y)
        ELSE (IF program[2] = <<>> THEN <<>> ELSE <<Mark(0), "module">> \o DotJoin(program[2])) \o decls(program[3])
=============================================================================
