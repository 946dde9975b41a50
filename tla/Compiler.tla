------------------------------ MODULE Compiler ------------------------------
(***************************************************************************)
(* The compiler from syntax to chunks (internal/compiler), as functions of *)
(* its state c: fcs, the stack of funcCompilers (each the parent of the     *)
(* next), lifted, the lambda-lifted local functions, and image, the global  *)
(* functions.  A step leaves its result (a register, a place in the code,   *)
(* an index) in c.r.  Every step returns the new state; c.bad says that an  *)
(* internal check of the compiler (fc.fail) failed, c.twice that two        *)
(* functions got one global name.                                           *)
(*                                                                          *)
(* Syntax.  An expression is a record with its kind in t, a statement with  *)
(* its kind in s, a pattern [p, n, v, keys, subs]; a function name is the   *)
(* sequence of the parts of its mangled name.  c.all are the modules of the *)
(* program, c.cur the one that is compiled, c.err the first compile error.  *)
(* Positions, types of records and errors of arity are left out.            *)
(***************************************************************************)
EXTENDS Primitives, Modules

Empty == <<>>

Scope(mark) == [names |-> Empty, fns |-> Empty, mark |-> mark]
FuncCompiler(prefix) ==
    [code |-> <<>>, next |-> 0, max |-> 0, scopes |-> <<Scope(0)>>, bound |-> {},
     ups |-> <<>>, caps |-> <<>>, capBase |-> 0, trapDepth |-> 0, nparams |-> 0,
     variadic |-> FALSE, prefix |-> prefix, fnSeq |-> Empty, lamSeq |-> 0,
     slots |-> Empty]

NoEns == [ensures |-> <<>>, scopes |-> 0]
Val(r) == [reg |-> r, tail |-> FALSE, ens |-> NoEns]
Tail_(r) == [Val(r) EXCEPT !.tail = TRUE]
Discard == Val(-1)

New(all) == [fcs |-> <<>>, lifted |-> Empty, image |-> Empty, all |-> all, cur |-> all[1],
             r |-> 0, here |-> TRUE, bad |-> FALSE, twice |-> FALSE,
             err |-> IF \E i \in DOMAIN all : all[i].clash THEN "clash" ELSE ""]

Fc(c) == Last(c.fcs)
SetFc(c, fc) == [c EXCEPT !.fcs[Len(c.fcs)] = fc]
Fail(c, when) == [c EXCEPT !.bad = @ \/ when]
Enter(c, prefix) == [c EXCEPT !.fcs = Append(@, FuncCompiler(prefix))]
Leave(c) == [c EXCEPT !.fcs = Front(@)]
CompileError(c, err) == [c EXCEPT !.err = IF @ = "" THEN err ELSE @]

RECURSIVE CompileExpr(_, _, _), CompileStmts(_, _, _), CompileClauses(_, _, _)

-----------------------------------------------------------------------------
(* Registers and scopes. *)

AllocReg(c) ==
    LET fc == Fc(c)
    IN  [SetFc(c, [fc EXCEPT !.next = @ + 1,
                             !.max = IF fc.next + 1 > @ THEN fc.next + 1 ELSE @])
            EXCEPT !.r = fc.next]

Release(c, mark) ==
    SetFc(c, [Fc(c) EXCEPT !.next = mark, !.bound = {r \in @ : r < mark}])

PushScope(c) == SetFc(c, [Fc(c) EXCEPT !.scopes = Append(@, Scope(Fc(c).next))])
PopScope(c) ==
    LET mark == Last(Fc(c).scopes).mark
    IN  Release(SetFc(c, [Fc(c) EXCEPT !.scopes = Front(@)]), mark)

BindLocal(c, name, r) ==
    LET fc == Fc(c)
    IN  Fail(SetFc(c, [fc EXCEPT !.scopes[Len(fc.scopes)].names = Extend(@, name, r),
                                 !.bound = @ \cup {r}]),
             r \notin 0 .. fc.next - 1)

\* The innermost scope that knows the name in table(scope), or 0.
ScopeOf(fc, name, fns) ==
    Max({0} \cup {i \in DOMAIN fc.scopes :
        name \in IF fns THEN DOMAIN fc.scopes[i].fns ELSE DOMAIN fc.scopes[i].names})

IsLocal(fc, name) == ScopeOf(fc, name, FALSE) # 0
ResolveLocal(fc, name) == fc.scopes[ScopeOf(fc, name, FALSE)].names[name]
IsLocalFn(fc, name) == ScopeOf(fc, name, TRUE) # 0
LocalFn(fc, name) == fc.scopes[ScopeOf(fc, name, TRUE)].fns[name]

\* bindLocalFn: the n-th function of a name in one function has n in its name.
BindLocalFn(c, name) ==
    LET fc == Fc(c)
        n == IF name \in DOMAIN fc.fnSeq THEN fc.fnSeq[name] ELSE 0
        mangled == fc.prefix \o (IF n = 0 THEN <<name>> ELSE <<ToString(n), name>>)
    IN  SetFc(c, [fc EXCEPT !.fnSeq = Extend(@, name, n + 1),
                            !.scopes[Len(fc.scopes)].fns = Extend(@, name, mangled)])

\* The level of the stack whose scopes give the name, a local before a function.
Binder(c, name) ==
    Max({0} \cup {l \in DOMAIN c.fcs : IsLocal(c.fcs[l], name) \/ IsLocalFn(c.fcs[l], name)})
ResolvesLocalFn(c, name) ==
    Binder(c, name) # 0 /\ ~IsLocal(c.fcs[Binder(c, name)], name)

-----------------------------------------------------------------------------
(* Captures. *)

\* Mutant of FindCapture: a register of the parent taken for a capture of it.
FindCaptureIndex(caps, uv) == SelectInSeq(caps, LAMBDA u : u.index = uv.index)
FindCapture(caps, uv) ==
    SelectInSeq(caps, LAMBDA u : u.local = uv.local /\ u.index = uv.index)

AddUpvalue(c, l, uv) ==
    LET i == FindCapture(c.fcs[l].ups, uv)
    IN  IF i = 0
        THEN [c EXCEPT !.fcs[l].ups = Append(@, uv), !.r = Len(c.fcs[l].ups)]
        ELSE [c EXCEPT !.fcs[l].ups[i].name = IF @ = "" THEN uv.name ELSE @, !.r = i - 1]

\* resolveUpvalue: through every level between; c.r = -1 when no level binds it.
RECURSIVE ResolveUpvalue(_, _, _)
ResolveUpvalue(c, l, name) ==
    LET known == SelectInSeq(c.fcs[l].ups, LAMBDA u : u.name = name)
        up == ResolveUpvalue(c, l - 1, name)
    IN  IF known # 0 THEN [c EXCEPT !.r = known - 1]
        ELSE IF l = 1 THEN [c EXCEPT !.r = -1]
        ELSE IF IsLocal(c.fcs[l - 1], name)
        THEN AddUpvalue(c, l, [name |-> name, local |-> TRUE,
                               index |-> ResolveLocal(c.fcs[l - 1], name)])
        ELSE IF up.r = -1 THEN up
        ELSE AddUpvalue(up, l, [name |-> name, local |-> FALSE, index |-> up.r])

\* fetchCapture: where level l has the binding uv of level owner; c.here: in a
\* register.
RECURSIVE FetchCapture(_, _, _, _)
FetchCapture(c, l, owner, uv) ==
    IF l = owner THEN [c EXCEPT !.r = uv.index, !.here = uv.local]
    ELSE LET c1 == FetchCapture(c, l - 1, owner, uv)
             in == [name |-> "", local |-> c1.here, index |-> c1.r]
             i == FindCapture(c.fcs[l].caps, in)
         IN  IF i # 0 THEN [c1 EXCEPT !.r = c1.fcs[l].capBase + i - 1, !.here = TRUE]
             ELSE [AddUpvalue(c1, l, in) EXCEPT !.here = FALSE]

-----------------------------------------------------------------------------
(* Code. *)

\* emit: I-4, no register beyond nextReg; I-3, no write to a bound one.
Emit(c, i) ==
    LET fc == Fc(c)
    IN  Fail([SetFc(c, [fc EXCEPT !.code = Append(@, i)]) EXCEPT !.r = Len(fc.code) + 1],
             \/ ~(Reads(i) \cup Writes(i) \subseteq 0 .. fc.next - 1)
             \/ i.a \in Writes(i) \cap fc.bound)

EmitJump(c, op, a) == Emit(c, Instr(op, a, 0, 0))
PatchHere(c, at) ==
    SetFc(c, [Fc(c) EXCEPT !.code[at].j = Len(Fc(c).code) - at])
RECURSIVE PatchAll(_, _)
PatchAll(c, jumps) ==
    IF c.bad \/ jumps = <<>> THEN c ELSE PatchAll(PatchHere(c, Head(jumps)), Tail(jumps))

DestReg(c, d) == IF d.reg # -1 THEN [c EXCEPT !.r = d.reg] ELSE AllocReg(c)

Finish(c, d, from) ==
    IF d.tail THEN Emit(c, Instr("RETURN", from, 0, 0))
    ELSE IF d.reg \notin {-1, from} THEN Emit(c, Instr("MOVE", d.reg, from, 0)) ELSE c

LoadKonst(c, r, v) == Emit(c, InstrK("LOADK", r, v))

LoadConst(c, v, d) ==
    LET c1 == AllocReg(c)
        c2 == Emit(LoadKonst(c1, c1.r, v), Instr("RETURN", c1.r, 0, 0))
    IN  IF d.tail THEN Release(c2, c1.r)
        ELSE IF d.reg = -1 THEN c ELSE LoadKonst(c, d.reg, v)

\* GETGLOBAL and GETUPVAL into d.
LoadInto(c, d, i) ==
    LET c1 == AllocReg(c)
        c2 == Emit(Emit(c1, [i EXCEPT !.a = c1.r]), Instr("RETURN", c1.r, 0, 0))
    IN  IF d.tail THEN Release(c2, c1.r)
        ELSE IF d.reg = -1 THEN c ELSE Emit(c, [i EXCEPT !.a = d.reg])
LoadGlobal(c, d, name) == LoadInto(c, d, InstrK("GETGLOBAL", 0, name))
LoadUpval(c, d, idx) == LoadInto(c, d, Instr("GETUPVAL", 0, idx, 0))

LoadVal(c, d, src) ==
    IF d.tail THEN Emit(c, Instr("RETURN", src, 0, 0))
    ELSE IF d.reg \in {-1, src} THEN c ELSE Emit(c, Instr("MOVE", d.reg, src, 0))

\* operand: the register of a local itself, or the value in a new register;
\* operandInto: or the value in `into`.
OperandInto(c, e, into) ==
    IF e.t = "var" /\ IsLocal(Fc(c), e.n)
    THEN [c EXCEPT !.r = ResolveLocal(Fc(c), e.n)]
    ELSE [CompileExpr(c, e, Val(into)) EXCEPT !.r = into]
Operand(c, e) ==
    LET c1 == AllocReg(c)
    IN  IF e.t = "var" /\ IsLocal(Fc(c), e.n) THEN OperandInto(c, e, 0)
        ELSE OperandInto(c1, e, c1.r)

\* The values of es in consecutive new registers.
RECURSIVE InRow(_, _)
InRow(c, es) ==
    IF c.bad \/ es = <<>> THEN c
    ELSE LET c1 == AllocReg(c)
         IN  InRow(CompileExpr(c1, Head(es), Val(c1.r)), Tail(es))

\* The scheme of most expressions: a result register, operands above it, one
\* instruction; Result gives back the temporaries.
Result(c, d, dst, mark) == Release(Finish(c, d, dst), mark)

RaiseWith(c, atom, r) ==
    LET c1 == AllocReg(c)
        c2 == AllocReg(c1)
        w == c1.r
        c3 == Emit(LoadKonst(c2, w, Atom(atom)), Instr("MOVE", w + 1, r, 0))
    IN  Emit(Emit(c3, Instr("TUPLE", w, w, 2)), Instr("RAISE", w, 0, 0))

-----------------------------------------------------------------------------
(* Patterns.  c.r is the compiled pattern: the pattern with slots. *)

Slotted(p, slot, subs) ==
    [p |-> p.p, n |-> p.n, v |-> p.v, keys |-> p.keys, slot |-> slot, subs |-> subs]

\* patSlot: the register reserved for the name (trap with ensure) or a new one.
PatSlot(c, name) ==
    LET slots == Fc(c).slots
    IN  IF name \in DOMAIN slots
        THEN [SetFc(c, [Fc(c) EXCEPT !.slots =
                           [n \in DOMAIN slots \ {name} |-> slots[n]]]) EXCEPT !.r = slots[name]]
        ELSE AllocReg(c)
BindSlot(c, name) == LET c1 == PatSlot(c, name) IN BindLocal(c1, name, c1.r)

\* Names bound by the pattern itself: an identifier, `as`, a rest.
Names(p) == IF p.p \in {"id", "as"} \/ (p.p = "list" /\ p.n \notin {"", ".."}) THEN <<p.n>> ELSE <<>>

RECURSIVE PatternNames(_)
PatternNames(p) ==
    FlattenSeq([i \in DOMAIN p.subs |-> PatternNames(p.subs[i])]) \o Names(p)

RECURSIVE CompilePattern(_, _), CompilePatterns(_, _, _)
CompilePattern(c, p) ==
    LET c1 == CompilePatterns(c, p.subs, <<>>)
        c2 == BindSlot(c1, p.n)
    IN  IF Names(p) = <<>> THEN [c1 EXCEPT !.r = Slotted(p, -1, c1.r)]
        ELSE [c2 EXCEPT !.r = Slotted(p, c2.r, c1.r)]
CompilePatterns(c, ps, done) ==
    IF c.bad \/ ps = <<>> THEN [c EXCEPT !.r = done]
    ELSE LET c1 == CompilePattern(c, Head(ps))
         IN  CompilePatterns(c1, Tail(ps), Append(done, c1.r))

\* MATCHLOCAL of R[r] and the JMP of its fail edge, whose place is c.r.
EmitMatch(c, p, r) ==
    LET c1 == CompilePattern(c, p)
    IN  EmitJump(Emit(c1, InstrK("MATCHLOCAL", r, c1.r)), "JMP", 0)

-----------------------------------------------------------------------------
(* Functions. *)

ChunkOf(fc) == [code |-> fc.code, nregs |-> fc.max, nparams |-> fc.nparams,
                variadic |-> fc.variadic]

HasRest(ps) == ps # <<>> /\ Last(ps).p = "spread"
\* clausesShape: the fewest fixed parameters of a clause; is one variadic?
Shape(clauses) ==
    [fixed |-> Min({Len(clauses[i].ps) - (IF HasRest(clauses[i].ps) THEN 1 ELSE 0) :
                      i \in DOMAIN clauses}),
     variadic |-> \E i \in DOMAIN clauses : HasRest(clauses[i].ps)]

\* Parameters ps[i ..] in R[base + i - 1]; fails grows by the fail jumps.
RECURSIVE BindParams(_, _, _, _, _)
BindParams(c, ps, i, base, fails) ==
    IF c.bad \/ i > Len(ps) THEN [c EXCEPT !.r = fails]
    ELSE LET reg == base + i - 1
             c1 == EmitMatch(c, ps[i], reg)
         IN  CASE ps[i].p = "id" -> BindParams(BindLocal(c, ps[i].n, reg), ps, i + 1, base, fails)
               [] ps[i].p = "wild" -> BindParams(c, ps, i + 1, base, fails)
               [] OTHER -> BindParams(c1, ps, i + 1, base, Append(fails, c1.r))

\* bindRestTail: the parameters beyond the fixed ones against the rest list.
BindRestTail(c, tail, reg, fails) ==
    LET rest == IF HasRest(tail) THEN Last(tail).n ELSE ""
        elems == IF HasRest(tail) THEN Front(tail) ELSE tail
        list == [p |-> "list", n |-> rest, v |-> None, keys |-> <<>>, subs |-> elems]
        c1 == EmitMatch(c, list, reg)
    IN  IF elems = <<>> /\ HasRest(tail) THEN [BindLocal(c, rest, reg) EXCEPT !.r = fails]
        ELSE [c1 EXCEPT !.r = Append(fails, c1.r)]

\* A clause body: the value of the function.
Body(c, stmts) ==
    LET c1 == AllocReg(c) IN CompileStmts(c1, stmts, Tail_(c1.r))

Guard(c, guard) ==
    LET c1 == AllocReg(c)
        c2 == EmitJump(CompileExpr(c1, guard, Val(c1.r)), "JMPIFNOT", c1.r)
    IN  [Release(c2, Fc(c).next) EXCEPT !.r = c2.r]

CompileOneClause(c, cl, base, shape) ==
    LET c1 == BindParams(PushScope(c), SubSeq(cl.ps, 1, shape.fixed), 1, base, <<>>)
        c2 == IF shape.variadic
              THEN BindRestTail(c1, SubSeq(cl.ps, shape.fixed + 1, Len(cl.ps)),
                                base + shape.fixed, c1.r)
              ELSE c1
        c3 == Guard(c2, cl.guard)
        fails == IF cl.guard.t = "none" THEN c2.r ELSE Append(c2.r, c3.r)
    IN  [PopScope(Body(IF cl.guard.t = "none" THEN c2 ELSE c3, cl.body)) EXCEPT !.r = fails]

RaiseFunctionClause(c, base, n) ==
    LET c1 == AllocReg(c)
        c2 == AllocReg(LoadKonst(c1, c1.r, Atom("function_clause")))
    IN  Emit(Emit(Emit(c2, Instr("LIST", c2.r, base, n)), Instr("TUPLE", c1.r, c1.r, 2)),
             Instr("RAISE", c1.r, 0, 0))

RECURSIVE Allocs(_, _), ClausesFrom(_, _, _, _, _), BindCaps(_, _, _)
Allocs(c, n) == IF n = 0 THEN c ELSE Allocs(AllocReg(c), n - 1)
BindCaps(c, caps, i) ==
    IF c.bad \/ i > Len(caps) THEN c
    ELSE BindCaps(IF caps[i].name = "" THEN c
                  ELSE BindLocal(c, caps[i].name, Fc(c).capBase + i - 1), caps, i + 1)
ClausesFrom(c, clauses, i, base, shape) ==
    LET c1 == CompileOneClause(c, clauses[i], base, shape)
        c2 == PatchAll(c1, c1.r)
        n == shape.fixed + (IF shape.variadic THEN 1 ELSE 0)
    IN  IF c.bad THEN c
        ELSE IF i < Len(clauses) THEN ClausesFrom(c2, clauses, i + 1, base, shape)
        ELSE IF c1.r # <<>> THEN RaiseFunctionClause(c2, base, n) ELSE c2

\* Registers: [captures, when variadic] fixed [rest] [captures, when not].
CompileClauses(c, clauses, caps) ==
    LET shape == Shape(clauses)
        n == shape.fixed + (IF shape.variadic THEN 1 ELSE 0)
        c1 == Allocs(SetFc(c, [Fc(c) EXCEPT
                !.capBase = IF shape.variadic THEN 0 ELSE n, !.caps = caps,
                !.variadic = shape.variadic, !.nparams = n + Len(caps)]), n + Len(caps))
    IN  ClausesFrom(BindCaps(c1, caps, 1), clauses, 1,
                    IF shape.variadic THEN Len(caps) ELSE 0, shape)

\* Lambda lifting: declareLocalFns widens the captures of the functions of a
\* block until none of them captures more.
DeclareFn(c, st) ==
    LET c1 == BindLocalFn(c, st.n)
        name == LocalFn(Fc(c1), st.n)
        shape == Shape(st.cls)
    IN  [c1 EXCEPT !.lifted = Extend(@, name, [arity |-> shape.fixed, variadic |-> shape.variadic,
                                            caps |-> <<>>])]

RECURSIVE MergeCaps(_, _)
MergeCaps(caps, ups) ==
    IF ups = <<>> THEN caps
    ELSE LET uv == Head(ups)
             i == FindCapture(caps, uv)
         IN  MergeCaps(IF i = 0 THEN Append(caps, uv)
                       ELSE [caps EXCEPT ![i].name = IF @ = "" THEN uv.name ELSE @], Tail(ups))

\* The body of a local function in a funcCompiler of its own, on top of c.
ChildFn(c, st, name) == CompileClauses(Enter(c, name), st.cls, c.lifted[name].caps)

Probe(c, st) ==
    LET name == LocalFn(Fc(c), st.n)
        c1 == ChildFn(c, st, name)
    IN  IF c.bad THEN c
        ELSE [Leave(c1) EXCEPT !.lifted[name].caps = MergeCaps(@, Fc(c1).ups)]

RECURSIVE Widen(_, _)
Widen(c, decls) ==
    LET c1 == FoldLeft(Probe, c, decls)
        own == {LocalFn(Fc(c), decls[i].n) : i \in DOMAIN decls}
    IN  IF \A name \in own : c1.lifted[name] = c.lifted[name] THEN c1 ELSE Widen(c1, decls)

DeclareLocalFns(c, stmts) ==
    LET decls == SelectSeq(stmts, LAMBDA st : st.s = "fn")
    IN  IF decls = <<>> THEN c ELSE Widen(FoldLeft(DeclareFn, c, decls), decls)

CompileLocalFn(c, st, d) ==
    LET name == LocalFn(Fc(c), st.n)
        c1 == ChildFn(c, st, name)
        entry == [chunk |-> ChunkOf(Fc(c1)), src |-> st]
    IN  LoadConst([Fail(Leave(c1), Fc(c1).ups # <<>>) EXCEPT
                      !.twice = @ \/ (name \in DOMAIN c1.image /\ c1.image[name].src # st),
                      !.image = Extend(@, name, entry)],
                  Unit, d)

-----------------------------------------------------------------------------
(* Statements. *)

LetInto(c, st, r, d) ==
    LoadConst(BindLocal(CompileExpr(c, st.e, Val(r)), st.p.n, r), Unit, d)

CompilePatternBind(c, st, d, slots) ==
    LET c1 == AllocReg(c)
        r == c1.r
        v == CompileExpr(c1, st.e, Val(r))
        c2 == SetFc(v, [Fc(v) EXCEPT !.slots = slots])
        c3 == EmitMatch(c2, st.p, r)
        c4 == EmitJump(SetFc(c3, [Fc(c3) EXCEPT !.slots = Empty]), "JMP", 0)
        c5 == Release(RaiseWith(PatchHere(c4, c3.r), "badmatch", r), Fc(c4).next)
    IN  LoadConst(PatchHere(c5, c4.r), Unit, d)

CompileLetBind(c, st, d) ==
    LET c1 == AllocReg(c)
    IN  IF st.p.p = "id" THEN LetInto(c1, st, c1.r, d) ELSE CompilePatternBind(c, st, d, Empty)

CompileStmt(c, st, d) ==
    CASE st.s = "let" -> CompileLetBind(c, st, d)
      [] st.s = "expr" -> CompileExpr(c, st.e, d)
      [] st.s = "fn" -> CompileLocalFn(c, st, d)

RECURSIVE StmtsFrom(_, _, _)
StmtsFrom(c, stmts, d) ==
    IF c.bad THEN c
    ELSE IF Len(stmts) = 1 THEN CompileStmt(c, stmts[1], d)
    ELSE StmtsFrom(CompileStmt(c, stmts[1], Discard), Tail(stmts), d)

CompileStmts(c, stmts, d) ==
    IF stmts = <<>> THEN LoadConst(c, Unit, d)
    ELSE StmtsFrom(DeclareLocalFns(c, stmts), stmts, d)

CompileBranch(c, stmts, d) == PopScope(CompileStmts(PushScope(c), stmts, d))

-----------------------------------------------------------------------------
(* Closures and names. *)

ActorOps ==
    [spawn |-> "SPAWN", spawn_linked |-> "SPAWN", spawn_watched |-> "SPAWN", exit |-> "EXIT",
     send |-> "SEND", self |-> "SELF", make_ref |-> "MAKEREF", watch |-> "WATCH",
     link |-> "LINK", unwatch |-> "UNWATCH", mailbox_size |-> "MAILBOXSIZE",
     register |-> "REGISTER", unregister |-> "UNREGISTER", whereis |-> "WHEREIS",
     await |-> "AWAIT", reply |-> "REPLY"]
\* The names that begin with a capital.
IsConstructor(n) == n \in {"Ok", "Error", "Some", "None", "Red", "Box"}

LoadCapture(c, owner, uv, r) ==
    LET c1 == FetchCapture(c, Len(c.fcs), owner, uv)
    IN  IF ~c1.here THEN Emit(c1, Instr("GETUPVAL", r, c1.r, 0))
        ELSE IF c1.r # r THEN Emit(c1, Instr("MOVE", r, c1.r, 0)) ELSE c1

LoadCaps(c, owner, caps) ==
    FoldLeft(LAMBDA x, uv : LET c1 == AllocReg(x) IN LoadCapture(c1, owner, uv, c1.r), c, caps)

\* MAKECLOSURE over fn; Load puts the n captures in a row.
MakeClosure(c, d, fn, n, Load(_)) ==
    LET c1 == DestReg(c, d)
        c2 == AllocReg(c1)
        c3 == Load(LoadKonst(c2, c2.r, fn))
    IN  Result(Emit(c3, Instr("MAKECLOSURE", c1.r, c2.r, n)), d, c1.r, Fc(c).next)

EmitClosure(c, child, d) ==
    LET Load(x) == FoldLeft(LAMBDA y, uv :
            LET y1 == AllocReg(y)
            IN  Emit(y1, Instr(IF uv.local THEN "MOVE" ELSE "GETUPVAL", y1.r, uv.index, 0)),
            x, child.ups)
    IN  MakeClosure(c, d, Func(child.prefix, ChunkOf(child)), Len(child.ups), Load)

NoExpr == [t |-> "none"]
\* compileLambda, compileLambdaFull: a clause without a guard.
CompileLambda(c, ps, body, d) ==
    LET prefix == Fc(c).prefix \o <<"lambda", ToString(Fc(c).lamSeq)>>
        c1 == CompileClauses(Enter(SetFc(c, [Fc(c) EXCEPT !.lamSeq = @ + 1]), prefix),
                             <<[ps |-> ps, guard |-> NoExpr, body |-> body]>>, <<>>)
    IN  EmitClosure(Leave(c1), Fc(c1), d)

\* loadLocalFn: the wrapper takes the declared parameters and adds the captures.
Wrapper(name, lf) ==
    LET n == lf.arity + (IF lf.variadic THEN 1 ELSE 0)
        k == Len(lf.caps)
        Caps(at) == [j \in 1 .. k |-> Instr("GETUPVAL", at + j - 1, j - 1, 0)]
        Params(at) == [i \in 1 .. n |-> Instr("MOVE", at + i - 1, i - 1, 0)]
    IN  [code |-> <<InstrK("GETGLOBAL", n, name)>> \o
                  (IF lf.variadic
                   THEN Caps(n + 1) \o Params(n + 1 + k) \o <<Instr("TAILCALLSPREAD", n, n + k, 0)>>
                   ELSE Params(n + 1) \o Caps(n + 1 + n) \o <<Instr("TAILCALL", n, n + k, 0)>>),
         nregs |-> 2 * n + k + 1, nparams |-> n, variadic |-> lf.variadic]

LoadLocalFn(c, d, name, owner) ==
    LET lf == c.lifted[name]
        Load(x) == LoadCaps(x, owner, lf.caps)
    IN  IF lf.caps = <<>> THEN LoadGlobal(c, d, name)
        ELSE IF d = Discard THEN c
        ELSE MakeClosure(c, d, Func(name, Wrapper(name, lf)), Len(lf.caps), Load)

BareGlobalPlain(c, n) == IF n \in c.cur.fns THEN Append(c.cur.prefix, n) ELSE <<n>>

\* bareGlobal: a function of the module itself; a name that a function of the
\* entry module hides there is the one of the prelude elsewhere.
BareGlobal(c, n) ==
    IF n \in c.cur.fns THEN Append(c.cur.prefix, n)
    ELSE IF c.cur.prefix # <<>> /\ n \in c.all[1].fns THEN <<Key(Prelude), n>>
    ELSE <<n>>

\* A local, a local function, a capture, a constructor, a global.
CompileVar(c, n, d) ==
    LET owner == Binder(c, n)
        c1 == ResolveUpvalue(c, Len(c.fcs), n)
    IN  IF IsLocal(Fc(c), n) THEN LoadVal(c, d, ResolveLocal(Fc(c), n))
        ELSE IF ResolvesLocalFn(c, n) THEN LoadLocalFn(c, d, LocalFn(c.fcs[owner], n), owner)
        ELSE IF c1.r # -1 THEN LoadUpval(c1, d, c1.r)
        ELSE IF n \in DOMAIN c.cur.ctors THEN LoadConst(c, c.cur.ctors[n], d)
        ELSE LoadGlobal(c, d, BareGlobal(c, n))

\* compileModulePath: a function of a module as a value, or a constructor.
RefOf(c, name) == ResolveModule(c.all, c.cur, name)
NotImported(c, name) == ~RefOf(c, name).known /\ HasModule(c.all, name)
CompilePath(c, e, d) ==
    LET ref == RefOf(c, e.m)
    IN  IF ~IsConstructor(e.n)
        THEN IF NotImported(c, e.m) THEN CompileError(c, "module is not imported")
             ELSE IF ref.prefix = <<Key(Prelude)>> /\ e.n \in DOMAIN ActorOps
             THEN CompileError(c, "actor primitive as a value")
             ELSE LoadGlobal(c, d, Append(ref.prefix, e.n))
        ELSE IF ~ref.known THEN CompileExpr(c, [t |-> "member", n |-> e.n,
                                              e |-> [t |-> "var", n |-> Key(e.m)]], d)
        ELSE IF e.n \notin DOMAIN ref.ctors THEN CompileError(c, "unknown constructor")
        ELSE LoadConst(c, ref.ctors[e.n], d)

-----------------------------------------------------------------------------
(* Operators, branches and collections. *)

Op1(c, op, e, d) ==
    LET c1 == DestReg(c, d)
        c2 == OperandInto(c1, e, c1.r)
    IN  Result(Emit(c2, Instr(op, c1.r, c2.r, 0)), d, c1.r, Fc(c).next)

\* Binary operators, ranges and indexing.
Op2(c, op, l, r, d) ==
    LET c1 == DestReg(c, d)
        c2 == OperandInto(c1, l, c1.r)
        c3 == Operand(c2, r)
    IN  Result(Emit(c3, Instr(op, c1.r, c2.r, c3.r)), d, c1.r, Fc(c).next)

\* The right operand is checked by a jump to the next instruction.
AndOr(c, op, l, r, d) ==
    LET c1 == DestReg(c, d)
        acc == c1.r
        c2 == EmitJump(CompileExpr(c1, l, Val(acc)), op, acc)
        c3 == EmitJump(CompileExpr(c2, r, Val(acc)), op, acc)
    IN  Result(PatchHere(c3, c2.r), d, acc, Fc(c).next)

CompileIf(c, e, d) ==
    LET c1 == Operand(c, e.c)
        c2 == EmitJump(c1, "JMPIFNOT", c1.r)
        c3 == CompileBranch(Release(c2, Fc(c).next), e.th, d)
        c4 == IF d.tail THEN c3 ELSE EmitJump(c3, "JMP", 0)
        c5 == CompileBranch(PatchHere(c4, c2.r), e.el, d)
    IN  IF d.tail THEN c5 ELSE PatchHere(c5, c4.r)

IsSpread(e) == e.t = "spread"
Spreads(es) == Cardinality({i \in DOMAIN es : IsSpread(es[i])})
\* spreadShape: one spread, and it is the last.
SingleTrailing(es) == Spreads(es) = 1 /\ IsSpread(Last(es))
Bare(es) == [i \in DOMAIN es |-> IF IsSpread(es[i]) THEN es[i].e ELSE es[i]]

\* compileSpreadPairs and the triples of compileSpreadMap.
TagRow(c, es, pairs) ==
    LET One(x, e) ==
          LET x1 == AllocReg(x)
              x2 == LoadKonst(x1, x1.r, Bool(IsSpread(e)))
              x3 == InRow(x2, IF e.t = "pair" THEN <<e.k, e.e>> ELSE Bare(<<e>>))
              x4 == AllocReg(x3)
          IN  IF pairs /\ IsSpread(e) THEN LoadKonst(x4, x4.r, Unit) ELSE x3
    IN  FoldLeft(One, c, es)

\* compileSeq, compileMap and their forms with spreads.
Collect(c, op, es, d) ==
    LET c1 == DestReg(c, d)
        base == IF es = <<>> THEN 0 ELSE Fc(c1).next
        spread == op # "TUPLE" /\ Spreads(es) > 0
        op1 == CASE ~spread -> op [] op = "LIST" -> "LISTSPREAD" [] op = "VECTOR" -> "VECSPREAD"
                 [] op = "MAP" -> "MAPSPREAD"
        flat == IF op # "MAP" THEN es
                ELSE FlattenSeq([i \in DOMAIN es |-> <<es[i].k, es[i].e>>])
        c2 == IF spread THEN TagRow(c1, es, op = "MAP") ELSE InRow(c1, flat)
    IN  Result(Emit(c2, Instr(op1, c1.r, base, Len(es))), d, c1.r, Fc(c).next)

\* The shape is a constant: type, declared fields, names of the slots.
CompileRecord(c, e, d) ==
    LET c1 == DestReg(c, d)
        c2 == AllocReg(c1)
        names == [i \in DOMAIN e.slots |-> e.slots[i].n]
        c3 == InRow(LoadKonst(c2, c2.r, <<"shape", e.type, e.fields, names>>),
                    [i \in DOMAIN e.slots |-> e.slots[i].e])
    IN  Result(Emit(c3, Instr("RECORD", c1.r, c2.r, Len(e.slots))), d, c1.r, Fc(c).next)

CompileMember(c, e, d) ==
    LET c1 == DestReg(c, d)
        c2 == AllocReg(c1)
        c3 == OperandInto(c2, e.e, c2.r)
        c4 == AllocReg(c3)
        c5 == LoadKonst(c4, c4.r, Text(e.n))
    IN  Result(Emit(c5, Instr("GETFIELD", c1.r, c3.r, c4.r)), d, c1.r, Fc(c).next)

-----------------------------------------------------------------------------
(* match, with, recv. *)

\* One branch of match or else: its end jump is appended to ends.
CaseBranch(c, s, br, d, ends) ==
    LET c1 == EmitMatch(PushScope(c), br.p, s)
        c2 == CompileBranch(c1, br.body, d)
        c3 == IF d.tail THEN c2 ELSE EmitJump(c2, "JMP", 0)
    IN  IF c.bad THEN c
        ELSE [PopScope(PatchHere(c3, c1.r)) EXCEPT !.r = IF d.tail THEN ends ELSE Append(ends, c3.r)]

CaseBranches(c, s, brs, d) ==
    LET c1 == FoldLeft(LAMBDA x, br : CaseBranch(x, s, br, d, x.r), [c EXCEPT !.r = <<>>], brs)
    IN  Release(PatchAll(RaiseWith(c1, "case_clause", s), c1.r), Fc(c).next)

CompileMatch(c, e, d) ==
    LET c1 == Operand(c, e.e) IN Release(CaseBranches(c1, c1.r, e.brs, d), Fc(c).next)

\* The value that did not match is the result, or the subject of else.
CompileWith(c, e, d) ==
    LET c1 == AllocReg(c)
        v == c1.r
        Item(x, it) ==
          LET x1 == EmitMatch(CompileExpr(x, it.e, Val(v)), it.p, v)
          IN  [x1 EXCEPT !.r = Append(x.r, x1.r)]
        c2 == FoldLeft(Item, [PushScope(c1) EXCEPT !.r = <<>>], e.items)
        c3 == CompileBranch(c2, e.body, d)
        c4 == IF d.tail THEN c3 ELSE EmitJump(c3, "JMP", 0)
        c5 == PatchAll(Release(PopScope(c4), v + 1), c2.r)
        c6 == IF e.els = <<>> THEN Finish(c5, d, v) ELSE CaseBranches(c5, v, e.els, d)
    IN  Release(IF d.tail THEN c6 ELSE PatchHere(c6, c4.r), Fc(c).next)

RecvBranch(c, m, br, d, ends) ==
    LET c1 == EmitMatch(PushScope(c), br.p, m)
        c2 == IF br.guard.t = "none" THEN [c1 EXCEPT !.r = <<>>]
              ELSE LET g == Guard(c1, br.guard) IN [g EXCEPT !.r = <<g.r>>]
        c3 == CompileBranch(c2, br.body, d)
        c4 == IF d.tail THEN c3 ELSE EmitJump(c3, "JMP", 0)
    IN  [PopScope(PatchAll(c4, <<c1.r>> \o c2.r))
            EXCEPT !.r = IF d.tail THEN ends ELSE Append(ends, c4.r)]

\* els and after: none, or a sequence of one [n, body] or [e, body].
CompileRecv(c, e, d) ==
    LET c1 == AllocReg(c)
        m == c1.r
        t == AllocReg(c1)
        c2 == IF e.after = <<>> THEN c1
              ELSE Release(Emit(CompileExpr(t, e.after[1].e, Val(t.r)),
                                Instr("RECVTIMER", t.r, 0, 0)), Fc(c1).next)
        c3 == Emit(c2, Instr("RECVTAKE", m, 0, 0))
        c4 == FoldLeft(LAMBDA x, br : RecvBranch(x, m, br, d, x.r), [c3 EXCEPT !.r = <<>>], e.brs)
        \* A body whose value goes to the end of the recv.
        Leaf(x, body, ends) ==
          LET x1 == CompileBranch(x, body, d)
              x2 == EmitJump(x1, "JMP", 0)
          IN  IF d.tail THEN [x1 EXCEPT !.r = ends] ELSE [x2 EXCEPT !.r = Append(ends, x2.r)]
        c5 == IF e.els = <<>> THEN [RaiseWith(c4, "recv_clause", m) EXCEPT !.r = c4.r]
              ELSE LET x == PushScope(c4)
                       y == IF e.els[1].n = "" THEN x ELSE BindLocal(x, e.els[1].n, m)
                       z == Leaf(y, e.els[1].body, c4.r)
                   IN  [PopScope(z) EXCEPT !.r = z.r]
        c6 == IF e.after = <<>> THEN c5
              ELSE LET z == Leaf(c5, e.after[1].body, c5.r)
                   IN  SetFc(z, [Fc(z) EXCEPT !.code[c3.r].j = Len(Fc(c5).code) - c3.r])
    IN  Release(PatchAll(c6, c6.r), Fc(c).next)

-----------------------------------------------------------------------------
(* Calls. *)

\* The ensures of the trap as closures, in the scopes of its body.
EmitTailCallEns(c, base, argc, ens) ==
    LET fc == Fc(c)
        c1 == Fail(SetFc(c, [fc EXCEPT !.scopes = SubSeq(@, 1, ens.scopes)]),
                   fc.trapDepth # 1 \/ fc.next # base + 1 + argc)
        One(x, e) == LET x1 == AllocReg(x)
                     IN  CompileLambda(x1, <<>>, <<[s |-> "expr", e |-> e]>>, Val(x1.r))
        c2 == FoldLeft(One, c1, Reverse(ens.ensures))
    IN  Emit(SetFc(c2, [Fc(c2) EXCEPT !.scopes = fc.scopes]),
             Instr("TAILCALLENS", base, argc, Len(ens.ensures)))

EmitInvoke(c, base, argc, spread, d) ==
    LET c1 == Fail(c, d.tail /\ Fc(c).trapDepth > 0)
        c2 == DestReg(c1, d)
    IN  IF d.ens # NoEns /\ ~spread THEN EmitTailCallEns(c1, base, argc, d.ens)
        ELSE IF d.tail
        THEN Emit(c1, Instr(IF spread THEN "TAILCALLSPREAD" ELSE "TAILCALL", base, argc, 0))
        ELSE Emit(c2, Instr(IF spread THEN "CALLSPREAD" ELSE "CALL", base, argc, c2.r))

\* R[base] is the callee.  Captures follow the arguments, or lead them when the
\* function is variadic; several spreads, or one that is not last, go through
\* a list (compileCallViaList).
Invoke(c, base, es, caps, owner, lead, d) ==
    LET c1 == IF lead THEN LoadCaps(c, owner, caps) ELSE c
        n == IF lead THEN Len(caps) ELSE 0
        list == AllocReg(c1)
        seg == Fc(list).next
        viaList == Emit(TagRow(list, es, FALSE), Instr("LISTSPREAD", list.r, seg, Len(es)))
        row == InRow(c1, Bare(es))
        all == IF lead THEN row ELSE LoadCaps(row, owner, caps)
    IN  IF Spreads(es) > 0 /\ ~SingleTrailing(es) THEN EmitInvoke(viaList, base, n + 1, TRUE, d)
        ELSE EmitInvoke(all, base, Len(es) + Len(caps), Spreads(es) > 0, d)

GlobalCall(c, name, es, d) ==
    LET c1 == AllocReg(c)
        c2 == Emit(c1, InstrK("GETGLOBAL", c1.r, name))
    IN  Release(Invoke(c2, c1.r, es, <<>>, 0, FALSE, d), Fc(c).next)

GenericCall(c, f, es, d) ==
    LET c1 == AllocReg(c)
        base == c1.r
        local == f.t = "var" /\ ResolvesLocalFn(c, f.n)
        owner == Binder(c, f.n)
        name == LocalFn(c.fcs[owner], f.n)
        lf == c.lifted[name]
        wrapped == Spreads(es) > 0 /\ lf.caps # <<>> /\ ~lf.variadic
    IN  Release(
          IF ~local THEN Invoke(CompileExpr(c1, f, Val(base)), base, es, <<>>, 0, FALSE, d)
          ELSE IF wrapped
          THEN Invoke(LoadLocalFn(c1, Val(base), name, owner), base, es, <<>>, 0, FALSE, d)
          ELSE Invoke(LoadGlobal(c1, Val(base), name), base, es, lf.caps, owner,
                      lf.caps # <<>> /\ lf.variadic, d), Fc(c).next)

SpawnMode(name, limits) ==
    (CASE name = "spawn" -> 0 [] name = "spawn_linked" -> 1 [] name = "spawn_watched" -> 2)
    + (IF limits THEN 4 ELSE 0)

\* Arguments in a row from B; of two, the second is C too.
ActorCall(c, name, es, d) ==
    LET op == ActorOps[name]
        c1 == DestReg(c, d)
        base == Fc(c1).next
        own == AllocReg(c1)
        c2 == IF op = "MAILBOXSIZE" /\ es = <<>> THEN Emit(own, Instr("SELF", base, 0, 0))
              ELSE InRow(c1, es)
        third == IF op = "SPAWN" THEN SpawnMode(name, Len(es) = 2)
                 ELSE IF Len(es) = 2 THEN base + 1 ELSE 0
    IN  Result(Emit(c2, Instr(op, c1.r, IF op \in {"SELF", "MAKEREF"} THEN 0 ELSE base, third)),
               d, c1.r, Fc(c).next)

BoundLexically(c, name) ==
    \E l \in DOMAIN c.fcs :
        IsLocal(c.fcs[l], name) \/ IsLocalFn(c.fcs[l], name)
        \/ \E i \in DOMAIN c.fcs[l].ups : c.fcs[l].ups[i].name = name

\* Bare names of functions of a built-in module in brig (bareStdlibFn).
BareStdlib == [spawn_behavior |-> <<Key(Behavior), "spawn">>]

\* A path to a function, a bare name, any other callee.
CompileCall(c, f, es, d) ==
    LET ref == RefOf(c, f.m)
        free == f.n \notin c.cur.fns /\ ~BoundLexically(c, f.n)
    IN  CASE f.t = "path" /\ NotImported(c, f.m) -> CompileError(c, "module is not imported")
          [] f.t = "path" /\ ref.prefix = <<Key(Prelude)>> /\ f.n \in DOMAIN ActorOps ->
               ActorCall(c, f.n, es, d)
          [] f.t = "path" /\ (~ref.known \/ ref.builtin \/ ~IsConstructor(f.n)) ->
               GlobalCall(c, Append(ref.prefix, f.n), es, d)
          [] f.t = "var" /\ f.n \in DOMAIN ActorOps /\ free -> ActorCall(c, f.n, es, d)
          [] f.t = "var" /\ f.n \in DOMAIN BareStdlib /\ free -> GlobalCall(c, BareStdlib[f.n], es, d)
          [] OTHER -> GenericCall(c, f, es, d)

\* A pipe to an unknown module is an error; an actor primitive is none here.
CompilePipe(c, e, d) ==
    LET es == <<e.l>> \o e.es
        ref == RefOf(c, e.f.m)
    IN  CASE e.f.t # "path" -> CompileCall(c, e.f, es, d)
          [] ~ref.known -> CompileError(c, "unknown module")
          [] ref.builtin \/ ~IsConstructor(e.f.n) -> GlobalCall(c, Append(ref.prefix, e.f.n), es, d)
          [] OTHER -> GenericCall(c, e.f, es, d)

\* "a \(e) b": the parts and to_str of the expressions between them.
CompileInterp(c, e, d) ==
    LET c1 == DestReg(c, d)
        dst == c1.r
        Piece(x, i) ==
          LET x1 == AllocReg(x)
              x2 == Emit(GlobalCall(x1, BareGlobal(c, "to_str"), <<e.es[i]>>, Val(x1.r)),
                         Instr("CONCAT", dst, dst, x1.r))
              x3 == AllocReg(x2)
              x4 == Emit(LoadKonst(x3, x3.r, <<"str", e.parts[i + 1]>>),
                         Instr("CONCAT", dst, dst, x3.r))
          IN  Release(IF e.parts[i + 1] = <<>> THEN x2 ELSE x4, Fc(x).next)
        c2 == FoldLeft(Piece, LoadKonst(c1, dst, <<"str", e.parts[1]>>),
                       [i \in DOMAIN e.es |-> i])
    IN  Result(c2, d, dst, Fc(c).next)

-----------------------------------------------------------------------------
(* trap and ensure. *)

Deeper(c, n) == SetFc(c, [Fc(c) EXCEPT !.trapDepth = @ + n])

\* A trap without ensures around Inner, which leaves its value in R[dst].
Trap(c, Inner(_, _), d) ==
    LET c1 == DestReg(c, d)
        dst == c1.r
        c2 == EmitJump(Deeper(c1, 1), "TRAPBEGIN", dst)
        c3 == Deeper(Emit(Inner(c2, dst), Instr("TRAPEND", 0, 0, 0)), -1)
        c4 == EmitJump(Emit(c3, Instr("MAKEOK", dst, dst, 0)), "JMP", 0)
        c5 == Emit(PatchHere(c4, c2.r), Instr("MAKEERROR", dst, dst, 0))
    IN  Result(PatchHere(c5, c4.r), d, dst, Fc(c).next)

CompileInlineTrap(c, e, d) ==
    LET Inner(x, r) == CompileExpr(x, e, Val(r)) IN Trap(c, Inner, d)
CompileTrapNoEnsure(c, stmts, d) ==
    LET Inner(x, r) == PopScope(CompileStmts(PushScope(x), stmts, Val(r))) IN Trap(c, Inner, d)

\* The body in the order of its text: an ensure sets its flag; a let writes the
\* register in lets, once for each name.
RECURSIVE TrapItems(_, _, _, _, _)
TrapItems(c, items, flags, lets, d) ==
    IF items = <<>> THEN c
    ELSE LET st == Head(items)
             last == \A i \in 2 .. Len(items) : items[i].s = "ensure"
             sd == IF last THEN d ELSE Discard
             own == st.p.p = "id" /\ st.p.n \in DOMAIN lets
             left == [n \in DOMAIN lets \ Range(PatternNames(st.p)) |-> lets[n]]
             fresh == AllocReg(c)
         IN  CASE st.s = "ensure" ->
                    TrapItems(LoadKonst(c, Head(flags), Bool(TRUE)), Tail(items), Tail(flags), lets, d)
               [] st.s = "let" ->
                    TrapItems(IF st.p.p # "id" THEN CompilePatternBind(c, st, sd, lets)
                              ELSE IF own THEN LetInto(c, st, lets[st.p.n], sd)
                              ELSE LetInto(fresh, st, fresh.r, sd),
                              Tail(items), flags, left, d)
               [] OTHER -> TrapItems(CompileStmt(c, st, sd), Tail(items), flags, lets, d)

Preset(c, v) == LET c1 == AllocReg(c) IN LoadKonst(c1, c1.r, v)

\* One block of ENS: run only if the ensure was reached.
EnsureBlock(c, e, flag, eReg, fReg) ==
    LET c1 == EmitJump(c, "JMPIFNOT", flag)
        c2 == EmitJump(Deeper(c1, 1), "TRAPENSURE", eReg)
        c3 == AllocReg(c2)
        c4 == Emit(CompileExpr(c3, e, Val(c3.r)), Instr("TRAPEND", 0, 0, 0))
        c5 == EmitJump(Release(Deeper(c4, -1), Fc(c).next), "JMP", 0)
        c6 == LoadKonst(PatchHere(c5, c2.r), fReg, Bool(TRUE))
    IN  PatchHere(PatchHere(c6, c5.r), c1.r)

\* dst, the error, the flag of failure, a flag for each ensure and the lets of
\* the body are set before the trap: the handler's path joins the other one.
CompileTrapWithEnsure(c, items, d) ==
    LET stmts == SelectSeq(items, LAMBDA st : st.s # "ensure")
        es == SelectSeq(items, LAMBDA st : st.s = "ensure")
        ensures == [i \in DOMAIN es |-> es[i].e]
        n == Len(es)
        names == FlattenSeq([i \in DOMAIN stmts |->
                     IF stmts[i].s = "let" THEN PatternNames(stmts[i].p) ELSE <<>>])
        c1 == DestReg(c, d)
        dst == c1.r
        eReg == Fc(c1).next
        fReg == eReg + 1
        flags == [i \in 1 .. n |-> fReg + i]
        lets == [x \in Range(names) |->
                    fReg + n + Max({i \in DOMAIN names : names[i] = x})]
        c2 == LoadKonst(LoadKonst(Allocs(c1, 2), dst, Unit), eReg, Unit)
        c3 == FoldLeft(Preset, LoadKonst(c2, fReg, Bool(FALSE)),
                       [i \in 1 .. n |-> Bool(FALSE)] \o [i \in DOMAIN names |-> Unit])
        c4 == EmitJump(Deeper(c3, 1), "TRAPENSURE", eReg)
        c5 == PushScope(c4)
        ens == IF d.tail /\ stmts # <<>> /\ Last(items).s # "ensure"
               THEN [ensures |-> ensures, scopes |-> Len(Fc(c5).scopes)] ELSE NoEns
        bd == [Val(dst) EXCEPT !.ens = ens]
        c6 == TrapItems(IF stmts = <<>> THEN c5 ELSE DeclareLocalFns(c5, stmts),
                        items, flags, lets, bd)
        c7 == IF stmts = <<>> THEN LoadConst(c6, Unit, bd) ELSE c6
        c8 == EmitJump(Deeper(Emit(c7, Instr("TRAPEND", 0, 0, 0)), -1), "JMP", 0)
        c9 == PatchHere(LoadKonst(PatchHere(c8, c4.r), fReg, Bool(TRUE)), c8.r)
        c10 == FoldLeft(LAMBDA x, i : EnsureBlock(x, ensures[i], flags[i], eReg, fReg), c9,
                        Reverse([i \in 1 .. n |-> i]))
        c11 == EmitJump(PopScope(Emit(c10, Instr("ENSEND", 0, 0, 0))), "JMPIF", fReg)
        c12 == EmitJump(Emit(c11, Instr("MAKEOK", dst, dst, 0)), "JMP", 0)
        c13 == Emit(PatchHere(c12, c11.r), Instr("MAKEERROR", dst, eReg, 0))
    IN  IF c5.bad \/ c7.bad \/ c9.bad THEN Fail(c, TRUE)
        ELSE Result(PatchHere(c13, c12.r), d, dst, Fc(c).next)

CompileTrap(c, items, d) ==
    IF \E i \in DOMAIN items : items[i].s = "ensure" THEN CompileTrapWithEnsure(c, items, d)
    ELSE CompileTrapNoEnsure(c, items, d)

-----------------------------------------------------------------------------
\* compileExpr, with its check that registers are given back (I-1).
CompileExpr(c, e, d) ==
    LET c1 == CASE e.t = "lit" -> LoadConst(c, e.v, d)
                [] e.t = "var" -> CompileVar(c, e.n, d)
                [] e.t = "un" -> Op1(c, e.op, e.e, d)
                [] e.t = "bin" -> Op2(c, e.op, e.l, e.r, d)
                [] e.t = "andor" -> AndOr(c, e.op, e.l, e.r, d)
                [] e.t = "if" -> CompileIf(c, e, d)
                [] e.t = "seq" -> Collect(c, e.op, e.es, d)
                [] e.t = "record" -> CompileRecord(c, e, d)
                [] e.t = "member" -> CompileMember(c, e, d)
                [] e.t = "interp" -> CompileInterp(c, e, d)
                [] e.t = "match" -> CompileMatch(c, e, d)
                [] e.t = "with" -> CompileWith(c, e, d)
                [] e.t = "recv" -> CompileRecv(c, e, d)
                [] e.t = "lambda" -> CompileLambda(c, e.ps, e.body, d)
                [] e.t = "call" -> CompileCall(c, e.f, e.es, d)
                [] e.t = "path" -> CompilePath(c, e, d)
                [] e.t = "module" -> CompileVar(c, Key(e.m), d)
                [] e.t = "pipe" -> CompilePipe(c, e, d)
                [] e.t = "global" -> GlobalCall(c, e.n, e.es, d)
                [] e.t = "trap" -> CompileTrap(c, e.items, d)
                [] e.t = "inline" -> CompileInlineTrap(c, e.e, d)
    IN  IF c.bad THEN c ELSE Fail(c1, Fc(c1).next # Fc(c).next)

\* compileNamedFn: a function of the program; nothing after an error.
CompileFn(c, name, clauses) ==
    LET c1 == CompileClauses(Enter(c, name), clauses, <<>>)
    IN  IF c.err # "" THEN c ELSE
        [Leave(c1) EXCEPT !.image = Extend(@, name, [chunk |-> ChunkOf(Fc(c1)), src |-> clauses])]

\* CompileProgram: the declarations of all modules, then the bodies.
CompileModules(mods) ==
    LET all == DeclareProgram(mods)
        Module(c, i) ==
          FoldLeft(LAMBDA x, f : CompileFn(x, Append(all[i].prefix, f.n), f.cls),
                   [c EXCEPT !.cur = all[i]], mods[i].file.fns)
    IN  FoldLeft(Module, New(all), [i \in DOMAIN mods |-> i])

\* A program of one module: a sequence of [n, cls].
File(declared, dirs, types, fns) == [declared |-> declared, dirs |-> dirs, types |-> types, fns |-> fns]
CompileProgram(fns) ==
    CompileModules(<<[name |-> <<>>, file |-> File(<<>>, <<>>, <<>>, fns)]>>)
=============================================================================
