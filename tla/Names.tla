------------------------------- MODULE Names --------------------------------
(***************************************************************************)
(* The contextual analysis of a module (internal/sema): scopes, where trap  *)
(* and local functions may stand, and which names mean nothing.  It walks   *)
(* the same trees as the compiler and knows nothing of registers: it is a   *)
(* second implementation of the rules for names.                            *)
(*                                                                          *)
(* A state is [scopes, errs, mod]: the scopes map names to bindings, errs   *)
(* is a set of <<kind, name>>, mod what is known of the module.  A          *)
(* signature is [exact, from]: the arities, and the least number of         *)
(* arguments of a variadic clause (NoRest for none).  Infos, positions and  *)
(* the session of the REPL are left out.                                    *)
(***************************************************************************)
EXTENDS Compiler

NoRest == -1
Sig(exact, from) == [exact |-> exact, from |-> from]
Exact(ns) == Sig(ns, NoRest)
Fits(sig, n) == n \in sig.exact \/ (sig.from # NoRest /\ n >= sig.from)

SigOf(cls) ==
    LET rest == {i \in DOMAIN cls : HasRest(cls[i].ps)}
    IN  Sig({Len(cls[i].ps) : i \in DOMAIN cls \ rest},
            IF rest = {} THEN NoRest ELSE Min({Len(cls[i].ps) - 1 : i \in rest}))

\* signatures: constructors with fields and functions; ctorNames: all.
Signatures(file) ==
    LET boxes == {i \in DOMAIN file.types : file.types[i].arity > 0}
        fns == {file.fns[i].n : i \in DOMAIN file.fns}
    IN  [n \in fns |-> SigOf(file.fns[CHOOSE i \in DOMAIN file.fns : file.fns[i].n = n].cls)]
        @@ [n \in {file.types[i].n : i \in boxes} |->
               Exact({file.types[CHOOSE i \in boxes : file.types[i].n = n].arity})]
CtorNames(file) == {file.types[i].n : i \in DOMAIN file.types}
PrivateFns(file) == {file.fns[i].n : i \in {j \in DOMAIN file.fns : ~file.fns[j].pub}}

\* importMap: a later directive takes the local name; an alias gives the last
\* segment of the module too.
ImportMap(dirs) ==
    FoldLeft(LAMBDA f, d : [n \in {d.of, <<Last(d.of)>>} \cup ({d.as} \ {<<>>}) |-> d.of] @@ f,
             <<>>, dirs)

\* NewWorld: of two modules of one name the later one.
WorldOf(mods) ==
    [name \in {mods[i].name : i \in DOMAIN mods} |->
        LET file == Last(SelectSeq(mods, LAMBDA m : m.name = name)).file
        IN  [sigs |-> Signatures(file), priv |-> PrivateFns(file)]]

\* The built-in modules in brig: one public and one private function of List.
StdlibWorld ==
    ListModule :> [sigs |-> [take |-> Exact({2}), go |-> Exact({3})], priv |-> {"go"}]
    @@ Behavior :> [sigs |-> [spawn |-> Exact({2})], priv |-> {}]

ActorSigs ==
    [spawn |-> {1, 2}, spawn_linked |-> {1, 2}, spawn_watched |-> {1, 2}, exit |-> {2},
     send |-> {2}, self |-> {0}, make_ref |-> {0}, watch |-> {1}, link |-> {1}, unwatch |-> {1},
     mailbox_size |-> {0, 1}, register |-> {2}, unregister |-> {1}, whereis |-> {1},
     await |-> {2}, reply |-> {3}]
BareBuiltins ==
    [n \in DOMAIN Natives |-> Exact({Natives[n]})] @@ [n \in DOMAIN ActorSigs |-> Exact(ActorSigs[n])]
BareStdlibSigs == [spawn_behavior |-> Exact({2})]
ModBuiltins == MapModule :> [put |-> Exact({3}), get |-> Exact({2})] @@ Prelude :> BareBuiltins

-----------------------------------------------------------------------------
(* Scopes. *)

\* Names that never bind (isNamedWildcard).
Wildcards == {"_", "_w"}

ErrorOf(s, kind, n) == [s EXCEPT !.errs = @ \cup {<<kind, n>>}]
When(s, cond, kind, n) == IF cond THEN ErrorOf(s, kind, n) ELSE s
OpenScope(s) == [s EXCEPT !.scopes = Append(@, <<>>)]
CloseScope(s) == [s EXCEPT !.scopes = Front(@)]

Value_ == [fn |-> FALSE, sig |-> Exact({})]
LocalSig(sig) == [fn |-> TRUE, sig |-> sig]
BindAs(s, n, b) ==
    IF n \in Wildcards \cup {""} THEN s
    ELSE IF n \in DOMAIN Last(s.scopes) THEN ErrorOf(s, "rebinding", n)
    ELSE [s EXCEPT !.scopes[Len(s.scopes)] = Extend(@, n, b)]

RECURSIVE PatNames(_)
PatNames(p) ==
    FlattenSeq([i \in DOMAIN p.subs |-> PatNames(p.subs[i])])
    \o (IF p.p \in {"id", "as", "spread"} \/ (p.p = "list" /\ p.n # "..") THEN <<p.n>> ELSE <<>>)
CheckPatternBinding(s, p) == FoldLeft(LAMBDA x, n : BindAs(x, n, Value_), s, PatNames(p))

CheckParams(s, ps) ==
    FoldLeft(LAMBDA x, i : CheckPatternBinding(
                 When(x, ps[i].p = "spread" /\ i # Len(ps), "variadic must be last", ps[i].n), ps[i]),
             s, [i \in DOMAIN ps |-> i])

\* The innermost scope with the name, or 0.
ScopeWith(s, n) == Max({0} \cup {i \in DOMAIN s.scopes : n \in DOMAIN s.scopes[i]})

-----------------------------------------------------------------------------
(* References. *)

\* finish: a call of an unknown function, or of one with another arity.
Finish_(s, n, found, sig, es) ==
    IF ~found THEN ErrorOf(s, "undefined function", n)
    ELSE When(s, Spreads(es) = 0 /\ ~Fits(sig, Len(es)), "arity", n)

\* bareSig: a variable is called whatever it is.
CheckBare(s, n, es) ==
    LET at == ScopeWith(s, n)
        known == s.mod.own @@ BareBuiltins @@ BareStdlibSigs
    IN  IF at # 0
        THEN IF s.scopes[at][n].fn THEN Finish_(s, n, TRUE, s.scopes[at][n].sig, es) ELSE s
        ELSE IF n \in DOMAIN known THEN Finish_(s, n, TRUE, known[n], es)
        ELSE Finish_(s, n, FALSE, Exact({}), es)

WorldFor(mod, full) ==
    IF full \in StdlibModules \ DOMAIN mod.world THEN StdlibWorld ELSE mod.world

\* qualSig.
QualSig(mod, m, n) ==
    LET imported == m \in DOMAIN mod.imports
        full == IF imported THEN mod.imports[m] ELSE m
        world == WorldFor(mod, full)
        sigs == CASE full \in NativeModules -> ModBuiltins[full]
                  [] full \in DOMAIN world -> world[full].sigs
                  [] OTHER -> <<>>
        visible == imported \/ IsBuiltin(m)
        found == visible /\ n \in DOMAIN sigs
    IN  [full |-> full, found |-> found, missing |-> ~visible /\ m \in DOMAIN mod.world,
         sig |-> IF found THEN sigs[n] ELSE Exact({}),
         private |-> /\ found /\ full # mod.name /\ full \in DOMAIN world
                     /\ n \in world[full].priv]

CheckQual(s, m, n, es) ==
    LET q == QualSig(s.mod, m, n)
    IN  IF q.missing THEN ErrorOf(s, "not imported", n)
        ELSE IF q.private THEN ErrorOf(s, "private", n)
        ELSE Finish_(s, n, q.found, q.sig, es)

\* checkQualRef: a path that is not called.
CheckQualRef(s, m, n) ==
    LET q == QualSig(s.mod, m, n)
        builtin == /\ m \in DOMAIN s.mod.imports \/ IsBuiltin(m)
                   /\ q.full \in NativeModules \cup (StdlibModules \ DOMAIN s.mod.world)
    IN  IF IsConstructor(n) THEN When(s, builtin, "no constructor", n)
        ELSE IF m = Prelude /\ n \in DOMAIN ActorOps THEN ErrorOf(s, "actor value", n)
        ELSE IF q.missing THEN ErrorOf(s, "not imported", n)
        ELSE IF ~q.found THEN ErrorOf(s, "undefined function", n)
        ELSE When(s, q.private, "private", n)

\* checkVariable, checkUnbound.
CheckWildcard(s, n) == When(s, n \in Wildcards, "wildcard", n)
CheckUnbound(s, n) ==
    When(CheckWildcard(s, n),
         n \notin Wildcards /\ ScopeWith(s, n) = 0
             /\ n \notin s.mod.ctors \cup DOMAIN s.mod.own \cup DOMAIN BareBuiltins
                         \cup DOMAIN BareStdlibSigs,
         "undefined name", n)

\* checkModuleValue: the name of a module is not a value.
CheckModuleName(s, m) ==
    When(s, TRUE, IF \/ m \in DOMAIN s.mod.imports \/ IsBuiltin(m) \/ m \in DOMAIN s.mod.world
                  THEN "module value" ELSE "undefined name", Key(m))

-----------------------------------------------------------------------------
(* The walk. *)

RECURSIVE Check(_, _), CheckBody(_, _), CheckTrapInner(_, _)

\* Every walk stands in a scope; the test makes TLC compute s before the rest.
InScope(s) == s.scopes # <<>>

CheckAll(s, es) == FoldLeft(Check, s, es)
CheckBlock(s, stmts) == CloseScope(CheckBody(OpenScope(s), stmts))

\* checkExprAllowTrap.
CheckTop(s, e) == IF e.t \in {"trap", "inline"} THEN CheckTrapInner(s, e) ELSE Check(s, e)

CheckClause(s, cl) ==
    IF ~InScope(s) THEN s ELSE
    CloseScope(CheckBody(Check(CheckParams(OpenScope(s), cl.ps), cl.guard), cl.body))

CheckStmt(s, st) ==
    CASE ~InScope(s) -> s
      [] st.s = "let" -> CheckPatternBinding(CheckTop(s, st.e), st.p)
      [] st.s = "expr" -> CheckTop(s, st.e)
      [] st.s = "fn" -> FoldLeft(CheckClause, s, st.cls)

\* checkBlockBody: local functions stand first and see each other.
CheckBody(s, stmts) ==
    IF ~InScope(s) THEN s ELSE
    LET fns == SelectSeq(stmts, LAMBDA st : st.s = "fn")
        first == IsPrefix(fns, stmts)
        bound == FoldLeft(LAMBDA x, st : BindAs(x, st.n, LocalSig(SigOf(st.cls))), s, fns)
    IN  FoldLeft(CheckStmt, When(bound, ~first, "local fn position", ""), stmts)

\* The ensures see the names of the body.
CheckTrapInner(s, e) ==
    IF e.t = "inline" THEN Check(s, e.e)
    ELSE LET Ensures == SelectSeq(e.items, LAMBDA st : st.s = "ensure")
             body == CheckBody(OpenScope(s), SelectSeq(e.items, LAMBDA st : st.s # "ensure"))
         IN  CloseScope(FoldLeft(LAMBDA x, st : Check(x, st.e), body, Ensures))

CheckBranch(s, br) ==
    IF ~InScope(s) THEN s ELSE
    CloseScope(CheckBlock(Check(CheckPatternBinding(OpenScope(s), br.p), br.guard), br.body))

CheckWith(s, e) ==
    LET Item(x, it) == CheckPatternBinding(Check(x, it.e), it.p)
        body == CheckBody(FoldLeft(Item, OpenScope(s), e.items), e.body)
    IN  FoldLeft(CheckBranch, CloseScope(body), e.els)

CheckRecv(s, e) ==
    LET s1 == FoldLeft(CheckBranch, s, e.brs)
        s2 == IF e.els = <<>> THEN s1
              ELSE CloseScope(CheckBlock(BindAs(OpenScope(s1), e.els[1].n, Value_), e.els[1].body))
    IN  IF e.after = <<>> THEN s2 ELSE CheckBlock(Check(s2, e.after[1].e), e.after[1].body)

\* checkCall: a name or a path is resolved here and is not a value.
CheckCall(s, e) ==
    LET s1 == CASE e.f.t = "var" -> CheckWildcard(CheckBare(s, e.f.n, e.es), e.f.n)
                [] e.f.t = "path" -> CheckQual(s, e.f.m, e.f.n, e.es)
                [] OTHER -> Check(s, e.f)
    IN  CheckAll(s1, e.es)

\* checkPipe: no actor primitive to the right of |>.
CheckPipe(s, e) ==
    LET es == <<e.l>> \o e.es
        primitive == e.f.n \in DOMAIN ActorOps /\ (e.f.t = "var" \/ e.f.m = Prelude)
    IN  CheckAll(CASE primitive -> ErrorOf(s, "actor in pipe", e.f.n)
                   [] ~primitive /\ e.f.t = "var" -> CheckBare(s, e.f.n, es)
                   [] OTHER -> CheckQual(s, e.f.m, e.f.n, es), es)

Check(s, e) ==
    CASE ~InScope(s) -> s
      [] e.t \in {"none", "lit"} -> s
      [] e.t = "var" -> CheckUnbound(s, e.n)
      [] e.t = "path" -> CheckQualRef(s, e.m, e.n)
      [] e.t = "module" -> CheckModuleName(s, e.m)
      [] e.t \in {"un", "member", "spread"} -> Check(s, e.e)
      [] e.t \in {"bin", "andor"} -> CheckAll(s, <<e.l, e.r>>)
      [] e.t = "pair" -> CheckAll(s, <<e.k, e.e>>)
      [] e.t \in {"seq", "interp", "global"} -> CheckAll(s, e.es)
      [] e.t = "record" -> CheckAll(s, [i \in DOMAIN e.slots |-> e.slots[i].e])
      [] e.t = "if" -> CheckBlock(CheckBlock(Check(s, e.c), e.th), e.el)
      [] e.t = "match" -> FoldLeft(CheckBranch, Check(s, e.e), e.brs)
      [] e.t = "with" -> CheckWith(s, e)
      [] e.t = "recv" -> CheckRecv(s, e)
      [] e.t = "lambda" -> CloseScope(CheckBody(CheckParams(OpenScope(s), e.ps), e.body))
      [] e.t = "call" -> CheckCall(s, e)
      [] e.t = "pipe" -> CheckPipe(s, e)
      [] e.t \in {"trap", "inline"} -> CheckTrapInner(ErrorOf(s, "trap", ""), e)

\* CheckNames of the i-th module; what it declares is its name, <<>> for none.
CheckNames(mods, i) ==
    LET file == mods[i].file
        known == [own |-> Signatures(file), ctors |-> CtorNames(file), name |-> file.declared,
                  imports |-> ImportMap(file.dirs), world |-> WorldOf(mods)]
        start == [scopes |-> <<<<>>>>, errs |-> {}, mod |-> known]
        CheckFn(s, f) == FoldLeft(CheckClause, s, f.cls)
    IN  FoldLeft(CheckFn, start, file.fns).errs
=============================================================================
