----------------------------- MODULE Semantics -----------------------------
(***************************************************************************)
(* What a program means, straight from its syntax: an evaluator over        *)
(* environments, with no registers, jumps or frames.  It is the reference   *)
(* the compiler and the machine are checked against.  The rules are those   *)
(* of docs/01-language-design.md: names (6.6), clauses (6.1), spreads (5),  *)
(* branches (9), trap and ensure (10.2, 10.3), recv (12.4).                 *)
(*                                                                          *)
(* A result is [k, v, st]: k is "val", "raise" or "block", st what is left  *)
(* of the mailbox and what went to the log.  An environment maps names to   *)
(* values; the local functions of a block share the block's environment.    *)
(***************************************************************************)
EXTENDS Primitives

Res(k, v, st) == [k |-> k, v |-> v, st |-> st]
Value(v, st) == Res("val", v, st)
Throw(v, st) == Res("raise", v, st)
From(r, st) == IF r.raised THEN Throw(r.v, st) ELSE Value(r.v, st)
Then(r, F(_, _)) == IF r.k = "val" THEN F(r.v, r.st) ELSE r
Test(r, F(_, _)) ==
    Then(r, LAMBDA v, st : IF IsBool(v) THEN F(v[2], st) ELSE From(TypeErr("expected_bool", v), st))

NoEnv == <<>>
With_(env, new) == new @@ env
Fun(clauses, env) == <<"fun", clauses, env>>

\* The group of local functions of a block: each sees all of them.
Locals(stmts, env) ==
    LET fns == {i \in DOMAIN stmts : stmts[i].s = "fn"}
    IN  [n \in {stmts[i].n : i \in fns} |->
            <<"local", stmts[CHOOSE i \in fns : stmts[i].n = n].cls,
              [x \in fns |-> stmts[x]], env>>]
GroupEnv(group, env) ==
    With_(env, [n \in {group[i].n : i \in DOMAIN group} |->
        <<"local", group[CHOOSE i \in DOMAIN group : group[i].n = n].cls, group, env>>])

\* A name: the environment, then the functions of the program, then natives.
Resolve(fns, env, n) ==
    IF n \in DOMAIN env
    THEN IF Kind(env[n]) = "local" THEN Fun(env[n][2], GroupEnv(env[n][3], env[n][4])) ELSE env[n]
    ELSE IF n \in DOMAIN fns THEN Fun(fns[n], NoEnv) ELSE Native(n)

\* Bindings of a pattern that matches, or None.
NoBind == [ok |-> FALSE, env |-> NoEnv]
Bind(env) == [ok |-> TRUE, env |-> env]
RECURSIVE Matches(_, _)
MatchesAll(ps, vs) ==
    IF Len(ps) # Len(vs) THEN NoBind
    ELSE FoldLeft(LAMBDA b, i : LET m == Matches(ps[i], vs[i])
                                IN  IF b.ok /\ m.ok THEN Bind(With_(b.env, m.env)) ELSE NoBind,
                  Bind(NoEnv), [i \in DOMAIN ps |-> i])
Matches(p, v) ==
    CASE p.p = "wild" -> Bind(NoEnv)
      [] p.p = "id" -> Bind(p.n :> v)
      [] p.p = "lit" -> IF v = p.v THEN Bind(NoEnv) ELSE NoBind
      [] p.p = "as" -> LET m == Matches(p.subs[1], v)
                       IN  IF m.ok THEN Bind(With_(m.env, p.n :> v)) ELSE NoBind
      [] p.p = "concat" ->
           IF Kind(v) = "str" /\ IsPrefix(p.v, v[2])
           THEN Matches(p.subs[1], Str(SubSeq(v[2], Len(p.v) + 1, Len(v[2])))) ELSE NoBind
      [] p.p = "ctor" -> IF Kind(v) = "variant" /\ v[2] = p.n THEN MatchesAll(p.subs, v[3]) ELSE NoBind
      [] p.p \in {"tuple", "vector"} -> IF Kind(v) = p.p THEN MatchesAll(p.subs, v[2]) ELSE NoBind
      [] p.p = "list" ->
           LET n == Len(p.subs)
               m == MatchesAll(p.subs, SubSeq(v[2], 1, n))
           IN  IF Kind(v) # "list" \/ (IF p.n = "" THEN Len(v[2]) # n ELSE Len(v[2]) < n) THEN NoBind
               ELSE IF p.n \in {"", ".."} \/ ~m.ok THEN m
               ELSE Bind(With_(m.env, p.n :> List(SubSeq(v[2], n + 1, Len(v[2])))))
      [] p.p = "map" ->
           IF Kind(v) # "map" \/ \E i \in DOMAIN p.keys : Lookup(v[2], p.keys[i]) = 0 THEN NoBind
           ELSE MatchesAll(p.subs, [i \in DOMAIN p.keys |-> v[2][Lookup(v[2], p.keys[i])][2]])
      [] p.p = "record" ->
           IF Kind(v) # "record" \/ v[2] # p.n \/ ~(Range(p.keys) \subseteq DOMAIN v[4]) THEN NoBind
           ELSE MatchesAll(p.subs, [i \in DOMAIN p.keys |-> v[4][p.keys[i]]])

\* Parameters: patterns, the last of which may take the rest as a list.
Params(ps, args) ==
    LET rest == ps # <<>> /\ Last(ps).p = "spread"
        n == IF rest THEN Len(ps) - 1 ELSE Len(ps)
        m == MatchesAll(SubSeq(ps, 1, n), SubSeq(args, 1, n))
    IN  IF Len(args) < n \/ (~rest /\ Len(args) > n) \/ ~m.ok THEN NoBind
        ELSE IF rest THEN Bind(With_(m.env, Last(ps).n :> List(SubSeq(args, n + 1, Len(args)))))
        ELSE m

Deeds ==
    [spawn |-> "SPAWN", spawn_linked |-> "SPAWN", spawn_watched |-> "SPAWN", exit |-> "EXIT",
     send |-> "SEND", self |-> "SELF", make_ref |-> "MAKEREF", watch |-> "WATCH", link |-> "LINK",
     unwatch |-> "UNWATCH", mailbox_size |-> "MAILBOXSIZE", register |-> "REGISTER",
     unregister |-> "UNREGISTER", whereis |-> "WHEREIS", await |-> "AWAIT", reply |-> "REPLY"]
Mode(n) == CASE n = "spawn_linked" -> 1 [] n = "spawn_watched" -> 2 [] OTHER -> 0

-----------------------------------------------------------------------------
RECURSIVE E(_, _, _, _), All(_, _, _, _), Block(_, _, _, _), Apply(_, _, _, _)

\* fns: the functions of the program by name.
All(fns, es, env, st) ==
    FoldLeft(LAMBDA r, e : Then(r, LAMBDA vs, s :
                Then(E(fns, e, env, s), LAMBDA v, s1 : Value(Append(vs, v), s1))),
             Value(<<>>, st), es)

\* Clauses in order; a guard that raises is not a guard that failed.
RECURSIVE Clauses(_, _, _, _, _, _)
Clauses(fns, cls, i, args, env, st) ==
    IF i > Len(cls) THEN Throw(FunctionClause(args), st)
    ELSE LET m == Params(cls[i].ps, args)
             inner == With_(env, m.env)
             Go(yes, s) == IF yes THEN Block(fns, cls[i].body, inner, s)
                           ELSE Clauses(fns, cls, i + 1, args, env, s)
         IN  IF ~m.ok THEN Clauses(fns, cls, i + 1, args, env, st)
             ELSE IF cls[i].guard.t = "none" THEN Go(TRUE, st)
             ELSE Test(E(fns, cls[i].guard, inner, st), Go)

Apply(fns, f, args, st) ==
    CASE Kind(f) = "fun" -> Clauses(fns, f[2], 1, args, f[3], st)
      [] Kind(f) = "native" ->
           IF Natives[f[2]] # Len(args) THEN Throw(FunctionClause(args), st)
           ELSE From(RunNative(f, args),
                     IF f[2] = "say" THEN [st EXCEPT !.log = Append(@, args[1])] ELSE st)
      [] OTHER -> From(TypeErr("call", f), st)

Bares(es) == [i \in DOMAIN es |-> IF es[i].t = "spread" THEN es[i].e ELSE es[i]]
Tagged(es, vs) == [i \in DOMAIN es |-> [tag |-> es[i].t = "spread", v |-> vs[i]]]
Spreadable(es, vs) == SpreadSeq("list", Tagged(es, vs))

CallFn(fns, fv, es, env, st) ==
    Then(All(fns, Bares(es), env, st), LAMBDA vs, s :
         LET args == Spreadable(es, vs)
         IN  IF args.raised THEN Throw(args.v, s) ELSE Apply(fns, fv, args.v[2], s))
CallValue(fns, f, es, env, st) ==
    Then(E(fns, f, env, st), LAMBDA fv, s : CallFn(fns, fv, es, env, s))

ActorDeed(fns, n, es, env, st) ==
    Then(All(fns, es, env, st), LAMBDA vs, s :
         LET ops == IF n = "mailbox_size" /\ vs = <<>> THEN <<Pid(0)>> ELSE vs
             res == AskActors(Deeds[n], ops)
             own == IF n = "mailbox_size" /\ vs = <<>> THEN <<Deed("SELF", 0, <<>>)>> ELSE <<>>
         IN  From(res, IF res.raised THEN s
                       ELSE [s EXCEPT !.log = @ \o own \o <<Deed(Deeds[n], Mode(n), ops)>>]))

Call_(fns, f, es, env, st) ==
    IF f.t = "var" /\ f.n \in DOMAIN Deeds \ (DOMAIN env \cup DOMAIN fns)
    THEN ActorDeed(fns, f.n, es, env, st)
    ELSE CallValue(fns, f, es, env, st)

\* A statement gives [r, env]: its result and the names after it.
Stmt(fns, st, env, s) ==
    LET r == E(fns, st.e, env, s)
        m == Matches(st.p, r.v)
    IN  CASE st.s = "fn" -> [r |-> Value(Unit, s), env |-> env]
          [] st.s = "expr" -> [r |-> r, env |-> env]
          [] st.s = "let" ->
               IF r.k # "val" THEN [r |-> r, env |-> env]
               ELSE IF ~m.ok
               THEN [r |-> Throw(Tuple(<<Atom("badmatch"), r.v>>), r.st), env |-> env]
               ELSE [r |-> Value(Unit, r.st), env |-> With_(env, m.env)]

Run(fns, stmts, env, st) ==
    FoldLeft(LAMBDA b, x : IF b.r.k = "val" THEN Stmt(fns, x, b.env, b.r.st) ELSE b,
             [r |-> Value(Unit, st), env |-> With_(env, Locals(stmts, env))], stmts)
Block(fns, stmts, env, st) == Run(fns, stmts, env, st).r

RECURSIVE Branches(_, _, _, _, _, _, _)
Branches(fns, brs, i, v, env, st, otherwise) ==
    IF i > Len(brs) THEN otherwise
    ELSE LET m == Matches(brs[i].p, v)
         IN  IF m.ok THEN Block(fns, brs[i].body, With_(env, m.env), st)
             ELSE Branches(fns, brs, i + 1, v, env, st, otherwise)
NoBranch(v, st) == Throw(Tuple(<<Atom("case_clause"), v>>), st)

\* A value that does not match is the result, or the subject of else, which
\* does not see the names bound so far.
RECURSIVE WithItems(_, _, _, _, _, _)
WithItems(fns, e, i, env, outer, st) ==
    IF i > Len(e.items) THEN Block(fns, e.body, env, st)
    ELSE Then(E(fns, e.items[i].e, env, st), LAMBDA v, s :
              LET m == Matches(e.items[i].p, v)
              IN  IF m.ok THEN WithItems(fns, e, i + 1, With_(env, m.env), outer, s)
                  ELSE IF e.els = <<>> THEN Value(v, s)
                  ELSE Branches(fns, e.els, 1, v, outer, s, NoBranch(v, s)))

\* The message is taken whether a branch wants it or not.
RECURSIVE Receive(_, _, _, _, _, _)
Receive(fns, e, i, v, env, st) ==
    IF i > Len(e.brs)
    THEN IF e.els = <<>> THEN Throw(Tuple(<<Atom("recv_clause"), v>>), st)
         ELSE Block(fns, e.els[1].body,
                    IF e.els[1].n = "" THEN env ELSE With_(env, e.els[1].n :> v), st)
    ELSE LET m == Matches(e.brs[i].p, v)
             inner == With_(env, m.env)
             Go(yes, s) == IF yes THEN Block(fns, e.brs[i].body, inner, s)
                           ELSE Receive(fns, e, i + 1, v, env, s)
         IN  IF ~m.ok THEN Go(FALSE, st)
             ELSE IF e.brs[i].guard.t = "none" THEN Go(TRUE, st)
             ELSE Test(E(fns, e.brs[i].guard, inner, st), Go)

Recv(fns, e, env, st) ==
    LET timed == IF e.after = <<>> THEN Value(Int_(0), st) ELSE E(fns, e.after[1].e, env, st)
    IN  Then(timed, LAMBDA ms, s :
             CASE ~IsInt(ms) -> From(TypeErr("after", ms), s)
               [] s.mail # <<>> -> Receive(fns, e, 1, Head(s.mail), env, [s EXCEPT !.mail = Tail(@)])
               [] e.after # <<>> -> Block(fns, e.after[1].body, env, s)
               [] OTHER -> Res("block", Unit, s))

\* The ensures that were reached run last to first, each whatever the others
\* did; the last error wins.  They see the names of the body; a name that was
\* not bound yet is ().
RECURSIVE Binds(_)
Binds(p) == (IF p.p \in {"id", "as"} \/ (p.p = "list" /\ p.n \notin {"", ".."}) THEN {p.n} ELSE {})
            \cup UNION {Binds(p.subs[i]) : i \in DOMAIN p.subs}
Lets(x) == IF x.s = "let" THEN Binds(x.p) ELSE {}

Trap_(fns, items, env, st) ==
    LET stmts == SelectSeq(items, LAMBDA x : x.s # "ensure")
        Item(b, x) ==
          IF b.r.k # "val" THEN b
          ELSE IF x.s = "ensure" THEN [b EXCEPT !.due = <<x.e>> \o @]
          ELSE LET y == Stmt(fns, x, b.env, b.r.st)
               IN  [r |-> y.r, env |-> y.env, due |-> b.due,
                    unbound |-> IF y.r.k = "val" THEN b.unbound \ Lets(x) ELSE b.unbound]
        body == FoldLeft(Item, [r |-> Value(Unit, st), env |-> With_(env, Locals(stmts, env)), due |-> <<>>,
                                unbound |-> UNION {Lets(stmts[i]) : i \in DOMAIN stmts}], items)
        inner == With_(body.env, [n \in body.unbound |-> Unit])
        Ensure(r, e) ==
          IF r.k = "block" THEN r
          ELSE LET x == E(fns, e, inner, r.st)
               IN  IF x.k = "val" THEN [r EXCEPT !.st = x.st] ELSE x
        end == IF body.r.k = "block" THEN body.r ELSE FoldLeft(Ensure, body.r, body.due)
    IN  CASE end.k = "val" -> Value(Variant("Ok", <<end.v>>), end.st)
          [] end.k = "raise" -> Value(Variant("Error", <<end.v>>), end.st)
          [] OTHER -> end

Collect_(fns, e, env, st) ==
    IF e.op = "MAP"
    THEN LET flat == FlattenSeq([i \in DOMAIN e.es |->
                       IF e.es[i].t = "pair" THEN <<e.es[i].k, e.es[i].e>> ELSE <<e.es[i].e>>])
             At(i) == 1 + FoldLeft(LAMBDA n, j : n + (IF e.es[j].t = "pair" THEN 2 ELSE 1), 0,
                                   [j \in 1 .. i - 1 |-> j])
         IN  Then(All(fns, flat, env, st), LAMBDA vs, s :
                  From(SpreadMap([i \in DOMAIN e.es |->
                         [tag |-> e.es[i].t = "spread", k |-> vs[At(i)],
                          v |-> IF e.es[i].t = "pair" THEN vs[At(i) + 1] ELSE Unit]]), s))
    ELSE Then(All(fns, Bares(e.es), env, st), LAMBDA vs, s :
              CASE e.op = "TUPLE" -> Value(Tuple(vs), s)
                [] e.op = "LIST" -> From(SpreadSeq("list", Tagged(e.es, vs)), s)
                [] e.op = "VECTOR" -> From(SpreadSeq("vector", Tagged(e.es, vs)), s))

Interp(fns, e, env, st) ==
    LET One(r, i) ==
          Then(r, LAMBDA acc, s : Then(E(fns, e.es[i], env, s), LAMBDA v, s1 :
               Value(Str(acc[2] \o ToStr(v)[2] \o e.parts[i + 1]), s1)))
    IN  FoldLeft(One, Value(Str(e.parts[1]), st), [i \in DOMAIN e.es |-> i])

E(fns, e, env, st) ==
    CASE e.t = "lit" -> Value(e.v, st)
      [] e.t = "var" -> Value(Resolve(fns, env, e.n), st)
      [] e.t = "un" -> Then(E(fns, e.e, env, st), LAMBDA v, s : From(UnOp(e.op, v), s))
      [] e.t = "bin" -> Then(All(fns, <<e.l, e.r>>, env, st), LAMBDA vs, s :
                             From(BinOp(e.op, vs[1], vs[2]), s))
      [] e.t = "andor" ->
           Test(E(fns, e.l, env, st), LAMBDA b, s :
                IF b = (e.op = "JMPIF") THEN Value(Bool(b), s)
                ELSE Test(E(fns, e.r, env, s), LAMBDA c, s1 : Value(Bool(c), s1)))
      [] e.t = "if" -> Test(E(fns, e.c, env, st), LAMBDA b, s :
                            Block(fns, IF b THEN e.th ELSE e.el, env, s))
      [] e.t = "seq" -> Collect_(fns, e, env, st)
      [] e.t = "record" -> Then(All(fns, [i \in DOMAIN e.slots |-> e.slots[i].e], env, st), LAMBDA vs, s :
             From(MakeRecord(<<"shape", e.type, e.fields, [i \in DOMAIN e.slots |-> e.slots[i].n]>>, vs), s))
      [] e.t = "member" -> Then(E(fns, e.e, env, st), LAMBDA v, s : From(GetField(v, Text(e.n)), s))
      [] e.t = "interp" -> Interp(fns, e, env, st)
      [] e.t = "match" -> Then(E(fns, e.e, env, st), LAMBDA v, s :
                               Branches(fns, e.brs, 1, v, env, s, NoBranch(v, s)))
      [] e.t = "with" -> WithItems(fns, e, 1, env, env, st)
      [] e.t = "recv" -> Recv(fns, e, env, st)
      [] e.t = "lambda" -> Value(Fun(<<[ps |-> e.ps, guard |-> [t |-> "none"], body |-> e.body]>>, env), st)
      [] e.t = "call" -> Call_(fns, e.f, e.es, env, st)
      [] e.t = "pipe" -> Call_(fns, e.f, <<e.l>> \o e.es, env, st)
      [] e.t = "global" -> CallFn(fns, Resolve(fns, NoEnv, e.n[1]), e.es, env, st)
      [] e.t = "trap" -> Trap_(fns, e.items, env, st)
      [] e.t = "inline" -> LET r == E(fns, e.e, env, st)
                           IN  CASE r.k = "val" -> Value(Variant("Ok", <<r.v>>), r.st)
                                 [] r.k = "raise" -> Value(Variant("Error", <<r.v>>), r.st)
                                 [] OTHER -> r

\* A function as the outside sees it has no inside.
RECURSIVE Plain(_)
Plain(v) ==
    LET Each(s) == [i \in DOMAIN s |-> Plain(s[i])]
    IN  CASE Kind(v) \in {"fun", "func", "closure", "native"} -> <<"function">>
          [] Kind(v) \in {"tuple", "list", "vector", "str"} -> <<v[1], Each(v[2])>>
          [] Kind(v) = "variant" -> Variant(v[2], Each(v[3]))
          [] Kind(v) = "map" -> MapOf([i \in DOMAIN v[2] |-> Each(v[2][i])])
          [] Kind(v) = "record" -> Record(v[2], v[3], Each(v[4]))
          [] OTHER -> v

\* The meaning of a program: [outcome, log].
Meaning(fns, mail) ==
    LET byName == [n \in {fns[i].n : i \in DOMAIN fns} |->
                      fns[CHOOSE i \in DOMAIN fns : fns[i].n = n].cls]
        r == Apply(byName, Fun(byName["main"], NoEnv), <<>>, [log |-> <<>>, mail |-> mail])
    IN  [log |-> [i \in DOMAIN r.st.log |-> Plain(r.st.log[i])],
         outcome |-> CASE r.k = "val" -> <<"ok", Plain(r.v)>>
                       [] r.k = "raise" -> <<"raise", Plain(r.v)>>
                       [] r.k = "block" -> <<"blocked">>]
=============================================================================
