------------------------------ MODULE Machine ------------------------------
(***************************************************************************)
(* The register machine as one actor runs it (execFrame and its helpers in  *)
(* vm/scheduler.go, the drain of vm/drain.go): frames with registers, trap  *)
(* handlers and cleanups; calls, tail calls and what a raise does to the    *)
(* stack.  Each group of instructions is an operator from the state s of    *)
(* the machine to its next one, so that a program can be run step by step   *)
(* (Next) or to its end (Execute).  s is                                   *)
(*   image    the functions of the program by name                         *)
(*   frames   the call stack, the top last                                 *)
(*   mailbox  messages not yet taken                                       *)
(*   timer    is the timer of a recv armed?                                *)
(*   log      what the outside has seen: output and operations on actors   *)
(*   outcome  None, or <<"ok", v>>, <<"raise", v>>, <<"blocked">>,          *)
(*            <<"internal", what>>                                          *)
(* A register that was never written holds None.  Budgets, telemetry and    *)
(* exit signals are left to the modules of the scheduler.                   *)
(***************************************************************************)
EXTENDS Primitives

CONSTANT Programs       \* programs to run: a set of [image, mail]

VARIABLE machine

Frame(fn, regs) ==
    [name |-> fn[2], chunk |-> fn[3], caps |-> IF Kind(fn) = "closure" THEN fn[4] ELSE <<>>,
     ip |-> 1, regs |-> regs, handlers |-> <<>>, cleanups |-> <<>>, dst |-> 0, drain |-> <<>>]

\* bindArgs, with the rest of a variadic function in a list.
Bound(chunk, args) ==
    LET fixed == IF chunk.variadic THEN chunk.nparams - 1 ELSE chunk.nparams
        params == SubSeq(args, 1, fixed) \o
                  (IF chunk.variadic THEN <<List(SubSeq(args, fixed + 1, Len(args)))>> ELSE <<>>)
    IN  [r \in 1 .. chunk.nregs |-> IF r \in DOMAIN params THEN params[r] ELSE None]

ArityFits(chunk, argc) ==
    IF chunk.variadic THEN argc >= chunk.nparams - 1 ELSE argc = chunk.nparams

\* resolveCallee and checkArity: may fn be called with these arguments?
Callable(fn, args) ==
    CASE Kind(fn) = "native" ->
           IF Natives[fn[2]] = Len(args) THEN Ok(fn) ELSE Raised(FunctionClause(args))
      [] Kind(fn) \in {"func", "closure"} ->
           IF ArityFits(fn[3], Len(args)) THEN Ok(fn) ELSE Raised(FunctionClause(args))
      [] OTHER -> TypeErr("call", fn)

-----------------------------------------------------------------------------
(* The stack. *)

Top(s) == Last(s.frames)
SetTop(s, f) == [s EXCEPT !.frames[Len(s.frames)] = f]
Push(s, f) == [s EXCEPT !.frames = Append(@, f)]
Stop(s, o) == [s EXCEPT !.frames = <<>>, !.outcome = o]
Internal(s, what) == Stop(s, <<"internal", what>>)
Said(s, fn, args) == IF fn = Native("say") THEN [s EXCEPT !.log = Append(@, args[1])] ELSE s

\* startDrain: the frame whose tail call ended runs its cleanups.
Draining(f, v, raised) ==
    [f EXCEPT !.regs = <<Unit>>, !.chunk = None, !.caps = <<>>, !.handlers = <<>>, !.cleanups = <<>>,
              !.drain = <<[recs |-> f.cleanups, cur |-> <<>>, level |-> FALSE, failed |-> raised,
                           val |-> IF raised THEN Unit ELSE v,
                           errv |-> IF raised THEN v ELSE Unit, caught |-> <<>>]>>, !.dst = 0]

\* stepDone: to the caller, or to the cleanups of the frame itself.
ReturnFrom(s, v) ==
    LET f == Top(s)
        n == Len(s.frames)
    IN  IF f.cleanups # <<>> THEN SetTop(s, Draining(f, v, FALSE))
        ELSE IF n = 1 THEN Stop(s, <<"ok", v>>)
        ELSE [s EXCEPT !.frames = [Front(@) EXCEPT ![n - 1].regs[s.frames[n - 1].dst + 1] = v]]

\* Frame.catch, catchCleanups: a frame that a raise stops at, and how it goes on.
Catches(f) == f.handlers # <<>> \/ f.cleanups # <<>> \/ f.drain # <<>>
Caught(f, v) ==
    LET h == Last(f.handlers)
    IN  CASE f.drain # <<>> -> [f EXCEPT !.drain[1].caught = <<v>>]
          [] f.handlers # <<>> -> [f EXCEPT !.ip = h.ip, !.regs[h.err + 1] = v, !.handlers = Front(@)]
          [] OTHER -> Draining(f, v, TRUE)

\* A raise in the top frame, and tryUnwindRaise.
RaiseIn(s, v) ==
    LET i == Max({0} \cup {j \in DOMAIN s.frames : Catches(s.frames[j])})
    IN  IF i = 0 THEN Stop(s, <<"raise", v>>)
        ELSE [s EXCEPT !.frames = Append(SubSeq(@, 1, i - 1), Caught(s.frames[i], v))]

\* A call of fn: a raise, a new frame by Open, or the result of a native by Done.
Apply_(s, fn, args, Open(_), Done(_, _)) ==
    LET may == Callable(fn, args)
        res == RunNative(fn, args)
    IN  IF may.raised THEN RaiseIn(s, may.v)
        ELSE IF Kind(fn) # "native" THEN Open(Frame(fn, Bound(fn[3], args)))
        ELSE IF res.raised THEN RaiseIn(s, res.v)
        ELSE Done(Said(s, fn, args), res.v)

\* enterCall from the top frame, whose dst gets the result.
EnterCall(s, fn, args) ==
    LET Open(f) == Push(s, f)
        Done(t, v) == SetTop(t, [Top(t) EXCEPT !.regs[Top(t).dst + 1] = v])
    IN  Apply_(s, fn, args, Open, Done)

\* A tail call takes over the top frame; its cleanups stay.
TakeOver(s, fn, args) ==
    LET Open(f) == SetTop(s, [f EXCEPT !.cleanups = Top(s).cleanups, !.dst = Top(s).dst])
    IN  Apply_(s, fn, args, Open, ReturnFrom)

-----------------------------------------------------------------------------
(* Instructions. *)

Running(s) == s.outcome = None
InCode(s) == Running(s) /\ Top(s).drain = <<>>
I(s) == LET f == Top(s) IN IF f.ip \in DOMAIN f.chunk.code THEN f.chunk.code[f.ip] ELSE Instr("END", 0, 0, 0)
R(s, r) == Top(s).regs[r + 1]
Regs(s, first, n) == [i \in 1 .. n |-> R(s, first + i - 1)]

Goto(s, ip) == SetTop(s, [Top(s) EXCEPT !.ip = ip])
Advance(s) == Goto(s, Top(s).ip + 1)
Jumped(s) == Goto(s, Target(Top(s).ip, I(s)))
Put(s, r, v) == SetTop(s, [Top(s) EXCEPT !.ip = @ + 1, !.regs[r + 1] = v])
PutOrRaise(s, res) == IF res.raised THEN RaiseIn(s, res.v) ELSE Put(s, I(s).a, res.v)

Global(s, name) ==
    IF name \in DOMAIN s.image THEN Func(name, s.image[name])
    ELSE IF name[1] \in DOMAIN Natives THEN Native(name[1]) ELSE None

Loads == {"LOADK", "MOVE", "GETGLOBAL", "GETUPVAL"}
Loaded(s) ==
    LET i == I(s)
        v == CASE i.op = "LOADK" -> i.k
               [] i.op = "MOVE" -> R(s, i.b)
               [] i.op = "GETGLOBAL" -> Global(s, i.k)
               [] i.op = "GETUPVAL" -> IF i.b < Len(Top(s).caps) THEN Top(s).caps[i.b + 1] ELSE None
    IN  IF v = None THEN Internal(s, "undefined") ELSE Put(s, i.a, v)

Operators == DOMAIN OpName \cup {"EQ", "NEQ", "CONCAT", "INDEX", "RANGE", "GETFIELD"}
Operated(s) == PutOrRaise(s, BinOp(I(s).op, R(s, I(s).b), R(s, I(s).c)))
Negated(s) == PutOrRaise(s, UnOp(I(s).op, R(s, I(s).b)))

Branched(s) ==
    LET v == R(s, I(s).a)
    IN  IF ~IsBool(v) THEN RaiseIn(s, TypeErr("expected_bool", v).v)
        ELSE IF v[2] = (I(s).op = "JMPIF") THEN Jumped(s) ELSE Advance(s)

Spreading(i) == i.op \in {"CALLSPREAD", "TAILCALLSPREAD"}
Args(s) == LET vs == Regs(s, I(s).a + 1, I(s).b) IN IF Spreading(I(s)) THEN SpreadArgs(vs) ELSE Ok(vs)

Called(s) ==
    IF Args(s).raised THEN RaiseIn(s, Args(s).v)
    ELSE EnterCall(SetTop(s, [Top(s) EXCEPT !.ip = @ + 1, !.dst = I(s).c]), R(s, I(s).a), Args(s).v)

TailCalled(s) ==
    IF Args(s).raised THEN RaiseIn(s, Args(s).v)
    ELSE IF Top(s).handlers # <<>> THEN Internal(s, "TAILCALL under active trap")
    ELSE TakeOver(s, R(s, I(s).a), Args(s).v)

\* pushCleanup, and the tail call.
TailCalledEns(s) ==
    LET i == I(s)
        ens == Regs(s, i.a + 1 + i.b, i.c)
        hs == Top(s).handlers
    IN  IF Len(hs) # 1 \/ ~hs[1].ensure \/ \E n \in DOMAIN ens : Kind(ens[n]) # "closure"
        THEN Internal(s, "TAILCALLENS outside single ensure trap")
        ELSE TakeOver(SetTop(s, [Top(s) EXCEPT !.handlers = <<>>, !.cleanups = Append(@, ens)]),
                      R(s, i.a), Args(s).v)

Returned(s) == IF I(s).op = "END" THEN Internal(s, "fell off end") ELSE ReturnFrom(s, R(s, I(s).a))

Builders == {"TUPLE", "LIST", "VECTOR", "MAP", "MAKEOK", "MAKEERROR", "MAKECLOSURE"}
Built(s) ==
    LET i == I(s)
        vs == Regs(s, i.b, i.c)
    IN  Put(s, i.a,
           CASE i.op = "TUPLE" -> Tuple(vs)
             [] i.op = "LIST" -> List(vs)
             [] i.op = "VECTOR" -> Vector(vs)
             [] i.op = "MAP" -> MapOf(FoldLeft(LAMBDA x, n : MapPut(x, R(s, i.b + 2 * n - 2), R(s, i.b + 2 * n - 1)),
                                               <<>>, [n \in 1 .. i.c |-> n]))
             [] i.op = "MAKEOK" -> Variant("Ok", <<R(s, i.b)>>)
             [] i.op = "MAKEERROR" -> Variant("Error", <<R(s, i.b)>>)
             [] i.op = "MAKECLOSURE" -> Closure(R(s, i.b)[2], R(s, i.b)[3], Regs(s, i.b + 1, i.c)))

\* A window of operands: tag and value, for MAPSPREAD also a key.
Combiners == {"LISTSPREAD", "VECSPREAD", "MAPSPREAD", "RECORD"}
Combined(s) ==
    LET i == I(s)
        Pair(n) == [tag |-> R(s, i.b + 2 * n - 2)[2], v |-> R(s, i.b + 2 * n - 1)]
        Triple(n) == [tag |-> R(s, i.b + 3 * n - 3)[2], k |-> R(s, i.b + 3 * n - 2), v |-> R(s, i.b + 3 * n - 1)]
    IN  PutOrRaise(s,
             CASE i.op = "LISTSPREAD" -> SpreadSeq("list", [n \in 1 .. i.c |-> Pair(n)])
               [] i.op = "VECSPREAD" -> SpreadSeq("vector", [n \in 1 .. i.c |-> Pair(n)])
               [] i.op = "MAPSPREAD" -> SpreadMap([n \in 1 .. i.c |-> Triple(n)])
               [] i.op = "RECORD" -> MakeRecord(R(s, i.b), Regs(s, i.b + 1, i.c)))

TrapBegins == {"TRAPBEGIN", "TRAPENSURE"}
TrapBegun(s) ==
    LET h == [ip |-> Target(Top(s).ip, I(s)), err |-> I(s).a, ensure |-> I(s).op = "TRAPENSURE"]
    IN  SetTop(s, [Top(s) EXCEPT !.ip = @ + 1, !.handlers = Append(@, h)])

TrapEnded(s) ==
    IF Top(s).handlers = <<>> THEN Internal(s, "TRAPEND without handler")
    ELSE SetTop(s, [Top(s) EXCEPT !.ip = @ + 1, !.handlers = Front(@)])

Matched(s) ==
    LET r == MatchPattern(R(s, I(s).a), I(s).k, Top(s).regs)
    IN  SetTop(s, [Top(s) EXCEPT !.regs = r.regs, !.ip = IF r.ok THEN @ + 2 ELSE @ + 1])

\* An operation on actors: its operands, the first of which is often a pid.
Operands(s) ==
    LET i == I(s)
    IN  CASE i.op \in {"SELF", "MAKEREF"} -> <<>>
          [] i.op = "REPLY" -> Regs(s, i.b, 3)
          [] i.op = "SPAWN" -> Regs(s, i.b, IF i.c >= 4 THEN 2 ELSE 1)
          [] i.op \in BinOps -> <<R(s, i.b), R(s, i.c)>>
          [] OTHER -> <<R(s, i.b)>>
Acted(s) ==
    LET res == AskActors(I(s).op, Operands(s))
        mode == IF I(s).op = "SPAWN" THEN I(s).c % 4 ELSE 0
        t == [s EXCEPT !.log = Append(@, Deed(I(s).op, mode, Operands(s)))]
    IN  PutOrRaise(IF res.raised THEN s ELSE t, res)

TimerSet(s) ==
    IF IsInt(R(s, I(s).a)) THEN Advance([s EXCEPT !.timer = TRUE])
    ELSE RaiseIn(s, TypeErr("after", R(s, I(s).a)).v)

\* With no message the timer of the recv, if armed, expires; else the actor waits.
Taken(s) ==
    LET t == [s EXCEPT !.timer = FALSE]
    IN  IF s.mailbox # <<>> THEN Put([t EXCEPT !.mailbox = Tail(@)], I(s).a, Head(s.mailbox))
        ELSE IF s.timer /\ I(s).j # 0 THEN Jumped(t) ELSE Stop(t, <<"blocked">>)

\* drainRun.resume: the next ensure; when a level has none, its Ok or Error is
\* the value of the level below.
Drained(s) ==
    LET was == Top(s).drain[1]
        d == IF was.caught = <<>> THEN was
             ELSE [was EXCEPT !.failed = TRUE, !.errv = was.caught[1], !.caught = <<>>]
        built == IF d.failed THEN Variant("Error", <<d.errv>>) ELSE Variant("Ok", <<d.val>>)
        closed == IF d.level THEN [d EXCEPT !.val = built, !.failed = FALSE] ELSE d
        next == [closed EXCEPT !.cur = Last(closed.recs), !.recs = Front(@), !.level = TRUE]
        Ensure(x) == EnterCall(SetTop(s, [Top(s) EXCEPT !.drain = <<[x EXCEPT !.cur = Tail(@)]>>]),
                               Head(x.cur), <<>>)
    IN  IF d.cur # <<>> THEN Ensure(d)
        ELSE IF closed.recs # <<>> THEN Ensure(next)
        ELSE ReturnFrom(s, closed.val)

-----------------------------------------------------------------------------
(* Step by step. *)

Started(program) ==
    LET main == Func(<<"main">>, program.image[<<"main">>])
    IN  [image |-> program.image, frames |-> <<Frame(main, Bound(main[3], <<>>))>>,
         mailbox |-> program.mail, timer |-> FALSE, log |-> <<>>, outcome |-> None]

At(ops) == InCode(machine) /\ I(machine).op \in ops

Load == At(Loads) /\ machine' = Loaded(machine)
Operate == At(Operators) /\ machine' = Operated(machine)
Unary == At({"NEG", "NOT"}) /\ machine' = Negated(machine)
Jump == At({"JMP"}) /\ machine' = Jumped(machine)
Branch == At({"JMPIF", "JMPIFNOT"}) /\ machine' = Branched(machine)
Call == At(Calls) /\ machine' = Called(machine)
TailCall == At(TailCalls) /\ machine' = TailCalled(machine)
TailCallEns == At({"TAILCALLENS"}) /\ machine' = TailCalledEns(machine)
Return == At({"RETURN", "END"}) /\ machine' = Returned(machine)
Build == At(Builders) /\ machine' = Built(machine)
Combine == At(Combiners) /\ machine' = Combined(machine)
Raise == At({"RAISE"}) /\ machine' = RaiseIn(machine, R(machine, I(machine).a))
TrapBegin == At(TrapBegins) /\ machine' = TrapBegun(machine)
TrapEnd == At({"TRAPEND"}) /\ machine' = TrapEnded(machine)
EnsEnd == At({"ENSEND"}) /\ machine' = Advance(machine)
Match == At({"MATCHLOCAL"}) /\ machine' = Matched(machine)
Act == At(ActorOpcodes) /\ machine' = Acted(machine)
RecvTimer == At({"RECVTIMER"}) /\ machine' = TimerSet(machine)
RecvTake == At({"RECVTAKE"}) /\ machine' = Taken(machine)
Drain == Running(machine) /\ Top(machine).drain # <<>> /\ machine' = Drained(machine)

Init == \E program \in Programs : machine = Started(program)
Next ==
    \/ Load \/ Operate \/ Unary \/ Jump \/ Branch \/ Call \/ TailCall \/ TailCallEns \/ Return
    \/ Build \/ Combine \/ Raise \/ TrapBegin \/ TrapEnd \/ EnsEnd \/ Match \/ Act
    \/ RecvTimer \/ RecvTake \/ Drain
Spec == Init /\ [][Next]_machine

\* Verify (vm/verify.go): a chunk it accepts never reads a register that
\* nothing has written and never runs off its end, whatever the partial writes of
\* a pattern that does not match, the windows of calls and the registers a raise
\* leaves to the handler.  (It counts trap brackets along the text, not along the
\* jumps, so a hand-made chunk may still end a trap it never began.)
VerifiedIsSafe ==
    /\ InCode(machine) => \A r \in Reads(I(machine)) : R(machine, r) # None
    /\ machine.outcome \notin {<<"internal", "fell off end">>, <<"internal", "undefined">>}

-----------------------------------------------------------------------------
(* To the end. *)

StepOf(s) ==
    IF Top(s).drain # <<>> THEN Drained(s)
    ELSE LET op == I(s).op
         IN  CASE op \in Loads -> Loaded(s)
               [] op \in Operators -> Operated(s)
               [] op \in {"NEG", "NOT"} -> Negated(s)
               [] op = "JMP" -> Jumped(s)
               [] op \in {"JMPIF", "JMPIFNOT"} -> Branched(s)
               [] op \in Calls -> Called(s)
               [] op \in TailCalls -> TailCalled(s)
               [] op = "TAILCALLENS" -> TailCalledEns(s)
               [] op \in {"RETURN", "END"} -> Returned(s)
               [] op \in Builders -> Built(s)
               [] op \in Combiners -> Combined(s)
               [] op = "RAISE" -> RaiseIn(s, R(s, I(s).a))
               [] op \in TrapBegins -> TrapBegun(s)
               [] op = "TRAPEND" -> TrapEnded(s)
               [] op = "ENSEND" -> Advance(s)
               [] op = "MATCHLOCAL" -> Matched(s)
               [] op \in ActorOpcodes -> Acted(s)
               [] op = "RECVTIMER" -> TimerSet(s)
               [] op = "RECVTAKE" -> Taken(s)

RECURSIVE Execute(_)
Execute(s) == IF Running(s) THEN Execute(StepOf(s)) ELSE s
=============================================================================
