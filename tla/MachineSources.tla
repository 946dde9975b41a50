--------------------------- MODULE MachineSources ---------------------------
(***************************************************************************)
(* Chunks in the instruction set of the machine, assembled from small       *)
(* alphabets: all that the verifier accepts are run.  A theme is            *)
(* [start, alphabet, len, last, mails]: main begins with start, goes on     *)
(* with len instructions of the alphabet and ends with last.                *)
(***************************************************************************)
EXTENDS Primitives

Chunk(code, nregs, nparams) ==
    [code |-> code, nregs |-> nregs, nparams |-> nparams, variadic |-> FALSE]
JumpOf(op, a, j) == [Instr(op, a, 0, 0) EXCEPT !.j = j]
Take(r, j) == JumpOf("RECVTAKE", r, j)

IdChunk == Chunk(<<Instr("RETURN", 0, 0, 0)>>, 1, 1)
BoomChunk == Chunk(<<Instr("RAISE", 0, 0, 0)>>, 1, 1)
EnsChunk == Chunk(<<InstrK("GETGLOBAL", 1, <<"say">>), Instr("GETUPVAL", 2, 0, 0), Instr("CALL", 1, 1, 2),
                    InstrK("GETGLOBAL", 1, <<"boom">>), Instr("TAILCALL", 1, 1, 0)>>, 3, 0)
EnsFunc == Func(<<"ens">>, EnsChunk)
Helpers == (<<"id">> :> IdChunk) @@ (<<"boom">> :> BoomChunk)

SlotPat(p, n, slot, subs) == [p |-> p, n |-> n, v |-> None, keys |-> <<>>, slot |-> slot, subs |-> subs]
LitPat(v) == [SlotPat("lit", "", -1, <<>>) EXCEPT !.v = v]
PairPat == SlotPat("tuple", "", -1, <<SlotPat("id", "y", 2, <<>>), LitPat(Int_(1))>>)

Theme(start, alphabet, len, last, mails) ==
    [start |-> start, alphabet |-> alphabet, len |-> len, last |-> last, mails |-> mails]
Themes == {
    \* values, jumps and calls
    Theme(<<InstrK("LOADK", 0, Bool(TRUE))>>,
          {InstrK("LOADK", 1, Int_(1)), Instr("ADD", 1, 0, 1), Instr("NOT", 0, 0, 0), JumpOf("JMP", 0, 1),
           JumpOf("JMPIF", 0, 1), JumpOf("JMPIFNOT", 1, -2), InstrK("GETGLOBAL", 1, <<"id">>),
           Instr("MOVE", 2, 0, 0), Instr("CALL", 1, 1, 1)}, 4, Instr("RETURN", 1, 0, 0), {<<>>}),
    \* traps
    Theme(<<InstrK("LOADK", 0, Int_(7)), InstrK("GETGLOBAL", 1, <<"boom">>), Instr("MOVE", 2, 0, 0)>>,
          {JumpOf("TRAPBEGIN", 3, 2), JumpOf("TRAPBEGIN", 3, 1), Instr("TRAPEND", 0, 0, 0), Instr("RAISE", 0, 0, 0),
           Instr("CALL", 1, 1, 3), Instr("TAILCALL", 1, 1, 0), JumpOf("JMP", 0, 1), Instr("RETURN", 2, 0, 0)},
          4, Instr("RETURN", 3, 0, 0), {<<>>}),
    \* patterns
    Theme(<<InstrK("LOADK", 0, Int_(5)), InstrK("LOADK", 1, Int_(1))>>,
          {InstrK("MATCHLOCAL", 0, PairPat), InstrK("MATCHLOCAL", 0, SlotPat("id", "z", 2, <<>>)),
           JumpOf("JMP", 0, 1), JumpOf("JMP", 0, 2), Instr("TUPLE", 0, 0, 2), Instr("TUPLE", 0, 1, 2),
           Instr("RETURN", 0, 0, 0), InstrK("LOADK", 1, Int_(2))},
          4, Instr("RETURN", 2, 0, 0), {<<>>}),
    \* ensures over a tail call
    Theme(<<InstrK("LOADK", 2, EnsFunc), InstrK("LOADK", 3, Int_(4)), Instr("MAKECLOSURE", 2, 2, 1),
            InstrK("GETGLOBAL", 0, <<"id">>), InstrK("LOADK", 1, Int_(9))>>,
          {JumpOf("TRAPENSURE", 3, 1), JumpOf("TRAPENSURE", 3, 2), Instr("TRAPEND", 0, 0, 0),
           Instr("TAILCALLENS", 0, 1, 1), Instr("ENSEND", 0, 0, 0), InstrK("GETGLOBAL", 0, <<"boom">>),
           Instr("CALL", 0, 1, 1)},
          4, Instr("RETURN", 1, 0, 0), {<<>>}),
    \* receive, time-outs and operations on actors
    Theme(<<InstrK("LOADK", 0, Int_(5))>>,
          {Instr("RECVTIMER", 0, 0, 0), Take(1, 0), Take(1, 1), Take(2, 2), JumpOf("JMP", 0, 1),
           Instr("SELF", 0, 0, 0), Instr("SEND", 1, 0, 2), Instr("SPAWN", 1, 1, 4)},
          4, Instr("RETURN", 1, 0, 0), {<<>>, <<Int_(1)>>}),
    \* collections
    Theme(<<InstrK("LOADK", 0, Bool(FALSE)), InstrK("LOADK", 1, Int_(1))>>,
          {InstrK("LOADK", 0, Bool(TRUE)), Instr("LIST", 1, 0, 2), Instr("LISTSPREAD", 2, 0, 1),
           Instr("MAPSPREAD", 1, 0, 1), Instr("MAP", 2, 0, 1), Instr("INDEX", 2, 2, 0), Instr("NEG", 2, 1, 0),
           Instr("CALLSPREAD", 0, 1, 2)},
          3, Instr("RETURN", 2, 0, 0), {<<>>}),
    Theme(<<InstrK("LOADK", 0, <<"shape", "", {}, <<"a">>>>), InstrK("LOADK", 1, Text("a"))>>,
          {Instr("RECORD", 2, 0, 1), InstrK("LOADK", 1, Text("b")), Instr("GETFIELD", 3, 2, 1), Instr("MAKEOK", 2, 3, 0),
           Instr("MOVE", 3, 2, 0)},
          3, Instr("RETURN", 2, 0, 0), {<<>>})}

Assembled(t) ==
    {Chunk(t.start \o body \o <<t.last>>, 4, 0) : body \in [1 .. t.len -> t.alphabet]}
AssembledPrograms ==
    UNION {{[image |-> Extend(Helpers, <<"main">>, ch), mail |-> mail] :
              ch \in {c \in Assembled(t) : Verify(c)}, mail \in t.mails} : t \in Themes}
=============================================================================
