------------------------------ MODULE Bytecode ------------------------------
(***************************************************************************)
(* Chunks of the register machine and the verifier of chunks               *)
(* (vm/verify.go).  An instruction is [op, a, b, c, j, k]: its registers,   *)
(* its relative jump and its constant or compiled pattern (in the code the  *)
(* last two are indices into tables of the chunk).  A chunk is [code,       *)
(* nregs, nparams, variadic]; registers count from 0, code from 1.          *)
(***************************************************************************)
EXTENDS Integers, Sequences, FiniteSets, SequencesExt, FiniteSetsExt

None == <<"none">>
Instr(op, a, b, c) == [op |-> op, a |-> a, b |-> b, c |-> c, j |-> 0, k |-> None]
InstrK(op, a, k) == [Instr(op, a, 0, 0) EXCEPT !.k = k]

Window(first, n) == first .. (first + n - 1)

BinOps == {"ADD", "SUB", "MUL", "DIV", "INTDIV", "REM", "POW", "CONCAT", "EQ", "NEQ", "LT", "GT",
           "LE", "GE", "RANGE", "INDEX", "GETFIELD", "SEND", "EXIT", "REGISTER", "AWAIT"}
UnOps == {"MOVE", "NEG", "NOT", "MAKEOK", "MAKEERROR", "WATCH", "UNWATCH", "LINK",
          "MAILBOXSIZE", "UNREGISTER", "WHEREIS"}
Jumps == {"JMP", "JMPIF", "JMPIFNOT", "TRAPBEGIN", "TRAPENSURE"}
Calls == {"CALL", "CALLSPREAD"}
TailCalls == {"TAILCALL", "TAILCALLSPREAD"}
Final == TailCalls \cup {"TAILCALLENS", "RETURN", "RAISE"}

\* RegUse: one table of reads and writes for the verifier and the compiler.
Reads(i) ==
    CASE i.op \in UnOps -> {i.b}
      [] i.op \in BinOps -> {i.b, i.c}
      [] i.op \in {"RETURN", "RAISE", "JMPIF", "JMPIFNOT", "MATCHLOCAL"} -> {i.a}
      [] i.op \in Calls \cup TailCalls -> Window(i.a, i.b + 1)
      [] i.op = "TAILCALLENS" -> Window(i.a, i.b + i.c + 1)
      [] i.op \in {"TUPLE", "LIST", "VECTOR"} -> Window(i.b, i.c)
      [] i.op \in {"MAP", "LISTSPREAD", "VECSPREAD"} -> Window(i.b, 2 * i.c)
      [] i.op = "MAPSPREAD" -> Window(i.b, 3 * i.c)
      [] i.op \in {"MAKECLOSURE", "RECORD"} -> Window(i.b, i.c + 1)
      [] i.op = "SPAWN" -> IF i.c >= 4 THEN {i.b, i.b + 1} ELSE {i.b}
      [] i.op = "REPLY" -> Window(i.b, 3)
      [] OTHER -> {}

Writes(i) ==
    CASE i.op \in Calls -> {i.c}
      [] i.op \in Jumps \cup TailCalls \cup {"TAILCALLENS", "RETURN", "RAISE", "TRAPEND",
                                             "ENSEND", "MATCHLOCAL"} -> {}
      [] OTHER -> {i.a}

Target(ip, i) == ip + 1 + i.j

\* CompiledPattern.Slots: the registers a pattern writes when it matches.
RECURSIVE PatSlots(_)
PatSlots(p) ==
    LET subs == UNION {PatSlots(p.subs[n]) : n \in DOMAIN p.subs}
    IN  subs \cup (IF p.slot >= 0 THEN {p.slot} ELSE {})

-----------------------------------------------------------------------------
(* Verify. *)

JumpsInside(ch) ==
    \A ip \in DOMAIN ch.code :
        LET i == ch.code[ip]
        IN  /\ i.op \in Jumps \/ (i.op = "RECVTAKE" /\ i.j # 0)
                  => Target(ip, i) \in DOMAIN ch.code
            /\ Reads(i) \cup Writes(i) \subseteq 0 .. ch.nregs - 1

\* The fail edge of MATCHLOCAL is the JMP after it, the success edge ip + 2.
MatchShape(ch) ==
    \A ip \in DOMAIN ch.code :
        ch.code[ip].op = "MATCHLOCAL" =>
            /\ ip + 2 <= Len(ch.code) /\ ch.code[ip + 1].op = "JMP"
            /\ PatSlots(ch.code[ip].k) \subseteq 0 .. ch.nregs - 1

\* The kinds of the trap regions open before each instruction, as the text has
\* them; <<"underflow">> when a TRAPEND closes none.
Regions(ch) ==
    LET open[ip \in 0 .. Len(ch.code)] ==
          IF ip = 0 THEN <<>>
          ELSE LET i == ch.code[ip]
                   before == open[ip - 1]
               IN  CASE i.op \in {"TRAPBEGIN", "TRAPENSURE"} -> Append(before, i.op)
                     [] i.op = "TRAPEND" -> IF before = <<>> THEN <<"underflow">> ELSE Front(before)
                     [] OTHER -> before
    IN  open

TailCallsOutsideTraps(ch) ==
    LET open == Regions(ch)
    IN  /\ open[Len(ch.code)] = <<>>
        /\ \A ip \in DOMAIN ch.code :
             /\ ch.code[ip].op \in TailCalls => open[ip] = <<>>
             /\ ch.code[ip].op = "TAILCALLENS" =>
                   open[ip] = <<"TRAPENSURE">> /\ ch.code[ip].c >= 1

EndsInside(ch) == ch.code # <<>> /\ Last(ch.code).op \in Final \cup {"JMP"}

\* edges: where control goes from ip and which registers are defined there.
Edge(target, regs) == [to |-> target, regs |-> regs]
Edges(ch, ip, before) ==
    LET i == ch.code[ip]
        out == before \cup Writes(i)
    IN  CASE i.op = "JMP" -> {Edge(Target(ip, i), out)}
          [] i.op \in {"JMPIF", "JMPIFNOT"} ->
                {Edge(ip + 1, out), Edge(Target(ip, i), out)}
          [] i.op = "MATCHLOCAL" ->
                {Edge(ip + 1, out), Edge(ip + 2, out \cup PatSlots(i.k))}
          [] i.op = "RECVTAKE" /\ i.j # 0 ->
                {Edge(ip + 1, out), Edge(Target(ip, i), before)}
          [] i.op \in {"TRAPBEGIN", "TRAPENSURE"} ->
                {Edge(ip + 1, out), Edge(Target(ip, i), out \cup {i.a})}
          [] i.op \in Final -> {}
          [] OTHER -> {Edge(ip + 1, out)}

Unreached == {-1}

\* Mutant of Meet: the last edge decides.
MeetLast(defined, e) ==
    IF e.to \notin DOMAIN defined THEN defined ELSE [defined EXCEPT ![e.to] = e.regs]
\* Where edges meet only what all of them define stays defined.
Meet(defined, e) ==
    IF e.to \notin DOMAIN defined THEN defined
    ELSE [defined EXCEPT ![e.to] = IF @ = Unreached THEN e.regs ELSE @ \cap e.regs]

\* One pass of the fixpoint in the order of the code; defined: ip -> registers.
Pass(ch, defined) ==
    LET after[ip \in 0 .. Len(ch.code)] ==
          IF ip = 0 THEN defined
          ELSE LET d == after[ip - 1]
               IN  IF d[ip] = Unreached THEN d
                   ELSE FoldSet(LAMBDA e, x : Meet(x, e), d, Edges(ch, ip, d[ip]))
    IN  after[Len(ch.code)]

RECURSIVE Fixpoint(_, _)
Fixpoint(ch, defined) ==
    LET next == Pass(ch, defined)
    IN  IF next = defined THEN defined ELSE Fixpoint(ch, next)

Defined(ch) ==
    Fixpoint(ch, [ip \in DOMAIN ch.code |->
                     IF ip = 1 THEN 0 .. ch.nparams - 1 ELSE Unreached])

AssignedBeforeRead(ch) ==
    LET defined == Defined(ch)
    IN  \A ip \in DOMAIN ch.code :
            defined[ip] # Unreached => Reads(ch.code[ip]) \subseteq defined[ip]

Verify(ch) ==
    /\ JumpsInside(ch) /\ MatchShape(ch) /\ TailCallsOutsideTraps(ch)
    /\ EndsInside(ch) /\ AssignedBeforeRead(ch)
=============================================================================
