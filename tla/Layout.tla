------------------------------- MODULE Layout -------------------------------
(***************************************************************************)
(* The layout part of the lexer (internal/lexer/lexer.go): from the lines   *)
(* of a source to its tokens with NEWLINE, INDENT and DEDENT.  A source is  *)
(* the sequence of its tokens, each line led by a mark that says how deep   *)
(* it is indented; blank lines and comments are left out.  Scanning letters *)
(* into tokens is not modelled: a token is its text.                       *)
(***************************************************************************)
EXTENDS Integers, Sequences, SequencesExt

Marks == <<"@0", "@1", "@2", "@3", "@4", "@5", "@6", "@7", "@8", "@9", "@10", "@11", "@12">>
Mark(n) == Marks[n + 1]
IsMark(t) == t \in ToSet(Marks)
IndentOf(t) == SelectInSeq(Marks, LAMBDA s : s = t) - 1

Openers == {"(", "[", "{", "%[", "%{"}
Closers == {")", "]", "}"}
BlockOpeners == {"fn", "match", "recv", "with", "trap", "if", "cond"}
ContinuationOps == {"|>", "and", "or", "*", "/", "**", "div", "rem", "to",
                    "==", "!=", "<", ">", "<=", ">=", "..", "<>"}
BracketBinaryOps == (ContinuationOps \ {".."}) \cup {"+", "-"}

\* opener is the last block opener of the line, inside brackets, or None; mini
\* the stack of outer contexts of the blocks inside brackets that are open.
None == <<>>
NewLexer == [stack |-> <<0>>, depth |-> 0, stmt |-> 0, first |-> TRUE, line |-> 0,
             opener |-> None, mini |-> <<>>, out |-> <<>>, bad |-> FALSE]

LastTok(l) == IF l.out = <<>> THEN "" ELSE l.out[Len(l.out)]
Emit(l, tok) == [l EXCEPT !.out = Append(@, tok)]
EmitDedents(l, n) == [l EXCEPT !.out = @ \o [i \in 1 .. n |-> "DEDENT"]]

\* The line has ended where the grammar waits for the block of the opener.
HeaderEnds(opener, last) ==
    CASE opener.kw = "fn" -> last = "->"
      [] opener.kw \in {"trap", "recv", "with", "cond"} -> last = opener.kw
      [] OTHER -> last # ","

\* NEWLINE between two elements of a bracket.
ShouldEmitBracketNewline(prev, next) ==
    /\ prev \notin {"", "INDENT", "DEDENT", ","} \cup Openers
    /\ next = ".." \/ next \notin ContinuationOps
    /\ next \notin Closers \cup {","}

\* The body of the block inside brackets ends; the outer context is back.
CloseMini(l) ==
    LET f == l.mini[Len(l.mini)]
        n == IF LastTok(l) = "NEWLINE" THEN l ELSE Emit(l, "NEWLINE")
    IN  [EmitDedents(n, Len(l.stack) - 1) EXCEPT
            !.mini = Front(@), !.stack = f.stack, !.depth = f.depth, !.stmt = f.stmt, !.line = f.line]
OpenMini(l, opener) ==
    [l EXCEPT !.mini = Append(@, [base |-> opener.base, stack |-> l.stack, depth |-> l.depth,
                                  stmt |-> l.stmt, line |-> l.line]),
              !.stack = <<opener.base>>, !.depth = 0, !.stmt = opener.base]
\* Else and after on the column of the block go on with it.
EndsMini(l, indent, ft) ==
    LET base == l.mini[Len(l.mini)].base
    IN  indent < base \/ (indent = base /\ ft \notin {"else", "after"})

\* A line inside brackets: the anchor of the blocks in it, if it begins an element.
BracketLine(l, indent, ft) ==
    [l EXCEPT !.first = FALSE,
              !.line = IF ft \in ContinuationOps \cup Closers \cup {","} THEN @ ELSE indent]

\* A line outside of them: a continuation, or a statement.
OffsideLine(l, indent, ft) ==
    IF ~l.first /\ ft \in ContinuationOps THEN [l EXCEPT !.bad = @ \/ indent <= l.stmt]
    ELSE LET n == IF l.first THEN l ELSE Emit(l, "NEWLINE")
             kept == SelectSeq(l.stack, LAMBDA d : d <= indent)
             top == l.stack[Len(l.stack)]
             s == [n EXCEPT !.stmt = indent, !.line = indent, !.first = FALSE]
         IN  IF indent > top THEN [Emit(s, "INDENT") EXCEPT !.stack = Append(@, indent)]
             ELSE [EmitDedents(s, Len(l.stack) - Len(kept)) EXCEPT
                      !.stack = kept, !.bad = kept[Len(kept)] # indent]

\* processLine, up to the tokens of the line; ft is the first of them.
ProcessLine(st, indent, ft) ==
    LET op == IF st.opener # None /\ HeaderEnds(st.opener, LastTok(st)) THEN st.opener ELSE None
        l == [st EXCEPT !.opener = None]
        starts == ft \notin Closers \cup {","} \cup ContinuationOps
        opens == op # None /\ op.depth = l.depth /\ indent > op.base /\ starts
        separates == ~l.first /\ LastTok(l) \notin BracketBinaryOps /\ ShouldEmitBracketNewline(LastTok(l), ft)
    IN  CASE l.mini # <<>> /\ l.depth = 0 /\ ft \notin ContinuationOps /\ EndsMini(l, indent, ft) ->
               BracketLine(IF starts THEN Emit(CloseMini(l), "NEWLINE") ELSE CloseMini(l), indent, ft)
          [] l.depth > 0 /\ ~opens -> BracketLine(IF separates THEN Emit(l, "NEWLINE") ELSE l, indent, ft)
          [] OTHER -> OffsideLine(IF l.depth > 0 THEN OpenMini(l, op) ELSE l, indent, ft)

\* A bracket or comma at depth 0 of a block inside brackets is of the outer context.
Outward(l) == IF l.depth = 0 /\ l.mini # <<>> THEN CloseMini(l) ELSE l
\* Mutant of CloseBracket: the block stays open.
CloseBracketOnly(l) == [l EXCEPT !.depth = IF @ > 0 THEN @ - 1 ELSE 0]
CloseBracket(l) ==
    LET o == Outward(l)
        depth == IF o.depth > 0 THEN o.depth - 1 ELSE 0
    IN  [o EXCEPT !.depth = depth, !.opener = IF @ # None /\ @.depth > depth THEN None ELSE @]
Comma(l) ==
    LET o == Outward(l) IN [o EXCEPT !.opener = IF @ # None /\ @.depth = o.depth THEN None ELSE @]

\* One token of a line.
ScanToken(l, tok) ==
    Emit(CASE tok \in Openers -> [l EXCEPT !.depth = @ + 1]
           [] tok \in Closers -> CloseBracket(l)
           [] tok = "," -> Comma(l)
           [] tok \in BlockOpeners /\ l.depth > 0 ->
                [l EXCEPT !.opener = [kw |-> tok, depth |-> l.depth, base |-> l.line]]
           [] OTHER -> l, tok)

\* The tokens of a source, or None: inconsistent indent or an open bracket.
RECURSIVE LexFrom(_, _, _)
LexFrom(l, source, i) ==
    CASE i > Len(source) \/ l.bad -> l
      [] IsMark(source[i]) -> LexFrom(ProcessLine(l, IndentOf(source[i]), source[i + 1]), source, i + 1)
      [] OTHER -> LexFrom(ScanToken(l, source[i]), source, i + 1)
Lex(source) ==
    LET end == LexFrom(NewLexer, source, 1)
        line == IF end.first THEN end ELSE Emit(end, "NEWLINE")
    IN  IF end.bad \/ end.mini # <<>> \/ end.depth > 0 THEN None
        ELSE Emit(EmitDedents(line, Len(end.stack) - 1), "EOF").out
=============================================================================
