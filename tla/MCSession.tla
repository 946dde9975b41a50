------------------------------ MODULE MCSession ------------------------------
(***************************************************************************)
(* A session of the REPL: the loop that takes its inputs (Session), and the *)
(* code it loads and replaces (Reload).  The loop takes the swap of the     *)
(* functions as one job, so the two meet in a single step and are checked   *)
(* side by side; part says which one a behaviour is of.                     *)
(***************************************************************************)
EXTENDS Session, Reload

VARIABLE part

\* What a file says: its imports, its functions, those of them with a local
\* function, and the functions of other modules it names.
Says(imports, funs, locals, uses) ==
    [ok |-> TRUE, imports |-> imports, funs |-> funs, locals |-> locals, uses |-> uses]
Unparsed == [Says({}, {}, {}, {}) EXCEPT !.ok = FALSE]

\* A drops its import of B, and functions, and one changes its local function; a
\* text of A does not go with one of B.
Say(m, t) ==
    CASE m = "A" /\ t = 1 -> Says({"B"}, {"f", "g"}, {"f"}, {<<"B", "h">>})
      [] m = "A" /\ t = 2 -> Says({}, {"f"}, {"f"}, {})
      [] m = "A" /\ t = 3 -> Says({"B"}, {"g"}, {}, {<<"B", "k">>})
      [] m = "B" /\ t = 1 -> Says({}, {"h", "k"}, {}, {})
      [] m = "B" /\ t = 2 -> Says({}, {"h"}, {"h"}, {})
      [] m = "B" /\ t = 3 -> Unparsed

\* A session without code.
codeIdle ==
    /\ disk = [m \in Files |-> CHOOSE t \in Texts : TRUE]
    /\ loaded = <<>> /\ roots = {} /\ generation = 0 /\ cells = <<>>
    /\ held = {} /\ load = NoCall
    /\ edits = 0 /\ loads = 0 /\ told = Never /\ torn = {}

\* A loop that has ended.
loopIdle ==
    /\ lpc = "ended" /\ ready = <<>> /\ sess = "blocked" /\ bg = "blocked"
    /\ current = Nobody /\ pending = Nobody
    /\ interrupt = FALSE /\ wake = FALSE /\ stop = TRUE /\ halt = FALSE /\ inject = FALSE
    /\ kind = [j \in Jobs |-> "sync"] /\ caller = [j \in Jobs |-> "idle"]
    /\ done = [j \in Jobs |-> <<>>]
    /\ snap = "idle" /\ helper = "off" /\ stopErr = "none"
    /\ aimed = {} /\ poking = 0 /\ events = 0

PartsInit == \/ part = "loop" /\ Init /\ codeIdle
             \/ part = "code" /\ CodeInit /\ loopIdle

loopNext == part = "loop" /\ Next /\ UNCHANGED <<part, codeVars>>
codeNext == part = "code" /\ CodeNext /\ UNCHANGED <<part, vars>>
\* The bounds are reached.
codeRest == part = "code" /\ UNCHANGED <<part, vars, codeVars>>

PartsNext == loopNext \/ codeNext \/ codeRest
PartsSpec == PartsInit /\ [][PartsNext]_<<part, vars, codeVars>> /\ Fairness
=============================================================================
