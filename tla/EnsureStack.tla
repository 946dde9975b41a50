---------------------------- MODULE EnsureStack ----------------------------
(* What `trap ... ensure ... end` promises of one actor: the ensures it    *)
(* registered are a stack.  They are numbered in the order of their        *)
(* registration; one starts when it is the newest of those that have not   *)
(* started, so each starts once and in LIFO order; the actor stops only    *)
(* when none is left, unless exit(pid, :kill) killed it.                   *)
EXTENDS Naturals

CONSTANT MaxEns             \* how many ensures are registered in a run

VARIABLES owed,             \* registered and not started
          count,            \* how many were registered: the newest one's name
          begun,            \* the ensure that started last, 0 before the first
          life              \* "alive", "killed" (:kill came) or "dead"

vars == <<owed, count, begun, life>>

Init == /\ owed = {} /\ count = 0 /\ begun = 0 /\ life = "alive"

Register == /\ life = "alive" /\ count < MaxEns
            /\ count' = count + 1
            /\ owed' = owed \cup {count'}
            /\ UNCHANGED <<begun, life>>

Newest(i) == i \in owed /\ \A j \in owed : j <= i

\* Only an actor that no :kill reached starts an ensure.
Start == /\ life = "alive"
         /\ \E i \in owed : Newest(i) /\ begun' = i /\ owed' = owed \ {i}
         /\ UNCHANGED <<count, life>>

Kill == life = "alive" /\ life' = "killed" /\ UNCHANGED <<owed, count, begun>>

Stop == /\ life = "killed" \/ (life = "alive" /\ owed = {})
        /\ life' = "dead"
        /\ owed' = {}
        /\ UNCHANGED <<count, begun>>

Next == Register \/ Start \/ Kill \/ Stop

Spec == Init /\ [][Next]_vars
=============================================================================
