----------------------------- MODULE MCScheduler -----------------------------
(* Small instances of Scheduler: which opcodes the actors of a run use.    *)
EXTENDS Scheduler

\* Life and death: links, watches, names.
FamilyOps == {"call", "return", "raise", "spawn", "link", "watch", "unwatch",
              "exit", "register", "unregister", "recv"}

\* With one watch there may be two links beside it, with two watches none.
FewTies == Cardinality(links) + 2 * nextRef <= 4

\* Signals against ensure blocks.
SignalOps == {"call", "return", "raise", "spawn", "exit", "exitself", "ensure",
              "recv"}

\* Messages, timeouts, answers and turn budgets.
WaitOps == {"call", "spawn", "send", "recv", "after", "makeref", "await",
            "reply", "exit", "return", "charge"}

\* Waits inside ensure blocks that a signal runs.
UnwindWaitOps == {"call", "spawn", "send", "after", "makeref", "await", "exit",
                  "ensure"}

\* A turn budget crossed just before a wait.
BudgetOps == {"call", "charge", "recv", "spawn", "exit", "ensure"}
=============================================================================
