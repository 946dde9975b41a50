----------------------------- MODULE Supervisor -----------------------------
(* stdlib/supervisor.brig over stdlib/server.brig: an actor that starts its *)
(* children in order, watches them, restarts the ones that fall and stops   *)
(* them in reverse order.  A child incarnation is its pid; the reference of *)
(* the supervisor's watch is that pid too, for start_child watches each     *)
(* incarnation once.  Children are spawn_linked, as the library documents.  *)
EXTENDS Naturals, Sequences, FiniteSets, SequencesExt

CONSTANTS Count,            \* children of the specification, 1 .. Count
          Transient,        \* those with restart: :transient
          MaxRestarts, Within,
          Clients,          \* callers of stop and which_children
          HWM,              \* the mailbox limit
          MaxPids, MaxTime  \* bounds: incarnations, clock

ASSUME SupervisorAssumption ==
    /\ Count \in Nat \ {0} /\ Transient \subseteq 1 .. Count
    /\ MaxRestarts \in Nat /\ Within \in Nat /\ HWM \in Nat \ {0}

Pids == 1 .. MaxPids
NormalExits == {"normal", "shutdown"}
Spontaneous == {"normal", "boom"}

VARIABLES mode,       \* where the supervisor is: see TypeOK
          children,   \* state.children, or `started` while in init
          task,       \* the child being started, its old pid and the new one
          restarts,   \* state.restarts
          stop,       \* stop_children: why, children left, phase, downs
          expired,    \* the deadline of stop_children has passed
          downs, inbox,     \* Actor.downMsgs and Actor.mailbox
          alive, asked, killed, watched,    \* sets of incarnations
          born,       \* <<name, ended>> of each incarnation
          starter,    \* Supervisor.start, waiting for init
          call,       \* Server.call of each client
          began,      \* history: when each restart began
          now

vars == <<mode, children, task, restarts, stop, expired, downs, inbox, alive,
          asked, killed, watched, born, starter, call, began, now>>
supVars == <<mode, children, task, restarts, stop, began>>
childVars == <<alive, asked, killed, watched, born>>

NoTask == [name |-> 0, old |-> 0, new |-> 0]
NoStop == [why |-> "none", left |-> <<>>, phase |-> "ask", seen |-> {}, by |-> "none"]

\* The entries of children, downs, mailbox and of the table of incarnations.
Child == [name : 1 .. Count, pid : Nat]
Down == [ref : Nat, reason : Spontaneous \cup {"kill", "shutdown", "noproc"}]
Req == [from : Clients, req : {"stop", "which"}]
Birth == [name : 1 .. Count, ended : Spontaneous \cup {"no", "kill", "shutdown"}]
Stops == [why : {"none", "init", "stop", "escalate"}, left : Seq(Child),
          phase : {"ask", "await", "killing"}, seen : SUBSET Nat,
          by : Clients \cup {"none"}]

\* Every variable has its type: what the records of supervisor.brig hold.
TypeOK ==
    /\ mode \in {"starting", "loop", "stopping", "dead"}
    /\ children \in Seq(Child)
    /\ task \in [name : 0 .. Count, old : Nat, new : Nat]
    /\ restarts \in Seq(Nat) /\ began \in Seq(Nat) /\ now \in Nat
    /\ stop \in Stops /\ expired \in BOOLEAN
    /\ downs \in Seq(Down) /\ inbox \in Seq(Req) /\ born \in Seq(Birth)
    /\ alive \in SUBSET Nat /\ asked \in SUBSET Nat
    /\ killed \in SUBSET Nat /\ watched \in SUBSET Nat
    /\ starter \in {"waiting", "ok", "failed", "timeout"}
    /\ call \in [Clients -> {"idle", "waiting", "busy", "timeout", "stopped", "listed"}]

Init ==
    /\ mode = "starting" /\ children = <<>>
    /\ task = [NoTask EXCEPT !.name = 1]
    /\ restarts = <<>> /\ stop = NoStop /\ expired = FALSE
    /\ downs = <<>> /\ inbox = <<>>
    /\ alive = {} /\ asked = {} /\ killed = {} /\ watched = {}
    /\ born = <<>> /\ starter = "waiting"
    /\ call = [c \in Clients |-> "idle"]
    /\ began = <<>> /\ now = 0

InInit == starter = "waiting"

\* ---- the children ----

\* An incarnation ends: a killed one at once, one asked to exit when its ensures
\* are over, any other as it likes.  Its watcher is told.
ChildEnds(p) ==
    /\ p \in alive
    /\ alive' = alive \ {p}
    /\ \E reason \in IF p \in killed THEN {"kill"}
                     ELSE IF p \in asked THEN {"shutdown"} ELSE Spontaneous :
          /\ born' = [born EXCEPT ![p].ended = reason]
          /\ downs' = IF p \in watched /\ mode # "dead"
                      THEN Append(downs, [ref |-> p, reason |-> reason]) ELSE downs
    /\ UNCHANGED <<supVars, expired, inbox, asked, killed, watched, starter, call, now>>

\* ---- stopping ----

\* Mutants of Order: in start order; without the list of those to stop.
OrderForward(cs) == cs
Order(cs) == Reverse(cs)

BeginStop(why, cs, by) ==
    /\ mode' = "stopping"
    /\ stop' = [why |-> why, left |-> Order(cs), phase |-> "ask", seen |-> {}, by |-> by]
    /\ expired' = FALSE

\* The supervisor is gone: its links are followed (exitLinked).
Dies ==
    /\ mode' = "dead"
    /\ asked' = asked \cup alive
    /\ downs' = <<>> /\ inbox' = <<>>

\* stop_child: one whose down has come already is not waited for again.
StopChild ==
    /\ mode = "stopping" /\ stop.phase = "ask" /\ stop.left # <<>>
    /\ LET c == Head(stop.left)
       IN  IF c.pid \in stop.seen
           THEN stop' = [stop EXCEPT !.left = Tail(@)] /\ UNCHANGED asked
           ELSE /\ stop' = [stop EXCEPT !.phase = "await"]
                /\ asked' = asked \cup ({c.pid} \cap alive)
    /\ UNCHANGED <<mode, children, task, restarts, expired, downs, inbox, alive,
                   killed, watched, born, starter, call, began, now>>

\* The first two clauses of await_down and await_killed.
TakeDown(ref) ==
    IF ref = Head(stop.left).pid
    THEN stop' = [stop EXCEPT !.left = Tail(@), !.phase = "ask"]
    ELSE stop' = [stop EXCEPT !.seen = @ \cup {ref}]

\* await_down, await_killed: recv takes downs first, and drops the rest.
AwaitDown ==
    /\ mode = "stopping" /\ stop.phase \in {"await", "killing"}
    /\ \/ /\ downs # <<>>
          /\ TakeDown(Head(downs).ref)
          /\ downs' = Tail(downs) /\ UNCHANGED inbox
       \/ /\ downs = <<>> /\ inbox # <<>>
          /\ inbox' = Tail(inbox) /\ UNCHANGED <<downs, stop>>
    /\ UNCHANGED <<mode, children, task, restarts, expired, childVars, starter,
                   call, began, now>>

\* The deadline passes; the `after` of await_down runs when nothing has come.
Expire ==
    /\ mode = "stopping" /\ ~expired
    /\ expired' = TRUE
    /\ UNCHANGED <<supVars, downs, inbox, childVars, starter, call, now>>

\* Mutant: the child that does not come down is only asked again.
KillChildNot ==
    /\ mode = "stopping" /\ stop.phase = "await" /\ expired
    /\ downs = <<>> /\ inbox = <<>>
    /\ stop' = [stop EXCEPT !.phase = "killing"]
    /\ UNCHANGED <<mode, children, task, restarts, expired, downs, inbox, alive,
                   asked, killed, watched, born, starter, call, began, now>>

KillChild ==
    /\ mode = "stopping" /\ stop.phase = "await" /\ expired
    /\ downs = <<>> /\ inbox = <<>>
    /\ killed' = killed \cup ({Head(stop.left).pid} \cap alive)
    /\ stop' = [stop EXCEPT !.phase = "killing"]
    /\ UNCHANGED <<mode, children, task, restarts, expired, downs, inbox, alive,
                   asked, watched, born, starter, call, began, now>>

\* A reply to a caller that no longer waits is dropped.
Answer(c, r) == [call EXCEPT ![c] = IF @ = "waiting" THEN r ELSE @]

\* The end of init, of the stop request and of escalate.
Stopped ==
    /\ mode = "stopping" /\ stop.phase = "ask" /\ stop.left = <<>>
    /\ Dies
    /\ starter' = IF stop.why = "init" /\ starter = "waiting" THEN "failed" ELSE starter
    /\ call' = IF stop.why = "stop" THEN Answer(stop.by, "stopped") ELSE call
    /\ UNCHANGED <<children, task, restarts, stop, expired, alive, killed, watched,
                   born, began, now>>

\* ---- starting and restarting ----

\* Enum.filter over state.restarts: the times are in order, so those in the
\* window are the last ones.
InWindow(ts) ==
    LET old == {i \in DOMAIN ts : now - ts[i] >= Within}
    IN  SubSeq(ts, Cardinality(old) + 1, Len(ts))

\* Enum.filter over state.children: one child and no other has the reference.
Others(pid) == RemoveAt(children, CHOOSE i \in DOMAIN children : children[i].pid = pid)

\* Mutant: the limit is passed by one.
OverLimitLate(ts) == Len(ts) > MaxRestarts + 1
OverLimit(ts) == Len(ts) > MaxRestarts

\* exited: restart?, restart and escalate of the child `name` of incarnation pid.
Exited(name, pid, reason) ==
    LET ts == Append(InWindow(restarts), now)
    IN  IF name \in Transient /\ reason \in NormalExits
        THEN /\ children' = Others(pid) /\ mode' = "loop" /\ task' = NoTask
             /\ UNCHANGED <<restarts, stop, expired, began>>
        ELSE IF OverLimit(ts)
        THEN /\ BeginStop("escalate", Others(pid), "none")
             /\ task' = NoTask /\ UNCHANGED <<restarts, children, began>>
        ELSE /\ restarts' = ts /\ mode' = "starting" /\ began' = Append(began, now)
             /\ task' = [name |-> name, old |-> pid, new |-> 0]
             /\ UNCHANGED <<children, stop, expired>>

\* start_child: c.start().
StartOk ==
    /\ mode = "starting" /\ task.new = 0 /\ Len(born) < MaxPids
    /\ LET p == Len(born) + 1
       IN  /\ born' = Append(born, [name |-> task.name, ended |-> "no"])
           /\ alive' = alive \cup {p}
           /\ task' = [task EXCEPT !.new = p]
    /\ UNCHANGED <<mode, children, restarts, stop, expired, downs, inbox, asked,
                   killed, watched, starter, call, began, now>>

\* start raised.  In init the started ones are stopped; later it is one more exit.
StartFails ==
    /\ mode = "starting" /\ task.new = 0
    /\ IF InInit
       THEN BeginStop("init", children, "none")
            /\ UNCHANGED <<children, task, restarts, began>>
       ELSE Exited(task.name, task.old, "boom")
    /\ UNCHANGED <<downs, inbox, childVars, starter, call, now>>

\* Mutant: the restarted child keeps the reference of the old one.
PlacedOldRef(c, pid) == c
Placed(c, pid) == [c EXCEPT !.pid = pid]

\* start_child: watch(pid), then the child takes its place.  A pid dead by now
\* is told of at once, with :noproc.
WatchChild ==
    /\ mode = "starting" /\ task.new # 0
    /\ IF task.new \in alive
       THEN watched' = watched \cup {task.new} /\ UNCHANGED downs
       ELSE /\ downs' = Append(downs, [ref |-> task.new, reason |-> "noproc"])
            /\ UNCHANGED watched
    /\ IF InInit
       THEN /\ children' = Append(children, [name |-> task.name, pid |-> task.new])
            /\ IF task.name < Count
               THEN task' = [NoTask EXCEPT !.name = task.name + 1]
                    /\ UNCHANGED <<mode, starter>>
               ELSE task' = NoTask /\ mode' = "loop" /\ starter' = "ok"
       ELSE /\ children' = [i \in DOMAIN children |->
                              IF children[i].pid = task.old
                              THEN Placed(children[i], task.new) ELSE children[i]]
            /\ task' = NoTask /\ mode' = "loop" /\ UNCHANGED starter
    /\ UNCHANGED <<restarts, stop, expired, inbox, alive, asked, killed, born,
                   call, began, now>>

\* ---- the loop ----

\* (:down, ref, reason): the child with that reference, or nobody.
ChildDown ==
    /\ mode = "loop" /\ downs # <<>>
    /\ downs' = Tail(downs)
    /\ LET d == Head(downs)
           found == {i \in DOMAIN children : children[i].pid = d.ref}
       IN  IF found = {}
           THEN UNCHANGED <<supVars, expired>>
           ELSE Exited(children[CHOOSE i \in found : TRUE].name, d.ref, d.reason)
    /\ UNCHANGED <<inbox, childVars, starter, call, now>>

Request ==
    /\ mode = "loop" /\ downs = <<>> /\ inbox # <<>>
    /\ inbox' = Tail(inbox)
    /\ LET m == Head(inbox)
       IN  IF m.req = "stop"
           THEN /\ BeginStop("stop", children, m.from)
                /\ UNCHANGED <<children, task, restarts, began, call>>
           ELSE /\ call' = Answer(m.from, "listed")
                /\ UNCHANGED <<supVars, expired>>
    /\ UNCHANGED <<downs, childVars, starter, now>>

\* ---- the others ----

\* Server.call: a full mailbox refuses it, and the slot of the answer is closed.
Call(c) ==
    /\ call[c] = "idle"
    /\ \E req \in {"stop", "which"} :
          IF mode # "dead" /\ Len(inbox) >= HWM
          THEN call' = [call EXCEPT ![c] = "busy"] /\ UNCHANGED inbox
          ELSE /\ call' = [call EXCEPT ![c] = "waiting"]
               /\ inbox' = IF mode = "dead" THEN inbox
                           ELSE Append(inbox, [from |-> c, req |-> req])
    /\ UNCHANGED <<supVars, expired, downs, childVars, starter, now>>

CallTimeout(c) ==
    /\ call[c] = "waiting"
    /\ call' = [call EXCEPT ![c] = "timeout"]
    /\ UNCHANGED <<supVars, expired, downs, inbox, childVars, starter, now>>

\* Supervisor.start gave up waiting, or anyone killed the supervisor.
SupKilled ==
    /\ mode # "dead"
    /\ Dies
    /\ starter' = IF starter = "waiting" THEN "timeout" ELSE starter
    /\ UNCHANGED <<children, task, restarts, stop, expired, alive, killed, watched,
                   born, call, began, now>>

Tick ==
    /\ now < MaxTime
    /\ now' = now + 1
    /\ UNCHANGED <<supVars, expired, downs, inbox, childVars, starter, call>>

Rest == UNCHANGED vars

SupStep == StartOk \/ StartFails \/ WatchChild \/ ChildDown \/ Request
           \/ StopChild \/ AwaitDown \/ KillChild \/ Stopped

Next == SupStep \/ (\E p \in Pids : ChildEnds(p)) \/ Expire
        \/ (\E c \in Clients : Call(c) \/ CallTimeout(c)) \/ SupKilled \/ Tick \/ Rest

\* The supervisor's own steps, a killed child's end and the clock.
Fairness == /\ WF_vars(SupStep) /\ WF_vars(Expire)
            /\ \A p \in Pids : WF_vars(p \in killed /\ ChildEnds(p))

Spec == Init /\ [][Next]_vars /\ Fairness

-----------------------------------------------------------------------------

\* While the supervisor serves its loop, every child it lists lives, or the news
\* of its end waits in the mailbox: no child falls unnoticed, whatever the order
\* of restarts, early deaths and stale downs.
NobodyFallsUnnoticed ==
    mode = "loop" => \A i \in DOMAIN children :
        \/ children[i].pid \in alive \cap watched
        \/ \E j \in DOMAIN downs : downs[j].ref = children[i].pid

\* stop answers :ok only when no child is left (stop_children waits for each
\* down or kills), no name ever has two living incarnations, and a child is
\* asked to stop only when those started after it are gone.
StopIsOrderly ==
    /\ (\E c \in Clients : call[c] = "stopped") => alive = {}
    /\ \A p, q \in alive : born[p].name = born[q].name => p = q
    /\ mode = "stopping" =>
           \A i, j \in DOMAIN children :
               i < j /\ children[i].pid \in asked => children[j].pid \notin alive

\* At most max_restarts restarts begin within any `within` milliseconds.
RestartsAreBounded ==
    \A i \in DOMAIN began :
        Cardinality({j \in DOMAIN began : j <= i /\ began[i] - began[j] < Within})
            <= MaxRestarts

\* Once stop_children has begun it ends, children that never finish included.
StopEnds == mode = "stopping" ~> mode = "dead"

\* supervisor.brig:11-13: a :transient child is restarted only after an abnormal
\* exit (:normal, :shutdown and (:shutdown, _) are normal).
TransientStaysDown ==
    \A p, q \in DOMAIN born :
        p < q /\ born[p].name = born[q].name /\ born[p].name \in Transient
            => born[p].ended \notin NormalExits
=============================================================================
