------------------------------ MODULE Scheduler ------------------------------
(***************************************************************************)
(* The actor scheduler of the Brig VM (internal/vm/scheduler.go, exit.go,  *)
(* await.go, registry.go, budget.go): one goroutine runs the actors one at *)
(* a time, a slice of at most Quantum reductions each, from the queue of   *)
(* ready actors.                                                           *)
(*                                                                         *)
(* The code of an actor is abstracted to the opcodes that touch the        *)
(* scheduler: the actor that runs picks any opcode of Ops next.  What      *)
(* remains of its frames is the number of ensure blocks it is inside of    *)
(* (handlers) and the opcode it is suspended in (pc).                      *)
(***************************************************************************)
EXTENDS Integers, SequencesExt

CONSTANTS
    MaxActors,  \* actors a run may create; main is actor 0
    MaxRefs,    \* refs a run may create
    HWM,        \* Actor.hwm: mailbox limit
    Quantum,    \* Scheduler.reds: reductions per slice
    MaxEnsure,  \* nesting of ensure blocks
    Names,      \* names for register
    Msgs,       \* messages for send
    Reasons,    \* reasons a program passes to exit
    Limited,    \* actors spawned with a turn budget (SpawnLimits)
    Ops,        \* opcodes the actors use
    Port        \* open ports of the program: "none", "silent" or "live"

OpCodes == {"call", "return", "raise", "spawn", "link", "watch", "unwatch",
            "send", "recv", "after", "exit", "exitself", "ensure", "register",
            "unregister", "makeref", "await", "reply", "charge"}

ASSUME SchedulerAssumption ==
    /\ MaxActors \in Nat \ {0}
    /\ MaxRefs \in Nat
    /\ HWM \in Nat \ {0}
    /\ Quantum \in Nat \ {0}
    /\ MaxEnsure \in Nat
    /\ Reasons \subseteq {"stop", "crash", "kill"}
    /\ Limited \subseteq 0 .. MaxActors - 1
    /\ Ops \subseteq OpCodes
    /\ Port \in {"none", "silent", "live"}

VARIABLES
    status,    \* Actor.status; "unborn" before Spawn
    ready,     \* Scheduler.ready
    active,    \* the actor of the current slice
    reds,      \* reductions left in the slice
    over,      \* overBudget signalled the running actor since its last step
    pc,        \* opcode a suspended actor re-executes when it runs again
    aref,      \* the ref operand of that AWAIT
    handlers,  \* ensure handlers on the frames of the actor
    mailbox,   \* Actor.mailbox
    downs,     \* Actor.downMsgs
    watches,   \* all Actor.watchers maps
    links,     \* all Actor.links/owners maps: <<owner, child>>
    names,     \* Scheduler.names
    exit,      \* Actor.exit
    awaiting,  \* Actor.awaiting
    slots,     \* the reply slot of every ref
    deadline,  \* Actor.recvDeadline: "zero", "future" or "past"
    timers,    \* actors whose timer is in Scheduler.timers
    nextPid,   \* Scheduler.nextPid
    nextRef,   \* Scheduler.nextRef
    outcome    \* how runMain returned, or "running"

queueVars == <<status, ready>>
cpuVars   == <<active, reds, over>>
bodyVars  == <<pc, aref, handlers>>
boxVars   == <<mailbox, downs>>
relVars   == <<watches, links, names>>
timeVars  == <<awaiting, deadline, timers>>
idVars    == <<nextPid, nextRef>>
vars == <<queueVars, cpuVars, bodyVars, boxVars, relVars, exit, timeVars,
          slots, idVars, outcome>>

-----------------------------------------------------------------------------
Pids == 0 .. MaxActors - 1
Refs == 0 .. MaxRefs - 1
Main == 0
NoPid == -1
NoRef == -1

ExitReasons == {"normal", "raise", "stop", "crash", "kill", "linked", "budget"}
DownReasons == ExitReasons \cup {"noproc"}

\* exitSig; set = FALSE stands for a.exit == nil, whatever the reason.
ExitSigs == [set : BOOLEAN, reason : ExitReasons,
             kill : BOOLEAN, unwinding : BOOLEAN, depth : 0 .. MaxEnsure]
NoExit == [set |-> FALSE, reason |-> "normal", kill |-> FALSE,
           unwinding |-> FALSE, depth |-> 0]

\* Entries of downMsgs.
Downs == [ref : Refs, reason : DownReasons]
Down(w, why) == [ref |-> w.ref, reason |-> why]

\* RefSlot; "none" until MakeRef.
Slots == [owner : Pids \cup {NoPid},
          state : {"none", "empty", "filled", "closed"}]

Spawned == {p \in Pids : status[p] # "unborn"}
\* The actors in Scheduler.actors: a dead actor is reaped at once.
Live == {p \in Pids : status[p] \in {"ready", "blocked"}}

ExitPending(p) == exit[p].set /\ ~exit[p].unwinding

\* The running actor p executes an opcode: it is not at the head of the
\* slice loop with a signal to act upon.
Executing(p) ==
    /\ outcome = "running"
    /\ active = p
    /\ ExitPending(p) => over
Runs(p, op) == Executing(p) /\ op \in Ops /\ pc[p] = "run"

\* The actor of a slice stops running without going back to the queue.
LeaveCpu == active' = NoPid /\ reds' = 0 /\ over' = FALSE

\* Mutant of Burn: an actor whose slice is over goes on.
BurnOn(p) ==
    /\ over' = FALSE
    /\ reds' = reds - 1
    /\ UNCHANGED <<active, ready>>

\* Mutant of Burn: a preempted actor keeps its place in the queue.
BurnFirst(p) ==
    /\ over' = FALSE
    /\ reds' = reds - 1
    /\ IF reds = 1
       THEN active' = NoPid /\ ready' = <<p>> \o ready
       ELSE UNCHANGED <<active, ready>>

\* A step ends and costs a reduction; the last one ends the slice.
Burn(p) ==
    /\ over' = FALSE
    /\ reds' = reds - 1
    /\ IF reds = 1
       THEN active' = NoPid /\ ready' = Append(ready, p)
       ELSE UNCHANGED <<active, ready>>

\* clearTimer of every actor of C.
ClearTimers(C) ==
    /\ deadline' = [q \in Pids |-> IF q \in C THEN "zero" ELSE deadline[q]]
    /\ awaiting' = [q \in Pids |-> IF q \in C THEN NoRef ELSE awaiting[q]]
    /\ timers' = timers \ C

-----------------------------------------------------------------------------
(* Signals.                                                                *)

\* Mutant of SignalExit: the last reason wins.
SignalExitLast(sig, r) ==
    [sig EXCEPT !.set = TRUE, !.reason = r, !.kill = (r = "kill"),
                !.unwinding = FALSE]

\* The signal record after signalExit with reason r.
SignalExit(sig, r) ==
    IF ~sig.set
    THEN [NoExit EXCEPT !.set = TRUE, !.reason = r, !.kill = (r = "kill")]
    ELSE IF r = "kill" /\ ~sig.kill
         THEN [sig EXCEPT !.kill = TRUE, !.unwinding = FALSE]
         ELSE sig

\* Mutant of HurriedQueue: a ready victim is not taken from its old place.
HurriedQueueTwice(q, S) == {t \o q : t \in SetToSeqs(S)}

\* The ready queues that hurry leaves when it moves the actors of S to the
\* front of q one by one in ascending order of pid (there is exactly one).
HurriedQueue(q, S) ==
    LET Before(x, y) ==
            \/ x \in S /\ (y \in S => x > y)
            \/ /\ x \notin S /\ y \notin S
               /\ \E i, j \in DOMAIN q : i < j /\ q[i] = x /\ q[j] = y
    IN {t \in SetToSeqs(ToSet(q) \cup S) :
            \A i, j \in DOMAIN t : i < j => Before(t[i], t[j])}

\* Mutant of Wakes: a recv with an after branch waits for its timer.
WakesPlain(S) == {q \in S : status[q] = "blocked" /\ awaiting[q] = NoRef
                                                 /\ pc[q] # "after"}

\* Those of S that wakeIfBlocked makes ready.
Wakes(S) == {q \in S : status[q] = "blocked" /\ awaiting[q] = NoRef}

\* Mutant of ExitActor: the signal is set, hurry is forgotten.
ExitActorLazy(q, r) ==
    /\ exit' = IF q \in Live THEN [exit EXCEPT ![q] = SignalExit(@, r)] ELSE exit
    /\ UNCHANGED <<queueVars, timeVars>>

\* Scheduler.Exit(q, r) for an actor that is not running.
ExitActor(q, r) ==
    LET sig == SignalExit(exit[q], r)
    IN IF q \in Live /\ sig # exit[q]
       THEN /\ exit' = [exit EXCEPT ![q] = sig]
            /\ ready' \in HurriedQueue(ready, {q})
            /\ status' = [status EXCEPT ![q] = "ready"]
            /\ ClearTimers({q} \ {x \in Pids : status[x] = "ready"})
       ELSE UNCHANGED <<exit, queueVars, timeVars>>

\* Mutant of Kids: the link is followed from the child to the owner.
Owners(p) == {c \in Live \ {p} : <<c, p>> \in links /\ ~exit[c].set}

\* exitLinked: the linked children that the death of p signals first.
Kids(p) == {c \in Live \ {p} : <<p, c>> \in links /\ ~exit[c].set}

\* Mutant of Told: a watcher that is not asleep misses the :down.
ToldAsleep(p, q) == {w \in watches : /\ w.target = p /\ w.watcher = q
                                     /\ status[q] = "blocked"}

\* The watches of p that q holds.
Told(p, q) == {w \in watches : w.target = p /\ w.watcher = q}

\* Mutant of DropNames: names are left to Whereis.
KeepNames(p) == names

\* dropNames.
DropNames(p) == [n \in Names |-> IF names[n] = p THEN NoPid ELSE names[n]]

\* The watchers map goes with the actor.
DropWatches(p) == {w \in watches : w.target # p}

\* actorDied: names, linked children, links, watchers and the table entry
\* of p go in one step.  The watchers map is iterated in any order.
Death(p, how, why) ==
    LET woken == Wakes({q \in Live \ (Kids(p) \cup {p}) : Told(p, q) # {}})
        Orders(q) == SetToSeqs({Down(w, why) : w \in Told(p, q)})
    IN /\ LeaveCpu
       /\ status' = [q \in Pids |-> IF q = p THEN how
                                    ELSE IF q \in Kids(p) \cup woken THEN "ready"
                                    ELSE status[q]]
       /\ \E t \in HurriedQueue(ready, Kids(p)), u \in SetToSeqs(woken) :
              ready' = t \o u
       /\ exit' = [q \in Pids |-> IF q = p THEN NoExit
                                  ELSE IF q \in Kids(p)
                                  THEN SignalExit(exit[q], "linked")
                                  ELSE exit[q]]
       /\ \E d \in [Pids -> UNION {Orders(q) : q \in Pids}] :
              /\ \A q \in Pids : d[q] \in Orders(q)
              /\ downs' = [q \in Pids |-> IF q \in Live \ {p}
                                          THEN downs[q] \o d[q] ELSE <<>>]
       /\ ClearTimers({p} \cup {c \in Kids(p) : status[c] = "blocked"})
       /\ names' = DropNames(p)
       /\ links' = {l \in links : p \notin {l[1], l[2]}}
       /\ watches' = DropWatches(p)
       /\ mailbox' = [mailbox EXCEPT ![p] = <<>>]
       /\ pc' = [pc EXCEPT ![p] = "run"]
       /\ aref' = [aref EXCEPT ![p] = NoRef]
       /\ handlers' = [handlers EXCEPT ![p] = 0]
       /\ UNCHANGED <<slots, idVars, outcome>>

-----------------------------------------------------------------------------
Init ==
    /\ status = [p \in Pids |-> IF p = Main THEN "ready" ELSE "unborn"]
    /\ ready = <<Main>>
    /\ active = NoPid
    /\ reds = 0
    /\ over = FALSE
    /\ pc = [p \in Pids |-> "run"]
    /\ aref = [p \in Pids |-> NoRef]
    /\ handlers = [p \in Pids |-> 0]
    /\ mailbox = [p \in Pids |-> <<>>]
    /\ downs = [p \in Pids |-> <<>>]
    /\ watches = {}
    /\ links = {}
    /\ names = [n \in Names |-> NoPid]
    /\ exit = [p \in Pids |-> NoExit]
    /\ awaiting = [p \in Pids |-> NoRef]
    /\ slots = [r \in Refs |-> [owner |-> NoPid, state |-> "none"]]
    /\ deadline = [p \in Pids |-> "zero"]
    /\ timers = {}
    /\ nextPid = 1
    /\ nextRef = 0
    /\ outcome = "running"

-----------------------------------------------------------------------------
(* The loop of runMain.                                                    *)

HasPorts == Port # "none"

MainOver == \/ status[Main] = "done" /\ ~HasPorts
            \/ status[Main] = "failed"

AtLoopHead == outcome = "running" /\ active = NoPid

Finish ==
    /\ AtLoopHead
    /\ MainOver
    /\ outcome' = status[Main]
    /\ UNCHANGED <<queueVars, cpuVars, bodyVars, boxVars, relVars, exit,
                   timeVars, slots, idVars>>

\* The head of the queue gets a slice.
PickNext ==
    /\ AtLoopHead
    /\ ~MainOver
    /\ ready # <<>>
    /\ active' = Head(ready)
    /\ ready' = Tail(ready)
    /\ reds' = Quantum
    /\ over' = FALSE
    /\ UNCHANGED <<status, bodyVars, boxVars, relVars, exit, timeVars, slots,
                   idVars, outcome>>

\* waitEvent and wakeExpired: with an empty queue the timers that are due
\* leave the heap and wake their actors.  recvDeadline and awaiting stay.
\* Their order in the heap, by deadline, is any here.
WaitTimer ==
    LET due == {p \in timers : deadline[p] = "past"}
        woken == {p \in due : status[p] = "blocked"}
    IN /\ AtLoopHead
       /\ ~MainOver
       /\ ready = <<>>
       /\ due # {}
       /\ timers' = timers \ due
       /\ ready' \in SetToSeqs(woken)
       /\ status' = [p \in Pids |-> IF p \in woken THEN "ready" ELSE status[p]]
       /\ UNCHANGED <<cpuVars, bodyVars, boxVars, relVars, exit, awaiting,
                      deadline, slots, idVars, outcome>>

\* waitEvent has nothing to wait for.
WaitNothing ==
    /\ AtLoopHead
    /\ ~MainOver
    /\ ready = <<>>
    /\ timers = {}
    /\ Port # "live"
    /\ outcome' = IF status[Main] = "done" THEN "done" ELSE "deadlock"
    /\ UNCHANGED <<queueVars, cpuVars, bodyVars, boxVars, relVars, exit,
                   timeVars, slots, idVars>>

\* The clock reaches the deadline of p.
Tick(p) ==
    /\ outcome = "running"
    /\ p \in timers
    /\ deadline[p] = "future"
    /\ deadline' = [deadline EXCEPT ![p] = "past"]
    /\ UNCHANGED <<queueVars, cpuVars, bodyVars, boxVars, relVars, exit,
                   awaiting, timers, slots, idVars, outcome>>

\* The program has ended, or waits for an event of a port.
Idle ==
    /\ \/ outcome # "running"
       \/ /\ AtLoopHead
          /\ ~MainOver
          /\ ready = <<>>
          /\ timers = {}
          /\ Port = "live"
    /\ UNCHANGED vars

-----------------------------------------------------------------------------
(* Steps of runSlice.                                                      *)

\* A CALL, TAILCALL or RETURN that leaves frames; an actor with a turn
\* limit may cross it here (reduce).
Call(p) ==
    /\ Runs(p, "call")
    /\ Burn(p)
    /\ \/ UNCHANGED exit
       \/ /\ p \in Limited
          /\ ~exit[p].set
          /\ exit' = [exit EXCEPT ![p] = SignalExit(@, "budget")]
    /\ UNCHANGED <<status, bodyVars, boxVars, relVars, timeVars, slots, idVars,
                   outcome>>

\* An opcode that allocates crosses the limit (chargeBytes): the signal is
\* set, the opcode goes on.
Charge(p) ==
    /\ Runs(p, "charge")
    /\ p \in Limited
    /\ ~exit[p].set
    /\ exit' = [exit EXCEPT ![p] = SignalExit(@, "budget")]
    /\ over' = TRUE
    /\ UNCHANGED <<queueVars, active, reds, bodyVars, boxVars, relVars,
                   timeVars, slots, idVars, outcome>>

\* The last frame returns.
Return(p) ==
    /\ Runs(p, "return")
    /\ handlers[p] = 0
    /\ ~exit[p].unwinding
    /\ Death(p, "done", "normal")

\* A raise that no trap catches: the next ensure block runs, or the actor
\* dies.  Under an exit signal the error is dropped and unwinding goes on.
Raise(p) ==
    /\ Runs(p, "raise")
    /\ \/ /\ exit[p].set
          /\ exit' = [exit EXCEPT ![p].unwinding = FALSE]
          /\ over' = FALSE
          /\ UNCHANGED <<queueVars, active, reds, bodyVars, boxVars, relVars,
                         timeVars, slots, idVars, outcome>>
       \/ /\ ~exit[p].set
          /\ handlers[p] > 0
          /\ handlers' = [handlers EXCEPT ![p] = @ - 1]
          /\ Burn(p)
          /\ UNCHANGED <<status, pc, aref, boxVars, relVars, exit, timeVars,
                         slots, idVars, outcome>>
       \/ /\ ~exit[p].set
          /\ handlers[p] = 0
          /\ Death(p, "failed", "raise")

\* exitStep: the signal takes the actor to its next ensure block, or, when
\* none is left or the signal is :kill, to its death with the reason of the
\* signal.  The timer of a wait it never resumed is left as it is.
ExitStep(p) ==
    /\ outcome = "running"
    /\ active = p
    /\ ExitPending(p)
    /\ ~over
    /\ \/ /\ handlers[p] > 0
          /\ ~exit[p].kill
          /\ handlers' = [handlers EXCEPT ![p] = @ - 1]
          /\ exit' = [exit EXCEPT ![p].unwinding = TRUE,
                                  ![p].depth = handlers[p] - 1]
          /\ pc' = [pc EXCEPT ![p] = "run"]
          /\ aref' = [aref EXCEPT ![p] = NoRef]
          /\ UNCHANGED <<queueVars, cpuVars, boxVars, relVars, timeVars, slots,
                         idVars, outcome>>
       \/ /\ handlers[p] = 0 \/ exit[p].kill
          /\ Death(p, "failed", exit[p].reason)

\* TRAPENSURE.
PushEnsure(p) ==
    /\ Runs(p, "ensure")
    /\ handlers[p] < MaxEnsure
    /\ handlers' = [handlers EXCEPT ![p] = @ + 1]
    /\ UNCHANGED <<queueVars, cpuVars, pc, aref, boxVars, relVars, exit,
                   timeVars, slots, idVars, outcome>>

\* The protected body ends (TRAPEND); its ensure runs as ordinary code.
PopEnsure(p) ==
    /\ Runs(p, "ensure")
    /\ handlers[p] > IF exit[p].unwinding THEN exit[p].depth ELSE 0
    /\ handlers' = [handlers EXCEPT ![p] = @ - 1]
    /\ UNCHANGED <<queueVars, cpuVars, pc, aref, boxVars, relVars, exit,
                   timeVars, slots, idVars, outcome>>

\* ENSEND of the ensure block that the unwinding entered.
EnsureEnd(p) ==
    /\ Runs(p, "ensure")
    /\ exit[p].unwinding
    /\ handlers[p] = exit[p].depth
    /\ exit' = [exit EXCEPT ![p].unwinding = FALSE]
    /\ UNCHANGED <<queueVars, cpuVars, bodyVars, boxVars, relVars, timeVars,
                   slots, idVars, outcome>>

-----------------------------------------------------------------------------
(* Actor opcodes.                                                          *)

\* spawn, spawn_linked and spawn_watched.
Spawn(p, mode) ==
    LET c == nextPid
    IN /\ Runs(p, "spawn")
       /\ c < MaxActors
       /\ nextPid' = c + 1
       /\ status' = [status EXCEPT ![c] = "ready"]
       /\ ready' = Append(ready, c)
       /\ \/ /\ mode = "plain"
             /\ UNCHANGED <<links, watches, nextRef>>
          \/ /\ mode = "linked"
             /\ "link" \in Ops
             /\ links' = links \cup {<<p, c>>}
             /\ UNCHANGED <<watches, nextRef>>
          \/ /\ mode = "watched"
             /\ "watch" \in Ops
             /\ nextRef < MaxRefs
             /\ nextRef' = nextRef + 1
             /\ watches' = watches \cup
                    {[ref |-> nextRef, watcher |-> p, target |-> c]}
             /\ UNCHANGED links
       /\ UNCHANGED <<cpuVars, bodyVars, boxVars, names, exit, timeVars, slots,
                      outcome>>

\* A full mailbox refuses the message, a dead actor loses it.
Send(p, q, m) ==
    /\ Runs(p, "send")
    /\ q \in Spawned
    /\ IF q \in Live /\ Len(mailbox[q]) < HWM
       THEN /\ mailbox' = [mailbox EXCEPT ![q] = Append(@, m)]
            /\ status' = [x \in Pids |-> IF x \in Wakes({q}) THEN "ready"
                                         ELSE status[x]]
            /\ ready' = IF Wakes({q}) # {} THEN Append(ready, q) ELSE ready
       ELSE UNCHANGED <<mailbox, queueVars>>
    /\ UNCHANGED <<cpuVars, bodyVars, downs, relVars, exit, timeVars, slots,
                   idVars, outcome>>

\* watch of a dead actor answers at once with :noproc.
Watch(p, q) ==
    /\ Runs(p, "watch")
    /\ q \in Spawned
    /\ nextRef < MaxRefs
    /\ nextRef' = nextRef + 1
    /\ IF q \in Live
       THEN /\ watches' = watches \cup
                   {[ref |-> nextRef, watcher |-> p, target |-> q]}
            /\ UNCHANGED downs
       ELSE /\ downs' = [downs EXCEPT
                   ![p] = Append(@, [ref |-> nextRef, reason |-> "noproc"])]
            /\ UNCHANGED watches
    /\ UNCHANGED <<queueVars, cpuVars, bodyVars, mailbox, links, names, exit,
                   timeVars, slots, nextPid, outcome>>

Unwatch(p, r) ==
    /\ Runs(p, "unwatch")
    /\ r < nextRef
    /\ watches' = {w \in watches : ~(w.ref = r /\ w.watcher = p)}
    /\ UNCHANGED <<queueVars, cpuVars, bodyVars, boxVars, links, names, exit,
                   timeVars, slots, idVars, outcome>>

Link(p, q) ==
    /\ Runs(p, "link")
    /\ q \in Live \ {p}
    /\ links' = links \cup {<<p, q>>}
    /\ UNCHANGED <<queueVars, cpuVars, bodyVars, boxVars, watches, names, exit,
                   timeVars, slots, idVars, outcome>>

\* exit(q, r) of another actor.
Exit(p, q, r) ==
    /\ Runs(p, "exit")
    /\ q \in Spawned \ {p}
    /\ ExitActor(q, r)
    /\ UNCHANGED <<cpuVars, bodyVars, boxVars, relVars, slots, idVars, outcome>>

\* exit(self(), r) ends the step.
ExitSelf(p, r) ==
    /\ Runs(p, "exitself")
    /\ exit' = [exit EXCEPT ![p] = SignalExit(@, r)]
    /\ over' = FALSE
    /\ UNCHANGED <<queueVars, active, reds, bodyVars, boxVars, relVars,
                   timeVars, slots, idVars, outcome>>

\* A dead pid or a name in use is refused.
Register(p, n, q) ==
    /\ Runs(p, "register")
    /\ q \in Live
    /\ names[n] = NoPid
    /\ names' = [names EXCEPT ![n] = q]
    /\ UNCHANGED <<queueVars, cpuVars, bodyVars, boxVars, watches, links, exit,
                   timeVars, slots, idVars, outcome>>

Unregister(p, n) ==
    /\ Runs(p, "unregister")
    /\ names' = [names EXCEPT ![n] = NoPid]
    /\ UNCHANGED <<queueVars, cpuVars, bodyVars, boxVars, watches, links, exit,
                   timeVars, slots, idVars, outcome>>

-----------------------------------------------------------------------------
(* recv, await and reply.                                                  *)

\* RECVTIMER arms the timer; RECVTAKE follows it.
RecvTimer(p) ==
    /\ Runs(p, "after")
    /\ deadline' = [deadline EXCEPT ![p] = "future"]
    /\ timers' = timers \cup {p}
    /\ pc' = [pc EXCEPT ![p] = "after"]
    /\ UNCHANGED <<queueVars, cpuVars, aref, handlers, boxVars, relVars, exit,
                   awaiting, slots, idVars, outcome>>

\* RECVTAKE: a down, else a message, else the after branch of a passed
\* deadline, else the actor blocks.
RecvTake(p) ==
    /\ \/ Runs(p, "recv")
       \/ Executing(p) /\ pc[p] \in {"recv", "after"}
    /\ \/ /\ downs[p] # <<>>
          /\ downs' = [downs EXCEPT ![p] = Tail(@)]
          /\ ClearTimers({p})
          /\ pc' = [pc EXCEPT ![p] = "run"]
          /\ UNCHANGED <<queueVars, cpuVars, mailbox>>
       \/ /\ downs[p] = <<>>
          /\ mailbox[p] # <<>>
          /\ mailbox' = [mailbox EXCEPT ![p] = Tail(@)]
          /\ ClearTimers({p})
          /\ pc' = [pc EXCEPT ![p] = "run"]
          /\ UNCHANGED <<queueVars, cpuVars, downs>>
       \/ /\ downs[p] = <<>> /\ mailbox[p] = <<>>
          /\ deadline[p] = "past" /\ pc[p] = "after"
          /\ ClearTimers({p})
          /\ pc' = [pc EXCEPT ![p] = "run"]
          /\ UNCHANGED <<queueVars, cpuVars, boxVars>>
       \/ /\ downs[p] = <<>> /\ mailbox[p] = <<>>
          /\ ~(deadline[p] = "past" /\ pc[p] = "after")
          /\ IF deadline[p] = "past" THEN ClearTimers({p})
             ELSE UNCHANGED timeVars
          /\ pc' = [pc EXCEPT ![p] = IF @ = "after" THEN "after" ELSE "recv"]
          /\ status' = [status EXCEPT ![p] = "blocked"]
          /\ LeaveCpu
          /\ UNCHANGED <<ready, boxVars>>
    /\ UNCHANGED <<aref, handlers, relVars, exit, slots, idVars, outcome>>

MakeRef(p) ==
    /\ Runs(p, "makeref")
    /\ nextRef < MaxRefs
    /\ nextRef' = nextRef + 1
    /\ slots' = [slots EXCEPT ![nextRef] = [owner |-> p, state |-> "empty"]]
    /\ UNCHANGED <<queueVars, cpuVars, bodyVars, boxVars, relVars, exit,
                   timeVars, nextPid, outcome>>

\* AWAIT of the ref r; wait is FALSE for a timeout of zero.  It returns
\* and closes the slot, or blocks and is executed again.
Await(p, r, wait) ==
    LET resuming == awaiting[p] = r
        arm == slots[r].state = "empty" /\ ~resuming /\ wait
        sleep == \/ arm
                 \/ /\ slots[r].state = "empty"
                    /\ resuming
                    /\ deadline[p] = "future"
    IN /\ \/ Runs(p, "await")
          \/ Executing(p) /\ pc[p] = "await" /\ r = aref[p] /\ wait
       /\ slots[r].owner = p
       /\ \/ /\ sleep
             /\ IF arm
                THEN /\ deadline' = [deadline EXCEPT ![p] = "future"]
                     /\ timers' = timers \cup {p}
                     /\ awaiting' = [awaiting EXCEPT ![p] = r]
                ELSE UNCHANGED timeVars
             /\ pc' = [pc EXCEPT ![p] = "await"]
             /\ aref' = [aref EXCEPT ![p] = r]
             /\ status' = [status EXCEPT ![p] = "blocked"]
             /\ LeaveCpu
             /\ UNCHANGED slots
          \/ /\ ~sleep
             /\ slots' = [slots EXCEPT ![r].state = "closed"]
             /\ IF resuming THEN ClearTimers({p}) ELSE UNCHANGED timeVars
             /\ pc' = [pc EXCEPT ![p] = "run"]
             /\ aref' = [aref EXCEPT ![p] = NoRef]
             /\ UNCHANGED <<status, cpuVars>>
       /\ UNCHANGED <<ready, handlers, boxVars, relVars, exit, idVars, outcome>>

\* Mutant of AnswerWakes: an actor in await is left to its timer.
AnswerWakesNone(q, r) == FALSE

\* Whether the answer in r wakes q.
AnswerWakes(q, r) == awaiting[q] = r /\ status[q] = "blocked"

\* reply(q, r, v): only into the empty slot of a ref that the live q made.
Reply(p, q, r) ==
    /\ Runs(p, "reply")
    /\ slots[r] = [owner |-> q, state |-> "empty"]
    /\ q \in Live
    /\ slots' = [slots EXCEPT ![r].state = "filled"]
    /\ IF AnswerWakes(q, r)
       THEN /\ ClearTimers({q})
            /\ status' = [status EXCEPT ![q] = "ready"]
            /\ ready' = Append(ready, q)
       ELSE UNCHANGED <<timeVars, queueVars>>
    /\ UNCHANGED <<cpuVars, bodyVars, boxVars, relVars, exit, idVars, outcome>>

-----------------------------------------------------------------------------
Loop == Finish \/ PickNext \/ WaitTimer \/ WaitNothing

Step(p) ==
    \/ Call(p) \/ Charge(p) \/ Return(p) \/ Raise(p) \/ ExitStep(p)
    \/ PushEnsure(p) \/ PopEnsure(p) \/ EnsureEnd(p)
    \/ RecvTimer(p) \/ RecvTake(p) \/ MakeRef(p)
    \/ \E mode \in {"plain", "linked", "watched"} : Spawn(p, mode)
    \/ \E q \in Pids, m \in Msgs : Send(p, q, m)
    \/ \E q \in Pids : Watch(p, q) \/ Link(p, q)
    \/ \E r \in Refs : Unwatch(p, r)
    \/ \E q \in Pids, r \in Reasons : Exit(p, q, r)
    \/ \E r \in Reasons : ExitSelf(p, r)
    \/ \E n \in Names : Unregister(p, n) \/ \E q \in Pids : Register(p, n, q)
    \/ \E r \in Refs, wait \in BOOLEAN : Await(p, r, wait)
    \/ \E q \in Pids, r \in Refs : Reply(p, q, r)

Next == Loop \/ Idle \/ \E p \in Pids : Tick(p) \/ Step(p)

Spec == Init /\ [][Next]_vars

-----------------------------------------------------------------------------
(* Properties.                                                             *)

TypeOK ==
    /\ status \in [Pids -> {"unborn", "ready", "blocked", "done", "failed"}]
    /\ ready \in Seq(Pids)
    /\ active \in Pids \cup {NoPid}
    /\ reds \in 0 .. Quantum
    /\ over \in BOOLEAN
    /\ pc \in [Pids -> {"run", "recv", "after", "await"}]
    /\ aref \in [Pids -> Refs \cup {NoRef}]
    /\ handlers \in [Pids -> 0 .. MaxEnsure]
    /\ mailbox \in [Pids -> Seq(Msgs)]
    /\ downs \in [Pids -> Seq(Downs)]
    /\ watches \subseteq [ref : Refs, watcher : Pids, target : Pids]
    /\ links \subseteq Pids \X Pids
    /\ names \in [Names -> Pids \cup {NoPid}]
    /\ exit \in [Pids -> ExitSigs]
    /\ awaiting \in [Pids -> Refs \cup {NoRef}]
    /\ slots \in [Refs -> Slots]
    /\ deadline \in [Pids -> {"zero", "future", "past"}]
    /\ timers \subseteq Pids
    /\ nextPid \in 1 .. MaxActors
    /\ nextRef \in 0 .. MaxRefs
    /\ outcome \in {"running", "done", "failed", "deadlock"}

\* The queue holds every runnable actor but the running one, once: no
\* order of wakeups (send, down, reply, timer, exit) queues an actor twice
\* or strands it outside the queue.
ReadyOnce ==
    /\ IsInjective(ready)
    /\ ToSet(ready) = {p \in Pids : status[p] = "ready"} \ {active}
    /\ active # NoPid => status[active] = "ready"

\* wakeIfBlocked loses nobody: an actor that is asleep and not in await has
\* nothing to receive.
NoLostWakeup ==
    \A p \in Pids : status[p] = "blocked" /\ awaiting[p] = NoRef
                        => mailbox[p] = <<>> /\ downs[p] = <<>>

\* §12.9: while an actor is in recv, mail wakes it.
RecvWakes ==
    \A p \in Pids : status[p] = "blocked" /\ pc[p] \in {"recv", "after"}
                        => mailbox[p] = <<>> /\ downs[p] = <<>>

\* An actor asleep in await waits for an empty slot, and it or a recv with
\* an after branch has its timer in the heap: neither an answer nor a
\* timeout can pass it by.
SleeperHasTimer ==
    \A p \in Pids : status[p] = "blocked" =>
        /\ pc[p] = "await" => /\ awaiting[p] = aref[p]
                              /\ slots[aref[p]].state = "empty"
                              /\ p \in timers
        /\ pc[p] = "after" => p \in timers

\* §12.7: a signal that waits to be acted upon is not slept over.
SignalAwake == \A p \in Pids : ExitPending(p) => status[p] # "blocked"

\* The dead leave nothing behind: no name, link, timer or watch leads to an
\* actor that is gone from the table.
NoDangling ==
    /\ \A n \in Names : names[n] \in Live \cup {NoPid}
    /\ \A l \in links : l[1] \in Live /\ l[2] \in Live
    /\ \A w \in watches : w.target \in Live
    /\ timers \subseteq Live

\* A ref is pending in at most one place: it watches one actor or stands
\* in one queue of downs, once.
DownOnce ==
    /\ \A v, w \in watches : v.ref = w.ref => v = w
    /\ \A p, q \in Pids : \A i \in DOMAIN downs[p], j \in DOMAIN downs[q] :
           downs[p][i].ref = downs[q][j].ref => p = q /\ i = j
    /\ \A w \in watches, p \in Pids : \A i \in DOMAIN downs[p] :
           downs[p][i].ref # w.ref

Dies(p) == p \in Live /\ status'[p] \in {"done", "failed"}

\* What the watchers of p are told when p dies in this step: it returned,
\* a signal ended it, or an error did.
DeathReason(p) == IF status'[p] = "done" THEN "normal"
                  ELSE IF exit[p].set THEN exit[p].reason ELSE "raise"

\* A watch stands until it is unwatched or its target dies; in that step its
\* watcher, unless it is dead itself, gets the down with that reason.
WatchesStand ==
    \A w \in watches \ watches' :
        \/ Unwatch(w.watcher, w.ref)
        \/ /\ Dies(w.target)
           /\ \/ w.watcher \notin Live \/ Dies(w.watcher)
              \/ [ref |-> w.ref, reason |-> DeathReason(w.target)]
                     \in ToSet(downs'[w.watcher])

\* No other down comes, but :noproc to who watches an actor already dead.
DownsAreTrue ==
    \A p \in Pids : \A d \in ToSet(downs'[p]) :
        \/ d \in ToSet(downs[p])
        \/ \E w \in watches : /\ w.watcher = p /\ Dies(w.target)
                              /\ d = [ref |-> w.ref,
                                      reason |-> DeathReason(w.target)]
        \/ /\ d = [ref |-> nextRef, reason |-> "noproc"]
           /\ \E q \in Pids \ Live : Watch(p, q)

\* Downs stay in their order until recv takes them, or their actor dies.
DownsStay ==
    \A p \in Live :
        \/ Dies(p)
        \/ IsPrefix(downs[p], downs'[p])
        \/ RecvTake(p) /\ downs[p] # <<>> /\ downs'[p] = Tail(downs[p])

\* A ref handed out without a slot stands for a watch or has its answer.
WatchesStart ==
    nextRef' # nextRef /\ slots' = slots =>
        \/ \E w \in watches' : w.ref = nextRef
        \/ \E p \in Pids : \E d \in ToSet(downs'[p]) : d.ref = nextRef

\* watch and spawn_watched answer exactly once, with the reason of the death
\* or :noproc, whatever deaths and unwatches they race with: every watch
\* stands somewhere, leads to its down, and the down waits for its actor.
WatchesAnswered ==
    /\ []DownOnce
    /\ [][WatchesStand /\ DownsAreTrue /\ DownsStay /\ WatchesStart]_vars

\* No linked actor survives its owner unsignalled.
ChildrenFall ==
    [][\A l \in links : Dies(l[1]) => exit'[l[2]].set \/ l[2] \notin Live
      ]_vars

\* §12.7: a signal stands until death: the first reason wins, whatever raises,
\* ensure blocks and signals come after it, and after exit(p, :kill) p executes
\* nothing more, its next step is death.
SignalsStand ==
    [][/\ \A p \in Live : exit[p].set =>
             \/ status'[p] \in {"done", "failed"}
             \/ exit'[p].set /\ exit'[p].reason = exit[p].reason
       /\ \A p \in Pids : exit[p].kill /\ active = p =>
             Dies(p) \/ \E q \in Pids : Tick(q)]_vars

-----------------------------------------------------------------------------
(* Fairness: the loop and the clock do not stop, a suspended opcode is     *)
(* executed again, and a running actor gets to a call again and again,     *)
(* since Brig code repeats only by calls.                                  *)
Resume(p) ==
    pc[p] # "run" /\ (RecvTake(p) \/ \E r \in Refs : Await(p, r, TRUE))

Fairness ==
    /\ WF_vars(Loop)
    /\ \A p \in Pids : /\ WF_vars(Tick(p))
                       /\ WF_vars(ExitStep(p))
                       /\ WF_vars(Resume(p))
                       /\ SF_vars(Call(p))

FairSpec == Spec /\ Fairness

\* A ready actor gets a slice, whatever the others do.
NoStarvation ==
    \A p \in Pids : status[p] = "ready" ~>
        \/ active = p
        \/ status[p] \in {"done", "failed"}
        \/ outcome # "running"

\* A killed actor dies.
KillLands ==
    \A p \in Pids : exit[p].kill ~> (~exit[p].kill \/ outcome # "running")
=============================================================================
