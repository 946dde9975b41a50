------------------------------- MODULE Ports -------------------------------
(* Ports: the run loop (natives of Port, File and Signal, the death of an  *)
(* owner, the parsing of the inject queue, the end of the program) against *)
(* one goroutine per resource.  The loop alone keeps the state of a port;  *)
(* a resource gets commands that never wait and answers through the inject *)
(* queue.  Actors are only owners here: who is alive, what was delivered.  *)
EXTENDS Naturals, Sequences, SequencesExt, FiniteSets

CONSTANTS Actors,           \* main is one of them
          Main,
          MaxPorts,         \* ports opened in a run
          Kinds,            \* kinds a run opens: "read", "write", "signal"
          HWM,              \* streamHWM, in units of the sizes below
          Sizes,            \* sizes of one Port.write
          MaxRequests,      \* requests of a port
          MaxWrites,        \* accepted writes of a port
          MaxSignals        \* signals the system sends

ASSUME PortBounds == /\ Main \in Actors /\ MaxPorts \in Nat
                     /\ Kinds \subseteq {"read", "write", "signal"}
                     /\ HWM \in Nat \ {0} /\ Sizes \subseteq Nat \ {0}
                     /\ MaxRequests \in Nat /\ MaxWrites \in Nat
                     /\ MaxSignals \in Nat

VARIABLES alive,            \* actors that live
          owned,            \* Actor.ports
          port,             \* the port table: openPort, streamPort
          asked,            \* history: requests that armed the port
          accepted,         \* history: sizes of the writes answered Ok
          inject, batch,    \* injectQueue.evs; events drainInject has taken
          res,              \* osStream, and where its goroutine is
          file,             \* what the system has written
          got,              \* history: events delivered to each actor
          signals,          \* signals sent so far
          stage             \* "run", "finishing" (finishPorts), "over"

portVars == <<owned, port, asked, accepted>>
resVars  == <<res, file>>
vars == <<alive, portVars, inject, batch, resVars, got, signals, stage>>

PortIds == 1 .. MaxPorts

NoPort == [state |-> "none", kind |-> "read", owner |-> Main,
           armed |-> FALSE, pending |-> 0, promise |-> FALSE]
\* osStream: at is "opening", then "wait" in next, "busy" with the first
\* operation, or "gone"; err is what the goroutine has not said yet.
NoRes == [at |-> "none", ops |-> <<>>, failed |-> FALSE, err |-> FALSE,
          closing |-> FALSE]

Ops == {[read |-> TRUE, size |-> 0]} \cup [read : {FALSE}, size : Sizes]
Events == [port : PortIds, ev : {"data", "eof", "error", "written", "signal"},
           size : Sizes \cup {0}]

TypeOK ==
    /\ alive \subseteq Actors
    /\ owned \in [Actors -> SUBSET PortIds]
    /\ \A p \in PortIds :
          /\ port[p].state \in {"none", "open", "closed"}
          /\ port[p].kind \in Kinds \cup {"read"} /\ port[p].owner \in Actors
          /\ port[p].armed \in BOOLEAN /\ port[p].promise \in BOOLEAN
          /\ port[p].pending \in Nat
          /\ res[p].at \in {"none", "opening", "wait", "busy", "gone"}
          /\ res[p].ops \in Seq(Ops)
          /\ res[p].failed \in BOOLEAN /\ res[p].err \in BOOLEAN
          /\ res[p].closing \in BOOLEAN
          /\ accepted[p] \in Seq(Sizes) /\ file[p] \in Seq(Sizes)
          /\ asked[p] \in 0 .. MaxRequests
    /\ inject \in Seq(Events) /\ batch \in Seq(Events)
    /\ got \in [Actors -> Seq([port : PortIds, ev : {"data", "eof", "error",
                                                     "ready", "signal"}])]
    /\ signals \in 0 .. MaxSignals
    /\ stage \in {"run", "finishing", "over"}

Init ==
    /\ alive = Actors /\ owned = [a \in Actors |-> {}]
    /\ port = [p \in PortIds |-> NoPort] /\ res = [p \in PortIds |-> NoRes]
    /\ asked = [p \in PortIds |-> 0] /\ accepted = [p \in PortIds |-> <<>>]
    /\ file = [p \in PortIds |-> <<>>]
    /\ inject = <<>> /\ batch = <<>>
    /\ got = [a \in Actors |-> <<>>]
    /\ signals = 0 /\ stage = "run"

-----------------------------------------------------------------------------
(* Natives.  An actor runs when the loop is not parsing events. *)

Runs(a) == stage = "run" /\ batch = <<>> /\ a \in alive
Open(p) == port[p].state = "open"
Owns(a, p) == Open(p) /\ port[p].owner = a
Stream(p) == port[p].kind # "signal"

\* addPort, newStreamPort, newPort: File.open and Signal.subscribe.
OpenPort(a, kind) ==
    /\ Runs(a)
    /\ \E p \in PortIds :
          /\ port[p].state = "none"
          /\ \A q \in 1 .. p - 1 : port[q].state # "none"
          /\ port' = [port EXCEPT ![p] = [NoPort EXCEPT !.state = "open",
                                          !.kind = kind, !.owner = a]]
          /\ owned' = [owned EXCEPT ![a] = @ \cup {p}]
          /\ res' = IF kind = "signal" THEN res
                    ELSE [res EXCEPT ![p].at = "opening"]
    /\ UNCHANGED <<alive, asked, accepted, inject, batch, file, got, signals, stage>>

\* Mutant of Request: the flag of the request is not looked at.
RequestAgain(a, p) ==
    /\ Runs(a) /\ Owns(a, p) /\ port[p].kind = "read" /\ asked[p] < MaxRequests
    /\ port' = [port EXCEPT ![p].armed = TRUE]
    /\ asked' = [asked EXCEPT ![p] = @ + 1]
    /\ res' = [res EXCEPT ![p].ops = Append(@, [read |-> TRUE, size |-> 0])]
    /\ UNCHANGED <<alive, owned, accepted, inject, batch, file, got, signals, stage>>

\* Port.request: a second one before the answer asks for nothing.
Request(a, p) ==
    /\ Runs(a) /\ Owns(a, p) /\ port[p].kind = "read" /\ asked[p] < MaxRequests
    /\ ~port[p].armed
    /\ port' = [port EXCEPT ![p].armed = TRUE]
    /\ asked' = [asked EXCEPT ![p] = @ + 1]
    /\ res' = [res EXCEPT ![p].ops = Append(@, [read |-> TRUE, size |-> 0])]
    /\ UNCHANGED <<alive, owned, accepted, inject, batch, file, got, signals, stage>>

\* Port.write: a full buffer refuses, and promises to tell when it is not.
WritePort(a, p, n) ==
    /\ Runs(a) /\ Owns(a, p) /\ port[p].kind = "write"
    /\ \/ /\ port[p].pending >= HWM /\ ~port[p].promise
          /\ port' = [port EXCEPT ![p].promise = TRUE]
          /\ UNCHANGED <<accepted, res>>
       \/ /\ port[p].pending < HWM /\ Len(accepted[p]) < MaxWrites
          /\ port' = [port EXCEPT ![p].pending = @ + n]
          /\ accepted' = [accepted EXCEPT ![p] = Append(@, n)]
          /\ res' = [res EXCEPT ![p].ops = Append(@, [read |-> FALSE, size |-> n])]
    /\ UNCHANGED <<alive, owned, asked, inject, batch, file, got, signals, stage>>

\* Mutant of Give: the lists of ports of the two actors stay as they are.
GiveOwner(a, p, b) ==
    /\ Runs(a) /\ Owns(a, p) /\ b \in alive /\ b # a
    /\ port' = [port EXCEPT ![p].owner = b]
    /\ UNCHANGED <<alive, owned, asked, accepted, inject, batch, resVars, got, signals, stage>>

\* Port.give to a live actor.
Give(a, p, b) ==
    /\ Runs(a) /\ Owns(a, p) /\ b \in alive /\ b # a
    /\ owned' = [owned EXCEPT ![a] = @ \ {p}, ![b] = @ \cup {p}]
    /\ port' = [port EXCEPT ![p].owner = b]
    /\ UNCHANGED <<alive, asked, accepted, inject, batch, resVars, got, signals, stage>>

\* Mutant of Shut: a subscription is waited for like a stream.
ShutAll(P) ==
    LET Q == {p \in P : Open(p)}
    IN  /\ port' = [p \in PortIds |->
                      IF p \in Q THEN [port[p] EXCEPT !.state = "closed"] ELSE port[p]]
        /\ owned' = [a \in Actors |-> owned[a] \ {p \in Q : port[p].owner = a}]
        /\ res' = [p \in PortIds |->
                     IF p \in Q THEN [res[p] EXCEPT !.closing = TRUE] ELSE res[p]]

\* shutPort of the ports of P: the table forgets them, their resources are
\* told to close.
Shut(P) ==
    LET Q == {p \in P : Open(p)}
    IN  /\ port' = [p \in PortIds |->
                      IF p \in Q THEN [port[p] EXCEPT !.state = "closed"] ELSE port[p]]
        /\ owned' = [a \in Actors |-> owned[a] \ {p \in Q : port[p].owner = a}]
        /\ res' = [p \in PortIds |->
                     IF p \in Q /\ Stream(p) THEN [res[p] EXCEPT !.closing = TRUE]
                     ELSE res[p]]

\* Port.close.
ClosePort(a, p) ==
    /\ Runs(a) /\ Owns(a, p)
    /\ Shut({p})
    /\ UNCHANGED <<alive, asked, accepted, inject, batch, file, got, signals, stage>>

\* The actor ends, fails or is killed: closeActorPorts.
Die(a) ==
    /\ Runs(a)
    /\ alive' = alive \ {a}
    /\ Shut(owned[a])
    /\ UNCHANGED <<asked, accepted, inject, batch, file, got, signals, stage>>

-----------------------------------------------------------------------------
(* drainInject. *)

Take == /\ stage = "run" /\ batch = <<>> /\ inject # <<>>
        /\ batch' = inject /\ inject' = <<>>
        /\ UNCHANGED <<alive, portVars, resVars, got, signals, stage>>

\* deliver: the owner at this moment gets the event, past the mailbox limit.
Deliver(p, ev) ==
    got' = IF port[p].owner \in alive
           THEN [got EXCEPT ![port[p].owner] = Append(@, [port |-> p, ev |-> ev])]
           ELSE got

\* Mutant of Event: the promise outlives the message.
EventPromise(e) ==
    LET p == e.port
        left == port[p].pending - e.size
    IN  \/ /\ e.ev \in {"error", "eof"}
           /\ Deliver(p, e.ev) /\ Shut({p})
        \/ /\ e.ev = "data"
           /\ port' = [port EXCEPT ![p].armed = FALSE]
           /\ Deliver(p, "data") /\ UNCHANGED <<owned, res>>
        \/ /\ e.ev = "written"
           /\ port' = [port EXCEPT ![p].pending = left]
           /\ IF port[p].promise /\ left < HWM THEN Deliver(p, "ready") ELSE UNCHANGED got
           /\ UNCHANGED <<owned, res>>
        \/ /\ e.ev = "signal"
           /\ Deliver(p, "signal") /\ UNCHANGED <<port, owned, res>>

\* The event of an open port (streamEvent, or the message of a signal).
Event(e) ==
    LET p == e.port
        left == port[p].pending - e.size
    IN  \/ /\ e.ev \in {"error", "eof"}
           /\ Deliver(p, e.ev) /\ Shut({p})
        \/ /\ e.ev = "data"
           /\ port' = [port EXCEPT ![p].armed = FALSE]
           /\ Deliver(p, "data") /\ UNCHANGED <<owned, res>>
        \/ /\ e.ev = "written"
           /\ IF port[p].promise /\ left < HWM
              THEN /\ port' = [port EXCEPT ![p].pending = left, ![p].promise = FALSE]
                   /\ Deliver(p, "ready")
              ELSE /\ port' = [port EXCEPT ![p].pending = left]
                   /\ UNCHANGED got
           /\ UNCHANGED <<owned, res>>
        \/ /\ e.ev = "signal"
           /\ Deliver(p, "signal") /\ UNCHANGED <<port, owned, res>>

\* Mutant of Parse: the state of the port is not looked at.
ParseAny == /\ stage = "run" /\ batch # <<>>
            /\ batch' = Tail(batch)
            /\ Event(Head(batch))
            /\ UNCHANGED <<alive, asked, accepted, inject, file, signals, stage>>

\* The event of a closed port is dropped.
Parse == /\ stage = "run" /\ batch # <<>>
         /\ batch' = Tail(batch)
         /\ \/ Open(Head(batch).port) /\ Event(Head(batch))
            \/ ~Open(Head(batch).port) /\ UNCHANGED <<port, owned, res, got>>
         /\ UNCHANGED <<alive, asked, accepted, inject, file, signals, stage>>

-----------------------------------------------------------------------------
(* The end of the program. *)

\* Mutant of Live: unwritten data counts only when a writer waits for room.
LivePromised(p) ==
    Open(p) /\ (port[p].kind = "signal" \/ port[p].armed \/ port[p].promise)

\* openPort.live: an event may still come.
Live(p) == Open(p) /\ (port[p].kind = "signal" \/ port[p].armed \/ port[p].pending > 0)

\* runMain leaves: main is done and no port is open, or nothing can come any
\* more (all wait), or Sys.halt or a failed main (any moment between events).
\* finishPorts then closes what is open.
Leave == /\ stage = "run" /\ batch = <<>>
         /\ stage' = "finishing"
         /\ Shut(PortIds)
         /\ UNCHANGED <<alive, asked, accepted, inject, batch, file, got, signals>>

\* closing.Wait: every resource that was told to close has called done.
Over == /\ stage = "finishing"
        /\ \A p \in PortIds : res[p].closing => res[p].at = "gone"
        /\ stage' = "over"
        /\ UNCHANGED <<alive, portVars, inject, batch, resVars, got, signals>>

-----------------------------------------------------------------------------
(* The goroutine of a file. *)

Emit(p, ev, n) == inject' = Append(inject, [port |-> p, ev |-> ev, size |-> n])

GoUnchanged == UNCHANGED <<alive, portVars, batch, got, signals, stage>>

\* os.OpenFile, outside the loop.
OpenFile(p) ==
    /\ res[p].at = "opening"
    /\ \E bad \in BOOLEAN :
          res' = [res EXCEPT ![p].at = "wait", ![p].failed = bad, ![p].err = bad]
    /\ UNCHANGED <<inject, file>> /\ GoUnchanged

\* next: an operation is taken, also from a closed port.
NextOp(p) ==
    /\ res[p].at = "wait" /\ res[p].ops # <<>> /\ ~res[p].failed
    /\ res' = [res EXCEPT ![p].at = "busy"]
    /\ UNCHANGED <<inject, file>> /\ GoUnchanged

\* Mutant of DropOp: the error of opening the file is kept for a write.
DropOpSilent(p) ==
    /\ res[p].at = "wait" /\ res[p].ops # <<>> /\ res[p].failed
    /\ res' = [res EXCEPT ![p].ops = Tail(@), ![p].err = FALSE]
    /\ IF res[p].err /\ ~Head(res[p].ops).read THEN Emit(p, "error", 0)
       ELSE UNCHANGED inject
    /\ UNCHANGED file /\ GoUnchanged

\* A failed resource takes operations off and says its error once.
DropOp(p) ==
    /\ res[p].at = "wait" /\ res[p].ops # <<>> /\ res[p].failed
    /\ res' = [res EXCEPT ![p].ops = Tail(@), ![p].err = FALSE]
    /\ IF res[p].err THEN Emit(p, "error", 0) ELSE UNCHANGED inject
    /\ UNCHANGED file /\ GoUnchanged

\* The operation is done: one event for a read, Written or an error for a
\* write.  A failed write may have written nothing or a part (not counted).
DoOp(p) ==
    /\ res[p].at = "busy"
    /\ LET op == Head(res[p].ops)
           rest == [res[p] EXCEPT !.at = "wait", !.ops = Tail(@)]
       IN  \/ /\ op.read
              /\ \E ev \in {"data", "eof"} : Emit(p, ev, 0)
              /\ res' = [res EXCEPT ![p] = rest] /\ UNCHANGED file
           \/ /\ ~op.read
              /\ Emit(p, "written", op.size)
              /\ file' = [file EXCEPT ![p] = Append(@, op.size)]
              /\ res' = [res EXCEPT ![p] = rest]
           \/ /\ Emit(p, "error", 0)
              /\ res' = [res EXCEPT ![p] = [rest EXCEPT !.failed = TRUE]]
              /\ UNCHANGED file
    /\ GoUnchanged

\* Mutant of CloseFile: closing does not wait for the operations accepted.
CloseFileNow(p) ==
    /\ res[p].at = "wait" /\ res[p].closing
    /\ res' = [res EXCEPT ![p].at = "gone"]
    /\ UNCHANGED <<inject, file>> /\ GoUnchanged

\* The queue is empty and Close was called: the file is closed, done is called.
CloseFile(p) ==
    /\ res[p].at = "wait" /\ res[p].ops = <<>> /\ res[p].closing
    /\ res' = [res EXCEPT ![p].at = "gone"]
    /\ UNCHANGED <<inject, file>> /\ GoUnchanged

\* A signal of the system reaches every subscription; also one being closed.
Signal(p) ==
    /\ port[p].kind = "signal" /\ port[p].state # "none" /\ signals < MaxSignals
    /\ Emit(p, "signal", 0)
    /\ signals' = signals + 1
    /\ UNCHANGED <<alive, portVars, batch, resVars, got, stage>>

Go(p) == OpenFile(p) \/ NextOp(p) \/ DropOp(p) \/ DoOp(p) \/ CloseFile(p)

Native(a) ==
    \/ \E k \in Kinds : OpenPort(a, k)
    \/ \E p \in PortIds : \/ Request(a, p) \/ ClosePort(a, p)
                          \/ \E n \in Sizes : WritePort(a, p, n)
                          \/ \E b \in Actors : Give(a, p, b)
    \/ Die(a)

Stopped == stage = "over" /\ UNCHANGED vars

Next == \/ \E a \in Actors : Native(a)
        \/ Take \/ Parse \/ Leave \/ Over \/ Stopped
        \/ \E p \in PortIds : Go(p) \/ Signal(p)

Spec == Init /\ [][Next]_vars

\* The loop parses events, and the system answers the operations of a file.
FairSpec == /\ Spec
            /\ WF_vars(Take) /\ WF_vars(Parse) /\ WF_vars(Over)
            /\ \A p \in PortIds : WF_vars(Go(p))

-----------------------------------------------------------------------------
(* Properties. *)

InFlight(p, evs) == {i \in DOMAIN (batch \o inject) :
                        /\ (batch \o inject)[i].port = p
                        /\ (batch \o inject)[i].ev \in evs}
Queued(p, read) == {i \in DOMAIN res[p].ops : res[p].ops[i].read = read}

\* A request is on its way exactly while the port is armed: as an operation of
\* the goroutine or as the one event that answers it; never two, and never none
\* (docs/01 12.12: one request gives exactly one event).
OneAnswerPerRequest ==
    \A p \in PortIds : Open(p) /\ port[p].kind = "read" =>
        Cardinality(Queued(p, TRUE)) + Cardinality(InFlight(p, {"data", "eof", "error"}))
          = IF port[p].armed THEN 1 ELSE 0

\* A refused writer is told: the promise stands only while the buffer is full.
PromiseMeansFull ==
    \A p \in PortIds : Open(p) /\ port[p].promise => port[p].pending >= HWM

\* While an open port has work or an event under way, the loop waits for it: it
\* never takes the program for finished or deadlocked.
LiveWhileOwed ==
    \A p \in PortIds :
        Open(p) /\ (res[p].ops # <<>> \/ InFlight(p, {"data", "eof", "error", "written"}) # {})
          => Live(p)

\* An open port has a live owner that will close it when it dies.
PortsOfTheLiving ==
    \A p \in PortIds : Open(p) => /\ port[p].owner \in alive
                                  /\ \A a \in Actors : p \in owned[a] <=> a = port[p].owner

\* An event reaches the actor that owns the port when it is delivered, and none
\* once the port is closed, although the goroutine had sent it before.
ClosedIsSilent ==
    [][\A a \in Actors : got'[a] # got[a] =>
          \E p \in PortIds : /\ Owns(a, p)
                             /\ Last(got'[a]).port = p /\ Front(got'[a]) = got[a]]_vars

\* What Port.write answered Ok is written in order, and all of it before the
\* program is over, whoever owned or closed the port and however it ended
\* (unless the resource failed).
AcceptedIsWritten ==
    \A p \in PortIds :
        /\ IsPrefix(file[p], accepted[p])
        /\ stage = "over" /\ ~res[p].failed => file[p] = accepted[p]

\* A request is answered, and a refused writer hears that there is room, or the
\* port or the program ends.
OwedIsAnswered ==
    \A p \in PortIds : /\ port[p].armed ~> (~port[p].armed \/ ~Open(p))
                       /\ port[p].promise ~> (~port[p].promise \/ ~Open(p))

\* The program does not hang in its end.
EndsAll == stage = "finishing" ~> stage = "over"
=============================================================================
