----------------------------- MODULE HttpServer -----------------------------
(* The HTTP port: a listener and the requests it accepts.  The run loop    *)
(* keeps the ports (listener and one per delivered request) and sends      *)
(* commands; net/http runs one goroutine per request, which executes the   *)
(* commands in order, watches its client and the closing of the listener,  *)
(* and answers through the inject queue.  Bodies are one block or more;    *)
(* what is written and which error it was are left out (Ports has the      *)
(* write buffer).                                                          *)
EXTENDS Naturals, Sequences, SequencesExt, FiniteSets

CONSTANTS Actors, Server,   \* the actors; Server opens the listener
          Reqs,             \* requests that clients send
          Slots,            \* requests at a time (httpLimits.requests)
          MaxOps            \* reads and writes of one request

ASSUME HttpBounds == /\ Server \in Actors /\ Slots \in Nat \ {0}
                     /\ MaxOps \in Nat

VARIABLES alive, stage,     \* live actors; "run", "finishing", "over"
          lst,              \* port of the listener
          rp,               \* ports of the requests, and what the owner asked
          inject, batch,    \* events pushed; events the loop has taken
          closing,          \* Scheduler.closing: resources not done
          tr,               \* httpListener
          queue,            \* httpListener.queue
          rq                \* httpReq and its goroutine

loopVars == <<alive, stage, lst, rp, batch>>
vars == <<alive, stage, lst, rp, inject, batch, closing, tr, queue, rq>>

NoPort == [state |-> "none", owner |-> Server, armed |-> FALSE,
           responded |-> FALSE, how |-> "none", ops |-> 0]
\* at: "absent" before ServeHTTP, "top" and "exec" and "select" in serve,
\* "exited" after it.  snap, todo, disc, shut are locals of serve.
NoReq == [at |-> "absent", started |-> FALSE, snap |-> FALSE, gone |-> FALSE,
          disc |-> FALSE, shut |-> FALSE, wake |-> FALSE,
          cmds |-> <<>>, todo |-> <<>>,
          sent |-> FALSE, fail |-> "none", eof |-> FALSE, reply |-> "none"]

Cmds == {"read", "respond", "write", "close", "abort"}
NoOne == "listener"         \* a refusal of the listener concerns no request
Events == [ev : {"request", "data", "eof", "error"}, req : Reqs]
          \cup [ev : {"refused"}, req : {NoOne}]

TypeOK ==
    /\ alive \subseteq Actors /\ stage \in {"run", "finishing", "over"}
    /\ lst \in [open : BOOLEAN, owner : Actors, armed : BOOLEAN]
    /\ rp \in [Reqs -> [state : {"none", "open", "closed"}, owner : Actors,
                        armed : BOOLEAN, responded : BOOLEAN,
                        how : {"none", "close", "abort", "error"},
                        ops : 0 .. MaxOps]]
    /\ inject \in Seq(Events) /\ batch \in Seq(Events) /\ closing \in Nat
    /\ tr \in [bind : {"no", "ok", "bad"}, want : BOOLEAN, closed : BOOLEAN,
               killed : BOOLEAN, down : {"no", "close", "abort", "done"}]
    /\ queue \in Seq(Reqs)
    /\ \A q \in Reqs :
          /\ rq[q].at \in {"absent", "top", "exec", "select", "exited"}
          /\ rq[q].cmds \in Seq(Cmds) /\ rq[q].todo \in Seq(Cmds)
          /\ rq[q].fail \in {"none", "closed", "bad"}
          /\ rq[q].reply \in {"none", "begun", "complete", "cut", "error", "500", "503"}

Init ==
    /\ alive = Actors /\ stage = "run"
    /\ lst = [open |-> TRUE, owner |-> Server, armed |-> FALSE]
    /\ rp = [q \in Reqs |-> NoPort]
    /\ inject = <<>> /\ batch = <<>> /\ closing = 0
    /\ tr = [bind |-> "no", want |-> FALSE, closed |-> FALSE, killed |-> FALSE,
             down |-> "no"]
    /\ queue = <<>>
    /\ rq = [q \in Reqs |-> NoReq]

Emit(ev, q) == inject' = Append(inject, [ev |-> ev, req |-> q])

-----------------------------------------------------------------------------
(* The run loop. *)

Runs(a) == stage = "run" /\ batch = <<>> /\ a \in alive
OpenReq(q) == rp[q].state = "open"
Owns(a, q) == OpenReq(q) /\ rp[q].owner = a

\* httpReq.push: a goroutine that has left takes no commands.
Pushed(r, c) == IF r.at = "exited" THEN r
                ELSE [r EXCEPT !.cmds = Append(@, c), !.wake = TRUE]
Push(q, c) == rq' = [rq EXCEPT ![q] = Pushed(@, c)]

\* Port.request of the listener: Accept.
Accept(a) ==
    /\ Runs(a) /\ lst.open /\ lst.owner = a /\ ~lst.armed
    /\ lst' = [lst EXCEPT !.armed = TRUE]
    /\ \/ /\ tr.bind = "bad"
          /\ Emit("refused", NoOne)
          /\ UNCHANGED <<tr, queue>>
       \/ /\ tr.bind # "bad" /\ queue # <<>>
          /\ Emit("request", Head(queue)) /\ queue' = Tail(queue)
          /\ UNCHANGED tr
       \/ /\ tr.bind # "bad" /\ queue = <<>>
          /\ tr' = [tr EXCEPT !.want = TRUE]
          /\ UNCHANGED <<inject, queue>>
    /\ UNCHANGED <<alive, stage, rp, batch, closing, rq>>

\* Port.request of a request: the next block of its body.
Request(a, q) ==
    /\ Runs(a) /\ Owns(a, q) /\ ~rp[q].armed /\ rp[q].ops < MaxOps
    /\ rp' = [rp EXCEPT ![q].armed = TRUE, ![q].ops = @ + 1]
    /\ Push(q, "read")
    /\ UNCHANGED <<alive, stage, lst, inject, batch, closing, tr, queue>>

\* HttpServer.respond, once.
Respond(a, q) ==
    /\ Runs(a) /\ Owns(a, q) /\ ~rp[q].responded
    /\ rp' = [rp EXCEPT ![q].responded = TRUE]
    /\ Push(q, "respond")
    /\ UNCHANGED <<alive, stage, lst, inject, batch, closing, tr, queue>>

\* Port.write, after respond.
WriteBody(a, q) ==
    /\ Runs(a) /\ Owns(a, q) /\ rp[q].responded /\ rp[q].ops < MaxOps
    /\ rp' = [rp EXCEPT ![q].ops = @ + 1]
    /\ Push(q, "write")
    /\ UNCHANGED <<alive, stage, lst, inject, batch, closing, tr, queue>>

\* Port.give of a request or of the listener.
Give(a, b) ==
    /\ Runs(a) /\ b \in alive \ {a}
    /\ \/ \E q \in Reqs : Owns(a, q) /\ rp' = [rp EXCEPT ![q].owner = b] /\ UNCHANGED lst
       \/ /\ lst.open /\ lst.owner = a
          /\ lst' = [lst EXCEPT !.owner = b] /\ UNCHANGED rp
    /\ UNCHANGED <<alive, stage, inject, batch, closing, tr, queue, rq>>

\* shutPort of the requests Q (how: "close", "abort" or after an "error") and,
\* if listener holds, of the listener.
Shut(Q, how, listener) ==
    LET cmd == IF how = "abort" THEN "abort" ELSE "close"
        late == {q \in Q : rq[q].at = "exited"}
        told == listener /\ lst.open
    IN  /\ rp' = [q \in Reqs |->
                    IF q \in Q THEN [rp[q] EXCEPT !.state = "closed", !.how = how]
                    ELSE rp[q]]
        /\ rq' = [q \in Reqs |-> IF q \in Q THEN Pushed(rq[q], cmd) ELSE rq[q]]
        /\ closing' = closing + Cardinality(Q \ late) + IF told THEN 1 ELSE 0
        /\ IF told
           THEN /\ lst' = [lst EXCEPT !.open = FALSE]
                /\ tr' = [tr EXCEPT !.closed = TRUE, !.want = FALSE, !.down = cmd]
                /\ queue' = <<>>
           ELSE UNCHANGED <<lst, tr, queue>>

\* Port.close.
Close(a) ==
    /\ Runs(a)
    /\ \/ \E q \in Reqs : Owns(a, q) /\ Shut({q}, "close", FALSE)
       \/ lst.open /\ lst.owner = a /\ Shut({}, "close", TRUE)
    /\ UNCHANGED <<alive, stage, inject, batch>>

\* The death of an owner: closeActorPorts.
Die(a) ==
    /\ Runs(a)
    /\ alive' = alive \ {a}
    /\ Shut({q \in Reqs : Owns(a, q)}, "abort", lst.owner = a)
    /\ UNCHANGED <<stage, inject, batch>>

\* The program ends: finishPorts.
Leave ==
    /\ stage = "run" /\ batch = <<>>
    /\ stage' = "finishing"
    /\ Shut({q \in Reqs : OpenReq(q)}, "abort", TRUE)
    /\ UNCHANGED <<alive, inject, batch>>

Over == /\ stage = "finishing" /\ closing = 0
        /\ stage' = "over"
        /\ UNCHANGED <<alive, lst, rp, inject, batch, closing, tr, queue, rq>>

\* drainInject.
Take == /\ stage = "run" /\ batch = <<>> /\ inject # <<>>
        /\ batch' = inject /\ inject' = <<>>
        /\ UNCHANGED <<alive, stage, lst, rp, closing, tr, queue, rq>>

\* httpEvent: the request gets a port and starts, owned by the listener's owner.
Deliver(q) ==
    /\ lst' = [lst EXCEPT !.armed = FALSE]
    /\ rp' = [rp EXCEPT ![q].state = "open", ![q].owner = lst.owner]
    /\ rq' = [rq EXCEPT ![q].started = TRUE, ![q].wake = TRUE]
    /\ UNCHANGED <<closing, tr, queue>>

\* httpEvent, streamEvent: events of closed ports are dropped.
Event(e) ==
    \/ /\ e.ev = "request" /\ lst.open /\ Deliver(e.req)
    \/ /\ e.ev = "refused" /\ lst.open /\ Shut({}, "close", TRUE)
    \/ /\ e.ev \in {"data", "eof"} /\ OpenReq(e.req)
       /\ rp' = [rp EXCEPT ![e.req].armed = FALSE]
       /\ UNCHANGED <<closing, lst, tr, queue, rq>>
    \/ /\ e.ev = "error" /\ OpenReq(e.req)
       /\ Shut({e.req}, "error", FALSE)
    \/ /\ ~IF e.ev \in {"request", "refused"} THEN lst.open ELSE OpenReq(e.req)
       /\ UNCHANGED <<lst, rp, closing, tr, queue, rq>>

Parse == /\ stage = "run" /\ batch # <<>>
         /\ batch' = Tail(batch)
         /\ Event(Head(batch))
         /\ UNCHANGED <<alive, stage, inject>>

-----------------------------------------------------------------------------
(* The listener's goroutines. *)

\* bind: a listener closed meanwhile gives the address back.
Bind ==
    /\ tr.bind = "no"
    /\ \E ok \in BOOLEAN :
          /\ tr' = [tr EXCEPT !.bind = IF ok /\ ~tr.closed THEN "ok" ELSE "bad",
                              !.want = @ /\ ok]
          /\ IF ~ok /\ tr.want THEN Emit("refused", NoOne)
             ELSE UNCHANGED inject
    /\ UNCHANGED <<loopVars, closing, queue, rq>>

Serving == {q \in Reqs : rq[q].at \in {"top", "exec", "select"}}

\* Close and Abort: Shutdown returns when no request is in service.
Shutdown ==
    /\ tr.down \in {"close", "abort"} /\ Serving = {}
    /\ tr' = [tr EXCEPT !.down = "done"]
    /\ closing' = closing - 1
    /\ UNCHANGED <<loopVars, inject, queue, rq>>

\* Abort: the time is over, the connections are closed.
DrainTimeout ==
    /\ tr.down = "abort" /\ Serving # {}
    /\ tr' = [tr EXCEPT !.down = "done", !.killed = TRUE]
    /\ closing' = closing - 1
    /\ UNCHANGED <<loopVars, inject, queue, rq>>

-----------------------------------------------------------------------------
(* The goroutine of a request. *)

\* ServeHTTP: no slot, or the listener is closed: 503.  Else offer.
Serve(q) ==
    /\ rq[q].at = "absent" /\ tr.bind = "ok" /\ tr.down # "done"
    /\ \/ /\ Cardinality(Serving) >= Slots \/ tr.closed
          /\ rq' = [rq EXCEPT ![q].at = "exited", ![q].reply = "503"]
          /\ UNCHANGED <<inject, tr, queue>>
       \/ /\ Cardinality(Serving) < Slots /\ ~tr.closed
          /\ rq' = [rq EXCEPT ![q].at = "top"]
          /\ IF tr.want
             THEN Emit("request", q) /\ tr' = [tr EXCEPT !.want = FALSE] /\ UNCHANGED queue
             ELSE queue' = Append(queue, q) /\ UNCHANGED <<inject, tr>>
    /\ UNCHANGED <<loopVars, closing>>

\* The client disconnects.
ClientGone(q) ==
    /\ q \in Serving /\ ~rq[q].gone
    /\ rq' = [rq EXCEPT ![q].gone = TRUE]
    /\ UNCHANGED <<loopVars, inject, closing, tr, queue>>

\* failWith: one error event; the transport answers if it still can.
Failed(r, reason) ==
    IF r.fail # "none" THEN r
    ELSE [r EXCEPT !.fail = reason,
                   !.reply = IF ~r.sent /\ reason # "closed" THEN "error" ELSE @]
TellFail(q) == IF rq[q].fail # "none" THEN UNCHANGED inject ELSE Emit("error", q)

\* serve, top of the loop: commands are taken under the lock.
Top(q) ==
    /\ rq[q].at = "top"
    /\ LET r == [rq[q] EXCEPT !.at = "exec", !.snap = rq[q].started,
                              !.todo = rq[q].cmds, !.cmds = <<>>]
       IN  IF rq[q].started /\ rq[q].disc
           THEN rq' = [rq EXCEPT ![q] = Failed(r, "closed")] /\ TellFail(q)
           ELSE rq' = [rq EXCEPT ![q] = r] /\ UNCHANGED inject
    /\ UNCHANGED <<loopVars, closing, tr, queue>>

\* Mutant of ExecRead: the last block brings the end with it.
ExecReadBoth(q, r) ==
    \/ r.fail # "none" /\ rq' = [rq EXCEPT ![q] = r] /\ UNCHANGED inject
    \/ /\ r.fail = "none" /\ ~r.eof
       /\ rq' = [rq EXCEPT ![q] = [r EXCEPT !.eof = TRUE]]
       /\ inject' = inject \o <<[ev |-> "data", req |-> q], [ev |-> "eof", req |-> q]>>

\* read: one block, the end (again and again), or an error.
ExecRead(q, r) ==
    \/ r.fail # "none" /\ rq' = [rq EXCEPT ![q] = r] /\ UNCHANGED inject
    \/ /\ r.fail = "none" /\ ~r.eof
       /\ \E last \in BOOLEAN : rq' = [rq EXCEPT ![q] = [r EXCEPT !.eof = last]]
       /\ Emit("data", q)
    \/ /\ r.fail = "none"
       /\ rq' = [rq EXCEPT ![q] = [r EXCEPT !.eof = TRUE]] /\ Emit("eof", q)
    \/ /\ r.fail = "none" /\ ~r.eof
       /\ \E why \in {"closed", "bad"} :
             rq' = [rq EXCEPT ![q] = Failed(r, why)]
       /\ TellFail(q)

ExecRespond(q, r) ==
    /\ rq' = [rq EXCEPT ![q] = IF r.fail # "none" THEN r
                               ELSE [r EXCEPT !.sent = TRUE, !.reply = "begun"]]
    /\ UNCHANGED inject

ExecWrite(q, r) ==
    \/ rq' = [rq EXCEPT ![q] = r] /\ UNCHANGED inject
    \/ /\ r.fail = "none"
       /\ \E why \in {"closed", "bad"} : rq' = [rq EXCEPT ![q] = Failed(r, why)]
       /\ TellFail(q)

\* Mutant of FinalReply: an abort finishes the response.
FinalReplyDone(r, abort) ==
    IF r.reply = "error" \/ (r.fail = "closed" /\ ~r.sent) THEN r.reply
    ELSE IF ~r.sent THEN "500" ELSE IF r.fail # "none" THEN "cut" ELSE "complete"

\* finish and exit: what the client sees in the end; done is called.
FinalReply(r, abort) ==
    IF r.reply = "error" \/ (r.fail = "closed" /\ ~r.sent) THEN r.reply
    ELSE IF ~r.sent THEN "500"
    ELSE IF abort \/ r.fail # "none" THEN "cut" ELSE "complete"

ExecClose(q, r, abort) ==
    /\ rq' = [rq EXCEPT ![q] = [r EXCEPT !.at = "exited",
                                         !.reply = FinalReply(r, abort)]]
    /\ closing' = closing - 1
    /\ UNCHANGED inject

Exec(q) ==
    /\ rq[q].at = "exec" /\ rq[q].todo # <<>>
    /\ LET c == Head(rq[q].todo)
           r == [rq[q] EXCEPT !.todo = Tail(@)]
       IN  \/ c = "read" /\ ExecRead(q, r) /\ UNCHANGED closing
           \/ c = "respond" /\ ExecRespond(q, r) /\ UNCHANGED closing
           \/ c = "write" /\ ExecWrite(q, r) /\ UNCHANGED closing
           \/ c \in {"close", "abort"} /\ ExecClose(q, r, c = "abort")
    /\ UNCHANGED <<loopVars, tr, queue>>

Wait(q) == /\ rq[q].at = "exec" /\ rq[q].todo = <<>>
           /\ rq' = [rq EXCEPT ![q].at = "select"]
           /\ UNCHANGED <<loopVars, inject, closing, tr, queue>>

\* exit: the commands nobody will execute are done.
Exit(q, reply) ==
    /\ rq' = [rq EXCEPT ![q].at = "exited", ![q].reply = reply]
    /\ closing' = closing - Cardinality({i \in DOMAIN rq[q].cmds :
                                            rq[q].cmds[i] \in {"close", "abort"}})

\* The select of serve; which ready case is taken is the runtime's choice.
Wake(q) == /\ rq[q].at = "select" /\ rq[q].wake
           /\ rq' = [rq EXCEPT ![q].wake = FALSE, ![q].at = "top"]
           /\ UNCHANGED <<loopVars, inject, closing, tr, queue>>

SeeGone(q) ==
    /\ rq[q].at = "select" /\ rq[q].gone /\ ~rq[q].disc
    /\ IF ~rq[q].snap /\ q \in Range(queue)
       THEN /\ \E i \in DOMAIN queue : queue[i] = q /\ queue' = RemoveAt(queue, i)
            /\ Exit(q, "none")
       ELSE /\ rq' = [rq EXCEPT ![q].disc = TRUE, ![q].at = "top", ![q].wake = TRUE]
            /\ UNCHANGED <<closing, queue>>
    /\ UNCHANGED <<loopVars, inject, tr>>

SeeShutStays(q) ==
    /\ rq[q].at = "select" /\ tr.closed /\ ~rq[q].shut
    /\ rq' = [rq EXCEPT ![q].shut = TRUE, ![q].at = "top"]
    /\ UNCHANGED <<loopVars, inject, closing, tr, queue>>

SeeShut(q) ==
    /\ rq[q].at = "select" /\ tr.closed /\ ~rq[q].shut
    /\ IF rq[q].started
       THEN /\ rq' = [rq EXCEPT ![q].shut = TRUE, ![q].at = "top"]
            /\ UNCHANGED closing
       ELSE Exit(q, IF rq[q].disc THEN "none" ELSE "503")
    /\ UNCHANGED <<loopVars, inject, tr, queue>>

SeeKill(q) ==
    /\ rq[q].at = "select" /\ tr.killed
    /\ Exit(q, IF rq[q].sent THEN "cut" ELSE rq[q].reply)
    /\ UNCHANGED <<loopVars, inject, tr, queue>>

Go(q) == \/ Top(q) \/ Exec(q) \/ Wait(q) \/ Wake(q)
         \/ SeeGone(q) \/ SeeShut(q) \/ SeeKill(q)

Native(a) ==
    \/ Accept(a) \/ Close(a) \/ Die(a)
    \/ \E b \in Actors : Give(a, b)
    \/ \E q \in Reqs : Request(a, q) \/ Respond(a, q) \/ WriteBody(a, q)

Stopped == stage = "over" /\ UNCHANGED vars

Next == \/ \E a \in Actors : Native(a)
        \/ Take \/ Parse \/ Leave \/ Over \/ Stopped
        \/ Bind \/ Shutdown \/ DrainTimeout
        \/ \E q \in Reqs : Serve(q) \/ ClientGone(q) \/ Go(q)

Spec == Init /\ [][Next]_vars

\* The goroutines run; the clients and the actors do as they like.
FairSpec == /\ Spec
            /\ WF_vars(Take) /\ WF_vars(Parse) /\ WF_vars(Over) /\ WF_vars(Shutdown)
            /\ \A q \in Reqs : WF_vars(Go(q))

-----------------------------------------------------------------------------
(* Properties. *)

Flying(q, evs) == {i \in DOMAIN (batch \o inject) :
                      /\ (batch \o inject)[i].req = q
                      /\ (batch \o inject)[i].ev \in evs}
Reads(q) == LET all == rq[q].todo \o rq[q].cmds
            IN  {i \in DOMAIN all : all[i] = "read"}

\* A Port.request is owed one answer.  Of the listener: it wants a request, or one
\* request or refusal is on its way to the owner.  Of a body that has not failed:
\* one read waits, or its answer is on its way.  Whatever the order of bind, of
\* clients that come and go, and of the loop (docs/01 12.12).
OwesOneAnswer ==
    /\ lst.open => (IF tr.want THEN 1 ELSE 0)
                   + Cardinality({i \in DOMAIN (batch \o inject) :
                                     (batch \o inject)[i].ev \in {"request", "refused"}})
                   = IF lst.armed THEN 1 ELSE 0
    /\ \A q \in Reqs : OpenReq(q) /\ rq[q].fail = "none" /\ rq[q].at # "exited" =>
          Cardinality(Reads(q)) + Cardinality(Flying(q, {"data", "eof"}))
            = IF rp[q].armed THEN 1 ELSE 0

\* What a client is told is true.  A request the program never got is answered
\* 503, however the listener closes while the request waits, is offered or is on
\* its way; only Port.close ends a response as complete, not a death of the owner,
\* an error or the end of the program, also when they race with it (docs/01 12.12).
RepliesAreTrue ==
    \A q \in Reqs :
       /\ rq[q].at = "exited" /\ rp[q].state = "none" /\ ~rq[q].gone /\ ~tr.killed
            => rq[q].reply = "503"
       /\ rq[q].reply = "complete" => rp[q].how = "close" /\ rp[q].responded

\* There is an end of the end.
EndsAll == stage = "finishing" ~> stage = "over"

\* The owner of a request whose goroutine is gone hears of it: the port is
\* closed, or its error is on its way (docs/01 12.12: a disconnected client is
\* a :port_error; a Port.request is answered).
OrphanTold ==
    \A q \in Reqs : stage = "run" /\ OpenReq(q) /\ rq[q].at = "exited"
                       => Flying(q, {"error"}) # {}
=============================================================================
