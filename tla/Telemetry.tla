------------------------------ MODULE Telemetry ------------------------------
(* vm/telemetry.go: the subscriptions, the delivery frames on the emitting    *)
(* actor and the queue that a service actor serves for the events of the dead *)
(* and of timers.  E stands for an actor of the program, T for the service    *)
(* actor.  A path is its kind, a prefix the set of the kinds it matches.      *)
EXTENDS Naturals, Sequences, FiniteSets, SequencesExt

CONSTANTS Ids, PathPrefixes,              \* of attach
          MaxAttach, MaxEvents, MaxDepth, MaxKills   \* bounds

Inline == {"app", "fail", "spawn", "hwm", "send", "recv"}
Queued == {"crash", "down", "hwm"}

VARIABLES tele,     \* Scheduler.tele: [id, prefix, inst], in attach order
          insts,    \* attaches so far: the name of a subscription
          stack,    \* teleRun frames of E and T
          queue,    \* Scheduler.teleQ
          service,  \* the service actor: none, ready, blocked
          refused,  \* history: the last step was a refused send of E
          events, kills

vars == <<tele, insts, stack, queue, service, refused, events, kills>>
Hosts == {"E", "T"}

Init ==
    /\ tele = <<>> /\ insts = 0 /\ stack = [x \in Hosts |-> <<>>]
    /\ queue = <<>> /\ service = "none" /\ refused = FALSE
    /\ events = 0 /\ kills = 0

\* ---- subscriptions ----

\* teleWant, and matchHandlers: the handlers of an event, fixed as its delivery
\* begins.
Matched(kind) == SelectSeq(tele, LAMBDA s : kind \in s.prefix)
Wants(kind) == Matched(kind) # <<>>
Delivery(kind) == [kind |-> kind, todo |-> Matched(kind), cur |-> "none", body |-> FALSE]
LoopFrame == [kind |-> "loop", todo |-> <<>>, cur |-> "none", body |-> FALSE]

Without(id) == SelectSeq(tele, LAMBDA s : s.id # id)

\* ---- frames ----

Top(x) == Last(stack[x])
SetTop(x, f) == [stack EXCEPT ![x] = Append(Front(@), f)]
Push(x, f) == [stack EXCEPT ![x] = Append(@, f)]

\* An actor may run code: E its own or a handler, T only handlers.
InBody(x) == IF stack[x] = <<>> THEN x = "E" ELSE Top(x).body
Runs(x) == x = "E" \/ service = "ready"
InTelemetry(x) == stack[x] # <<>>

\* Mutant of Began: the service actor is made, and a sleeping one not woken.
BeganAsleep == IF service = "none" THEN "ready" ELSE service
\* ensureTeleActor and wakeIfBlocked of teleEnqueue.
Began == "ready"

Wanted(kind) == IF Wants(kind) THEN <<kind>> ELSE <<>>

Enqueue(wanted) ==
    IF wanted = <<>> THEN UNCHANGED <<queue, service, stack>>
    ELSE /\ queue' = queue \o wanted
         /\ service' = Began
         /\ stack' = IF service = "none" THEN [stack EXCEPT !["T"] = <<LoopFrame>>]
                     ELSE stack

\* teleRun.resume: the next handler, the next event of the queue, or the end.
Resume(x) ==
    /\ Runs(x) /\ stack[x] # <<>> /\ ~Top(x).body
    /\ LET f == Top(x)
       IN  \/ /\ f.todo # <<>>
              /\ stack' = SetTop(x, [f EXCEPT !.cur = Head(f.todo).id, !.todo = Tail(@),
                                             !.body = TRUE])
              /\ UNCHANGED <<queue, service>>
           \/ /\ f.todo = <<>> /\ f.kind # "loop"
              /\ stack' = [stack EXCEPT ![x] = Front(@)]
              /\ UNCHANGED <<queue, service>>
           \/ /\ f.todo = <<>> /\ f.kind = "loop" /\ queue = <<>>
              /\ service' = "blocked" /\ UNCHANGED <<queue, stack>>
           \/ /\ f.todo = <<>> /\ f.kind = "loop" /\ queue # <<>>
              /\ stack' = SetTop(x, [f EXCEPT !.todo = Matched(Head(queue))])
              /\ queue' = Tail(queue) /\ UNCHANGED service
    /\ refused' = FALSE
    /\ UNCHANGED <<tele, insts, events, kills>>

\* ---- what a handler, or the program, does ----

HandlerReturns(x) ==
    /\ Runs(x) /\ stack[x] # <<>> /\ InBody(x)
    /\ stack' = SetTop(x, [Top(x) EXCEPT !.body = FALSE])
    /\ refused' = FALSE
    /\ UNCHANGED <<tele, insts, queue, service, events, kills>>

\* Mutant of Caught: the delivery ends with the handler that raised.
CaughtAll(x) == [Top(x) EXCEPT !.body = FALSE, !.todo = <<>>]
Caught(x) == [Top(x) EXCEPT !.body = FALSE]

\* catchTele: the subscription is gone, its failure is told to those who want it
\* in a nested frame, the delivery goes on with the next handler.
HandlerRaises(x) ==
    /\ Runs(x) /\ stack[x] # <<>> /\ InBody(x)
    /\ tele' = Without(Top(x).cur)
    /\ LET s == SetTop(x, Caught(x))
           told == SelectSeq(tele', LAMBDA h : "fail" \in h.prefix)
       IN  IF told = <<>> THEN stack' = s
           ELSE /\ Len(stack[x]) < MaxDepth
                /\ stack' = [s EXCEPT ![x] = Append(@,
                     [kind |-> "fail", todo |-> told, cur |-> "none", body |-> FALSE])]
    /\ refused' = FALSE
    /\ UNCHANGED <<insts, queue, service, events, kills>>

\* teleAttach: a used id keeps its subscription.
Attach(x, id, p) ==
    /\ Runs(x) /\ InBody(x) /\ insts < MaxAttach
    /\ \A i \in DOMAIN tele : tele[i].id # id
    /\ tele' = Append(tele, [id |-> id, prefix |-> p, inst |-> insts + 1])
    /\ insts' = insts + 1 /\ refused' = FALSE
    /\ UNCHANGED <<stack, queue, service, events, kills>>

Detach(x, id) ==
    /\ Runs(x) /\ InBody(x)
    /\ tele' = Without(id) /\ refused' = FALSE
    /\ UNCHANGED <<insts, stack, queue, service, events, kills>>

\* beginEmit, and [:vm, :spawn] of teleInlineSpawn.
Emit(x, kind) ==
    /\ Runs(x) /\ InBody(x) /\ events < MaxEvents
    /\ IF Wants(kind)
       THEN Len(stack[x]) < MaxDepth /\ stack' = Push(x, Delivery(kind))
       ELSE UNCHANGED stack
    /\ events' = events + 1 /\ refused' = FALSE
    /\ UNCHANGED <<tele, insts, queue, service, kills>>

\* teleInlineSend and teleInlineRecv ask inTelemetry of the frames as they are.
Quiet(frames) == frames # <<>>

MessageFrame(frames, kind) ==
    IF Wants(kind) /\ ~Quiet(frames) THEN Append(frames, Delivery(kind)) ELSE frames

\* execFrame SEND: the frame of a refused send's :hwm is pushed first, to be
\* delivered after :send.
Send(x, busy) ==
    /\ Runs(x) /\ InBody(x) /\ events < MaxEvents
    /\ LET hwm == IF busy /\ Wants("hwm") THEN Append(stack[x], Delivery("hwm"))
                  ELSE stack[x]
       IN  stack' = [stack EXCEPT ![x] = MessageFrame(hwm, "send")]
    /\ Len(stack'[x]) <= MaxDepth
    /\ refused' = (busy /\ stack[x] = <<>>)
    /\ events' = events + 1
    /\ UNCHANGED <<tele, insts, queue, service, kills>>

\* execFrame RECVTAKE.
Recv(x) ==
    /\ Runs(x) /\ InBody(x) /\ events < MaxEvents
    /\ stack' = [stack EXCEPT ![x] = MessageFrame(stack[x], "recv")]
    /\ Len(stack'[x]) <= MaxDepth
    /\ events' = events + 1 /\ refused' = FALSE
    /\ UNCHANGED <<tele, insts, queue, service, kills>>

\* ---- deaths ----

\* teleOnDeath of an actor that is not T, and teleTimerHWM.
Death ==
    /\ events < MaxEvents
    /\ \E wanted \in {Wanted("crash") \o Wanted("down"), Wanted("down"), Wanted("hwm")} :
          Enqueue(wanted)
    /\ events' = events + 1 /\ refused' = FALSE
    /\ UNCHANGED <<tele, insts, kills>>

\* E dies in its own code or in a handler, and another takes its name here.
EDies ==
    /\ events < MaxEvents
    /\ LET s == [stack EXCEPT !["E"] = <<>>]
       IN  IF Wants("down")
           THEN /\ queue' = Append(queue, "down") /\ service' = Began
                /\ stack' = IF service = "none" THEN [s EXCEPT !["T"] = <<LoopFrame>>] ELSE s
           ELSE stack' = s /\ UNCHANGED <<queue, service>>
    /\ events' = events + 1 /\ refused' = FALSE
    /\ UNCHANGED <<tele, insts, kills>>

Heir == "ready"

\* The service actor dies (an exit, or a handler that kills it): a successor
\* takes the queue, which is dropped when nobody subscribes.
ServiceDies ==
    /\ service # "none" /\ kills < MaxKills
    /\ LET heir == tele # <<>> /\ queue # <<>>
       IN  /\ queue' = IF tele = <<>> THEN <<>> ELSE queue
           /\ service' = IF heir THEN Heir ELSE "none"
           /\ stack' = [stack EXCEPT !["T"] = IF heir THEN <<LoopFrame>> ELSE <<>>]
    /\ kills' = kills + 1 /\ refused' = FALSE
    /\ UNCHANGED <<tele, insts, events>>

Rest == UNCHANGED vars

Next ==
    \/ \E x \in Hosts :
          \/ Resume(x) \/ HandlerReturns(x) \/ HandlerRaises(x) \/ Recv(x)
          \/ \E id \in Ids : Detach(x, id) \/ \E p \in PathPrefixes : Attach(x, id, p)
          \/ \E kind \in {"app", "spawn"} : Emit(x, kind)
          \/ \E busy \in BOOLEAN : Send(x, busy)
    \/ Death \/ EDies \/ ServiceDies \/ Rest

Spec == Init /\ [][Next]_vars

-----------------------------------------------------------------------------
\* Ids are unique: attach never doubles a subscription.
TypeOK ==
    /\ \A i, j \in DOMAIN tele : tele[i].id = tele[j].id => i = j
    /\ queue \in Seq(Queued) /\ service \in {"none", "ready", "blocked"}
    /\ stack["T"] = <<>> <=> service = "none"

\* An event in the queue has a service actor that is awake for it, whoever
\* killed the one before.
QueueIsServed == queue # <<>> => service = "ready"

\* A handler that raises, detaches or attaches, or an actor that does not
\* deliver and dies, costs no other handler an event whose delivery has begun:
\* the handlers fixed at its start are called or still to be called.  The death
\* of the actor that delivers is the exception: it ends its deliveries.
DeliveryStep ==
    \A x \in Hosts : \A i \in DOMAIN stack[x] :
        LET f == stack[x][i]
        IN  \/ f.todo = <<>>
            \/ /\ i \in DOMAIN stack'[x]
               /\ \/ stack'[x][i].todo = f.todo
                  \/ stack'[x][i].todo = Tail(f.todo) /\ stack'[x][i].cur = Head(f.todo).id
            \/ x = "E" /\ EDies
            \/ x = "T" /\ ServiceDies

\* A waiting event keeps its place, whoever dies, until the service actor begins
\* its delivery to all that match it; it is dropped only when the service actor
\* dies and nobody subscribes.
QueueStep ==
    \/ IsPrefix(queue, queue')
    \/ /\ queue # <<>> /\ queue' = Tail(queue) /\ stack'["T"] # <<>>
       /\ Last(stack'["T"]).todo = Matched(Head(queue))
    \/ tele = <<>> /\ ServiceDies

\* Waiting events are delivered, and a delivery goes on over its handlers.
DeliveryGoesOn == []QueueIsServed /\ [][DeliveryStep /\ QueueStep]_vars

\* docs/01:2358, 2361: a send refused by the limit emits [:vm, :message, :send]
\* too, before [:vm, :mailbox, :hwm].
RefusedSendIsTold ==
    refused /\ Wants("send") => \E i \in DOMAIN stack["E"] : stack["E"][i].kind = "send"
=============================================================================
