------------------------------- MODULE Timers -------------------------------
(* The timers of vm/scheduler.go: one binary heap for recv .. after, await and *)
(* Timer.send_after, with the place of each entry kept in it and its actor.    *)
EXTENDS Naturals, Sequences, FiniteSets, SequencesExt

CONSTANTS Actors, MaxSends, MaxArmings, MaxNow, Waits  \* bounds; Waits of a timer

Refs == 1 .. MaxSends
TimerIds == Actors \cup Refs              \* an entry: the timer of an actor, a send_after
NoDeadline == MaxNow + 100           \* time.Time{}

\* An actor is not a number; waits are.
ConstantsOK == Actors \cap Refs = {} /\ MaxSends \in Nat /\ Waits \subseteq Nat

VARIABLES heap,      \* Scheduler.timers
          pos,       \* timerEntry.pos, Actor.timerPos: 0 when not in the heap
          dl, sq,    \* timerEntry.deadline, seq
          sends,     \* Scheduler.sends
          nextRef, nextSeq,
          status,    \* Actor.status: ready (or running), blocked, dead
          deadline,  \* Actor.recvDeadline
          box,       \* messages in the mailbox
          to,        \* timerEntry.pid
          now, served

vars == <<heap, pos, dl, sq, sends, nextRef, nextSeq, status, deadline, box, to, now, served>>
heapVars == <<heap, pos, dl, sq, sends>>
actorVars == <<status, deadline, box>>
sendVars == <<nextRef, to>>

Init ==
    /\ heap = <<>> /\ pos = [i \in TimerIds |-> 0]
    /\ dl = [i \in TimerIds |-> 0] /\ sq = [i \in TimerIds |-> 0]
    /\ sends = {} /\ nextRef = 1 /\ nextSeq = 0 /\ to = [r \in Refs |-> CHOOSE a \in Actors : TRUE]
    /\ status = [a \in Actors |-> "ready"] /\ deadline = [a \in Actors |-> NoDeadline]
    /\ box = [a \in Actors |-> 0] /\ now = 0 /\ served = <<>>

\* ---- timerHeap, on a heap and its places h = [q |-> heap, at |-> pos] ----

\* Mutant of Less: equal deadlines in any order.
LessDeadline(d, s, i, j) == d[i] < d[j]
Less(d, s, i, j) == d[i] < d[j] \/ (d[i] = d[j] /\ s[i] < s[j])

Swap(h, i, j) ==
    [q |-> [h.q EXCEPT ![i] = h.q[j], ![j] = h.q[i]],
     at |-> [h.at EXCEPT ![h.q[j]] = i, ![h.q[i]] = j]]

\* x after n turns of a loop.
Turns(Turn(_), x, n) ==
    LET turn[k \in Nat] == IF k = 0 THEN x ELSE Turn(turn[k - 1]) IN turn[n]

\* A turn of container/heap up: x.h.q[x.i] climbs while it is before its parent.
Climb(d, s, x) ==
    LET i == x.i \div 2
    IN  IF x.i = 1 \/ ~Less(d, s, x.h.q[x.i], x.h.q[i]) THEN x
        ELSE [h |-> Swap(x.h, i, x.i), i |-> i]
Up(h, d, s, j) == Turns(LAMBDA x : Climb(d, s, x), [h |-> h, i |-> j], j).h

\* A turn of container/heap down, among the first n: x.h.q[x.i] sinks below its
\* lesser child.
Sink(d, s, n, x) ==
    LET l == 2 * x.i
        c == IF l < n /\ Less(d, s, x.h.q[l + 1], x.h.q[l]) THEN l + 1 ELSE l
    IN  IF l > n \/ ~Less(d, s, x.h.q[c], x.h.q[x.i]) THEN x
        ELSE [h |-> Swap(x.h, x.i, c), i |-> c]
Down(h, d, s, i, n) == Turns(LAMBDA x : Sink(d, s, n, x), [h |-> h, i |-> i], n)

\* down, and up if down has not moved it.
Settle(h, d, s, i, n) ==
    LET x == Down(h, d, s, i, n) IN IF x.i > i THEN x.h ELSE Up(x.h, d, s, i)

Fix(h, d, s, i) == Settle(h, d, s, i, Len(h.q))

Push(h, d, s, e) ==
    LET q == Append(h.q, e) IN Up([q |-> q, at |-> [h.at EXCEPT ![e] = Len(q)]], d, s, Len(q))

\* heap.Remove, and heap.Pop for i = 1: the last takes the place of the i-th.
TakeOut(h, d, s, i) ==
    LET n == Len(h.q)
        k == IF i = n THEN h ELSE Settle(Swap(h, i, n), d, s, i, n - 1)
    IN  [q |-> Front(k.q), at |-> [k.at EXCEPT ![Last(k.q)] = 0]]

Heap == [q |-> heap, at |-> pos]
SetHeap(h) == heap' = h.q /\ pos' = h.at

\* ---- arming and disarming ----

Arm(id, when) ==
    LET d == [dl EXCEPT ![id] = when]
        s == [sq EXCEPT ![id] = nextSeq]
    IN  /\ nextSeq < MaxArmings
        /\ dl' = d /\ sq' = s /\ nextSeq' = nextSeq + 1
        /\ SetHeap(IF pos[id] > 0 THEN Fix(Heap, d, s, pos[id]) ELSE Push(Heap, d, s, id))

\* clearTimer: also an actor whose timer has fired has a recvDeadline to reset.
ClearTimer(a) ==
    /\ deadline' = [deadline EXCEPT ![a] = NoDeadline]
    /\ IF pos[a] > 0 THEN SetHeap(TakeOut(Heap, dl, sq, pos[a])) ELSE UNCHANGED <<heap, pos>>

\* RECVTIMER, and AWAIT the first time: the actor goes on to RECVTAKE.
RecvTimer(a, w) ==
    /\ status[a] = "ready"
    /\ Arm(a, now + w)
    /\ deadline' = [deadline EXCEPT ![a] = now + w]
    /\ UNCHANGED <<sends, sendVars, status, box, now, served>>

Passed(a) == now >= deadline[a]

\* RECVTAKE: a message, the after branch, or sleep.
RecvTake(a) ==
    /\ status[a] = "ready"
    /\ \/ /\ box[a] > 0
          /\ box' = [box EXCEPT ![a] = @ - 1]
          /\ ClearTimer(a) /\ UNCHANGED status
       \/ /\ box[a] = 0 /\ Passed(a)
          /\ ClearTimer(a) /\ UNCHANGED <<status, box>>
       \/ /\ box[a] = 0 /\ ~Passed(a)
          /\ status' = [status EXCEPT ![a] = "blocked"]
          /\ UNCHANGED <<heap, pos, deadline, box>>
    /\ UNCHANGED <<dl, sq, sends, sendVars, nextSeq, now, served>>

\* Timer.send_after: the timer is the machine's, it outlives the actor.
SendAfter(a, w, b) ==
    /\ status[a] = "ready" /\ nextRef \in Refs
    /\ Arm(nextRef, now + w)
    /\ to' = [to EXCEPT ![nextRef] = b]
    /\ sends' = sends \cup {nextRef} /\ nextRef' = nextRef + 1
    /\ UNCHANGED <<actorVars, now, served>>

\* Timer.cancel of a ref that is not in sends, or not in the heap, does nothing.
Cancel(a, r) ==
    /\ status[a] = "ready"
    /\ r \in sends /\ pos[r] > 0
    /\ sends' = sends \ {r}
    /\ SetHeap(TakeOut(Heap, dl, sq, pos[r]))
    /\ UNCHANGED <<dl, sq, sendVars, nextSeq, actorVars, now, served>>

\* ---- other actors ----

Deliver(b, st, bx) ==
    [status |-> IF st[b] = "blocked" THEN [st EXCEPT ![b] = "ready"] ELSE st,
     box |-> IF st[b] = "dead" THEN bx ELSE [bx EXCEPT ![b] = @ + 1]]

\* send: the receiver wakes and its timer stays armed until RECVTAKE.
Send(a, b) ==
    /\ status[a] = "ready" /\ box[b] < 1
    /\ LET r == Deliver(b, status, box) IN status' = r.status /\ box' = r.box
    /\ UNCHANGED <<heapVars, sendVars, nextSeq, deadline, now, served>>

\* hurry of exit.go: a signal ends the wait.
Signal(b) ==
    /\ status[b] = "blocked"
    /\ status' = [status EXCEPT ![b] = "ready"]
    /\ ClearTimer(b)
    /\ UNCHANGED <<dl, sq, sends, sendVars, nextSeq, box, now, served>>

Die(a) ==
    /\ status[a] = "ready"
    /\ status' = [status EXCEPT ![a] = "dead"]
    /\ ClearTimer(a)
    /\ UNCHANGED <<dl, sq, sends, sendVars, nextSeq, box, now, served>>

\* ---- wakeExpired ----

Entry(e) == [id |-> e, dl |-> dl[e], sq |-> sq[e]]

\* A turn of the loop of wakeExpired, on the state it changes.
Serve(x) ==
    IF x.h.q = <<>> \/ dl[x.h.q[1]] > now THEN x
    ELSE LET e == x.h.q[1]
             r == IF e \in Actors
                  THEN [status |-> IF x.status[e] = "blocked"
                                   THEN [x.status EXCEPT ![e] = "ready"] ELSE x.status,
                        box |-> x.box]
                  ELSE Deliver(to[e], x.status, x.box)
         IN  [h |-> TakeOut(x.h, dl, sq, 1), status |-> r.status, box |-> r.box,
              sends |-> x.sends \ {e}, served |-> Append(x.served, Entry(e))]

\* The loop of runMain looks at the timers only when no actor is ready.
WakeExpired ==
    /\ \A a \in Actors : status[a] # "ready"
    /\ heap # <<>> /\ dl[heap[1]] <= now
    /\ LET x == Turns(Serve, [h |-> Heap, status |-> status, box |-> box, sends |-> sends,
                              served |-> served], Len(heap))
       IN  /\ SetHeap(x.h) /\ status' = x.status /\ box' = x.box
           /\ sends' = x.sends /\ served' = x.served
    /\ UNCHANGED <<dl, sq, sendVars, nextSeq, deadline, now>>

Tick == now < MaxNow /\ now' = now + 1
        /\ UNCHANGED <<heapVars, sendVars, nextSeq, actorVars, served>>

Rest == UNCHANGED vars

Next ==
    \/ \E a \in Actors :
          \/ RecvTake(a) \/ Signal(a) \/ Die(a)
          \/ \E w \in Waits : RecvTimer(a, w) \/ \E b \in Actors : SendAfter(a, w, b)
          \/ \E b \in Actors \ {a} : Send(a, b)
          \/ \E r \in Refs : Cancel(a, r)
    \/ WakeExpired \/ Tick \/ Rest

Spec == Init /\ [][Next]_vars

-----------------------------------------------------------------------------
Armed == {heap[i] : i \in DOMAIN heap}
Pending == {Entry(e) : e \in Armed}

\* Through every sift each timer knows its place in the heap, none is before its
\* parent, and the timers of send_after in it are the ones of sends; a new ref
\* is not in it.
HeapHolds ==
    /\ \A i \in DOMAIN heap : pos[heap[i]] = i
    /\ \A e \in TimerIds : pos[e] # 0 => pos[e] \in DOMAIN heap /\ heap[pos[e]] = e
    /\ \A i \in 2 .. Len(heap) : ~Less(dl, sq, heap[i], heap[i \div 2])
    /\ sends = {r \in Refs : pos[r] # 0}
    /\ \A r \in Refs : r >= nextRef => pos[r] = 0

\* The heap is the queue of TimerQueue: whatever is armed, moved, cleared or
\* cancelled in the middle, timers are served once and in the order of deadline
\* and arming.
Q == INSTANCE TimerQueue WITH pending <- Pending, armings <- nextSeq
ServesInOrder == Q!Spec

=============================================================================
