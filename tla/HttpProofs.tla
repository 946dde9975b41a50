----------------------------- MODULE HttpProofs -----------------------------
(***************************************************************************)
(* The HTTP port, for any actors, requests, slots and operations.  Neither  *)
(* property is inductive.  That a request of the listener is owed one       *)
(* answer needs that the wanted accept and an offer on its way exclude each *)
(* other through bind, Accept and ServeHTTP (ListenerOK), and that a client *)
(* is offered once (OfferOK).  That a read is owed one answer needs where   *)
(* the read is: among the commands pushed, those the goroutine took, or on  *)
(* the way back (ReadOK), which an offer delivered twice would break.  That *)
(* replies are true needs what a request without a port can have been told  *)
(* (FreshOK) and which command the goroutine was given (WorkOK).  What the  *)
(* end of the program waits for is counted (ClosingCounts), for finitely    *)
(* many requests; that nobody is counted twice needs that a goroutine is    *)
(* told to end once, when its port is closed (EndInv).                      *)
(***************************************************************************)
EXTENDS HttpServer, FiniteSetTheorems, TLAPS

\* The events between the goroutines and the run loop, in order.
Flow == batch \o inject

\* A sequence has a member of K; and not two.
AtIn(s, K) == \E i \in DOMAIN s : s[i] \in K
Single(s, K) == \A i, k \in DOMAIN s : s[i] \in K /\ s[k] \in K => i = k

\* Events: what the listener waits for, a request on its way to the loop, the
\* answers to its reads, its failure.
Coming == {e \in Events : e.ev \in {"request", "refused"}}
Offers(q) == {e \in Events : e.ev = "request" /\ e.req = q}
Answers(q) == {e \in Events : e.ev \in {"data", "eof"} /\ e.req = q}
Errors(q) == {e \in Events : e.ev = "error" /\ e.req = q}

\* The commands its goroutine has before it.
Work(q) == rq[q].todo \o rq[q].cmds

\* The ranges of the variables; that of closing follows from ClosingCounts.
PortRec == [state : {"none", "open", "closed"}, owner : Actors, armed : BOOLEAN,
            responded : BOOLEAN, how : {"none", "close", "abort", "error"}, ops : 0 .. MaxOps]
ReqRec == [at : {"absent", "top", "exec", "select", "exited"}, started : BOOLEAN,
           snap : BOOLEAN, gone : BOOLEAN, disc : BOOLEAN, shut : BOOLEAN, wake : BOOLEAN,
           cmds : Seq(Cmds), todo : Seq(Cmds), sent : BOOLEAN,
           fail : {"none", "closed", "bad"}, eof : BOOLEAN,
           reply : {"none", "begun", "complete", "cut", "error", "500", "503"}]

Type ==
    /\ alive \subseteq Actors /\ stage \in {"run", "finishing", "over"}
    /\ lst \in [open : BOOLEAN, owner : Actors, armed : BOOLEAN]
    /\ rp \in [Reqs -> PortRec]
    /\ inject \in Seq(Events) /\ batch \in Seq(Events)
    /\ tr \in [bind : {"no", "ok", "bad"}, want : BOOLEAN, closed : BOOLEAN,
               killed : BOOLEAN, down : {"no", "close", "abort", "done"}]
    /\ queue \in Seq(Reqs)
    /\ rq \in [Reqs -> ReqRec]

\* An accept waits in the transport or its answer is on the way.
ListenerOK ==
    lst.open =>
        /\ tr.want => lst.armed /\ ~AtIn(Flow, Coming)
        /\ AtIn(Flow, Coming) => lst.armed /\ Single(Flow, Coming)
        /\ lst.armed => tr.want \/ AtIn(Flow, Coming)

\* A request is offered once, before it has a port.
OfferOK(q) ==
    /\ Single(queue, {q}) /\ Single(Flow, Offers(q))
    /\ ~(AtIn(queue, {q}) /\ AtIn(Flow, Offers(q)))
    /\ AtIn(queue, {q}) \/ AtIn(Flow, Offers(q)) =>
          rp[q].state = "none" /\ rq[q].at # "absent"
    /\ rq[q].at = "absent" => rp[q].state = "none"

\* Before its port nobody asks anything of it.
FreshOK(q) ==
    /\ rq[q].disc => rq[q].gone
    /\ rp[q].state = "none" =>
          /\ ~rp[q].armed /\ ~rp[q].responded /\ rp[q].how = "none"
          /\ ~rq[q].started /\ rq[q].cmds = <<>> /\ rq[q].todo = <<>>
          /\ ~AtIn(Flow, Answers(q))
          /\ rq[q].at = "exited" /\ ~rq[q].gone /\ ~tr.killed => rq[q].reply = "503"

\* A read waits for its goroutine or its answer is on the way.
ReadOK(q) ==
    OpenReq(q) /\ rq[q].fail = "none" /\ rq[q].at # "exited" =>
        /\ AtIn(Work(q), {"read"}) =>
              rp[q].armed /\ Single(Work(q), {"read"}) /\ ~AtIn(Flow, Answers(q))
        /\ AtIn(Flow, Answers(q)) => rp[q].armed /\ Single(Flow, Answers(q))
        /\ rp[q].armed => AtIn(Work(q), {"read"}) \/ AtIn(Flow, Answers(q))

\* What the goroutine was told, and the client.
WorkOK(q) ==
    /\ rq[q].at \in {"absent", "top", "select"} => rq[q].todo = <<>>
    /\ rq[q].sent \/ AtIn(Work(q), {"respond"}) => rp[q].responded
    /\ AtIn(Work(q), {"close"}) => rp[q].state = "closed" /\ rp[q].how \in {"close", "error"}
    /\ rp[q].how = "error" \/ AtIn(Flow, Errors(q)) => rq[q].fail # "none"
    /\ rp[q].state = "open" => rp[q].how = "none"
    /\ rq[q].reply = "complete" => rp[q].how = "close" /\ rp[q].responded

ReqOK(q) == OfferOK(q) /\ FreshOK(q) /\ ReadOK(q) /\ WorkOK(q)

\* The inductive invariant.
IInv == Type /\ ListenerOK /\ \A q \in Reqs : ReqOK(q)

-----------------------------------------------------------------------------
\* Sequences: members that join and leave.

\* A member joins at the end.
LEMMA Added ==
    ASSUME NEW S, NEW s \in Seq(S), NEW e \in S
    PROVE  /\ Append(s, e) \in Seq(S)
           /\ \A K : AtIn(Append(s, e), K) <=> AtIn(s, K) \/ e \in K
           /\ \A K : e \notin K /\ Single(s, K) => Single(Append(s, e), K)
           /\ \A K : ~AtIn(s, K) => Single(Append(s, e), K)
<1> DEFINE t == Append(s, e)
           n == Len(s)
<1>1. /\ t \in Seq(S) /\ n \in Nat /\ DOMAIN s = 1 .. n /\ DOMAIN t = 1 .. (n + 1)
      /\ t[n + 1] = e /\ \A i \in 1 .. n : t[i] = s[i]
  OBVIOUS
<1> HIDE DEF t, n
<1>2. \A K : AtIn(t, K) <=> AtIn(s, K) \/ e \in K
  BY <1>1 DEF AtIn
<1>3. \A K : e \notin K /\ Single(s, K) => Single(t, K)
  BY <1>1 DEF Single
<1>4. \A K : ~AtIn(s, K) => Single(t, K)
  BY <1>1 DEF Single, AtIn
<1> QED BY <1>1, <1>2, <1>3, <1>4 DEF t

\* The head leaves.
LEMMA Popped ==
    ASSUME NEW S, NEW s \in Seq(S), s # <<>>
    PROVE  /\ Tail(s) \in Seq(S) /\ Head(s) \in S
           /\ \A K : AtIn(s, K) <=> AtIn(Tail(s), K) \/ Head(s) \in K
           /\ \A K : Single(s, K) => Single(Tail(s), K)
           /\ \A K : Single(s, K) /\ Head(s) \in K => ~AtIn(Tail(s), K)
<1> DEFINE t == Tail(s)
           n == Len(s)
<1>1. /\ t \in Seq(S) /\ n \in Nat /\ n > 0 /\ DOMAIN s = 1 .. n /\ DOMAIN t = 1 .. (n - 1)
      /\ Head(s) = s[1] /\ s[1] \in S /\ \A i \in 1 .. (n - 1) : t[i] = s[i + 1]
  OBVIOUS
<1> HIDE DEF t, n
<1>2. 1 \in DOMAIN s /\ \A i \in DOMAIN t : i \in Nat /\ i + 1 \in DOMAIN s /\ i + 1 # 1
                                           /\ t[i] = s[i + 1]
  BY <1>1
<1>3. \A K : AtIn(t, K) => AtIn(s, K)
  BY <1>2 DEF AtIn
<1>4. \A K : Head(s) \in K => AtIn(s, K)
  BY <1>1, <1>2 DEF AtIn
<1>5. ASSUME NEW K, AtIn(s, K), Head(s) \notin K PROVE AtIn(t, K)
  <2>1. PICK i \in DOMAIN s : s[i] \in K
    BY <1>5 DEF AtIn
  <2>2. i # 1
    BY <1>1, <1>5, <2>1
  <2>3. i - 1 \in DOMAIN t /\ t[i - 1] = s[i]
    BY <1>1, <2>2
  <2> QED BY <2>1, <2>3 DEF AtIn
<1>6. ASSUME NEW K, Single(s, K) PROVE Single(t, K)
  <2> SUFFICES ASSUME NEW i \in DOMAIN t, NEW k \in DOMAIN t, t[i] \in K, t[k] \in K PROVE i = k
    BY DEF Single
  <2>1. i + 1 = k + 1
    BY <1>2, <1>6 DEF Single
  <2> QED BY <1>2, <2>1
<1>7. ASSUME NEW K, Single(s, K), Head(s) \in K PROVE ~AtIn(t, K)
  <2> SUFFICES ASSUME NEW i \in DOMAIN t, t[i] \in K PROVE FALSE
    BY DEF AtIn
  <2> QED BY <1>1, <1>2, <1>7 DEF Single
<1> QED BY <1>1, <1>3, <1>4, <1>5, <1>6, <1>7 DEF t

\* A member leaves from the middle.
LEMMA Removed ==
    ASSUME NEW S, NEW s \in Seq(S), NEW m \in DOMAIN s
    PROVE  /\ RemoveAt(s, m) \in Seq(S)
           /\ \A K : AtIn(RemoveAt(s, m), K) => AtIn(s, K)
           /\ \A K : Single(s, K) => Single(RemoveAt(s, m), K)
<1> DEFINE t == RemoveAt(s, m)
           n == Len(s)
           old(i) == IF i < m THEN i ELSE i + 1
<1>1. n \in Nat /\ DOMAIN s = 1 .. n /\ m \in 1 .. n
  OBVIOUS
<1>2. /\ t \in Seq(S) /\ DOMAIN t = 1 .. (n - 1)
      /\ \A i \in 1 .. (n - 1) : t[i] = s[old(i)]
  <2> DEFINE a == SubSeq(s, 1, m - 1)
             b == SubSeq(s, m + 1, n)
  <2>1. a \in Seq(S) /\ Len(a) = m - 1 /\ \A i \in 1 .. (m - 1) : a[i] = s[i]
    BY <1>1
  <2>2. b \in Seq(S) /\ Len(b) = n - m /\ \A i \in 1 .. (n - m) : b[i] = s[m + i]
    BY <1>1
  <2>3. t = a \o b
    BY DEF RemoveAt
  <2> HIDE DEF a, b, t, n
  <2>4. /\ t \in Seq(S) /\ Len(t) = n - 1
        /\ \A i \in 1 .. (m - 1) : t[i] = a[i]
        /\ \A i \in m .. (n - 1) : t[i] = b[i - (m - 1)]
    BY <1>1, <2>1, <2>2, <2>3
  <2>5. ASSUME NEW i \in 1 .. (n - 1) PROVE t[i] = s[old(i)]
    <3>1. CASE i < m
      BY <1>1, <2>1, <2>4, <3>1
    <3>2. CASE ~(i < m)
      <4>1. i \in m .. (n - 1) /\ i - (m - 1) \in 1 .. (n - m) /\ m + (i - (m - 1)) = i + 1
        BY <1>1, <3>2
      <4> QED BY <2>2, <2>4, <3>2, <4>1
    <3> QED BY <3>1, <3>2
  <2>6. DOMAIN t = 1 .. (n - 1)
    BY <1>1, <2>4
  <2> QED BY <2>4, <2>5, <2>6
<1> HIDE DEF t, n
<1>3. \A i \in DOMAIN t : i \in Nat /\ old(i) \in DOMAIN s /\ t[i] = s[old(i)]
  BY <1>1, <1>2
<1>4. \A i, k \in DOMAIN t : old(i) = old(k) => i = k
  BY <1>1, <1>2
<1> HIDE DEF old
<1>5. \A K : AtIn(t, K) => AtIn(s, K)
  BY <1>3 DEF AtIn
<1>6. \A K : Single(s, K) => Single(t, K)
  BY <1>3, <1>4 DEF Single
<1> QED BY <1>2, <1>5, <1>6 DEF t

\* Two sequences in a row.
LEMMA Joined ==
    ASSUME NEW S, NEW s \in Seq(S), NEW t \in Seq(S)
    PROVE  /\ s \o t \in Seq(S) /\ <<>> \o t = t /\ s \o <<>> = s
           /\ \A e \in S : s \o Append(t, e) = Append(s \o t, e)
           /\ s # <<>> => /\ s \o t # <<>> /\ Tail(s) \o t = Tail(s \o t)
                          /\ Head(s \o t) = Head(s)
OBVIOUS

\* Nothing is in the empty sequence.
LEMMA Nothing == \A K : ~AtIn(<<>>, K) /\ Single(<<>>, K)
BY DEF AtIn, Single

-----------------------------------------------------------------------------
\* The way from the goroutines to the loop.

\* What a step does to the members of K that are on the way.
Less(K) == (AtIn(Flow', K) => AtIn(Flow, K)) /\ (Single(Flow, K) => Single(Flow', K))
Same(K) == Less(K) /\ (AtIn(Flow, K) => AtIn(Flow', K))

\* It is a sequence of events.
LEMMA FlowType == ASSUME Type PROVE Flow \in Seq(Events)
BY Joined DEF Type, Flow

\* Nothing is emitted or taken; drainInject moves the events.
LEMMA FlowSame ==
    ASSUME Type, UNCHANGED <<inject, batch>> \/ (batch = <<>> /\ batch' = inject /\ inject' = <<>>)
    PROVE  Flow' = Flow /\ (\A K : Same(K)) /\ inject' \in Seq(Events) /\ batch' \in Seq(Events)
<1>1. inject \in Seq(Events) /\ batch \in Seq(Events) /\ <<>> \in Seq(Events)
  BY DEF Type
<1>2. Flow' = Flow
  BY <1>1, Joined DEF Flow
<1> QED BY <1>1, <1>2 DEF Same, Less

\* An event is emitted.
LEMMA FlowEmit ==
    ASSUME Type, NEW ev, NEW q, Emit(ev, q), [ev |-> ev, req |-> q] \in Events, batch' = batch
    PROVE  /\ inject' \in Seq(Events) /\ batch' \in Seq(Events)
           /\ \A K : [ev |-> ev, req |-> q] \notin K => Same(K)
           /\ \A K : [ev |-> ev, req |-> q] \in K => AtIn(Flow', K)
           /\ \A K : ~AtIn(Flow, K) => Single(Flow', K)
<1> DEFINE e == [ev |-> ev, req |-> q]
<1>1. inject \in Seq(Events) /\ batch \in Seq(Events) /\ e \in Events /\ Flow \in Seq(Events)
  BY FlowType DEF Type
<1>2. inject' = Append(inject, e)
  BY DEF Emit
<1> HIDE DEF e
<1>3. Flow' = Append(Flow, e) /\ inject' \in Seq(Events)
  BY <1>1, <1>2, Joined DEF Flow
<1> QED BY <1>1, <1>3, Added DEF Same, Less, e

\* The loop looks at the first event it has taken.
LEMMA FlowParse ==
    ASSUME Type, batch # <<>>, batch' = Tail(batch), inject' = inject
    PROVE  /\ inject' \in Seq(Events) /\ batch' \in Seq(Events) /\ Head(batch) \in Events
           /\ \A K : Less(K)
           /\ \A K : Head(batch) \notin K => Same(K)
           /\ \A K : Head(batch) \in K => AtIn(Flow, K)
           /\ \A K : Head(batch) \in K /\ Single(Flow, K) => ~AtIn(Flow', K)
<1>1. /\ inject \in Seq(Events) /\ batch \in Seq(Events) /\ Flow \in Seq(Events)
      /\ Tail(batch) \in Seq(Events) /\ Head(batch) \in Events
  BY FlowType, Popped DEF Type
<1>2. Flow' = Tail(Flow) /\ Flow # <<>> /\ Head(Flow) = Head(batch)
  BY <1>1, Joined DEF Flow
<1> QED BY <1>1, <1>2, Popped DEF Same, Less

-----------------------------------------------------------------------------
\* What a step that does not concern a request, or the listener, leaves.

\* The queue of the listener has no more of a request.
QueueLess(q) == /\ AtIn(queue', {q}) => AtIn(queue, {q})
                /\ Single(queue, {q}) => Single(queue', {q})

\* A request that a step leaves alone keeps its part.
LEMMA ReqKept ==
    ASSUME NEW q \in Reqs, ReqOK(q), rq'[q] = rq[q],
           rp'[q].state = rp[q].state, rp'[q].armed = rp[q].armed,
           rp'[q].responded = rp[q].responded, rp'[q].how = rp[q].how,
           tr.killed => tr'.killed,
           Less(Offers(q)), Less(Errors(q)), Less(Answers(q)),
           OpenReq(q) => Same(Answers(q)), QueueLess(q)
    PROVE  ReqOK(q)'
<1>1. OfferOK(q)'
  BY DEF ReqOK, OfferOK, Less, QueueLess
<1>2. FreshOK(q)'
  BY DEF ReqOK, FreshOK, Less
<1>3. Work(q)' = Work(q)
  BY DEF Work
<1>4. ReadOK(q)'
  BY <1>3 DEF ReqOK, ReadOK, Less, Same, OpenReq
<1>5. WorkOK(q)'
  BY <1>3 DEF ReqOK, WorkOK, Less
<1> QED BY <1>1, <1>2, <1>4, <1>5 DEF ReqOK

\* So does the listener.
LEMMA ListenerKept ==
    ASSUME ListenerOK, lst'.open => lst.open, lst'.armed = lst.armed, tr'.want = tr.want,
           lst'.open => Same(Coming)
    PROVE  ListenerOK'
BY DEF ListenerOK, Same, Less

\* A step that changes nothing but who owns, who lives and how far the end is.
LEMMA Quiet ==
    ASSUME IInv, alive' \subseteq Actors, stage' \in {"run", "finishing", "over"},
           rp' \in [Reqs -> PortRec],
           \A q \in Reqs : /\ rp'[q].state = rp[q].state /\ rp'[q].armed = rp[q].armed
                           /\ rp'[q].responded = rp[q].responded /\ rp'[q].how = rp[q].how,
           lst' \in [open : BOOLEAN, owner : Actors, armed : BOOLEAN],
           lst'.open = lst.open, lst'.armed = lst.armed,
           tr' \in [bind : {"no", "ok", "bad"}, want : BOOLEAN, closed : BOOLEAN,
                    killed : BOOLEAN, down : {"no", "close", "abort", "done"}],
           tr'.want = tr.want, tr.killed => tr'.killed,
           inject' \in Seq(Events), batch' \in Seq(Events), \A K : Same(K),
           UNCHANGED <<queue, rq>>
    PROVE  IInv'
<1>1. Type'
  BY DEF IInv, Type
<1>2. ListenerOK'
  BY ListenerKept DEF IInv
<1>3. ASSUME NEW q \in Reqs PROVE ReqOK(q)'
  <2>1. QueueLess(q) /\ ReqOK(q) /\ rq'[q] = rq[q]
    BY DEF QueueLess, IInv
  <2>2. /\ Less(Offers(q)) /\ Less(Errors(q)) /\ Less(Answers(q)) /\ Same(Answers(q))
    BY DEF Same
  <2> QED BY <2>1, <2>2, ReqKept
<1> QED BY <1>1, <1>2, <1>3 DEF IInv

-----------------------------------------------------------------------------
\* Commands of the loop.

LstRec == [open : BOOLEAN, owner : Actors, armed : BOOLEAN]
TrRec == [bind : {"no", "ok", "bad"}, want : BOOLEAN, closed : BOOLEAN,
          killed : BOOLEAN, down : {"no", "close", "abort", "done"}]

\* httpReq.push: what a command changes.
LEMMA PushedOK ==
    ASSUME NEW r \in ReqRec, NEW c \in Cmds
    PROVE  LET n == Pushed(r, c) IN
           /\ n \in ReqRec /\ n.at = r.at /\ n.started = r.started /\ n.gone = r.gone
           /\ n.disc = r.disc /\ n.todo = r.todo /\ n.sent = r.sent /\ n.fail = r.fail
           /\ n.reply = r.reply
           /\ n.cmds = IF r.at = "exited" THEN r.cmds ELSE Append(r.cmds, c)
<1> DEFINE n == [r EXCEPT !.cmds = Append(@, c), !.wake = TRUE]
<1>1. Append(r.cmds, c) \in Seq(Cmds)
  BY DEF ReqRec
<1>2. n \in ReqRec
  BY <1>1 DEF ReqRec
<1>3. /\ n.at = r.at /\ n.started = r.started /\ n.gone = r.gone
      /\ n.disc = r.disc /\ n.todo = r.todo /\ n.sent = r.sent /\ n.fail = r.fail
      /\ n.reply = r.reply /\ n.cmds = Append(r.cmds, c)
  BY DEF ReqRec
<1> HIDE DEF n
<1> QED BY <1>2, <1>3 DEF Pushed, n

\* A command is before the goroutine, unless it has left.
LEMMA WorkPushed ==
    ASSUME NEW q \in Reqs, rq[q] \in ReqRec, NEW c \in Cmds, rq'[q] = Pushed(rq[q], c)
    PROVE  /\ rq[q].at = "exited" => Work(q)' = Work(q)
           /\ \A K : AtIn(Work(q)', K) => AtIn(Work(q), K) \/ c \in K
           /\ rq[q].at # "exited" =>
                 /\ \A K : AtIn(Work(q), K) \/ c \in K => AtIn(Work(q)', K)
                 /\ \A K : c \notin K /\ Single(Work(q), K) => Single(Work(q)', K)
                 /\ \A K : ~AtIn(Work(q), K) => Single(Work(q)', K)
<1>1. /\ rq'[q].todo = rq[q].todo
      /\ rq'[q].cmds = IF rq[q].at = "exited" THEN rq[q].cmds ELSE Append(rq[q].cmds, c)
  BY PushedOK
<1>2. rq[q].todo \in Seq(Cmds) /\ rq[q].cmds \in Seq(Cmds)
  BY DEF ReqRec
<1>3. Work(q) \in Seq(Cmds)
  BY <1>2, Joined DEF Work
<1>4. Work(q)' = IF rq[q].at = "exited" THEN Work(q) ELSE Append(Work(q), c)
  <2>1. CASE rq[q].at = "exited"
    BY <1>1, <2>1 DEF Work
  <2>2. CASE rq[q].at # "exited"
    <3>1. Work(q)' = rq[q].todo \o Append(rq[q].cmds, c)
      BY <1>1, <2>2 DEF Work
    <3>2. rq[q].todo \o Append(rq[q].cmds, c) = Append(rq[q].todo \o rq[q].cmds, c)
      <4> DEFINE s == rq[q].todo
                 t == rq[q].cmds
      <4>1. s \in Seq(Cmds) /\ t \in Seq(Cmds)
        BY <1>2
      <4> HIDE DEF s, t
      <4>2. s \o Append(t, c) = Append(s \o t, c)
        BY <4>1, Joined
      <4> QED BY <4>2 DEF s, t
    <3> QED BY <2>2, <3>1, <3>2 DEF Work
  <2> QED BY <2>1, <2>2
<1> QED BY <1>3, <1>4, Added

\* A native of the owner adds a command to an open request.
LEMMA AskedOK ==
    ASSUME IInv, NEW q \in Reqs, OpenReq(q), NEW c \in Cmds \ {"close", "abort"}, Push(q, c),
           rp'[q].state = "open", rp'[q].how = rp[q].how,
           rp[q].responded \/ c = "respond" => rp'[q].responded,
           IF c = "read" THEN ~rp[q].armed /\ rp'[q].armed ELSE rp'[q].armed = rp[q].armed,
           UNCHANGED <<inject, batch, queue, tr>>
    PROVE  ReqOK(q)'
<1>1. /\ rq[q] \in ReqRec /\ rq'[q] = Pushed(rq[q], c) /\ ReqOK(q) /\ c \in Cmds
      /\ Flow' = Flow /\ queue' = queue /\ tr' = tr /\ rp[q].state = "open"
  BY FlowSame DEF IInv, Type, Push, OpenReq
<1>2. /\ rq'[q].at = rq[q].at /\ rq'[q].started = rq[q].started /\ rq'[q].gone = rq[q].gone
      /\ rq'[q].disc = rq[q].disc /\ rq'[q].todo = rq[q].todo /\ rq'[q].sent = rq[q].sent
      /\ rq'[q].fail = rq[q].fail /\ rq'[q].reply = rq[q].reply
  BY <1>1, PushedOK
<1>3. /\ rq[q].at = "exited" => Work(q)' = Work(q)
      /\ \A K : AtIn(Work(q)', K) => AtIn(Work(q), K) \/ c \in K
      /\ rq[q].at # "exited" =>
            /\ \A K : AtIn(Work(q), K) \/ c \in K => AtIn(Work(q)', K)
            /\ \A K : c \notin K /\ Single(Work(q), K) => Single(Work(q)', K)
            /\ \A K : ~AtIn(Work(q), K) => Single(Work(q)', K)
  BY <1>1, WorkPushed
<1>4. OfferOK(q)'
  BY <1>1, <1>2 DEF ReqOK, OfferOK
<1>5. FreshOK(q)'
  BY <1>1, <1>2 DEF ReqOK, FreshOK
<1>6. ReadOK(q)'
  <2> SUFFICES ASSUME rq[q].fail = "none", rq[q].at # "exited" PROVE ReadOK(q)'
    BY <1>2 DEF ReadOK
  <2>1. CASE c = "read"
    BY <1>1, <1>2, <1>3, <2>1 DEF ReqOK, ReadOK
  <2>2. CASE c # "read"
    BY <1>1, <1>2, <1>3, <2>2 DEF ReqOK, ReadOK
  <2> QED BY <2>1, <2>2
<1>7. WorkOK(q)'
  <2>1. /\ AtIn(Work(q)', {"respond"}) => AtIn(Work(q), {"respond"}) \/ c = "respond"
        /\ AtIn(Work(q)', {"close"}) => AtIn(Work(q), {"close"})
    BY <1>3
  <2> QED BY <1>1, <1>2, <2>1 DEF ReqOK, WorkOK
<1> QED BY <1>4, <1>5, <1>6, <1>7 DEF ReqOK

\* The natives of a request: read, respond and write.
LEMMA AskedInv ==
    ASSUME IInv, NEW q \in Reqs, OpenReq(q), NEW c \in Cmds \ {"close", "abort"}, Push(q, c),
           NEW p \in PortRec, rp' = [rp EXCEPT ![q] = p],
           p.state = "open", p.how = rp[q].how,
           rp[q].responded \/ c = "respond" => p.responded,
           IF c = "read" THEN ~rp[q].armed /\ p.armed ELSE p.armed = rp[q].armed,
           UNCHANGED <<alive, stage, lst, inject, batch, queue, tr>>
    PROVE  IInv'
<1>1. /\ rp \in [Reqs -> PortRec] /\ rq \in [Reqs -> ReqRec] /\ c \in Cmds
      /\ rq' = [rq EXCEPT ![q] = Pushed(rq[q], c)]
  BY DEF IInv, Type, Push
<1>2. Pushed(rq[q], c) \in ReqRec
  BY <1>1, PushedOK
<1>3. /\ rp' \in [Reqs -> PortRec] /\ rq' \in [Reqs -> ReqRec] /\ rp'[q] = p
      /\ \A x \in Reqs : x # q => rp'[x] = rp[x] /\ rq'[x] = rq[x]
  BY <1>1, <1>2
<1>4. /\ Flow' = Flow /\ (\A K : Same(K)) /\ inject' \in Seq(Events) /\ batch' \in Seq(Events)
  BY FlowSame DEF IInv
<1>5. Type'
  BY <1>3, <1>4 DEF IInv, Type
<1>6. ListenerOK'
  BY <1>4, ListenerKept DEF IInv
<1>7. ASSUME NEW x \in Reqs PROVE ReqOK(x)'
  <2>1. CASE x = q
    BY <1>3, <2>1, AskedOK
  <2>2. CASE x # q
    <3>1. QueueLess(x) /\ ReqOK(x)
      BY DEF QueueLess, IInv
    <3>2. Less(Offers(x)) /\ Less(Errors(x)) /\ Less(Answers(x)) /\ Same(Answers(x))
      BY <1>4 DEF Same
    <3> QED BY <1>3, <2>2, <3>1, <3>2, ReqKept
  <2> QED BY <2>1, <2>2
<1> QED BY <1>5, <1>6, <1>7 DEF IInv

\* Port.request of a request.
LEMMA RequestInv == ASSUME IInv, NEW a, NEW q \in Reqs, Request(a, q) PROVE IInv'
<1> DEFINE p == [rp[q] EXCEPT !.armed = TRUE, !.ops = @ + 1]
<1>1. /\ rp[q] \in PortRec /\ rp \in [Reqs -> PortRec] /\ rp[q].state = "open" /\ ~rp[q].armed
      /\ rp[q].ops < MaxOps /\ MaxOps \in Nat /\ Push(q, "read")
      /\ UNCHANGED <<alive, stage, lst, inject, batch, queue, tr>>
  BY HttpBounds DEF IInv, Type, Request, Owns, OpenReq
<1>2. rp' = [rp EXCEPT ![q] = p]
  BY <1>1 DEF Request
<1>3. /\ p \in PortRec /\ p.state = rp[q].state /\ p.how = rp[q].how
      /\ p.responded = rp[q].responded /\ p.armed
  <2>1. rp[q].ops + 1 \in 0 .. MaxOps
    BY <1>1 DEF PortRec
  <2> QED BY <1>1, <2>1 DEF PortRec
<1> HIDE DEF p
<1>4. "read" \in Cmds \ {"close", "abort"}
  BY DEF Cmds
<1> QED BY <1>1, <1>2, <1>3, <1>4, AskedInv DEF OpenReq

\* HttpServer.respond.
LEMMA RespondInv == ASSUME IInv, NEW a, NEW q \in Reqs, Respond(a, q) PROVE IInv'
<1> DEFINE p == [rp[q] EXCEPT !.responded = TRUE]
<1>1. /\ rp[q] \in PortRec /\ rp \in [Reqs -> PortRec] /\ rp[q].state = "open"
      /\ Push(q, "respond") /\ rp' = [rp EXCEPT ![q] = p]
      /\ UNCHANGED <<alive, stage, lst, inject, batch, queue, tr>>
  BY DEF IInv, Type, Respond, Owns, OpenReq
<1>2. /\ p \in PortRec /\ p.state = rp[q].state /\ p.how = rp[q].how
      /\ p.responded /\ p.armed = rp[q].armed
  BY <1>1 DEF PortRec
<1> HIDE DEF p
<1>3. "respond" \in Cmds \ {"close", "abort"}
  BY DEF Cmds
<1> QED BY <1>1, <1>2, <1>3, AskedInv DEF OpenReq

\* Port.write of a response.
LEMMA WriteBodyInv == ASSUME IInv, NEW a, NEW q \in Reqs, WriteBody(a, q) PROVE IInv'
<1> DEFINE p == [rp[q] EXCEPT !.ops = @ + 1]
<1>1. /\ rp[q] \in PortRec /\ rp \in [Reqs -> PortRec] /\ rp[q].state = "open"
      /\ rp[q].ops < MaxOps /\ MaxOps \in Nat
      /\ Push(q, "write") /\ rp' = [rp EXCEPT ![q] = p]
      /\ UNCHANGED <<alive, stage, lst, inject, batch, queue, tr>>
  BY HttpBounds DEF IInv, Type, WriteBody, Owns, OpenReq
<1>2. /\ p \in PortRec /\ p.state = rp[q].state /\ p.how = rp[q].how
      /\ p.responded = rp[q].responded /\ p.armed = rp[q].armed
  <2>1. rp[q].ops + 1 \in 0 .. MaxOps
    BY <1>1 DEF PortRec
  <2> QED BY <1>1, <2>1 DEF PortRec
<1> HIDE DEF p
<1>3. "write" \in Cmds \ {"close", "abort"}
  BY DEF Cmds
<1> QED BY <1>1, <1>2, <1>3, AskedInv DEF OpenReq

-----------------------------------------------------------------------------
\* The listener.

\* Accept: refused, answered from the queue, or wanted.
LEMMA AcceptInv == ASSUME IInv, NEW a, Accept(a) PROVE IInv'
<1>1. /\ lst.open /\ ~lst.armed /\ lst' = [lst EXCEPT !.armed = TRUE] /\ lst \in LstRec
      /\ tr \in TrRec /\ queue \in Seq(Reqs) /\ batch' = batch /\ Type
      /\ UNCHANGED <<alive, stage, rp, batch, closing, rq>>
  BY DEF IInv, Type, Accept, LstRec, TrRec
<1>2. lst' \in LstRec /\ lst'.open = TRUE /\ lst'.armed = TRUE
  BY <1>1 DEF LstRec
<1>3. ~tr.want /\ ~AtIn(Flow, Coming)
  BY <1>1 DEF IInv, ListenerOK
<1>4. CASE Emit("refused", NoOne) /\ UNCHANGED <<tr, queue>>
  <2> DEFINE e == [ev |-> "refused", req |-> NoOne]
  <2>1. e \in Events /\ e \in Coming
        /\ \A q : e \notin Offers(q) /\ e \notin Answers(q) /\ e \notin Errors(q)
    BY DEF Events, Coming, Offers, Answers, Errors
  <2>2. /\ inject' \in Seq(Events) /\ batch' \in Seq(Events)
        /\ \A K : e \notin K => Same(K)
        /\ \A K : e \in K => AtIn(Flow', K)
        /\ \A K : ~AtIn(Flow, K) => Single(Flow', K)
    BY <1>1, <1>4, <2>1, FlowEmit
  <2> HIDE DEF e
  <2>3. Type'
    BY <1>1, <1>2, <1>4, <2>2 DEF Type, LstRec
  <2>4. ListenerOK'
    BY <1>2, <1>3, <1>4, <2>1, <2>2 DEF ListenerOK
  <2>5. ASSUME NEW q \in Reqs PROVE ReqOK(q)'
    <3>1. QueueLess(q) /\ ReqOK(q)
      BY <1>4 DEF QueueLess, IInv
    <3>2. Less(Offers(q)) /\ Less(Errors(q)) /\ Less(Answers(q)) /\ Same(Answers(q))
      BY <2>1, <2>2 DEF Same
    <3> QED BY <1>1, <1>4, <3>1, <3>2, ReqKept
  <2> QED BY <2>3, <2>4, <2>5 DEF IInv
<1>5. CASE /\ queue # <<>> /\ Emit("request", Head(queue)) /\ queue' = Tail(queue)
           /\ UNCHANGED tr
  <2> DEFINE h == Head(queue)
             e == [ev |-> "request", req |-> h]
  <2>1. /\ h \in Reqs /\ queue' \in Seq(Reqs)
        /\ \A q : AtIn(queue', {q}) => AtIn(queue, {q})
        /\ \A q : Single(queue, {q}) => Single(queue', {q})
        /\ AtIn(queue, {h}) /\ (Single(queue, {h}) => ~AtIn(queue', {h}))
    BY <1>1, <1>5, Popped
  <2>2. e \in Events /\ e \in Coming
        /\ \A q : e \notin Answers(q) /\ e \notin Errors(q) /\ (q # h => e \notin Offers(q))
        /\ e \in Offers(h)
    BY <2>1 DEF Events, Coming, Offers, Answers, Errors
  <2>3. /\ inject' \in Seq(Events) /\ batch' \in Seq(Events)
        /\ \A K : e \notin K => Same(K)
        /\ \A K : e \in K => AtIn(Flow', K)
        /\ \A K : ~AtIn(Flow, K) => Single(Flow', K)
    BY <1>1, <1>5, <2>2, FlowEmit
  <2> HIDE DEF e, h
  <2>4. Type'
    BY <1>1, <1>2, <1>5, <2>1, <2>3 DEF Type, LstRec
  <2>5. ListenerOK'
    BY <1>2, <1>3, <1>5, <2>2, <2>3 DEF ListenerOK
  <2>6. ASSUME NEW q \in Reqs PROVE ReqOK(q)'
    <3>1. QueueLess(q) /\ ReqOK(q)
      BY <2>1 DEF QueueLess, IInv
    <3>2. Less(Errors(q)) /\ Less(Answers(q)) /\ Same(Answers(q))
      BY <2>2, <2>3 DEF Same
    <3>3. CASE q # h
      <4>1. Less(Offers(q))
        BY <2>2, <2>3, <3>3 DEF Same
      <4> QED BY <1>1, <1>5, <3>1, <3>2, <4>1, ReqKept
    <3>4. CASE q = h
      <4>1. OfferOK(q)
        BY <3>1 DEF ReqOK
      <4>2. /\ ~AtIn(Flow, Offers(q)) /\ rp[q].state = "none" /\ rq[q].at # "absent"
            /\ ~AtIn(queue', {q}) /\ Single(queue', {q}) /\ Single(Flow', Offers(q))
        BY <2>1, <2>3, <3>4, <4>1 DEF OfferOK
      <4>3. OfferOK(q)'
        BY <1>1, <4>2 DEF OfferOK
      <4>4. Work(q)' = Work(q)
        BY <1>1 DEF Work
      <4>5. FreshOK(q)' /\ ReadOK(q)' /\ WorkOK(q)'
        BY <1>1, <1>5, <3>1, <3>2, <4>2, <4>4
           DEF ReqOK, FreshOK, ReadOK, WorkOK, Less, OpenReq
      <4> QED BY <4>3, <4>5 DEF ReqOK
    <3> QED BY <3>3, <3>4
  <2> QED BY <2>4, <2>5, <2>6 DEF IInv
<1>6. CASE tr' = [tr EXCEPT !.want = TRUE] /\ UNCHANGED <<inject, queue>>
  <2>1. tr' \in TrRec /\ tr'.killed = tr.killed /\ tr'.want = TRUE
    BY <1>1, <1>6 DEF TrRec
  <2>2. Flow' = Flow /\ (\A K : Same(K)) /\ inject' \in Seq(Events) /\ batch' \in Seq(Events)
    BY <1>1, <1>6, FlowSame
  <2>3. Type'
    BY <1>1, <1>2, <1>6, <2>1, <2>2 DEF Type, LstRec, TrRec
  <2>4. ListenerOK'
    BY <1>2, <1>3, <2>1, <2>2 DEF ListenerOK
  <2>5. ASSUME NEW q \in Reqs PROVE ReqOK(q)'
    <3>1. QueueLess(q) /\ ReqOK(q)
      BY <1>6 DEF QueueLess, IInv
    <3>2. Less(Offers(q)) /\ Less(Errors(q)) /\ Less(Answers(q)) /\ Same(Answers(q))
      BY <2>2 DEF Same
    <3> QED BY <1>1, <2>1, <3>1, <3>2, ReqKept
  <2> QED BY <2>3, <2>4, <2>5 DEF IInv
<1> QED BY <1>4, <1>5, <1>6 DEF Accept

\* bind: a waiting accept is refused if it fails.
LEMMA BindInv == ASSUME IInv, Bind PROVE IInv'
<1>1. /\ lst' = lst /\ tr \in TrRec /\ batch' = batch /\ Type
      /\ UNCHANGED <<alive, stage, lst, rp, batch, queue, rq>>
  BY DEF IInv, Type, Bind, loopVars, TrRec
<1>2. PICK ok \in BOOLEAN :
          /\ tr' = [tr EXCEPT !.bind = IF ok /\ ~tr.closed THEN "ok" ELSE "bad",
                              !.want = @ /\ ok]
          /\ IF ~ok /\ tr.want THEN Emit("refused", NoOne) ELSE UNCHANGED inject
  BY DEF Bind
<1>3. tr' \in TrRec /\ tr'.killed = tr.killed /\ (tr'.want <=> tr.want /\ ok)
  BY <1>1, <1>2 DEF TrRec
<1>4. CASE ~ok /\ tr.want
  <2> DEFINE e == [ev |-> "refused", req |-> NoOne]
  <2>1. e \in Events /\ e \in Coming
        /\ \A q : e \notin Offers(q) /\ e \notin Answers(q) /\ e \notin Errors(q)
    BY DEF Events, Coming, Offers, Answers, Errors
  <2>2. /\ inject' \in Seq(Events) /\ batch' \in Seq(Events)
        /\ \A K : e \notin K => Same(K)
        /\ \A K : e \in K => AtIn(Flow', K)
        /\ \A K : ~AtIn(Flow, K) => Single(Flow', K)
    BY <1>1, <1>2, <1>4, <2>1, FlowEmit
  <2> HIDE DEF e
  <2>3. Type'
    BY <1>1, <1>3, <2>2 DEF Type, TrRec
  <2>4. ListenerOK'
    BY <1>1, <1>3, <1>4, <2>1, <2>2 DEF IInv, ListenerOK
  <2>5. ASSUME NEW q \in Reqs PROVE ReqOK(q)'
    <3>1. QueueLess(q) /\ ReqOK(q)
      BY <1>1 DEF QueueLess, IInv
    <3>2. Less(Offers(q)) /\ Less(Errors(q)) /\ Less(Answers(q)) /\ Same(Answers(q))
      BY <2>1, <2>2 DEF Same
    <3> QED BY <1>1, <1>3, <3>1, <3>2, ReqKept
  <2> QED BY <2>3, <2>4, <2>5 DEF IInv
<1>5. CASE ~(~ok /\ tr.want)
  <2>1. UNCHANGED inject /\ tr'.want = tr.want
    BY <1>1, <1>2, <1>3, <1>5 DEF TrRec
  <2>2. (\A K : Same(K)) /\ inject' \in Seq(Events) /\ batch' \in Seq(Events)
    BY <1>1, <2>1, FlowSame
  <2> QED BY <1>1, <1>3, <2>1, <2>2, Quiet DEF IInv, Type, TrRec
<1> QED BY <1>4, <1>5

\* Close and Abort come to their end.
LEMMA DownInv == ASSUME IInv, Shutdown \/ DrainTimeout PROVE IInv'
<1>1. /\ tr \in TrRec /\ UNCHANGED <<alive, stage, lst, rp, batch, inject, queue, rq>> /\ Type
      /\ \/ tr' = [tr EXCEPT !.down = "done"]
         \/ tr' = [tr EXCEPT !.down = "done", !.killed = TRUE]
  BY DEF IInv, Type, Shutdown, DrainTimeout, loopVars, TrRec
<1>2. tr' \in TrRec /\ tr'.want = tr.want /\ (tr.killed => tr'.killed)
  BY <1>1 DEF TrRec
<1>3. (\A K : Same(K)) /\ inject' \in Seq(Events) /\ batch' \in Seq(Events)
  BY <1>1, FlowSame
<1> QED BY <1>1, <1>2, <1>3, Quiet DEF IInv, Type, TrRec

-----------------------------------------------------------------------------
\* Ports that are shut.

\* shutPort of an open request.
LEMMA ShutReqOK ==
    ASSUME IInv, NEW q \in Reqs, OpenReq(q), NEW how \in {"close", "abort", "error"},
           how = "error" => rq[q].fail # "none",
           rq'[q] = Pushed(rq[q], IF how = "abort" THEN "abort" ELSE "close"),
           rp'[q].state = "closed", rp'[q].how = how, rp'[q].responded = rp[q].responded,
           Less(Offers(q)), Less(Errors(q)), QueueLess(q)
    PROVE  ReqOK(q)'
<1> DEFINE c == IF how = "abort" THEN "abort" ELSE "close"
<1>1. /\ rq[q] \in ReqRec /\ c \in Cmds /\ ReqOK(q) /\ rp[q].state = "open"
      /\ rq'[q] = Pushed(rq[q], c) /\ (c = "close" => how \in {"close", "error"})
      /\ c \in {"abort", "close"}
  BY DEF IInv, Type, OpenReq, Cmds
<1> HIDE DEF c
<1>2. /\ rq'[q].at = rq[q].at /\ rq'[q].gone = rq[q].gone
      /\ rq'[q].disc = rq[q].disc /\ rq'[q].todo = rq[q].todo /\ rq'[q].sent = rq[q].sent
      /\ rq'[q].fail = rq[q].fail /\ rq'[q].reply = rq[q].reply
  BY <1>1, PushedOK
<1>3. \A K : AtIn(Work(q)', K) => AtIn(Work(q), K) \/ c \in K
  BY <1>1, WorkPushed
<1>4. OfferOK(q)'
  BY <1>1, <1>2 DEF ReqOK, OfferOK, Less, QueueLess
<1>5. FreshOK(q)' /\ ReadOK(q)'
  BY <1>1, <1>2 DEF ReqOK, FreshOK, ReadOK, OpenReq
<1>6. WorkOK(q)'
  <2>1. /\ AtIn(Work(q)', {"respond"}) => AtIn(Work(q), {"respond"})
        /\ AtIn(Work(q)', {"close"}) => AtIn(Work(q), {"close"}) \/ c = "close"
    BY <1>1, <1>3
  <2>2. WorkOK(q) /\ rp[q].how = "none"
    BY <1>1 DEF ReqOK, WorkOK
  <2>3. ~AtIn(Work(q), {"close"}) /\ rq[q].reply # "complete"
    BY <1>1, <2>2 DEF WorkOK
  <2> QED BY <1>1, <1>2, <2>1, <2>2, <2>3 DEF WorkOK, Less
<1> QED BY <1>4, <1>5, <1>6 DEF ReqOK

\* shutPort of requests, and of the listener.
LEMMA ShutInv ==
    ASSUME IInv, NEW Q \in SUBSET Reqs, \A q \in Q : OpenReq(q),
           NEW how \in {"close", "abort", "error"},
           how = "error" => \A q \in Q : rq[q].fail # "none",
           NEW l \in BOOLEAN, Shut(Q, how, l),
           alive' \subseteq Actors, stage' \in {"run", "finishing", "over"},
           inject' \in Seq(Events), batch' \in Seq(Events),
           \A q \in Reqs : Less(Offers(q)) /\ Less(Errors(q)) /\ Same(Answers(q)),
           l \/ Same(Coming)
    PROVE  IInv'
<1> DEFINE cmd == IF how = "abort" THEN "abort" ELSE "close"
<1>1. /\ rp \in [Reqs -> PortRec] /\ rq \in [Reqs -> ReqRec] /\ lst \in LstRec /\ tr \in TrRec
      /\ queue \in Seq(Reqs) /\ cmd \in Cmds /\ cmd \in {"close", "abort"}
  BY DEF IInv, Type, LstRec, TrRec, Cmds
<1>2. /\ rp' = [q \in Reqs |-> IF q \in Q THEN [rp[q] EXCEPT !.state = "closed", !.how = how]
                               ELSE rp[q]]
      /\ rq' = [q \in Reqs |-> IF q \in Q THEN Pushed(rq[q], cmd) ELSE rq[q]]
      /\ IF l /\ lst.open
         THEN /\ lst' = [lst EXCEPT !.open = FALSE]
              /\ tr' = [tr EXCEPT !.closed = TRUE, !.want = FALSE, !.down = cmd]
              /\ queue' = <<>>
         ELSE UNCHANGED <<lst, tr, queue>>
  BY DEF Shut
<1>3. \A q \in Q : Pushed(rq[q], cmd) \in ReqRec
  <2> HIDE DEF cmd
  <2> QED BY <1>1, PushedOK
<1>4. \A q \in Q : LET p == [rp[q] EXCEPT !.state = "closed", !.how = how]
                   IN  p \in PortRec /\ p.state = "closed" /\ p.how = how
                       /\ p.responded = rp[q].responded
  <2>1. ASSUME NEW r \in PortRec
        PROVE  LET p == [r EXCEPT !.state = "closed", !.how = how]
               IN  p \in PortRec /\ p.state = "closed" /\ p.how = how
                   /\ p.responded = r.responded
    BY DEF PortRec
  <2>2. \A q \in Q : rp[q] \in PortRec
    BY <1>1
  <2> QED BY <2>1, <2>2
<1>5. rp' \in [Reqs -> PortRec] /\ rq' \in [Reqs -> ReqRec]
  BY <1>1, <1>2, <1>3, <1>4
<1>6. /\ lst' \in LstRec /\ tr' \in TrRec /\ queue' \in Seq(Reqs) /\ tr'.killed = tr.killed
      /\ l => ~lst'.open
      /\ lst'.open => lst' = lst /\ tr' = tr
  <2>1. CASE l /\ lst.open
    <3> HIDE DEF cmd
    <3>1. /\ lst' = [lst EXCEPT !.open = FALSE]
          /\ tr' = [tr EXCEPT !.closed = TRUE, !.want = FALSE, !.down = cmd]
          /\ queue' = <<>>
      BY <1>2, <2>1
    <3>2. lst' \in LstRec /\ ~lst'.open
      BY <1>1, <3>1 DEF LstRec
    <3>3. tr' \in TrRec /\ tr'.killed = tr.killed
      BY <1>1, <3>1 DEF TrRec
    <3>4. queue' \in Seq(Reqs)
      BY <3>1
    <3> QED BY <3>2, <3>3, <3>4
  <2>2. CASE ~(l /\ lst.open)
    BY <1>1, <1>2, <2>2 DEF LstRec, TrRec
  <2> QED BY <2>1, <2>2
<1>7. Type'
  BY <1>5, <1>6 DEF Type, LstRec, TrRec
<1>8. ListenerOK'
  <2> SUFFICES ASSUME lst'.open PROVE ListenerOK'
    BY DEF ListenerOK
  <2> QED BY <1>6, ListenerKept DEF IInv
<1>9. ASSUME NEW q \in Reqs PROVE ReqOK(q)'
  <2>1. QueueLess(q)
    BY <1>2, Nothing DEF QueueLess
  <2>2. CASE q \in Q
    <3>1. /\ rq'[q] = Pushed(rq[q], cmd) /\ rp'[q].state = "closed" /\ rp'[q].how = how
          /\ rp'[q].responded = rp[q].responded /\ OpenReq(q)
      BY <1>2, <1>4, <2>2
    <3> QED BY <2>1, <2>2, <3>1, ShutReqOK
  <2>3. CASE q \notin Q
    <3>1. rq'[q] = rq[q] /\ rp'[q] = rp[q] /\ ReqOK(q)
      BY <1>2, <2>3 DEF IInv
    <3>2. Less(Answers(q))
      BY DEF Same
    <3> QED BY <1>6, <2>1, <3>1, <3>2, ReqKept
  <2> QED BY <2>2, <2>3
<1> QED BY <1>7, <1>8, <1>9 DEF IInv

\* Port.close, the death of an owner, the end of the program.
LEMMA LeaveInv == ASSUME IInv, NEW a, Close(a) \/ Die(a) \/ Leave PROVE IInv'
<1>1. /\ UNCHANGED <<inject, batch>> /\ alive' \subseteq Actors
      /\ stage' \in {"run", "finishing", "over"}
  BY DEF Close, Die, Leave, IInv, Type
<1>2. (\A K : Same(K)) /\ inject' \in Seq(Events) /\ batch' \in Seq(Events)
  BY <1>1, FlowSame DEF IInv
<1>3. \A K : Less(K)
  BY <1>2 DEF Same
<1>4. CASE \E q \in Reqs : Owns(a, q) /\ Shut({q}, "close", FALSE)
  <2>1. PICK q \in Reqs : OpenReq(q) /\ Shut({q}, "close", FALSE)
    BY <1>4 DEF Owns
  <2> QED BY <1>1, <1>2, <1>3, <2>1, ShutInv
<1>5. CASE Shut({}, "close", TRUE)
  BY <1>1, <1>2, <1>3, <1>5, ShutInv
<1>6. CASE Shut({q \in Reqs : Owns(a, q)}, "abort", lst.owner = a)
  <2> DEFINE Q == {q \in Reqs : Owns(a, q)}
             l == lst.owner = a
  <2>1. Q \in SUBSET Reqs /\ (\A q \in Q : OpenReq(q)) /\ l \in BOOLEAN /\ Shut(Q, "abort", l)
    BY <1>6 DEF Owns
  <2> HIDE DEF Q, l
  <2> QED BY <1>1, <1>2, <1>3, <2>1, ShutInv
<1>7. CASE Shut({q \in Reqs : OpenReq(q)}, "abort", TRUE)
  <2> DEFINE Q == {q \in Reqs : OpenReq(q)}
  <2>1. Q \in SUBSET Reqs /\ (\A q \in Q : OpenReq(q)) /\ Shut(Q, "abort", TRUE)
    BY <1>7
  <2> HIDE DEF Q
  <2> QED BY <1>1, <1>2, <1>3, <2>1, ShutInv
<1> QED BY <1>4, <1>5, <1>6, <1>7 DEF Close, Die, Leave

\* Port.give, drainInject and the last step of the end.
LEMMA HandInv == ASSUME IInv, (\E a, b \in Actors : Give(a, b)) \/ Take \/ Over \/ UNCHANGED vars
                 PROVE  IInv'
<1>1. /\ rp \in [Reqs -> PortRec] /\ lst \in LstRec /\ tr \in TrRec /\ Type /\ alive \subseteq Actors
  BY DEF IInv, Type, LstRec, TrRec
<1>2. /\ alive' = alive /\ stage' \in {"run", "finishing", "over"} /\ UNCHANGED <<tr, queue, rq>>
      /\ \/ UNCHANGED <<inject, batch>>
         \/ batch = <<>> /\ batch' = inject /\ inject' = <<>>
  BY DEF Give, Take, Over, vars, IInv, Type
<1>3. (\A K : Same(K)) /\ inject' \in Seq(Events) /\ batch' \in Seq(Events)
  BY <1>1, <1>2, FlowSame
<1>4. /\ rp' \in [Reqs -> PortRec] /\ lst' \in LstRec
      /\ lst'.open = lst.open /\ lst'.armed = lst.armed
      /\ \A q \in Reqs : /\ rp'[q].state = rp[q].state /\ rp'[q].armed = rp[q].armed
                         /\ rp'[q].responded = rp[q].responded /\ rp'[q].how = rp[q].how
  <2>1. CASE UNCHANGED <<rp, lst>>
    BY <1>1, <2>1
  <2>2. ASSUME NEW b \in Actors, NEW q \in Reqs, rp' = [rp EXCEPT ![q].owner = b], lst' = lst
        PROVE  <1>4!:
    <3>1. LET p == [rp[q] EXCEPT !.owner = b]
          IN  /\ p \in PortRec /\ p.state = rp[q].state /\ p.armed = rp[q].armed
              /\ p.responded = rp[q].responded /\ p.how = rp[q].how
      BY <1>1 DEF PortRec
    <3>2. rp' = [rp EXCEPT ![q] = [rp[q] EXCEPT !.owner = b]]
      BY <1>1, <2>2
    <3> QED BY <1>1, <2>2, <3>1, <3>2
  <2>3. ASSUME NEW b \in Actors, lst' = [lst EXCEPT !.owner = b], rp' = rp
        PROVE  <1>4!:
    BY <1>1, <2>3 DEF LstRec
  <2> QED BY <2>1, <2>2, <2>3 DEF Give, Take, Over, vars
<1> QED BY <1>1, <1>2, <1>3, <1>4, Quiet DEF LstRec, TrRec

-----------------------------------------------------------------------------
\* drainInject's parse.

\* A request gets its port.
LEMMA DeliverOK ==
    ASSUME IInv, NEW q \in Reqs, AtIn(Flow, Offers(q)), ~AtIn(Flow', Offers(q)),
           Same(Answers(q)), Less(Errors(q)), UNCHANGED queue, UNCHANGED tr,
           NEW o, rp'[q] = [rp[q] EXCEPT !.state = "open", !.owner = o],
           rq'[q] = [rq[q] EXCEPT !.started = TRUE, !.wake = TRUE]
    PROVE  ReqOK(q)'
<1>1. rp[q] \in PortRec /\ rq[q] \in ReqRec /\ ReqOK(q)
  BY DEF IInv, Type
<1>2. /\ rp[q].state = "none" /\ rq[q].at # "absent" /\ ~AtIn(queue, {q}) /\ Single(queue, {q})
  BY <1>1 DEF ReqOK, OfferOK
<1>3. /\ ~rp[q].armed /\ ~rp[q].responded /\ rp[q].how = "none"
      /\ rq[q].cmds = <<>> /\ rq[q].todo = <<>> /\ ~AtIn(Flow, Answers(q))
  BY <1>1, <1>2 DEF ReqOK, FreshOK
<1>4. /\ rp'[q].state = "open" /\ ~rp'[q].armed /\ ~rp'[q].responded /\ rp'[q].how = "none"
  BY <1>1, <1>3 DEF PortRec
<1>5. /\ rq'[q].at = rq[q].at /\ rq'[q].gone = rq[q].gone
      /\ rq'[q].disc = rq[q].disc /\ rq'[q].todo = <<>> /\ rq'[q].cmds = <<>>
      /\ rq'[q].sent = rq[q].sent /\ rq'[q].fail = rq[q].fail /\ rq'[q].reply = rq[q].reply
  BY <1>1, <1>3 DEF ReqRec
<1>6. Work(q)' = <<>> /\ Work(q) = <<>>
  BY <1>3, <1>5 DEF Work
<1>7. OfferOK(q)'
  BY <1>2, <1>4, <1>5 DEF OfferOK, AtIn, Single
<1>8. FreshOK(q)'
  BY <1>1, <1>4, <1>5 DEF ReqOK, FreshOK
<1>9. ReadOK(q)'
  BY <1>3, <1>4, <1>6, Nothing DEF ReadOK, Same, Less
<1>10. WorkOK(q)'
  BY <1>1, <1>3, <1>4, <1>5, <1>6, Nothing DEF ReqOK, WorkOK, Less
<1> QED BY <1>7, <1>8, <1>9, <1>10 DEF ReqOK

\* httpEvent and streamEvent.
LEMMA ParseInv == ASSUME IInv, Parse PROVE IInv'
<1> DEFINE e == Head(batch)
<1>1. /\ batch # <<>> /\ batch' = Tail(batch) /\ inject' = inject /\ UNCHANGED <<alive, stage>>
      /\ Type /\ lst \in LstRec /\ rp \in [Reqs -> PortRec] /\ rq \in [Reqs -> ReqRec]
      /\ alive' \subseteq Actors /\ stage' \in {"run", "finishing", "over"}
  BY DEF Parse, IInv, Type, LstRec
<1>2. /\ inject' \in Seq(Events) /\ batch' \in Seq(Events) /\ e \in Events
      /\ \A K : Less(K)
      /\ \A K : e \notin K => Same(K)
      /\ \A K : e \in K => AtIn(Flow, K)
      /\ \A K : e \in K /\ Single(Flow, K) => ~AtIn(Flow', K)
  BY <1>1, FlowParse
<1>3. Event(e)
  BY DEF Parse
<1> HIDE DEF e
<1>4. /\ e.ev \in {"request", "refused", "data", "eof", "error"}
      /\ e.ev # "refused" => e.req \in Reqs
  BY <1>2 DEF Events
<1>5. /\ e \in Coming <=> e.ev \in {"request", "refused"}
      /\ \A q \in Reqs : /\ e \in Offers(q) <=> e.ev = "request" /\ e.req = q
                         /\ e \in Answers(q) <=> e.ev \in {"data", "eof"} /\ e.req = q
                         /\ e \in Errors(q) <=> e.ev = "error" /\ e.req = q
  BY <1>2 DEF Coming, Offers, Answers, Errors
<1>6. ASSUME NEW q \in Reqs, rp'[q] = rp[q], rq'[q] = rq[q], UNCHANGED <<tr, queue>>,
             OpenReq(q) => ~(e.ev \in {"data", "eof"} /\ e.req = q)
      PROVE  ReqOK(q)'
  <2>1. QueueLess(q) /\ ReqOK(q)
    BY <1>6 DEF QueueLess, IInv
  <2>2. OpenReq(q) => Same(Answers(q))
    BY <1>2, <1>5, <1>6
  <2> QED BY <1>2, <1>6, <2>1, <2>2, ReqKept
<1>7. CASE e.ev = "request" /\ lst.open /\ Deliver(e.req)
  <2>0. PICK q \in Reqs : q = e.req
    BY <1>4, <1>7
  <2>1. /\ q \in Reqs /\ lst' = [lst EXCEPT !.armed = FALSE] /\ UNCHANGED <<tr, queue>>
        /\ rp' = [rp EXCEPT ![q].state = "open", ![q].owner = lst.owner]
        /\ rq' = [rq EXCEPT ![q].started = TRUE, ![q].wake = TRUE]
    BY <1>7, <2>0 DEF Deliver
  <2>2. /\ rp' = [rp EXCEPT ![q] = [rp[q] EXCEPT !.state = "open", !.owner = lst.owner]]
        /\ rq' = [rq EXCEPT ![q] = [rq[q] EXCEPT !.started = TRUE, !.wake = TRUE]]
    BY <1>1, <2>1
  <2>3. /\ [rp[q] EXCEPT !.state = "open", !.owner = lst.owner] \in PortRec
        /\ [rq[q] EXCEPT !.started = TRUE, !.wake = TRUE] \in ReqRec
    <3>1. rp[q] \in PortRec /\ rq[q] \in ReqRec /\ lst.owner \in Actors
      BY <1>1 DEF LstRec
    <3>2. [rp[q] EXCEPT !.state = "open", !.owner = lst.owner] \in PortRec
      BY <3>1 DEF PortRec
    <3>3. [rq[q] EXCEPT !.started = TRUE, !.wake = TRUE] \in ReqRec
      BY <3>1 DEF ReqRec
    <3> QED BY <3>2, <3>3
  <2>4. /\ rp' \in [Reqs -> PortRec] /\ rq' \in [Reqs -> ReqRec]
        /\ rp'[q] = [rp[q] EXCEPT !.state = "open", !.owner = lst.owner]
        /\ rq'[q] = [rq[q] EXCEPT !.started = TRUE, !.wake = TRUE]
        /\ \A x \in Reqs : x # q => rp'[x] = rp[x] /\ rq'[x] = rq[x]
    BY <1>1, <2>1, <2>2, <2>3
  <2>5. lst' \in LstRec /\ lst'.open = lst.open /\ ~lst'.armed
    BY <1>1, <2>1 DEF LstRec
  <2>6. Type'
    BY <1>1, <1>2, <2>1, <2>4, <2>5 DEF Type, LstRec
  <2>7. ListenerOK'
    BY <1>2, <1>5, <1>7, <2>1, <2>5 DEF IInv, ListenerOK
  <2>8. ReqOK(q)'
    <3>1. e \in Offers(q) /\ e \notin Answers(q) /\ Single(Flow, Offers(q))
      BY <1>5, <1>7, <2>0 DEF IInv, ReqOK, OfferOK
    <3>2. AtIn(Flow, Offers(q)) /\ ~AtIn(Flow', Offers(q)) /\ Same(Answers(q)) /\ Less(Errors(q))
      BY <1>2, <3>1
    <3> QED BY <2>1, <2>4, <3>2, DeliverOK
  <2>9. ASSUME NEW x \in Reqs PROVE ReqOK(x)'
    <3>1. CASE x = q
      BY <2>8, <3>1
    <3>2. CASE x # q
      BY <1>6, <1>7, <2>1, <2>4, <3>2
    <3> QED BY <3>1, <3>2
  <2> QED BY <2>6, <2>7, <2>9 DEF IInv
<1>8. CASE e.ev = "refused" /\ Shut({}, "close", TRUE)
  <2>1. \A q \in Reqs : Less(Offers(q)) /\ Less(Errors(q)) /\ Same(Answers(q))
    BY <1>2, <1>5, <1>8
  <2> QED BY <1>1, <1>2, <1>8, <2>1, ShutInv
<1>9. CASE /\ e.ev \in {"data", "eof"} /\ OpenReq(e.req)
           /\ rp' = [rp EXCEPT ![e.req].armed = FALSE]
           /\ UNCHANGED <<lst, tr, queue, rq>>
  <2>0. PICK q \in Reqs : q = e.req
    BY <1>4, <1>9
  <2> DEFINE p == [rp[q] EXCEPT !.armed = FALSE]
  <2>1. /\ q \in Reqs /\ rp[q].state = "open" /\ rp' = [rp EXCEPT ![q] = p]
        /\ UNCHANGED <<lst, tr, queue, rq>>
    BY <1>1, <1>9, <2>0 DEF OpenReq
  <2>2. /\ p \in PortRec /\ p.state = rp[q].state /\ ~p.armed
        /\ p.responded = rp[q].responded /\ p.how = rp[q].how
    <3>1. rp[q] \in PortRec
      BY <1>1
    <3> QED BY <3>1 DEF PortRec
  <2>3. e \in Answers(q) /\ e \notin Coming /\ e \notin Offers(q) /\ e \notin Errors(q)
    BY <1>5, <1>9, <2>0
  <2> HIDE DEF p
  <2>4. rp' \in [Reqs -> PortRec] /\ rp'[q] = p /\ \A x \in Reqs : x # q => rp'[x] = rp[x]
    BY <1>1, <2>1, <2>2
  <2>5. Type'
    BY <1>1, <1>2, <2>1, <2>4 DEF Type
  <2>6. ListenerOK'
    BY <1>2, <2>1, <2>3, ListenerKept DEF IInv
  <2>7. ReqOK(q)'
    <3>1. ReqOK(q) /\ Work(q)' = Work(q) /\ rq'[q] = rq[q]
      BY <2>1 DEF IInv, Work
    <3>2. AtIn(Flow, Answers(q)) /\ (Single(Flow, Answers(q)) => ~AtIn(Flow', Answers(q)))
      BY <1>2, <2>3
    <3>3. Less(Offers(q)) /\ Less(Errors(q)) /\ Less(Answers(q))
      BY <1>2
    <3>4. OfferOK(q)' /\ FreshOK(q)'
      BY <2>1, <2>2, <2>4, <3>1, <3>3 DEF ReqOK, OfferOK, FreshOK, Less
    <3>5. ReadOK(q)'
      <4> SUFFICES ASSUME rq[q].fail = "none", rq[q].at # "exited"
                   PROVE  ~AtIn(Work(q), {"read"}) /\ ~AtIn(Flow', Answers(q))
        BY <2>2, <2>4, <3>1 DEF ReadOK
      <4> QED BY <2>1, <3>1, <3>2 DEF ReqOK, ReadOK, OpenReq
    <3>6. WorkOK(q)'
      BY <2>2, <2>4, <3>1, <3>3 DEF ReqOK, WorkOK, Less
    <3> QED BY <3>4, <3>5, <3>6 DEF ReqOK
  <2>8. ASSUME NEW x \in Reqs PROVE ReqOK(x)'
    <3>1. CASE x = q
      BY <2>7, <3>1
    <3>2. CASE x # q
      BY <1>6, <2>0, <2>1, <2>4, <3>2
    <3> QED BY <3>1, <3>2
  <2> QED BY <2>5, <2>6, <2>8 DEF IInv
<1>10. CASE e.ev = "error" /\ OpenReq(e.req) /\ Shut({e.req}, "error", FALSE)
  <2>0. PICK q \in Reqs : q = e.req
    BY <1>4, <1>10
  <2> DEFINE Q == {q}
  <2>1. q \in Reqs /\ e \in Errors(q) /\ e \notin Coming
    BY <1>5, <1>10, <2>0
  <2>2. rq[q].fail # "none"
    BY <1>2, <2>1 DEF IInv, ReqOK, WorkOK
  <2>3. Q \in SUBSET Reqs /\ (\A x \in Q : OpenReq(x) /\ rq[x].fail # "none")
        /\ Shut(Q, "error", FALSE)
    BY <1>10, <2>0, <2>1, <2>2
  <2>4. Same(Coming) /\ \A x \in Reqs : Less(Offers(x)) /\ Less(Errors(x)) /\ Same(Answers(x))
    BY <1>2, <1>5, <1>10
  <2> HIDE DEF Q
  <2> QED BY <1>1, <1>2, <2>3, <2>4, ShutInv
<1>11. CASE /\ ~IF e.ev \in {"request", "refused"} THEN lst.open ELSE OpenReq(e.req)
            /\ UNCHANGED <<lst, rp, tr, queue, rq>>
  <2>1. Type'
    BY <1>1, <1>2, <1>11 DEF Type
  <2>2. ListenerOK'
    <3>1. lst.open => Same(Coming)
      BY <1>2, <1>5, <1>11
    <3> QED BY <1>11, <3>1, ListenerKept DEF IInv
  <2>3. ASSUME NEW x \in Reqs PROVE ReqOK(x)'
    BY <1>6, <1>11, <2>3
  <2> QED BY <2>1, <2>2, <2>3 DEF IInv
<1> QED BY <1>3, <1>7, <1>8, <1>9, <1>10, <1>11 DEF Event

-----------------------------------------------------------------------------
\* The goroutine of a request.

\* A step of it that tells the loop nothing about the others.
LEMMA GoInv ==
    ASSUME IInv, NEW q \in Reqs, UNCHANGED <<alive, stage, lst, rp, batch, tr>>,
           NEW r \in ReqRec, rq' = [rq EXCEPT ![q] = r],
           queue' \in Seq(Reqs), \A x \in Reqs : QueueLess(x),
           UNCHANGED inject \/ \E ev \in {"data", "eof", "error"} : Emit(ev, q),
           ReqOK(q)'
    PROVE  IInv'
<1>1. /\ rq \in [Reqs -> ReqRec] /\ Type
      /\ rq' \in [Reqs -> ReqRec] /\ \A x \in Reqs : x # q => rq'[x] = rq[x]
  BY DEF IInv, Type
<1>2. /\ inject' \in Seq(Events) /\ batch' \in Seq(Events) /\ Same(Coming)
      /\ \A x \in Reqs : x # q => Same(Offers(x)) /\ Same(Errors(x)) /\ Same(Answers(x))
  <2>1. CASE UNCHANGED inject
    BY <1>1, <2>1, FlowSame
  <2>2. ASSUME NEW ev \in {"data", "eof", "error"}, Emit(ev, q) PROVE <1>2!:
    <3> DEFINE e == [ev |-> ev, req |-> q]
    <3>1. e \in Events /\ e \notin Coming
          /\ \A x : x # q => e \notin Offers(x) /\ e \notin Errors(x) /\ e \notin Answers(x)
      BY DEF Events, Coming, Offers, Errors, Answers
    <3>2. /\ inject' \in Seq(Events) /\ batch' \in Seq(Events)
          /\ \A K : e \notin K => Same(K)
      BY <1>1, <2>2, <3>1, FlowEmit
    <3> HIDE DEF e
    <3> QED BY <3>1, <3>2
  <2> QED BY <2>1, <2>2
<1>3. Type'
  BY <1>1, <1>2 DEF Type
<1>4. ListenerOK'
  BY <1>2, ListenerKept DEF IInv
<1>5. ASSUME NEW x \in Reqs PROVE ReqOK(x)'
  <2>1. CASE x = q
    BY <2>1
  <2>2. CASE x # q
    <3>1. ReqOK(x) /\ QueueLess(x) /\ rq'[x] = rq[x] /\ rp'[x] = rp[x] /\ tr' = tr
      BY <1>1, <2>2 DEF IInv
    <3>2. Less(Offers(x)) /\ Less(Errors(x)) /\ Less(Answers(x)) /\ Same(Answers(x))
      BY <1>2, <2>2 DEF Same
    <3> QED BY <3>1, <3>2, ReqKept
  <2> QED BY <2>1, <2>2
<1> QED BY <1>3, <1>4, <1>5 DEF IInv

\* One step of a goroutine that was served: what it has to keep.
LEMMA StepOK ==
    ASSUME IInv, NEW q \in Reqs, UNCHANGED <<rp, tr>>, QueueLess(q),
           rq[q].at # "absent", rq'[q].at # "absent", rq'[q].gone = rq[q].gone,
           rq'[q].at \in {"top", "select"} => rq'[q].todo = <<>>,
           AtIn(Work(q)', {"close"}) => AtIn(Work(q), {"close"}),
           AtIn(Work(q)', {"respond"}) => AtIn(Work(q), {"respond"}),
           rq'[q].sent => rq[q].sent \/ AtIn(Work(q), {"respond"}),
           rq[q].fail # "none" => rq'[q].fail # "none",
           Less(Offers(q)), Less(Errors(q)) \/ rq'[q].fail # "none",
           rq'[q].reply = "complete" => rp[q].how = "close" /\ rp[q].responded,
           FreshOK(q)', ReadOK(q)'
    PROVE  ReqOK(q)'
<1>1. ReqOK(q)
  BY DEF IInv
<1>2. OfferOK(q)'
  BY <1>1 DEF ReqOK, OfferOK, Less, QueueLess
<1>3. WorkOK(q)'
  BY <1>1 DEF ReqOK, WorkOK, Less
<1> QED BY <1>2, <1>3 DEF ReqOK

\* failWith.
LEMMA FailedOK ==
    ASSUME NEW r \in ReqRec, NEW why \in {"closed", "bad"}
    PROVE  LET n == Failed(r, why) IN
           /\ n \in ReqRec /\ n.at = r.at /\ n.started = r.started /\ n.gone = r.gone
           /\ n.disc = r.disc /\ n.todo = r.todo /\ n.cmds = r.cmds /\ n.sent = r.sent
           /\ n.fail # "none" /\ n.reply \in {r.reply, "error"}
<1> DEFINE n == [r EXCEPT !.fail = why,
                          !.reply = IF ~r.sent /\ why # "closed" THEN "error" ELSE @]
<1>1. n \in ReqRec
  BY DEF ReqRec
<1>2. /\ n.at = r.at /\ n.started = r.started /\ n.gone = r.gone
      /\ n.disc = r.disc /\ n.todo = r.todo /\ n.cmds = r.cmds /\ n.sent = r.sent
      /\ n.fail = why /\ n.reply \in {r.reply, "error"}
  BY DEF ReqRec
<1> HIDE DEF n
<1> QED BY <1>1, <1>2 DEF Failed, n

\* An event of the goroutine is neither an offer nor of anyone else.
LEMMA Own ==
    ASSUME Type, NEW q \in Reqs, NEW ev \in {"data", "eof", "error"}, Emit(ev, q), batch' = batch
    PROVE  /\ Less(Offers(q)) /\ (ev # "error" => Less(Errors(q)))
           /\ ev = "error" => Same(Answers(q))
           /\ ev # "error" => /\ AtIn(Flow', Answers(q))
                              /\ ~AtIn(Flow, Answers(q)) => Single(Flow', Answers(q))
<1> DEFINE e == [ev |-> ev, req |-> q]
<1>1. /\ e \in Events /\ e \notin Offers(q) /\ (ev # "error" => e \notin Errors(q))
      /\ e \in Answers(q) <=> ev # "error"
  BY DEF Events, Offers, Errors, Answers
<1>2. /\ \A K : e \notin K => Same(K)
      /\ \A K : e \in K => AtIn(Flow', K)
      /\ \A K : ~AtIn(Flow, K) => Single(Flow', K)
  BY <1>1, FlowEmit
<1> HIDE DEF e
<1> QED BY <1>1, <1>2 DEF Same

\* The top of serve: the commands are taken, or the client is gone.
LEMMA TopInv == ASSUME IInv, NEW q \in Reqs, Top(q) PROVE IInv'
<1>1. /\ rq[q].at = "top" /\ rq[q] \in ReqRec /\ rq \in [Reqs -> ReqRec] /\ Type /\ ReqOK(q)
      /\ UNCHANGED <<alive, stage, lst, rp, batch, tr, queue>>
      /\ queue' \in Seq(Reqs) /\ (\A x \in Reqs : QueueLess(x))
  BY DEF Top, loopVars, IInv, Type, QueueLess
<1>2. rq[q].todo = <<>> /\ rq[q].cmds \in Seq(Cmds)
  BY <1>1 DEF ReqOK, WorkOK, ReqRec
<1> DEFINE t == [rq[q] EXCEPT !.at = "exec", !.snap = rq[q].started,
                              !.todo = rq[q].cmds, !.cmds = <<>>]
<1>3. /\ t.at = "exec" /\ t.started = rq[q].started /\ t.gone = rq[q].gone
      /\ t.disc = rq[q].disc /\ t.todo = rq[q].cmds /\ t.cmds = <<>>
      /\ t.sent = rq[q].sent /\ t.fail = rq[q].fail /\ t.reply = rq[q].reply
  BY <1>1 DEF ReqRec
<1>4. t \in ReqRec
  BY <1>1, <1>2 DEF ReqRec
<1>5. /\ rq[q].started /\ rq[q].disc =>
            rq' = [rq EXCEPT ![q] = Failed(t, "closed")] /\ TellFail(q)
      /\ ~(rq[q].started /\ rq[q].disc) => rq' = [rq EXCEPT ![q] = t] /\ UNCHANGED inject
  BY DEF Top
<1> HIDE DEF t
<1>6. ASSUME rq'[q].todo = rq[q].cmds, rq'[q].cmds = <<>> PROVE Work(q)' = Work(q)
  <2> DEFINE c == rq[q].cmds
  <2>1. c \in Seq(Cmds) /\ <<>> \in Seq(Cmds)
    BY <1>2
  <2>2. Work(q) = <<>> \o c /\ Work(q)' = c \o <<>>
    BY <1>2, <1>6 DEF Work
  <2> HIDE DEF c
  <2> QED BY <2>1, <2>2, Joined
<1>7. CASE rq[q].started /\ rq[q].disc
  <2> DEFINE r == Failed(t, "closed")
  <2>1. /\ r \in ReqRec /\ r.at = "exec" /\ r.started = rq[q].started /\ r.gone = rq[q].gone
        /\ r.disc = rq[q].disc /\ r.todo = rq[q].cmds /\ r.cmds = <<>>
        /\ r.sent = rq[q].sent /\ r.fail # "none" /\ r.reply \in {rq[q].reply, "error"}
    BY <1>3, <1>4, FailedOK
  <2>2. rq' = [rq EXCEPT ![q] = r]
    BY <1>5, <1>7
  <2> HIDE DEF r
  <2>3. rq'[q] = r
    BY <1>1, <2>2
  <2>4. Work(q)' = Work(q)
    BY <1>6, <2>1, <2>3
  <2>5. rp[q].state # "none"
    BY <1>1, <1>7 DEF ReqOK, FreshOK
  <2>6. FreshOK(q)' /\ ReadOK(q)'
    BY <1>1, <2>1, <2>3, <2>5 DEF ReqOK, FreshOK, ReadOK
  <2>7. Less(Offers(q)) /\ (UNCHANGED inject \/ Emit("error", q))
    <3>1. CASE UNCHANGED inject
      BY <1>1, <3>1, FlowSame DEF Same
    <3>2. CASE Emit("error", q)
      BY <1>1, <3>2, Own
    <3> QED BY <1>5, <1>7, <3>1, <3>2 DEF TellFail
  <2>8. ReqOK(q)'
    BY <1>1, <2>1, <2>3, <2>4, <2>6, <2>7, StepOK DEF ReqOK, WorkOK
  <2> QED BY <1>1, <2>1, <2>2, <2>7, <2>8, GoInv
<1>8. CASE ~(rq[q].started /\ rq[q].disc)
  <2>1. rq' = [rq EXCEPT ![q] = t] /\ UNCHANGED inject
    BY <1>5, <1>8
  <2>2. rq'[q] = t
    BY <1>1, <2>1
  <2>3. Work(q)' = Work(q)
    BY <1>3, <1>6, <2>2
  <2>4. (\A K : Same(K)) /\ (\A K : Less(K)) /\ Flow' = Flow
    BY <1>1, <2>1, FlowSame DEF Same
  <2>5. FreshOK(q)' /\ ReadOK(q)'
    BY <1>1, <1>2, <1>3, <2>2, <2>3, <2>4 DEF ReqOK, FreshOK, ReadOK, OpenReq
  <2>6. ReqOK(q)'
    BY <1>1, <1>3, <2>2, <2>3, <2>4, <2>5, StepOK DEF ReqOK, WorkOK
  <2> QED BY <1>1, <1>4, <2>1, <2>6, GoInv
<1> QED BY <1>7, <1>8

\* A command that is not the last.
LEMMA CommandOK ==
    ASSUME IInv, NEW q \in Reqs, rq[q].at = "exec", rq[q].todo # <<>>, NEW r \in ReqRec,
           rq' = [rq EXCEPT ![q] = r], UNCHANGED <<alive, stage, lst, rp, batch, tr, queue>>,
           r.at = "exec", r.started = rq[q].started, r.gone = rq[q].gone, r.disc = rq[q].disc,
           r.todo = Tail(rq[q].todo), r.cmds = rq[q].cmds,
           r.sent => rq[q].sent \/ Head(rq[q].todo) = "respond",
           rq[q].fail # "none" => r.fail # "none",
           r.reply \in {rq[q].reply, "error", "begun"},
           IF r.fail # "none"
           THEN UNCHANGED inject \/ Emit("error", q)
           ELSE IF Head(rq[q].todo) = "read"
           THEN \E ev \in {"data", "eof"} : Emit(ev, q)
           ELSE UNCHANGED inject
    PROVE  IInv'
<1>1. /\ rq \in [Reqs -> ReqRec] /\ Type /\ ReqOK(q) /\ rq'[q] = r
      /\ rq[q].todo \in Seq(Cmds) /\ rq[q].cmds \in Seq(Cmds)
      /\ queue' \in Seq(Reqs) /\ (\A x \in Reqs : QueueLess(x))
  BY DEF IInv, Type, ReqRec, QueueLess
<1> DEFINE c == Head(rq[q].todo)
           w == Work(q)
<1>2. w \in Seq(Cmds) /\ w # <<>> /\ Head(w) = c /\ Work(q)' = Tail(w)
  <2> DEFINE s == rq[q].todo
             t == rq[q].cmds
  <2>1. s \in Seq(Cmds) /\ t \in Seq(Cmds) /\ s # <<>> /\ w = s \o t /\ c = Head(s)
        /\ Work(q)' = Tail(s) \o t
    BY <1>1 DEF Work
  <2> HIDE DEF s, t, w, c
  <2> QED BY <2>1, Joined
<1>3. /\ \A K : AtIn(w, K) <=> AtIn(Work(q)', K) \/ c \in K
      /\ \A K : Single(w, K) => Single(Work(q)', K)
      /\ \A K : Single(w, K) /\ c \in K => ~AtIn(Work(q)', K)
  BY <1>2, Popped
<1>4. rp[q].state # "none"
  BY <1>1 DEF ReqOK, FreshOK
<1>5. CASE r.fail # "none"
  <2>1. Less(Offers(q))
    <3>1. CASE UNCHANGED inject
      BY <1>1, <3>1, FlowSame DEF Same
    <3>2. CASE Emit("error", q)
      BY <1>1, <3>2, Own
    <3> QED BY <1>5, <3>1, <3>2
  <2>2. FreshOK(q)' /\ ReadOK(q)'
    BY <1>1, <1>4, <1>5 DEF ReqOK, FreshOK, ReadOK
  <2>3. ReqOK(q)'
    BY <1>1, <1>3, <1>5, <2>1, <2>2, StepOK DEF ReqOK, WorkOK
  <2> QED BY <1>1, <1>5, <2>3, GoInv
<1>6. CASE r.fail = "none" /\ c = "read"
  <2>1. PICK ev \in {"data", "eof"} : Emit(ev, q)
    BY <1>6
  <2>2. /\ Less(Offers(q)) /\ Less(Errors(q)) /\ AtIn(Flow', Answers(q))
        /\ ~AtIn(Flow, Answers(q)) => Single(Flow', Answers(q))
    BY <1>1, <2>1, Own
  <2>3. FreshOK(q)'
    BY <1>1, <1>4 DEF ReqOK, FreshOK
  <2>4. ReadOK(q)'
    <3> SUFFICES ASSUME OpenReq(q) PROVE ReadOK(q)'
      BY DEF ReadOK, OpenReq
    <3>1. rq[q].fail = "none" /\ rq[q].at # "exited"
      BY <1>6
    <3>2. AtIn(w, {"read"})
      BY <1>3, <1>6
    <3>3. rp[q].armed /\ Single(w, {"read"}) /\ ~AtIn(Flow, Answers(q))
      BY <1>1, <3>1, <3>2 DEF ReqOK, ReadOK
    <3>4. ~AtIn(Work(q)', {"read"})
      BY <1>3, <1>6, <3>3
    <3> QED BY <2>2, <3>3, <3>4 DEF ReadOK
  <2>5. ReqOK(q)'
    BY <1>1, <1>3, <2>2, <2>3, <2>4, StepOK DEF ReqOK, WorkOK
  <2> QED BY <1>1, <2>1, <2>5, GoInv
<1>7. CASE r.fail = "none" /\ c # "read"
  <2>1. UNCHANGED inject
    BY <1>7
  <2>2. (\A K : Same(K)) /\ (\A K : Less(K)) /\ Flow' = Flow
    BY <1>1, <2>1, FlowSame DEF Same
  <2>3. FreshOK(q)'
    BY <1>1, <1>4 DEF ReqOK, FreshOK
  <2>4. ReadOK(q)'
    <3> SUFFICES ASSUME OpenReq(q) PROVE ReadOK(q)'
      BY DEF ReadOK, OpenReq
    <3>1. rq[q].fail = "none" /\ rq[q].at # "exited"
      BY <1>7
    <3>2. AtIn(Work(q)', {"read"}) <=> AtIn(w, {"read"})
      BY <1>3, <1>7
    <3> QED BY <1>1, <1>3, <2>2, <3>1, <3>2 DEF ReqOK, ReadOK
  <2>5. ReqOK(q)'
    BY <1>1, <1>3, <2>2, <2>3, <2>4, StepOK DEF ReqOK, WorkOK
  <2> QED BY <1>1, <2>1, <2>5, GoInv
<1> QED BY <1>5, <1>6, <1>7

\* The last command.
LEMMA LastOK ==
    ASSUME IInv, NEW q \in Reqs, rq[q].at = "exec", rq[q].todo # <<>>,
           Head(rq[q].todo) \in {"close", "abort"},
           UNCHANGED <<alive, stage, lst, rp, batch, tr, queue>>,
           ExecClose(q, [rq[q] EXCEPT !.todo = Tail(@)], Head(rq[q].todo) = "abort")
    PROVE  IInv'
<1> DEFINE o == [rq[q] EXCEPT !.todo = Tail(@)]
           abort == Head(rq[q].todo) = "abort"
           reply == FinalReply(o, abort)
           r == [o EXCEPT !.at = "exited", !.reply = reply]
<1>1. /\ rq \in [Reqs -> ReqRec] /\ Type /\ ReqOK(q) /\ rq[q] \in ReqRec
      /\ rq[q].todo \in Seq(Cmds) /\ rq[q].cmds \in Seq(Cmds)
      /\ queue' \in Seq(Reqs) /\ (\A x \in Reqs : QueueLess(x))
      /\ rq' = [rq EXCEPT ![q] = r] /\ UNCHANGED inject
  BY DEF IInv, Type, ReqRec, QueueLess, ExecClose
<1>2. /\ o \in ReqRec /\ o.sent = rq[q].sent /\ o.fail = rq[q].fail /\ o.reply = rq[q].reply
      /\ o.started = rq[q].started /\ o.gone = rq[q].gone /\ o.disc = rq[q].disc
      /\ o.todo = Tail(rq[q].todo) /\ o.cmds = rq[q].cmds
  <2>1. Tail(rq[q].todo) \in Seq(Cmds)
    BY <1>1
  <2> QED BY <1>1, <2>1 DEF ReqRec
<1> HIDE DEF o
<1>3. /\ reply \in {"none", "begun", "complete", "cut", "error", "500", "503"}
      /\ reply = "complete" => o.reply = "complete" \/ (o.sent /\ ~abort /\ o.fail = "none")
  BY <1>2 DEF FinalReply, ReqRec
<1> HIDE DEF reply
<1>4. /\ r \in ReqRec /\ r.at = "exited" /\ r.reply = reply /\ r.sent = rq[q].sent
      /\ r.fail = rq[q].fail /\ r.gone = rq[q].gone /\ r.disc = rq[q].disc
      /\ r.todo = Tail(rq[q].todo) /\ r.cmds = rq[q].cmds
  BY <1>2, <1>3 DEF ReqRec
<1> HIDE DEF r
<1>5. rq'[q] = r
  BY <1>1
<1> DEFINE c == Head(rq[q].todo)
           w == Work(q)
<1>6. w \in Seq(Cmds) /\ w # <<>> /\ Head(w) = c /\ Work(q)' = Tail(w)
  <2> DEFINE s == rq[q].todo
             t == rq[q].cmds
  <2>1. s \in Seq(Cmds) /\ t \in Seq(Cmds) /\ s # <<>> /\ w = s \o t /\ c = Head(s)
        /\ Work(q)' = Tail(s) \o t
    BY <1>1, <1>4, <1>5 DEF Work
  <2> HIDE DEF s, t, w, c
  <2> QED BY <2>1, Joined
<1>7. /\ \A K : AtIn(w, K) <=> AtIn(Work(q)', K) \/ c \in K
  BY <1>6, Popped
<1>8. rp[q].state # "none" /\ WorkOK(q)
  BY <1>1 DEF ReqOK, FreshOK
<1>9. reply = "complete" => rp[q].how = "close" /\ rp[q].responded
  <2> SUFFICES ASSUME reply = "complete", rq[q].reply # "complete"
               PROVE  rp[q].how = "close" /\ rp[q].responded
    BY <1>8 DEF WorkOK
  <2>1. rq[q].sent /\ c = "close" /\ rq[q].fail = "none"
    BY <1>2, <1>3
  <2>2. AtIn(w, {"close"})
    BY <1>7, <2>1
  <2> QED BY <1>8, <2>1, <2>2 DEF WorkOK
<1>10. FreshOK(q)' /\ ReadOK(q)'
  BY <1>1, <1>4, <1>5, <1>8 DEF ReqOK, FreshOK, ReadOK
<1>11. (\A K : Same(K)) /\ (\A K : Less(K))
  BY <1>1, FlowSame DEF Same
<1>12. ReqOK(q)'
  BY <1>1, <1>4, <1>5, <1>7, <1>9, <1>10, <1>11, StepOK
<1> QED BY <1>1, <1>4, <1>12, GoInv

\* exec.
LEMMA ExecInv == ASSUME IInv, NEW q \in Reqs, Exec(q) PROVE IInv'
<1> DEFINE c == Head(rq[q].todo)
           o == [rq[q] EXCEPT !.todo = Tail(@)]
<1>1. /\ rq[q].at = "exec" /\ rq[q].todo # <<>> /\ rq[q] \in ReqRec /\ rq[q].todo \in Seq(Cmds)
      /\ UNCHANGED <<alive, stage, lst, rp, batch, tr, queue>>
      /\ \/ c = "read" /\ ExecRead(q, o)
         \/ c = "respond" /\ ExecRespond(q, o)
         \/ c = "write" /\ ExecWrite(q, o)
         \/ c \in {"close", "abort"} /\ ExecClose(q, o, c = "abort")
  BY DEF Exec, loopVars, IInv, Type, ReqRec
<1>2. Tail(rq[q].todo) \in Seq(Cmds)
  BY <1>1
<1>3. /\ o \in ReqRec /\ o.at = "exec" /\ o.started = rq[q].started /\ o.gone = rq[q].gone
      /\ o.disc = rq[q].disc /\ o.todo = Tail(rq[q].todo) /\ o.cmds = rq[q].cmds
      /\ o.sent = rq[q].sent /\ o.fail = rq[q].fail /\ o.reply = rq[q].reply
  BY <1>1, <1>2 DEF ReqRec
<1>4. CASE c \in {"close", "abort"} /\ ExecClose(q, o, c = "abort")
  BY <1>1, <1>4, LastOK
<1> HIDE DEF o
<1>5. ASSUME NEW r \in ReqRec, rq' = [rq EXCEPT ![q] = r], c \notin {"close", "abort"},
             r.at = "exec", r.started = rq[q].started, r.gone = rq[q].gone, r.disc = rq[q].disc,
             r.todo = Tail(rq[q].todo), r.cmds = rq[q].cmds,
             r.sent => rq[q].sent \/ c = "respond",
             rq[q].fail # "none" => r.fail # "none",
             r.reply \in {rq[q].reply, "error", "begun"},
             IF r.fail # "none" THEN UNCHANGED inject \/ Emit("error", q)
             ELSE IF c = "read" THEN \E ev \in {"data", "eof"} : Emit(ev, q)
             ELSE UNCHANGED inject
      PROVE  IInv'
  BY <1>1, <1>5, CommandOK
<1>6. ASSUME NEW why \in {"closed", "bad"}, rq' = [rq EXCEPT ![q] = Failed(o, why)], TellFail(q),
             c \notin {"close", "abort"}
      PROVE  IInv'
  <2> DEFINE r == Failed(o, why)
  <2>1. /\ r \in ReqRec /\ r.at = o.at /\ r.started = o.started /\ r.gone = o.gone
        /\ r.disc = o.disc /\ r.todo = o.todo /\ r.cmds = o.cmds /\ r.sent = o.sent
        /\ r.fail # "none" /\ r.reply \in {o.reply, "error"}
    BY <1>3, FailedOK
  <2>2. rq' = [rq EXCEPT ![q] = r] /\ (UNCHANGED inject \/ Emit("error", q))
    BY <1>6 DEF TellFail
  <2> HIDE DEF r
  <2> QED BY <1>3, <1>5, <1>6, <2>1, <2>2
<1>7. CASE c = "read" /\ ExecRead(q, o)
  <2>1. CASE o.fail # "none" /\ rq' = [rq EXCEPT ![q] = o] /\ UNCHANGED inject
    BY <1>3, <1>5, <1>7, <2>1
  <2>2. ASSUME NEW b \in BOOLEAN, o.fail = "none", rq' = [rq EXCEPT ![q] = [o EXCEPT !.eof = b]],
               NEW ev \in {"data", "eof"}, Emit(ev, q)
        PROVE  IInv'
    <3> DEFINE r == [o EXCEPT !.eof = b]
    <3>1. /\ r \in ReqRec /\ r.at = o.at /\ r.started = o.started /\ r.gone = o.gone
          /\ r.disc = o.disc /\ r.todo = o.todo /\ r.cmds = o.cmds /\ r.sent = o.sent
          /\ r.fail = o.fail /\ r.reply = o.reply
      BY <1>3 DEF ReqRec
    <3>2. rq' = [rq EXCEPT ![q] = r]
      BY <2>2
    <3> HIDE DEF r
    <3> QED BY <1>3, <1>5, <1>7, <2>2, <3>1, <3>2
  <2> QED BY <1>6, <1>7, <2>1, <2>2 DEF ExecRead
<1>8. CASE c = "respond" /\ ExecRespond(q, o)
  <2>1. CASE o.fail # "none"
    BY <1>3, <1>5, <1>8, <2>1 DEF ExecRespond
  <2>2. CASE o.fail = "none"
    <3> DEFINE r == [o EXCEPT !.sent = TRUE, !.reply = "begun"]
    <3>1. /\ r \in ReqRec /\ r.at = o.at /\ r.started = o.started /\ r.gone = o.gone
          /\ r.disc = o.disc /\ r.todo = o.todo /\ r.cmds = o.cmds
          /\ r.fail = o.fail /\ r.reply = "begun"
      BY <1>3 DEF ReqRec
    <3>2. rq' = [rq EXCEPT ![q] = r] /\ UNCHANGED inject
      BY <1>8, <2>2 DEF ExecRespond
    <3> HIDE DEF r
    <3> QED BY <1>3, <1>5, <1>8, <2>2, <3>1, <3>2
  <2> QED BY <2>1, <2>2
<1>9. CASE c = "write" /\ ExecWrite(q, o)
  <2>1. CASE rq' = [rq EXCEPT ![q] = o] /\ UNCHANGED inject
    BY <1>3, <1>5, <1>9, <2>1
  <2> QED BY <1>6, <1>9, <2>1 DEF ExecWrite
<1> QED BY <1>1, <1>4, <1>7, <1>8, <1>9

\* The select: the goroutine goes round, or leaves.
LEMMA SelectOK ==
    ASSUME IInv, NEW q \in Reqs, rq[q].at # "absent",
           UNCHANGED <<alive, stage, lst, rp, batch, tr, inject>>,
           queue' \in Seq(Reqs), \A x \in Reqs : QueueLess(x),
           NEW r \in ReqRec, rq' = [rq EXCEPT ![q] = r],
           r.at \in {"top", "select", "exited"}, r.at = "top" => rq[q].at # "exited",
           r.at = "select" => rq[q].at # "exited",
           rq[q].todo = <<>>, r.todo = <<>>,
           r.started = rq[q].started, r.gone = rq[q].gone, r.cmds = rq[q].cmds,
           r.sent = rq[q].sent, r.fail = rq[q].fail, r.disc => r.gone, r.reply # "complete" \/ r.reply = rq[q].reply,
           rp[q].state = "none" /\ r.at = "exited" /\ ~rq[q].gone /\ ~tr.killed => r.reply = "503"
    PROVE  IInv'
<1>1. /\ rq \in [Reqs -> ReqRec] /\ Type /\ ReqOK(q) /\ rq'[q] = r
  BY DEF IInv, Type
<1>2. Work(q)' = Work(q)
  BY <1>1 DEF Work
<1>3. (\A K : Same(K)) /\ (\A K : Less(K)) /\ Flow' = Flow
  BY <1>1, FlowSame DEF Same
<1>4. FreshOK(q)'
  BY <1>1, <1>3 DEF ReqOK, FreshOK
<1>5. ReadOK(q)'
  BY <1>1, <1>2, <1>3 DEF ReqOK, ReadOK, OpenReq
<1>6. ReqOK(q)'
  BY <1>1, <1>2, <1>3, <1>4, <1>5, StepOK DEF ReqOK, WorkOK
<1> QED BY <1>6, GoInv

\* What is known in the select.
LEMMA InSelect ==
    ASSUME IInv, NEW q \in Reqs, rq[q].at = "select" \/ rq[q].todo = <<>>
    PROVE  /\ rq[q] \in ReqRec /\ rq[q].todo = <<>> /\ (rq[q].disc => rq[q].gone)
           /\ rp[q].state = "none" => ~rq[q].started
BY DEF IInv, Type, ReqOK, WorkOK, FreshOK

\* Every case of the select.
LEMMA SelectInv ==
    ASSUME IInv, NEW q \in Reqs, Wait(q) \/ Wake(q) \/ SeeGone(q) \/ SeeShut(q) \/ SeeKill(q)
    PROVE  IInv'
<1>1. /\ rq[q].at \in {"exec", "select"} /\ (rq[q].at = "select" \/ rq[q].todo = <<>>)
      /\ UNCHANGED <<alive, stage, lst, rp, batch, tr, inject>>
  BY DEF Wait, Wake, SeeGone, SeeShut, SeeKill, loopVars
<1>2. /\ rq[q] \in ReqRec /\ rq[q].todo = <<>> /\ (rq[q].disc => rq[q].gone)
      /\ rp[q].state = "none" => ~rq[q].started
  BY <1>1, InSelect
<1>3. ASSUME UNCHANGED queue PROVE queue' \in Seq(Reqs) /\ \A x \in Reqs : QueueLess(x)
  BY <1>3 DEF IInv, Type, QueueLess
<1>4. ASSUME NEW reply \in {rq[q].reply, "none", "503", "cut"}, Exit(q, reply),
             queue' \in Seq(Reqs), \A x \in Reqs : QueueLess(x),
             rq[q].gone \/ tr.killed \/ reply = "503" \/ rq[q].started
      PROVE  IInv'
  <2> DEFINE r == [rq[q] EXCEPT !.at = "exited", !.reply = reply]
  <2>1. rq' = [rq EXCEPT ![q] = r]
    BY <1>2, <1>4 DEF Exit
  <2>2. r \in ReqRec
    BY <1>2 DEF ReqRec
  <2>3. /\ r.at = "exited" /\ r.todo = <<>> /\ r.started = rq[q].started /\ r.gone = rq[q].gone
        /\ r.cmds = rq[q].cmds /\ r.sent = rq[q].sent /\ r.fail = rq[q].fail
        /\ r.disc = rq[q].disc /\ r.reply = reply
    BY <1>2 DEF ReqRec
  <2> HIDE DEF r
  <2> QED BY <1>1, <1>2, <1>4, <2>1, <2>2, <2>3, SelectOK
<1>5. CASE Wait(q)
  <2> DEFINE r == [rq[q] EXCEPT !.at = "select"]
  <2>1. rq' = [rq EXCEPT ![q] = r] /\ UNCHANGED queue
    BY <1>5 DEF Wait
  <2>2. r \in ReqRec
    BY <1>2 DEF ReqRec
  <2>3. /\ r.at = "select" /\ r.todo = <<>> /\ r.started = rq[q].started /\ r.gone = rq[q].gone
        /\ r.cmds = rq[q].cmds /\ r.sent = rq[q].sent /\ r.fail = rq[q].fail
        /\ r.disc = rq[q].disc /\ r.reply = rq[q].reply
    BY <1>2 DEF ReqRec
  <2> HIDE DEF r
  <2> QED BY <1>1, <1>2, <1>3, <2>1, <2>2, <2>3, SelectOK
<1>6. CASE Wake(q)
  <2> DEFINE r == [rq[q] EXCEPT !.wake = FALSE, !.at = "top"]
  <2>1. rq' = [rq EXCEPT ![q] = r] /\ UNCHANGED queue
    BY <1>6 DEF Wake
  <2>2. r \in ReqRec
    BY <1>2 DEF ReqRec
  <2>3. /\ r.at = "top" /\ r.todo = <<>> /\ r.started = rq[q].started /\ r.gone = rq[q].gone
        /\ r.cmds = rq[q].cmds /\ r.sent = rq[q].sent /\ r.fail = rq[q].fail
        /\ r.disc = rq[q].disc /\ r.reply = rq[q].reply
    BY <1>2 DEF ReqRec
  <2> HIDE DEF r
  <2> QED BY <1>1, <1>2, <1>3, <2>1, <2>2, <2>3, SelectOK
<1>7. CASE SeeGone(q)
  <2>1. CASE /\ \E i \in DOMAIN queue : queue[i] = q /\ queue' = RemoveAt(queue, i)
             /\ Exit(q, "none")
    <3>1. queue' \in Seq(Reqs) /\ \A x \in Reqs : QueueLess(x)
      <4>1. queue \in Seq(Reqs)
        BY DEF IInv, Type
      <4> QED BY <2>1, <4>1, Removed DEF QueueLess
    <3>2. rq[q].gone
      BY <1>7 DEF SeeGone
    <3> QED BY <1>4, <2>1, <3>1, <3>2
  <2>2. CASE rq' = [rq EXCEPT ![q].disc = TRUE, ![q].at = "top", ![q].wake = TRUE]
             /\ UNCHANGED queue
    <3> DEFINE r == [rq[q] EXCEPT !.disc = TRUE, !.at = "top", !.wake = TRUE]
    <3>1. rq' = [rq EXCEPT ![q] = r] /\ rq[q].gone /\ rq[q].at = "select"
      BY <1>7, <2>2 DEF SeeGone, IInv, Type
    <3>2. r \in ReqRec
      BY <1>2 DEF ReqRec
    <3>3. /\ r.at = "top" /\ r.todo = <<>> /\ r.started = rq[q].started /\ r.gone = rq[q].gone
          /\ r.cmds = rq[q].cmds /\ r.sent = rq[q].sent /\ r.fail = rq[q].fail
          /\ r.reply = rq[q].reply
      BY <1>2 DEF ReqRec
    <3> HIDE DEF r
    <3> QED BY <1>1, <1>2, <1>3, <2>2, <3>1, <3>2, <3>3, SelectOK
  <2> QED BY <1>7, <2>1, <2>2 DEF SeeGone
<1>8. CASE SeeShut(q)
  <2>1. CASE rq' = [rq EXCEPT ![q].shut = TRUE, ![q].at = "top"] /\ UNCHANGED queue
    <3> DEFINE r == [rq[q] EXCEPT !.shut = TRUE, !.at = "top"]
    <3>1. rq' = [rq EXCEPT ![q] = r] /\ rq[q].at = "select"
      BY <1>8, <2>1 DEF SeeShut, IInv, Type
    <3>2. r \in ReqRec
      BY <1>2 DEF ReqRec
    <3>3. /\ r.at = "top" /\ r.todo = <<>> /\ r.started = rq[q].started /\ r.gone = rq[q].gone
          /\ r.cmds = rq[q].cmds /\ r.sent = rq[q].sent /\ r.fail = rq[q].fail
          /\ r.disc = rq[q].disc /\ r.reply = rq[q].reply
      BY <1>2 DEF ReqRec
    <3> HIDE DEF r
    <3> QED BY <1>1, <1>2, <1>3, <2>1, <3>1, <3>2, <3>3, SelectOK
  <2>2. CASE Exit(q, IF rq[q].disc THEN "none" ELSE "503") /\ UNCHANGED queue
    <3>1. CASE rq[q].disc
      BY <1>2, <1>3, <1>4, <2>2, <3>1
    <3>2. CASE ~rq[q].disc
      BY <1>2, <1>3, <1>4, <2>2, <3>2
    <3> QED BY <3>1, <3>2
  <2> QED BY <1>8, <2>1, <2>2 DEF SeeShut
<1>9. CASE SeeKill(q)
  <2>1. tr.killed /\ UNCHANGED queue /\ Exit(q, IF rq[q].sent THEN "cut" ELSE rq[q].reply)
    BY <1>9 DEF SeeKill
  <2>2. CASE rq[q].sent
    BY <1>3, <1>4, <2>1, <2>2
  <2>3. CASE ~rq[q].sent
    BY <1>3, <1>4, <2>1, <2>3
  <2> QED BY <2>2, <2>3
<1> QED BY <1>5, <1>6, <1>7, <1>8, <1>9

-----------------------------------------------------------------------------
\* Requests arrive and clients leave.

\* ServeHTTP, the request under the lock: refused, handed over, or queued.
LEMMA ServedOK ==
    ASSUME IInv, NEW q \in Reqs, rq[q].at = "absent",
           UNCHANGED <<rp, tr.killed>>,
           NEW r \in ReqRec, rq'[q] = r, r.at \in {"top", "exited"},
           r.at = "exited" => r.reply = "503", r.at = "top" => r.reply = rq[q].reply,
           r.started = rq[q].started, r.gone = rq[q].gone, r.cmds = rq[q].cmds,
           r.todo = rq[q].todo, r.sent = rq[q].sent, r.fail = rq[q].fail, r.disc = rq[q].disc,
           Less(Errors(q)), Less(Answers(q)),
           Single(queue', {q}), Single(Flow', Offers(q)),
           ~(AtIn(queue', {q}) /\ AtIn(Flow', Offers(q)))
    PROVE  ReqOK(q)'
<1>1. ReqOK(q) /\ rp[q].state = "none" /\ rq[q].todo = <<>>
  BY DEF IInv, ReqOK, OfferOK, FreshOK
<1>2. Work(q)' = Work(q)
  BY DEF Work
<1>3. OfferOK(q)'
  BY <1>1 DEF OfferOK
<1>4. FreshOK(q)'
  BY <1>1 DEF ReqOK, FreshOK, Less
<1>5. ReadOK(q)'
  BY <1>1 DEF ReadOK, OpenReq
<1>6. WorkOK(q)'
  BY <1>1, <1>2 DEF ReqOK, WorkOK, Less
<1> QED BY <1>3, <1>4, <1>5, <1>6 DEF ReqOK

\* What ServeHTTP starts from: neither queued nor on its way.
LEMMA Unserved ==
    ASSUME IInv, NEW q \in Reqs, rq[q].at = "absent"
    PROVE  /\ ~AtIn(queue, {q}) /\ ~AtIn(Flow, Offers(q))
           /\ Single(queue, {q}) /\ Single(Flow, Offers(q))
BY DEF IInv, ReqOK, OfferOK

\* ServeHTTP.
LEMMA ServeInv == ASSUME IInv, NEW q \in Reqs, Serve(q) PROVE IInv'
<1>1. /\ rq[q].at = "absent" /\ rq[q] \in ReqRec /\ rq \in [Reqs -> ReqRec] /\ Type
      /\ tr \in TrRec /\ lst \in LstRec /\ queue \in Seq(Reqs)
      /\ UNCHANGED <<alive, stage, lst, rp, batch>>
  BY DEF IInv, Type, Serve, loopVars, TrRec, LstRec
<1>2. /\ ~AtIn(queue, {q}) /\ ~AtIn(Flow, Offers(q))
      /\ Single(queue, {q}) /\ Single(Flow, Offers(q))
  BY <1>1, Unserved
<1>3. ASSUME NEW r \in ReqRec, rq' = [rq EXCEPT ![q] = r],
             tr' \in TrRec, tr'.killed = tr.killed, ListenerOK',
             inject' \in Seq(Events), queue' \in Seq(Reqs), ReqOK(q)',
             \A x \in Reqs \ {q} : /\ QueueLess(x) /\ Same(Offers(x))
                                   /\ Same(Errors(x)) /\ Same(Answers(x))
      PROVE  IInv'
  <2>1. Type'
    BY <1>1, <1>3 DEF Type, TrRec
  <2>2. ASSUME NEW x \in Reqs, x # q PROVE ReqOK(x)'
    <3>1. /\ ReqOK(x) /\ rq'[x] = rq[x] /\ QueueLess(x) /\ Less(Offers(x)) /\ Less(Errors(x))
          /\ Less(Answers(x)) /\ Same(Answers(x))
      BY <1>1, <1>3, <2>2 DEF IInv, Same
    <3> QED BY <1>1, <1>3, <3>1, ReqKept
  <2> QED BY <1>3, <2>1, <2>2 DEF IInv
<1>4. CASE /\ rq' = [rq EXCEPT ![q].at = "exited", ![q].reply = "503"]
           /\ UNCHANGED <<inject, tr, queue>>
  <2> DEFINE r == [rq[q] EXCEPT !.at = "exited", !.reply = "503"]
  <2>1. rq' = [rq EXCEPT ![q] = r]
    BY <1>1, <1>4
  <2>2. r \in ReqRec
    BY <1>1 DEF ReqRec
  <2>3. /\ r.at = "exited" /\ r.reply = "503" /\ r.started = rq[q].started
        /\ r.gone = rq[q].gone /\ r.cmds = rq[q].cmds /\ r.todo = rq[q].todo
        /\ r.sent = rq[q].sent /\ r.fail = rq[q].fail /\ r.disc = rq[q].disc
    BY <1>1 DEF ReqRec
  <2> HIDE DEF r
  <2>4. (\A K : Same(K)) /\ (\A K : Less(K)) /\ Flow' = Flow /\ inject' \in Seq(Events)
    BY <1>1, <1>4, FlowSame DEF Same
  <2>5. ReqOK(q)'
    BY <1>1, <1>2, <1>4, <2>1, <2>2, <2>3, <2>4, ServedOK
  <2>6. ListenerOK'
    BY <1>1, <1>4, <2>4, ListenerKept DEF IInv
  <2>7. \A x : QueueLess(x)
    BY <1>4 DEF QueueLess
  <2> QED BY <1>1, <1>3, <1>4, <2>1, <2>2, <2>4, <2>5, <2>6, <2>7
<1>5. ASSUME rq' = [rq EXCEPT ![q].at = "top"]
      PROVE  \E r \in ReqRec :
                /\ rq' = [rq EXCEPT ![q] = r] /\ r.at = "top" /\ r.reply = rq[q].reply
                /\ r.started = rq[q].started
                /\ r.gone = rq[q].gone /\ r.cmds = rq[q].cmds /\ r.todo = rq[q].todo
                /\ r.sent = rq[q].sent /\ r.fail = rq[q].fail /\ r.disc = rq[q].disc
  <2> DEFINE r == [rq[q] EXCEPT !.at = "top"]
  <2>1. rq' = [rq EXCEPT ![q] = r]
    BY <1>1, <1>5
  <2>2. r \in ReqRec
    BY <1>1 DEF ReqRec
  <2>3. /\ r.at = "top" /\ r.reply = rq[q].reply /\ r.started = rq[q].started
        /\ r.gone = rq[q].gone /\ r.cmds = rq[q].cmds /\ r.todo = rq[q].todo
        /\ r.sent = rq[q].sent /\ r.fail = rq[q].fail /\ r.disc = rq[q].disc
    BY <1>1 DEF ReqRec
  <2> HIDE DEF r
  <2> QED BY <2>1, <2>2, <2>3
<1>6. CASE /\ rq' = [rq EXCEPT ![q].at = "top"] /\ tr.want /\ Emit("request", q)
           /\ tr' = [tr EXCEPT !.want = FALSE] /\ UNCHANGED queue
  <2>1. PICK r \in ReqRec :
                /\ rq' = [rq EXCEPT ![q] = r] /\ r.at = "top" /\ r.reply = rq[q].reply
                /\ r.started = rq[q].started
                /\ r.gone = rq[q].gone /\ r.cmds = rq[q].cmds /\ r.todo = rq[q].todo
                /\ r.sent = rq[q].sent /\ r.fail = rq[q].fail /\ r.disc = rq[q].disc
    BY <1>5, <1>6
  <2> DEFINE e == [ev |-> "request", req |-> q]
  <2>2. /\ e \in Events /\ e \in Coming /\ e \in Offers(q)
        /\ \A x : e \notin Answers(x) /\ e \notin Errors(x) /\ (x # q => e \notin Offers(x))
    BY DEF Events, Coming, Offers, Answers, Errors
  <2>3. /\ inject' \in Seq(Events)
        /\ \A K : e \notin K => Same(K)
        /\ \A K : e \in K => AtIn(Flow', K)
        /\ \A K : ~AtIn(Flow, K) => Single(Flow', K)
    BY <1>1, <1>6, <2>2, FlowEmit
  <2> HIDE DEF e
  <2>4. tr' \in TrRec /\ tr'.want = FALSE /\ tr'.killed = tr.killed
    BY <1>1, <1>6 DEF TrRec
  <2>5. ListenerOK'
    BY <1>1, <1>6, <2>2, <2>3, <2>4 DEF IInv, ListenerOK
  <2>6. Less(Errors(q)) /\ Less(Answers(q)) /\ Single(Flow', Offers(q)) /\ rq'[q] = r
    BY <1>1, <1>2, <2>1, <2>2, <2>3 DEF Same
  <2>7. ReqOK(q)'
    BY <1>1, <1>2, <1>6, <2>1, <2>4, <2>6, ServedOK
  <2>8. \A x : QueueLess(x)
    BY <1>6 DEF QueueLess
  <2> QED BY <1>1, <1>3, <1>6, <2>1, <2>2, <2>3, <2>4, <2>5, <2>7, <2>8
<1>7. CASE /\ rq' = [rq EXCEPT ![q].at = "top"] /\ queue' = Append(queue, q)
           /\ UNCHANGED <<inject, tr>>
  <2>1. PICK r \in ReqRec :
                /\ rq' = [rq EXCEPT ![q] = r] /\ r.at = "top" /\ r.reply = rq[q].reply
                /\ r.started = rq[q].started
                /\ r.gone = rq[q].gone /\ r.cmds = rq[q].cmds /\ r.todo = rq[q].todo
                /\ r.sent = rq[q].sent /\ r.fail = rq[q].fail /\ r.disc = rq[q].disc
    BY <1>5, <1>7
  <2>2. /\ queue' \in Seq(Reqs) /\ Single(queue', {q})
        /\ \A x : x # q => QueueLess(x)
    BY <1>1, <1>2, <1>7, Added DEF QueueLess
  <2>3. (\A K : Same(K)) /\ (\A K : Less(K)) /\ Flow' = Flow /\ inject' \in Seq(Events)
    BY <1>1, <1>7, FlowSame DEF Same
  <2>4. rq'[q] = r
    BY <1>1, <2>1
  <2>5. ReqOK(q)'
    BY <1>1, <1>2, <1>7, <2>1, <2>2, <2>3, <2>4, ServedOK
  <2>6. ListenerOK'
    BY <1>1, <1>7, <2>3, ListenerKept DEF IInv
  <2> QED BY <1>1, <1>3, <1>7, <2>1, <2>2, <2>3, <2>5, <2>6
<1> QED BY <1>4, <1>6, <1>7 DEF Serve

\* A client disconnects.
LEMMA ClientGoneInv == ASSUME IInv, NEW q \in Reqs, ClientGone(q) PROVE IInv'
<1> DEFINE r == [rq[q] EXCEPT !.gone = TRUE]
<1>1. /\ rq[q].at \in {"top", "exec", "select"} /\ rq[q] \in ReqRec /\ rq \in [Reqs -> ReqRec]
      /\ Type /\ ReqOK(q) /\ rq' = [rq EXCEPT ![q] = r]
      /\ UNCHANGED <<alive, stage, lst, rp, batch, tr, inject, queue>>
  BY DEF IInv, Type, ClientGone, Serving, loopVars
<1>2. /\ r \in ReqRec /\ r.at = rq[q].at /\ r.gone /\ r.started = rq[q].started
      /\ r.disc = rq[q].disc /\ r.cmds = rq[q].cmds /\ r.todo = rq[q].todo
      /\ r.sent = rq[q].sent /\ r.fail = rq[q].fail /\ r.reply = rq[q].reply
  BY <1>1 DEF ReqRec
<1> HIDE DEF r
<1>3. rq'[q] = r /\ queue' \in Seq(Reqs) /\ \A x \in Reqs : QueueLess(x)
  BY <1>1 DEF Type, QueueLess
<1>4. (\A K : Same(K)) /\ (\A K : Less(K)) /\ Flow' = Flow
  BY <1>1, FlowSame DEF Same
<1>5. Work(q)' = Work(q)
  BY <1>2, <1>3 DEF Work
<1>6. OfferOK(q)'
  BY <1>1, <1>2, <1>3, <1>4 DEF ReqOK, OfferOK
<1>7. FreshOK(q)'
  BY <1>1, <1>2, <1>3, <1>4 DEF ReqOK, FreshOK
<1>8. ReadOK(q)'
  BY <1>1, <1>2, <1>3, <1>4, <1>5 DEF ReqOK, ReadOK, OpenReq
<1>9. WorkOK(q)'
  BY <1>1, <1>2, <1>3, <1>4, <1>5 DEF ReqOK, WorkOK
<1>10. ReqOK(q)'
  BY <1>6, <1>7, <1>8, <1>9 DEF ReqOK
<1> QED BY <1>1, <1>2, <1>3, <1>10, GoInv

-----------------------------------------------------------------------------
\* The invariant.

\* Nothing is asked or offered at the start.
LEMMA InitInv == ASSUME Init PROVE IInv
<1>1. MaxOps \in Nat /\ Server \in Actors
  BY HttpBounds
<1>2. NoPort \in PortRec
  BY <1>1 DEF NoPort, PortRec
<1>3. NoReq \in ReqRec
  BY DEF NoReq, ReqRec
<1>4. Type
  BY <1>1, <1>2, <1>3 DEF Init, Type
<1>5. Flow = <<>> /\ queue = <<>>
  BY DEF Init, Flow
<1>6. ListenerOK
  BY <1>5, Nothing DEF Init, ListenerOK
<1>7. ASSUME NEW q \in Reqs PROVE ReqOK(q)
  <2>1. rp[q] = NoPort /\ rq[q] = NoReq
    BY DEF Init
  <2>2. Work(q) = <<>>
    BY <2>1 DEF NoReq, Work
  <2>3. OfferOK(q)
    BY <1>5, <2>1, Nothing DEF OfferOK, NoPort, NoReq
  <2>4. FreshOK(q)
    BY <1>5, <2>1, Nothing DEF FreshOK, NoPort, NoReq
  <2>5. ReadOK(q)
    BY <2>1 DEF ReadOK, OpenReq, NoPort
  <2>6. WorkOK(q)
    BY <1>5, <2>1, <2>2, Nothing DEF WorkOK, NoPort, NoReq
  <2> QED BY <2>3, <2>4, <2>5, <2>6 DEF ReqOK
<1> QED BY <1>4, <1>6, <1>7 DEF IInv

\* Every step of the loop, the listener and the goroutines keeps it.
LEMMA NextInv == ASSUME IInv, [Next]_vars PROVE IInv'
<1>1. ASSUME NEW a \in Actors, Native(a) PROVE IInv'
  <2>1. CASE Accept(a)
    BY <2>1, AcceptInv
  <2>2. CASE Close(a) \/ Die(a)
    BY <2>2, LeaveInv
  <2>3. CASE \E b \in Actors : Give(a, b)
    BY <2>3, HandInv
  <2>4. ASSUME NEW q \in Reqs, Request(a, q) \/ Respond(a, q) \/ WriteBody(a, q) PROVE IInv'
    BY <2>4, RequestInv, RespondInv, WriteBodyInv
  <2> QED BY <1>1, <2>1, <2>2, <2>3, <2>4 DEF Native
<1>2. CASE Take \/ Over \/ Stopped \/ UNCHANGED vars
  BY <1>2, HandInv DEF Stopped
<1>3. CASE Parse
  BY <1>3, ParseInv
<1>4. CASE Leave
  BY <1>4, LeaveInv
<1>5. CASE Bind
  BY <1>5, BindInv
<1>6. CASE Shutdown \/ DrainTimeout
  BY <1>6, DownInv
<1>7. ASSUME NEW q \in Reqs, Serve(q) \/ ClientGone(q) \/ Go(q) PROVE IInv'
  <2>1. CASE Serve(q) \/ ClientGone(q)
    BY <2>1, ServeInv, ClientGoneInv
  <2>2. CASE Top(q) \/ Exec(q)
    BY <2>2, TopInv, ExecInv
  <2>3. CASE Wait(q) \/ Wake(q) \/ SeeGone(q) \/ SeeShut(q) \/ SeeKill(q)
    BY <2>3, SelectInv
  <2> QED BY <1>7, <2>1, <2>2, <2>3 DEF Go
<1> QED BY <1>1, <1>2, <1>3, <1>4, <1>5, <1>6, <1>7 DEF Next

\* The invariant holds of every behaviour, whatever the scheduler does.
THEOREM Invariance == Spec => []IInv
BY InitInv, NextInv, PTL DEF Spec

-----------------------------------------------------------------------------
\* What is promised.

\* At most one member: the number of them is one or none.
LEMMA Counted ==
    ASSUME NEW s, NEW K, Single(s, K)
    PROVE  Cardinality({i \in DOMAIN s : s[i] \in K}) = IF AtIn(s, K) THEN 1 ELSE 0
<1> DEFINE C == {i \in DOMAIN s : s[i] \in K}
<1>1. CASE AtIn(s, K)
  <2>1. PICK m \in DOMAIN s : s[m] \in K
    BY <1>1 DEF AtIn
  <2>2. C = {m}
    BY <2>1 DEF Single
  <2> QED BY <1>1, <2>2, FS_Singleton
<1>2. CASE ~AtIn(s, K)
  <2>1. C = {}
    BY <1>2 DEF AtIn
  <2> QED BY <1>2, <2>1, FS_EmptySet
<1> QED BY <1>1, <1>2

\* Every Port.request is owed one answer: an accept is wanted, or one request or
\* refusal is on its way; a read of a body waits for its goroutine, or its answer
\* is on its way (http.go: request, offer, bind, read; ports.go: streamEvent).
THEOREM OwesCorrect == Spec => []OwesOneAnswer
<1>1. ASSUME IInv PROVE OwesOneAnswer
  <2>1. Type /\ Flow \in Seq(Events) /\ tr.want \in BOOLEAN /\ lst.armed \in BOOLEAN
    BY <1>1, FlowType DEF IInv, Type
  <2>2. \A i \in DOMAIN Flow : Flow[i] \in Events
    BY <2>1
  <2>3. ASSUME lst.open
        PROVE  (IF tr.want THEN 1 ELSE 0)
               + Cardinality({i \in DOMAIN Flow : Flow[i].ev \in {"request", "refused"}})
               = IF lst.armed THEN 1 ELSE 0
    <3> DEFINE C == {i \in DOMAIN Flow : Flow[i] \in Coming}
               N == Cardinality({i \in DOMAIN Flow : Flow[i].ev \in {"request", "refused"}})
    <3>1. {i \in DOMAIN Flow : Flow[i].ev \in {"request", "refused"}} = C
      BY <2>2 DEF Coming
    <3>2. Single(Flow, Coming)
      BY <1>1, <2>3 DEF IInv, ListenerOK, Single, AtIn
    <3>3. N = IF AtIn(Flow, Coming) THEN 1 ELSE 0
      BY <3>1, <3>2, Counted
    <3> HIDE DEF C, N
    <3>4. /\ tr.want => lst.armed /\ ~AtIn(Flow, Coming)
          /\ AtIn(Flow, Coming) => lst.armed
          /\ lst.armed => tr.want \/ AtIn(Flow, Coming)
      BY <1>1, <2>3 DEF IInv, ListenerOK
    <3>5. (IF tr.want THEN 1 ELSE 0) + N = IF lst.armed THEN 1 ELSE 0
      BY <3>3, <3>4
    <3> QED BY <3>5 DEF N
  <2>4. ASSUME NEW q \in Reqs, OpenReq(q), rq[q].fail = "none", rq[q].at # "exited"
        PROVE  Cardinality(Reads(q)) + Cardinality(Flying(q, {"data", "eof"}))
                 = IF rp[q].armed THEN 1 ELSE 0
    <3> DEFINE C == {i \in DOMAIN Flow : Flow[i] \in Answers(q)}
               R == {i \in DOMAIN Work(q) : Work(q)[i] \in {"read"}}
    <3>1. Flying(q, {"data", "eof"}) = C
      BY <2>2 DEF Flying, Flow, Answers
    <3>2. Reads(q) = R
      BY DEF Reads, Work
    <3>3. ReadOK(q) /\ rp[q].armed \in BOOLEAN
      BY <1>1 DEF IInv, ReqOK, Type, PortRec
    <3>4. Single(Flow, Answers(q)) /\ Single(Work(q), {"read"})
      BY <2>4, <3>3 DEF ReadOK, Single, AtIn
    <3>5. /\ Cardinality(C) = IF AtIn(Flow, Answers(q)) THEN 1 ELSE 0
          /\ Cardinality(R) = IF AtIn(Work(q), {"read"}) THEN 1 ELSE 0
      BY <3>4, Counted
    <3> HIDE DEF C, R
    <3> QED BY <2>4, <3>1, <3>2, <3>3, <3>5 DEF ReadOK
  <2> QED BY <2>3, <2>4 DEF OwesOneAnswer, Flow
<1> QED BY <1>1, Invariance, PTL

\* What a client is told is true: a request the program never got is answered
\* 503, and a response is complete only after Port.close (http.go: ServeHTTP, exit,
\* finish; docs/01 12.12).
THEOREM RepliesCorrect == Spec => []RepliesAreTrue
<1>1. ASSUME IInv PROVE RepliesAreTrue
  BY <1>1 DEF IInv, ReqOK, FreshOK, WorkOK, RepliesAreTrue
<1> QED BY <1>1, Invariance, PTL

-----------------------------------------------------------------------------
\* What the end of the program waits for.

\* A request whose goroutine has yet to execute its last command.
Busy(q) == rq[q].at # "exited" /\ AtIn(Work(q), {"close", "abort"})
Unfinished == {q \in Reqs : Busy(q)}

\* A goroutine is told to end once, when its port is closed.
CloseOK(q) ==
    /\ Single(Work(q), {"close", "abort"})
    /\ AtIn(Work(q), {"close", "abort"}) => rp[q].state = "closed"

\* Scheduler.closing counts the requests whose last command is not done, and the
\* listener while its Shutdown is: no done is called twice or forgotten.
ClosingCounts ==
    closing = Cardinality(Unfinished) + IF tr.down \in {"close", "abort"} THEN 1 ELSE 0

\* An open listener was not told to shut down.
EndInv == /\ lst.open => tr.down = "no"
          /\ \A q \in Reqs : CloseOK(q)
          /\ ClosingCounts

\* Nobody's last command comes or goes.
LEMMA EndKept ==
    ASSUME EndInv, lst'.open => lst.open, tr'.down = tr.down, closing' = closing,
           \A q \in Reqs : CloseOK(q)' /\ (Busy(q)' <=> Busy(q))
    PROVE  EndInv'
<1>1. Unfinished' = Unfinished
  BY DEF Unfinished
<1> QED BY <1>1 DEF EndInv, ClosingCounts

\* A request that has the same commands before it.
LEMMA SameWork ==
    ASSUME NEW q \in Reqs, CloseOK(q), rq'[q].todo = rq[q].todo, rq'[q].cmds = rq[q].cmds,
           rp[q].state = "closed" => rp'[q].state = "closed"
    PROVE  CloseOK(q)' /\ ((rq'[q].at = "exited" <=> rq[q].at = "exited") => (Busy(q)' <=> Busy(q)))
<1>1. Work(q)' = Work(q)
  BY DEF Work
<1> QED BY <1>1 DEF CloseOK, Busy

\* The goroutine of a request takes a step, its last one if closing goes down.
LEMMA OneEnds ==
    ASSUME IInv, EndInv, IsFiniteSet(Reqs), UNCHANGED <<lst, rp, tr>>, NEW q \in Reqs,
           NEW r, rq' = [rq EXCEPT ![q] = r],
           CloseOK(q)', Busy(q)' => Busy(q),
           closing' = closing - IF Busy(q) /\ ~Busy(q)' THEN 1 ELSE 0
    PROVE  EndInv'
<1>1. \A x \in Reqs : x # q => rq'[x] = rq[x]
  BY DEF IInv, Type
<1>2. \A x \in Reqs : CloseOK(x)' /\ (x # q => (Busy(x)' <=> Busy(x)))
  BY <1>1, SameWork DEF EndInv
<1>3. IsFiniteSet(Unfinished) /\ Cardinality(Unfinished) \in Nat
  BY FS_Subset, FS_CardinalityType DEF Unfinished
<1>4. CASE Busy(q)' <=> Busy(q)
  <2>1. closing' = closing - 0 /\ closing \in Nat
    BY <1>3, <1>4 DEF EndInv, ClosingCounts
  <2> QED BY <1>2, <1>4, <2>1, EndKept
<1>5. CASE Busy(q) /\ ~Busy(q)'
  <2>1. Unfinished' = Unfinished \ {q} /\ q \in Unfinished
    BY <1>2, <1>5 DEF Unfinished
  <2>2. Cardinality(Unfinished') = Cardinality(Unfinished) - 1
    BY <1>3, <2>1, FS_RemoveElement
  <2>3. ClosingCounts'
    BY <1>3, <1>5, <2>2 DEF EndInv, ClosingCounts
  <2> QED BY <1>2, <2>3 DEF EndInv
<1> QED BY <1>4, <1>5

\* Every step that shuts no port and ends no goroutine leaves the commands of each
\* request, or adds one that is not the last.
LEMMA StepsEnd ==
    ASSUME IInv, EndInv, closing' = closing, tr'.down = tr.down, lst'.open => lst.open,
           \A q \in Reqs : rp[q].state = "closed" => rp'[q].state = "closed",
           \A q \in Reqs : /\ rq'[q].todo = rq[q].todo /\ rq'[q].cmds = rq[q].cmds
                           /\ rq'[q].at = "exited" <=> rq[q].at = "exited"
    PROVE  EndInv'
BY SameWork, EndKept DEF EndInv

\* The natives of a request.
LEMMA AskedEnd ==
    ASSUME IInv, EndInv, NEW q \in Reqs, NEW c \in Cmds \ {"close", "abort"}, Push(q, c),
           \A x \in Reqs : rp'[x].state = rp[x].state, UNCHANGED <<lst, closing, tr>>
    PROVE  EndInv'
<1>1. /\ rq[q] \in ReqRec /\ c \in Cmds /\ rq'[q] = Pushed(rq[q], c)
      /\ \A x \in Reqs : x # q => rq'[x] = rq[x]
  BY DEF IInv, Type, Push
<1>2. /\ rq[q].at = "exited" => Work(q)' = Work(q)
      /\ \A K : AtIn(Work(q)', K) => AtIn(Work(q), K) \/ c \in K
      /\ rq[q].at # "exited" =>
            /\ \A K : AtIn(Work(q), K) \/ c \in K => AtIn(Work(q)', K)
            /\ \A K : c \notin K /\ Single(Work(q), K) => Single(Work(q)', K)
      /\ rq'[q].at = rq[q].at
  BY <1>1, WorkPushed, PushedOK
<1>3. CloseOK(q)' /\ (Busy(q)' <=> Busy(q))
  BY <1>2 DEF EndInv, CloseOK, Busy
<1>4. \A x \in Reqs : CloseOK(x)' /\ (Busy(x)' <=> Busy(x))
  BY <1>1, <1>3, SameWork DEF EndInv
<1> QED BY <1>4, EndKept

\* Two finite sets that share nothing.
LEMMA Apart ==
    ASSUME NEW S, NEW T, IsFiniteSet(S), IsFiniteSet(T), S \cap T = {}
    PROVE  Cardinality(S \cup T) = Cardinality(S) + Cardinality(T)
<1>1. Cardinality(S) \in Nat /\ Cardinality(T) \in Nat /\ Cardinality(S \cap T) = 0
  BY FS_CardinalityType, FS_EmptySet
<1>2. Cardinality(S \cup T) = Cardinality(S) + Cardinality(T) - Cardinality(S \cap T)
  BY FS_Union
<1> QED BY <1>1, <1>2

\* shutPort: every port that is shut has a resource to wait for, unless its
\* goroutine has left.
LEMMA ShutEnd ==
    ASSUME IInv, EndInv, IsFiniteSet(Reqs), NEW Q \in SUBSET Reqs, \A q \in Q : OpenReq(q),
           NEW how, NEW l \in BOOLEAN, Shut(Q, how, l)
    PROVE  EndInv'
<1> DEFINE cmd == IF how = "abort" THEN "abort" ELSE "close"
           late == {q \in Q : rq[q].at = "exited"}
           told == l /\ lst.open
<1>1. /\ rp \in [Reqs -> PortRec] /\ rq \in [Reqs -> ReqRec] /\ lst \in LstRec /\ tr \in TrRec
      /\ cmd \in Cmds /\ cmd \in {"close", "abort"}
  BY DEF IInv, Type, LstRec, TrRec, Cmds
<1>2. /\ rp' = [q \in Reqs |-> IF q \in Q THEN [rp[q] EXCEPT !.state = "closed", !.how = how]
                               ELSE rp[q]]
      /\ rq' = [q \in Reqs |-> IF q \in Q THEN Pushed(rq[q], cmd) ELSE rq[q]]
      /\ closing' = closing + Cardinality(Q \ late) + IF told THEN 1 ELSE 0
      /\ IF told
         THEN /\ lst' = [lst EXCEPT !.open = FALSE]
              /\ tr' = [tr EXCEPT !.closed = TRUE, !.want = FALSE, !.down = cmd]
         ELSE UNCHANGED <<lst, tr>>
  BY DEF Shut
<1>3. ASSUME NEW q \in Q PROVE CloseOK(q)' /\ ~Busy(q) /\ (Busy(q)' <=> q \notin late)
  <2>1. q \in Reqs /\ rq[q] \in ReqRec /\ rp[q] \in PortRec /\ rp[q].state = "open"
    BY <1>1, <1>3 DEF OpenReq
  <2>2. rq'[q] = Pushed(rq[q], cmd) /\ rp'[q].state = "closed"
    BY <1>2, <2>1 DEF PortRec
  <2>3. ~AtIn(Work(q), {"close", "abort"}) /\ Single(Work(q), {"close", "abort"})
    BY <2>1 DEF EndInv, CloseOK
  <2> HIDE DEF cmd
  <2>4. /\ rq[q].at = "exited" => Work(q)' = Work(q)
        /\ rq[q].at # "exited" =>
              /\ \A K : AtIn(Work(q), K) \/ cmd \in K => AtIn(Work(q)', K)
              /\ \A K : ~AtIn(Work(q), K) => Single(Work(q)', K)
        /\ rq'[q].at = rq[q].at
    BY <1>1, <2>1, <2>2, WorkPushed, PushedOK
  <2>5. CASE rq[q].at = "exited"
    BY <2>2, <2>3, <2>4, <2>5 DEF CloseOK, Busy
  <2>6. CASE rq[q].at # "exited"
    BY <1>1, <2>2, <2>3, <2>4, <2>6 DEF CloseOK, Busy
  <2> QED BY <2>5, <2>6
<1>4. ASSUME NEW q \in Reqs \ Q PROVE CloseOK(q)' /\ (Busy(q)' <=> Busy(q))
  BY <1>2, <1>4, SameWork DEF EndInv
<1> HIDE DEF cmd, told
<1>5. Unfinished' = Unfinished \cup (Q \ late) /\ Unfinished \cap (Q \ late) = {}
  BY <1>3, <1>4 DEF Unfinished
<1>6. /\ IsFiniteSet(Unfinished) /\ Cardinality(Unfinished) \in Nat
      /\ IsFiniteSet(Q \ late) /\ Cardinality(Q \ late) \in Nat
  <2>1. Unfinished \in SUBSET Reqs /\ Q \ late \in SUBSET Reqs
    BY DEF Unfinished
  <2> HIDE DEF late
  <2> QED BY <2>1, FS_Subset, FS_CardinalityType
<1> HIDE DEF late
<1>7. Cardinality(Unfinished') = Cardinality(Unfinished) + Cardinality(Q \ late)
  BY <1>5, <1>6, Apart
<1>8. CASE told
  <2>1. lst.open /\ tr.down = "no"
    BY <1>8 DEF EndInv, told
  <2>2. ~lst'.open /\ tr'.down \in {"close", "abort"}
    BY <1>1, <1>2, <1>8 DEF LstRec, TrRec
  <2>3. closing' = closing + Cardinality(Q \ late) + 1
    BY <1>2, <1>8
  <2>4. closing = Cardinality(Unfinished) + 0
    BY <2>1 DEF EndInv, ClosingCounts
  <2>5. ClosingCounts'
    BY <1>6, <1>7, <2>2, <2>3, <2>4 DEF ClosingCounts
  <2> QED BY <1>3, <1>4, <2>2, <2>5 DEF EndInv
<1>9. CASE ~told
  <2>1. UNCHANGED <<lst, tr>> /\ closing' = closing + Cardinality(Q \ late) + 0
    BY <1>2, <1>9
  <2>2. ClosingCounts'
    BY <1>6, <1>7, <2>1 DEF EndInv, ClosingCounts
  <2> QED BY <1>3, <1>4, <2>1, <2>2 DEF EndInv
<1> QED BY <1>8, <1>9

\* Port.close, the death of an owner, the end of the program.
LEMMA LeaveEnd ==
    ASSUME IInv, EndInv, IsFiniteSet(Reqs), NEW a, Close(a) \/ Die(a) \/ Leave PROVE EndInv'
<1>1. CASE \E q \in Reqs : Owns(a, q) /\ Shut({q}, "close", FALSE)
  <2>1. PICK q \in Reqs : OpenReq(q) /\ Shut({q}, "close", FALSE)
    BY <1>1 DEF Owns
  <2> QED BY <2>1, ShutEnd
<1>2. CASE Shut({}, "close", TRUE)
  BY <1>2, ShutEnd
<1>3. CASE Shut({q \in Reqs : Owns(a, q)}, "abort", lst.owner = a)
  <2> DEFINE Q == {q \in Reqs : Owns(a, q)}
             l == lst.owner = a
  <2>1. Q \in SUBSET Reqs /\ (\A q \in Q : OpenReq(q)) /\ l \in BOOLEAN /\ Shut(Q, "abort", l)
    BY <1>3 DEF Owns
  <2> HIDE DEF Q, l
  <2> QED BY <2>1, ShutEnd
<1>4. CASE Shut({q \in Reqs : OpenReq(q)}, "abort", TRUE)
  <2> DEFINE Q == {q \in Reqs : OpenReq(q)}
  <2>1. Q \in SUBSET Reqs /\ (\A q \in Q : OpenReq(q)) /\ Shut(Q, "abort", TRUE)
    BY <1>4
  <2> HIDE DEF Q
  <2> QED BY <2>1, ShutEnd
<1> QED BY <1>1, <1>2, <1>3, <1>4 DEF Close, Die, Leave

\* Shutdown of the listener returns, or its time is over.
LEMMA DownEnd ==
    ASSUME IInv, EndInv, IsFiniteSet(Reqs), Shutdown \/ DrainTimeout PROVE EndInv'
<1>1. /\ tr \in TrRec /\ UNCHANGED <<lst, rp, rq>> /\ closing' = closing - 1
      /\ tr.down \in {"close", "abort"}
      /\ \/ tr' = [tr EXCEPT !.down = "done"]
         \/ tr' = [tr EXCEPT !.down = "done", !.killed = TRUE]
  BY DEF IInv, Type, Shutdown, DrainTimeout, loopVars, TrRec
<1>2. tr'.down = "done" /\ ~lst.open
  BY <1>1 DEF TrRec, EndInv
<1>3. \A q \in Reqs : CloseOK(q)' /\ (Busy(q)' <=> Busy(q))
  BY <1>1, SameWork DEF EndInv
<1>4. Unfinished' = Unfinished /\ Cardinality(Unfinished) \in Nat
  BY <1>3, FS_Subset, FS_CardinalityType DEF Unfinished
<1>5. ClosingCounts'
  BY <1>1, <1>2, <1>4 DEF EndInv, ClosingCounts
<1> QED BY <1>1, <1>2, <1>3, <1>5 DEF EndInv

\* drainInject's parse.
LEMMA ParseEnd == ASSUME IInv, EndInv, IsFiniteSet(Reqs), Parse PROVE EndInv'
<1> DEFINE e == Head(batch)
<1>1. /\ batch # <<>> /\ Type /\ e \in Events /\ Event(e)
      /\ rp \in [Reqs -> PortRec] /\ rq \in [Reqs -> ReqRec] /\ lst \in LstRec
      /\ \A K : e \in K => AtIn(Flow, K)
  <2>1. Type /\ batch # <<>> /\ batch' = Tail(batch) /\ inject' = inject /\ Event(e)
    BY DEF IInv, Parse
  <2> QED BY <2>1, FlowParse DEF Type, LstRec
<1> HIDE DEF e
<1>2. CASE e.ev = "request" /\ lst.open /\ Deliver(e.req)
  <2> DEFINE q == e.req
             r == [rq[q] EXCEPT !.started = TRUE, !.wake = TRUE]
             p == [rp[q] EXCEPT !.state = "open", !.owner = lst.owner]
  <2>1. q \in Reqs /\ e \in Offers(q)
    BY <1>1, <1>2 DEF Events, Offers
  <2>2. rp[q].state = "none"
    BY <1>1, <2>1 DEF IInv, ReqOK, OfferOK
  <2>3. /\ rq' = [rq EXCEPT ![q] = r] /\ rp' = [rp EXCEPT ![q] = p]
        /\ lst' = [lst EXCEPT !.armed = FALSE] /\ UNCHANGED <<closing, tr>>
    BY <1>1, <1>2, <2>1 DEF Deliver
  <2>4. /\ r.cmds = rq[q].cmds /\ r.todo = rq[q].todo /\ r.at = rq[q].at
        /\ lst'.open = lst.open
    BY <1>1, <2>1, <2>3 DEF ReqRec, LstRec
  <2> HIDE DEF q, r, p
  <2>5. /\ \A x \in Reqs : rp[x].state = "closed" => rp'[x].state = "closed"
        /\ \A x \in Reqs : /\ rq'[x].todo = rq[x].todo /\ rq'[x].cmds = rq[x].cmds
                           /\ rq'[x].at = "exited" <=> rq[x].at = "exited"
    BY <1>1, <2>1, <2>2, <2>3, <2>4
  <2> QED BY <2>3, <2>4, <2>5, StepsEnd
<1>3. CASE Shut({}, "close", TRUE)
  BY <1>3, ShutEnd
<1>4. CASE /\ e.ev \in {"data", "eof"} /\ OpenReq(e.req)
           /\ rp' = [rp EXCEPT ![e.req].armed = FALSE] /\ UNCHANGED <<closing, lst, tr, rq>>
  <2>1. e.req \in Reqs
    BY <1>1, <1>4 DEF Events
  <2>2. [rp[e.req] EXCEPT !.armed = FALSE].state = rp[e.req].state
    BY <1>1, <2>1 DEF PortRec
  <2>3. rp' = [rp EXCEPT ![e.req] = [rp[e.req] EXCEPT !.armed = FALSE]]
    BY <1>1, <1>4, <2>1
  <2>4. \A x \in Reqs : rp'[x].state = rp[x].state
    BY <1>1, <2>1, <2>2, <2>3
  <2> QED BY <1>4, <2>4, StepsEnd
<1>5. CASE e.ev = "error" /\ OpenReq(e.req) /\ Shut({e.req}, "error", FALSE)
  <2>1. e.req \in Reqs
    BY <1>1, <1>5 DEF Events
  <2> QED BY <1>5, <2>1, ShutEnd
<1>6. CASE UNCHANGED <<lst, rp, closing, tr, rq>>
  BY <1>6, StepsEnd
<1> QED BY <1>1, <1>2, <1>3, <1>4, <1>5, <1>6 DEF Event

\* A goroutine goes on with the commands it has: the client is seen to leave, the
\* select goes round.
LEMMA GoesOn ==
    ASSUME IInv, EndInv, UNCHANGED <<lst, rp, closing, tr>>, NEW q \in Reqs,
           NEW r \in ReqRec, rq' = [rq EXCEPT ![q] = r],
           r.todo = rq[q].todo, r.cmds = rq[q].cmds, r.at = "exited" <=> rq[q].at = "exited"
    PROVE  EndInv'
<1>1. /\ rq \in [Reqs -> ReqRec] /\ rq'[q] = r
      /\ \A x \in Reqs : x # q => rq'[x] = rq[x]
  BY DEF IInv, Type
<1>2. \A x \in Reqs : /\ rq'[x].todo = rq[x].todo /\ rq'[x].cmds = rq[x].cmds
                      /\ rq'[x].at = "exited" <=> rq[x].at = "exited"
  BY <1>1
<1> QED BY <1>2, StepsEnd

\* ServeHTTP: a new request was told nothing.
LEMMA ServeEnd == ASSUME IInv, EndInv, IsFiniteSet(Reqs), NEW q \in Reqs, Serve(q) PROVE EndInv'
<1>1. /\ rq[q].at = "absent" /\ rq[q] \in ReqRec /\ rq \in [Reqs -> ReqRec] /\ tr \in TrRec
      /\ rp[q].state = "none" /\ UNCHANGED <<lst, rp, closing>>
      /\ rq[q].cmds = <<>> /\ rq[q].todo = <<>>
  BY DEF IInv, Type, Serve, loopVars, TrRec, ReqOK, OfferOK, FreshOK
<1>2. /\ rq'[q].todo = rq[q].todo /\ rq'[q].cmds = rq[q].cmds
      /\ \A x \in Reqs : x # q => rq'[x] = rq[x]
  <2>1. CASE rq' = [rq EXCEPT ![q].at = "top"]
    BY <1>1, <2>1 DEF ReqRec
  <2>2. CASE rq' = [rq EXCEPT ![q].at = "exited", ![q].reply = "503"]
    BY <1>1, <2>2 DEF ReqRec
  <2> QED BY <2>1, <2>2 DEF Serve
<1>3. tr'.down = tr.down
  BY <1>1 DEF Serve, TrRec
<1>4. Work(q) = <<>> /\ Work(q)' = <<>>
  BY <1>1, <1>2 DEF Work
<1>5. CloseOK(q)' /\ ~Busy(q)' /\ ~Busy(q)
  BY <1>4, Nothing DEF CloseOK, Busy
<1>6. \A x \in Reqs : CloseOK(x)' /\ (Busy(x)' <=> Busy(x))
  BY <1>1, <1>2, <1>5, SameWork DEF EndInv
<1> QED BY <1>1, <1>3, <1>6, EndKept

\* serve takes the commands under the lock.
LEMMA TopEnd == ASSUME IInv, EndInv, IsFiniteSet(Reqs), NEW q \in Reqs, Top(q) PROVE EndInv'
<1> DEFINE t == [rq[q] EXCEPT !.at = "exec", !.snap = rq[q].started,
                              !.todo = rq[q].cmds, !.cmds = <<>>]
<1>1. /\ rq[q].at = "top" /\ rq[q] \in ReqRec /\ rq \in [Reqs -> ReqRec]
      /\ rq[q].todo = <<>> /\ rq[q].cmds \in Seq(Cmds)
      /\ UNCHANGED <<lst, rp, closing, tr>>
  BY DEF Top, loopVars, IInv, Type, ReqOK, WorkOK, ReqRec
<1>2. t \in ReqRec /\ t.at = "exec" /\ t.todo = rq[q].cmds /\ t.cmds = <<>>
  BY <1>1 DEF ReqRec
<1>3. PICK r \in ReqRec : /\ rq' = [rq EXCEPT ![q] = r]
                          /\ r.at = "exec" /\ r.todo = rq[q].cmds /\ r.cmds = <<>>
  <2>1. CASE rq' = [rq EXCEPT ![q] = t]
    BY <1>2, <2>1
  <2>2. CASE rq' = [rq EXCEPT ![q] = Failed(t, "closed")]
    <3> HIDE DEF t
    <3>1. LET n == Failed(t, "closed")
          IN  n \in ReqRec /\ n.at = t.at /\ n.todo = t.todo /\ n.cmds = t.cmds
      BY <1>2, FailedOK
    <3> QED BY <1>2, <2>2, <3>1
  <2> QED BY <2>1, <2>2 DEF Top
<1>4. rq'[q] = r
  BY <1>1, <1>3
<1>5. Work(q)' = Work(q)
  <2> DEFINE s == rq[q].cmds
  <2>1. s \in Seq(Cmds) /\ Work(q) = <<>> \o s /\ Work(q)' = s \o <<>>
    BY <1>1, <1>3, <1>4 DEF Work
  <2> HIDE DEF s
  <2> QED BY <2>1, Joined
<1>6. CloseOK(q)' /\ (Busy(q)' <=> Busy(q))
  BY <1>1, <1>3, <1>4, <1>5 DEF EndInv, CloseOK, Busy
<1>7. closing' = closing - IF Busy(q) /\ ~Busy(q)' THEN 1 ELSE 0
  <2>1. closing \in Nat
    BY FS_Subset, FS_CardinalityType DEF EndInv, ClosingCounts, Unfinished
  <2> QED BY <1>1, <1>6, <2>1
<1> QED BY <1>1, <1>3, <1>6, <1>7, OneEnds

\* What a command that is not the last makes of the goroutine.
LEMMA CommandKeeps ==
    ASSUME IInv, NEW q \in Reqs, Exec(q), Head(rq[q].todo) \notin {"close", "abort"}
    PROVE  /\ closing' = closing
           /\ \E r \in ReqRec : /\ rq' = [rq EXCEPT ![q] = r] /\ r.at = "exec"
                                /\ r.todo = Tail(rq[q].todo) /\ r.cmds = rq[q].cmds
<1> DEFINE o == [rq[q] EXCEPT !.todo = Tail(@)]
           Kept(r) == r \in ReqRec /\ r.at = "exec" /\ r.todo = o.todo /\ r.cmds = o.cmds
<1>1. /\ rq[q].at = "exec" /\ rq[q].todo # <<>> /\ rq[q] \in ReqRec /\ rq[q].todo \in Seq(Cmds)
      /\ closing' = closing /\ (ExecRead(q, o) \/ ExecRespond(q, o) \/ ExecWrite(q, o))
  BY DEF Exec, IInv, Type, ReqRec
<1>2. Tail(rq[q].todo) \in Seq(Cmds)
  BY <1>1
<1>3. Kept(o) /\ o.todo = Tail(rq[q].todo) /\ o.cmds = rq[q].cmds
  BY <1>1, <1>2 DEF ReqRec
<1> HIDE DEF o
<1>4. /\ \A b \in BOOLEAN : Kept([o EXCEPT !.eof = b])
      /\ Kept([o EXCEPT !.sent = TRUE, !.reply = "begun"])
  BY <1>3 DEF ReqRec
<1>5. \A why \in {"closed", "bad"} : Kept(Failed(o, why))
  BY <1>3, FailedOK
<1> HIDE DEF Kept
<1>6. \E r : Kept(r) /\ rq' = [rq EXCEPT ![q] = r]
  <2>1. CASE ExecRead(q, o)
    BY <1>3, <1>4, <1>5, <2>1 DEF ExecRead
  <2>2. CASE ExecRespond(q, o)
    BY <1>3, <1>4, <2>2 DEF ExecRespond
  <2>3. CASE ExecWrite(q, o)
    BY <1>3, <1>5, <2>3 DEF ExecWrite
  <2> QED BY <1>1, <2>1, <2>2, <2>3
<1> QED BY <1>1, <1>3, <1>6 DEF Kept

\* exec: the last command of a request is done when it was executed.
LEMMA ExecEnd == ASSUME IInv, EndInv, IsFiniteSet(Reqs), NEW q \in Reqs, Exec(q) PROVE EndInv'
<1> DEFINE c == Head(rq[q].todo)
           w == Work(q)
           Ends(r) == IF c \in {"close", "abort"} THEN r.at = "exited" ELSE r.at = "exec"
<1>1. /\ rq[q].at = "exec" /\ rq[q].todo # <<>> /\ rq[q] \in ReqRec
      /\ rq[q].todo \in Seq(Cmds) /\ rq[q].cmds \in Seq(Cmds) /\ rq \in [Reqs -> ReqRec]
      /\ UNCHANGED <<lst, rp, tr>> /\ CloseOK(q)
  BY DEF Exec, loopVars, IInv, Type, ReqRec, EndInv
<1>2. PICK r : /\ rq' = [rq EXCEPT ![q] = r] /\ Ends(r)
               /\ r.todo = Tail(rq[q].todo) /\ r.cmds = rq[q].cmds
  <2>1. CASE c \in {"close", "abort"}
    <3> DEFINE o == [rq[q] EXCEPT !.todo = Tail(@)]
               r == [o EXCEPT !.at = "exited", !.reply = FinalReply(o, c = "abort")]
    <3>1. rq' = [rq EXCEPT ![q] = r]
      BY <1>1, <2>1 DEF Exec, ExecClose
    <3>2. r.at = "exited" /\ r.todo = Tail(rq[q].todo) /\ r.cmds = rq[q].cmds
      BY <1>1 DEF ReqRec
    <3> HIDE DEF r
    <3> QED BY <2>1, <3>1, <3>2
  <2>2. CASE c \notin {"close", "abort"}
    BY <2>2, CommandKeeps
  <2> QED BY <2>1, <2>2
<1>3. closing' = IF c \in {"close", "abort"} THEN closing - 1 ELSE closing
  BY DEF Exec, ExecClose
<1>4. rq'[q] = r
  BY <1>1, <1>2
<1>5. w \in Seq(Cmds) /\ w # <<>> /\ Head(w) = c /\ Work(q)' = Tail(w)
  <2> DEFINE s == rq[q].todo
             t == rq[q].cmds
  <2>1. s \in Seq(Cmds) /\ t \in Seq(Cmds) /\ s # <<>> /\ w = s \o t /\ c = Head(s)
        /\ Work(q)' = Tail(s) \o t
    BY <1>1, <1>2, <1>4 DEF Work
  <2> HIDE DEF s, t, w, c
  <2> QED BY <2>1, Joined
<1>6. /\ \A K : AtIn(w, K) <=> AtIn(Work(q)', K) \/ c \in K
      /\ \A K : Single(w, K) => Single(Work(q)', K)
      /\ \A K : Single(w, K) /\ c \in K => ~AtIn(Work(q)', K)
  BY <1>5, Popped
<1>7. CloseOK(q)'
  BY <1>1, <1>6 DEF CloseOK
<1>8. /\ c \in {"close", "abort"} => Busy(q) /\ ~Busy(q)'
      /\ c \notin {"close", "abort"} => (Busy(q)' <=> Busy(q))
  BY <1>1, <1>2, <1>4, <1>6 DEF Busy
<1>9. closing \in Nat
  BY FS_Subset, FS_CardinalityType DEF EndInv, ClosingCounts, Unfinished
<1>10. closing' = closing - IF Busy(q) /\ ~Busy(q)' THEN 1 ELSE 0
  BY <1>3, <1>8, <1>9
<1> QED BY <1>1, <1>2, <1>7, <1>8, <1>10, OneEnds

\* exit: a last command that came too late is done by it.
LEMMA ExitEnd ==
    ASSUME IInv, EndInv, IsFiniteSet(Reqs), NEW q \in Reqs, rq[q].at = "select",
           NEW reply, Exit(q, reply), UNCHANGED <<lst, rp, tr>>
    PROVE  EndInv'
<1> DEFINE r == [rq[q] EXCEPT !.at = "exited", !.reply = reply]
<1>1. /\ rq[q] \in ReqRec /\ rq \in [Reqs -> ReqRec] /\ rq[q].todo = <<>>
      /\ rq[q].cmds \in Seq(Cmds) /\ CloseOK(q)
  BY DEF IInv, Type, ReqOK, WorkOK, ReqRec, EndInv
<1>2. rq' = [rq EXCEPT ![q] = r]
  BY <1>1 DEF Exit
<1>3. r.at = "exited" /\ r.todo = rq[q].todo /\ r.cmds = rq[q].cmds
  BY <1>1 DEF ReqRec
<1> HIDE DEF r
<1>4. rq'[q] = r
  BY <1>1, <1>2
<1>5. Work(q) = rq[q].cmds
  <2> DEFINE s == rq[q].cmds
  <2>1. s \in Seq(Cmds) /\ Work(q) = <<>> \o s
    BY <1>1 DEF Work
  <2> HIDE DEF s
  <2> QED BY <2>1, Joined DEF s
<1>6. CloseOK(q)' /\ ~Busy(q)'
  BY <1>1, <1>3, <1>4, SameWork DEF Busy
<1>7. Busy(q) <=> AtIn(Work(q), {"close", "abort"})
  BY DEF Busy
<1>8. closing' = closing - IF Busy(q) THEN 1 ELSE 0
  <2> DEFINE s == rq[q].cmds
             n == Cardinality({i \in DOMAIN s : s[i] \in {"close", "abort"}})
  <2>1. n = IF AtIn(s, {"close", "abort"}) THEN 1 ELSE 0
    BY <1>1, <1>5, Counted DEF CloseOK
  <2>2. closing' = closing - n
    BY DEF Exit
  <2> HIDE DEF n
  <2> QED BY <1>5, <1>7, <2>1, <2>2
<1> QED BY <1>2, <1>6, <1>8, OneEnds

\* The select and its cases.
LEMMA SelectEnd ==
    ASSUME IInv, EndInv, IsFiniteSet(Reqs), NEW q \in Reqs,
           Wait(q) \/ Wake(q) \/ SeeGone(q) \/ SeeShut(q) \/ SeeKill(q)
    PROVE  EndInv'
<1>1. /\ rq[q].at \in {"exec", "select"} /\ rq[q] \in ReqRec /\ rq \in [Reqs -> ReqRec]
      /\ UNCHANGED <<lst, rp, tr>>
  BY DEF Wait, Wake, SeeGone, SeeShut, SeeKill, loopVars, IInv, Type
<1>2. ASSUME NEW r \in ReqRec, rq' = [rq EXCEPT ![q] = r], closing' = closing,
             r.todo = rq[q].todo, r.cmds = rq[q].cmds, r.at # "exited"
      PROVE  EndInv'
  BY <1>1, <1>2, GoesOn
<1>3. CASE Wait(q)
  <2> DEFINE r == [rq[q] EXCEPT !.at = "select"]
  <2>1. rq' = [rq EXCEPT ![q] = r] /\ closing' = closing
    BY <1>3 DEF Wait
  <2>2. r \in ReqRec /\ r.todo = rq[q].todo /\ r.cmds = rq[q].cmds /\ r.at # "exited"
    BY <1>1 DEF ReqRec
  <2> HIDE DEF r
  <2> QED BY <1>2, <2>1, <2>2
<1>4. CASE Wake(q)
  <2> DEFINE r == [rq[q] EXCEPT !.wake = FALSE, !.at = "top"]
  <2>1. rq' = [rq EXCEPT ![q] = r] /\ closing' = closing
    BY <1>1, <1>4 DEF Wake
  <2>2. r \in ReqRec /\ r.todo = rq[q].todo /\ r.cmds = rq[q].cmds /\ r.at # "exited"
    BY <1>1 DEF ReqRec
  <2> HIDE DEF r
  <2> QED BY <1>2, <2>1, <2>2
<1>5. CASE SeeGone(q)
  <2> DEFINE r == [rq[q] EXCEPT !.disc = TRUE, !.at = "top", !.wake = TRUE]
  <2>1. CASE Exit(q, "none")
    BY <1>1, <1>5, <2>1, ExitEnd DEF SeeGone
  <2>2. CASE rq' = [rq EXCEPT ![q].disc = TRUE, ![q].at = "top", ![q].wake = TRUE]
             /\ closing' = closing
    <3>1. rq' = [rq EXCEPT ![q] = r]
      BY <1>1, <2>2
    <3>2. r \in ReqRec /\ r.todo = rq[q].todo /\ r.cmds = rq[q].cmds /\ r.at # "exited"
      BY <1>1 DEF ReqRec
    <3> HIDE DEF r
    <3> QED BY <1>2, <2>2, <3>1, <3>2
  <2> QED BY <1>5, <2>1, <2>2 DEF SeeGone
<1>6. CASE SeeShut(q)
  <2> DEFINE r == [rq[q] EXCEPT !.shut = TRUE, !.at = "top"]
             reply == IF rq[q].disc THEN "none" ELSE "503"
  <2>1. CASE Exit(q, reply)
    <3> HIDE DEF reply
    <3> QED BY <1>1, <1>6, <2>1, ExitEnd DEF SeeShut
  <2>2. CASE rq' = [rq EXCEPT ![q].shut = TRUE, ![q].at = "top"] /\ closing' = closing
    <3>1. rq' = [rq EXCEPT ![q] = r]
      BY <1>1, <2>2
    <3>2. r \in ReqRec /\ r.todo = rq[q].todo /\ r.cmds = rq[q].cmds /\ r.at # "exited"
      BY <1>1 DEF ReqRec
    <3> HIDE DEF r
    <3> QED BY <1>2, <2>2, <3>1, <3>2
  <2> QED BY <1>6, <2>1, <2>2 DEF SeeShut
<1>7. CASE SeeKill(q)
  <2> DEFINE reply == IF rq[q].sent THEN "cut" ELSE rq[q].reply
  <2>1. rq[q].at = "select" /\ Exit(q, reply)
    BY <1>7 DEF SeeKill
  <2> HIDE DEF reply
  <2> QED BY <1>1, <2>1, ExitEnd
<1> QED BY <1>3, <1>4, <1>5, <1>6, <1>7

\* At the start nothing is closing.
LEMMA InitEnd == ASSUME Init PROVE EndInv
<1>1. ASSUME NEW q \in Reqs PROVE CloseOK(q) /\ ~Busy(q)
  <2>1. Work(q) = <<>>
    BY DEF Init, NoReq, Work
  <2> QED BY <2>1, Nothing DEF CloseOK, Busy
<1>2. Unfinished = {}
  BY <1>1 DEF Unfinished
<1>3. Cardinality(Unfinished) = 0 /\ tr.down = "no" /\ closing = 0
  BY <1>2, FS_EmptySet DEF Init
<1> QED BY <1>1, <1>3 DEF EndInv, ClosingCounts

\* Every step keeps the count.
LEMMA NextEnd == ASSUME IInv, EndInv, IsFiniteSet(Reqs), [Next]_vars PROVE EndInv'
<1>1. /\ rp \in [Reqs -> PortRec] /\ rq \in [Reqs -> ReqRec] /\ lst \in LstRec /\ tr \in TrRec
  BY DEF IInv, Type, LstRec, TrRec
<1>2. ASSUME NEW a \in Actors, Accept(a) PROVE EndInv'
  <2>1. UNCHANGED <<rp, rq, closing>> /\ lst'.open = lst.open /\ tr'.down = tr.down
    BY <1>1, <1>2 DEF Accept, LstRec, TrRec
  <2> QED BY <2>1, StepsEnd
<1>3. ASSUME NEW a \in Actors, NEW b \in Actors, Give(a, b) PROVE EndInv'
  <2>1. UNCHANGED <<rq, closing, tr>>
    BY <1>3 DEF Give
  <2>2. lst'.open = lst.open /\ \A q \in Reqs : rp'[q].state = rp[q].state
    BY <1>1, <1>3 DEF Give, LstRec, PortRec
  <2> QED BY <2>1, <2>2, StepsEnd
<1>4. CASE Take \/ Over \/ UNCHANGED vars \/ Stopped
  <2>1. UNCHANGED <<rp, rq, closing, lst, tr>>
    BY <1>4 DEF Take, Over, Stopped, vars
  <2> QED BY <2>1, StepsEnd
<1>5. CASE Bind
  <2>1. UNCHANGED <<rp, rq, closing, lst>>
    BY <1>5 DEF Bind, loopVars
  <2>2. tr'.down = tr.down
    BY <1>1, <1>5 DEF Bind, TrRec
  <2> QED BY <2>1, <2>2, StepsEnd
<1>6. ASSUME NEW a \in Actors, NEW q \in Reqs, Request(a, q) \/ Respond(a, q) \/ WriteBody(a, q)
      PROVE  EndInv'
  <2>1. \A x \in Reqs : rp'[x].state = rp[x].state
    BY <1>1, <1>6 DEF Request, Respond, WriteBody, PortRec
  <2>2. /\ UNCHANGED <<lst, closing, tr>>
        /\ Push(q, "read") \/ Push(q, "respond") \/ Push(q, "write")
    BY <1>6 DEF Request, Respond, WriteBody
  <2>3. {"read", "respond", "write"} \subseteq Cmds \ {"close", "abort"}
    BY DEF Cmds
  <2> QED BY <2>1, <2>2, <2>3, AskedEnd
<1>7. ASSUME NEW q \in Reqs, ClientGone(q) PROVE EndInv'
  <2> DEFINE r == [rq[q] EXCEPT !.gone = TRUE]
  <2>1. rq' = [rq EXCEPT ![q] = r] /\ UNCHANGED <<lst, rp, closing, tr>>
    BY <1>7 DEF ClientGone, loopVars
  <2>2. r \in ReqRec /\ r.todo = rq[q].todo /\ r.cmds = rq[q].cmds /\ r.at = rq[q].at
    BY <1>1 DEF ReqRec
  <2> HIDE DEF r
  <2> QED BY <2>1, <2>2, GoesOn
<1>8. ASSUME NEW a \in Actors, Native(a) PROVE EndInv'
  BY <1>2, <1>3, <1>6, <1>8, LeaveEnd DEF Native
<1>9. ASSUME NEW q \in Reqs, Serve(q) \/ ClientGone(q) \/ Go(q) PROVE EndInv'
  BY <1>7, <1>9, ServeEnd, TopEnd, ExecEnd, SelectEnd DEF Go
<1> QED BY <1>4, <1>5, <1>8, <1>9, ParseEnd, LeaveEnd, DownEnd DEF Next

\* The wait of the end of the program is for what is not done: of finitely many
\* requests those whose goroutine has a last command before it, and the listener
\* until its Shutdown is over.  In particular no done is called that no add was
\* called for (stream.go: shutPort, finishPorts; http.go: exec, exit).
THEOREM ClosingCorrect == ASSUME IsFiniteSet(Reqs) PROVE Spec => []ClosingCounts
<1>1. IInv /\ EndInv /\ [Next]_vars => (IInv /\ EndInv)'
  BY NextInv, NextEnd
<1>2. Init => IInv /\ EndInv
  BY InitInv, InitEnd
<1>3. EndInv => ClosingCounts
  BY DEF EndInv
<1> QED BY <1>1, <1>2, <1>3, PTL DEF Spec

\* Every variable keeps its type; that closing does not go below zero is
\* ClosingCorrect.
THEOREM TypeCorrect == ASSUME IsFiniteSet(Reqs) PROVE Spec => []TypeOK
<1>1. IInv /\ ClosingCounts => TypeOK
  <2> SUFFICES ASSUME IInv, ClosingCounts PROVE TypeOK
    OBVIOUS
  <2>1. closing \in Nat
    BY FS_Subset, FS_CardinalityType DEF ClosingCounts, Unfinished
  <2>2. \A q \in Reqs : rq[q] \in ReqRec
    BY DEF IInv, Type
  <2> QED BY <2>1, <2>2 DEF IInv, Type, TypeOK, PortRec, ReqRec
<1> QED BY <1>1, Invariance, ClosingCorrect, PTL
=============================================================================
