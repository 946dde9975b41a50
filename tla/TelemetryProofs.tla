--------------------------- MODULE TelemetryProofs ---------------------------
(* Proofs about Telemetry, for any ids, prefixes and bounds: what an event  *)
(* was matched with is called, and the queue of the dead has a reader.  The *)
(* delivery needs that an actor without a service frame is the one without  *)
(* a service actor: the frame that reads the queue is at the bottom of the  *)
(* service actor's frames and nowhere else.                                 *)
EXTENDS Telemetry, TLAPS

\* A frame of teleRun.
IsFrame(f) ==
    DOMAIN f = {"kind", "todo", "cur", "body"} /\ f = [k \in DOMAIN f |-> f[k]]

\* The frames of an actor are a sequence of frames.
FramesOK(s) == (\E S : s \in Seq(S)) /\ \A i \in DOMAIN s : IsFrame(s[i])

\* The frame that reads the queue is the first one of the service actor.
LoopsOK ==
    /\ \A i \in DOMAIN stack["E"] : stack["E"][i].kind # "loop"
    /\ stack["T"] # <<>> => stack["T"][1].kind = "loop"
    /\ \A i \in DOMAIN stack["T"] : i # 1 => stack["T"][i].kind # "loop"

\* The part of the invariant that is about the frames.
FramesInv ==
    /\ DOMAIN stack = Hosts /\ \A x \in Hosts : FramesOK(stack[x])
    /\ LoopsOK

\* The inductive invariant.
TeleInv ==
    /\ FramesInv
    /\ queue \in Seq(Queued)
    /\ service = "none" <=> stack["T"] = <<>>
    /\ QueueIsServed

\* The last frame is another one.
LEMMA ReplacedOK ==
    ASSUME NEW s, FramesOK(s), s # <<>>, NEW f, IsFrame(f)
    PROVE  LET t == Append(Front(s), f)
           IN  /\ FramesOK(t) /\ DOMAIN t = DOMAIN s /\ Len(s) \in DOMAIN s
               /\ t[Len(s)] = f /\ Last(s) = s[Len(s)] /\ IsFrame(Last(s))
               /\ \A i \in DOMAIN s : i # Len(s) => t[i] = s[i]
<1>1. PICK S : s \in Seq(S)
  BY DEF FramesOK
<1> DEFINE S2 == S \cup {f}
           n == Len(s)
           a == Front(s)
           t == Append(a, f)
<1>2. /\ n \in Nat /\ n > 0 /\ DOMAIN s = 1 .. n /\ Last(s) = s[n] /\ n \in DOMAIN s
  BY <1>1 DEF Last
<1>3. s \in Seq(S2)
  BY <1>1
<1>4. a \in Seq(S2) /\ Len(a) = n - 1 /\ \A i \in 1 .. (n - 1) : a[i] = s[i]
  BY <1>2, <1>3 DEF Front
<1> HIDE DEF S2, n, a
<1>5. f \in S2
  BY DEF S2
<1>6. /\ t \in Seq(S2) /\ DOMAIN t = 1 .. n /\ t[n] = f
      /\ \A i \in 1 .. (n - 1) : t[i] = a[i]
  BY <1>2, <1>4, <1>5
<1> HIDE DEF t
<1>7. \A i \in DOMAIN s : i # n => t[i] = s[i]
  <2>1. \A i \in 1 .. n : i # n => i \in 1 .. (n - 1)
    BY <1>2
  <2> QED BY <1>2, <1>4, <1>6, <2>1
<1>8. FramesOK(t)
  BY <1>2, <1>6, <1>7 DEF FramesOK
<1>9. IsFrame(Last(s))
  BY <1>2 DEF FramesOK
<1> QED BY <1>2, <1>6, <1>7, <1>8, <1>9 DEF t, a, n

\* The last frame is one of the frames.
LEMMA LastOK ==
    ASSUME NEW s, FramesOK(s), s # <<>>
    PROVE  Len(s) \in DOMAIN s /\ Last(s) = s[Len(s)] /\ IsFrame(Last(s))
<1>1. PICK S : s \in Seq(S)
  BY DEF FramesOK
<1>2. Len(s) \in DOMAIN s /\ Last(s) = s[Len(s)]
  BY <1>1 DEF Last
<1> QED BY <1>2 DEF FramesOK

\* A frame with other handlers to call, or not in a handler, is a frame.
LEMMA FrameMoves ==
    ASSUME NEW f, IsFrame(f), NEW t
    PROVE  LET g == [f EXCEPT !.body = FALSE]
               h == [f EXCEPT !.todo = t]
           IN  /\ IsFrame(g) /\ g.kind = f.kind /\ g.todo = f.todo
               /\ IsFrame(h) /\ h.kind = f.kind
BY DEF IsFrame

\* A frame comes.
LEMMA PushedOK ==
    ASSUME NEW s, FramesOK(s), NEW f, IsFrame(f)
    PROVE  LET t == Append(s, f)
           IN  /\ FramesOK(t) /\ t # <<>> /\ DOMAIN s \subseteq DOMAIN t
               /\ \A i \in DOMAIN s : t[i] = s[i]
               /\ \A i \in DOMAIN t : i \notin DOMAIN s => t[i] = f
               /\ s # <<>> => 1 \in DOMAIN s
<1>1. PICK S : s \in Seq(S)
  BY DEF FramesOK
<1> DEFINE S2 == S \cup {f}
           n == Len(s)
           t == Append(s, f)
<1>2. s \in Seq(S2) /\ f \in S2
  BY <1>1
<1> HIDE DEF S2
<1>3. /\ n \in Nat /\ DOMAIN s = 1 .. n /\ t \in Seq(S2) /\ DOMAIN t = 1 .. (n + 1)
      /\ t[n + 1] = f /\ (\A i \in 1 .. n : t[i] = s[i]) /\ t # <<>>
      /\ s # <<>> => 1 \in DOMAIN s
  BY <1>2
<1> HIDE DEF n, t
<1>4. DOMAIN s \subseteq DOMAIN t /\ \A i \in DOMAIN t : i \notin DOMAIN s => i = n + 1
  BY <1>3
<1>5. FramesOK(t)
  BY <1>3, <1>4 DEF FramesOK
<1> QED BY <1>3, <1>4, <1>5 DEF t

\* The last frame goes.
LEMMA PoppedOK ==
    ASSUME NEW s, FramesOK(s), s # <<>>
    PROVE  LET t == Front(s)
           IN  /\ FramesOK(t) /\ DOMAIN t = DOMAIN s \ {Len(s)} /\ Len(s) \in DOMAIN s
               /\ Last(s) = s[Len(s)]
               /\ \A i \in DOMAIN t : t[i] = s[i]
               /\ t = <<>> => Len(s) = 1
<1>1. PICK S : s \in Seq(S)
  BY DEF FramesOK
<1> DEFINE n == Len(s)
           t == Front(s)
<1>2. /\ n \in Nat /\ n > 0 /\ DOMAIN s = 1 .. n /\ Last(s) = s[n] /\ n \in DOMAIN s
  BY <1>1 DEF Last
<1>3. t \in Seq(S) /\ DOMAIN t = 1 .. (n - 1) /\ (\A i \in 1 .. (n - 1) : t[i] = s[i])
      /\ (t = <<>> => n = 1)
  BY <1>1, <1>2 DEF Front
<1> HIDE DEF n, t
<1>4. DOMAIN t = DOMAIN s \ {n}
  BY <1>2, <1>3
<1>5. FramesOK(t)
  BY <1>2, <1>3, <1>4 DEF FramesOK
<1> QED BY <1>2, <1>3, <1>4, <1>5 DEF t, n

\* What a step of an actor may make of its frames, but for the last one's end:
\* the frames keep what they are, only new ones come, none of them the reader of
\* the queue; and each keeps its handlers or calls the next one.
Follows(s, t) ==
    /\ FramesOK(t) /\ DOMAIN s \subseteq DOMAIN t
    /\ \A i \in DOMAIN t : IF i \in DOMAIN s THEN t[i].kind = s[i].kind
                           ELSE t[i].kind # "loop"
    /\ \A i \in DOMAIN s :
          \/ s[i].todo = <<>>
          \/ t[i].todo = s[i].todo
          \/ t[i].todo = Tail(s[i].todo) /\ t[i].cur = Head(s[i].todo).id

\* Nothing happens to the frames.
LEMMA FollowsItself ==
    ASSUME NEW s, FramesOK(s)
    PROVE  Follows(s, s)
BY DEF Follows

\* A frame comes on top, not one that reads the queue.
LEMMA FollowsPush ==
    ASSUME NEW s, NEW t, Follows(s, t), NEW f, IsFrame(f), f.kind # "loop"
    PROVE  Follows(s, Append(t, f))
<1> DEFINE u == Append(t, f)
<1>1. /\ FramesOK(u) /\ DOMAIN t \subseteq DOMAIN u
      /\ \A i \in DOMAIN t : u[i] = t[i]
      /\ \A i \in DOMAIN u : i \notin DOMAIN t => u[i] = f
  BY PushedOK DEF Follows
<1> HIDE DEF u
<1>2. Follows(s, u)
  BY <1>1 DEF Follows
<1> QED BY <1>2 DEF u

\* The last frame moves on.
LEMMA FollowsSet ==
    ASSUME NEW s, FramesOK(s), s # <<>>, NEW f, IsFrame(f), f.kind = Last(s).kind,
           \/ Last(s).todo = <<>>
           \/ f.todo = Last(s).todo
           \/ f.todo = Tail(Last(s).todo) /\ f.cur = Head(Last(s).todo).id
    PROVE  Follows(s, Append(Front(s), f))
<1> DEFINE t == Append(Front(s), f)
<1>1. /\ FramesOK(t) /\ DOMAIN t = DOMAIN s /\ Len(s) \in DOMAIN s
      /\ t[Len(s)] = f /\ Last(s) = s[Len(s)]
      /\ \A i \in DOMAIN s : i # Len(s) => t[i] = s[i]
  BY ReplacedOK
<1> HIDE DEF t
<1>2. Follows(s, t)
  BY <1>1 DEF Follows
<1> QED BY <1>2 DEF t

\* A step of one actor that follows its frames keeps the frames' part and
\* costs no handler its event.
LEMMA HostFollows ==
    ASSUME FramesInv, NEW x \in Hosts, NEW t, Follows(stack[x], t),
           stack[x] = <<>> => x = "E", stack' = [stack EXCEPT ![x] = t]
    PROVE  FramesInv' /\ (stack'["T"] = <<>> <=> stack["T"] = <<>>) /\ DeliveryStep
<1>1. /\ DOMAIN stack' = Hosts /\ stack'[x] = t
      /\ \A y \in Hosts : y # x => stack'[y] = stack[y]
  BY DEF FramesInv
<1>2. \A y \in Hosts : Follows(stack[y], stack'[y])
  BY <1>1, FollowsItself DEF FramesInv
<1>3. stack["T"] # <<>> => 1 \in DOMAIN stack["T"]
  <2>1. PICK S : stack["T"] \in Seq(S)
    BY DEF FramesInv, FramesOK, Hosts
  <2> QED BY <2>1
<1>4. stack'["T"] = <<>> <=> stack["T"] = <<>>
  <2>1. CASE x = "T"
    <3>1. 1 \in DOMAIN stack'["T"]
      BY <1>2, <1>3, <2>1 DEF Follows, Hosts
    <3> QED BY <2>1, <3>1
  <2>2. CASE x # "T"
    BY <1>1, <2>2 DEF Hosts
  <2> QED BY <2>1, <2>2
<1>5. LoopsOK'
  <2>1. \A i \in DOMAIN stack'["E"] : stack'["E"][i].kind # "loop"
    BY <1>2 DEF Follows, FramesInv, LoopsOK, Hosts
  <2>2. stack'["T"] # <<>> => stack'["T"][1].kind = "loop"
    BY <1>2, <1>3, <1>4 DEF Follows, FramesInv, LoopsOK, Hosts
  <2>3. \A i \in DOMAIN stack'["T"] : i # 1 => stack'["T"][i].kind # "loop"
    BY <1>2 DEF Follows, FramesInv, LoopsOK, Hosts
  <2> QED BY <2>1, <2>2, <2>3 DEF LoopsOK
<1>6. FramesInv'
  BY <1>1, <1>2, <1>5 DEF FramesInv, Follows
<1>7. DeliveryStep
  BY <1>2 DEF DeliveryStep, Follows
<1> QED BY <1>4, <1>6, <1>7

\* A step that leaves the frames alone.
LEMMA FramesAlone ==
    ASSUME FramesInv, UNCHANGED stack
    PROVE  FramesInv' /\ DeliveryStep
<1>1. \A y \in Hosts : Follows(stack[y], stack'[y])
  BY FollowsItself DEF FramesInv
<1>2. DeliveryStep
  BY <1>1 DEF DeliveryStep, Follows
<1> QED BY <1>2 DEF FramesInv, LoopsOK

\* The service actor starts: it had no frame, and gets the one that reads.
LEMMA ServiceStarts ==
    ASSUME FramesInv, stack["T"] = <<>>, stack' = [stack EXCEPT !["T"] = <<LoopFrame>>]
    PROVE  FramesInv' /\ stack'["T"] # <<>> /\ DeliveryStep
<1> DEFINE t == <<LoopFrame>>
<1>1. /\ DOMAIN stack' = Hosts /\ stack'["T"] = t /\ stack'["E"] = stack["E"]
  BY DEF FramesInv, Hosts
<1>2. IsFrame(LoopFrame) /\ LoopFrame.kind = "loop"
  BY DEF IsFrame, LoopFrame
<1>3. t \in Seq({LoopFrame}) /\ DOMAIN t = {1} /\ t[1] = LoopFrame /\ t # <<>>
  OBVIOUS
<1> HIDE DEF t
<1>4. FramesOK(t)
  BY <1>2, <1>3 DEF FramesOK
<1>5. LoopsOK'
  BY <1>1, <1>2, <1>3 DEF LoopsOK, FramesInv
<1>6. FramesInv'
  BY <1>1, <1>4, <1>5 DEF FramesInv, Hosts
<1>7. DOMAIN stack["T"] = {}
  OBVIOUS
<1>8. Follows(stack["E"], stack'["E"])
  BY <1>1, FollowsItself DEF FramesInv, Hosts
<1>9. DeliveryStep
  BY <1>7, <1>8 DEF DeliveryStep, Follows, Hosts
<1> QED BY <1>1, <1>3, <1>6, <1>9

\* What every step is shown to do.
Keeps == TeleInv' /\ DeliveryStep /\ QueueStep

\* What waits keeps its place when others come behind it.
LEMMA QueueBehind ==
    ASSUME TeleInv, NEW u \in Seq(Queued), queue' = queue \o u
    PROVE  queue' \in Seq(Queued) /\ QueueStep
<1>1. /\ queue' \in Seq(Queued) /\ Len(queue) \in Nat /\ Len(queue) <= Len(queue')
      /\ \A k \in 1 .. Len(queue) : queue'[k] = queue[k]
  BY DEF TeleInv
<1>2. SubSeq(queue, 1, Len(queue)) = SubSeq(queue', 1, Len(queue))
  BY <1>1 DEF TeleInv
<1> QED BY <1>1, <1>2 DEF QueueStep, IsPrefix

\* Nothing happens to the queue.
LEMMA QueueAlone ==
    ASSUME TeleInv, UNCHANGED queue
    PROVE  queue' \in Seq(Queued) /\ QueueStep
BY DEF TeleInv, QueueStep, IsPrefix

\* An actor that runs code, or the service actor awake, has the frames for it.
LEMMA HostsRun ==
    ASSUME TeleInv, NEW x \in Hosts, Runs(x)
    PROVE  stack[x] = <<>> => x = "E"
BY DEF TeleInv, Runs, Hosts

\* A step that follows the frames of one actor and leaves the queue alone.
LEMMA HostKeeps ==
    ASSUME TeleInv, NEW x \in Hosts, Runs(x), NEW t, Follows(stack[x], t),
           stack' = [stack EXCEPT ![x] = t], UNCHANGED <<queue, service>>
    PROVE  Keeps
<1>1. FramesInv' /\ (stack'["T"] = <<>> <=> stack["T"] = <<>>) /\ DeliveryStep
  BY HostFollows, HostsRun DEF TeleInv
<1> QED BY <1>1, QueueAlone DEF Keeps, TeleInv, QueueIsServed

\* teleRun.resume.
LEMMA ResumeOK == ASSUME TeleInv, NEW x \in Hosts, Resume(x) PROVE Keeps
<1> DEFINE f == Top(x)
           s == stack[x]
<1>1. /\ FramesOK(s) /\ s # <<>> /\ Runs(x) /\ f = Last(s) /\ IsFrame(f)
      /\ Len(s) \in DOMAIN s /\ f = s[Len(s)]
  BY LastOK DEF Resume, TeleInv, FramesInv, Top
<1> HIDE DEF s, f
<1>2. CASE /\ f.todo # <<>>
           /\ stack' = SetTop(x, [f EXCEPT !.cur = Head(f.todo).id, !.todo = Tail(@),
                                          !.body = TRUE])
           /\ UNCHANGED <<queue, service>>
  <2> DEFINE c == Head(f.todo).id
             r == Tail(f.todo)
             g == [f EXCEPT !.cur = c, !.todo = r, !.body = TRUE]
             t == Append(Front(s), g)
  <2> HIDE DEF c, r
  <2>1. /\ IsFrame(g) /\ g.kind = f.kind
        /\ g.todo = Tail(f.todo) /\ g.cur = Head(f.todo).id
    <3>1. IsFrame(g) /\ g.kind = f.kind /\ g.todo = r /\ g.cur = c
      BY <1>1 DEF IsFrame
    <3> QED BY <3>1 DEF r, c
  <2> HIDE DEF g
  <2>2. Follows(s, t)
    BY <1>1, <2>1, FollowsSet
  <2>3. stack' = [stack EXCEPT ![x] = t]
    BY <1>2 DEF SetTop, g, s, r, c
  <2> HIDE DEF t
  <2> QED BY <1>1, <1>2, <2>2, <2>3, HostKeeps DEF s
<1>3. CASE /\ f.todo = <<>> /\ f.kind # "loop"
           /\ stack' = [stack EXCEPT ![x] = Front(@)]
           /\ UNCHANGED <<queue, service>>
  <2> DEFINE t == Front(s)
  <2>1. /\ FramesOK(t) /\ DOMAIN t = DOMAIN s \ {Len(s)}
        /\ \A i \in DOMAIN t : t[i] = s[i]
        /\ t = <<>> => Len(s) = 1
    BY <1>1, PoppedOK
  <2>2. /\ DOMAIN stack' = Hosts /\ stack'[x] = t
        /\ \A y \in Hosts : y # x => stack'[y] = stack[y]
    BY <1>3 DEF TeleInv, FramesInv, s
  <2> HIDE DEF t
  <2>3. x = "T" => Len(s) # 1
    BY <1>1, <1>3 DEF TeleInv, FramesInv, LoopsOK, s
  <2>4. stack'["T"] = <<>> <=> stack["T"] = <<>>
    BY <1>1, <2>1, <2>2, <2>3 DEF s, Hosts
  <2>5. LoopsOK'
    <3>1. \A y \in Hosts : /\ DOMAIN stack'[y] \subseteq DOMAIN stack[y]
                           /\ \A i \in DOMAIN stack'[y] : stack'[y][i] = stack[y][i]
      BY <2>1, <2>2 DEF s
    <3>2. stack'["T"] # <<>> => 1 \in DOMAIN stack'["T"]
      <4>1. PICK S : stack'["T"] \in Seq(S)
        BY <2>1, <2>2 DEF TeleInv, FramesInv, FramesOK, Hosts
      <4> QED BY <4>1
    <3> QED BY <2>4, <3>1, <3>2 DEF LoopsOK, TeleInv, FramesInv, Hosts
  <2>6. FramesInv'
    BY <2>1, <2>2, <2>5 DEF TeleInv, FramesInv
  <2>7. DeliveryStep
    BY <1>1, <1>3, <2>1, <2>2 DEF DeliveryStep, s
  <2> QED BY <1>3, <2>4, <2>6, <2>7, QueueAlone DEF Keeps, TeleInv, QueueIsServed
<1>4. CASE /\ f.todo = <<>> /\ f.kind = "loop" /\ queue = <<>>
           /\ service' = "blocked" /\ UNCHANGED <<queue, stack>>
  <2>1. x = "T"
    BY <1>1, <1>4 DEF TeleInv, FramesInv, LoopsOK, Hosts, s
  <2>2. FramesInv' /\ DeliveryStep
    BY <1>4, FramesAlone DEF TeleInv
  <2> QED BY <1>1, <1>4, <2>1, <2>2, QueueAlone DEF Keeps, TeleInv, QueueIsServed, s
<1>5. CASE /\ f.todo = <<>> /\ f.kind = "loop" /\ queue # <<>>
           /\ stack' = SetTop(x, [f EXCEPT !.todo = Matched(Head(queue))])
           /\ queue' = Tail(queue) /\ UNCHANGED service
  <2> DEFINE m == Matched(Head(queue))
             g == [f EXCEPT !.todo = m]
             t == Append(Front(s), g)
  <2> HIDE DEF m
  <2>1. IsFrame(g) /\ g.kind = f.kind
    BY <1>1, FrameMoves
  <2> HIDE DEF g
  <2>2. Follows(s, t)
    BY <1>1, <1>5, <2>1, FollowsSet
  <2>3. stack' = [stack EXCEPT ![x] = t]
    BY <1>5 DEF SetTop, g, s, m
  <2>4. t # <<>> /\ Last(t) = g
    <3>1. FramesOK(t) /\ Len(s) \in DOMAIN t /\ t[Len(s)] = g /\ DOMAIN t = DOMAIN s
      BY <1>1, <2>1, ReplacedOK
    <3>2. Len(t) = Len(s)
      BY <1>1, <3>1 DEF FramesOK
    <3> QED BY <3>1, <3>2 DEF Last
  <2>5. x = "T"
    BY <1>1, <1>5 DEF TeleInv, FramesInv, LoopsOK, Hosts, s
  <2>6. stack'["T"] = t /\ g.todo = m
    BY <1>1, <2>3, <2>5 DEF TeleInv, FramesInv, IsFrame, g
  <2>7. QueueStep
    BY <1>5, <2>4, <2>6 DEF QueueStep, m
  <2>8. queue' \in Seq(Queued)
    BY <1>5 DEF TeleInv
  <2> HIDE DEF t
  <2>9. FramesInv' /\ (stack'["T"] = <<>> <=> stack["T"] = <<>>) /\ DeliveryStep
    BY <1>1, <2>2, <2>3, HostFollows, HostsRun DEF TeleInv, s
  <2> QED BY <1>5, <2>7, <2>8, <2>9 DEF Keeps, TeleInv, QueueIsServed
<1> QED BY <1>2, <1>3, <1>4, <1>5 DEF Resume, f

\* A handler returns.
LEMMA ReturnsOK == ASSUME TeleInv, NEW x \in Hosts, HandlerReturns(x) PROVE Keeps
<1> DEFINE f == Top(x)
           s == stack[x]
           g == [f EXCEPT !.body = FALSE]
           t == Append(Front(s), g)
<1>1. FramesOK(s) /\ s # <<>> /\ Runs(x) /\ f = Last(s) /\ IsFrame(f)
  BY LastOK DEF HandlerReturns, TeleInv, FramesInv, Top
<1> HIDE DEF s, f
<1>2. IsFrame(g) /\ g.kind = f.kind /\ g.todo = f.todo
  BY <1>1, FrameMoves
<1> HIDE DEF g
<1>3. Follows(s, t)
  BY <1>1, <1>2, FollowsSet
<1>4. stack' = [stack EXCEPT ![x] = t]
  BY DEF HandlerReturns, SetTop, s, g, f
<1> HIDE DEF t
<1> QED BY <1>1, <1>3, <1>4, HostKeeps DEF HandlerReturns, s

\* catchTele.
LEMMA RaisesOK == ASSUME TeleInv, NEW x \in Hosts, HandlerRaises(x) PROVE Keeps
<1> DEFINE f == Top(x)
           s == stack[x]
           g == Caught(x)
           t == Append(Front(s), g)
           told == SelectSeq(tele', LAMBDA h : "fail" \in h.prefix)
           n == [kind |-> "fail", todo |-> told, cur |-> "none", body |-> FALSE]
<1>1. FramesOK(s) /\ s # <<>> /\ Runs(x) /\ f = Last(s) /\ IsFrame(f)
  BY LastOK DEF HandlerRaises, TeleInv, FramesInv, Top
<1> HIDE DEF s, f, told
<1>2. IsFrame(g) /\ g.kind = f.kind /\ g.todo = f.todo
  BY <1>1, FrameMoves DEF Caught, f
<1>3. IsFrame(n) /\ n.kind # "loop"
  BY DEF IsFrame
<1> HIDE DEF g, n
<1>4. Follows(s, t) /\ Follows(s, Append(t, n))
  BY <1>1, <1>2, <1>3, FollowsSet, FollowsPush
<1>5. stack' \in {[stack EXCEPT ![x] = t], [stack EXCEPT ![x] = Append(t, n)]}
  <2> DEFINE b == [stack EXCEPT ![x] = t]
  <2>1. b = SetTop(x, Caught(x))
    BY DEF SetTop, g, s
  <2>2. stack' \in {b, [b EXCEPT ![x] = Append(@, n)]}
    BY <2>1 DEF HandlerRaises, n, told
  <2>3. [b EXCEPT ![x] = Append(@, n)] = [stack EXCEPT ![x] = Append(t, n)]
    <3> HIDE DEF t
    <3> QED BY DEF TeleInv, FramesInv
  <2> QED BY <2>2, <2>3
<1> HIDE DEF t
<1>6. UNCHANGED <<queue, service>>
  BY DEF HandlerRaises
<1>7. PICK u : Follows(s, u) /\ stack' = [stack EXCEPT ![x] = u]
  BY <1>4, <1>5
<1> QED BY <1>1, <1>6, <1>7, HostKeeps DEF s

\* beginEmit and the [:vm, :spawn] of a spawn.
LEMMA EmitOK ==
    ASSUME TeleInv, NEW x \in Hosts, NEW kind \in {"app", "spawn"}, Emit(x, kind)
    PROVE  Keeps
<1> DEFINE s == stack[x]
           n == Delivery(kind)
           t == Append(s, n)
<1>1. FramesOK(s) /\ Runs(x) /\ UNCHANGED <<queue, service>>
  BY DEF Emit, TeleInv, FramesInv
<1>2. IsFrame(n) /\ n.kind # "loop"
  BY DEF IsFrame, Delivery
<1>3. CASE stack' = Push(x, n)
  <2>1. stack' = [stack EXCEPT ![x] = t]
    BY <1>3 DEF Push
  <2> HIDE DEF n, s
  <2>2. Follows(s, t)
    BY <1>1, <1>2, FollowsItself, FollowsPush
  <2> HIDE DEF t
  <2> QED BY <1>1, <2>1, <2>2, HostKeeps DEF s
<1>4. CASE UNCHANGED stack
  BY <1>1, <1>4, FramesAlone, QueueAlone DEF Keeps, TeleInv, QueueIsServed
<1> QED BY <1>3, <1>4 DEF Emit

\* The frame of a message follows what is there.
LEMMA MessageFollows ==
    ASSUME NEW s, NEW t, Follows(s, t), NEW kind \in {"send", "recv"}
    PROVE  Follows(s, MessageFrame(t, kind))
<1> DEFINE n == Delivery(kind)
<1>1. IsFrame(n) /\ n.kind # "loop"
  BY DEF IsFrame, Delivery
<1> HIDE DEF n
<1>2. Follows(s, Append(t, n))
  BY <1>1, FollowsPush
<1> QED BY <1>2 DEF MessageFrame, n

\* execFrame SEND.
LEMMA SendOK ==
    ASSUME TeleInv, NEW x \in Hosts, NEW busy \in BOOLEAN, Send(x, busy)
    PROVE  Keeps
<1> DEFINE s == stack[x]
           n == Delivery("hwm")
           hwm == IF busy /\ Wants("hwm") THEN Append(s, n) ELSE s
           t == MessageFrame(hwm, "send")
<1>1. FramesOK(s) /\ Runs(x) /\ UNCHANGED <<queue, service>>
  BY DEF Send, TeleInv, FramesInv
<1>2. IsFrame(n) /\ n.kind # "loop"
  BY DEF IsFrame, Delivery
<1>3. stack' = [stack EXCEPT ![x] = t]
  BY DEF Send
<1> HIDE DEF s, n
<1>4. Follows(s, hwm)
  BY <1>1, <1>2, FollowsItself, FollowsPush
<1> HIDE DEF hwm
<1>5. Follows(s, t)
  BY <1>4, MessageFollows
<1> HIDE DEF t
<1> QED BY <1>1, <1>3, <1>5, HostKeeps DEF s

\* execFrame RECVTAKE.
LEMMA RecvOK == ASSUME TeleInv, NEW x \in Hosts, Recv(x) PROVE Keeps
<1> DEFINE s == stack[x]
           t == MessageFrame(s, "recv")
<1>1. FramesOK(s) /\ Runs(x) /\ UNCHANGED <<queue, service>>
  BY DEF Recv, TeleInv, FramesInv
<1>2. stack' = [stack EXCEPT ![x] = t]
  BY DEF Recv
<1> HIDE DEF s
<1>3. Follows(s, t)
  BY <1>1, FollowsItself, MessageFollows
<1> HIDE DEF t
<1> QED BY <1>1, <1>2, <1>3, HostKeeps DEF s

\* teleOnDeath and teleTimerHWM.
LEMMA EnqueueOK ==
    ASSUME TeleInv, NEW wanted \in Seq(Queued), Enqueue(wanted) PROVE Keeps
<1>1. CASE UNCHANGED <<queue, service, stack>>
  BY <1>1, FramesAlone, QueueAlone DEF Keeps, TeleInv, QueueIsServed
<1>2. CASE /\ queue' = queue \o wanted
           /\ service' = Began
           /\ stack' = IF service = "none" THEN [stack EXCEPT !["T"] = <<LoopFrame>>]
                       ELSE stack
  <2>1. queue' \in Seq(Queued) /\ QueueStep
    BY <1>2, QueueBehind
  <2>2. CASE service = "none"
    <3>1. FramesInv' /\ stack'["T"] # <<>> /\ DeliveryStep
      BY <1>2, <2>2, ServiceStarts DEF TeleInv
    <3> QED BY <1>2, <2>1, <3>1 DEF Keeps, TeleInv, QueueIsServed, Began
  <2>3. CASE service # "none"
    <3>1. FramesInv' /\ DeliveryStep /\ UNCHANGED stack
      BY <1>2, <2>3, FramesAlone DEF TeleInv
    <3> QED BY <1>2, <2>1, <2>3, <3>1 DEF Keeps, TeleInv, QueueIsServed, Began
  <2> QED BY <2>2, <2>3
<1> QED BY <1>1, <1>2, Zenon DEF Enqueue

\* What a death or a timer enqueues are events of the queue.
LEMMA WantedOK ==
    ASSUME NEW kind \in Queued PROVE Wanted(kind) \in Seq(Queued)
BY DEF Wanted

\* No frames, or the one that reads the queue: what a death leaves.
LEMMA FreshOK ==
    /\ FramesOK(<<>>) /\ FramesOK(<<LoopFrame>>) /\ <<LoopFrame>> # <<>>
    /\ DOMAIN <<LoopFrame>> = {1} /\ <<LoopFrame>>[1].kind = "loop"
<1>1. IsFrame(LoopFrame) /\ LoopFrame.kind = "loop"
  BY DEF IsFrame, LoopFrame
<1>2. FramesOK(<<>>)
  <2>1. <<>> \in Seq({}) /\ DOMAIN <<>> = {}
    OBVIOUS
  <2> QED BY <2>1 DEF FramesOK
<1>3. <<LoopFrame>> \in Seq({LoopFrame}) /\ <<LoopFrame>>[1] = LoopFrame
      /\ DOMAIN <<LoopFrame>> = {1} /\ <<LoopFrame>> # <<>>
  OBVIOUS
<1>4. FramesOK(<<LoopFrame>>)
  BY <1>1, <1>3 DEF FramesOK
<1> QED BY <1>1, <1>2, <1>3, <1>4

\* The emitting actor dies.
LEMMA EDiesOK == ASSUME TeleInv, EDies PROVE Keeps
<1> DEFINE l == <<LoopFrame>>
           e == <<>>
<1>1. /\ FramesOK(e) /\ FramesOK(l) /\ l # e /\ DOMAIN l = {1} /\ l[1].kind = "loop"
      /\ DOMAIN e = {}
  BY FreshOK
<1>2. /\ DOMAIN stack' = Hosts /\ stack'["E"] = e
      /\ \/ stack'["T"] = stack["T"] /\ UNCHANGED service
         \/ stack'["T"] = stack["T"] /\ service # "none" /\ service' = "ready"
         \/ stack'["T"] = l /\ service' = "ready"
      /\ \/ UNCHANGED queue
         \/ service' = "ready" /\ queue' = Append(queue, "down")
  BY DEF EDies, TeleInv, FramesInv, Hosts, Began
<1> HIDE DEF l, e
<1>3. LoopsOK'
  BY <1>1, <1>2 DEF TeleInv, FramesInv, LoopsOK, e
<1>4. FramesInv'
  BY <1>1, <1>2, <1>3 DEF TeleInv, FramesInv, Hosts
<1>5. (service = "none" <=> stack["T"] = <<>>)'
  BY <1>1, <1>2 DEF TeleInv, e
<1>6. QueueIsServed'
  BY <1>2 DEF TeleInv, QueueIsServed
<1>7. \/ stack["T"] = <<>>
      \/ stack'["T"] = stack["T"] /\ Follows(stack["T"], stack'["T"])
  <2>1. service = "none" => stack["T"] = <<>>
    BY DEF TeleInv
  <2>2. service # "none" => stack'["T"] = stack["T"]
    BY DEF EDies, TeleInv, FramesInv, Hosts
  <2>3. Follows(stack["T"], stack["T"])
    BY FollowsItself DEF TeleInv, FramesInv, Hosts
  <2> QED BY <2>1, <2>2, <2>3
<1>8. DeliveryStep
  BY <1>7 DEF DeliveryStep, Follows, Hosts
<1>9. queue' \in Seq(Queued) /\ QueueStep
  <2>1. CASE UNCHANGED queue
    BY <2>1, QueueAlone
  <2>2. CASE queue' = Append(queue, "down")
    <3>1. queue' = queue \o <<"down">> /\ <<"down">> \in Seq(Queued)
      BY <2>2 DEF TeleInv, Queued
    <3> QED BY <3>1, QueueBehind
  <2> QED BY <1>2, <2>1, <2>2
<1> QED BY <1>4, <1>5, <1>6, <1>8, <1>9 DEF Keeps, TeleInv

\* The service actor dies.
LEMMA ServiceDiesOK == ASSUME TeleInv, ServiceDies PROVE Keeps
<1> DEFINE l == <<LoopFrame>>
           e == <<>>
<1>1. /\ FramesOK(e) /\ FramesOK(l) /\ l # e /\ DOMAIN l = {1} /\ l[1].kind = "loop"
      /\ DOMAIN e = {}
  BY FreshOK
<1>2. /\ DOMAIN stack' = Hosts /\ stack'["E"] = stack["E"]
      /\ \/ stack'["T"] = l /\ service' = "ready"
         \/ stack'["T"] = e /\ service' = "none" /\ queue' = <<>>
  BY DEF ServiceDies, TeleInv, FramesInv, Hosts, Heir
<1> HIDE DEF l, e
<1>3. LoopsOK'
  BY <1>1, <1>2 DEF TeleInv, FramesInv, LoopsOK, e
<1>4. FramesInv'
  BY <1>1, <1>2, <1>3 DEF TeleInv, FramesInv, Hosts
<1>5. (service = "none" <=> stack["T"] = <<>>)'
  BY <1>1, <1>2 DEF TeleInv, e
<1>6. QueueIsServed'
  BY <1>2 DEF TeleInv, QueueIsServed
<1>7. DeliveryStep
  <2>1. Follows(stack["E"], stack'["E"])
    BY <1>2, FollowsItself DEF TeleInv, FramesInv, Hosts
  <2> QED BY <2>1 DEF DeliveryStep, Follows, Hosts
<1>8. queue' \in Seq(Queued) /\ QueueStep
  <2>1. CASE tele = <<>>
    BY <2>1 DEF ServiceDies, QueueStep
  <2>2. CASE tele # <<>>
    BY <2>2, QueueAlone DEF ServiceDies
  <2> QED BY <2>1, <2>2
<1> QED BY <1>4, <1>5, <1>6, <1>7, <1>8 DEF Keeps, TeleInv

\* The start.
LEMMA TeleStart == Init => TeleInv
<1> SUFFICES ASSUME Init PROVE TeleInv
  OBVIOUS
<1>1. DOMAIN stack = Hosts /\ stack["E"] = <<>> /\ stack["T"] = <<>>
  BY DEF Init, Hosts
<1>2. FramesOK(<<>>) /\ DOMAIN <<>> = {}
  BY FreshOK
<1>3. FramesInv
  BY <1>1, <1>2 DEF FramesInv, LoopsOK, Hosts
<1>4. queue \in Seq(Queued)
  BY DEF Init
<1> QED BY <1>1, <1>3, <1>4 DEF Init, TeleInv, QueueIsServed

\* A step that touches neither the frames nor the queue.
LEMMA TeleAlone ==
    ASSUME TeleInv, UNCHANGED <<stack, queue, service>> PROVE Keeps
BY FramesAlone, QueueAlone DEF Keeps, TeleInv, QueueIsServed

\* Every step.
LEMMA TeleStep == ASSUME TeleInv, [Next]_vars PROVE Keeps
<1>1. CASE UNCHANGED vars
  BY <1>1, TeleAlone DEF vars
<1>2. ASSUME NEW x \in Hosts, Resume(x) PROVE Keeps
  BY <1>2, ResumeOK
<1>3. ASSUME NEW x \in Hosts, HandlerReturns(x) PROVE Keeps
  BY <1>3, ReturnsOK
<1>4. ASSUME NEW x \in Hosts, HandlerRaises(x) PROVE Keeps
  BY <1>4, RaisesOK
<1>5. ASSUME NEW x \in Hosts, Recv(x) PROVE Keeps
  BY <1>5, RecvOK
<1>6. ASSUME NEW x \in Hosts, NEW id \in Ids,
             Detach(x, id) \/ \E p \in PathPrefixes : Attach(x, id, p)
      PROVE Keeps
  BY <1>6, TeleAlone DEF Detach, Attach
<1>7. ASSUME NEW x \in Hosts, NEW kind \in {"app", "spawn"}, Emit(x, kind) PROVE Keeps
  BY <1>7, EmitOK
<1>8. ASSUME NEW x \in Hosts, NEW busy \in BOOLEAN, Send(x, busy) PROVE Keeps
  BY <1>8, SendOK
<1>9. CASE Death
  <2>1. PICK wanted \in {Wanted("crash") \o Wanted("down"), Wanted("down"), Wanted("hwm")} :
               Enqueue(wanted)
    BY <1>9 DEF Death
  <2>2. /\ Wanted("crash") \in Seq(Queued) /\ Wanted("down") \in Seq(Queued)
        /\ Wanted("hwm") \in Seq(Queued)
    BY WantedOK DEF Queued
  <2>3. Wanted("crash") \o Wanted("down") \in Seq(Queued)
    <3> DEFINE c == Wanted("crash")
               d == Wanted("down")
    <3>1. c \in Seq(Queued) /\ d \in Seq(Queued)
      BY <2>2
    <3> HIDE DEF c, d
    <3>2. c \o d \in Seq(Queued)
      BY <3>1
    <3> QED BY <3>2 DEF c, d
  <2>4. wanted \in Seq(Queued)
    BY <2>1, <2>2, <2>3
  <2> QED BY <2>1, <2>4, EnqueueOK
<1>10. CASE EDies
  BY <1>10, EDiesOK
<1>11. CASE ServiceDies
  BY <1>11, ServiceDiesOK
<1>12. CASE Rest
  BY <1>12, <1>1 DEF Rest
<1> QED BY <1>1, <1>2, <1>3, <1>4, <1>5, <1>6, <1>7, <1>8, <1>9, <1>10, <1>11, <1>12
        DEF Next

\* An event of the dead that waits in the queue has a service actor awake for
\* it, whoever killed the one before, a handler or an exit, and with whatever is
\* attached, detached or refused meanwhile.
THEOREM ServedCorrect == Spec => []QueueIsServed
<1>1. TeleInv => QueueIsServed
  BY DEF TeleInv
<1>2. TeleInv /\ [Next]_vars => TeleInv'
  BY TeleStep DEF Keeps
<1> QED BY <1>1, <1>2, TeleStart, PTL DEF Spec

\* Waiting events have a service actor awake for them and keep their places,
\* whoever dies, until a delivery to all that match begins, unless the service
\* actor dies and nobody subscribes.  The handlers of a delivery are each called
\* or still to be called until its end, whatever they raise, detach or attach and
\* whichever other actor dies; the death of the actor that delivers ends its
\* deliveries, and that is the event its remaining handlers lose.
THEOREM DeliveryCorrect == Spec => DeliveryGoesOn
<1>1. TeleInv /\ [Next]_vars => TeleInv' /\ [DeliveryStep /\ QueueStep]_vars
  BY TeleStep DEF Keeps
<1> QED BY <1>1, TeleStart, ServedCorrect, PTL DEF Spec, DeliveryGoesOn
=============================================================================
