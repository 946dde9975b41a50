---------------------------- MODULE SessionProofs ----------------------------
(***************************************************************************)
(* The loop of a session, for any inputs and bounds.  The two properties    *)
(* are not inductive: that an answer is sent once needs that an input which *)
(* is current, pending or not yet taken has none, and that the two are not  *)
(* the same; that the actor is queued once needs to know, at each place of  *)
(* the loop, which of its statuses is left there (a slice of it is in       *)
(* progress under a nested loop too) and whether Sys.halt was called.       *)
(***************************************************************************)
EXTENDS Session, Reload, FiniteSetTheorems, TLAPS

Queue == Seq({"S", "B"})
\* The session actor is in the queue; and not twice.
In(q) == \E i \in DOMAIN q : q[i] = "S"
Once(q) == \A i, k \in DOMAIN q : q[i] = "S" /\ q[k] = "S" => i = k

\* Where the loop is inside a slice of the session actor.
Running == {"slice", "tail", "yield", "yieldrun", "yieldwait"}
Nested == {"nest", "nestrun", "nestwait"}
Outside == {"top", "poll", "jobs", "wait", "run"}

\* The ranges of the variables the loop writes.
Type ==
    /\ lpc \in Running \cup Nested \cup Outside \cup {"ended"}
    /\ ready \in Queue
    /\ current \in Jobs \cup {Nobody} /\ pending \in Jobs \cup {Nobody}
    /\ sess \in {"blocked", "ready", "running"} /\ bg \in {"blocked", "ready"}
    /\ interrupt \in BOOLEAN /\ halt \in BOOLEAN
    /\ kind \in [Jobs -> {"input", "sync"}]
    /\ caller \in [Jobs -> {"idle", "sending", "waiting", "over"}]
    /\ done \in [Jobs -> Seq(Results)]

\* Inputs: current before pending; taken and not answered.
JobsOK ==
    /\ pending # Nobody => current # Nobody /\ current # pending
    /\ \A j \in Jobs :
          /\ Len(done[j]) <= 1
          /\ j \in {current, pending} \/ caller[j] \in {"idle", "sending"} => done[j] = <<>>
          /\ j \in {current, pending} => caller[j] \in {"waiting", "over"}
          /\ caller[j] = "waiting" /\ done[j] = <<>> => j \in {current, pending}

\* What holds where the loop is.
LoopOK ==
    /\ lpc = "ended" => current = Nobody /\ pending = Nobody
    /\ lpc \in Running \cup Nested => current # Nobody
    /\ lpc \in {"poll", "jobs", "wait", "run", "slice", "nestrun", "nestwait", "yieldrun",
                "yieldwait"} => ~halt
    /\ lpc # "ended" => (sess = "running" <=> lpc \in Running)
    /\ lpc \in {"wait", "nestwait", "yieldwait"} => ready = <<>>
    /\ lpc \in {"run", "nestrun", "yieldrun"} => ready # <<>>

\* The session actor is queued once, for an input.  A loop nested in its own
\* recv may have taken the entry and not yet have looked at the status.
QueueOK ==
    lpc # "ended" =>
        /\ Once(ready)
        /\ In(ready) => sess = "ready" /\ current # Nobody
        /\ sess = "ready" /\ ~halt /\ lpc # "nest" => In(ready)

IInv == Type /\ JobsOK /\ LoopOK /\ QueueOK

-----------------------------------------------------------------------------
\* What the queue is after an entry is added, taken or dropped.

\* An entry of the session actor joins a queue without one.
LEMMA AppendS ==
    ASSUME NEW q \in Queue, ~In(q)
    PROVE  Append(q, "S") \in Queue /\ In(Append(q, "S")) /\ Once(Append(q, "S"))
<1>1. /\ Append(q, "S") \in Queue
      /\ DOMAIN Append(q, "S") = 1 .. (Len(q) + 1) /\ DOMAIN q = 1 .. Len(q) /\ Len(q) \in Nat
      /\ Append(q, "S")[Len(q) + 1] = "S"
      /\ \A i \in 1 .. Len(q) : Append(q, "S")[i] = q[i]
  BY DEF Queue
<1> QED BY <1>1 DEF In, Once

\* An entry of the other actor changes nothing for the session actor's.
LEMMA AppendB ==
    ASSUME NEW q \in Queue
    PROVE  /\ Append(q, "B") \in Queue /\ (In(Append(q, "B")) <=> In(q))
           /\ Once(q) => Once(Append(q, "B"))
<1>1. /\ Append(q, "B") \in Queue
      /\ DOMAIN Append(q, "B") = 1 .. (Len(q) + 1) /\ DOMAIN q = 1 .. Len(q) /\ Len(q) \in Nat
      /\ Append(q, "B")[Len(q) + 1] = "B"
      /\ \A i \in 1 .. Len(q) : Append(q, "B")[i] = q[i]
  BY DEF Queue
<1> QED BY <1>1 DEF In, Once

\* The head of the queue is taken.
LEMMA TakeHead ==
    ASSUME NEW q \in Queue, q # <<>>, Once(q)
    PROVE  /\ Tail(q) \in Queue /\ Once(Tail(q)) /\ Head(q) \in {"S", "B"}
           /\ Head(q) = "S" => In(q) /\ ~In(Tail(q))
           /\ Head(q) = "B" => (In(Tail(q)) <=> In(q))
<1>1. /\ Tail(q) \in Queue /\ Len(q) \in Nat /\ Len(q) > 0
      /\ DOMAIN Tail(q) = 1 .. (Len(q) - 1) /\ DOMAIN q = 1 .. Len(q)
      /\ Head(q) = q[1] /\ q[1] \in {"S", "B"}
      /\ \A i \in 1 .. (Len(q) - 1) : Tail(q)[i] = q[i + 1]
  BY DEF Queue
<1>2. Once(Tail(q))
  <2> SUFFICES ASSUME NEW i \in DOMAIN Tail(q), NEW k \in DOMAIN Tail(q),
                      Tail(q)[i] = "S", Tail(q)[k] = "S"
               PROVE  i = k
    BY DEF Once
  <2>1. i + 1 \in DOMAIN q /\ k + 1 \in DOMAIN q /\ i \in Nat /\ k \in Nat
    BY <1>1
  <2> QED BY <1>1, <2>1 DEF Once
<1>3. 1 \in DOMAIN q
  BY <1>1
<1>4. ASSUME Head(q) = "S" PROVE ~In(Tail(q))
  <2> SUFFICES ASSUME NEW i \in DOMAIN Tail(q), Tail(q)[i] = "S" PROVE FALSE
    BY DEF In
  <2>1. i + 1 \in DOMAIN q /\ i + 1 # 1 /\ q[i + 1] = "S"
    BY <1>1
  <2> QED BY <1>1, <1>3, <1>4, <2>1 DEF Once
<1>5. ASSUME In(Tail(q)) PROVE In(q)
  <2>1. PICK i \in DOMAIN Tail(q) : Tail(q)[i] = "S"
    BY <1>5 DEF In
  <2>2. i + 1 \in DOMAIN q /\ q[i + 1] = "S"
    BY <1>1, <2>1
  <2> QED BY <2>2 DEF In
<1>6. ASSUME Head(q) = "B", In(q) PROVE In(Tail(q))
  <2>1. PICK i \in DOMAIN q : q[i] = "S"
    BY <1>6 DEF In
  <2>2. i # 1
    BY <1>1, <1>6, <2>1
  <2>3. i - 1 \in DOMAIN Tail(q) /\ (i - 1) + 1 = i
    BY <1>1, <2>2
  <2> QED BY <1>1, <2>1, <2>3 DEF In
<1> QED BY <1>1, <1>2, <1>3, <1>4, <1>5, <1>6 DEF In

\* unready leaves no entry of the session actor.
LEMMA Dropped ==
    ASSUME NEW q \in Queue PROVE NotReady(q) \in Queue /\ ~In(NotReady(q))
<1> DEFINE B == {i \in DOMAIN q : q[i] = "B"}
           n == Cardinality(B)
<1>1. n \in Nat
  <2>1. DOMAIN q = 1 .. Len(q) /\ Len(q) \in Nat
    BY DEF Queue
  <2>2. IsFiniteSet(DOMAIN q)
    BY <2>1, FS_Interval
  <2>3. IsFiniteSet(B)
    BY <2>2, FS_Subset
  <2> QED BY <2>3, FS_CardinalityType
<1>2. NotReady(q) = [i \in 1 .. n |-> "B"]
  BY DEF NotReady
<1> HIDE DEF n
<1>3. NotReady(q) \in [1 .. n -> {"S", "B"}]
  BY <1>2
<1> QED BY <1>1, <1>2, <1>3 DEF In, Queue

\* No entry is at most one.
LEMMA NoEntry == ASSUME NEW q, ~In(q) PROVE Once(q)
BY DEF In, Once

-----------------------------------------------------------------------------
\* The answers.

\* A result joins the channel of an unanswered input.
LEMMA Answered ==
    ASSUME NEW r \in Results PROVE Append(<<>>, r) \in Seq(Results) /\ Len(Append(<<>>, r)) = 1
                                   /\ Append(<<>>, r) # <<>>
OBVIOUS

\* What a step leaves to the loop: the queue and the answers, whatever lpc is.
Kept ==
    /\ ready' \in Queue /\ sess' \in {"blocked", "ready", "running"}
    /\ current' \in Jobs \cup {Nobody} /\ pending' \in Jobs \cup {Nobody}
    /\ done' \in [Jobs -> Seq(Results)]
    /\ caller' \in [Jobs -> {"idle", "sending", "waiting", "over"}]
    /\ JobsOK'
    /\ Once(ready')
    /\ In(ready') => sess' = "ready" /\ current' # Nobody

\* completeJob: the current input is answered, the pending one begun.
LEMMA Completed ==
    ASSUME IInv, current # Nobody, NEW rd \in Queue, ~In(rd), NEW r \in Results,
           Complete(r, rd), UNCHANGED <<caller, kind>>
    PROVE  /\ Kept /\ interrupt' \in BOOLEAN
           /\ sess' # "running" /\ (sess' = "ready" => In(ready'))
<1>1. /\ current \in Jobs /\ done[current] = <<>> /\ pending \in Jobs \cup {Nobody}
      /\ done \in [Jobs -> Seq(Results)] /\ Nobody \notin Jobs
      /\ caller' = caller /\ kind' = kind
      /\ caller \in [Jobs -> {"idle", "sending", "waiting", "over"}]
      /\ kind \in [Jobs -> {"input", "sync"}]
  BY SessionAssumption DEF IInv, Type, JobsOK
<1> DEFINE dn == [done EXCEPT ![current] = Append(@, r)]
<1>2. /\ dn \in [Jobs -> Seq(Results)] /\ Len(dn[current]) = 1 /\ dn[current] # <<>>
      /\ \A j \in Jobs : j # current => dn[j] = done[j]
  BY <1>1, Answered
<1>3. /\ interrupt' = FALSE /\ pending' = Nobody
      /\ IF pending # Nobody THEN Begin(pending, Nobody, dn, rd)
         ELSE current' = Nobody /\ done' = dn /\ ready' = rd /\ sess' = "blocked"
  BY DEF Complete
<1> HIDE DEF dn
<1>4. \A j \in Jobs : /\ Len(dn[j]) <= 1
                      /\ caller[j] \in {"idle", "sending"} => dn[j] = <<>>
                      /\ j = pending => dn[j] = <<>> /\ caller[j] \in {"waiting", "over"}
                      /\ caller[j] = "waiting" /\ dn[j] = <<>> => j = pending
  <2> SUFFICES ASSUME NEW j \in Jobs
               PROVE  /\ Len(dn[j]) <= 1
                      /\ caller[j] \in {"idle", "sending"} => dn[j] = <<>>
                      /\ j = pending => dn[j] = <<>> /\ caller[j] \in {"waiting", "over"}
                      /\ caller[j] = "waiting" /\ dn[j] = <<>> => j = pending
    OBVIOUS
  <2>1. /\ Len(done[j]) <= 1
        /\ j \in {current, pending} \/ caller[j] \in {"idle", "sending"} => done[j] = <<>>
        /\ j \in {current, pending} => caller[j] \in {"waiting", "over"}
        /\ caller[j] = "waiting" /\ done[j] = <<>> => j \in {current, pending}
        /\ pending # Nobody => current # pending
    BY DEF IInv, JobsOK
  <2>2. CASE j = current
    <3>1. /\ j # pending /\ caller[j] \in {"waiting", "over"}
          /\ Len(dn[j]) = 1 /\ dn[j] # <<>>
      BY <1>1, <1>2, <2>1, <2>2
    <3> QED BY <3>1
  <2>3. CASE j # current
    BY <1>1, <1>2, <2>1, <2>3
  <2> QED BY <2>2, <2>3
<1>5. CASE pending = Nobody
  <2>1. current' = Nobody /\ pending' = Nobody /\ done' = dn /\ ready' = rd /\ sess' = "blocked"
    BY <1>3, <1>5
  <2>2. JobsOK'
    BY <1>1, <1>4, <1>5, <2>1 DEF JobsOK
  <2> QED BY <1>1, <1>2, <1>3, <2>1, <2>2, NoEntry DEF Kept
<1>6. CASE pending # Nobody /\ kind[pending] = "sync"
  <2>1. /\ current' = Nobody /\ pending' = Nobody /\ ready' = rd /\ sess' = "blocked"
        /\ done' = [dn EXCEPT ![pending] = Append(@, "ok")] /\ pending \in Jobs
    BY <1>1, <1>3, <1>6 DEF Begin
  <2>2. dn[pending] = <<>> /\ "ok" \in Results
    BY <1>4, <2>1 DEF Results
  <2>3. /\ done' \in [Jobs -> Seq(Results)] /\ Len(done'[pending]) = 1 /\ done'[pending] # <<>>
        /\ \A j \in Jobs : j # pending => done'[j] = dn[j]
    BY <1>2, <2>1, <2>2, Answered
  <2>4. JobsOK'
    BY <1>1, <1>4, <2>1, <2>3 DEF JobsOK
  <2> QED BY <1>1, <1>3, <2>1, <2>3, <2>4, NoEntry DEF Kept
<1>7. CASE pending # Nobody /\ kind[pending] = "input"
  <2>1. /\ current' = pending /\ pending' = Nobody /\ ready' = Append(rd, "S") /\ sess' = "ready"
        /\ done' = dn /\ pending \in Jobs
    BY <1>1, <1>3, <1>7 DEF Begin
  <2>2. JobsOK'
    BY <1>1, <1>4, <2>1 DEF JobsOK
  <2> QED BY <1>1, <1>2, <1>3, <1>7, <2>1, <2>2, AppendS DEF Kept
<1>8. pending = Nobody \/ kind[pending] \in {"sync", "input"}
  BY <1>1
<1> QED BY <1>5, <1>6, <1>7, <1>8

\* takeJob: the input waits for the current one, or is begun.
LEMMA Taken ==
    ASSUME IInv, NEW j \in Sending, pending = Nobody, Take(j), sess # "running", lpc # "ended",
           kind' = kind
    PROVE  /\ Kept /\ sess' # "running"
           /\ sess' = "ready" => sess = "ready" \/ In(ready')
           /\ In(ready) => In(ready')
<1>1. /\ j \in Jobs /\ caller[j] = "sending" /\ done[j] = <<>> /\ j # current /\ j # Nobody
      /\ Nobody \notin Jobs
      /\ caller' = [caller EXCEPT ![j] = "waiting"] /\ ready \in Queue
      /\ done \in [Jobs -> Seq(Results)] /\ current \in Jobs \cup {Nobody}
      /\ caller \in [Jobs -> {"idle", "sending", "waiting", "over"}]
      /\ kind \in [Jobs -> {"input", "sync"}] /\ sess \in {"blocked", "ready", "running"}
      /\ Once(ready) /\ (In(ready) => sess = "ready" /\ current # Nobody)
  BY SessionAssumption DEF IInv, Type, JobsOK, QueueOK, Sending, Take
<1>2. /\ caller' \in [Jobs -> {"idle", "sending", "waiting", "over"}] /\ caller'[j] = "waiting"
      /\ \A k \in Jobs : k # j => caller'[k] = caller[k]
  BY <1>1
<1>3. CASE current # Nobody
  <2>1. pending' = j /\ UNCHANGED <<current, done, ready, sess>>
    BY <1>3 DEF Take
  <2>2. JobsOK'
    BY <1>1, <1>2, <1>3, <2>1 DEF IInv, JobsOK
  <2> QED BY <1>1, <1>2, <2>1, <2>2 DEF Kept
<1>4. CASE current = Nobody /\ kind[j] = "sync"
  <2>1. /\ pending' = Nobody /\ done' = [done EXCEPT ![j] = Append(@, "ok")]
        /\ UNCHANGED <<current, ready, sess>> /\ "ok" \in Results
    BY <1>4 DEF Take, Results
  <2>2. /\ done' \in [Jobs -> Seq(Results)] /\ Len(done'[j]) = 1 /\ done'[j] # <<>>
        /\ \A k \in Jobs : k # j => done'[k] = done[k]
    BY <1>1, <2>1, Answered
  <2>3. JobsOK'
    BY <1>1, <1>2, <1>4, <2>1, <2>2 DEF IInv, JobsOK
  <2> QED BY <1>1, <1>2, <2>1, <2>2, <2>3 DEF Kept
<1>5. CASE current = Nobody /\ kind[j] = "input"
  <2>1. /\ pending' = Nobody /\ current' = j /\ ready' = Append(ready, "S") /\ sess' = "ready"
        /\ done' = done
    BY <1>5 DEF Take
  <2>2. JobsOK'
    BY <1>1, <1>2, <1>5, <2>1 DEF IInv, JobsOK
  <2> QED BY <1>1, <1>2, <1>5, <2>1, <2>2, AppendS DEF Kept
<1> QED BY <1>1, <1>3, <1>4, <1>5

\* drainInject: the session actor is queued when it is woken.
LEMMA Injected ==
    ASSUME IInv, lpc # "ended", Drained, UNCHANGED <<current, pending, done, caller>>
    PROVE  /\ Kept /\ bg' \in {"blocked", "ready"}
           /\ sess' = "running" <=> sess = "running"
           /\ sess' = "ready" => sess = "ready" \/ In(ready')
           /\ In(ready) => In(ready')
<1>1. /\ ready \in Queue /\ sess \in {"blocked", "ready", "running"} /\ bg \in {"blocked", "ready"}
      /\ Once(ready) /\ (In(ready) => sess = "ready" /\ current # Nobody)
  BY DEF IInv, Type, QueueOK
<1>2. JobsOK' /\ current' = current
  BY DEF IInv, JobsOK
<1>3. CASE UNCHANGED <<bg, sess, inject, ready>>
  BY <1>1, <1>2, <1>3 DEF Kept, IInv, Type
<1>4. CASE /\ bg' = "ready" /\ UNCHANGED sess
           /\ ready' = IF bg = "blocked" THEN Append(ready, "B") ELSE ready
  BY <1>1, <1>2, <1>4, AppendB DEF Kept, IInv, Type
<1>5. CASE /\ sess = "blocked" /\ current # Nobody
           /\ sess' = "ready" /\ ready' = Append(ready, "S") /\ UNCHANGED bg
  BY <1>1, <1>2, <1>5, AppendS DEF Kept, IInv, Type
<1> QED BY <1>3, <1>4, <1>5 DEF Drained

\* A slice of the other actor, taken from the head of the queue.
LEMMA Sliced ==
    ASSUME IInv, lpc # "ended", ready # <<>>, Head(ready) = "B", NEW next,
           OtherSlice(Tail(ready), next), UNCHANGED <<current, pending, done, caller>>
    PROVE  /\ Kept /\ bg' \in {"blocked", "ready"} /\ halt' \in BOOLEAN /\ lpc' = next
           /\ sess' = "running" <=> sess = "running"
           /\ sess' = "ready" => sess = "ready" \/ In(ready')
           /\ In(ready) => In(ready')
<1> DEFINE q == Tail(ready)
<1>1. /\ ready \in Queue /\ sess \in {"blocked", "ready", "running"} /\ halt \in BOOLEAN
      /\ Once(ready) /\ (In(ready) => sess = "ready" /\ current # Nobody)
  BY DEF IInv, Type, QueueOK
<1>2. q \in Queue /\ Once(q) /\ (In(q) <=> In(ready))
  BY <1>1, TakeHead
<1>3. JobsOK' /\ current' = current
  BY DEF IInv, JobsOK
<1>4. PICK mail, again, halts \in BOOLEAN :
          /\ halt' = (halt \/ halts)
          /\ bg' = IF again THEN "ready" ELSE "blocked"
          /\ LET wakes == mail /\ sess = "blocked" /\ current # Nobody
             IN  /\ sess' = IF wakes THEN "ready" ELSE sess
                 /\ ready' = q \o (IF wakes THEN <<"S">> ELSE <<>>)
                               \o (IF again THEN <<"B">> ELSE <<>>)
  BY DEF OtherSlice
<1> DEFINE wakes == mail /\ sess = "blocked" /\ current # Nobody
           qs == IF wakes THEN Append(q, "S") ELSE q
<1>5. sess' = (IF wakes THEN "ready" ELSE sess) /\ ready' = IF again THEN Append(qs, "B") ELSE qs
  <2>1. \A s \in Queue : s \o <<>> = s /\ s \o <<"S">> = Append(s, "S")
                                       /\ s \o <<"B">> = Append(s, "B")
                                       /\ Append(s, "S") \in Queue
    BY DEF Queue
  <2> HIDE DEF q
  <2> QED BY <1>2, <1>4, <2>1
<1> HIDE DEF q
<1>6. /\ qs \in Queue /\ Once(qs) /\ (In(qs) <=> In(ready) \/ wakes)
      /\ wakes => sess = "blocked" /\ current # Nobody
  BY <1>1, <1>2, AppendS
<1> HIDE DEF qs, wakes
<1>7. ready' \in Queue /\ Once(ready') /\ (In(ready') <=> In(ready) \/ wakes)
  BY <1>5, <1>6, AppendB
<1>8. lpc' = next /\ bg' \in {"blocked", "ready"} /\ halt' \in BOOLEAN
  BY <1>1, <1>4 DEF OtherSlice
<1>9. sess' \in {"blocked", "ready", "running"}
  BY <1>1, <1>5
<1>10. /\ current' \in Jobs \cup {Nobody} /\ pending' \in Jobs \cup {Nobody}
       /\ done' \in [Jobs -> Seq(Results)]
       /\ caller' \in [Jobs -> {"idle", "sending", "waiting", "over"}]
  BY DEF IInv, Type
<1> QED BY <1>1, <1>3, <1>5, <1>6, <1>7, <1>8, <1>9, <1>10 DEF Kept


-----------------------------------------------------------------------------
\* The invariant.

\* What a step of the loop that goes on leaves.
LEMMA StepOK ==
    ASSUME Kept, kind' \in [Jobs -> {"input", "sync"}], interrupt' \in BOOLEAN, halt' \in BOOLEAN,
           bg' \in {"blocked", "ready"}, LoopOK',
           lpc' \in Running \cup Nested \cup Outside,
           sess' = "ready" /\ ~halt' /\ lpc' # "nest" => In(ready')
    PROVE  IInv'
BY DEF Kept, IInv, Type, QueueOK

\* Init.
LEMMA InitInv == Init => IInv
<1> SUFFICES ASSUME Init PROVE IInv
  OBVIOUS
<1>1. /\ lpc = "top" /\ ready = <<"B">> /\ sess = "blocked" /\ bg = "ready" /\ current = Nobody
      /\ pending = Nobody /\ interrupt = FALSE /\ halt = FALSE
      /\ kind \in [Jobs -> {"input", "sync"}]
      /\ caller = [j \in Jobs |-> "idle"] /\ done = [j \in Jobs |-> <<>>]
  BY DEF Init
<1>2. ready \in Queue /\ DOMAIN ready = {1} /\ ready[1] = "B"
  BY <1>1 DEF Queue
<1>3. /\ caller \in [Jobs -> {"idle", "sending", "waiting", "over"}]
      /\ done \in [Jobs -> Seq(Results)]
      /\ \A j \in Jobs : done[j] = <<>> /\ caller[j] = "idle" /\ Len(done[j]) = 0
  BY <1>1
<1>4. Type
  BY <1>1, <1>2, <1>3 DEF Type, Outside
<1>5. JobsOK
  BY <1>1, <1>3, SessionAssumption DEF JobsOK
<1>6. LoopOK
  BY <1>1 DEF LoopOK, Running, Nested
<1>7. QueueOK
  BY <1>1, <1>2 DEF QueueOK, In, Once
<1> QED BY <1>4, <1>5, <1>6, <1>7 DEF IInv

\* endSession: the two inputs are answered.
LEMMA EndInv ==
    ASSUME IInv, NEW r \in Results, EndSession(r), lpc # "ended",
           UNCHANGED <<bg, halt, caller, kind>>
    PROVE  IInv'
<1>1. /\ done \in [Jobs -> Seq(Results)] /\ ready' = ready /\ lpc' = "ended"
      /\ current' = Nobody /\ pending' = Nobody /\ caller' = caller
      /\ done' = [j \in Jobs |-> IF j \in {current, pending} THEN Append(done[j], r) ELSE done[j]]
      /\ \A j \in Jobs : j \in {current, pending} => done[j] = <<>>
      /\ Nobody \notin Jobs
  BY SessionAssumption DEF IInv, Type, JobsOK, EndSession
<1>2. \A j \in Jobs : Append(done[j], r) \in Seq(Results)
  BY <1>1
<1>3. done' \in [Jobs -> Seq(Results)]
  BY <1>1, <1>2
<1>4. \A j \in Jobs : IF j \in {current, pending} THEN Len(done'[j]) = 1 /\ done'[j] # <<>>
                      ELSE done'[j] = done[j]
  BY <1>1, Answered
<1>5. JobsOK'
  BY <1>1, <1>4 DEF IInv, JobsOK
<1>6. /\ lpc' = "ended" /\ ready' \in Queue /\ current' = Nobody /\ pending' = Nobody
      /\ bg' \in {"blocked", "ready"} /\ halt' \in BOOLEAN
      /\ kind' \in [Jobs -> {"input", "sync"}]
      /\ caller' \in [Jobs -> {"idle", "sending", "waiting", "over"}]
  BY <1>1 DEF IInv, Type
<1>7. sess' \in {"blocked", "ready", "running"} /\ interrupt' \in BOOLEAN
  BY DEF EndSession, IInv, Type
<1> QED BY <1>3, <1>5, <1>6, <1>7 DEF IInv, Type, LoopOK, QueueOK, Running, Nested

\* The top of the loop.
LEMMA TopInv == ASSUME IInv, Top PROVE IInv'
<1>1. /\ lpc = "top" /\ bg' = bg /\ halt' = halt /\ caller' = caller /\ kind' = kind
      /\ ready \in Queue /\ bg \in {"blocked", "ready"} /\ halt \in BOOLEAN
      /\ kind \in [Jobs -> {"input", "sync"}] /\ sess # "running"
      /\ "closed" \in Results /\ "halted" \in Results /\ "interrupted" \in Results
  BY DEF Top, userVars, IInv, Type, LoopOK, Running, Results
<1>2. CASE stop
  BY <1>1, <1>2, EndInv DEF Top
<1>3. CASE ~stop /\ halt
  BY <1>1, <1>3, EndInv DEF Top
<1>4. CASE ~stop /\ ~halt /\ interrupt /\ current # Nobody
  <2>1. lpc' = "top" /\ Complete("interrupted", NotReady(ready))
    BY <1>4 DEF Top
  <2>2. NotReady(ready) \in Queue /\ ~In(NotReady(ready))
    BY <1>1, Dropped
  <2>3. /\ Kept /\ interrupt' \in BOOLEAN
        /\ sess' # "running" /\ (sess' = "ready" => In(ready'))
    BY <1>1, <1>4, <2>1, <2>2, Completed
  <2>4. LoopOK'
    BY <1>1, <1>4, <2>1, <2>3 DEF LoopOK, Running, Nested
  <2> QED BY <1>1, <2>1, <2>3, <2>4, StepOK DEF Outside
<1>5. CASE ~stop /\ ~halt /\ ~(interrupt /\ current # Nobody)
  <2>1. lpc' = "poll" /\ interrupt' = FALSE /\ UNCHANGED <<ready, sess, current, pending, done>>
    BY <1>5 DEF Top
  <2>2. LoopOK'
    BY <1>1, <1>5, <2>1 DEF LoopOK, Running, Nested
  <2> QED BY <1>1, <1>5, <2>1, <2>2 DEF IInv, Type, JobsOK, QueueOK, Outside
<1> QED BY <1>2, <1>3, <1>4, <1>5

\* drainInject and serveSnapshots.
LEMMA PollInv == ASSUME IInv, Poll PROVE IInv'
<1>1. /\ lpc = "poll" /\ lpc' = "jobs" /\ Drained
      /\ UNCHANGED <<current, pending, interrupt, halt, caller, done, kind>>
      /\ halt \in BOOLEAN /\ interrupt \in BOOLEAN /\ kind \in [Jobs -> {"input", "sync"}]
      /\ sess # "running" /\ ~halt /\ (sess = "ready" => In(ready))
  BY DEF Poll, userVars, IInv, Type, LoopOK, QueueOK, Running
<1>2. /\ Kept /\ bg' \in {"blocked", "ready"}
      /\ sess' # "running" /\ (sess' = "ready" => In(ready'))
  BY <1>1, Injected
<1>3. LoopOK'
  BY <1>1, <1>2 DEF LoopOK, Running, Nested
<1> QED BY <1>1, <1>2, <1>3, StepOK DEF Outside

\* pollJob.
LEMMA PollJobInv == ASSUME IInv, PollJob PROVE IInv'
<1>1. /\ lpc = "jobs" /\ UNCHANGED <<bg, interrupt, halt, kind>>
      /\ lpc' = IF ready' = <<>> THEN "wait" ELSE "run"
      /\ bg \in {"blocked", "ready"} /\ halt \in BOOLEAN /\ interrupt \in BOOLEAN
      /\ kind \in [Jobs -> {"input", "sync"}]
      /\ sess # "running" /\ ~halt /\ (sess = "ready" => In(ready))
  BY DEF PollJob, userVars, IInv, Type, LoopOK, QueueOK, Running
<1>2. /\ Kept /\ sess' # "running" /\ (sess' = "ready" => In(ready'))
  <2>1. CASE pending = Nobody /\ \E j \in Sending : Take(j)
    <3>1. PICK j \in Sending : Take(j)
      BY <2>1
    <3> QED BY <1>1, <2>1, <3>1, Taken
  <2>2. CASE UNCHANGED <<ready, sess, current, pending, caller, done>>
    <3>1. JobsOK'
      BY <2>2 DEF IInv, JobsOK
    <3> QED BY <1>1, <2>2, <3>1 DEF Kept, IInv, Type, QueueOK
  <2> QED BY <2>1, <2>2 DEF PollJob
<1>3. LoopOK'
  BY <1>1, <1>2 DEF LoopOK, Running, Nested
<1> QED BY <1>1, <1>2, <1>3, StepOK DEF Outside

\* The three selects.
LEMMA WaitInv == ASSUME IInv, Wait PROVE IInv'
<1>1. /\ lpc \in {"wait", "nestwait", "yieldwait"} /\ UNCHANGED <<bg, halt, kind>>
      /\ bg \in {"blocked", "ready"} /\ halt \in BOOLEAN /\ interrupt \in BOOLEAN
      /\ kind \in [Jobs -> {"input", "sync"}]
      /\ ~halt /\ (sess = "ready" => In(ready))
      /\ Nest[lpc] = CASE lpc = "wait" -> "top" [] lpc = "nestwait" -> "nest" [] lpc = "yieldwait" -> "yield"
  BY DEF Wait, Nest, userVars, IInv, Type, LoopOK, QueueOK, Running
<1>2. CASE /\ lpc' = Nest[lpc]
           /\ UNCHANGED <<ready, sess, current, pending, interrupt, caller, done>>
  <2>1. LoopOK'
    BY <1>1, <1>2 DEF IInv, LoopOK, Running, Nested
  <2>2. JobsOK' /\ QueueOK'
    BY <1>1, <1>2 DEF IInv, JobsOK, QueueOK
  <2> QED BY <1>1, <1>2, <2>1, <2>2 DEF IInv, Type, Running, Nested, Outside
<1>3. ASSUME lpc = "wait", pending = Nobody, interrupt' = interrupt,
             NEW j \in Sending, Take(j), lpc' = "top"
      PROVE  IInv'
  <2>1. sess # "running"
    BY <1>3 DEF IInv, LoopOK, Running
  <2>2. /\ Kept /\ sess' # "running" /\ (sess' = "ready" => In(ready'))
    BY <1>1, <1>3, <2>1, Taken
  <2>3. LoopOK'
    BY <1>1, <1>3, <2>2 DEF LoopOK, Running, Nested
  <2> QED BY <1>1, <1>3, <2>2, <2>3, StepOK DEF Outside
<1>4. CASE lpc = "wait" /\ EndSession("closed") /\ UNCHANGED caller
  <2>1. "closed" \in Results /\ lpc # "ended"
    BY <1>4 DEF Results
  <2> QED BY <1>1, <1>4, <2>1, EndInv
<1> QED BY <1>1, <1>2, <1>3, <1>4 DEF Wait

\* The head of the queue.
LEMMA RunInv == ASSUME IInv, Run PROVE IInv'
<1>1. /\ lpc = "run" /\ UNCHANGED <<caller, kind>> /\ "interrupted" \in Results
      /\ ready \in Queue /\ ready # <<>> /\ Once(ready)
      /\ bg \in {"blocked", "ready"} /\ halt \in BOOLEAN /\ interrupt \in BOOLEAN
      /\ kind \in [Jobs -> {"input", "sync"}]
      /\ sess # "running" /\ ~halt /\ (sess = "ready" => In(ready))
      /\ In(ready) => sess = "ready" /\ current # Nobody
  BY DEF Run, userVars, IInv, Type, LoopOK, QueueOK, Running, Results
<1>2. /\ Tail(ready) \in Queue /\ Once(Tail(ready))
      /\ Head(ready) = "S" => In(ready) /\ ~In(Tail(ready))
  BY <1>1, TakeHead
<1>3. CASE /\ Head(ready) = "B" /\ OtherSlice(Tail(ready), "top")
           /\ UNCHANGED <<current, pending, interrupt, done>>
  <2>1. /\ Kept /\ bg' \in {"blocked", "ready"} /\ halt' \in BOOLEAN /\ lpc' = "top"
        /\ sess' # "running" /\ (sess' = "ready" => In(ready'))
    BY <1>1, <1>3, Sliced
  <2>2. LoopOK'
    BY <2>1 DEF LoopOK, Running, Nested
  <2> QED BY <1>1, <1>3, <2>1, <2>2, StepOK DEF Outside
<1>4. CASE /\ Head(ready) = "S" /\ lpc' = "top" /\ Complete("interrupted", Tail(ready))
           /\ UNCHANGED <<bg, halt>>
  <2>1. /\ Kept /\ interrupt' \in BOOLEAN
        /\ sess' # "running" /\ (sess' = "ready" => In(ready'))
    BY <1>1, <1>2, <1>4, Completed
  <2>2. LoopOK'
    BY <1>4, <2>1 DEF LoopOK, Running, Nested
  <2> QED BY <1>1, <1>4, <2>1, <2>2, StepOK DEF Outside
<1>5. CASE /\ Head(ready) = "S" /\ lpc' = "slice" /\ ready' = Tail(ready) /\ sess' = "running"
           /\ UNCHANGED <<bg, current, pending, interrupt, done, halt>>
  <2>1. JobsOK'
    BY <1>1, <1>5 DEF IInv, JobsOK
  <2>2. LoopOK'
    BY <1>1, <1>2, <1>5 DEF LoopOK, Running, Nested
  <2>3. Kept
    BY <1>1, <1>2, <1>5, <2>1 DEF Kept, IInv, Type
  <2> QED BY <1>1, <1>5, <2>2, <2>3, StepOK DEF Running
<1> QED BY <1>3, <1>4, <1>5 DEF Run

\* The slice of the session actor.
LEMMA SliceInv == ASSUME IInv, Slice PROVE IInv'
<1>1. /\ lpc \in {"slice", "tail"} /\ UNCHANGED <<bg, caller, kind>> /\ "ok" \in Results
      /\ ready \in Queue /\ Once(ready) /\ current # Nobody /\ ~In(ready)
      /\ bg \in {"blocked", "ready"} /\ halt \in BOOLEAN /\ interrupt \in BOOLEAN
      /\ kind \in [Jobs -> {"input", "sync"}] /\ sess = "running" /\ (lpc = "slice" => ~halt)
  BY DEF Slice, userVars, IInv, Type, LoopOK, QueueOK, Running, Results
<1>2. ASSUME UNCHANGED <<current, pending, interrupt, done>>,
             ready' \in {ready, Append(ready, "S")}, ready' # ready => sess' = "ready",
             sess' \in {"blocked", "ready", "running"}
      PROVE  Kept
  <2>1. JobsOK'
    BY <1>1, <1>2 DEF IInv, JobsOK
  <2>2. ready' \in Queue /\ Once(ready') /\ (In(ready') => sess' = "ready")
    BY <1>1, <1>2, AppendS
  <2> QED BY <1>1, <1>2, <2>1, <2>2 DEF Kept, IInv, Type
<1>3. CASE /\ lpc' = "top" /\ sess' = "ready" /\ ready' = Append(ready, "S")
           /\ UNCHANGED <<current, pending, interrupt, done, halt>>
  <2>1. Kept /\ In(ready')
    BY <1>1, <1>2, <1>3, AppendS
  <2>2. LoopOK'
    BY <1>3 DEF LoopOK, Running, Nested
  <2> QED BY <1>1, <1>3, <2>1, <2>2, StepOK DEF Outside
<1>4. CASE /\ lpc' \in {"top", "nest"} /\ sess' = "blocked"
           /\ UNCHANGED <<ready, current, pending, interrupt, done, halt>>
  <2>1. Kept
    BY <1>1, <1>2, <1>4
  <2>2. LoopOK'
    BY <1>1, <1>4 DEF LoopOK, Running, Nested
  <2> QED BY <1>1, <1>4, <2>1, <2>2, StepOK DEF Outside, Nested
<1>5. CASE lpc' = "top" /\ Complete("ok", ready) /\ UNCHANGED halt
  <2>1. /\ Kept /\ interrupt' \in BOOLEAN
        /\ sess' # "running" /\ (sess' = "ready" => In(ready'))
    BY <1>1, <1>5, Completed
  <2>2. LoopOK'
    BY <1>5, <2>1 DEF LoopOK, Running, Nested
  <2> QED BY <1>1, <1>5, <2>1, <2>2, StepOK DEF Outside
<1>6. CASE /\ lpc' = "top" /\ halt' = TRUE /\ sess' = "ready"
           /\ UNCHANGED <<ready, current, pending, interrupt, done>>
  <2>1. Kept
    BY <1>1, <1>2, <1>6
  <2>2. LoopOK'
    BY <1>6 DEF LoopOK, Running, Nested
  <2> QED BY <1>1, <1>6, <2>1, <2>2, StepOK DEF Outside
<1>7. CASE /\ lpc' = "yield" /\ UNCHANGED <<ready, sess, current, pending, interrupt, done, halt>>
  <2>1. Kept
    BY <1>1, <1>2, <1>7
  <2>2. LoopOK'
    BY <1>1, <1>7 DEF LoopOK, Running, Nested
  <2> QED BY <1>1, <1>7, <2>1, <2>2, StepOK DEF Running
<1> QED BY <1>3, <1>4, <1>5, <1>6, <1>7 DEF Slice

\* The loop inside a call of the session actor.
LEMMA NestedAwaitInv == ASSUME IInv, NestedAwait PROVE IInv'
<1>1. /\ lpc = "nest" /\ UNCHANGED <<halt, caller, kind>>
      /\ ready \in Queue /\ Once(ready) /\ current # Nobody
      /\ bg \in {"blocked", "ready"} /\ halt \in BOOLEAN /\ interrupt \in BOOLEAN
      /\ kind \in [Jobs -> {"input", "sync"}] /\ sess # "running"
      /\ In(ready) => sess = "ready"
  <2>1. lpc = "nest" /\ UNCHANGED <<halt, caller, kind>>
    BY DEF NestedAwait, helperVars, userVars
  <2> QED BY <2>1 DEF IInv, Type, LoopOK, QueueOK, Running, Nested
<1>0. /\ NotReady(ready) \in Queue /\ ~In(NotReady(ready))
      /\ "closed" \in Results /\ "interrupted" \in Results
  BY <1>1, Dropped DEF Results
<1>2. CASE /\ lpc' = "tail" /\ sess' = "running" /\ ready' = NotReady(ready)
           /\ UNCHANGED <<bg, current, pending, interrupt, inject, done, snap>>
  <2>1. JobsOK'
    BY <1>1, <1>2 DEF IInv, JobsOK
  <2>2. Kept
    BY <1>0, <1>1, <1>2, <2>1, NoEntry DEF Kept, IInv, Type
  <2>3. LoopOK'
    BY <1>1, <1>2 DEF LoopOK, Running, Nested
  <2> QED BY <1>1, <1>2, <2>2, <2>3, StepOK DEF Running
<1>3. CASE sess = "blocked" /\ NestFails /\ UNCHANGED <<bg, inject, snap>>
  <2>1. CASE \E r \in {"closed", "interrupted"} : Complete(r, NotReady(ready))
    <3>1. /\ Kept /\ interrupt' \in BOOLEAN
          /\ sess' # "running" /\ (sess' = "ready" => In(ready'))
      BY <1>0, <1>1, <2>1, Completed
    <3>2. lpc' = "top"
      BY <1>3 DEF NestFails
    <3>3. LoopOK'
      BY <3>1, <3>2 DEF LoopOK, Running, Nested
    <3> QED BY <1>1, <1>3, <3>1, <3>2, <3>3, StepOK DEF Outside
  <2>2. CASE UNCHANGED <<ready, sess, current, pending, interrupt, done>>
    <3>1. lpc' = "top"
      BY <1>3 DEF NestFails
    <3>2. JobsOK'
      BY <1>1, <2>2 DEF IInv, JobsOK
    <3>3. Kept
      BY <1>1, <2>2, <3>2 DEF Kept, IInv, Type
    <3>4. LoopOK'
      BY <1>1, <2>2, <3>1 DEF LoopOK, Running, Nested
    <3> QED BY <1>1, <1>3, <2>2, <3>1, <3>3, <3>4, StepOK DEF Outside
  <2> QED BY <1>3, <2>1, <2>2 DEF NestFails
<1>4. CASE /\ sess = "blocked" /\ ~halt /\ Drained
           /\ lpc' = IF ready' = <<>> THEN "nestwait" ELSE "nestrun"
           /\ UNCHANGED <<current, pending, interrupt, done>>
  <2>1. /\ Kept /\ bg' \in {"blocked", "ready"}
        /\ sess' # "running" /\ (sess' = "ready" => In(ready'))
    BY <1>1, <1>4, Injected
  <2>2. LoopOK'
    BY <1>1, <1>4, <2>1 DEF LoopOK, Running, Nested
  <2> QED BY <1>1, <1>4, <2>1, <2>2, StepOK DEF Nested
<1> QED BY <1>2, <1>3, <1>4 DEF NestedAwait

\* The loop inside a native of the session actor.
LEMMA YieldInv == ASSUME IInv, Yield PROVE IInv'
<1>1. /\ lpc = "yield" /\ UNCHANGED <<halt, caller, kind>> /\ "interrupted" \in Results
      /\ ready \in Queue /\ Once(ready) /\ current # Nobody /\ ~In(ready)
      /\ bg \in {"blocked", "ready"} /\ halt \in BOOLEAN /\ interrupt \in BOOLEAN
      /\ kind \in [Jobs -> {"input", "sync"}] /\ sess = "running"
  BY DEF Yield, userVars, IInv, Type, LoopOK, QueueOK, Running, Results
<1>2. CASE lpc' = "top" /\ Complete("interrupted", ready) /\ UNCHANGED bg
  <2>1. /\ Kept /\ interrupt' \in BOOLEAN
        /\ sess' # "running" /\ (sess' = "ready" => In(ready'))
    BY <1>1, <1>2, Completed
  <2>2. LoopOK'
    BY <1>2, <2>1 DEF LoopOK, Running, Nested
  <2> QED BY <1>1, <1>2, <2>1, <2>2, StepOK DEF Outside
<1>3. CASE /\ lpc' \in {"tail", "yield"}
           /\ UNCHANGED <<bg, ready, sess, current, pending, interrupt, done>>
  <2>1. JobsOK'
    BY <1>1, <1>3 DEF IInv, JobsOK
  <2>2. Kept
    BY <1>1, <1>3, <2>1 DEF Kept, IInv, Type
  <2>3. LoopOK'
    BY <1>1, <1>3 DEF LoopOK, Running, Nested
  <2> QED BY <1>1, <1>3, <2>2, <2>3, StepOK DEF Running
<1>4. CASE /\ ~halt /\ Drained /\ lpc' = IF ready' = <<>> THEN "yieldwait" ELSE "yieldrun"
           /\ UNCHANGED <<current, pending, interrupt, done>>
  <2>1. /\ Kept /\ bg' \in {"blocked", "ready"} /\ sess' = "running"
    BY <1>1, <1>4, Injected
  <2>2. LoopOK'
    BY <1>1, <1>4, <2>1 DEF LoopOK, Running, Nested, Kept
  <2> QED BY <1>1, <1>4, <2>1, <2>2, StepOK DEF Running
<1> QED BY <1>1, <1>2, <1>3, <1>4 DEF Yield

\* Slices of the other actor inside them.
LEMMA InsideRunInv == ASSUME IInv, InsideRun PROVE IInv'
<1>1. /\ Head(ready) = "B" /\ UNCHANGED <<current, pending, interrupt, caller, done, kind>>
      /\ interrupt \in BOOLEAN /\ kind \in [Jobs -> {"input", "sync"}] /\ current # Nobody
      /\ lpc \in {"nestrun", "yieldrun"} /\ ready # <<>> /\ lpc # "ended"
      /\ OtherSlice(Tail(ready), IF lpc = "nestrun" THEN "nest" ELSE "yield")
      /\ sess = "running" <=> lpc = "yieldrun"
  BY DEF InsideRun, helperVars, userVars, IInv, Type, LoopOK, Running, Nested
<1>2. /\ Kept /\ bg' \in {"blocked", "ready"} /\ halt' \in BOOLEAN
      /\ lpc' = IF lpc = "nestrun" THEN "nest" ELSE "yield"
      /\ sess' = "running" <=> sess = "running"
  BY <1>1, Sliced
<1>3. LoopOK'
  BY <1>1, <1>2 DEF LoopOK, Running, Nested
<1> QED BY <1>1, <1>2, <1>3, StepOK DEF Running, Nested

\* The entry of the session actor is passed over.
LEMMA InsideSkipInv == ASSUME IInv, InsideSkip PROVE IInv'
<1>1. /\ lpc = "nestrun" /\ lpc' = "nest" /\ ready' = Tail(ready) /\ Head(ready) = "S"
      /\ UNCHANGED <<sess, bg, current, pending, interrupt, halt, caller, done, kind>>
      /\ ready \in Queue /\ ready # <<>> /\ Once(ready) /\ current # Nobody /\ sess # "running"
      /\ bg \in {"blocked", "ready"} /\ halt \in BOOLEAN /\ interrupt \in BOOLEAN
      /\ kind \in [Jobs -> {"input", "sync"}]
  BY DEF InsideSkip, helperVars, userVars, IInv, Type, LoopOK, QueueOK, Running, Nested
<1>2. Tail(ready) \in Queue /\ Once(Tail(ready)) /\ ~In(Tail(ready))
  BY <1>1, TakeHead
<1>3. JobsOK'
  BY <1>1 DEF IInv, JobsOK
<1>4. Kept
  BY <1>1, <1>2, <1>3 DEF Kept, IInv, Type
<1>5. LoopOK'
  BY <1>1 DEF LoopOK, Running, Nested
<1> QED BY <1>1, <1>4, <1>5, StepOK DEF Nested

\* The other goroutines do not touch what the invariant speaks of, the selects
\* of submit apart.
LEMMA OthersInv ==
    ASSUME IInv, \/ HelperEnds \/ Interrupt \/ CloseSession \/ Snapshot \/ OutsideEvent \/ Rest
                 \/ UNCHANGED vars
    PROVE  IInv'
<1>1. UNCHANGED <<lpc, ready, sess, bg, current, pending, halt, kind, caller, done>>
  BY DEF HelperEnds, Interrupt, CloseSession, Snapshot, OutsideEvent, Rest, vars, loopVars,
         helperVars, userVars
<1>2. interrupt' \in BOOLEAN
  BY DEF HelperEnds, Interrupt, CloseSession, Snapshot, OutsideEvent, Rest, vars, IInv, Type
<1> QED BY <1>1, <1>2 DEF IInv, Type, JobsOK, LoopOK, QueueOK

\* The selects of submit.
LEMMA SubmitInv == ASSUME IInv, NEW j \in Jobs, Submit(j) \/ SubmitEnds(j) PROVE IInv'
<1>1. /\ UNCHANGED <<lpc, ready, sess, bg, current, pending, interrupt, halt, kind, done>>
      /\ caller \in [Jobs -> {"idle", "sending", "waiting", "over"}]
  BY DEF Submit, SubmitEnds, loopVars, userVars, IInv, Type
<1>2. \/ caller[j] = "idle" /\ caller' = [caller EXCEPT ![j] = "sending"]
      \/ caller[j] \in {"sending", "waiting"} /\ caller' = [caller EXCEPT ![j] = "over"]
  BY DEF Submit, SubmitEnds
<1>3. /\ caller' \in [Jobs -> {"idle", "sending", "waiting", "over"}]
      /\ \A k \in Jobs : k # j => caller'[k] = caller[k]
      /\ \/ caller[j] = "idle" /\ caller'[j] = "sending"
         \/ caller[j] \in {"sending", "waiting"} /\ caller'[j] = "over"
  BY <1>1, <1>2
<1>4. JobsOK'
  BY <1>1, <1>3 DEF IInv, JobsOK
<1> QED BY <1>1, <1>3, <1>4 DEF IInv, Type, LoopOK, QueueOK

\* Every step keeps the invariant.
LEMMA NextInv == IInv /\ [Next]_vars => IInv'
<1> SUFFICES ASSUME IInv, [Next]_vars PROVE IInv'
  OBVIOUS
<1>1. CASE Top
  BY <1>1, TopInv
<1>2. CASE Poll
  BY <1>2, PollInv
<1>3. CASE PollJob
  BY <1>3, PollJobInv
<1>4. CASE Wait
  BY <1>4, WaitInv
<1>5. CASE Run
  BY <1>5, RunInv
<1>6. CASE Slice
  BY <1>6, SliceInv
<1>7. CASE NestedAwait
  BY <1>7, NestedAwaitInv
<1>8. CASE Yield
  BY <1>8, YieldInv
<1>9. CASE InsideRun
  BY <1>9, InsideRunInv
<1>10. CASE InsideSkip
  BY <1>10, InsideSkipInv
<1>11. CASE HelperEnds \/ Interrupt \/ CloseSession \/ Snapshot \/ OutsideEvent \/ Rest
            \/ UNCHANGED vars
  BY <1>11, OthersInv
<1>12. CASE \E j \in Jobs : Submit(j) \/ SubmitEnds(j)
  BY <1>12, SubmitInv
<1> QED BY <1>1, <1>2, <1>3, <1>4, <1>5, <1>6, <1>7, <1>8, <1>9, <1>10, <1>11, <1>12
        DEF Next, LoopStep

LEMMA Invariance == Spec => []IInv
<1> QED BY InitInv, NextInv, PTL DEF Spec

\* session.go: every variable of the loop keeps its range.
THEOREM TypeCorrect == Spec => []TypeOK
<1>1. IInv => TypeOK
  BY DEF IInv, Type, TypeOK, Running, Nested, Outside
<1> QED BY <1>1, Invariance, PTL

\* completeJob and endSession: an input taken from the channel is answered
\* once, and before the loop ends.
THEOREM AnswersCorrect == Spec => []OneResult
<1>1. IInv => OneResult
  <2> SUFFICES ASSUME IInv, NEW j \in Jobs
               PROVE  /\ Len(done[j]) <= 1
                      /\ lpc = "ended" /\ caller[j] = "waiting" => Len(done[j]) = 1
    BY DEF OneResult
  <2>1. Len(done[j]) <= 1 /\ done[j] \in Seq(Results)
    BY DEF IInv, JobsOK, Type
  <2>2. lpc = "ended" /\ caller[j] = "waiting" => done[j] # <<>>
    BY SessionAssumption DEF IInv, JobsOK, LoopOK
  <2> DEFINE n == Len(done[j])
  <2>3. n \in Nat /\ (n = 0 => done[j] = <<>>)
    BY <2>1
  <2>4. n <= 1
    BY <2>1
  <2> HIDE DEF n
  <2>5. lpc = "ended" /\ caller[j] = "waiting" => n = 1
    BY <2>2, <2>3, <2>4
  <2> QED BY <2>4, <2>5 DEF n
<1> QED BY <1>1, Invariance, PTL

\* takeJob, completeJob, drainInject, unready: the queue holds the session actor
\* when it has an input to run, and once.
THEOREM QueueCorrect == Spec => []QueuedForItsInput
<1>1. IInv => QueuedForItsInput
  <2> DEFINE E == {i \in DOMAIN ready : ready[i] = "S"}
             n == Cardinality(E)
  <2> SUFFICES ASSUME IInv, lpc # "ended"
               PROVE  /\ n <= 1 /\ (n = 1 => sess = "ready" /\ current # Nobody)
                      /\ sess = "ready" /\ lpc \notin {"slice", "tail", "nest"} /\ ~halt => n = 1
    BY DEF QueuedForItsInput
  <2>1. /\ Once(ready) /\ (In(ready) => sess = "ready" /\ current # Nobody)
        /\ sess = "ready" /\ ~halt /\ lpc # "nest" => In(ready)
    BY DEF IInv, QueueOK
  <2>2. CASE In(ready)
    <3>1. PICK i \in DOMAIN ready : ready[i] = "S"
      BY <2>2 DEF In
    <3>2. E = {i}
      BY <2>1, <3>1 DEF Once
    <3>3. n = 1
      BY <3>2, FS_Singleton
    <3> HIDE DEF n
    <3> QED BY <2>1, <2>2, <3>3
  <2>3. CASE ~In(ready)
    <3>1. E = {}
      BY <2>3 DEF In
    <3>2. n = 0
      BY <3>1, FS_EmptySet
    <3> HIDE DEF n
    <3> QED BY <2>1, <2>3, <3>2
  <2> QED BY <2>2, <2>3
<1> QED BY <1>1, Invariance, PTL

-----------------------------------------------------------------------------
(***************************************************************************)
(* The code of a session, for any files, texts, names for alias and bounds. *)
(* What actors find is one text of each module because the globals that a   *)
(* session keeps of a module are the names the VM has under it (LoadedOK);  *)
(* code of an older text runs because lifted names are of a generation that *)
(* is never used again (CellsOK).  That a recompile has left no old text    *)
(* where the roots reach needs what the call under way knows of the disk    *)
(* (CallOK).                                                                *)
(***************************************************************************)

\* What a file imports under a text.
Imports(m, t) == Text(m, t).imports \cap Files

\* A frame or function value finds the local function it may call.
Whole(c) ==
    /\ c.mod \in Files /\ c.gen \in Nat /\ c.gen > 0 /\ c.gen <= generation
    /\ c.fun \in Text(c.mod, c.text).locals =>
          LET n == Name(c.mod, c.fun, c.gen)
          IN  n \in DOMAIN cells /\ cells[n].text = c.text

CellsOK ==
    /\ \A n \in DOMAIN cells : /\ n = Name(n.mod, n.fun, n.gen)
                               /\ n.gen \in Nat /\ n.gen <= generation
                               /\ Whole(cells[n])
    /\ \A c \in held : Whole(c)

\* The names of a module in the VM are the ones its record lists, an alias may
\* have left more; no name is of a module that is not loaded.
LoadedOK ==
    /\ \A m \in DOMAIN loaded : \A n \in loaded[m].globals : n \in DOMAIN cells /\ n.mod = m
    /\ \A n \in DOMAIN cells : n.mod \in Files =>
          n.mod \in DOMAIN loaded /\ (Lifted(n) \/ n \in loaded[n.mod].globals)
    /\ \A m \in DOMAIN loaded \cap Files : loaded[m].file = m
    /\ roots \subseteq DOMAIN loaded \cap Files

\* The functions of m are those of the text t.
TextIs(m, t) ==
    /\ FunctionsOf(m) = {Name(m, f, 0) : f \in Text(m, t).funs}
    /\ \A n \in FunctionsOf(m) : cells[n].mod = m /\ cells[n].text = t

\* Each module is of one text, the one its sum is of, unless its file is in
\* torn; what that imports is loaded.
TextsOK ==
    \A m \in DOMAIN loaded \cap Files :
        /\ \E t \in Texts : TextIs(m, t) /\ (m \notin torn => t = loaded[m].sum)
        /\ m \notin torn => Imports(m, loaded[m].sum) \subseteq DOMAIN loaded

\* The texts of some files.
Worlds == UNION {[D -> Texts] : D \in SUBSET Files}
Calls == [phase : {"read", "compiled", "summed"}, op : {"load", "recompile"}, began : Nat,
          world : Worlds, install : SUBSET Files, root : SUBSET Files, sums : Worlds]

\* The call under way: what it has read, and what it installs.  It knows the
\* disk until somebody edits.
CallOK ==
    /\ load \in Calls /\ load.began <= edits
    /\ load.install \subseteq DOMAIN load.world
    /\ load.root \subseteq load.install \cup DOMAIN loaded
    /\ load.began = edits => \A x \in DOMAIN load.world : load.world[x] = disk[x]
    /\ load.phase = "summed" => load.install \subseteq DOMAIN load.sums
    /\ load.phase = "summed" /\ load.began = edits =>
          \A x \in load.install : load.sums[x] = load.world[x]
    /\ load.op = "load" => load.install # {}
    /\ load.op = "load" \/ load.phase # "read" =>
          \A x \in load.install :
             Imports(x, load.world[x]) \subseteq load.install \cup DOMAIN loaded
    /\ load.op = "recompile" =>
          /\ roots \cup load.root \subseteq DOMAIN load.world
          /\ \A x \in DOMAIN load.world : Imports(x, load.world[x]) \subseteq DOMAIN load.world
          /\ load.phase # "read" => DOMAIN load.world \subseteq load.install \cup DOMAIN loaded
          /\ load.phase # "read" /\ load.began = edits =>
                \A x \in DOMAIN load.world \ load.install : loaded[x].sum = load.world[x]

LoadOK == load = NoCall \/ CallOK

\* The records say what is on the disk, as long as nobody edits or loads; what
\* the roots reach is loaded, unless a wrong record hides an import.
TrueOK ==
    told = edits =>
        /\ \A m \in Graph(roots) \cap DOMAIN loaded : loaded[m].sum = disk[m]
        /\ torn \cap Graph(roots) = {} => Graph(roots) \subseteq DOMAIN loaded

Ranges ==
    /\ disk \in [Files -> Texts] /\ generation \in Nat /\ torn \subseteq Files
    /\ edits \in Nat /\ edits <= MaxEdits /\ told \in Nat /\ (told <= edits \/ told = Never)

\* The inductive invariant.
CodeInv == Ranges /\ CellsOK /\ LoadedOK /\ TextsOK /\ AliasesOneText /\ LoadOK /\ TrueOK
-----------------------------------------------------------------------------
\* The graph of some files holds them, is closed, and is the least such set.
LEMMA GraphHolds == \A S \in SUBSET Files : S \subseteq Graph(S)
BY DEF Graph

LEMMA GraphLeast ==
    ASSUME NEW S, NEW C \in SUBSET Files, S \subseteq C, Closed(C)
    PROVE  Graph(S) \subseteq C
BY DEF Graph

LEMMA GraphClosed == \A S : Closed(Graph(S))
<1> SUFFICES ASSUME NEW S, NEW m \in Graph(S), NEW x \in Imports(m, disk[m])
             PROVE  x \in Graph(S)
  BY DEF Closed, Imports
<1>1. ASSUME NEW C \in SUBSET Files, S \subseteq C, Closed(C) PROVE x \in C
  BY <1>1 DEF Graph, Closed, Imports
<1> QED BY <1>1 DEF Graph, Imports

\* More files, a larger graph.
LEMMA GraphGrows ==
    ASSUME NEW S, NEW T, S \subseteq T PROVE Graph(S) \subseteq Graph(T)
BY DEF Graph

LEMMA GraphInFiles == \A S : Graph(S) \subseteq Files
BY DEF Graph

\* The start.
LEMMA CodeStart == CodeInit => CodeInv
<1> SUFFICES ASSUME CodeInit PROVE CodeInv
  OBVIOUS
<1>1. DOMAIN cells = {} /\ DOMAIN loaded = {}
  BY DEF CodeInit
<1>2. Ranges
  <2>1. disk \in [Files -> Texts] /\ torn = {}
    BY DEF CodeInit
  <2>2. /\ generation \in Nat /\ edits \in Nat /\ edits <= MaxEdits
        /\ told \in Nat /\ told = Never
    BY ReloadAssumption DEF CodeInit, Never
  <2> QED BY <2>1, <2>2 DEF Ranges
<1>3. CellsOK /\ LoadedOK /\ TextsOK /\ AliasesOneText
  BY <1>1 DEF CodeInit, CellsOK, LoadedOK, TextsOK, AliasesOneText
<1>4. TrueOK
  BY ReloadAssumption DEF CodeInit, TrueOK, Never
<1> QED BY <1>2, <1>3, <1>4 DEF CodeInit, CodeInv, LoadOK

\* The invariant says what the properties say.
LEMMA CodeInvWhole == CodeInv => CodeIsWhole
<1> SUFFICES ASSUME CodeInv PROVE CodeIsWhole
  OBVIOUS
<1>1. OneText
  <2> SUFFICES ASSUME NEW m \in DOMAIN loaded \cap Files
               PROVE  \E t \in Texts : /\ {n.fun : n \in FunctionsOf(m)} = Text(m, t).funs
                                       /\ \A n \in FunctionsOf(m) : cells[n].text = t
    BY DEF OneText
  <2>1. PICK t \in Texts : TextIs(m, t)
    BY DEF CodeInv, TextsOK
  <2>2. {n.fun : n \in FunctionsOf(m)} = Text(m, t).funs
    <3>1. \A f : Name(m, f, 0).fun = f
      BY DEF Name
    <3> QED BY <2>1, <3>1 DEF TextIs
  <2> QED BY <2>1, <2>2 DEF TextIs
<1>2. OldCodeRuns
  BY DEF CodeInv, CellsOK, Whole, OldCodeRuns
<1>3. RecompileIsTrue
  <2>1. ASSUME told = edits, NEW m \in Graph(roots) \cap DOMAIN loaded, m \notin torn
        PROVE  \A n \in FunctionsOf(m) : cells[n].text = disk[m]
    <3>1. m \in DOMAIN loaded \cap Files /\ loaded[m].sum = disk[m]
      BY <2>1, GraphInFiles DEF CodeInv, TrueOK
    <3> QED BY <2>1, <3>1 DEF CodeInv, TextsOK, TextIs
  <2> QED BY <2>1 DEF CodeInv, TrueOK, RecompileIsTrue
<1> QED BY <1>1, <1>2, <1>3 DEF CodeInv, CodeIsWhole

\* A step that changes neither the code nor the records leaves both right.
LEMMA CodeKept ==
    ASSUME CodeInv, UNCHANGED <<loaded, roots, cells, generation>>, torn' = torn,
           \A c \in held' : c \in held \/ Whole(c)
    PROVE  CellsOK' /\ LoadedOK' /\ TextsOK' /\ AliasesOneText'
<1>1. \A c : Whole(c) => Whole(c)'
  BY DEF Whole
<1>2. CellsOK'
  BY <1>1 DEF CodeInv, CellsOK
<1>3. LoadedOK'
  BY DEF CodeInv, LoadedOK
<1>4. TextsOK'
  <2>1. \A m, t : TextIs(m, t)' <=> TextIs(m, t)
    BY DEF TextIs, FunctionsOf
  <2> QED BY <2>1 DEF CodeInv, TextsOK
<1>5. AliasesOneText'
  BY DEF CodeInv, AliasesOneText, Lifted
<1> QED BY <1>2, <1>3, <1>4, <1>5

\* The records go on saying what is on the disk.
LEMMA TrueKept ==
    ASSUME TrueOK, UNCHANGED <<disk, roots, loaded, edits>>, torn' = torn,
           told' = told \/ told' # edits
    PROVE  TrueOK'
<1>1. Graph(roots)' = Graph(roots)
  BY DEF Graph, Closed
<1> QED BY <1>1 DEF TrueOK

\* A call that has read the disk, and knows nothing to install but for a load.
LEMMA CallBegins ==
    ASSUME CodeInv, NEW op \in {"load", "recompile"}, NEW G \in SUBSET Files, Closed(G),
           NEW I \in SUBSET G, NEW R \in SUBSET Files, R \subseteq I \cup DOMAIN loaded,
           op = "load" => /\ I # {}
                          /\ \A x \in I : Imports(x, disk[x]) \subseteq I \cup DOMAIN loaded,
           op = "recompile" => roots \cup R \subseteq G,
           BeginCall(op, G, I, R)
    PROVE  CodeInv'
<1> DEFINE w == [x \in G |-> disk[x]]
<1>1. /\ load' = [phase |-> "read", op |-> op, began |-> edits, world |-> w,
                  install |-> I, root |-> R, sums |-> <<>>]
      /\ UNCHANGED <<disk, loaded, roots, generation, cells, held, edits, told, torn>>
  BY DEF BeginCall, Restrict, sessionVars
<1>2. w \in [G -> Texts] /\ DOMAIN w = G /\ \A x \in G : w[x] = disk[x]
  BY DEF CodeInv, Ranges
<1>3. w \in Worlds
  BY <1>2 DEF Worlds
<1>4. <<>> \in Worlds
  <2>1. <<>> \in [{} -> Texts]
    OBVIOUS
  <2> QED BY <2>1 DEF Worlds
<1>5. \A x \in G : Imports(x, w[x]) \subseteq G
  BY <1>2 DEF Closed, Imports
<1> HIDE DEF w
<1>6. load'.phase = "read" /\ load'.op = op /\ load'.began = edits /\ load'.world = w
      /\ load'.install = I /\ load'.root = R
  BY <1>1
<1>7. load' \in Calls
  BY <1>1, <1>3, <1>4 DEF Calls, CodeInv, Ranges
<1>8. CallOK'
  BY <1>1, <1>2, <1>5, <1>6, <1>7 DEF CallOK, CodeInv, Ranges
<1>9. CellsOK' /\ LoadedOK' /\ TextsOK' /\ AliasesOneText'
  BY <1>1, CodeKept
<1>10. TrueOK'
  BY <1>1, TrueKept DEF CodeInv
<1>11. Ranges'
  BY <1>1 DEF CodeInv, Ranges
<1> QED BY <1>8, <1>9, <1>10, <1>11 DEF CodeInv, LoadOK

\* loadModulesAs.
LEMMA LoadOKStep == ASSUME CodeInv, NEW m \in Files, LoadModules(m) PROVE CodeInv'
<1> DEFINE G == Graph({m} \cup roots)
           I == Graph({m}) \ DOMAIN loaded
<1>1. G \in SUBSET Files /\ Closed(G) /\ I \in SUBSET G
  BY GraphInFiles, GraphClosed, GraphGrows
<1>2. {m} \subseteq I \cup DOMAIN loaded
  BY GraphHolds
<1>3. \A x \in I : Imports(x, disk[x]) \subseteq I \cup DOMAIN loaded
  BY GraphClosed DEF Closed, Imports
<1>4. I # {} /\ BeginCall("load", G, I, {m})
  BY DEF LoadModules
<1> HIDE DEF G, I
<1> QED BY <1>1, <1>2, <1>3, <1>4, CallBegins

\* Nothing has changed: what the roots reach is as it is on the disk, and loaded
\* unless a record is wrong.
LEMMA NothingChanged ==
    ASSUME CodeInv, ~Changed
    PROVE  /\ \A m \in Graph(roots) \cap DOMAIN loaded : loaded[m].sum = disk[m]
           /\ torn \cap Graph(roots) = {} => Graph(roots) \subseteq DOMAIN loaded
<1> DEFINE C == DOMAIN loaded \cap Graph(roots)
<1>1. \A m \in C : m \in Files /\ loaded[m].sum = disk[m]
  BY GraphInFiles DEF Changed, CodeInv, LoadedOK
<1>2. ASSUME torn \cap Graph(roots) = {}
      PROVE  Graph(roots) \subseteq DOMAIN loaded
  <2>1. \A m \in C : Imports(m, disk[m]) \subseteq DOMAIN loaded
    BY <1>1, <1>2 DEF CodeInv, TextsOK
  <2>2. Closed(C)
    BY <1>1, <2>1, GraphClosed DEF Closed, Imports
  <2>3. roots \subseteq C /\ C \in SUBSET Files
    BY GraphHolds, GraphInFiles DEF CodeInv, LoadedOK
  <2>4. Graph(roots) \subseteq C
    BY <2>2, <2>3, GraphLeast
  <2> QED BY <2>4
<1> QED BY <1>1, <1>2

\* recompile.
LEMMA RecompileStep == ASSUME CodeInv, Recompile PROVE CodeInv'
<1>1. CASE Changed /\ BeginCall("recompile", Graph(roots), {}, {})
  <2> DEFINE G == Graph(roots)
  <2>1. G \in SUBSET Files /\ Closed(G) /\ roots \subseteq G
    BY GraphInFiles, GraphClosed, GraphHolds DEF CodeInv, LoadedOK
  <2> HIDE DEF G
  <2>2. BeginCall("recompile", G, {}, {})
    BY <1>1 DEF G
  <2> QED BY <2>1, <2>2, CallBegins
<1>2. CASE /\ load = NoCall /\ ~Changed /\ told' = edits
           /\ UNCHANGED <<disk, sessionVars, held, load, edits, torn>>
  <2>1. CellsOK' /\ LoadedOK' /\ TextsOK' /\ AliasesOneText'
    BY <1>2, CodeKept DEF sessionVars
  <2>2. Ranges'
    <3>1. disk' = disk /\ generation' = generation /\ torn' = torn /\ edits' = edits
          /\ told' = edits
      BY <1>2 DEF sessionVars
    <3> QED BY <3>1 DEF CodeInv, Ranges
  <2>3. Graph(roots)' = Graph(roots)
    BY <1>2 DEF Graph, Closed, sessionVars
  <2>4. TrueOK'
    BY <1>2, <2>3, NothingChanged DEF TrueOK, sessionVars
  <2> QED BY <1>2, <2>1, <2>2, <2>4 DEF CodeInv, LoadOK
<1> QED BY <1>1, <1>2 DEF Recompile

\* The user saves a file.
LEMMA EditStep == ASSUME CodeInv, NEW m \in Files, Edit(m) PROVE CodeInv'
<1>1. Ranges' /\ edits' > edits /\ told' # edits'
  <2>1. /\ disk \in [Files -> Texts] /\ generation \in Nat /\ torn \subseteq Files
        /\ edits \in Nat /\ told \in Nat /\ (told <= edits \/ told = MaxEdits + 1)
    BY DEF CodeInv, Ranges, Never
  <2>2. /\ edits < MaxEdits /\ edits' = edits + 1 /\ told' = told
        /\ generation' = generation /\ \E t \in Texts : disk' = [disk EXCEPT ![m] = t]
    BY DEF Edit, sessionVars
  <2>3. disk' \in [Files -> Texts]
    BY <2>1, <2>2
  <2>4. torn' \subseteq Files
    BY <2>1 DEF Edit
  <2>5. /\ edits' \in Nat /\ edits' <= MaxEdits /\ edits' > edits
        /\ told' # edits' /\ (told' <= edits' \/ told' = MaxEdits + 1)
    BY <2>1, <2>2, ReloadAssumption
  <2> QED BY <2>1, <2>2, <2>3, <2>4, <2>5 DEF Ranges, Never
<1>2. UNCHANGED <<loaded, roots, generation, cells, held, load, told, torn>>
  BY DEF Edit, sessionVars
<1>3. CellsOK' /\ LoadedOK' /\ TextsOK' /\ AliasesOneText'
  BY <1>2, CodeKept
<1>5. TrueOK'
  BY <1>1 DEF TrueOK
<1>6. LoadOK'
  <2>1. CASE load = NoCall
    BY <1>2, <2>1 DEF LoadOK
  <2>2. CASE CallOK
    <3>1. load.began <= edits' /\ load.began # edits'
      BY <1>1, <2>2 DEF CallOK, Calls, CodeInv, Ranges
    <3>2. CallOK'
      BY <1>2, <2>2, <3>1 DEF CallOK
    <3> QED BY <3>2 DEF LoadOK
  <2> QED BY <2>1, <2>2 DEF CodeInv, LoadOK
<1> QED BY <1>1, <1>3, <1>5, <1>6 DEF CodeInv

\* A call and a return: what an actor holds is code of the VM.
LEMMA HeldStep ==
    ASSUME CodeInv, (\E n \in DOMAIN cells : Get(n)) \/ (\E c \in held : Return(c))
    PROVE  CodeInv'
<1>1. UNCHANGED <<disk, loaded, roots, generation, cells, load, edits, told, torn>>
  BY DEF Get, Return, sessionVars, historyVars
<1>2. \A c \in held' : c \in held \/ Whole(c)
  BY DEF Get, Return, CodeInv, CellsOK
<1>3. CellsOK' /\ LoadedOK' /\ TextsOK' /\ AliasesOneText'
  BY <1>1, <1>2, CodeKept
<1>4. TrueOK'
  BY <1>1, TrueKept DEF CodeInv
<1>5. LoadOK' /\ Ranges'
  BY <1>1 DEF CodeInv, LoadOK, CallOK, Ranges
<1> QED BY <1>3, <1>4, <1>5 DEF CodeInv

\* recompile compares what it read with the records, and checks it.
LEMMA CheckStep == ASSUME CodeInv, Check PROVE CodeInv'
<1> DEFINE I == IF load.op = "load" THEN load.install ELSE ToInstall(load.world)
<1>1. /\ CallOK /\ load.phase = "read"
      /\ UNCHANGED <<disk, loaded, roots, generation, cells, held, edits, loads, torn>>
  BY DEF Check, CodeInv, LoadOK, NoCall, sessionVars
<1>2. \/ I = {} /\ load' = NoCall /\ told' = load.began
      \/ load' = NoCall /\ told' = told
      \/ load' = [load EXCEPT !.phase = "compiled", !.install = I] /\ told' = told
  BY DEF Check, Ends
<1>3. CellsOK' /\ LoadedOK' /\ TextsOK' /\ AliasesOneText'
  BY <1>1, CodeKept
<1>4. Ranges'
  <2>1. told' \in Nat /\ (told' <= edits \/ told' = Never)
    BY <1>1, <1>2 DEF CodeInv, Ranges, CallOK, Calls
  <2> QED BY <1>1, <2>1 DEF CodeInv, Ranges
<1>5. TrueOK'
  <2>1. CASE I = {} /\ told' = load.began /\ load.began = edits
    <3>1. load.op = "recompile"
      BY <1>1, <2>1 DEF CallOK, Calls
    <3>2. \A x \in DOMAIN load.world : x \in DOMAIN loaded /\ loaded[x].sum = disk[x]
      BY <2>1, <3>1 DEF ToInstall
    <3>3. DOMAIN load.world \in SUBSET Files
      BY <1>1 DEF CallOK, Calls, Worlds
    <3>4. roots \subseteq DOMAIN load.world /\ Closed(DOMAIN load.world)
      BY <1>1, <2>1, <3>1 DEF CallOK, Closed, Imports
    <3>5. Graph(roots) \subseteq DOMAIN load.world
      BY <3>3, <3>4, GraphLeast
    <3>6. Graph(roots)' = Graph(roots)
      BY <1>1 DEF Graph, Closed
    <3> QED BY <1>1, <3>2, <3>5, <3>6 DEF TrueOK
  <2>2. CASE ~(I = {} /\ told' = load.began /\ load.began = edits)
    <3>1. told' = told \/ told' # edits
      BY <1>2, <2>2
    <3> QED BY <1>1, <3>1, TrueKept DEF CodeInv
  <2> QED BY <2>1, <2>2
<1>6. LoadOK'
  <2>1. CASE load' = NoCall
    BY <2>1 DEF LoadOK
  <2>2. CASE load' = [load EXCEPT !.phase = "compiled", !.install = I]
    <3>1. I \in SUBSET Files /\ I \subseteq DOMAIN load.world
      BY <1>1 DEF CallOK, Calls, Worlds, ToInstall
    <3>2. load.op = "recompile" => DOMAIN load.world \subseteq I \cup DOMAIN loaded
      BY DEF ToInstall
    <3>3. \A x \in I : Imports(x, load.world[x]) \subseteq I \cup DOMAIN loaded
      BY <1>1, <3>1, <3>2 DEF CallOK, Calls
    <3>4. load.op = "recompile" =>
             \A x \in DOMAIN load.world \ I : loaded[x].sum = disk[x]
      BY DEF ToInstall
    <3>5. load.root \subseteq I \cup DOMAIN loaded
      BY <1>1, <3>2 DEF CallOK, Calls
    <3> HIDE DEF I
    <3>6. /\ load'.phase = "compiled" /\ load'.op = load.op /\ load'.began = load.began
          /\ load'.world = load.world /\ load'.install = I /\ load'.root = load.root
          /\ load' \in Calls
      BY <1>1, <2>2, <3>1 DEF CallOK, Calls
    <3>7. load.op = "load" => I # {}
      BY <1>1 DEF CallOK, I
    <3>8. CallOK'
      BY <1>1, <3>1, <3>2, <3>3, <3>4, <3>5, <3>6, <3>7 DEF CallOK
    <3> QED BY <3>8 DEF LoadOK
  <2> QED BY <1>2, <2>1, <2>2
<1> QED BY <1>3, <1>4, <1>5, <1>6 DEF CodeInv

\* install takes the sums.
LEMMA StatStep == ASSUME CodeInv, Stat PROVE CodeInv'
<1> DEFINE u == [x \in load.install |-> disk[x]]
<1>1. /\ CallOK /\ load.phase = "compiled"
      /\ load' = [load EXCEPT !.phase = "summed", !.sums = u]
      /\ UNCHANGED <<disk, loaded, roots, generation, cells, held, edits, told, torn>>
  BY DEF Stat, CodeInv, LoadOK, NoCall, sessionVars, historyVars, Restrict
<1>2. u \in [load.install -> Texts] /\ load.install \in SUBSET Files
  BY <1>1 DEF CallOK, Calls, CodeInv, Ranges
<1>3. u \in Worlds /\ DOMAIN u = load.install /\ \A x \in load.install : u[x] = disk[x]
  BY <1>2 DEF Worlds
<1> HIDE DEF u
<1>4. /\ load'.phase = "summed" /\ load'.op = load.op /\ load'.began = load.began
      /\ load'.world = load.world /\ load'.install = load.install /\ load'.root = load.root
      /\ load'.sums = u /\ load' \in Calls
  BY <1>1, <1>3 DEF CallOK, Calls
<1>5. CallOK'
  BY <1>1, <1>3, <1>4 DEF CallOK
<1>6. CellsOK' /\ LoadedOK' /\ TextsOK' /\ AliasesOneText'
  BY <1>1, CodeKept
<1>7. TrueOK'
  BY <1>1, TrueKept DEF CodeInv
<1>8. Ranges'
  BY <1>1 DEF CodeInv, Ranges
<1> QED BY <1>5, <1>6, <1>7, <1>8 DEF CodeInv, LoadOK

\* What an installation defines.
LEMMA DefsOK ==
    ASSUME NEW I, NEW W, generation \in Nat
    PROVE  LET d == Defs(I, W)
           IN  /\ \A n \in DOMAIN d :
                    /\ n = Name(n.mod, n.fun, n.gen) /\ n.mod \in I
                    /\ \/ n.gen = 0 /\ n.fun \in Text(n.mod, W[n.mod]).funs
                       \/ n.gen = generation + 1 /\ n.fun \in Text(n.mod, W[n.mod]).locals
                    /\ d[n].mod = n.mod /\ d[n].fun = n.fun
                    /\ d[n].text = W[n.mod] /\ d[n].gen = generation + 1
               /\ \A m \in I : \A f \in Text(m, W[m]).funs : Name(m, f, 0) \in DOMAIN d
               /\ \A m \in I : \A f \in Text(m, W[m]).locals :
                    Name(m, f, generation + 1) \in DOMAIN d
<1> DEFINE d == Defs(I, W)
<1>1. \A m, f, g : /\ Name(m, f, g).mod = m /\ Name(m, f, g).fun = f /\ Name(m, f, g).gen = g
  BY DEF Name
<1>2. DOMAIN d = UNION {Names(m, W[m]) : m \in I}
      /\ \A n \in DOMAIN d : d[n] = Compiled(n, W[n.mod])
  BY DEF Defs
<1>3. \A n \in DOMAIN d : d[n].mod = n.mod /\ d[n].fun = n.fun
                          /\ d[n].text = W[n.mod] /\ d[n].gen = generation + 1
  <2> HIDE DEF d
  <2>1. ASSUME NEW n \in DOMAIN d
        PROVE  d[n] = [mod |-> n.mod, fun |-> n.fun, text |-> W[n.mod], gen |-> generation + 1]
    BY <1>2 DEF Compiled, Generation
  <2> QED BY <2>1
<1> HIDE DEF d
<1>4. \A n \in DOMAIN d : \E m \in I :
         \/ \E f \in Text(m, W[m]).funs : n = Name(m, f, 0)
         \/ \E f \in Text(m, W[m]).locals : n = Name(m, f, generation + 1)
  BY <1>2 DEF Names, Generation
<1>5. \A n \in DOMAIN d :
         /\ n = Name(n.mod, n.fun, n.gen) /\ n.mod \in I
         /\ \/ n.gen = 0 /\ n.fun \in Text(n.mod, W[n.mod]).funs
            \/ n.gen = generation + 1 /\ n.fun \in Text(n.mod, W[n.mod]).locals
  BY <1>1, <1>4
<1>6. /\ \A m \in I : \A f \in Text(m, W[m]).funs : Name(m, f, 0) \in DOMAIN d
      /\ \A m \in I : \A f \in Text(m, W[m]).locals : Name(m, f, generation + 1) \in DOMAIN d
  BY <1>2 DEF Names, Generation
<1> QED BY <1>3, <1>5, <1>6 DEF d

\* The swap: the text of every module installed is the one that was read.
LEMMA InstallStep == ASSUME CodeInv, Install PROVE CodeInv'
<1> DEFINE I == load.install
           W == load.world
           d == Defs(I, W)
           U == UNION {Undef(m, d) : m \in I}
           rec == [m \in I |-> [file |-> m, sum |-> load.sums[m], globals |-> Globals(m, d)]]
<1>1. /\ CallOK /\ load.phase = "summed" /\ load' = NoCall
      /\ cells' = Apply(U, d) /\ loaded' = Put(rec, loaded)
      /\ generation' = generation + 1 /\ roots' = roots \cup load.root
      /\ told' = IF load.op = "recompile" THEN load.began ELSE Never
      /\ torn' = (torn \ I) \cup {m \in I : load.sums[m] # W[m]}
      /\ UNCHANGED <<disk, held, edits>>
  BY DEF Install, CodeInv, LoadOK, NoCall, Ends
<1>2. generation \in Nat /\ I \in SUBSET Files /\ W \in Worlds /\ I \subseteq DOMAIN W
      /\ \A x \in DOMAIN W : x \in Files /\ W[x] \in Texts
  BY <1>1 DEF CallOK, Calls, CodeInv, Ranges, Worlds
<1>3. /\ \A n \in DOMAIN d :
           /\ n = Name(n.mod, n.fun, n.gen) /\ n.mod \in I
           /\ \/ n.gen = 0 /\ n.fun \in Text(n.mod, W[n.mod]).funs
              \/ n.gen = generation + 1 /\ n.fun \in Text(n.mod, W[n.mod]).locals
           /\ d[n].mod = n.mod /\ d[n].fun = n.fun
           /\ d[n].text = W[n.mod] /\ d[n].gen = generation + 1
      /\ \A m \in I : \A f \in Text(m, W[m]).funs : Name(m, f, 0) \in DOMAIN d
      /\ \A m \in I : \A f \in Text(m, W[m]).locals : Name(m, f, generation + 1) \in DOMAIN d
  BY <1>2, DefsOK
<1>4. \A m, f, g : /\ Name(m, f, g).mod = m /\ Name(m, f, g).fun = f /\ Name(m, f, g).gen = g
  BY DEF Name
<1>5. /\ DOMAIN cells' = (DOMAIN cells \ U) \cup DOMAIN d
      /\ \A n \in DOMAIN d : cells'[n] = d[n]
      /\ \A n \in DOMAIN cells' : n \notin DOMAIN d => cells'[n] = cells[n]
  <2> HIDE DEF U, d
  <2> QED BY <1>1 DEF Apply, Put, Restrict
<1>6. /\ DOMAIN loaded' = I \cup DOMAIN loaded
      /\ \A m \in I : /\ loaded'[m].file = m /\ loaded'[m].sum = load.sums[m]
                      /\ loaded'[m].globals = Globals(m, d)
      /\ \A m \in DOMAIN loaded \ I : loaded'[m] = loaded[m]
  <2> HIDE DEF d, I
  <2>1. /\ DOMAIN rec = I
        /\ \A m \in I : /\ rec[m].file = m /\ rec[m].sum = load.sums[m]
                        /\ rec[m].globals = Globals(m, d)
    OBVIOUS
  <2> HIDE DEF rec
  <2> QED BY <1>1, <2>1 DEF Put
<1>7. \A n \in U : n.mod \in I /\ n.mod \in DOMAIN loaded /\ n \in DOMAIN cells
                   /\ n \in loaded[n.mod].globals /\ n \notin DOMAIN d /\ ~Lifted(n)
  <2> HIDE DEF I, d
  <2> QED BY DEF Undef, CodeInv, LoadedOK
<1>8. \A m \in I \cap DOMAIN loaded : \A n \in loaded[m].globals :
         n \notin DOMAIN d /\ ~Lifted(n) => n \in U
  <2> HIDE DEF I, d
  <2> QED BY DEF Undef
<1>9. \A m \in I : Globals(m, d) = {n \in DOMAIN d : n.mod = m}
         \cup IF m \in DOMAIN loaded THEN {n \in loaded[m].globals : Lifted(n)} ELSE {}
  <2> HIDE DEF I, d
  <2> QED BY DEF Globals
<1> HIDE DEF I, W, d, U, rec
<1>10. \A n \in DOMAIN cells : n.gen \in Nat /\ n.gen <= generation
  BY DEF CodeInv, CellsOK
\* Lifted names stay, and so do those of other modules.
<1>11. \A n \in DOMAIN cells : Lifted(n) => /\ n \in DOMAIN cells' /\ cells'[n] = cells[n]
                                            /\ n \notin DOMAIN d
  BY <1>2, <1>3, <1>5, <1>7, <1>10 DEF Lifted
<1>12. \A n \in DOMAIN cells : n.mod \notin I => /\ n \in DOMAIN cells' /\ cells'[n] = cells[n]
                                                /\ n \notin DOMAIN d
  BY <1>3, <1>5, <1>7
<1>13. \A c : Whole(c) => Whole(c)'
  <2> SUFFICES ASSUME NEW c, Whole(c) PROVE Whole(c)'
    OBVIOUS
  <2>1. /\ c.mod \in Files /\ c.gen \in Nat /\ c.gen > 0 /\ c.gen <= generation'
    BY <1>1, <1>2 DEF Whole
  <2>2. Lifted(Name(c.mod, c.fun, c.gen))
    BY <2>1, <1>4 DEF Lifted
  <2> QED BY <2>1, <2>2, <1>11 DEF Whole
<1>14. \A n \in DOMAIN d : \A c : c = d[n] => Whole(c)'
  <2> SUFFICES ASSUME NEW n \in DOMAIN d, NEW c, c = d[n] PROVE Whole(c)'
    OBVIOUS
  <2>1. /\ c.mod \in Files /\ c.gen \in Nat /\ c.gen > 0 /\ c.gen <= generation'
    BY <1>1, <1>2, <1>3
  <2>2. ASSUME c.fun \in Text(c.mod, c.text).locals
        PROVE  LET x == Name(c.mod, c.fun, c.gen)
               IN  x \in DOMAIN cells' /\ cells'[x].text = c.text
    <3> DEFINE x == Name(c.mod, c.fun, c.gen)
    <3>1. x \in DOMAIN d /\ x.mod = n.mod
      BY <1>3, <1>4, <2>2
    <3> QED BY <1>3, <1>5, <3>1
  <2> QED BY <2>1, <2>2 DEF Whole
<1>15. CellsOK'
  <2>1. ASSUME NEW n \in DOMAIN cells'
        PROVE  /\ n = Name(n.mod, n.fun, n.gen) /\ n.gen \in Nat /\ n.gen <= generation'
               /\ \A c : c = cells'[n] => Whole(c)'
    <3>1. CASE n \in DOMAIN d
      BY <1>1, <1>2, <1>3, <1>5, <1>14, <3>1
    <3>2. CASE n \notin DOMAIN d
      <4>1. n \in DOMAIN cells /\ cells'[n] = cells[n]
        BY <1>5, <3>2
      <4>2. n = Name(n.mod, n.fun, n.gen) /\ n.gen \in Nat /\ n.gen <= generation
            /\ Whole(cells[n])
        BY <4>1 DEF CodeInv, CellsOK
      <4> QED BY <1>1, <1>2, <1>13, <4>1, <4>2
    <3> QED BY <3>1, <3>2
  <2>2. \A c \in held' : Whole(c)'
    BY <1>1, <1>13 DEF CodeInv, CellsOK
  <2> QED BY <2>1, <2>2 DEF CellsOK
\* A name of an installed module that is not lifted is one that was defined.
<1>16. \A n \in DOMAIN cells' : n.mod \in I /\ ~Lifted(n) => n \in DOMAIN d
  <2> SUFFICES ASSUME NEW n \in DOMAIN cells', n.mod \in I, ~Lifted(n), n \notin DOMAIN d
               PROVE  FALSE
    OBVIOUS
  <2>1. n \in DOMAIN cells /\ n \notin U
    BY <1>5
  <2>2. n.mod \in DOMAIN loaded /\ n \in loaded[n.mod].globals
    BY <1>2, <2>1 DEF CodeInv, LoadedOK
  <2> QED BY <1>8, <2>1, <2>2
<1>17. LoadedOK'
  <2>1. ASSUME NEW m \in DOMAIN loaded', NEW n \in loaded'[m].globals
        PROVE  n \in DOMAIN cells' /\ n.mod = m
    <3>1. CASE m \in I
      BY <1>5, <1>6, <1>9, <1>11, <3>1 DEF CodeInv, LoadedOK
    <3>2. CASE m \notin I
      BY <1>6, <1>12, <3>2 DEF CodeInv, LoadedOK
    <3> QED BY <3>1, <3>2
  <2>2. ASSUME NEW n \in DOMAIN cells', n.mod \in Files
        PROVE  n.mod \in DOMAIN loaded' /\ (Lifted(n) \/ n \in loaded'[n.mod].globals)
    <3>1. CASE n.mod \in I
      BY <1>6, <1>9, <1>16, <3>1
    <3>2. CASE n.mod \notin I
      <4>1. n \in DOMAIN cells
        BY <1>3, <1>5, <3>2
      <4> QED BY <1>6, <2>2, <3>2, <4>1 DEF CodeInv, LoadedOK
    <3> QED BY <3>1, <3>2
  <2>3. \A m \in DOMAIN loaded' \cap Files : loaded'[m].file = m
    BY <1>6 DEF CodeInv, LoadedOK
  <2>4. roots' \subseteq DOMAIN loaded' \cap Files
    BY <1>1, <1>6 DEF CodeInv, LoadedOK, CallOK, Calls, I
  <2>5. \A n : Lifted(n)' <=> Lifted(n)
    BY DEF Lifted
  <2> QED BY <2>1, <2>2, <2>3, <2>4, <2>5 DEF LoadedOK
\* The texts of the modules installed, and of the others.
<1>18. \A m \in I : \A t : t = W[m] => TextIs(m, t)'
  <2> SUFFICES ASSUME NEW m \in I, NEW t, t = W[m] PROVE TextIs(m, t)'
    OBVIOUS
  <2>1. \A n : n \in FunctionsOf(m)' <=> n \in DOMAIN cells' /\ n.mod = m /\ ~Lifted(n)
    BY DEF FunctionsOf, Lifted
  <2>2. \A n \in FunctionsOf(m)' :
           n \in DOMAIN d /\ cells'[n].mod = m /\ cells'[n].text = t
    BY <1>3, <1>5, <1>16, <2>1
  <2>3. \A n \in FunctionsOf(m)' : n.gen = 0
    BY <1>2, <1>3, <2>1, <2>2 DEF Lifted
  <2>4. \A n \in FunctionsOf(m)' : \E f \in Text(m, t).funs : n = Name(m, f, 0)
    BY <1>2, <1>3, <2>1, <2>2, <2>3
  <2>5. \A f \in Text(m, t).funs : Name(m, f, 0) \in FunctionsOf(m)'
    BY <1>3, <1>4, <1>5, <2>1 DEF Lifted
  <2>6. FunctionsOf(m)' = {Name(m, f, 0) : f \in Text(m, t).funs}
    BY <2>4, <2>5
  <2> QED BY <2>2, <2>6 DEF TextIs
<1>19. \A m \in Files \ I : \A t : TextIs(m, t) => TextIs(m, t)'
  <2> SUFFICES ASSUME NEW m \in Files \ I, NEW t, TextIs(m, t) PROVE TextIs(m, t)'
    OBVIOUS
  <2>1. FunctionsOf(m)' = FunctionsOf(m)
    BY <1>3, <1>5, <1>12 DEF FunctionsOf, Lifted
  <2>2. \A n \in FunctionsOf(m) : cells'[n] = cells[n]
    BY <1>12 DEF FunctionsOf
  <2> QED BY <2>1, <2>2 DEF TextIs
<1>20. TextsOK'
  <2> SUFFICES ASSUME NEW m \in DOMAIN loaded' \cap Files
               PROVE  /\ \E t \in Texts : TextIs(m, t)' /\ (m \notin torn' => t = loaded'[m].sum)
                      /\ m \notin torn' => Imports(m, loaded'[m].sum) \subseteq DOMAIN loaded'
    BY DEF TextsOK
  <2>1. CASE m \in I
    <3>1. m \notin torn' => loaded'[m].sum = W[m]
      BY <1>1, <1>6, <2>1
    <3>2. Imports(m, W[m]) \subseteq DOMAIN loaded'
      BY <1>1, <1>6, <2>1 DEF CallOK, I, W
    <3> QED BY <1>1, <1>2, <1>18, <2>1, <3>1, <3>2
  <2>2. CASE m \notin I
    BY <1>1, <1>6, <1>19, <2>2 DEF CodeInv, TextsOK
  <2> QED BY <2>1, <2>2
<1>21. Ranges'
  <2>1. told' \in Nat /\ (told' <= edits \/ told' = Never) /\ generation' \in Nat
    BY <1>1, <1>2, ReloadAssumption DEF CallOK, Calls, Never
  <2>2. torn' \subseteq Files
    BY <1>1, <1>2 DEF CodeInv, Ranges
  <2> QED BY <1>1, <2>1, <2>2 DEF CodeInv, Ranges
<1>22. TrueOK'
  <2> SUFFICES ASSUME told' = edits'
               PROVE  /\ \A m \in Graph(roots)' : m \in DOMAIN loaded'
                                                 /\ loaded'[m].sum = disk'[m]
    BY DEF TrueOK
  <2>1. load.op = "recompile" /\ load.began = edits
    <3>1. edits \in Nat /\ edits <= MaxEdits /\ MaxEdits \in Nat /\ load.began \in Nat
      BY <1>1, ReloadAssumption DEF CodeInv, Ranges, CallOK, Calls
    <3>2. edits # Never
      BY <3>1 DEF Never
    <3> QED BY <1>1, <3>2
  <2>2. \A x \in DOMAIN W : W[x] = disk[x]
    BY <1>1, <2>1 DEF CallOK, W
  <2>3. roots' \subseteq DOMAIN W
    <3>1. roots \cup load.root \subseteq DOMAIN W
      BY <1>1, <2>1 DEF CallOK, W
    <3> QED BY <1>1, <3>1
  <2>4. Closed(DOMAIN W)
    BY <1>1, <2>1, <2>2 DEF CallOK, Closed, Imports, W
  <2>5. Graph(roots)' \subseteq DOMAIN W
    <3>1. DOMAIN W \in SUBSET Files
      BY <1>2
    <3>2. Graph(roots)' = Graph(roots')
      BY <1>1 DEF Graph, Closed
    <3> QED BY <2>3, <2>4, <3>1, <3>2, GraphLeast
  <2>6. ASSUME NEW m \in DOMAIN W
        PROVE  m \in DOMAIN loaded' /\ loaded'[m].sum = disk[m]
    <3>1. CASE m \in I
      BY <1>1, <1>6, <2>1, <2>2, <2>6, <3>1 DEF CallOK, I, W
    <3>2. CASE m \notin I
      BY <1>1, <1>6, <2>1, <2>2, <2>6, <3>2 DEF CallOK, I, W
    <3> QED BY <3>1, <3>2
  <2> QED BY <1>1, <2>5, <2>6
\* The aliases are not of I, and neither are their names.
<1>23. AliasesOneText'
  <2> SUFFICES ASSUME NEW a \in DOMAIN loaded' \ Files
               PROVE  \E t \in Texts :
                        LET m == loaded'[a].file
                            named == {n \in loaded'[a].globals : ~Lifted(n)}
                        IN  /\ {n.fun : n \in named} = Text(m, t).funs
                            /\ \A n \in named : /\ n.mod = a /\ n \in DOMAIN cells'
                                                /\ cells'[n].mod = m
                                                /\ cells'[n].text = t
    BY DEF AliasesOneText, Lifted
  <2>1. a \in DOMAIN loaded \ Files /\ a \notin I /\ loaded'[a] = loaded[a]
    BY <1>2, <1>6
  <2>2. PICK t \in Texts :
           LET m == loaded[a].file
               named == {n \in loaded[a].globals : ~Lifted(n)}
           IN  /\ {n.fun : n \in named} = Text(m, t).funs
               /\ \A n \in named : /\ n.mod = a /\ n \in DOMAIN cells
                                   /\ cells[n].mod = m /\ cells[n].text = t
    BY <2>1 DEF CodeInv, AliasesOneText
  <2> QED BY <1>12, <2>1, <2>2
<1> QED BY <1>1, <1>15, <1>17, <1>20, <1>21, <1>22, <1>23 DEF CodeInv, LoadOK

\* An alias adds names that are of no file.
LEMMA AliasStep ==
    ASSUME CodeInv, NEW m \in Files, NEW a \in Aliases, AliasModule(m, a)
    PROVE  CodeInv'
<1> DEFINE names == {n \in loaded[m].globals : n.mod = m}
           under == [n \in {Name(a, x.fun, x.gen) : x \in names} |->
                        cells[Name(m, n.fun, n.gen)]]
           record == [x \in {a} |-> [loaded[m] EXCEPT !.globals = DOMAIN under]]
<1>1. /\ load = NoCall /\ m \in DOMAIN loaded
      /\ cells' = Put(under, cells) /\ loaded' = Put(record, loaded)
      /\ UNCHANGED <<disk, roots, generation, held, load, edits, told, torn>>
  BY DEF AliasModule, historyVars
<1>2. a \notin Files
  BY ReloadAssumption
<1>3. \A k, f, g : /\ Name(k, f, g).mod = k /\ Name(k, f, g).fun = f /\ Name(k, f, g).gen = g
  BY DEF Name
<1>4. /\ \A n \in DOMAIN under : \E x \in DOMAIN cells :
            /\ x \in loaded[m].globals /\ n = Name(a, x.fun, x.gen)
            /\ under[n] = cells[x]
      /\ \A x \in loaded[m].globals : Name(a, x.fun, x.gen) \in DOMAIN under
  <2> SUFFICES ASSUME NEW x \in names
               PROVE  /\ x \in DOMAIN cells
                      /\ under[Name(a, x.fun, x.gen)] = cells[x]
    <3>1. \A x \in loaded[m].globals : x \in names
      BY <1>1 DEF CodeInv, LoadedOK
    <3> QED BY <3>1
  <2>1. x \in DOMAIN cells /\ x.mod = m /\ x = Name(x.mod, x.fun, x.gen)
    BY <1>1 DEF CodeInv, LoadedOK, CellsOK
  <2>2. Name(a, x.fun, x.gen) \in DOMAIN under
    OBVIOUS
  <2>3. under[Name(a, x.fun, x.gen)] = cells[Name(m, x.fun, x.gen)]
    BY <1>3, <2>2
  <2> QED BY <2>1, <2>3
<1>5. /\ DOMAIN loaded' = {a} \cup DOMAIN loaded
      /\ loaded'[a].globals = DOMAIN under /\ loaded'[a].file = m
      /\ \A x \in DOMAIN loaded : x # a => loaded'[x] = loaded[x]
  <2> HIDE DEF under
  <2>1. DOMAIN record = {a} /\ record[a] = [loaded[m] EXCEPT !.globals = DOMAIN under]
    OBVIOUS
  <2> HIDE DEF record
  <2>2. /\ DOMAIN loaded' = {a} \cup DOMAIN loaded
        /\ loaded'[a] = [loaded[m] EXCEPT !.globals = DOMAIN under]
        /\ \A x \in DOMAIN loaded : x # a => loaded'[x] = loaded[x]
    BY <1>1, <2>1 DEF Put
  <2>3. loaded[m].file = m
    BY <1>1 DEF CodeInv, LoadedOK
  <2> QED BY <2>2, <2>3
<1> HIDE DEF names, under, record
<1>6. /\ DOMAIN cells' = DOMAIN under \cup DOMAIN cells
      /\ \A n \in DOMAIN under : cells'[n] = under[n]
      /\ \A n \in DOMAIN cells : n.mod \in Files => cells'[n] = cells[n]
      /\ \A n \in DOMAIN cells' : n \notin DOMAIN under => n \in DOMAIN cells /\ cells'[n] = cells[n]
      /\ \A n \in DOMAIN under : n.mod = a
  <2>1. \A n \in DOMAIN under : n.mod = a
    BY <1>3, <1>4
  <2> QED BY <1>1, <1>2, <2>1 DEF Put
<1>7. \A c : Whole(c) => Whole(c)'
  <2> SUFFICES ASSUME NEW c, Whole(c) PROVE Whole(c)'
    OBVIOUS
  <2>1. Name(c.mod, c.fun, c.gen).mod \in Files
    BY <1>3 DEF Whole
  <2> QED BY <1>1, <1>6, <2>1 DEF Whole
<1>8. CellsOK'
  <2>1. ASSUME NEW n \in DOMAIN cells'
        PROVE  /\ n = Name(n.mod, n.fun, n.gen) /\ n.gen \in Nat /\ n.gen <= generation'
               /\ \A c : c = cells'[n] => Whole(c)'
    <3>1. CASE n \in DOMAIN under
      <4>1. PICK x \in DOMAIN cells : n = Name(a, x.fun, x.gen) /\ under[n] = cells[x]
        BY <1>4, <3>1
      <4>2. x.gen \in Nat /\ x.gen <= generation /\ Whole(cells[x])
        BY DEF CodeInv, CellsOK
      <4>3. cells'[n] = cells[x] /\ n.gen = x.gen /\ n = Name(n.mod, n.fun, n.gen)
        BY <1>3, <1>6, <3>1, <4>1
      <4> QED BY <1>1, <1>7, <4>2, <4>3
    <3>2. CASE n \notin DOMAIN under
      <4>1. n \in DOMAIN cells /\ cells'[n] = cells[n]
        BY <1>6, <3>2
      <4>2. n = Name(n.mod, n.fun, n.gen) /\ n.gen \in Nat /\ n.gen <= generation
            /\ Whole(cells[n])
        BY <4>1 DEF CodeInv, CellsOK
      <4> QED BY <1>1, <1>7, <4>1, <4>2
    <3> QED BY <3>1, <3>2
  <2>2. \A c \in held' : Whole(c)'
    BY <1>1, <1>7 DEF CodeInv, CellsOK
  <2> QED BY <2>1, <2>2 DEF CellsOK
<1>9. LoadedOK'
  <2>1. ASSUME NEW x \in DOMAIN loaded', NEW n \in loaded'[x].globals
        PROVE  n \in DOMAIN cells' /\ n.mod = x
    <3>1. CASE x = a
      BY <1>5, <1>6, <3>1
    <3>2. CASE x # a
      BY <1>5, <1>6, <3>2 DEF CodeInv, LoadedOK
    <3> QED BY <3>1, <3>2
  <2>2. ASSUME NEW n \in DOMAIN cells', n.mod \in Files
        PROVE  n.mod \in DOMAIN loaded' /\ (Lifted(n) \/ n \in loaded'[n.mod].globals)
    <3>1. n \in DOMAIN cells
      BY <1>2, <1>6, <2>2
    <3> QED BY <1>2, <1>5, <2>2, <3>1 DEF CodeInv, LoadedOK
  <2>3. \A x \in DOMAIN loaded' \cap Files : loaded'[x].file = x
    BY <1>2, <1>5 DEF CodeInv, LoadedOK
  <2>4. roots' \subseteq DOMAIN loaded' \cap Files
    BY <1>1, <1>5 DEF CodeInv, LoadedOK
  <2>5. \A n : Lifted(n)' <=> Lifted(n)
    BY DEF Lifted
  <2> QED BY <2>1, <2>2, <2>3, <2>4, <2>5 DEF LoadedOK
<1>10. \A x \in Files : \A t : TextIs(x, t) => TextIs(x, t)'
  <2> SUFFICES ASSUME NEW x \in Files, NEW t, TextIs(x, t) PROVE TextIs(x, t)'
    OBVIOUS
  <2>1. FunctionsOf(x)' = FunctionsOf(x)
    BY <1>2, <1>6 DEF FunctionsOf, Lifted
  <2>2. \A n \in FunctionsOf(x) : cells'[n] = cells[n]
    BY <1>6 DEF FunctionsOf
  <2> QED BY <2>1, <2>2 DEF TextIs
<1>11. TextsOK'
  <2> SUFFICES ASSUME NEW x \in DOMAIN loaded' \cap Files
               PROVE  /\ \E t \in Texts : TextIs(x, t)' /\ (x \notin torn' => t = loaded'[x].sum)
                      /\ x \notin torn' => Imports(x, loaded'[x].sum) \subseteq DOMAIN loaded'
    BY DEF TextsOK
  <2>1. x \in DOMAIN loaded \cap Files /\ loaded'[x] = loaded[x]
    BY <1>2, <1>5
  <2> QED BY <1>1, <1>5, <1>10, <2>1 DEF CodeInv, TextsOK
<1>12. TrueOK'
  <2>1. Graph(roots)' = Graph(roots)
    BY <1>1 DEF Graph, Closed
  <2> QED BY <1>1, <1>2, <1>5, <2>1, GraphInFiles DEF CodeInv, TrueOK
<1>13. Ranges' /\ LoadOK'
  BY <1>1 DEF CodeInv, Ranges, LoadOK
\* The alias has the text of its module, the others what they had.
<1>14. AliasesOneText'
  <2> SUFFICES ASSUME NEW b \in DOMAIN loaded' \ Files
               PROVE  \E t \in Texts :
                        LET k == loaded'[b].file
                            named == {n \in loaded'[b].globals : ~Lifted(n)}
                        IN  /\ {n.fun : n \in named} = Text(k, t).funs
                            /\ \A n \in named : /\ n.mod = b /\ n \in DOMAIN cells'
                                                /\ cells'[n].mod = k
                                                /\ cells'[n].text = t
    BY DEF AliasesOneText, Lifted
  <2>1. CASE b = a
    <3> DEFINE named == {n \in DOMAIN under : ~Lifted(n)}
    <3>1. PICK t \in Texts : TextIs(m, t)
      BY <1>1 DEF CodeInv, TextsOK
    <3>2. \A x : x \in FunctionsOf(m) <=> x \in loaded[m].globals /\ ~Lifted(x)
      BY <1>1 DEF CodeInv, LoadedOK, FunctionsOf
    <3>3. ASSUME NEW n \in named
          PROVE  /\ n.mod = a /\ n \in DOMAIN cells' /\ n.fun \in Text(m, t).funs
                 /\ cells'[n].mod = m /\ cells'[n].text = t
      <4>1. PICK x \in DOMAIN cells : /\ x \in loaded[m].globals
                                      /\ n = Name(a, x.fun, x.gen)
                                      /\ under[n] = cells[x]
        BY <1>4, <3>3
      <4>2. n.fun = x.fun /\ n.gen = x.gen
        BY <1>3, <4>1
      <4>3. x \in FunctionsOf(m)
        BY <3>2, <3>3, <4>1, <4>2 DEF Lifted
      <4>4. x.fun \in Text(m, t).funs
        BY <1>3, <3>1, <4>3 DEF TextIs
      <4> QED BY <1>6, <3>1, <3>3, <4>1, <4>2, <4>3, <4>4 DEF TextIs
    <3>4. ASSUME NEW f \in Text(m, t).funs
          PROVE  \E n \in named : n.fun = f
      <4>1. Name(m, f, 0) \in loaded[m].globals
        BY <3>1, <3>2 DEF TextIs
      <4>2. Name(a, f, 0) \in DOMAIN under
        BY <1>3, <1>4, <4>1
      <4> QED BY <1>3, <4>2 DEF Lifted
    <3>5. {n.fun : n \in named} = Text(m, t).funs
      BY <3>3, <3>4
    <3>6. loaded'[b].file = m /\ {n \in loaded'[b].globals : ~Lifted(n)} = named
      BY <1>5, <2>1
    <3> HIDE DEF named
    <3> QED BY <2>1, <3>3, <3>5, <3>6
  <2>2. CASE b # a
    <3>1. b \in DOMAIN loaded \ Files /\ loaded'[b] = loaded[b]
      BY <1>5, <2>2
    <3>2. PICK t \in Texts :
             LET k == loaded[b].file
                 named == {n \in loaded[b].globals : ~Lifted(n)}
             IN  /\ {n.fun : n \in named} = Text(k, t).funs
                 /\ \A n \in named : /\ n.mod = b /\ n \in DOMAIN cells
                                     /\ cells[n].mod = k /\ cells[n].text = t
      BY <3>1 DEF CodeInv, AliasesOneText
    <3>3. \A n \in DOMAIN cells : n.mod = b => n \in DOMAIN cells' /\ cells'[n] = cells[n]
      BY <1>6, <2>2
    <3> QED BY <3>1, <3>2, <3>3
  <2> QED BY <2>1, <2>2
<1> QED BY <1>8, <1>9, <1>11, <1>12, <1>13, <1>14 DEF CodeInv

\* Every step.
LEMMA CodeStep == CodeInv /\ [CodeNext]_codeVars => CodeInv'
<1> SUFFICES ASSUME CodeInv, [CodeNext]_codeVars PROVE CodeInv'
  OBVIOUS
<1>1. CASE \E m \in Files : LoadModules(m) \/ Edit(m)
  BY <1>1, LoadOKStep, EditStep
<1>2. CASE Recompile \/ Check \/ Stat \/ Install
  BY <1>2, RecompileStep, CheckStep, StatStep, InstallStep
<1>3. CASE \E m \in Files, a \in Aliases : AliasModule(m, a)
  BY <1>3, AliasStep
<1>4. CASE (\E n \in DOMAIN cells : Get(n)) \/ (\E c \in held : Return(c))
  BY <1>4, HeldStep
<1>5. CASE UNCHANGED codeVars
  <2>1. UNCHANGED <<disk, loaded, roots, generation, cells, held, load, edits, told, torn>>
    BY <1>5 DEF codeVars
  <2>2. CellsOK' /\ LoadedOK' /\ TextsOK' /\ AliasesOneText'
    BY <2>1, CodeKept
  <2>3. TrueOK'
    BY <2>1, TrueKept DEF CodeInv
  <2>4. Ranges' /\ LoadOK'
    BY <2>1 DEF CodeInv, Ranges, LoadOK, CallOK
  <2> QED BY <2>2, <2>3, <2>4 DEF CodeInv
<1> QED BY <1>1, <1>2, <1>3, <1>4, <1>5 DEF CodeNext

\* Whatever order loads, recompiles, aliases and edits come in, actors find one
\* text of each module, whole, under its own name and under an alias; code of an
\* older text still runs; and a recompile that succeeded has left no old text
\* under the name of a module the roots reach, but for files whose record is
\* wrong (modules.go, project.go, SessionRedefine).
THEOREM CodeCorrect == CodeSpec => []CodeIsWhole
<1>1. CodeInv /\ [CodeNext]_codeVars => CodeInv'
  BY CodeStep
<1>2. CodeSpec => []CodeInv
  BY CodeStart, <1>1, PTL DEF CodeSpec
<1> QED BY <1>2, CodeInvWhole, PTL
=============================================================================
