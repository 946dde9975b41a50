--------------------------- MODULE SchedulerProofs ---------------------------
(* Theorems about Scheduler for every value of its constants: types, the   *)
(* ready queue and wakeups; then links, watches, names, signals and timers.*)
EXTENDS Scheduler, FiniteSetTheorems, SequenceTheorems, TLAPS

(***************************************************************************)
(* The operators the actions are built from.                               *)
(***************************************************************************)

\* The sets of actors and of refs are finite.
LEMMA FinitePids == IsFiniteSet(Pids) /\ IsFiniteSet(Refs)
BY FS_Interval, SchedulerAssumption DEF Pids, Refs

\* A sequence of all the elements of a finite set lists each exactly once.
LEMMA SetToSeqsLists ==
    ASSUME NEW S, IsFiniteSet(S), NEW t \in SetToSeqs(S)
    PROVE  t \in Seq(S) /\ ToSet(t) = S /\ IsInjective(t)
<1> DEFINE D == 1 .. Cardinality(S)
<1>1. Cardinality(S) \in Nat
  BY FS_CardinalityType
<1>2. t \in [D -> S] /\ \A i, j \in D : i # j => t[i] # t[j]
  BY DEF SetToSeqs
<1>3. t \in Seq(S) /\ IsInjective(t) /\ DOMAIN t = D
  BY <1>1, <1>2 DEF IsInjective
<1>4. IsFiniteSet(D) /\ Cardinality(D) = Cardinality(S)
  BY <1>1, FS_Interval
<1>5. t \in Injection(D, S)
  BY <1>2, <1>3 DEF Injection
<1>6. t \in Surjection(D, S)
  BY <1>4, <1>5, FS_Injection
<1>7. ToSet(t) = S
  <2>1. \A x \in S : \E i \in D : t[i] = x
    BY <1>6 DEF Surjection
  <2> QED BY <1>2, <1>3, <2>1 DEF ToSet
<1> QED BY <1>3, <1>7

\* hurry leaves a queue of the actors that were in it and the victims, each
\* of them once.
LEMMA HurriedQueueLists ==
    ASSUME NEW q \in Seq(Pids), NEW S \in SUBSET Pids,
           NEW t \in HurriedQueue(q, S)
    PROVE  t \in Seq(Pids) /\ ToSet(t) = ToSet(q) \cup S /\ IsInjective(t)
<1>1. ToSet(q) \cup S \subseteq Pids
  BY DEF ToSet
<1>2. IsFiniteSet(ToSet(q) \cup S)
  BY <1>1, FinitePids, FS_Subset
<1>3. t \in SetToSeqs(ToSet(q) \cup S)
  BY DEF HurriedQueue
<1>4. t \in Seq(ToSet(q) \cup S) /\ ToSet(t) = ToSet(q) \cup S /\ IsInjective(t)
  BY <1>2, <1>3, SetToSeqsLists
<1> QED BY <1>1, <1>4, SeqMonotonic

\* Appending an actor to a queue it is not in keeps every actor once.
LEMMA AppendLists ==
    ASSUME NEW S, NEW q \in Seq(S), NEW e \in S
    PROVE  /\ Append(q, e) \in Seq(S)
           /\ ToSet(Append(q, e)) = ToSet(q) \cup {e}
           /\ IsInjective(q) /\ e \notin ToSet(q) => IsInjective(Append(q, e))
<1> DEFINE t == Append(q, e)
<1>1. /\ t \in Seq(S)
      /\ Len(t) = Len(q) + 1
      /\ \A i \in 1 .. Len(q) : t[i] = q[i]
      /\ t[Len(q) + 1] = e
  BY AppendProperties
<1>2. DOMAIN t = 1 .. Len(q) + 1 /\ DOMAIN q = 1 .. Len(q) /\ Len(q) \in Nat
  BY <1>1, LenProperties
<1>3. ToSet(t) = ToSet(q) \cup {e}
  BY <1>1, <1>2 DEF ToSet
<1>4. IsInjective(q) /\ e \notin ToSet(q) => IsInjective(t)
  BY <1>1, <1>2 DEF ToSet, IsInjective
<1> QED BY <1>1, <1>3, <1>4

\* Joining two queues with no actor in common keeps every actor once.
LEMMA ConcatLists ==
    ASSUME NEW S, NEW q \in Seq(S), NEW u \in Seq(S)
    PROVE  /\ q \o u \in Seq(S)
           /\ ToSet(q \o u) = ToSet(q) \cup ToSet(u)
           /\ IsInjective(q) /\ IsInjective(u) /\ ToSet(q) \cap ToSet(u) = {}
                 => IsInjective(q \o u)
<1> DEFINE t == q \o u
<1>1. /\ t \in Seq(S)
      /\ Len(t) = Len(q) + Len(u)
      /\ \A i \in 1 .. Len(q) + Len(u) :
             t[i] = IF i <= Len(q) THEN q[i] ELSE u[i - Len(q)]
  BY ConcatProperties
<1>2. /\ DOMAIN t = 1 .. Len(q) + Len(u)
      /\ DOMAIN q = 1 .. Len(q) /\ DOMAIN u = 1 .. Len(u)
      /\ Len(q) \in Nat /\ Len(u) \in Nat
  BY <1>1, LenProperties
<1>3. ToSet(t) = ToSet(q) \cup ToSet(u)
  <2>1. ToSet(t) \subseteq ToSet(q) \cup ToSet(u)
    BY <1>1, <1>2 DEF ToSet
  <2>2. \A i \in DOMAIN q : i \in DOMAIN t /\ t[i] = q[i]
    BY <1>1, <1>2
  <2>3. \A i \in DOMAIN u : i + Len(q) \in DOMAIN t /\ t[i + Len(q)] = u[i]
    BY <1>1, <1>2
  <2>4. ToSet(q) \subseteq ToSet(t)
    BY <2>2 DEF ToSet
  <2>5. ToSet(u) \subseteq ToSet(t)
    BY <2>3 DEF ToSet
  <2> QED BY <2>1, <2>4, <2>5
<1>4. ASSUME IsInjective(q), IsInjective(u), ToSet(q) \cap ToSet(u) = {}
      PROVE  IsInjective(t)
  <2>1. \A i \in DOMAIN q, j \in DOMAIN u : q[i] # u[j]
    BY <1>4 DEF ToSet
  <2> QED BY <1>1, <1>2, <1>4, <2>1 DEF IsInjective
<1> QED BY <1>1, <1>3, <1>4

\* The head of a queue without repetitions is not in its tail.
LEMMA TailLists ==
    ASSUME NEW S, NEW q \in Seq(S), q # <<>>
    PROVE  /\ Head(q) \in S
           /\ Head(q) \in ToSet(q)
           /\ Tail(q) \in Seq(S)
           /\ IsInjective(q) => /\ IsInjective(Tail(q))
                                /\ ToSet(Tail(q)) = ToSet(q) \ {Head(q)}
<1> DEFINE t == Tail(q)
<1>1. /\ t \in Seq(S)
      /\ Len(t) = Len(q) - 1
      /\ \A i \in 1 .. Len(t) : t[i] = q[i + 1]
      /\ Head(q) \in S
  BY HeadTailProperties
<1>2. /\ DOMAIN t = 1 .. Len(q) - 1 /\ DOMAIN q = 1 .. Len(q)
      /\ Len(q) \in Nat \ {0} /\ Head(q) = q[1]
  BY <1>1, LenProperties, EmptySeq
<1>3. Head(q) \in ToSet(q)
  BY <1>2 DEF ToSet
<1>4. ASSUME IsInjective(q)
      PROVE  IsInjective(t) /\ ToSet(t) = ToSet(q) \ {Head(q)}
  <2>1. IsInjective(t)
    BY <1>1, <1>2, <1>4 DEF IsInjective
  <2>2. ToSet(t) \subseteq ToSet(q) \ {q[1]}
    BY <1>1, <1>2, <1>4 DEF IsInjective, ToSet
  <2>3. \A i \in DOMAIN q : i # 1 => i - 1 \in DOMAIN t /\ t[i - 1] = q[i]
    BY <1>1, <1>2
  <2>4. ToSet(q) \ {q[1]} \subseteq ToSet(t)
    BY <2>3 DEF ToSet
  <2> QED BY <1>2, <2>1, <2>2, <2>4
<1> QED BY <1>1, <1>3, <1>4

(***************************************************************************)
(* Types.                                                                  *)
(***************************************************************************)

\* A signal record stays one when it is signalled.
LEMMA SignalExitType ==
    ASSUME NEW sig \in ExitSigs, NEW r \in ExitReasons
    PROVE  SignalExit(sig, r) \in ExitSigs
<1>1. [NoExit EXCEPT !.set = TRUE, !.reason = r, !.kill = (r = "kill")]
          \in ExitSigs
  <2>1. NoExit \in ExitSigs
    BY SchedulerAssumption DEF ExitSigs, NoExit, ExitReasons
  <2> QED BY <2>1 DEF ExitSigs, NoExit
<1>2. [sig EXCEPT !.kill = TRUE, !.unwinding = FALSE] \in ExitSigs
  BY DEF ExitSigs
<1> QED BY <1>1, <1>2 DEF SignalExit

\* The record updates of the unwinding.
LEMMA UnwindType ==
    ASSUME NEW sig \in ExitSigs, NEW d \in 0 .. MaxEnsure
    PROVE  /\ NoExit \in ExitSigs
           /\ [sig EXCEPT !.unwinding = FALSE] \in ExitSigs
           /\ [sig EXCEPT !.unwinding = TRUE, !.depth = d] \in ExitSigs
<1>1. NoExit \in ExitSigs
  BY SchedulerAssumption DEF ExitSigs, NoExit, ExitReasons
<1>2. [sig EXCEPT !.unwinding = FALSE] \in ExitSigs
  BY DEF ExitSigs
<1>3. [sig EXCEPT !.unwinding = TRUE, !.depth = d] \in ExitSigs
  BY DEF ExitSigs
<1> QED BY <1>1, <1>2, <1>3

\* clearTimer keeps the types.
LEMMA ClearTimersType ==
    ASSUME TypeOK, NEW C \in SUBSET Pids, ClearTimers(C)
    PROVE  /\ deadline' \in [Pids -> {"zero", "future", "past"}]
           /\ awaiting' \in [Pids -> Refs \cup {NoRef}]
           /\ timers' \in SUBSET Pids
BY DEF ClearTimers, TypeOK

\* exit of another actor keeps the types of what it changes.
LEMMA ExitActorType ==
    ASSUME TypeOK, NEW q \in Pids, NEW r \in ExitReasons, ExitActor(q, r)
    PROVE  /\ exit' \in [Pids -> ExitSigs]
           /\ ready' \in Seq(Pids)
           /\ status' \in [Pids -> {"unborn", "ready", "blocked", "done",
                                    "failed"}]
           /\ deadline' \in [Pids -> {"zero", "future", "past"}]
           /\ awaiting' \in [Pids -> Refs \cup {NoRef}]
           /\ timers' \in SUBSET Pids
<1> DEFINE sig == SignalExit(exit[q], r)
<1>1. CASE q \in Live /\ sig # exit[q]
  <2>1. /\ exit' = [exit EXCEPT ![q] = sig]
        /\ ready' \in HurriedQueue(ready, {q})
        /\ status' = [status EXCEPT ![q] = "ready"]
        /\ ClearTimers({q} \ {x \in Pids : status[x] = "ready"})
    BY <1>1 DEF ExitActor
  <2>2. sig \in ExitSigs
    BY SignalExitType DEF TypeOK
  <2>3. exit' \in [Pids -> ExitSigs]
    BY <2>1, <2>2 DEF TypeOK
  <2>4. ready' \in Seq(Pids)
    BY <2>1, HurriedQueueLists DEF TypeOK
  <2>5. status' \in [Pids -> {"unborn", "ready", "blocked", "done", "failed"}]
    BY <2>1 DEF TypeOK
  <2>6. {q} \ {x \in Pids : status[x] = "ready"} \in SUBSET Pids
    OBVIOUS
  <2> QED BY <2>1, <2>3, <2>4, <2>5, <2>6, ClearTimersType
<1>2. CASE ~(q \in Live /\ sig # exit[q])
  BY <1>2 DEF ExitActor, TypeOK, queueVars, timeVars
<1> QED BY <1>1, <1>2

\* The downs that the death of p brings q can be put in order.
LEMMA ToldFinite ==
    ASSUME TypeOK, NEW p \in Pids, NEW q \in Pids, NEW why \in ExitReasons
    PROVE  /\ {Down(w, why) : w \in Told(p, q)} \in SUBSET Downs
           /\ IsFiniteSet({Down(w, why) : w \in Told(p, q)})
<1> DEFINE E == {Down(w, why) : w \in Told(p, q)}
           f == [r \in Refs |-> [ref |-> r, reason |-> why]]
           F == {f[r] : r \in Refs}
<1>1. \A w \in Told(p, q) : w.ref \in Refs
  BY DEF TypeOK, Told
<1>2. E \in SUBSET Downs
  BY <1>1 DEF Down, Downs, DownReasons
<1>3. E \in SUBSET F
  BY <1>1 DEF Down
<1>4. f \in Surjection(Refs, F)
  BY DEF Surjection
<1>5. IsFiniteSet(F)
  BY <1>4, FinitePids, FS_Surjection
<1> QED BY <1>2, <1>3, <1>5, FS_Subset

\* The death of an actor keeps the types.
LEMMA DeathType ==
    ASSUME TypeOK, NEW p \in Pids, NEW how \in {"done", "failed"},
           NEW why \in ExitReasons, Death(p, how, why)
    PROVE  TypeOK'
<1> DEFINE woken == Wakes({q \in Live \ (Kids(p) \cup {p}) : Told(p, q) # {}})
           Orders(q) == SetToSeqs({Down(w, why) : w \in Told(p, q)})
           C == {p} \cup {c \in Kids(p) : status[c] = "blocked"}
<1>1. woken \in SUBSET Pids /\ Kids(p) \in SUBSET Pids /\ C \in SUBSET Pids
  BY DEF Wakes, Kids, Live
<1>2. ready' \in Seq(Pids)
  <2>1. PICK t \in HurriedQueue(ready, Kids(p)), u \in SetToSeqs(woken) :
            ready' = t \o u
    BY DEF Death
  <2>2. t \in Seq(Pids)
    BY <1>1, HurriedQueueLists DEF TypeOK
  <2> HIDE DEF woken
  <2>3. IsFiniteSet(woken)
    BY <1>1, FinitePids, FS_Subset
  <2>4. u \in Seq(Pids)
    BY <1>1, <2>3, SetToSeqsLists, SeqMonotonic
  <2> QED BY <2>1, <2>2, <2>4, ConcatProperties
<1>3. downs' \in [Pids -> Seq(Downs)]
  <2>1. PICK d \in [Pids -> UNION {Orders(q) : q \in Pids}] :
            /\ \A q \in Pids : d[q] \in Orders(q)
            /\ downs' = [q \in Pids |-> IF q \in Live \ {p}
                                        THEN downs[q] \o d[q] ELSE <<>>]
    BY ONLY Death(p, how, why), Zenon DEF Death
  <2>2. ASSUME NEW q \in Pids
        PROVE  downs[q] \o d[q] \in Seq(Downs)
    <3> DEFINE E == {Down(w, why) : w \in Told(p, q)}
    <3>1. E \in SUBSET Downs /\ IsFiniteSet(E)
      BY ToldFinite
    <3>2. d[q] \in SetToSeqs(E)
      BY <2>1
    <3> HIDE DEF E
    <3>3. d[q] \in Seq(Downs)
      BY <3>1, <3>2, SetToSeqsLists, SeqMonotonic
    <3>4. downs[q] \in Seq(Downs)
      BY DEF TypeOK
    <3> QED BY <3>3, <3>4, ConcatProperties
  <2>3. <<>> \in Seq(Downs)
    BY EmptySeq
  <2> QED BY <2>1, <2>2, <2>3
<1>4. exit' \in [Pids -> ExitSigs]
  <2>1. NoExit \in ExitSigs
    BY SchedulerAssumption DEF ExitSigs, NoExit, ExitReasons
  <2>2. \A q \in Pids : exit[q] \in ExitSigs
    BY DEF TypeOK
  <2>3. \A q \in Pids : SignalExit(exit[q], "linked") \in ExitSigs
    BY <2>2, SignalExitType DEF ExitReasons
  <2>4. exit' = [q \in Pids |-> IF q = p THEN NoExit
                                ELSE IF q \in Kids(p)
                                THEN SignalExit(exit[q], "linked")
                                ELSE exit[q]]
    BY DEF Death
  <2> QED BY <2>1, <2>2, <2>3, <2>4
<1>5. /\ deadline' \in [Pids -> {"zero", "future", "past"}]
      /\ awaiting' \in [Pids -> Refs \cup {NoRef}]
      /\ timers' \in SUBSET Pids
  <2>1. ClearTimers(C)
    BY DEF Death
  <2> HIDE DEF C
  <2> QED BY <1>1, <2>1, ClearTimersType
<1>6. /\ status' \in [Pids -> {"unborn", "ready", "blocked", "done", "failed"}]
      /\ active' \in Pids \cup {NoPid} /\ reds' \in 0 .. Quantum
      /\ over' \in BOOLEAN
  <2>1. /\ LeaveCpu
        /\ status' = [q \in Pids |-> IF q = p THEN how
                                     ELSE IF q \in Kids(p) \cup woken THEN "ready"
                                     ELSE status[q]]
    BY DEF Death
  <2> HIDE DEF woken
  <2>2. status' \in [Pids -> {"unborn", "ready", "blocked", "done", "failed"}]
    BY <2>1 DEF TypeOK
  <2>3. active' \in Pids \cup {NoPid} /\ over' \in BOOLEAN
    BY <2>1 DEF LeaveCpu
  <2>4. reds' \in 0 .. Quantum
    BY <2>1, SchedulerAssumption DEF LeaveCpu
  <2> QED BY <2>2, <2>3, <2>4
<1>7. /\ pc' \in [Pids -> {"run", "recv", "after", "await"}]
      /\ aref' \in [Pids -> Refs \cup {NoRef}]
      /\ handlers' \in [Pids -> 0 .. MaxEnsure]
      /\ mailbox' \in [Pids -> Seq(Msgs)]
  <2>1. /\ mailbox' = [mailbox EXCEPT ![p] = <<>>]
        /\ pc' = [pc EXCEPT ![p] = "run"]
        /\ aref' = [aref EXCEPT ![p] = NoRef]
        /\ handlers' = [handlers EXCEPT ![p] = 0]
    BY DEF Death
  <2>2. <<>> \in Seq(Msgs)
    BY EmptySeq
  <2> QED BY <2>1, <2>2, SchedulerAssumption DEF TypeOK
<1>8. /\ watches' \subseteq [ref : Refs, watcher : Pids, target : Pids]
      /\ links' \subseteq Pids \X Pids
      /\ names' \in [Names -> Pids \cup {NoPid}]
  BY DEF Death, TypeOK, DropNames, DropWatches
<1>9. UNCHANGED <<slots, nextPid, nextRef, outcome>>
  BY DEF Death, idVars
<1> QED BY <1>2, <1>3, <1>4, <1>5, <1>6, <1>7, <1>8, <1>9 DEF TypeOK

\* The strengthening that makes TypeOK inductive: the running actor has a
\* reduction left, so that a step can pay for itself.
SliceOK == active # NoPid => reds > 0

TypeInv == TypeOK /\ SliceOK

LEMMA TypeInit == Init => TypeInv
<1> SUFFICES ASSUME Init PROVE TypeInv
  OBVIOUS
<1>1. Main \in Pids
  BY SchedulerAssumption DEF Main, Pids
<1>2. NoExit \in ExitSigs
  BY SchedulerAssumption DEF ExitSigs, NoExit, ExitReasons
<1>3. ready \in Seq(Pids) /\ status \in [Pids -> {"unborn", "ready"}]
  BY <1>1 DEF Init
<1>4. slots \in [Refs -> Slots]
  BY DEF Init, Slots
<1>5. /\ mailbox \in [Pids -> Seq(Msgs)]
      /\ downs \in [Pids -> Seq(Downs)]
  BY EmptySeq DEF Init
<1>6. /\ exit \in [Pids -> ExitSigs]
      /\ handlers \in [Pids -> 0 .. MaxEnsure]
      /\ reds \in 0 .. Quantum
      /\ nextPid \in 1 .. MaxActors
      /\ nextRef \in 0 .. MaxRefs
  BY <1>2, SchedulerAssumption DEF Init
<1>7. over \in BOOLEAN
  BY DEF Init
<1> QED BY <1>3, <1>4, <1>5, <1>6, <1>7 DEF Init, TypeInv, TypeOK, SliceOK

\* What Burn leaves.
LEMMA BurnType ==
    ASSUME TypeInv, NEW p \in Pids, active = p, Burn(p)
    PROVE  /\ active' \in Pids \cup {NoPid} /\ ready' \in Seq(Pids)
           /\ reds' \in 0 .. Quantum /\ over' \in BOOLEAN /\ SliceOK'
<1>1. reds \in 1 .. Quantum /\ reds' = reds - 1
  BY SchedulerAssumption DEF TypeInv, TypeOK, SliceOK, Burn, Pids, NoPid
<1>2. ready' \in Seq(Pids)
  <2>1. ready \in Seq(Pids)
    BY DEF TypeInv, TypeOK
  <2>2. Append(ready, p) \in Seq(Pids)
    BY <2>1, AppendLists
  <2> QED BY <2>1, <2>2 DEF Burn
<1>3. active' \in Pids \cup {NoPid}
  BY DEF Burn, TypeInv, TypeOK
<1>4. over' \in BOOLEAN
  BY DEF Burn
<1>5. SliceOK'
  BY <1>1 DEF Burn, SliceOK
<1> QED BY <1>1, <1>2, <1>3, <1>4, <1>5, SchedulerAssumption

\* The loop keeps the types.
LEMMA LoopType == ASSUME TypeInv, Loop \/ Idle PROVE TypeInv'
<1> USE DEF queueVars, cpuVars, bodyVars, boxVars, relVars, timeVars, idVars
<1>1. CASE Finish
  <2>1. outcome' \in {"done", "failed"}
    BY <1>1 DEF Finish, MainOver
  <2> QED BY <1>1, <2>1 DEF Finish, TypeInv, TypeOK, SliceOK
<1>2. CASE PickNext
  <2>1. active' \in Pids /\ ready' \in Seq(Pids)
    <3>1. ready \in Seq(Pids) /\ ready # <<>>
      BY <1>2 DEF PickNext, TypeInv, TypeOK
    <3> QED BY <1>2, <3>1, TailLists DEF PickNext
  <2>2. reds' \in 0 .. Quantum /\ reds' > 0
    BY <1>2, SchedulerAssumption DEF PickNext
  <2>3. over' \in BOOLEAN
    BY <1>2 DEF PickNext
  <2> QED BY <1>2, <2>1, <2>2, <2>3 DEF PickNext, TypeInv, TypeOK, SliceOK
<1>3. CASE WaitTimer
  <2> DEFINE due == {p \in timers : deadline[p] = "past"}
             woken == {p \in due : status[p] = "blocked"}
  <2>1. /\ timers' = timers \ due
        /\ ready' \in SetToSeqs(woken)
        /\ status' = [p \in Pids |-> IF p \in woken THEN "ready" ELSE status[p]]
    BY <1>3 DEF WaitTimer
  <2>2. woken \in SUBSET Pids
    BY DEF TypeInv, TypeOK
  <2> HIDE DEF woken
  <2>3. ready' \in Seq(Pids)
    BY <2>1, <2>2, FinitePids, FS_Subset, SetToSeqsLists, SeqMonotonic
  <2>4. status' \in [Pids -> {"unborn", "ready", "blocked", "done", "failed"}]
    BY <2>1 DEF TypeInv, TypeOK
  <2> QED BY <1>3, <2>1, <2>3, <2>4 DEF WaitTimer, TypeInv, TypeOK, SliceOK
<1>4. CASE WaitNothing
  BY <1>4 DEF WaitNothing, TypeInv, TypeOK, SliceOK
<1>5. CASE Idle
  BY <1>5 DEF Idle, vars, TypeInv, TypeOK, SliceOK
<1> QED BY <1>1, <1>2, <1>3, <1>4, <1>5 DEF Loop

\* A step that touches neither queue nor mail nor signals keeps the types.
LEMMA PlainType ==
    ASSUME TypeInv, NEW p \in Pids,
           \/ Tick(p) \/ PushEnsure(p) \/ PopEnsure(p)
           \/ \E q \in Pids : Link(p, q)
           \/ \E r \in Refs : Unwatch(p, r)
           \/ \E n \in Names : \/ Unregister(p, n)
                               \/ \E q \in Pids : Register(p, n, q)
    PROVE  TypeInv'
<1> USE DEF queueVars, cpuVars, bodyVars, boxVars, relVars, timeVars, idVars,
            TypeInv, TypeOK, SliceOK
<1>1. CASE Tick(p)
  BY <1>1 DEF Tick
<1>2. CASE PushEnsure(p)
  <2>1. handlers' \in [Pids -> 0 .. MaxEnsure]
    BY <1>2, SchedulerAssumption DEF PushEnsure
  <2> QED BY <1>2, <2>1 DEF PushEnsure
<1>3. CASE PopEnsure(p)
  <2>1. exit[p].depth \in 0 .. MaxEnsure
    BY DEF ExitSigs
  <2>2. handlers[p] \in 0 .. MaxEnsure /\ handlers[p] > 0
    BY <1>3, <2>1 DEF PopEnsure
  <2>3. handlers' \in [Pids -> 0 .. MaxEnsure]
    BY <1>3, <2>2, SchedulerAssumption DEF PopEnsure
  <2> QED BY <1>3, <2>3 DEF PopEnsure
<1>4. ASSUME NEW r \in Refs, Unwatch(p, r) PROVE TypeInv'
  BY <1>4 DEF Unwatch
<1>5. ASSUME NEW q \in Pids, Link(p, q) PROVE TypeInv'
  <2>1. links' \subseteq Pids \X Pids
    BY <1>5 DEF Link
  <2> QED BY <1>5, <2>1 DEF Link
<1>6. ASSUME NEW n \in Names, NEW q \in Pids, Register(p, n, q)
      PROVE  TypeInv'
  <2>1. names' \in [Names -> Pids \cup {NoPid}]
    BY <1>6 DEF Register
  <2> QED BY <1>6, <2>1 DEF Register
<1>7. ASSUME NEW n \in Names, Unregister(p, n) PROVE TypeInv'
  <2>1. names' \in [Names -> Pids \cup {NoPid}]
    BY <1>7 DEF Unregister
  <2> QED BY <1>7, <2>1 DEF Unregister
<1> QED BY <1>1, <1>2, <1>3, <1>4, <1>5, <1>6, <1>7

\* Calls, returns, errors and signals of the running actor keep the types.
LEMMA ControlType ==
    ASSUME TypeInv, NEW p \in Pids,
           \/ Call(p) \/ Charge(p) \/ Return(p) \/ Raise(p) \/ ExitStep(p)
           \/ EnsureEnd(p) \/ \E r \in Reasons : ExitSelf(p, r)
    PROVE  TypeInv'
<1> DEFINE V == <<queueVars, cpuVars, bodyVars, boxVars, relVars, timeVars,
                  idVars>>
<1>1. Reasons \subseteq ExitReasons /\ "budget" \in ExitReasons
      /\ "normal" \in ExitReasons /\ "raise" \in ExitReasons
  BY SchedulerAssumption DEF ExitReasons
<1>2. \A why \in ExitReasons :
          [exit EXCEPT ![p] = SignalExit(@, why)] \in [Pids -> ExitSigs]
  BY SignalExitType DEF TypeInv, TypeOK
<1>3. [exit EXCEPT ![p].unwinding = FALSE] \in [Pids -> ExitSigs]
  <2>1. exit \in [Pids -> ExitSigs] /\ 0 \in 0 .. MaxEnsure
    BY SchedulerAssumption DEF TypeInv, TypeOK
  <2> QED BY <2>1, UnwindType
<1>4. ASSUME NEW how \in {"done", "failed"}, NEW why \in ExitReasons,
             Death(p, how, why)
      PROVE  TypeInv'
  <2>1. active' = NoPid
    BY <1>4 DEF Death, LeaveCpu
  <2> QED BY <1>4, <2>1, DeathType DEF TypeInv, SliceOK
<1>5. CASE Call(p)
  <2>1. /\ active' \in Pids \cup {NoPid} /\ ready' \in Seq(Pids)
        /\ reds' \in 0 .. Quantum /\ over' \in BOOLEAN /\ SliceOK'
    BY <1>5, BurnType DEF Call, Runs, Executing
  <2>2. exit' \in [Pids -> ExitSigs]
    BY <1>1, <1>2, <1>5 DEF Call, TypeInv, TypeOK
  <2> QED BY <1>5, <2>1, <2>2 DEF Call, TypeInv, TypeOK, bodyVars, boxVars,
             relVars, timeVars, idVars
<1>6. CASE Charge(p)
  <2>1. exit' \in [Pids -> ExitSigs]
    BY <1>1, <1>2, <1>6 DEF Charge
  <2>2. over' \in BOOLEAN
    BY <1>6 DEF Charge
  <2> QED BY <1>6, <2>1, <2>2 DEF Charge, TypeInv, TypeOK, SliceOK, queueVars,
             bodyVars, boxVars, relVars, timeVars, idVars
<1>7. CASE Return(p)
  BY <1>1, <1>4, <1>7 DEF Return
<1>8. CASE Raise(p)
  <2>1. CASE exit[p].set
    <3>1. /\ exit' = [exit EXCEPT ![p].unwinding = FALSE]
          /\ over' = FALSE
          /\ UNCHANGED <<queueVars, active, reds, bodyVars, boxVars, relVars,
                         timeVars, slots, idVars, outcome>>
      BY <1>8, <2>1 DEF Raise
    <3>2. over' \in BOOLEAN
      BY <3>1
    <3> QED BY <1>3, <3>1, <3>2 DEF TypeInv, TypeOK, SliceOK, queueVars,
               bodyVars, boxVars, relVars, timeVars, idVars
  <2>2. CASE ~exit[p].set /\ handlers[p] > 0
    <3>1. /\ active = p /\ Burn(p)
          /\ handlers' = [handlers EXCEPT ![p] = @ - 1]
          /\ UNCHANGED <<status, pc, aref, boxVars, relVars, exit, timeVars,
                         slots, idVars, outcome>>
      BY <1>8, <2>2 DEF Raise, Runs, Executing
    <3>2. handlers' \in [Pids -> 0 .. MaxEnsure]
      BY <2>2, <3>1, SchedulerAssumption DEF TypeInv, TypeOK
    <3>3. /\ active' \in Pids \cup {NoPid} /\ ready' \in Seq(Pids)
          /\ reds' \in 0 .. Quantum /\ over' \in BOOLEAN /\ SliceOK'
      BY <3>1, BurnType
    <3> QED BY <3>1, <3>2, <3>3 DEF TypeInv, TypeOK, boxVars, relVars,
               timeVars, idVars
  <2>3. CASE ~exit[p].set /\ ~(handlers[p] > 0)
    <3>1. Death(p, "failed", "raise")
      BY <1>8, <2>3 DEF Raise
    <3> QED BY <1>1, <1>4, <3>1
  <2> QED BY <2>1, <2>2, <2>3
<1>9. CASE ExitStep(p)
  <2>1. CASE handlers[p] > 0 /\ ~exit[p].kill
    <3>0. handlers[p] # 0
      BY <2>1
    <3>1. /\ handlers' = [handlers EXCEPT ![p] = @ - 1]
          /\ exit' = [exit EXCEPT ![p].unwinding = TRUE,
                                  ![p].depth = handlers[p] - 1]
          /\ pc' = [pc EXCEPT ![p] = "run"]
          /\ aref' = [aref EXCEPT ![p] = NoRef]
          /\ UNCHANGED <<queueVars, cpuVars, boxVars, relVars, timeVars, slots,
                         idVars, outcome>>
      BY <1>9, <2>1, <3>0, Zenon DEF ExitStep
    <3>2. handlers[p] - 1 \in 0 .. MaxEnsure
      BY <2>1, SchedulerAssumption DEF TypeInv, TypeOK
    <3>3. handlers' \in [Pids -> 0 .. MaxEnsure]
      BY <3>1, <3>2 DEF TypeInv, TypeOK
    <3>4. exit' \in [Pids -> ExitSigs]
      BY <3>1, <3>2, UnwindType DEF TypeInv, TypeOK
    <3>5. /\ pc' \in [Pids -> {"run", "recv", "after", "await"}]
          /\ aref' \in [Pids -> Refs \cup {NoRef}]
      BY <3>1 DEF TypeInv, TypeOK
    <3> QED BY <3>1, <3>3, <3>4, <3>5 DEF TypeInv, TypeOK, SliceOK, queueVars,
               cpuVars, boxVars, relVars, timeVars, idVars
  <2>2. CASE ~(handlers[p] > 0 /\ ~exit[p].kill)
    <3>1. Death(p, "failed", exit[p].reason)
      BY <1>9, <2>2 DEF ExitStep
    <3>2. exit[p].reason \in ExitReasons
      BY DEF TypeInv, TypeOK, ExitSigs
    <3> QED BY <1>4, <3>1, <3>2
  <2> QED BY <2>1, <2>2
<1>10. CASE EnsureEnd(p)
  BY <1>3, <1>10 DEF EnsureEnd, TypeInv, TypeOK, SliceOK, queueVars, cpuVars,
     bodyVars, boxVars, relVars, timeVars, idVars
<1>11. ASSUME NEW r \in Reasons, ExitSelf(p, r) PROVE TypeInv'
  <2>1. exit' \in [Pids -> ExitSigs]
    BY <1>1, <1>2, <1>11 DEF ExitSelf
  <2>2. over' \in BOOLEAN
    BY <1>11 DEF ExitSelf
  <2> QED BY <1>11, <2>1, <2>2 DEF ExitSelf, TypeInv, TypeOK, SliceOK,
             queueVars, bodyVars, boxVars, relVars, timeVars, idVars
<1> QED BY <1>5, <1>6, <1>7, <1>8, <1>9, <1>10, <1>11

\* Spawning, mail, watches and exit keep the types.
LEMMA ActorOpType ==
    ASSUME TypeInv, NEW p \in Pids,
           \/ \E mode \in {"plain", "linked", "watched"} : Spawn(p, mode)
           \/ \E q \in Pids, m \in Msgs : Send(p, q, m)
           \/ \E q \in Pids : Watch(p, q)
           \/ \E q \in Pids, r \in Reasons : Exit(p, q, r)
    PROVE  TypeInv'
<1> USE DEF queueVars, cpuVars, bodyVars, boxVars, relVars, timeVars, idVars
<1>1. ready \in Seq(Pids)
  BY DEF TypeInv, TypeOK
<1>2. ASSUME NEW mode \in {"plain", "linked", "watched"}, Spawn(p, mode)
      PROVE  TypeInv'
  <2>1. nextPid \in Pids /\ nextPid' \in 1 .. MaxActors
    <3>1. nextPid < MaxActors /\ nextPid' = nextPid + 1
      BY <1>2 DEF Spawn
    <3> QED BY <3>1, SchedulerAssumption DEF TypeInv, TypeOK, Pids
  <2>2. ready' \in Seq(Pids)
    BY <1>1, <1>2, <2>1, AppendLists DEF Spawn
  <2>3. status' \in [Pids -> {"unborn", "ready", "blocked", "done", "failed"}]
    BY <1>2, <2>1 DEF Spawn, TypeInv, TypeOK
  <2>4. links' \subseteq Pids \X Pids
    BY <1>2, <2>1 DEF Spawn, TypeInv, TypeOK
  <2>5. nextRef' \in 0 .. MaxRefs
    BY <1>2, SchedulerAssumption DEF Spawn, TypeInv, TypeOK
  <2>6. watches' \subseteq [ref : Refs, watcher : Pids, target : Pids]
    <3>1. nextRef < MaxRefs => nextRef \in Refs
      BY SchedulerAssumption DEF TypeInv, TypeOK, Refs
    <3> QED BY <1>2, <2>1, <3>1 DEF Spawn, TypeInv, TypeOK
  <2> QED BY <1>2, <2>1, <2>2, <2>3, <2>4, <2>5, <2>6
          DEF Spawn, TypeInv, TypeOK, SliceOK
<1>3. ASSUME NEW q \in Pids, NEW m \in Msgs, Send(p, q, m)
      PROVE  TypeInv'
  <2>1. Append(ready, q) \in Seq(Pids) /\ Append(mailbox[q], m) \in Seq(Msgs)
    BY <1>1, AppendLists DEF TypeInv, TypeOK
  <2>2. ready' \in Seq(Pids)
    BY <1>1, <1>3, <2>1 DEF Send
  <2>3. mailbox' \in [Pids -> Seq(Msgs)]
    BY <1>3, <2>1 DEF Send, TypeInv, TypeOK
  <2>4. status' \in [Pids -> {"unborn", "ready", "blocked", "done", "failed"}]
    BY <1>3 DEF Send, TypeInv, TypeOK
  <2> QED BY <1>3, <2>2, <2>3, <2>4 DEF Send, TypeInv, TypeOK, SliceOK
<1>4. ASSUME NEW q \in Pids, Watch(p, q)
      PROVE  TypeInv'
  <2>1. nextRef \in Refs /\ nextRef' \in 0 .. MaxRefs
    BY <1>4, SchedulerAssumption DEF Watch, TypeInv, TypeOK, Refs
  <2>2. [ref |-> nextRef, reason |-> "noproc"] \in Downs
    BY <2>1 DEF Downs, DownReasons
  <2>3. Append(downs[p], [ref |-> nextRef, reason |-> "noproc"]) \in Seq(Downs)
    BY <2>2, AppendLists DEF TypeInv, TypeOK
  <2>4. downs' \in [Pids -> Seq(Downs)]
    <3> DEFINE d == Append(downs[p], [ref |-> nextRef, reason |-> "noproc"])
    <3>1. downs \in [Pids -> Seq(Downs)]
      BY DEF TypeInv, TypeOK
    <3>2. downs' = downs \/ downs' = [downs EXCEPT ![p] = d]
      BY <1>4 DEF Watch
    <3>3. d \in Seq(Downs)
      BY <2>3
    <3> HIDE DEF d
    <3> QED BY <3>1, <3>2, <3>3
  <2>5. watches' \subseteq [ref : Refs, watcher : Pids, target : Pids]
    BY <1>4, <2>1 DEF Watch, TypeInv, TypeOK
  <2> QED BY <1>4, <2>1, <2>4, <2>5 DEF Watch, TypeInv, TypeOK, SliceOK
<1>5. ASSUME NEW q \in Pids, NEW r \in Reasons, Exit(p, q, r)
      PROVE  TypeInv'
  <2>1. r \in ExitReasons
    BY SchedulerAssumption DEF ExitReasons
  <2>2. /\ exit' \in [Pids -> ExitSigs]
        /\ ready' \in Seq(Pids)
        /\ status' \in [Pids -> {"unborn", "ready", "blocked", "done",
                                 "failed"}]
        /\ deadline' \in [Pids -> {"zero", "future", "past"}]
        /\ awaiting' \in [Pids -> Refs \cup {NoRef}]
        /\ timers' \in SUBSET Pids
    BY <1>5, <2>1, ExitActorType DEF Exit, TypeInv
  <2> QED BY <1>5, <2>2 DEF Exit, TypeInv, TypeOK, SliceOK
<1> QED BY <1>2, <1>3, <1>4, <1>5

\* What AWAIT may change: the actor falls asleep, or closes the slot.
AwaitEffect(p, r) ==
    /\ \/ /\ \/ UNCHANGED timeVars
             \/ /\ deadline' = [deadline EXCEPT ![p] = "future"]
                /\ timers' = timers \cup {p}
                /\ awaiting' = [awaiting EXCEPT ![p] = r]
          /\ pc' = [pc EXCEPT ![p] = "await"]
          /\ aref' = [aref EXCEPT ![p] = r]
          /\ status' = [status EXCEPT ![p] = "blocked"]
          /\ LeaveCpu
          /\ UNCHANGED slots
       \/ /\ slots' = [slots EXCEPT ![r].state = "closed"]
          /\ ClearTimers({p}) \/ UNCHANGED timeVars
          /\ pc' = [pc EXCEPT ![p] = "run"]
          /\ aref' = [aref EXCEPT ![p] = NoRef]
          /\ UNCHANGED <<status, cpuVars>>
    /\ UNCHANGED <<ready, handlers, boxVars, relVars, exit, idVars,
                   outcome>>

LEMMA AwaitShape ==
    ASSUME NEW p \in Pids, NEW r \in Refs, NEW wait \in BOOLEAN,
           Await(p, r, wait)
    PROVE  AwaitEffect(p, r)
BY DEF Await, AwaitEffect, queueVars, cpuVars, bodyVars, boxVars, relVars,
   timeVars, idVars

\* recv, await and reply keep the types.
LEMMA WaitType ==
    ASSUME TypeInv, NEW p \in Pids,
           \/ RecvTimer(p) \/ RecvTake(p) \/ MakeRef(p)
           \/ \E r \in Refs, wait \in BOOLEAN : Await(p, r, wait)
           \/ \E q \in Pids, r \in Refs : Reply(p, q, r)
    PROVE  TypeInv'
<1> USE DEF queueVars, cpuVars, bodyVars, boxVars, relVars, timeVars, idVars
<1>1. ready \in Seq(Pids)
  BY DEF TypeInv, TypeOK
<1>2. \A q \in Pids : ClearTimers({q}) \/ UNCHANGED timeVars =>
          /\ deadline' \in [Pids -> {"zero", "future", "past"}]
          /\ awaiting' \in [Pids -> Refs \cup {NoRef}]
          /\ timers' \in SUBSET Pids
  <2> SUFFICES ASSUME NEW q \in Pids, ClearTimers({q}) \/ UNCHANGED timeVars
               PROVE  /\ deadline' \in [Pids -> {"zero", "future", "past"}]
                      /\ awaiting' \in [Pids -> Refs \cup {NoRef}]
                      /\ timers' \in SUBSET Pids
    OBVIOUS
  <2>1. {q} \in SUBSET Pids
    OBVIOUS
  <2> QED BY <2>1, ClearTimersType DEF TypeInv, TypeOK
<1>3. ASSUME LeaveCpu
      PROVE  /\ active' \in Pids \cup {NoPid} /\ reds' \in 0 .. Quantum
             /\ over' \in BOOLEAN /\ SliceOK'
  <2>1. over' \in BOOLEAN
    BY <1>3 DEF LeaveCpu
  <2> QED BY <1>3, <2>1, SchedulerAssumption DEF LeaveCpu, SliceOK
<1>4. CASE RecvTimer(p)
  BY <1>4 DEF RecvTimer, TypeInv, TypeOK, SliceOK
<1>5. CASE RecvTake(p)
  <2>1. /\ deadline' \in [Pids -> {"zero", "future", "past"}]
        /\ awaiting' \in [Pids -> Refs \cup {NoRef}]
        /\ timers' \in SUBSET Pids
    BY <1>2, <1>5 DEF RecvTake
  <2>2. /\ active' \in Pids \cup {NoPid} /\ reds' \in 0 .. Quantum
        /\ over' \in BOOLEAN /\ SliceOK'
    <3>1. LeaveCpu \/ UNCHANGED cpuVars
      BY <1>5 DEF RecvTake
    <3> QED BY <1>3, <3>1 DEF TypeInv, TypeOK, SliceOK
  <2>3. downs' \in [Pids -> Seq(Downs)]
    <3>1. downs' = downs \/ (downs[p] # <<>> /\ downs' = [downs EXCEPT ![p] = Tail(@)])
      BY <1>5 DEF RecvTake
    <3>2. downs[p] # <<>> => Tail(downs[p]) \in Seq(Downs)
      BY TailLists DEF TypeInv, TypeOK
    <3> QED BY <3>1, <3>2 DEF TypeInv, TypeOK
  <2>4. mailbox' \in [Pids -> Seq(Msgs)]
    <3>1. \/ mailbox' = mailbox
          \/ mailbox[p] # <<>> /\ mailbox' = [mailbox EXCEPT ![p] = Tail(@)]
      BY <1>5 DEF RecvTake
    <3>2. mailbox[p] # <<>> => Tail(mailbox[p]) \in Seq(Msgs)
      BY TailLists DEF TypeInv, TypeOK
    <3> QED BY <3>1, <3>2 DEF TypeInv, TypeOK
  <2>5. /\ status' \in [Pids -> {"unborn", "ready", "blocked", "done", "failed"}]
        /\ pc' \in [Pids -> {"run", "recv", "after", "await"}]
        /\ ready' = ready
    BY <1>5 DEF RecvTake, TypeInv, TypeOK
  <2> QED BY <1>5, <2>1, <2>2, <2>3, <2>4, <2>5
          DEF RecvTake, TypeInv, TypeOK
<1>6. CASE MakeRef(p)
  <2>1. nextRef \in Refs /\ nextRef' \in 0 .. MaxRefs
    BY <1>6, SchedulerAssumption DEF MakeRef, TypeInv, TypeOK, Refs
  <2>2. slots' \in [Refs -> Slots]
    BY <1>6 DEF MakeRef, TypeInv, TypeOK, Slots
  <2> QED BY <1>6, <2>1, <2>2 DEF MakeRef, TypeInv, TypeOK, SliceOK
<1>7. ASSUME NEW r \in Refs, AwaitEffect(p, r)
      PROVE  TypeInv'
  <2>1. /\ deadline' \in [Pids -> {"zero", "future", "past"}]
        /\ awaiting' \in [Pids -> Refs \cup {NoRef}]
        /\ timers' \in SUBSET Pids
    <3>1. CASE ClearTimers({p}) \/ UNCHANGED timeVars
      BY <1>2, <3>1
    <3>2. CASE /\ deadline' = [deadline EXCEPT ![p] = "future"]
               /\ timers' = timers \cup {p}
               /\ awaiting' = [awaiting EXCEPT ![p] = r]
      BY <3>2 DEF TypeInv, TypeOK
    <3> QED BY <1>7, <3>1, <3>2 DEF AwaitEffect
  <2>2. LeaveCpu \/ UNCHANGED cpuVars
    BY <1>7 DEF AwaitEffect
  <2>3. /\ active' \in Pids \cup {NoPid} /\ reds' \in 0 .. Quantum
        /\ over' \in BOOLEAN /\ SliceOK'
    BY <1>3, <2>2 DEF TypeInv, TypeOK, SliceOK
  <2>4. slots' \in [Refs -> Slots]
    <3>1. slots \in [Refs -> Slots]
      BY DEF TypeInv, TypeOK
    <3>2. CASE slots' = slots
      BY <3>1, <3>2
    <3>3. CASE slots' = [slots EXCEPT ![r].state = "closed"]
      BY <3>1, <3>3 DEF Slots
    <3> QED BY <1>7, <3>2, <3>3 DEF AwaitEffect
  <2>5. /\ status' \in [Pids -> {"unborn", "ready", "blocked", "done", "failed"}]
        /\ pc' \in [Pids -> {"run", "recv", "after", "await"}]
        /\ aref' \in [Pids -> Refs \cup {NoRef}]
    <3>1. CASE /\ pc' = [pc EXCEPT ![p] = "await"]
               /\ aref' = [aref EXCEPT ![p] = r]
               /\ status' = [status EXCEPT ![p] = "blocked"]
      BY <3>1 DEF TypeInv, TypeOK
    <3>2. CASE /\ pc' = [pc EXCEPT ![p] = "run"]
               /\ aref' = [aref EXCEPT ![p] = NoRef]
               /\ status' = status
      BY <3>2 DEF TypeInv, TypeOK
    <3> QED BY <1>7, <3>1, <3>2 DEF AwaitEffect
  <2> QED BY <1>7, <2>1, <2>3, <2>4, <2>5 DEF AwaitEffect, TypeInv, TypeOK
<1>8. ASSUME NEW q \in Pids, NEW r \in Refs, Reply(p, q, r)
      PROVE  TypeInv'
  <2>1. Append(ready, q) \in Seq(Pids)
    BY <1>1, AppendLists
  <2>2. /\ deadline' \in [Pids -> {"zero", "future", "past"}]
        /\ awaiting' \in [Pids -> Refs \cup {NoRef}]
        /\ timers' \in SUBSET Pids
    BY <1>2, <1>8 DEF Reply
  <2>3. slots' \in [Refs -> Slots]
    BY <1>8 DEF Reply, TypeInv, TypeOK, Slots
  <2>4. ready' \in Seq(Pids)
    BY <1>1, <1>8, <2>1 DEF Reply
  <2>5. status' \in [Pids -> {"unborn", "ready", "blocked", "done", "failed"}]
    BY <1>8 DEF Reply, TypeInv, TypeOK
  <2> QED BY <1>8, <2>2, <2>3, <2>4, <2>5 DEF Reply, TypeInv, TypeOK, SliceOK
<1> QED BY <1>4, <1>5, <1>6, <1>7, <1>8, AwaitShape

\* Every step keeps the types.
LEMMA TypeStep == TypeInv /\ [Next]_vars => TypeInv'
<1> SUFFICES ASSUME TypeInv, [Next]_vars PROVE TypeInv'
  OBVIOUS
<1>1. CASE Loop \/ Idle
  BY <1>1, LoopType
<1>2. ASSUME NEW p \in Pids, Tick(p) \/ Step(p) PROVE TypeInv'
  <2>1. CASE \/ Tick(p) \/ PushEnsure(p) \/ PopEnsure(p)
             \/ \E q \in Pids : Link(p, q)
             \/ \E r \in Refs : Unwatch(p, r)
             \/ \E n \in Names : \/ Unregister(p, n)
                                 \/ \E q \in Pids : Register(p, n, q)
    BY <2>1, PlainType
  <2>2. CASE \/ Call(p) \/ Charge(p) \/ Return(p) \/ Raise(p) \/ ExitStep(p)
             \/ EnsureEnd(p) \/ \E r \in Reasons : ExitSelf(p, r)
    BY <2>2, ControlType
  <2>3. CASE \/ \E mode \in {"plain", "linked", "watched"} : Spawn(p, mode)
             \/ \E q \in Pids, m \in Msgs : Send(p, q, m)
             \/ \E q \in Pids : Watch(p, q)
             \/ \E q \in Pids, r \in Reasons : Exit(p, q, r)
    BY <2>3, ActorOpType
  <2>4. CASE \/ RecvTimer(p) \/ RecvTake(p) \/ MakeRef(p)
             \/ \E r \in Refs, wait \in BOOLEAN : Await(p, r, wait)
             \/ \E q \in Pids, r \in Refs : Reply(p, q, r)
    BY <2>4, WaitType
  <2> QED BY <1>2, <2>1, <2>2, <2>3, <2>4 DEF Step
<1>3. CASE UNCHANGED vars
  BY <1>3 DEF vars, queueVars, cpuVars, bodyVars, boxVars, relVars, timeVars,
     idVars, TypeInv, TypeOK, SliceOK
<1> QED BY <1>1, <1>2, <1>3 DEF Next

\* Every variable keeps its type, whatever the number of actors, refs,
\* names and messages and whichever opcodes the actors use.
THEOREM TypeCorrect == Spec => []TypeOK
<1>1. TypeInv => TypeOK
  BY DEF TypeInv
<1> QED BY <1>1, TypeInit, TypeStep, PTL DEF Spec

(***************************************************************************)
(* The ready queue.                                                        *)
(***************************************************************************)

\* A pid is not in use before Spawn hands it out.
Unborn == \A p \in Pids : p >= nextPid => status[p] = "unborn"

ReadyInv == TypeInv /\ ReadyOnce /\ Unborn

\* Who is in the queue is ready; the running actor is ready and not in it.
LEMMA ReadyFacts ==
    ASSUME ReadyInv
    PROVE  /\ ready \in Seq(Pids) /\ IsInjective(ready)
           /\ \A x \in ToSet(ready) : x \in Pids /\ status[x] = "ready"
           /\ \A p \in Pids : active = p =>
                  status[p] = "ready" /\ p \notin ToSet(ready) /\ p \in Live
<1>1. NoPid \notin Pids
  BY DEF NoPid, Pids
<1> QED BY <1>1 DEF ReadyInv, TypeInv, TypeOK, ReadyOnce, Live

LEMMA ReadyInit == Init => ReadyInv
<1> SUFFICES ASSUME Init PROVE ReadyInv
  OBVIOUS
<1>1. Main \in Pids
  BY SchedulerAssumption DEF Main, Pids
<1>2. ready = <<Main>> /\ active = NoPid
  BY DEF Init
<1>3. IsInjective(ready) /\ ToSet(ready) = {Main}
  BY <1>2 DEF IsInjective, ToSet
<1>4. status = [p \in Pids |-> IF p = Main THEN "ready" ELSE "unborn"]
  BY DEF Init
<1>5. {p \in Pids : status[p] = "ready"} \ {active} = {Main}
  BY <1>1, <1>2, <1>4 DEF NoPid, Main
<1>6. Unborn
  BY <1>4, SchedulerAssumption DEF Init, Unborn, Pids, Main
<1> QED BY <1>2, <1>3, <1>5, <1>6, TypeInit DEF ReadyInv, ReadyOnce

\* A step of the running actor that moves nobody.
LEMMA QuietQueue ==
    ASSUME ReadyInv, UNCHANGED <<status, ready, active, nextPid>>
    PROVE  ReadyOnce' /\ Unborn'
BY DEF ReadyInv, ReadyOnce, Unborn

LEMMA BurnQueue ==
    ASSUME ReadyInv, NEW p \in Pids, active = p, Burn(p),
           UNCHANGED <<status, nextPid>>
    PROVE  ReadyOnce' /\ Unborn'
<1>1. status[p] = "ready" /\ p \notin ToSet(ready) /\ ready \in Seq(Pids)
  BY ReadyFacts
<1>2. CASE reds = 1
  <2>1. active' = NoPid /\ ready' = Append(ready, p)
    BY <1>2 DEF Burn
  <2>2. IsInjective(ready') /\ ToSet(ready') = ToSet(ready) \cup {p}
    BY <1>1, <2>1, AppendLists DEF ReadyInv, ReadyOnce
  <2>3. NoPid \notin Pids
    BY DEF NoPid, Pids
  <2>4. ToSet(ready') = {x \in Pids : status'[x] = "ready"} \ {active'}
    BY <1>1, <2>1, <2>2, <2>3 DEF ReadyInv, ReadyOnce
  <2> QED BY <2>1, <2>2, <2>4 DEF ReadyInv, ReadyOnce, Unborn
<1>3. CASE reds # 1
  BY <1>3, QuietQueue DEF Burn
<1> QED BY <1>2, <1>3

\* An actor that slept goes to the end of the queue.
LEMMA WakeQueue ==
    ASSUME ReadyInv, NEW q \in Pids, status[q] = "blocked",
           status' = [status EXCEPT ![q] = "ready"],
           ready' = Append(ready, q), UNCHANGED <<active, nextPid>>
    PROVE  ReadyOnce' /\ Unborn'
<1>1. q \notin ToSet(ready) /\ ready \in Seq(Pids) /\ q # active
  BY ReadyFacts
<1>2. IsInjective(ready') /\ ToSet(ready') = ToSet(ready) \cup {q}
  BY <1>1, AppendLists DEF ReadyInv, ReadyOnce
<1>3. \A x \in Pids : status'[x] = IF x = q THEN "ready" ELSE status[x]
  BY DEF ReadyInv, TypeInv, TypeOK
<1>4. ToSet(ready') = {x \in Pids : status'[x] = "ready"} \ {active'}
  BY <1>1, <1>2, <1>3 DEF ReadyInv, ReadyOnce
<1>5. active' # NoPid => status'[active'] = "ready"
  BY <1>3 DEF ReadyInv, ReadyOnce, TypeInv, TypeOK
<1>6. Unborn'
  BY <1>3 DEF ReadyInv, Unborn
<1> QED BY <1>2, <1>4, <1>5, <1>6 DEF ReadyOnce

\* The running actor falls asleep.
LEMMA SleepQueue ==
    ASSUME ReadyInv, NEW p \in Pids, active = p, LeaveCpu,
           status' = [status EXCEPT ![p] = "blocked"],
           UNCHANGED <<ready, nextPid>>
    PROVE  ReadyOnce' /\ Unborn'
<1>1. status[p] = "ready" /\ active' = NoPid /\ NoPid \notin Pids
  BY ReadyFacts DEF LeaveCpu, NoPid, Pids
<1>2. \A x \in Pids : status'[x] = IF x = p THEN "blocked" ELSE status[x]
  BY DEF ReadyInv, TypeInv, TypeOK
<1>3. ToSet(ready') = {x \in Pids : status'[x] = "ready"} \ {active'}
  BY <1>1, <1>2 DEF ReadyInv, ReadyOnce
<1>4. Unborn'
  BY <1>1, <1>2 DEF ReadyInv, Unborn
<1> QED BY <1>1, <1>3, <1>4 DEF ReadyInv, ReadyOnce

\* hurry and wakeIfBlocked: victims to the front, sleepers to the end, each
\* of them once.
LEMMA HurryQueue ==
    ASSUME ReadyInv, NEW K \in SUBSET Live, NEW W \in SUBSET Live,
           \A x \in W : status[x] = "blocked" /\ x \notin K,
           active \notin K, NEW t \in HurriedQueue(ready, K),
           NEW u \in SetToSeqs(W)
    PROVE  /\ IsInjective(t \o u)
           /\ ToSet(t \o u) = ToSet(ready) \cup K \cup W
<1>1. /\ ready \in Seq(Pids)
      /\ \A x \in ToSet(ready) : x \in Pids /\ status[x] = "ready"
  BY ReadyFacts
<1>2. K \in SUBSET Pids /\ W \in SUBSET Pids
  BY DEF Live
<1>3. t \in Seq(Pids) /\ ToSet(t) = ToSet(ready) \cup K /\ IsInjective(t)
  BY <1>1, <1>2, HurriedQueueLists
<1>4. u \in Seq(W) /\ ToSet(u) = W /\ IsInjective(u)
  BY <1>2, FinitePids, FS_Subset, SetToSeqsLists
<1>5. u \in Seq(Pids)
  BY <1>2, <1>4, SeqMonotonic
<1>6. ToSet(t) \cap ToSet(u) = {}
  BY <1>1, <1>3, <1>4
<1> QED BY <1>3, <1>4, <1>5, <1>6, ConcatLists

\* The death of the running actor.
LEMMA DeathQueue ==
    ASSUME ReadyInv, NEW p \in Pids, active = p, NEW how \in {"done", "failed"},
           NEW why, Death(p, how, why)
    PROVE  ReadyOnce' /\ Unborn'
<1> DEFINE K == Kids(p)
           W == Wakes({q \in Live \ (Kids(p) \cup {p}) : Told(p, q) # {}})
<1>1. /\ status' = [q \in Pids |-> IF q = p THEN how
                                   ELSE IF q \in K \cup W THEN "ready"
                                   ELSE status[q]]
      /\ \E t \in HurriedQueue(ready, K), u \in SetToSeqs(W) : ready' = t \o u
      /\ active' = NoPid /\ nextPid' = nextPid
  BY DEF Death, LeaveCpu, idVars
<1>2. /\ K \in SUBSET Live /\ W \in SUBSET Live /\ p \notin K \cup W
      /\ \A x \in W : status[x] = "blocked" /\ x \notin K
  BY DEF Kids, Wakes
<1> HIDE DEF K, W
<1>3. IsInjective(ready') /\ ToSet(ready') = ToSet(ready) \cup K \cup W
  BY <1>1, <1>2, HurryQueue
<1>4. /\ status[p] = "ready" /\ p \notin ToSet(ready)
      /\ ToSet(ready) = {x \in Pids : status[x] = "ready"} \ {p}
      /\ NoPid \notin Pids
  BY ReadyFacts DEF ReadyInv, ReadyOnce, NoPid, Pids
<1>5. K \in SUBSET Pids /\ W \in SUBSET Pids
  BY <1>2 DEF Live
<1>6. ToSet(ready') = {x \in Pids : status'[x] = "ready"} \ {active'}
  BY <1>1, <1>2, <1>3, <1>4, <1>5
<1>7. Unborn'
  <2>1. ASSUME NEW q \in Pids, q >= nextPid
        PROVE  status[q] = "unborn" /\ q \notin Live
    BY <2>1 DEF ReadyInv, Unborn, Live
  <2> QED BY <1>1, <1>2, <1>4, <2>1 DEF Unborn
<1> QED BY <1>1, <1>3, <1>6, <1>7 DEF ReadyOnce

\* exit of another actor by the running one.
LEMMA ExitQueue ==
    ASSUME ReadyInv, NEW p \in Pids, active = p, NEW q \in Pids \ {p}, NEW r,
           ExitActor(q, r), UNCHANGED <<active, nextPid>>
    PROVE  ReadyOnce' /\ Unborn'
<1>1. CASE UNCHANGED queueVars
  BY <1>1, QuietQueue DEF queueVars
<1>2. CASE ~UNCHANGED queueVars
  <2>1. /\ q \in Live
        /\ ready' \in HurriedQueue(ready, {q})
        /\ status' = [status EXCEPT ![q] = "ready"]
    BY <1>2 DEF ExitActor
  <2>2. ready \in Seq(Pids) /\ q # active /\ status[p] = "ready"
    BY ReadyFacts
  <2>3. IsInjective(ready') /\ ToSet(ready') = ToSet(ready) \cup {q}
    BY <2>1, <2>2, HurriedQueueLists
  <2>4. \A x \in Pids : status'[x] = IF x = q THEN "ready" ELSE status[x]
    BY <2>1 DEF ReadyInv, TypeInv, TypeOK
  <2>5. ToSet(ready') = {x \in Pids : status'[x] = "ready"} \ {active'}
    BY <2>2, <2>3, <2>4 DEF ReadyInv, ReadyOnce
  <2>6. Unborn'
    BY <2>1, <2>4 DEF ReadyInv, Unborn, Live
  <2> QED BY <2>2, <2>3, <2>4, <2>5, <2>6 DEF ReadyOnce
<1> QED BY <1>1, <1>2

\* The loop of runMain.
LEMMA LoopQueue == ASSUME ReadyInv, Loop \/ Idle PROVE ReadyOnce' /\ Unborn'
<1>1. CASE PickNext
  <2>1. /\ active = NoPid /\ NoPid \notin Pids /\ ready # <<>>
        /\ active' = Head(ready) /\ ready' = Tail(ready)
        /\ status' = status /\ nextPid' = nextPid
    BY <1>1 DEF PickNext, AtLoopHead, idVars, NoPid, Pids
  <2>2. /\ ready \in Seq(Pids) /\ IsInjective(ready)
        /\ \A x \in ToSet(ready) : x \in Pids /\ status[x] = "ready"
    BY ReadyFacts
  <2>3. /\ Head(ready) \in ToSet(ready)
        /\ IsInjective(ready') /\ ToSet(ready') = ToSet(ready) \ {active'}
    BY <2>1, <2>2, TailLists
  <2>4. ToSet(ready) = {x \in Pids : status[x] = "ready"}
    BY <2>1 DEF ReadyInv, ReadyOnce
  <2> QED BY <2>1, <2>2, <2>3, <2>4 DEF ReadyInv, ReadyOnce, Unborn
<1>2. CASE WaitTimer
  <2> DEFINE due == {p \in timers : deadline[p] = "past"}
             woken == {p \in due : status[p] = "blocked"}
  <2>1. /\ ready' \in SetToSeqs(woken)
        /\ status' = [p \in Pids |-> IF p \in woken THEN "ready" ELSE status[p]]
        /\ ready = <<>> /\ active = NoPid /\ active' = active
        /\ nextPid' = nextPid
    BY <1>2 DEF WaitTimer, AtLoopHead, idVars, cpuVars
  <2>2. woken \in SUBSET Pids /\ \A p \in woken : status[p] = "blocked"
    BY DEF ReadyInv, TypeInv, TypeOK
  <2> HIDE DEF woken
  <2>3. IsInjective(ready') /\ ToSet(ready') = woken
    BY <2>1, <2>2, FinitePids, FS_Subset, SetToSeqsLists
  <2>4. {x \in Pids : status[x] = "ready"} = {}
    <3>1. ToSet(<<>>) = {}
      BY DEF ToSet
    <3>2. NoPid \notin Pids
      BY DEF NoPid, Pids
    <3> QED BY <2>1, <3>1, <3>2 DEF ReadyInv, ReadyOnce
  <2>5. ToSet(ready') = {x \in Pids : status'[x] = "ready"} \ {active'}
    <3>1. NoPid \notin Pids
      BY DEF NoPid, Pids
    <3>2. \A x \in Pids :
              status'[x] = IF x \in woken THEN "ready" ELSE status[x]
      BY <2>1
    <3> QED BY <2>1, <2>2, <2>3, <2>4, <3>1, <3>2
  <2>6. Unborn'
    BY <2>1, <2>2 DEF ReadyInv, Unborn
  <2> QED BY <2>1, <2>3, <2>5, <2>6 DEF ReadyOnce
<1>3. CASE Finish \/ WaitNothing \/ Idle
  BY <1>3, QuietQueue DEF Finish, WaitNothing, Idle, vars, queueVars, cpuVars,
     idVars
<1> QED BY <1>1, <1>2, <1>3 DEF Loop

\* The running actor's own steps.
LEMMA StepQueue ==
    ASSUME ReadyInv, NEW p \in Pids, Tick(p) \/ Step(p)
    PROVE  ReadyOnce' /\ Unborn'
<1> USE DEF queueVars, cpuVars, idVars
<1>1. ASSUME Call(p)
      PROVE  ReadyOnce' /\ Unborn'
  BY <1>1, BurnQueue DEF Call, Runs, Executing
<1>2. ASSUME NEW why, NEW how \in {"done", "failed"}, active = p,
             Death(p, how, why)
      PROVE  ReadyOnce' /\ Unborn'
  BY <1>2, DeathQueue
<1>3. CASE Return(p)
  BY <1>2, <1>3 DEF Return, Runs, Executing
<1>4. CASE Raise(p)
  <2>1. active = p
    BY <1>4 DEF Raise, Runs, Executing
  <2>2. \/ UNCHANGED <<status, ready, active, nextPid>>
        \/ Burn(p) /\ UNCHANGED <<status, nextPid>>
        \/ Death(p, "failed", "raise")
    BY <1>4 DEF Raise
  <2> QED BY <1>2, <2>1, <2>2, BurnQueue, QuietQueue
<1>5. CASE ExitStep(p)
  <2>1. active = p
    BY <1>5 DEF ExitStep
  <2>2. \/ UNCHANGED <<status, ready, active, nextPid>>
        \/ Death(p, "failed", exit[p].reason)
    BY <1>5 DEF ExitStep
  <2> QED BY <1>2, <2>1, <2>2, QuietQueue
<1>6. CASE \/ Tick(p) \/ Charge(p) \/ PushEnsure(p) \/ PopEnsure(p)
           \/ EnsureEnd(p) \/ RecvTimer(p) \/ MakeRef(p)
  BY <1>6, QuietQueue DEF Tick, Charge, PushEnsure, PopEnsure, EnsureEnd,
     RecvTimer, MakeRef
<1>7. CASE \/ \E q \in Pids : Watch(p, q) \/ Link(p, q)
           \/ \E r \in Refs : Unwatch(p, r)
           \/ \E r \in Reasons : ExitSelf(p, r)
           \/ \E n \in Names : \/ Unregister(p, n)
                               \/ \E q \in Pids : Register(p, n, q)
  BY <1>7, QuietQueue DEF Watch, Link, Unwatch, ExitSelf, Unregister, Register
<1>8. CASE RecvTake(p)
  <2>1. active = p
    BY <1>8 DEF RecvTake, Runs, Executing
  <2>2. \/ UNCHANGED <<status, ready, active, nextPid>>
        \/ /\ LeaveCpu /\ status' = [status EXCEPT ![p] = "blocked"]
           /\ UNCHANGED <<ready, nextPid>>
    BY <1>8 DEF RecvTake
  <2> QED BY <2>1, <2>2, QuietQueue, SleepQueue
<1>9. ASSUME NEW r \in Refs, NEW wait \in BOOLEAN, Await(p, r, wait)
      PROVE  ReadyOnce' /\ Unborn'
  <2>1. active = p
    BY <1>9 DEF Await, Runs, Executing
  <2>2. AwaitEffect(p, r)
    BY <1>9, AwaitShape
  <2>3. \/ UNCHANGED <<status, ready, active, nextPid>>
        \/ /\ LeaveCpu /\ status' = [status EXCEPT ![p] = "blocked"]
           /\ UNCHANGED <<ready, nextPid>>
    BY <2>2 DEF AwaitEffect
  <2> QED BY <2>1, <2>3, QuietQueue, SleepQueue
<1>10. ASSUME NEW mode \in {"plain", "linked", "watched"}, Spawn(p, mode)
       PROVE  ReadyOnce' /\ Unborn'
  <2>1. /\ active = p /\ active' = active
        /\ nextPid < MaxActors /\ nextPid' = nextPid + 1
        /\ status' = [status EXCEPT ![nextPid] = "ready"]
        /\ ready' = Append(ready, nextPid)
    BY <1>10 DEF Spawn, Runs, Executing
  <2>2. nextPid \in Pids
    BY <2>1, SchedulerAssumption DEF ReadyInv, TypeInv, TypeOK, Pids
  <2>3. status[nextPid] = "unborn" /\ status[p] = "ready"
    BY <2>1, <2>2, ReadyFacts DEF ReadyInv, Unborn, Pids
  <2>4. nextPid \notin ToSet(ready) /\ ready \in Seq(Pids)
    BY <2>3, ReadyFacts
  <2>5. IsInjective(ready') /\ ToSet(ready') = ToSet(ready) \cup {nextPid}
    BY <2>1, <2>2, <2>4, AppendLists DEF ReadyInv, ReadyOnce
  <2>6. \A x \in Pids : status'[x] = IF x = nextPid THEN "ready" ELSE status[x]
    BY <2>1, <2>2 DEF ReadyInv, TypeInv, TypeOK
  <2>7. ToSet(ready') = {x \in Pids : status'[x] = "ready"} \ {active'}
    BY <2>1, <2>2, <2>3, <2>5, <2>6 DEF ReadyInv, ReadyOnce
  <2>8. Unborn'
    <3>1. nextPid \in Nat
      BY SchedulerAssumption DEF ReadyInv, TypeInv, TypeOK
    <3> QED BY <2>1, <2>6, <3>1 DEF ReadyInv, Unborn, Pids
  <2> QED BY <2>1, <2>3, <2>5, <2>6, <2>7, <2>8 DEF ReadyOnce
<1>11. ASSUME NEW q \in Pids, NEW m \in Msgs, Send(p, q, m)
       PROVE  ReadyOnce' /\ Unborn'
  <2>1. CASE UNCHANGED <<status, ready>>
    BY <1>11, <2>1, QuietQueue DEF Send
  <2>2. CASE ~UNCHANGED <<status, ready>>
    <3>1. /\ status' = [x \in Pids |-> IF x \in Wakes({q}) THEN "ready"
                                       ELSE status[x]]
          /\ ready' = IF Wakes({q}) # {} THEN Append(ready, q) ELSE ready
          /\ UNCHANGED <<active, nextPid>>
      BY <1>11, <2>2 DEF Send
    <3>2. CASE Wakes({q}) = {}
      <4>1. status' = status
        BY <3>1, <3>2 DEF ReadyInv, TypeInv, TypeOK
      <4> QED BY <2>2, <3>1, <3>2, <4>1
    <3>3. CASE Wakes({q}) # {}
      <4>1. status[q] = "blocked" /\ Wakes({q}) = {q}
        BY <3>3 DEF Wakes
      <4>2. status' = [status EXCEPT ![q] = "ready"]
        BY <3>1, <4>1 DEF ReadyInv, TypeInv, TypeOK
      <4> QED BY <3>1, <3>3, <4>1, <4>2, WakeQueue
    <3> QED BY <3>2, <3>3
  <2> QED BY <2>1, <2>2
<1>12. ASSUME NEW q \in Pids, NEW r \in Reasons, Exit(p, q, r)
       PROVE  ReadyOnce' /\ Unborn'
  BY <1>12, ExitQueue DEF Exit, Runs, Executing
<1>13. ASSUME NEW q \in Pids, NEW r \in Refs, Reply(p, q, r)
       PROVE  ReadyOnce' /\ Unborn'
  <2>1. CASE AnswerWakes(q, r)
    <3>1. /\ status[q] = "blocked"
          /\ status' = [status EXCEPT ![q] = "ready"]
          /\ ready' = Append(ready, q) /\ UNCHANGED <<active, nextPid>>
      BY <1>13, <2>1 DEF Reply, AnswerWakes
    <3> QED BY <3>1, WakeQueue
  <2>2. CASE ~AnswerWakes(q, r)
    BY <1>13, <2>2, QuietQueue DEF Reply
  <2> QED BY <2>1, <2>2
<1> QED BY <1>1, <1>3, <1>4, <1>5, <1>6, <1>7, <1>8, <1>9, <1>10, <1>11,
        <1>12, <1>13 DEF Step

LEMMA ReadyStep == ReadyInv /\ [Next]_vars => ReadyInv'
<1> SUFFICES ASSUME ReadyInv, [Next]_vars PROVE ReadyInv'
  OBVIOUS
<1>1. TypeInv'
  BY TypeStep DEF ReadyInv
<1>2. ReadyOnce' /\ Unborn'
  <2>1. CASE Next
    BY <2>1, LoopQueue, StepQueue DEF Next
  <2>2. CASE UNCHANGED vars
    BY <2>2, QuietQueue DEF vars, queueVars, cpuVars, idVars
  <2> QED BY <2>1, <2>2
<1> QED BY <1>1, <1>2 DEF ReadyInv

\* The ready queue holds every runnable actor but the running one, once:
\* no order of wakeups queues an actor twice or strands it.
THEOREM QueueCorrect == Spec => []ReadyOnce
<1>1. ReadyInv => ReadyOnce
  BY DEF ReadyInv
<1> QED BY <1>1, ReadyInit, ReadyStep, PTL DEF Spec

(***************************************************************************)
(* Wakeups.                                                                *)
(***************************************************************************)

WakeInv == ReadyInv /\ NoLostWakeup

\* Enough for one actor: it is not asleep in a recv after the step, or it
\* was before and nothing came.
LEMMA WakeQuiet ==
    ASSUME NoLostWakeup,
           \A x \in Pids :
               \/ status'[x] # "blocked"
               \/ awaiting'[x] # NoRef
               \/ mailbox'[x] = <<>> /\ downs'[x] = <<>>
               \/ /\ status[x] = "blocked" /\ awaiting[x] = NoRef
                  /\ mailbox'[x] = mailbox[x] /\ downs'[x] = downs[x]
    PROVE  NoLostWakeup'
BY DEF NoLostWakeup

\* A step that brings no mail and puts nobody to sleep.
LEMMA WakeSame ==
    ASSUME NoLostWakeup, UNCHANGED <<status, awaiting, mailbox, downs>>
    PROVE  NoLostWakeup'
BY DEF NoLostWakeup

\* A down wakes the watcher that sleeps in a recv.
LEMMA WakeDeath ==
    ASSUME WakeInv, NEW p \in Pids, NEW how \in {"done", "failed"}, NEW why,
           Death(p, how, why)
    PROVE  NoLostWakeup'
<1> DEFINE K == Kids(p)
           W == Wakes({q \in Live \ (Kids(p) \cup {p}) : Told(p, q) # {}})
           C == {p} \cup {c \in K : status[c] = "blocked"}
           Orders(q) == SetToSeqs({Down(w, why) : w \in Told(p, q)})
<1>1. /\ status' = [q \in Pids |-> IF q = p THEN how
                                   ELSE IF q \in K \cup W THEN "ready"
                                   ELSE status[q]]
      /\ awaiting' = [q \in Pids |-> IF q \in C THEN NoRef ELSE awaiting[q]]
      /\ mailbox' = [mailbox EXCEPT ![p] = <<>>]
  BY DEF Death, ClearTimers
<1>2. PICK d \in [Pids -> UNION {Orders(q) : q \in Pids}] :
          /\ \A q \in Pids : d[q] \in Orders(q)
          /\ downs' = [q \in Pids |-> IF q \in Live \ {p}
                                      THEN downs[q] \o d[q] ELSE <<>>]
  BY ONLY Death(p, how, why), Zenon DEF Death
<1>3. SUFFICES ASSUME NEW x \in Pids, status'[x] = "blocked",
                      awaiting'[x] = NoRef
               PROVE  mailbox'[x] = <<>> /\ downs'[x] = <<>>
  BY DEF NoLostWakeup
<1>4. /\ x # p /\ x \notin K /\ x \notin W /\ status[x] = "blocked"
      /\ x \notin C /\ awaiting[x] = NoRef /\ x \in Live
  <2> HIDE DEF K, W
  <2> QED BY <1>1, <1>3 DEF Live
<1>5. mailbox[x] = <<>> /\ downs[x] = <<>>
  BY <1>4 DEF WakeInv, NoLostWakeup
<1>6. mailbox'[x] = <<>>
  BY <1>1, <1>4, <1>5 DEF WakeInv, ReadyInv, TypeInv, TypeOK
<1>7. Told(p, x) = {}
  BY <1>4 DEF Wakes
<1>8. d[x] = <<>>
  <2>1. {Down(w, why) : w \in Told(p, x)} = {}
    BY <1>7
  <2>2. d[x] \in SetToSeqs({})
    BY <1>2, <2>1
  <2>3. d[x] \in Seq({})
    BY <2>2, FS_EmptySet, SetToSeqsLists
  <2> QED BY <2>3
<1>9. downs'[x] = <<>>
  <2>1. downs'[x] = downs[x] \o d[x]
    BY <1>2, <1>4
  <2> QED BY <1>5, <1>8, <2>1
<1> QED BY <1>6, <1>9

LEMMA WakeStep == WakeInv /\ [Next]_vars => WakeInv'
<1> SUFFICES ASSUME WakeInv, [Next]_vars PROVE WakeInv'
  OBVIOUS
<1> USE DEF queueVars, boxVars, timeVars
<1>1. SUFFICES NoLostWakeup'
  BY ReadyStep DEF WakeInv
<1>2. /\ NoLostWakeup /\ NoRef \notin Refs
      /\ status \in [Pids -> {"unborn", "ready", "blocked", "done", "failed"}]
      /\ awaiting \in [Pids -> Refs \cup {NoRef}]
      /\ mailbox \in [Pids -> Seq(Msgs)]
      /\ downs \in [Pids -> Seq(Downs)]
  BY DEF WakeInv, ReadyInv, TypeInv, TypeOK, NoRef, Refs
<1>3. CASE UNCHANGED vars
  BY <1>2, <1>3, WakeSame DEF vars
<1>4. CASE Finish \/ PickNext \/ WaitNothing \/ Idle
  BY <1>2, <1>4, WakeSame DEF Finish, PickNext, WaitNothing, Idle, vars
<1>5. CASE WaitTimer
  <2>1. \A x \in Pids : status'[x] = "blocked" => status[x] = "blocked"
    BY <1>2, <1>5 DEF WaitTimer
  <2>2. UNCHANGED <<awaiting, mailbox, downs>>
    BY <1>5 DEF WaitTimer
  <2> QED BY <1>2, <2>1, <2>2, WakeQuiet
<1>6. ASSUME NEW p \in Pids, Tick(p) \/ Step(p) PROVE NoLostWakeup'
  <2>1. CASE \/ Tick(p) \/ Call(p) \/ Charge(p) \/ PushEnsure(p)
             \/ PopEnsure(p) \/ EnsureEnd(p) \/ RecvTimer(p) \/ MakeRef(p)
    BY <1>2, <2>1, WakeSame DEF Tick, Call, Charge, PushEnsure, PopEnsure,
       EnsureEnd, RecvTimer, MakeRef
  <2>2. CASE \/ \E q \in Pids : Link(p, q)
             \/ \E r \in Refs : Unwatch(p, r)
             \/ \E r \in Reasons : ExitSelf(p, r)
             \/ \E n \in Names : \/ Unregister(p, n)
                                 \/ \E q \in Pids : Register(p, n, q)
    BY <1>2, <2>2, WakeSame DEF Link, Unwatch, ExitSelf, Unregister, Register
  <2>3. CASE Return(p) \/ Raise(p) \/ ExitStep(p)
    <3>1. \/ Death(p, "done", "normal")
          \/ Death(p, "failed", "raise")
          \/ Death(p, "failed", exit[p].reason)
          \/ UNCHANGED <<status, awaiting, mailbox, downs>>
      BY <2>3 DEF Return, Raise, ExitStep
    <3> QED BY <1>2, <3>1, WakeDeath, WakeSame
  <2>4. ASSUME NEW mode \in {"plain", "linked", "watched"}, Spawn(p, mode)
        PROVE  NoLostWakeup'
    <3>1. /\ status' = [status EXCEPT ![nextPid] = "ready"]
          /\ UNCHANGED <<awaiting, mailbox, downs>>
      BY <2>4 DEF Spawn
    <3>2. \A x \in Pids : status'[x] = "blocked" => status[x] = "blocked"
      BY <1>2, <3>1
    <3> QED BY <1>2, <3>1, <3>2, WakeQuiet
  <2>5. ASSUME NEW q \in Pids, NEW m \in Msgs, Send(p, q, m)
        PROVE  NoLostWakeup'
    <3>1. CASE q \in Live /\ Len(mailbox[q]) < HWM
      <4>1. /\ mailbox' = [mailbox EXCEPT ![q] = Append(@, m)]
            /\ status' = [x \in Pids |-> IF x \in Wakes({q}) THEN "ready"
                                         ELSE status[x]]
            /\ UNCHANGED <<awaiting, downs>>
        BY <2>5, <3>1 DEF Send
      <4>2. \A x \in Pids : x # q =>
                status'[x] = status[x] /\ mailbox'[x] = mailbox[x]
        BY <1>2, <4>1 DEF Wakes
      <4>3. status'[q] # "blocked" \/ awaiting'[q] # NoRef
        BY <1>2, <4>1 DEF Wakes
      <4> QED BY <1>2, <4>1, <4>2, <4>3, WakeQuiet
    <3>2. CASE ~(q \in Live /\ Len(mailbox[q]) < HWM)
      BY <1>2, <2>5, <3>2, WakeSame DEF Send
    <3> QED BY <3>1, <3>2
  <2>6. ASSUME NEW q \in Pids, Watch(p, q)
        PROVE  NoLostWakeup'
    <3>1. status[p] = "ready"
      BY <2>6, ReadyFacts DEF Watch, Runs, Executing, WakeInv
    <3>2. /\ UNCHANGED <<status, awaiting, mailbox>>
          /\ \A x \in Pids : x # p => downs'[x] = downs[x]
      BY <1>2, <2>6 DEF Watch
    <3> QED BY <1>2, <3>1, <3>2, WakeQuiet
  <2>7. ASSUME NEW q \in Pids, NEW r \in Reasons, Exit(p, q, r)
        PROVE  NoLostWakeup'
    <3>1. UNCHANGED <<mailbox, downs>>
      BY <2>7 DEF Exit
    <3>2. CASE UNCHANGED <<status, awaiting>>
      BY <1>2, <3>1, <3>2, WakeSame
    <3>3. CASE ~UNCHANGED <<status, awaiting>>
      <4>1. /\ status' = [status EXCEPT ![q] = "ready"]
            /\ awaiting' = [x \in Pids |->
                   IF x \in {q} \ {y \in Pids : status[y] = "ready"}
                   THEN NoRef ELSE awaiting[x]]
        BY <2>7, <3>3 DEF Exit, ExitActor, ClearTimers
      <4>2. \A x \in Pids : x # q =>
                status'[x] = status[x] /\ awaiting'[x] = awaiting[x]
        BY <1>2, <4>1
      <4>3. status'[q] # "blocked"
        BY <1>2, <4>1
      <4> QED BY <1>2, <3>1, <4>2, <4>3, WakeQuiet
    <3> QED BY <3>2, <3>3
  <2>8. CASE RecvTake(p)
    <3>1. status[p] = "ready"
      BY <2>8, ReadyFacts DEF RecvTake, Runs, Executing, WakeInv
    <3>2. /\ \A x \in Pids : x # p => /\ status'[x] = status[x]
                                      /\ awaiting'[x] = awaiting[x]
                                      /\ mailbox'[x] = mailbox[x]
                                      /\ downs'[x] = downs[x]
          /\ \/ status'[p] = status[p]
             \/ mailbox'[p] = <<>> /\ downs'[p] = <<>>
      BY <1>2, <2>8 DEF RecvTake, ClearTimers
    <3> QED BY <1>2, <3>1, <3>2, WakeQuiet
  <2>9. ASSUME NEW r \in Refs, NEW wait \in BOOLEAN, Await(p, r, wait)
        PROVE  NoLostWakeup'
    <3>1. status[p] = "ready"
      BY <2>9, ReadyFacts DEF Await, Runs, Executing, WakeInv
    <3>2. /\ \A x \in Pids : x # p => /\ status'[x] = status[x]
                                      /\ awaiting'[x] = awaiting[x]
          /\ UNCHANGED <<mailbox, downs>>
      <4>1. AwaitEffect(p, r)
        BY <2>9, AwaitShape
      <4>2. /\ \/ status' = status
               \/ status' = [status EXCEPT ![p] = "blocked"]
            /\ \/ awaiting' = awaiting
               \/ awaiting' = [awaiting EXCEPT ![p] = r]
               \/ awaiting' = [x \in Pids |-> IF x \in {p} THEN NoRef
                                              ELSE awaiting[x]]
            /\ UNCHANGED <<mailbox, downs>>
        BY <4>1 DEF AwaitEffect, ClearTimers
      <4> QED BY <1>2, <4>2
    <3>3. status'[p] = status[p] \/ awaiting'[p] = r
      BY <1>2, <2>9 DEF Await
    <3> QED BY <1>2, <3>1, <3>2, <3>3, WakeQuiet
  <2>10. ASSUME NEW q \in Pids, NEW r \in Refs, Reply(p, q, r)
         PROVE  NoLostWakeup'
    <3>1. UNCHANGED <<mailbox, downs>>
      BY <2>10 DEF Reply
    <3>2. CASE AnswerWakes(q, r)
      <4>1. /\ status' = [status EXCEPT ![q] = "ready"]
            /\ awaiting' = [x \in Pids |-> IF x \in {q} THEN NoRef
                                           ELSE awaiting[x]]
        BY <2>10, <3>2 DEF Reply, ClearTimers
      <4> QED BY <1>2, <3>1, <4>1, WakeQuiet
    <3>3. CASE ~AnswerWakes(q, r)
      BY <1>2, <2>10, <3>1, <3>3, WakeSame DEF Reply
    <3> QED BY <3>2, <3>3
  <2> QED BY <1>6, <2>1, <2>2, <2>3, <2>4, <2>5, <2>6, <2>7, <2>8, <2>9,
          <2>10 DEF Step
<1> QED BY <1>3, <1>4, <1>5, <1>6 DEF Next, Loop

\* wakeIfBlocked loses nobody: an actor that is asleep and not in await has
\* nothing to receive, whatever sends, deaths, timers, answers and signals
\* came in which order.
THEOREM WakeupCorrect == Spec => []NoLostWakeup
<1>1. Init => WakeInv
  <2>1. Init => NoLostWakeup
    BY DEF Init, NoLostWakeup
  <2> QED BY <2>1, ReadyInit DEF WakeInv
<1>2. WakeInv => NoLostWakeup
  BY DEF WakeInv
<1> QED BY <1>1, <1>2, WakeStep, PTL DEF Spec


(***************************************************************************)
(* Who dies.                                                               *)
(***************************************************************************)

\* The step is the death of the running actor p.
DeathOf(p) ==
    /\ active = p
    /\ \E how \in {"done", "failed"}, why \in ExitReasons : Death(p, how, why)

\* Of the living, a death takes the running actor and nobody else.
LEMMA DeathLive ==
    ASSUME ReadyInv, NEW p \in Pids, DeathOf(p)
    PROVE  /\ Live' = Live \ {p}
           /\ p \in Live
           /\ \A q \in Pids \ {p} : status[q] = "ready" => status'[q] = "ready"
<1> DEFINE K == Kids(p)
           W == Wakes({q \in Live \ (Kids(p) \cup {p}) : Told(p, q) # {}})
<1>1. PICK how \in {"done", "failed"}, why \in ExitReasons : Death(p, how, why)
  BY DEF DeathOf
<1>2. status' = [q \in Pids |-> IF q = p THEN how
                                ELSE IF q \in K \cup W THEN "ready"
                                ELSE status[q]]
  BY <1>1 DEF Death
<1>3. K \cup W \subseteq Live
  BY DEF Kids, Wakes
<1>4. p \in Live
  BY ReadyFacts DEF DeathOf
<1> HIDE DEF K, W
<1> QED BY <1>2, <1>3, <1>4 DEF Live

\* A step is the death of the running actor, or everybody lives on.
LEMMA StepLive ==
    ASSUME ReadyInv, [Next]_vars
    PROVE  (\E p \in Pids : DeathOf(p)) \/ Live \subseteq Live'
<1> USE DEF queueVars
<1>1. status \in [Pids -> {"unborn", "ready", "blocked", "done", "failed"}]
  BY DEF ReadyInv, TypeInv, TypeOK
<1>2. ASSUME UNCHANGED status
      PROVE  Live \subseteq Live'
  BY <1>2 DEF Live
<1>3. ASSUME NEW q \in Pids, status' = [status EXCEPT ![q] = "ready"]
      PROVE  Live \subseteq Live'
  BY <1>1, <1>3 DEF Live
<1>4. ASSUME NEW q \in Pids, status' = [status EXCEPT ![q] = "blocked"]
      PROVE  Live \subseteq Live'
  BY <1>1, <1>4 DEF Live
<1>5. CASE Loop \/ Idle
  <2>1. CASE WaitTimer
    BY <1>1, <2>1 DEF WaitTimer, Live
  <2>2. CASE ~WaitTimer
    BY <1>2, <1>5, <2>2 DEF Loop, Idle, Finish, PickNext, WaitNothing, vars
  <2> QED BY <2>1, <2>2
<1>6. ASSUME NEW p \in Pids, Tick(p) \/ Step(p)
      PROVE  DeathOf(p) \/ Live \subseteq Live'
  <2>1. CASE \/ Tick(p) \/ Call(p) \/ Charge(p) \/ PushEnsure(p)
             \/ PopEnsure(p) \/ EnsureEnd(p) \/ RecvTimer(p) \/ MakeRef(p)
             \/ \E q \in Pids : Watch(p, q) \/ Link(p, q)
             \/ \E r \in Refs : Unwatch(p, r)
             \/ \E r \in Reasons : ExitSelf(p, r)
             \/ \E n \in Names : \/ Unregister(p, n)
                                 \/ \E q \in Pids : Register(p, n, q)
    BY <1>2, <2>1 DEF Tick, Call, Charge, PushEnsure, PopEnsure, EnsureEnd,
       RecvTimer, MakeRef, Watch, Link, Unwatch, ExitSelf, Unregister, Register
  <2>2. CASE Return(p) \/ Raise(p) \/ ExitStep(p)
    <3>1. active = p
      BY <2>2 DEF Return, Raise, ExitStep, Runs, Executing
    <3>2. exit[p].reason \in ExitReasons
      BY DEF ReadyInv, TypeInv, TypeOK, ExitSigs
    <3>3. \/ UNCHANGED status
          \/ Death(p, "done", "normal")
          \/ Death(p, "failed", "raise")
          \/ Death(p, "failed", exit[p].reason)
      BY <2>2 DEF Return, Raise, ExitStep
    <3>4. "normal" \in ExitReasons /\ "raise" \in ExitReasons
      BY DEF ExitReasons
    <3> QED BY <1>2, <3>1, <3>2, <3>3, <3>4 DEF DeathOf
  <2>3. ASSUME NEW mode \in {"plain", "linked", "watched"}, Spawn(p, mode)
        PROVE  Live \subseteq Live'
    <3>1. nextPid \in Pids
      BY <2>3, SchedulerAssumption DEF Spawn, ReadyInv, TypeInv, TypeOK, Pids
    <3> QED BY <1>3, <2>3, <3>1 DEF Spawn
  <2>4. ASSUME NEW q \in Pids, NEW m \in Msgs, Send(p, q, m)
        PROVE  Live \subseteq Live'
    <3>1. \/ UNCHANGED status
          \/ status' = [x \in Pids |-> IF x \in Wakes({q}) THEN "ready"
                                       ELSE status[x]]
      BY <2>4 DEF Send
    <3> QED BY <1>1, <1>2, <3>1 DEF Live
  <2>5. ASSUME NEW q \in Pids, NEW r \in Reasons, Exit(p, q, r)
        PROVE  Live \subseteq Live'
    BY <1>2, <1>3, <2>5 DEF Exit, ExitActor
  <2>6. CASE RecvTake(p)
    BY <1>2, <1>4, <2>6 DEF RecvTake
  <2>7. ASSUME NEW r \in Refs, NEW wait \in BOOLEAN, Await(p, r, wait)
        PROVE  Live \subseteq Live'
    BY <1>2, <1>4, <2>7 DEF Await
  <2>8. ASSUME NEW q \in Pids, NEW r \in Refs, Reply(p, q, r)
        PROVE  Live \subseteq Live'
    BY <1>2, <1>3, <2>8 DEF Reply
  <2> QED BY <1>6, <2>1, <2>2, <2>3, <2>4, <2>5, <2>6, <2>7, <2>8 DEF Step
<1>7. CASE UNCHANGED vars
  BY <1>2, <1>7 DEF vars
<1> QED BY <1>5, <1>6, <1>7 DEF Next

\* Opcodes are executed by the running actor.
LEMMA StepActive ==
    ASSUME ReadyInv, NEW p \in Pids, Step(p)
    PROVE  active = p /\ p \in Live /\ outcome = "running"
<1>1. active = p /\ outcome = "running"
  BY DEF Step, Call, Charge, Return, Raise, ExitStep, PushEnsure, PopEnsure,
     EnsureEnd, RecvTimer, RecvTake, MakeRef, Spawn, Send, Watch, Link, Unwatch,
     Exit, ExitSelf, Unregister, Register, Await, Reply, Runs, Executing
<1> QED BY <1>1, ReadyFacts

\* Only the running actor dies, by its own step.
LEMMA WhoDies ==
    ASSUME ReadyInv, [Next]_vars, NEW q \in Pids, Dies(q)
    PROVE  DeathOf(q)
<1>1. q \in Live /\ q \notin Live'
  BY DEF Dies, Live
<1>2. PICK p \in Pids : DeathOf(p)
  BY <1>1, StepLive
<1> QED BY <1>1, <1>2, DeathLive

(***************************************************************************)
(* What the dead leave behind.                                             *)
(***************************************************************************)

DanglingInv == ReadyInv /\ NoDangling

\* A step that makes no relation and arms at most the timer of a living
\* actor.
LEMMA DanglingQuiet ==
    ASSUME NoDangling, Live \subseteq Live', UNCHANGED relVars,
           NEW p \in Live, timers' \subseteq timers \cup {p}
    PROVE  NoDangling'
BY DEF NoDangling, relVars

\* The same for a step that arms none.
LEMMA DanglingSame ==
    ASSUME NoDangling, Live \subseteq Live', UNCHANGED relVars,
           timers' \subseteq timers
    PROVE  NoDangling'
BY DEF NoDangling, relVars

\* A death leaves nothing that names the dead: names, links, watches and
\* timers lose it in the step that takes it from the table.
LEMMA DanglingDeath ==
    ASSUME DanglingInv, NEW p \in Pids, DeathOf(p)
    PROVE  NoDangling'
<1>1. Live' = Live \ {p}
  BY DeathLive DEF DanglingInv
<1>2. /\ names' = DropNames(p)
      /\ links' = {l \in links : p \notin {l[1], l[2]}}
      /\ watches' = DropWatches(p)
      /\ timers' \subseteq timers \ {p}
  BY DEF DeathOf, Death, ClearTimers
<1>3. NoPid \notin Pids
  BY DEF NoPid, Pids
<1> QED BY <1>1, <1>2, <1>3
        DEF DanglingInv, NoDangling, DropNames, DropWatches

\* No step leaves a name, link, watch or timer of an actor that is gone.
LEMMA DanglingStep == DanglingInv /\ [Next]_vars => DanglingInv'
<1> SUFFICES ASSUME DanglingInv, [Next]_vars PROVE DanglingInv'
  OBVIOUS
<1> USE DEF relVars, timeVars
<1>1. ReadyInv /\ NoDangling
  BY DEF DanglingInv
<1>2. SUFFICES NoDangling'
  BY <1>1, ReadyStep DEF DanglingInv
<1>3. CASE \E p \in Pids : DeathOf(p)
  BY <1>3, DanglingDeath
<1>4. SUFFICES ASSUME Live \subseteq Live', ~\E p \in Pids : DeathOf(p)
               PROVE  NoDangling'
  BY <1>1, <1>3, StepLive
<1>5. CASE Loop \/ Idle \/ UNCHANGED vars
  <2>1. UNCHANGED relVars /\ timers' \subseteq timers
    BY <1>5 DEF Loop, Idle, Finish, PickNext, WaitTimer, WaitNothing, vars
  <2> QED BY <1>1, <1>4, <2>1, DanglingSame
<1>6. ASSUME NEW p \in Pids, Tick(p) PROVE NoDangling'
  BY <1>1, <1>4, <1>6, DanglingSame DEF Tick
<1>7. ASSUME NEW p \in Pids, Step(p) PROVE NoDangling'
  <2>1. p \in Live /\ active = p
    BY <1>1, <1>7, StepActive
  <2>2. CASE \/ Call(p) \/ Charge(p) \/ PushEnsure(p) \/ PopEnsure(p)
             \/ EnsureEnd(p) \/ MakeRef(p)
             \/ \E q \in Pids, m \in Msgs : Send(p, q, m)
             \/ \E r \in Reasons : ExitSelf(p, r)
    BY <1>1, <1>4, <2>2, DanglingSame DEF Call, Charge, PushEnsure, PopEnsure,
       EnsureEnd, MakeRef, Send, ExitSelf
  <2>3. CASE Return(p) \/ Raise(p) \/ ExitStep(p)
    <3>1. "normal" \in ExitReasons /\ "raise" \in ExitReasons
          /\ exit[p].reason \in ExitReasons
      BY <1>1 DEF ReadyInv, TypeInv, TypeOK, ExitSigs, ExitReasons
    <3>2. UNCHANGED <<relVars, timers>>
      BY <1>4, <2>1, <2>3, <3>1 DEF DeathOf, Return, Raise, ExitStep
    <3> QED BY <1>1, <1>4, <3>2, DanglingSame
  <2>4. CASE \/ RecvTimer(p) \/ RecvTake(p)
             \/ \E r \in Refs, wait \in BOOLEAN : Await(p, r, wait)
             \/ \E q \in Pids, r \in Refs : Reply(p, q, r)
             \/ \E q \in Pids, r \in Reasons : Exit(p, q, r)
    <3>1. UNCHANGED relVars /\ timers' \subseteq timers \cup {p}
      BY <2>4 DEF RecvTimer, RecvTake, Await, Reply, Exit, ExitActor,
         ClearTimers
    <3> QED BY <1>1, <1>4, <2>1, <3>1, DanglingQuiet
  <2>5. ASSUME NEW mode \in {"plain", "linked", "watched"}, Spawn(p, mode)
        PROVE  NoDangling'
    <3>1. nextPid \in Live'
      <4>1. nextPid \in Pids
        BY <1>1, <2>5, SchedulerAssumption
           DEF Spawn, ReadyInv, TypeInv, TypeOK, Pids
      <4> QED BY <1>1, <2>5, <4>1 DEF Spawn, Live, ReadyInv, TypeInv, TypeOK
    <3>2. /\ links' \subseteq links \cup {<<p, nextPid>>}
          /\ \A w \in watches' : w \in watches \/ w.target = nextPid
          /\ UNCHANGED <<names, timers>>
      BY <2>5 DEF Spawn
    <3> QED BY <1>1, <1>4, <2>1, <3>1, <3>2 DEF NoDangling
  <2>6. ASSUME NEW q \in Pids, Watch(p, q)
        PROVE  NoDangling'
    <3>1. /\ \A w \in watches' : w \in watches \/ w.target \in Live
          /\ UNCHANGED <<names, links, timers>>
      BY <2>6 DEF Watch
    <3> QED BY <1>1, <1>4, <3>1 DEF NoDangling
  <2>7. ASSUME NEW r \in Refs, Unwatch(p, r) PROVE NoDangling'
    BY <1>1, <1>4, <2>7 DEF Unwatch, NoDangling
  <2>8. ASSUME NEW q \in Pids, Link(p, q) PROVE NoDangling'
    <3>1. /\ q \in Live /\ links' = links \cup {<<p, q>>}
          /\ UNCHANGED <<names, watches, timers>>
      BY <2>8 DEF Link
    <3> QED BY <1>1, <1>4, <2>1, <3>1 DEF NoDangling
  <2>9. ASSUME NEW n \in Names, NEW q \in Pids, Register(p, n, q)
        PROVE  NoDangling'
    <3>1. /\ q \in Live /\ names' = [names EXCEPT ![n] = q]
          /\ UNCHANGED <<links, watches, timers>>
      BY <2>9 DEF Register
    <3>2. names \in [Names -> Pids \cup {NoPid}]
      BY <1>1 DEF ReadyInv, TypeInv, TypeOK
    <3> QED BY <1>1, <1>4, <3>1, <3>2 DEF NoDangling
  <2>10. ASSUME NEW n \in Names, Unregister(p, n)
         PROVE  NoDangling'
    <3>1. /\ names' = [names EXCEPT ![n] = NoPid]
          /\ UNCHANGED <<links, watches, timers>>
      BY <2>10 DEF Unregister
    <3>2. names \in [Names -> Pids \cup {NoPid}]
      BY <1>1 DEF ReadyInv, TypeInv, TypeOK
    <3> QED BY <1>1, <1>4, <3>1, <3>2 DEF NoDangling
  <2> QED BY <1>7, <2>2, <2>3, <2>4, <2>5, <2>6, <2>7, <2>8, <2>9, <2>10
          DEF Step
<1> QED BY <1>5, <1>6, <1>7 DEF Next

\* actorDied leaves no name, link, timer or watch that leads to an actor
\* that is gone from the table, in whatever order actors link, watch,
\* register, wait and die.
THEOREM DanglingCorrect == Spec => []NoDangling
<1>1. Init => DanglingInv
  <2>1. Init => NoDangling
    BY DEF Init, NoDangling
  <2> QED BY <2>1, ReadyInit DEF DanglingInv
<1>2. DanglingInv => NoDangling
  BY DEF DanglingInv
<1> QED BY <1>1, <1>2, DanglingStep, PTL DEF Spec

(***************************************************************************)
(* Linked children.                                                        *)
(***************************************************************************)

\* Nobody is linked to itself.
NoSelfLink == \A l \in links : l[1] # l[2]

LinkInv == ReadyInv /\ NoSelfLink

\* No step links an actor with itself (link refuses it, spawn_link's child is
\* new).
LEMMA LinkStep == LinkInv /\ [Next]_vars => LinkInv'
<1> SUFFICES ASSUME LinkInv, [Next]_vars PROVE LinkInv'
  OBVIOUS
<1> USE DEF relVars
<1>1. ReadyInv /\ NoSelfLink
  BY DEF LinkInv
<1>2. SUFFICES NoSelfLink'
  BY <1>1, ReadyStep DEF LinkInv
<1>3. CASE links' \subseteq links
  BY <1>1, <1>3 DEF NoSelfLink
<1>4. CASE Loop \/ Idle \/ UNCHANGED vars
  BY <1>3, <1>4 DEF Loop, Idle, Finish, PickNext, WaitTimer, WaitNothing, vars
<1>5. ASSUME NEW p \in Pids, Tick(p) \/ Step(p) PROVE NoSelfLink'
  <2>1. CASE \E mode \in {"plain", "linked", "watched"} : Spawn(p, mode)
    <3>1. links' \subseteq links \cup {<<p, nextPid>>}
      BY <2>1 DEF Spawn
    <3>2. p \in Live
      BY <1>1, <2>1, ReadyFacts DEF Spawn, Runs, Executing
    <3>3. nextPid \in Pids => status[nextPid] = "unborn"
      BY <1>1 DEF ReadyInv, Unborn, Pids
    <3>4. p # nextPid
      BY <3>2, <3>3 DEF Live
    <3> QED BY <1>1, <3>1, <3>4 DEF NoSelfLink
  <2>2. CASE \E q \in Pids : Link(p, q)
    <3>1. PICK q \in Live \ {p} : links' = links \cup {<<p, q>>}
      BY <2>2 DEF Link
    <3> QED BY <1>1, <3>1 DEF NoSelfLink
  <2>3. CASE Return(p) \/ Raise(p) \/ ExitStep(p)
    <3>1. links' \subseteq links
      BY <2>3 DEF Return, Raise, ExitStep, Death
    <3> QED BY <1>3, <3>1
  <2>4. CASE \/ Tick(p) \/ Call(p) \/ Charge(p) \/ PushEnsure(p)
             \/ PopEnsure(p) \/ EnsureEnd(p) \/ RecvTimer(p) \/ RecvTake(p)
             \/ MakeRef(p)
             \/ \E q \in Pids, m \in Msgs : Send(p, q, m)
             \/ \E q \in Pids : Watch(p, q)
             \/ \E r \in Refs : Unwatch(p, r)
             \/ \E q \in Pids, r \in Reasons : Exit(p, q, r)
             \/ \E r \in Reasons : ExitSelf(p, r)
             \/ \E n \in Names : \/ Unregister(p, n)
                                 \/ \E q \in Pids : Register(p, n, q)
             \/ \E r \in Refs, wait \in BOOLEAN : Await(p, r, wait)
             \/ \E q \in Pids, r \in Refs : Reply(p, q, r)
    <3>1. links' = links
      BY <2>4 DEF Tick, Call, Charge, PushEnsure, PopEnsure, EnsureEnd,
         RecvTimer, RecvTake, MakeRef, Send, Watch, Unwatch, Exit, ExitSelf,
         Unregister, Register, Await, Reply
    <3> QED BY <1>3, <3>1
  <2> QED BY <1>5, <2>1, <2>2, <2>3, <2>4 DEF Step
<1> QED BY <1>4, <1>5 DEF Next

\* The step in which an owner dies signals its children.
LEMMA LinkedFall ==
    ASSUME LinkInv, [Next]_vars, NEW l \in links, Dies(l[1])
    PROVE  exit'[l[2]].set \/ l[2] \notin Live
<1> DEFINE p == l[1]
           c == l[2]
<1>1. /\ ReadyInv /\ p # c /\ p \in Pids /\ c \in Pids /\ l = <<p, c>>
      /\ exit \in [Pids -> ExitSigs]
  <2>1. l \in Pids \X Pids /\ exit \in [Pids -> ExitSigs]
    BY DEF LinkInv, ReadyInv, TypeInv, TypeOK
  <2> QED BY <2>1 DEF LinkInv, NoSelfLink
<1>2. PICK how \in {"done", "failed"}, why \in ExitReasons : Death(p, how, why)
  BY <1>1, WhoDies DEF DeathOf
<1>3. exit' = [q \in Pids |-> IF q = p THEN NoExit
                              ELSE IF q \in Kids(p)
                              THEN SignalExit(exit[q], "linked")
                              ELSE exit[q]]
  BY <1>2 DEF Death
<1>4. CASE c \in Kids(p)
  <2>1. ~exit[c].set
    BY <1>4 DEF Kids
  <2>2. SignalExit(exit[c], "linked").set
    BY <2>1 DEF SignalExit, NoExit
  <2> QED BY <1>1, <1>3, <1>4, <2>2
<1>5. CASE c \notin Kids(p)
  <2>1. c \in Live => exit[c].set
    BY <1>1, <1>5 DEF Kids
  <2> QED BY <1>1, <1>3, <1>5, <2>1
<1> QED BY <1>4, <1>5

\* No linked actor survives its owner unsignalled: in the step of the
\* owner's death exitLinked has set the signal of every child that lives.
THEOREM ChildrenFallCorrect == Spec => ChildrenFall
<1>1. Init => LinkInv
  <2>1. Init => NoSelfLink
    BY DEF Init, NoSelfLink
  <2> QED BY <2>1, ReadyInit DEF LinkInv
<1>2. LinkInv /\ [Next]_vars =>
          [\A l \in links : Dies(l[1]) => exit'[l[2]].set \/ l[2] \notin Live
              ]_vars
  BY LinkedFall
<1> QED BY <1>1, <1>2, LinkStep, PTL DEF Spec, ChildrenFall

(***************************************************************************)
(* Watches and their answers.                                              *)
(***************************************************************************)

\* Refs in use were handed out before.
FreshRefs ==
    /\ \A w \in watches : w.ref < nextRef
    /\ \A p \in Pids : \A i \in DOMAIN downs[p] : downs[p][i].ref < nextRef

DownInv == ReadyInv /\ FreshRefs /\ DownOnce

\* Where an entry of a joined queue comes from.
LEMMA ConcatAt ==
    ASSUME NEW S, NEW q \in Seq(S), NEW u \in Seq(S), NEW i \in DOMAIN (q \o u)
    PROVE  \/ i \in DOMAIN q /\ (q \o u)[i] = q[i]
           \/ /\ i \notin DOMAIN q /\ i - Len(q) \in DOMAIN u
              /\ (q \o u)[i] = u[i - Len(q)]
<1>1. /\ q \o u \in Seq(S) /\ Len(q \o u) = Len(q) + Len(u)
      /\ \A k \in 1 .. Len(q) + Len(u) :
             (q \o u)[k] = IF k <= Len(q) THEN q[k] ELSE u[k - Len(q)]
  BY ConcatProperties
<1>2. /\ DOMAIN (q \o u) = 1 .. Len(q) + Len(u)
      /\ DOMAIN q = 1 .. Len(q) /\ DOMAIN u = 1 .. Len(u)
      /\ Len(q) \in Nat /\ Len(u) \in Nat
  BY <1>1, LenProperties
<1> QED BY <1>1, <1>2

\* The downs that a death brings q are those of its watches, each once.
LEMMA ToldListed ==
    ASSUME TypeOK, NEW p \in Pids, NEW q \in Pids, NEW why \in ExitReasons,
           NEW u \in SetToSeqs({Down(w, why) : w \in Told(p, q)})
    PROVE  /\ u \in Seq(Downs)
           /\ \A i \in DOMAIN u : \E w \in Told(p, q) : u[i].ref = w.ref
           /\ \A i, j \in DOMAIN u : u[i].ref = u[j].ref => i = j
<1> DEFINE E == {Down(w, why) : w \in Told(p, q)}
<1>1. E \in SUBSET Downs /\ IsFiniteSet(E)
  BY ToldFinite
<1>2. u \in Seq(E) /\ IsInjective(u)
  <2> HIDE DEF E
  <2>1. u \in SetToSeqs(E)
    BY DEF E
  <2> QED BY <1>1, <2>1, SetToSeqsLists
<1>3. \A i \in DOMAIN u : u[i] \in E
  <2> HIDE DEF E
  <2> QED BY <1>2
<1>4. \A e, f \in E : e.ref = f.ref => e = f
  BY DEF Down
<1>5. \A e \in E : \E w \in Told(p, q) : e.ref = w.ref
  BY DEF Down
<1>6. u \in Seq(Downs)
  <2> HIDE DEF E
  <2> QED BY <1>1, <1>2, SeqMonotonic
<1> HIDE DEF E
<1> QED BY <1>2, <1>3, <1>4, <1>5, <1>6 DEF IsInjective

\* A step that brings no down and no watch.
LEMMA DownSame ==
    ASSUME DownOnce, FreshRefs, watches' \subseteq watches, downs' = downs,
           nextRef' = nextRef
    PROVE  DownOnce' /\ FreshRefs'
BY DEF DownOnce, FreshRefs

\* A ref that is in use nowhere goes to a watch, or to nothing yet.
LEMMA DownNew ==
    ASSUME DownOnce, FreshRefs, nextRef \in Nat, nextRef' = nextRef + 1,
           NEW w0, w0.ref = nextRef, watches' \subseteq watches \cup {w0},
           watches \subseteq [ref : Refs, watcher : Pids, target : Pids],
           downs \in [Pids -> Seq(Downs)], downs' = downs
    PROVE  DownOnce' /\ FreshRefs'
<1>1. \A w \in watches : w.ref \in Int /\ w.ref < nextRef
  BY DEF FreshRefs, Refs
<1>2. \A p \in Pids : \A i \in DOMAIN downs[p] :
          downs[p][i].ref \in Int /\ downs[p][i].ref < nextRef
  <2> SUFFICES ASSUME NEW p \in Pids, NEW i \in DOMAIN downs[p]
               PROVE  downs[p][i].ref \in Int /\ downs[p][i].ref < nextRef
    OBVIOUS
  <2>1. downs[p][i] \in Downs
    BY ElementOfSeq
  <2> QED BY <2>1 DEF FreshRefs, Refs, Downs
<1>3. FreshRefs'
  BY <1>1, <1>2 DEF FreshRefs
<1> QED BY <1>1, <1>2, <1>3 DEF DownOnce

\* The death of p turns the watches on p into downs.
LEMMA DownDeath ==
    ASSUME DownInv, NEW p \in Pids, DeathOf(p)
    PROVE  DownOnce' /\ FreshRefs'
<1>1. PICK how \in {"done", "failed"}, why \in ExitReasons : Death(p, how, why)
  BY DEF DeathOf
<1> DEFINE Orders(q) == SetToSeqs({Down(w, why) : w \in Told(p, q)})
<1>2. PICK d \in [Pids -> UNION {Orders(q) : q \in Pids}] :
          /\ \A q \in Pids : d[q] \in Orders(q)
          /\ downs' = [q \in Pids |-> IF q \in Live \ {p}
                                      THEN downs[q] \o d[q] ELSE <<>>]
  BY ONLY Death(p, how, why), <1>1, Zenon DEF Death
<1>3. TypeOK /\ DownOnce /\ FreshRefs
  BY DEF DownInv, ReadyInv, TypeInv
<1>4. \A q \in Pids :
          /\ d[q] \in Seq(Downs)
          /\ \A i \in DOMAIN d[q] : \E w \in Told(p, q) : d[q][i].ref = w.ref
          /\ \A i, j \in DOMAIN d[q] : d[q][i].ref = d[q][j].ref => i = j
  <2> SUFFICES ASSUME NEW q \in Pids
               PROVE  /\ d[q] \in Seq(Downs)
                      /\ \A i \in DOMAIN d[q] :
                             \E w \in Told(p, q) : d[q][i].ref = w.ref
                      /\ \A i, j \in DOMAIN d[q] :
                             d[q][i].ref = d[q][j].ref => i = j
    OBVIOUS
  <2>1. d[q] \in SetToSeqs({Down(w, why) : w \in Told(p, q)})
    BY <1>2
  <2> QED BY <1>3, <2>1, ToldListed
<1>5. /\ watches' = {w \in watches : w.target # p}
      /\ nextRef' = nextRef
  BY <1>1 DEF Death, DropWatches, idVars
<1> HIDE DEF Orders
\* Where an entry of the new queues comes from.
<1>6. ASSUME NEW q \in Pids, NEW i \in DOMAIN downs'[q]
      PROVE  /\ downs'[q] = downs[q] \o d[q] /\ downs[q] \in Seq(Downs)
             /\ \/ /\ i \in DOMAIN downs[q]
                   /\ downs'[q][i] = downs[q][i]
                \/ /\ i \notin DOMAIN downs[q]
                   /\ i - Len(downs[q]) \in DOMAIN d[q]
                   /\ downs'[q][i] = d[q][i - Len(downs[q])]
  <2>1. downs'[q] = downs[q] \o d[q]
    <3>1. i \notin DOMAIN << >>
      OBVIOUS
    <3> QED BY <1>2, <1>6, <3>1
  <2>2. downs[q] \in Seq(Downs) /\ d[q] \in Seq(Downs)
    BY <1>3, <1>4 DEF TypeOK
  <2> QED BY <1>6, <2>1, <2>2, ConcatAt
<1>7. ASSUME NEW q \in Pids, NEW i \in DOMAIN downs'[q]
      PROVE  \/ /\ i \in DOMAIN downs[q]
                /\ downs'[q][i].ref = downs[q][i].ref
             \/ /\ i - Len(downs[q]) \in DOMAIN d[q]
                /\ downs'[q][i].ref = d[q][i - Len(downs[q])].ref
                /\ \E w \in Told(p, q) : downs'[q][i].ref = w.ref
  <2>1. CASE /\ i \in DOMAIN downs[q]
             /\ downs'[q][i] = downs[q][i]
    BY <2>1
  <2>2. CASE /\ i - Len(downs[q]) \in DOMAIN d[q]
             /\ downs'[q][i] = d[q][i - Len(downs[q])]
    <3> DEFINE k == i - Len(downs[q])
    <3>1. k \in DOMAIN d[q] /\ downs'[q][i] = d[q][k]
      BY <2>2
    <3> HIDE DEF k
    <3>2. PICK w \in Told(p, q) : d[q][k].ref = w.ref
      BY <1>4, <3>1
    <3> QED BY <3>1, <3>2 DEF k
  <2> QED BY <1>6, <1>7, <2>1, <2>2
<1>8. FreshRefs'
  BY <1>3, <1>5, <1>7 DEF FreshRefs, Told
<1>9. ASSUME NEW w \in watches', NEW q \in Pids, NEW i \in DOMAIN downs'[q]
      PROVE  downs'[q][i].ref # w.ref
  BY <1>3, <1>5, <1>7, <1>9 DEF DownOnce, Told
<1>10. ASSUME NEW q \in Pids, NEW r \in Pids, NEW i \in DOMAIN downs'[q],
              NEW j \in DOMAIN downs'[r], downs'[q][i].ref = downs'[r][j].ref
       PROVE  q = r /\ i = j
  <2>1. q = r
    BY <1>3, <1>7, <1>10 DEF DownOnce, Told
  <2>2. i = j
    <3>1. i \in DOMAIN downs[q] <=> j \in DOMAIN downs[q]
      <4>1. ASSUME NEW k \in DOMAIN downs[q], NEW w \in Told(p, q)
            PROVE  downs[q][k].ref # w.ref
        BY <1>3, <4>1 DEF DownOnce, Told
      <4> QED BY <1>6, <1>7, <1>10, <2>1, <4>1
    <3>2. CASE i \in DOMAIN downs[q]
      BY <1>3, <1>6, <1>10, <2>1, <3>1, <3>2 DEF DownOnce
    <3>3. CASE i \notin DOMAIN downs[q]
      <4>1. i - Len(downs[q]) = j - Len(downs[q])
        <5>1. /\ i - Len(downs[q]) \in DOMAIN d[q]
              /\ downs'[q][i] = d[q][i - Len(downs[q])]
          BY <1>6, <1>10, <3>3
        <5>2. /\ j - Len(downs[q]) \in DOMAIN d[q]
              /\ downs'[q][j] = d[q][j - Len(downs[q])]
          BY <1>6, <1>10, <2>1, <3>1, <3>3
        <5> QED BY <1>4, <1>10, <2>1, <5>1, <5>2
      <4>2. Len(downs[q]) \in Nat /\ i \in Int /\ j \in Int
        <5>1. downs'[q] = downs[q] \o d[q] /\ downs[q] \in Seq(Downs)
          BY <1>6
        <5>2. downs'[q] \in Seq(Downs)
          BY <1>4, <5>1, ConcatProperties
        <5> QED BY <1>10, <2>1, <5>1, <5>2
      <4> QED BY <4>1, <4>2
    <3> QED BY <3>2, <3>3
  <2> QED BY <2>1, <2>2
<1>11. \A v, w \in watches' : v.ref = w.ref => v = w
  BY <1>3, <1>5 DEF DownOnce
<1> QED BY <1>8, <1>9, <1>10, <1>11 DEF DownOnce

\* No step queues a down of a ref twice, or while its watch still stands.
LEMMA DownStep == DownInv /\ [Next]_vars => DownInv'
<1> SUFFICES ASSUME DownInv, [Next]_vars PROVE DownInv'
  OBVIOUS
<1> USE DEF boxVars, relVars, idVars
<1>1. /\ ReadyInv /\ DownOnce /\ FreshRefs
      /\ downs \in [Pids -> Seq(Downs)] /\ nextRef \in Nat
      /\ watches \subseteq [ref : Refs, watcher : Pids, target : Pids]
  <2>1. nextRef \in 0 .. MaxRefs
    BY DEF DownInv, ReadyInv, TypeInv, TypeOK
  <2>2. nextRef \in Nat
    BY <2>1, SchedulerAssumption
  <2> QED BY <2>2 DEF DownInv, ReadyInv, TypeInv, TypeOK
<1>2. SUFFICES DownOnce' /\ FreshRefs'
  BY <1>1, ReadyStep DEF DownInv
<1>3. ASSUME watches' \subseteq watches, downs' = downs, nextRef' = nextRef
      PROVE  DownOnce' /\ FreshRefs'
  BY <1>1, <1>3, DownSame
<1>4. CASE Loop \/ Idle \/ UNCHANGED vars
  BY <1>3, <1>4 DEF Loop, Idle, Finish, PickNext, WaitTimer, WaitNothing, vars
<1>5. ASSUME NEW p \in Pids, Tick(p) \/ Step(p)
      PROVE  DownOnce' /\ FreshRefs'
  <2>1. CASE \/ Tick(p) \/ Call(p) \/ Charge(p) \/ PushEnsure(p)
             \/ PopEnsure(p) \/ EnsureEnd(p) \/ RecvTimer(p)
             \/ \E q \in Pids, m \in Msgs : Send(p, q, m)
             \/ \E q \in Pids : Link(p, q)
             \/ \E r \in Refs : Unwatch(p, r)
             \/ \E q \in Pids, r \in Reasons : Exit(p, q, r)
             \/ \E r \in Reasons : ExitSelf(p, r)
             \/ \E n \in Names : \/ Unregister(p, n)
                                 \/ \E q \in Pids : Register(p, n, q)
             \/ \E r \in Refs, wait \in BOOLEAN : Await(p, r, wait)
             \/ \E q \in Pids, r \in Refs : Reply(p, q, r)
    <3>1. watches' \subseteq watches /\ downs' = downs /\ nextRef' = nextRef
      BY <2>1 DEF Tick, Call, Charge, PushEnsure, PopEnsure, EnsureEnd,
         RecvTimer, Send, Link, Unwatch, Exit, ExitSelf, Unregister, Register,
         Await, Reply
    <3> QED BY <1>3, <3>1
  <2>2. CASE Return(p) \/ Raise(p) \/ ExitStep(p)
    <3>1. "normal" \in ExitReasons /\ "raise" \in ExitReasons
          /\ exit[p].reason \in ExitReasons
      BY <1>1 DEF ReadyInv, TypeInv, TypeOK, ExitSigs, ExitReasons
    <3>2. active = p
      BY <2>2 DEF Return, Raise, ExitStep, Runs, Executing
    <3>3. \/ DeathOf(p)
          \/ UNCHANGED <<watches, downs, nextRef>>
      BY <2>2, <3>1, <3>2 DEF DeathOf, Return, Raise, ExitStep
    <3> QED BY <1>3, <3>3, DownDeath
  <2>3. CASE MakeRef(p)
    <3> DEFINE w0 == [ref |-> nextRef]
    <3>1. nextRef' = nextRef + 1 /\ watches' = watches /\ downs' = downs
      BY <2>3 DEF MakeRef
    <3>2. w0.ref = nextRef /\ watches' \subseteq watches \cup {w0}
      BY <3>1
    <3> HIDE DEF w0
    <3> QED BY <1>1, <3>1, <3>2, DownNew
  <2>4. ASSUME NEW mode \in {"plain", "linked", "watched"}, Spawn(p, mode)
        PROVE  DownOnce' /\ FreshRefs'
    <3> DEFINE w0 == [ref |-> nextRef, watcher |-> p, target |-> nextPid]
    <3>1. /\ downs' = downs
          /\ \/ watches' = watches /\ nextRef' = nextRef
             \/ watches' = watches \cup {w0} /\ nextRef' = nextRef + 1
      BY <2>4 DEF Spawn
    <3>2. w0.ref = nextRef
      OBVIOUS
    <3> HIDE DEF w0
    <3>3. CASE watches' = watches /\ nextRef' = nextRef
      BY <1>3, <3>1, <3>3
    <3>4. CASE watches' = watches \cup {w0} /\ nextRef' = nextRef + 1
      BY <1>1, <3>1, <3>2, <3>4, DownNew
    <3> QED BY <3>1, <3>3, <3>4
  <2>5. ASSUME NEW q \in Pids, Watch(p, q)
        PROVE  DownOnce' /\ FreshRefs'
    <3> DEFINE w0 == [ref |-> nextRef, watcher |-> p, target |-> q]
    <3>1. nextRef' = nextRef + 1
      BY <2>5 DEF Watch
    <3>2. CASE q \in Live
      <4>1. watches' = watches \cup {w0} /\ downs' = downs
        BY <2>5, <3>2 DEF Watch
      <4>2. w0.ref = nextRef
        OBVIOUS
      <4> HIDE DEF w0
      <4> QED BY <1>1, <3>1, <4>1, <4>2, DownNew
    <3>3. CASE q \notin Live
      <4>1. downs' = [downs EXCEPT
                ![p] = Append(@, [ref |-> nextRef, reason |-> "noproc"])]
            /\ watches' = watches
        BY <2>5, <3>3 DEF Watch
      <4> DEFINE d0 == [ref |-> nextRef, reason |-> "noproc"]
      <4>2. nextRef \in Refs
        BY <1>1, <2>5, SchedulerAssumption DEF Watch, Refs
      <4>3. d0 \in Downs /\ d0.ref = nextRef
        BY <4>2 DEF Downs, DownReasons
      <4> HIDE DEF d0
      <4>4. ASSUME NEW x \in Pids, NEW i \in DOMAIN downs'[x]
            PROVE  \/ i \in DOMAIN downs[x] /\ downs'[x][i] = downs[x][i]
                   \/ /\ x = p /\ i = Len(downs[p]) + 1
                      /\ downs'[x][i].ref = nextRef
        <5>1. CASE x = p
          <6>1. downs[p] \in Seq(Downs) /\ downs'[x] = Append(downs[p], d0)
            BY <1>1, <4>1, <5>1 DEF d0
          <6>2. /\ Len(downs'[x]) = Len(downs[p]) + 1
                /\ downs'[x] \in Seq(Downs)
                /\ \A k \in 1 .. Len(downs[p]) : downs'[x][k] = downs[p][k]
                /\ downs'[x][Len(downs[p]) + 1] = d0
            BY <4>3, <6>1, AppendProperties
          <6>3. /\ DOMAIN downs'[x] = 1 .. Len(downs[p]) + 1
                /\ DOMAIN downs[p] = 1 .. Len(downs[p])
                /\ Len(downs[p]) \in Nat
            BY <6>1, <6>2, LenProperties
          <6> QED BY <4>3, <4>4, <5>1, <6>2, <6>3
        <5>2. CASE x # p
          BY <1>1, <4>1, <4>4, <5>2
        <5> QED BY <5>1, <5>2
      <4>5. \A w \in watches : w.ref \in Int /\ w.ref < nextRef
        BY <1>1 DEF FreshRefs, Refs
      <4>6. \A x \in Pids : \A i \in DOMAIN downs[x] :
                downs[x][i].ref \in Int /\ downs[x][i].ref < nextRef
        <5> SUFFICES ASSUME NEW x \in Pids, NEW i \in DOMAIN downs[x]
                     PROVE  downs[x][i].ref \in Int /\ downs[x][i].ref < nextRef
          OBVIOUS
        <5>1. downs[x][i] \in Downs
          BY <1>1, ElementOfSeq
        <5> QED BY <1>1, <5>1 DEF FreshRefs, Refs, Downs
      <4>7. FreshRefs'
        BY <1>1, <3>1, <4>1, <4>4, <4>5, <4>6 DEF FreshRefs
      <4>8. \A w \in watches', x \in Pids : \A i \in DOMAIN downs'[x] :
                downs'[x][i].ref # w.ref
        BY <1>1, <4>1, <4>4, <4>5 DEF DownOnce
      <4>9. \A x, y \in Pids : \A i \in DOMAIN downs'[x], j \in DOMAIN downs'[y] :
                downs'[x][i].ref = downs'[y][j].ref => x = y /\ i = j
        <5> SUFFICES ASSUME NEW x \in Pids, NEW y \in Pids,
                            NEW i \in DOMAIN downs'[x],
                            NEW j \in DOMAIN downs'[y],
                            downs'[x][i].ref = downs'[y][j].ref
                     PROVE  x = y /\ i = j
          OBVIOUS
        <5>1. CASE i \in DOMAIN downs[x] /\ downs'[x][i] = downs[x][i]
          <6>1. downs[x][i].ref \in Int /\ downs[x][i].ref < nextRef
            BY <4>6, <5>1
          <6>2. j \in DOMAIN downs[y] /\ downs'[y][j] = downs[y][j]
            BY <1>1, <4>4, <5>1, <6>1
          <6> QED BY <1>1, <5>1, <6>2 DEF DownOnce
        <5>2. CASE /\ x = p /\ i = Len(downs[p]) + 1
                   /\ downs'[x][i].ref = nextRef
          <6>1. ~(j \in DOMAIN downs[y] /\ downs'[y][j] = downs[y][j])
            BY <1>1, <4>6, <5>2
          <6> QED BY <4>4, <5>2, <6>1
        <5> QED BY <4>4, <5>1, <5>2
      <4> QED BY <1>1, <4>1, <4>7, <4>8, <4>9 DEF DownOnce
    <3> QED BY <3>2, <3>3
  <2>6. CASE RecvTake(p)
    <3>1. /\ watches' = watches /\ nextRef' = nextRef
          /\ \/ downs' = downs
             \/ /\ downs[p] # <<>>
                /\ downs' = [downs EXCEPT ![p] = Tail(@)]
      BY <2>6 DEF RecvTake
    <3>2. CASE downs' = downs
      BY <1>3, <3>1, <3>2
    <3>3. CASE downs[p] # <<>> /\ downs' = [downs EXCEPT ![p] = Tail(@)]
      <4>1. /\ downs[p] \in Seq(Downs) /\ downs'[p] = Tail(downs[p])
            /\ \A x \in Pids : x # p => downs'[x] = downs[x]
        BY <1>1, <3>3
      <4>2. /\ Tail(downs[p]) \in Seq(Downs)
            /\ Len(Tail(downs[p])) = Len(downs[p]) - 1
            /\ \A i \in 1 .. Len(Tail(downs[p])) :
                   Tail(downs[p])[i] = downs[p][i + 1]
        BY <3>3, <4>1, HeadTailProperties
      <4>3. /\ DOMAIN downs'[p] = 1 .. Len(downs[p]) - 1
            /\ DOMAIN downs[p] = 1 .. Len(downs[p])
            /\ Len(downs[p]) \in Nat
        BY <4>1, <4>2, LenProperties
      <4>4. \A i \in DOMAIN downs'[p] :
                /\ i \in Int /\ i + 1 \in DOMAIN downs[p]
                /\ downs'[p][i] = downs[p][i + 1]
        BY <4>1, <4>2, <4>3
      <4>5. FreshRefs'
        <5>1. \A x \in Pids : \A i \in DOMAIN downs'[x] :
                 \E k \in DOMAIN downs[x] : downs'[x][i] = downs[x][k]
          BY <4>1, <4>4
        <5>2. \A x \in Pids : \A k \in DOMAIN downs[x] : downs[x][k].ref < nextRef
          BY <1>1 DEF FreshRefs
        <5>3. \A x \in Pids : \A i \in DOMAIN downs'[x] : downs'[x][i].ref < nextRef
          BY <5>1, <5>2
        <5>4. \A w \in watches' : w.ref < nextRef
          BY <1>1, <3>1 DEF FreshRefs
        <5> QED BY <3>1, <5>3, <5>4 DEF FreshRefs
      <4>6. \A w \in watches', x \in Pids : \A i \in DOMAIN downs'[x] :
                downs'[x][i].ref # w.ref
        <5> SUFFICES ASSUME NEW w \in watches, NEW x \in Pids,
                            NEW i \in DOMAIN downs'[x]
                     PROVE  downs'[x][i].ref # w.ref
          BY <3>1
        <5>1. CASE x = p
          BY <1>1, <4>4, <5>1 DEF DownOnce
        <5>2. CASE x # p
          BY <1>1, <4>1, <5>2 DEF DownOnce
        <5> QED BY <5>1, <5>2
      <4>7. ASSUME NEW x \in Pids, NEW y \in Pids, NEW i \in DOMAIN downs'[x],
                   NEW j \in DOMAIN downs'[y],
                   downs'[x][i].ref = downs'[y][j].ref
            PROVE  x = y /\ i = j
        <5>1. x = y
          <6>1. \E k \in DOMAIN downs[x] : downs'[x][i] = downs[x][k]
            BY <4>1, <4>4, <4>7
          <6>2. \E k \in DOMAIN downs[y] : downs'[y][j] = downs[y][k]
            BY <4>1, <4>4, <4>7
          <6> QED BY <1>1, <4>7, <6>1, <6>2 DEF DownOnce
        <5>2. CASE x = p
          <6>1. i + 1 = j + 1
            BY <1>1, <4>4, <4>7, <5>1, <5>2 DEF DownOnce
          <6> QED BY <4>4, <4>7, <5>1, <5>2, <6>1
        <5>3. CASE x # p
          BY <1>1, <4>1, <4>7, <5>1, <5>3 DEF DownOnce
        <5> QED BY <5>1, <5>2, <5>3
      <4> QED BY <1>1, <3>1, <4>5, <4>6, <4>7 DEF DownOnce
    <3> QED BY <3>1, <3>2, <3>3
  <2> QED BY <1>5, <2>1, <2>2, <2>3, <2>4, <2>5, <2>6 DEF Step
<1> QED BY <1>4, <1>5 DEF Next

(***************************************************************************)
(* Signals.                                                                *)
(***************************************************************************)

\* What a step may do to the signal of an actor: nothing, raise it, or move
\* an unwinding on.
SignalMoves(sig, new) ==
    \/ new = sig
    \/ \E r \in ExitReasons : new = SignalExit(sig, r)
    \/ new = [sig EXCEPT !.unwinding = FALSE]
    \/ ~sig.kill /\ \E d \in 0 .. MaxEnsure :
           new = [sig EXCEPT !.unwinding = TRUE, !.depth = d]

\* A signal set stays set and keeps its reason; :kill ends an unwinding.
LEMMA SignalKept ==
    ASSUME NEW sig \in ExitSigs, NEW new, SignalMoves(sig, new)
    PROVE  /\ sig.set => new.set /\ new.reason = sig.reason
           /\ (sig.kill => sig.set /\ ~sig.unwinding) =>
                  (new.kill => new.set /\ ~new.unwinding)
<1>1. ASSUME NEW r \in ExitReasons, new = SignalExit(sig, r)
      PROVE  /\ sig.set => new.set /\ new.reason = sig.reason
             /\ (sig.kill => sig.set /\ ~sig.unwinding) =>
                    (new.kill => new.set /\ ~new.unwinding)
  <2>1. CASE ~sig.set
    BY <1>1, <2>1 DEF SignalExit, NoExit
  <2>2. CASE sig.set /\ r = "kill" /\ ~sig.kill
    BY <1>1, <2>2 DEF SignalExit, ExitSigs
  <2>3. CASE sig.set /\ ~(r = "kill" /\ ~sig.kill)
    BY <1>1, <2>3 DEF SignalExit
  <2> QED BY <2>1, <2>2, <2>3
<1>2. CASE new = [sig EXCEPT !.unwinding = FALSE]
  BY <1>2 DEF ExitSigs
<1>3. ASSUME ~sig.kill, NEW d \in 0 .. MaxEnsure,
             new = [sig EXCEPT !.unwinding = TRUE, !.depth = d]
      PROVE  /\ sig.set => new.set /\ new.reason = sig.reason
             /\ (sig.kill => sig.set /\ ~sig.unwinding) =>
                    (new.kill => new.set /\ ~new.unwinding)
  BY <1>3 DEF ExitSigs
<1> QED BY <1>1, <1>2, <1>3 DEF SignalMoves

\* Each actor's signal moves so, but for the actor that dies.
LEMMA SignalStep ==
    ASSUME ReadyInv, [Next]_vars, NEW q \in Pids
    PROVE  SignalMoves(exit[q], exit'[q]) \/ (DeathOf(q) /\ exit'[q] = NoExit)
<1>1. /\ exit \in [Pids -> ExitSigs]
      /\ "normal" \in ExitReasons /\ "raise" \in ExitReasons
      /\ "linked" \in ExitReasons /\ "budget" \in ExitReasons
      /\ Reasons \subseteq ExitReasons
  BY SchedulerAssumption DEF ReadyInv, TypeInv, TypeOK, ExitReasons
<1>2. CASE UNCHANGED exit
  BY <1>2 DEF SignalMoves
<1>3. ASSUME NEW p \in Pids, NEW r \in ExitReasons,
             exit' = [exit EXCEPT ![p] = SignalExit(@, r)]
      PROVE  SignalMoves(exit[q], exit'[q])
  <2>1. exit'[q] = IF q = p THEN SignalExit(exit[q], r) ELSE exit[q]
    BY <1>1, <1>3
  <2> QED BY <2>1 DEF SignalMoves
<1>4. ASSUME NEW p \in Pids, exit' = [exit EXCEPT ![p].unwinding = FALSE]
      PROVE  SignalMoves(exit[q], exit'[q])
  <2>1. exit'[q] = IF q = p THEN [exit[q] EXCEPT !.unwinding = FALSE]
                   ELSE exit[q]
    BY <1>1, <1>4
  <2> QED BY <2>1 DEF SignalMoves
<1>5. ASSUME NEW p \in Pids, DeathOf(p)
      PROVE  SignalMoves(exit[q], exit'[q]) \/ (DeathOf(q) /\ exit'[q] = NoExit)
  <2>1. exit' = [x \in Pids |-> IF x = p THEN NoExit
                                ELSE IF x \in Kids(p)
                                THEN SignalExit(exit[x], "linked")
                                ELSE exit[x]]
    BY <1>5 DEF DeathOf, Death
  <2>2. CASE q = p
    BY <1>5, <2>1, <2>2
  <2>3. CASE q # p
    <3>1. exit'[q] = SignalExit(exit[q], "linked") \/ exit'[q] = exit[q]
      BY <2>1, <2>3
    <3> QED BY <1>1, <3>1 DEF SignalMoves
  <2> QED BY <2>2, <2>3
<1>6. CASE Loop \/ Idle \/ UNCHANGED vars
  BY <1>2, <1>6 DEF Loop, Idle, Finish, PickNext, WaitTimer, WaitNothing, vars
<1>7. ASSUME NEW p \in Pids, Tick(p) \/ Step(p)
      PROVE  SignalMoves(exit[q], exit'[q]) \/ (DeathOf(q) /\ exit'[q] = NoExit)
  <2>1. CASE \/ Tick(p) \/ PushEnsure(p) \/ PopEnsure(p)
             \/ RecvTimer(p) \/ RecvTake(p) \/ MakeRef(p)
             \/ \E mode \in {"plain", "linked", "watched"} : Spawn(p, mode)
             \/ \E x \in Pids, m \in Msgs : Send(p, x, m)
             \/ \E x \in Pids : Watch(p, x) \/ Link(p, x)
             \/ \E r \in Refs : Unwatch(p, r)
             \/ \E n \in Names : \/ Unregister(p, n)
                                 \/ \E x \in Pids : Register(p, n, x)
             \/ \E r \in Refs, wait \in BOOLEAN : Await(p, r, wait)
             \/ \E x \in Pids, r \in Refs : Reply(p, x, r)
    <3>1. UNCHANGED exit
      BY <2>1 DEF Tick, PushEnsure, PopEnsure, RecvTimer, RecvTake, MakeRef,
         Spawn, Send, Watch, Link, Unwatch, Unregister, Register, Await, Reply
    <3> QED BY <1>2, <3>1
  <2>2. CASE Call(p) \/ Charge(p) \/ \E r \in Reasons : ExitSelf(p, r)
    <3>1. \/ UNCHANGED exit
          \/ \E r \in ExitReasons : exit' = [exit EXCEPT ![p] = SignalExit(@, r)]
      BY <1>1, <2>2 DEF Call, Charge, ExitSelf
    <3> QED BY <1>2, <1>3, <3>1
  <2>3. ASSUME NEW x \in Pids, NEW r \in Reasons, Exit(p, x, r)
        PROVE  SignalMoves(exit[q], exit'[q])
    <3>1. UNCHANGED exit \/ exit' = [exit EXCEPT ![x] = SignalExit(@, r)]
      BY <1>1, <2>3 DEF Exit, ExitActor
    <3> QED BY <1>1, <1>2, <1>3, <3>1 DEF SignalMoves
  <2>4. CASE EnsureEnd(p)
    BY <1>4, <2>4 DEF EnsureEnd
  <2>5. CASE Return(p) \/ Raise(p) \/ ExitStep(p)
    <3>1. active = p /\ exit[p].reason \in ExitReasons
      BY <1>1, <2>5 DEF Return, Raise, ExitStep, Runs, Executing, ExitSigs
    <3>2. \/ DeathOf(p)
          \/ UNCHANGED exit
          \/ exit' = [exit EXCEPT ![p].unwinding = FALSE]
          \/ /\ ~exit[p].kill /\ handlers[p] > 0
             /\ exit' = [exit EXCEPT ![p].unwinding = TRUE,
                                     ![p].depth = handlers[p] - 1]
      BY <1>1, <2>5, <3>1 DEF DeathOf, Return, Raise, ExitStep
    <3>3. CASE /\ ~exit[p].kill /\ handlers[p] > 0
               /\ exit' = [exit EXCEPT ![p].unwinding = TRUE,
                                       ![p].depth = handlers[p] - 1]
      <4>1. handlers[p] - 1 \in 0 .. MaxEnsure
        BY <3>3, SchedulerAssumption DEF ReadyInv, TypeInv, TypeOK
      <4>2. exit'[q] = IF q = p
                       THEN [exit[q] EXCEPT !.unwinding = TRUE,
                                            !.depth = handlers[p] - 1]
                       ELSE exit[q]
        BY <1>1, <3>3
      <4> QED BY <3>3, <4>1, <4>2 DEF SignalMoves
    <3> QED BY <1>2, <1>4, <1>5, <3>2, <3>3
  <2> QED BY <1>7, <2>1, <2>2, <2>3, <2>4, <2>5 DEF Step
<1> QED BY <1>6, <1>7 DEF Next

\* A signal of a budget that the running actor has not come to look at.
OverBudget ==
    over => /\ active \in Limited /\ "charge" \in Ops
            /\ exit[active].set /\ exit[active].reason = "budget"
            /\ ~exit[active].kill

\* :kill is set by a signal and takes part in no unwinding.
KillNow == \A p \in Pids : exit[p].kill => exit[p].set /\ ~exit[p].unwinding

\* An actor may sleep over the signal of its own turn budget, crossed just
\* before it went to sleep, and over no other.
OnlyBudgetsSleep ==
    \A p \in Pids : ExitPending(p) /\ status[p] = "blocked" =>
        p \in Limited /\ "charge" \in Ops /\ exit[p].reason = "budget"

SignalInv == ReadyInv /\ OverBudget /\ KillNow /\ OnlyBudgetsSleep

\* Who is asleep after a step was asleep before it or has just executed the
\* opcode that waits; in either case its signal is what it was.
LEMMA WhoSleeps ==
    ASSUME ReadyInv, [Next]_vars, NEW x \in Pids, status'[x] = "blocked"
    PROVE  /\ exit'[x] = exit[x]
           /\ status[x] = "blocked" \/ Executing(x)
<1> USE DEF queueVars
<1>1. /\ status \in [Pids -> {"unborn", "ready", "blocked", "done", "failed"}]
      /\ exit \in [Pids -> ExitSigs]
  BY DEF ReadyInv, TypeInv, TypeOK
<1>2. CASE UNCHANGED <<status, exit>>
  BY <1>2
<1>3. CASE Loop \/ Idle \/ UNCHANGED vars
  <2>1. CASE WaitTimer
    BY <1>1, <2>1 DEF WaitTimer
  <2>2. CASE ~WaitTimer
    BY <1>2, <1>3, <2>2 DEF Loop, Idle, Finish, PickNext, WaitNothing, vars
  <2> QED BY <2>1, <2>2
<1>4. ASSUME NEW p \in Pids, Tick(p) \/ Step(p)
      PROVE  exit'[x] = exit[x] /\ (status[x] = "blocked" \/ Executing(x))
  <2>1. CASE \/ Tick(p) \/ PushEnsure(p) \/ PopEnsure(p) \/ RecvTimer(p)
             \/ MakeRef(p)
             \/ \E q \in Pids : Watch(p, q) \/ Link(p, q)
             \/ \E r \in Refs : Unwatch(p, r)
             \/ \E n \in Names : \/ Unregister(p, n)
                                 \/ \E q \in Pids : Register(p, n, q)
    <3>1. UNCHANGED <<status, exit>>
      BY <2>1 DEF Tick, PushEnsure, PopEnsure, RecvTimer, MakeRef, Watch, Link,
         Unwatch, Unregister, Register
    <3> QED BY <1>2, <3>1
  <2>2. CASE \/ Call(p) \/ Charge(p) \/ EnsureEnd(p)
             \/ \E r \in Reasons : ExitSelf(p, r)
    <3>1. /\ active = p /\ status' = status
          /\ \A q \in Pids : q # p => exit'[q] = exit[q]
      BY <1>1, <2>2 DEF Call, Charge, EnsureEnd, ExitSelf, Runs, Executing
    <3>2. status[p] = "ready"
      BY <3>1, ReadyFacts
    <3> QED BY <3>1, <3>2
  <2>3. CASE Return(p) \/ Raise(p) \/ ExitStep(p)
    <3>1. /\ active = p
          /\ "normal" \in ExitReasons /\ "raise" \in ExitReasons
          /\ exit[p].reason \in ExitReasons
      BY <1>1, <2>3 DEF Return, Raise, ExitStep, Runs, Executing, ExitReasons,
         ExitSigs
    <3>2. status[p] = "ready"
      BY <3>1, ReadyFacts
    <3>3. CASE DeathOf(p)
      <4>1. PICK how \in {"done", "failed"}, why \in ExitReasons :
                Death(p, how, why)
        BY <3>3 DEF DeathOf
      <4> DEFINE W == Wakes({q \in Live \ (Kids(p) \cup {p}) : Told(p, q) # {}})
      <4>2. /\ status' = [q \in Pids |-> IF q = p THEN how
                                         ELSE IF q \in Kids(p) \cup W THEN "ready"
                                         ELSE status[q]]
            /\ exit' = [q \in Pids |-> IF q = p THEN NoExit
                                       ELSE IF q \in Kids(p)
                                       THEN SignalExit(exit[q], "linked")
                                       ELSE exit[q]]
        BY <4>1 DEF Death
      <4> HIDE DEF W
      <4> QED BY <4>2
    <3>4. CASE ~DeathOf(p)
      <4>1. /\ status' = status
            /\ \A q \in Pids : q # p => exit'[q] = exit[q]
        BY <1>1, <2>3, <3>1, <3>4 DEF Return, Raise, ExitStep, DeathOf
      <4> QED BY <3>2, <4>1
    <3> QED BY <3>3, <3>4
  <2>4. ASSUME NEW mode \in {"plain", "linked", "watched"}, Spawn(p, mode)
        PROVE  exit'[x] = exit[x] /\ status[x] = "blocked"
    <3>1. exit' = exit /\ status' = [status EXCEPT ![nextPid] = "ready"]
      BY <2>4 DEF Spawn
    <3> QED BY <1>1, <3>1
  <2>5. ASSUME NEW q \in Pids, NEW m \in Msgs, Send(p, q, m)
        PROVE  exit'[x] = exit[x] /\ status[x] = "blocked"
    <3>1. /\ exit' = exit
          /\ \/ status' = status
             \/ status' = [y \in Pids |-> IF y \in Wakes({q}) THEN "ready"
                                          ELSE status[y]]
      BY <2>5 DEF Send
    <3> QED BY <1>1, <3>1
  <2>6. ASSUME NEW q \in Pids, NEW r \in Reasons, Exit(p, q, r)
        PROVE  exit'[x] = exit[x] /\ status[x] = "blocked"
    <3>1. \/ UNCHANGED <<exit, status>>
          \/ /\ status' = [status EXCEPT ![q] = "ready"]
             /\ exit' = [exit EXCEPT ![q] = SignalExit(@, r)]
      BY <2>6 DEF Exit, ExitActor
    <3> QED BY <1>1, <3>1
  <2>7. CASE RecvTake(p)
    <3>1. /\ exit' = exit /\ Executing(p)
          /\ status' = status \/ status' = [status EXCEPT ![p] = "blocked"]
      BY <2>7 DEF RecvTake, Runs
    <3> QED BY <1>1, <3>1
  <2>8. ASSUME NEW r \in Refs, NEW wait \in BOOLEAN, Await(p, r, wait)
        PROVE  exit'[x] = exit[x] /\ (status[x] = "blocked" \/ Executing(x))
    <3>1. /\ exit' = exit /\ Executing(p)
          /\ status' = status \/ status' = [status EXCEPT ![p] = "blocked"]
      BY <2>8 DEF Await, Runs
    <3> QED BY <1>1, <3>1
  <2>9. ASSUME NEW q \in Pids, NEW r \in Refs, Reply(p, q, r)
        PROVE  exit'[x] = exit[x] /\ status[x] = "blocked"
    <3>1. /\ exit' = exit
          /\ status' = status \/ status' = [status EXCEPT ![q] = "ready"]
      BY <2>9 DEF Reply
    <3> QED BY <1>1, <3>1
  <2> QED BY <1>4, <2>1, <2>2, <2>3, <2>4, <2>5, <2>6, <2>7, <2>8, <2>9 DEF Step
<1> QED BY <1>3, <1>4 DEF Next

\* A turn that is over budget is that of the running actor, with its signal
\* set and not yet acted upon.
LEMMA OverStep ==
    ASSUME SignalInv, [Next]_vars
    PROVE  OverBudget'
<1> USE DEF cpuVars
<1>1. /\ ReadyInv /\ OverBudget /\ Limited \subseteq Pids /\ NoPid \notin Pids
      /\ exit \in [Pids -> ExitSigs]
  <2>1. Limited \subseteq Pids /\ NoPid \notin Pids
    BY SchedulerAssumption DEF Pids, NoPid
  <2> QED BY <2>1 DEF SignalInv, ReadyInv, TypeInv, TypeOK
<1>2. CASE over' = FALSE
  BY <1>2 DEF OverBudget
<1>3. CASE UNCHANGED <<active, over, exit>>
  BY <1>1, <1>3 DEF OverBudget
<1>4. CASE Loop \/ Idle \/ UNCHANGED vars
  BY <1>2, <1>3, <1>4
     DEF Loop, Idle, Finish, PickNext, WaitTimer, WaitNothing, vars
<1>5. ASSUME NEW p \in Pids, Tick(p) \/ Step(p) PROVE OverBudget'
  <2>1. CASE \/ Tick(p) \/ PushEnsure(p) \/ PopEnsure(p) \/ RecvTimer(p)
             \/ MakeRef(p)
             \/ \E mode \in {"plain", "linked", "watched"} : Spawn(p, mode)
             \/ \E q \in Pids, m \in Msgs : Send(p, q, m)
             \/ \E q \in Pids : Watch(p, q) \/ Link(p, q)
             \/ \E r \in Refs : Unwatch(p, r)
             \/ \E n \in Names : \/ Unregister(p, n)
                                 \/ \E q \in Pids : Register(p, n, q)
             \/ \E q \in Pids, r \in Refs : Reply(p, q, r)
    <3>1. UNCHANGED <<active, over, exit>>
      BY <2>1 DEF Tick, PushEnsure, PopEnsure, RecvTimer, MakeRef, Spawn, Send,
         Watch, Link, Unwatch, Unregister, Register, Reply
    <3> QED BY <1>3, <3>1
  <2>2. CASE Call(p) \/ Return(p) \/ \E r \in Reasons : ExitSelf(p, r)
    <3>1. over' = FALSE
      BY <2>2 DEF Call, Burn, Return, Death, LeaveCpu, ExitSelf
    <3> QED BY <1>2, <3>1
  <2>3. CASE Raise(p) \/ ExitStep(p)
    <3>1. over' = FALSE \/ (~over /\ over' = over)
      BY <2>3 DEF Raise, ExitStep, Burn, Death, LeaveCpu
    <3> QED BY <1>2, <3>1 DEF OverBudget
  <2>4. CASE RecvTake(p) \/ \E r \in Refs, wait \in BOOLEAN : Await(p, r, wait)
    <3>1. over' = FALSE \/ UNCHANGED <<active, over, exit>>
      BY <2>4 DEF RecvTake, Await, LeaveCpu
    <3> QED BY <1>2, <1>3, <3>1
  <2>5. CASE Charge(p)
    <3>1. /\ active' = p /\ active = p /\ p \in Limited /\ "charge" \in Ops
          /\ ~exit[p].set /\ exit'[p] = SignalExit(exit[p], "budget")
      BY <1>1, <2>5 DEF Charge, Runs, Executing
    <3>2. exit'[p].set /\ exit'[p].reason = "budget" /\ ~exit'[p].kill
      BY <3>1 DEF SignalExit, NoExit
    <3> QED BY <3>1, <3>2 DEF OverBudget
  <2>6. CASE EnsureEnd(p)
    <3>1. /\ active = p /\ UNCHANGED <<active, over>>
          /\ exit'[p] = [exit[p] EXCEPT !.unwinding = FALSE]
      BY <1>1, <2>6 DEF EnsureEnd, Runs, Executing
    <3>2. exit[p] \in ExitSigs
      BY <1>1
    <3>3. /\ exit'[p].set = exit[p].set /\ exit'[p].reason = exit[p].reason
          /\ exit'[p].kill = exit[p].kill
      BY <3>1, <3>2 DEF ExitSigs
    <3> QED BY <1>1, <3>1, <3>3 DEF OverBudget
  <2>7. ASSUME NEW q \in Pids, NEW r \in Reasons, Exit(p, q, r)
        PROVE  OverBudget'
    <3>1. /\ active = p /\ q # p /\ UNCHANGED <<active, over>>
          /\ exit' = exit \/ exit' = [exit EXCEPT ![q] = SignalExit(@, r)]
      BY <2>7 DEF Exit, ExitActor, Runs, Executing
    <3>2. exit'[p] = exit[p]
      BY <1>1, <3>1
    <3> QED BY <1>1, <3>1, <3>2 DEF OverBudget
  <2> QED BY <1>5, <2>1, <2>2, <2>3, <2>4, <2>5, <2>6, <2>7 DEF Step
<1> QED BY <1>4, <1>5 DEF Next

\* Every step keeps what is known of signals: a killed runner dies, only a
\* turn over its budget goes to sleep on a signal.
LEMMA SignalInvStep == SignalInv /\ [Next]_vars => SignalInv'
<1> SUFFICES ASSUME SignalInv, [Next]_vars PROVE SignalInv'
  OBVIOUS
<1>1. /\ ReadyInv /\ OverBudget /\ KillNow /\ OnlyBudgetsSleep
      /\ exit \in [Pids -> ExitSigs]
  BY DEF SignalInv, ReadyInv, TypeInv, TypeOK
<1>2. KillNow'
  <2> SUFFICES ASSUME NEW q \in Pids
               PROVE  exit'[q].kill => exit'[q].set /\ ~exit'[q].unwinding
    BY DEF KillNow
  <2>1. CASE SignalMoves(exit[q], exit'[q])
    BY <1>1, <2>1, SignalKept DEF KillNow
  <2>2. CASE exit'[q] = NoExit
    BY <2>2 DEF NoExit
  <2> QED BY <1>1, <2>1, <2>2, SignalStep
<1>3. OnlyBudgetsSleep'
  <2> SUFFICES ASSUME NEW x \in Pids, exit'[x].set, ~exit'[x].unwinding,
                      status'[x] = "blocked"
               PROVE  /\ x \in Limited /\ "charge" \in Ops
                      /\ exit'[x].reason = "budget"
    BY DEF OnlyBudgetsSleep, ExitPending
  <2>1. /\ exit'[x] = exit[x] /\ ExitPending(x)
        /\ status[x] = "blocked" \/ Executing(x)
    BY <1>1, WhoSleeps DEF ExitPending
  <2>2. CASE status[x] = "blocked"
    BY <1>1, <2>1, <2>2 DEF OnlyBudgetsSleep
  <2>3. CASE Executing(x)
    BY <1>1, <2>1, <2>3 DEF OverBudget, Executing
  <2> QED BY <2>1, <2>2, <2>3
<1> QED BY <1>1, <1>2, <1>3, ReadyStep, OverStep DEF SignalInv

\* At the start no signal is set and nobody has crossed a budget.
LEMMA SignalInit == Init => SignalInv
<1>1. Init => OverBudget /\ KillNow /\ OnlyBudgetsSleep
  BY DEF Init, OverBudget, KillNow, OnlyBudgetsSleep, ExitPending, NoExit
<1> QED BY <1>1, ReadyInit DEF SignalInv

\* A signal that waits to be acted upon is slept over by nobody but an
\* actor that crossed its turn budget in the step before the one that put it
\* to sleep (chargeBytes only sets the signal and the opcode goes on).
THEOREM SleepersSignalled == Spec => []OnlyBudgetsSleep
<1>1. SignalInv => OnlyBudgetsSleep
  BY DEF SignalInv
<1> QED BY <1>1, SignalInit, SignalInvStep, PTL DEF Spec

\* Without turn budgets no signal is slept over (§12.7): hurry wakes the
\* victim, and an actor looks at its signal before every opcode.
THEOREM SignalAwakeCorrect ==
    ASSUME "charge" \notin Ops \/ Limited = {}
    PROVE  Spec => []SignalAwake
<1>1. SignalInv => SignalAwake
  BY DEF SignalInv, OnlyBudgetsSleep, SignalAwake
<1> QED BY <1>1, SignalInit, SignalInvStep, PTL DEF Spec

\* What a step may not do to a signal.
LEMMA StandStep ==
    ASSUME SignalInv, [Next]_vars
    PROVE  [/\ \A p \in Live : exit[p].set =>
                  \/ status'[p] \in {"done", "failed"}
                  \/ exit'[p].set /\ exit'[p].reason = exit[p].reason
            /\ \A p \in Pids : exit[p].kill /\ active = p =>
                  Dies(p) \/ \E q \in Pids : Tick(q)]_vars
<1>1. /\ ReadyInv /\ KillNow /\ OverBudget /\ NoPid \notin Pids
      /\ exit \in [Pids -> ExitSigs]
  <2>1. NoPid \notin Pids
    BY DEF Pids, NoPid
  <2> QED BY <2>1 DEF SignalInv, ReadyInv, TypeInv, TypeOK
<1>2. ASSUME NEW p \in Pids, DeathOf(p)
      PROVE  status'[p] \in {"done", "failed"} /\ Dies(p)
  <2>1. status'[p] \in {"done", "failed"}
    BY <1>2 DEF DeathOf, Death
  <2> QED BY <1>1, <1>2, <2>1, DeathLive DEF Dies
<1>3. ASSUME NEW p \in Live, exit[p].set
      PROVE  \/ status'[p] \in {"done", "failed"}
             \/ exit'[p].set /\ exit'[p].reason = exit[p].reason
  <2>1. p \in Pids /\ exit[p] \in ExitSigs
    BY <1>1 DEF Live
  <2>2. CASE SignalMoves(exit[p], exit'[p])
    BY <1>3, <2>1, <2>2, SignalKept
  <2>3. CASE DeathOf(p)
    BY <1>2, <2>1, <2>3
  <2> QED BY <1>1, <2>1, <2>2, <2>3, SignalStep
<1>4. ASSUME NEW p \in Pids, exit[p].kill, active = p, ~UNCHANGED vars
      PROVE  Dies(p) \/ \E q \in Pids : Tick(q)
  <2>1. exit[p].set /\ ~exit[p].unwinding /\ ~over
    BY <1>1, <1>4 DEF KillNow, OverBudget
  <2>2. ~Executing(p)
    BY <2>1 DEF Executing, ExitPending
  <2>3. ~Loop /\ ~Idle
    BY <1>1, <1>4 DEF Loop, Idle, Finish, PickNext, WaitTimer, WaitNothing,
       AtLoopHead
  <2>4. ASSUME NEW x \in Pids, Step(x)
        PROVE  Dies(p)
    <3>1. x = p
      BY <1>1, <1>4, <2>4, StepActive
    <3>2. ExitStep(p)
      BY <2>2, <2>4, <3>1 DEF Step, Call, Charge, Return, Raise, PushEnsure,
         PopEnsure, EnsureEnd, RecvTimer, RecvTake, MakeRef, Spawn, Send,
         Watch, Link, Unwatch, Exit, ExitSelf, Unregister, Register, Await,
         Reply, Runs
    <3>3. Death(p, "failed", exit[p].reason) /\ exit[p].reason \in ExitReasons
      BY <1>1, <1>4, <3>2 DEF ExitStep, ExitSigs
    <3> QED BY <1>2, <1>4, <3>3 DEF DeathOf
  <2> QED BY <1>4, <2>3, <2>4 DEF Next
<1> QED BY <1>3, <1>4

\* §12.7: a signal stands until death: the first reason wins, whatever
\* raises, ensure blocks and signals come after it, and a running actor that
\* was killed does nothing but die.
THEOREM SignalsStandCorrect == Spec => SignalsStand
<1>1. SignalInv /\ [Next]_vars =>
          [/\ \A p \in Live : exit[p].set =>
                 \/ status'[p] \in {"done", "failed"}
                 \/ exit'[p].set /\ exit'[p].reason = exit[p].reason
           /\ \A p \in Pids : exit[p].kill /\ active = p =>
                 Dies(p) \/ \E q \in Pids : Tick(q)]_vars
  BY StandStep
<1> QED BY <1>1, SignalInit, SignalInvStep, PTL DEF Spec, SignalsStand

(***************************************************************************)
(* Sleepers and their timers.                                              *)
(***************************************************************************)

\* A deadline to come has its timer in the heap.
DeadlineHasTimer == \A p \in Pids : deadline[p] = "future" => p \in timers

\* A ref that was not handed out has no slot.
FreshSlots == \A r \in Refs : r >= nextRef => slots[r].owner = NoPid

\* An actor asleep in await waits for an empty slot of its own, with a timer.
AwaiterHasTimer ==
    \A p \in Pids : status[p] = "blocked" /\ pc[p] = "await" =>
        /\ aref[p] \in Refs /\ awaiting[p] = aref[p]
        /\ slots[aref[p]].owner = p /\ slots[aref[p]].state = "empty"
        /\ p \in timers

AwaitInv == SignalInv /\ DeadlineHasTimer /\ FreshSlots /\ AwaiterHasTimer

\* What AwaitInv says of the state before a step, with the types it needs.
LEMMA AwaitFacts ==
    ASSUME AwaitInv
    PROVE  /\ SignalInv /\ ReadyInv
           /\ DeadlineHasTimer /\ FreshSlots /\ AwaiterHasTimer
           /\ status \in [Pids -> {"unborn", "ready", "blocked", "done",
                                   "failed"}]
           /\ pc \in [Pids -> {"run", "recv", "after", "await"}]
           /\ aref \in [Pids -> Refs \cup {NoRef}]
           /\ awaiting \in [Pids -> Refs \cup {NoRef}]
           /\ deadline \in [Pids -> {"zero", "future", "past"}]
           /\ slots \in [Refs -> Slots]
           /\ timers \subseteq Pids
           /\ NoRef \notin Refs /\ NoPid \notin Pids
<1>1. NoRef \notin Refs /\ NoPid \notin Pids
  BY DEF NoRef, Refs, NoPid, Pids
<1> QED BY <1>1 DEF AwaitInv, SignalInv, ReadyInv, TypeInv, TypeOK

\* A step that leaves every wait, timer and slot as it is.
LEMMA AwaitSame ==
    ASSUME AwaitInv, UNCHANGED <<status, pc, aref, timeVars, slots>>,
           nextRef' >= nextRef, nextRef \in Int, nextRef' \in Int
    PROVE  DeadlineHasTimer' /\ FreshSlots' /\ AwaiterHasTimer'
<1>1. DeadlineHasTimer' /\ AwaiterHasTimer'
  BY DEF AwaitInv, DeadlineHasTimer, AwaiterHasTimer, timeVars
<1>2. FreshSlots'
  BY DEF AwaitInv, FreshSlots, Refs
<1> QED BY <1>1, <1>2

\* A step that puts nobody to sleep and takes no timer or slot from those
\* who stay asleep.
LEMMA AwaitFewer ==
    ASSUME AwaitInv,
           \A x \in Pids : status'[x] = "blocked" /\ pc'[x] = "await" =>
               /\ status[x] = "blocked" /\ pc[x] = "await"
               /\ aref'[x] = aref[x] /\ awaiting'[x] = awaiting[x]
               /\ slots'[aref[x]] = slots[aref[x]]
               /\ x \in timers => x \in timers'
    PROVE  AwaiterHasTimer'
BY DEF AwaitInv, AwaiterHasTimer

\* clearTimer takes the deadline with the timer.
LEMMA ClearedDeadlines ==
    ASSUME AwaitInv, NEW C \in SUBSET Pids, ClearTimers(C)
    PROVE  /\ DeadlineHasTimer'
           /\ \A x \in Pids \ C : /\ awaiting'[x] = awaiting[x]
                                  /\ deadline'[x] = deadline[x]
                                  /\ x \in timers => x \in timers'
           /\ \A x \in C : awaiting'[x] = NoRef /\ deadline'[x] = "zero"
BY DEF AwaitInv, DeadlineHasTimer, ClearTimers

\* Every step keeps the slots of refs and the timers of deadlines.
LEMMA AwaitStep == AwaitInv /\ [Next]_vars => AwaitInv'
<1> SUFFICES ASSUME AwaitInv, [Next]_vars PROVE AwaitInv'
  OBVIOUS
<1> USE DEF queueVars, bodyVars, timeVars, idVars
<1> DEFINE Goal == DeadlineHasTimer' /\ FreshSlots' /\ AwaiterHasTimer'
<1>1. SUFFICES Goal
  BY SignalInvStep DEF AwaitInv
<1>2. /\ SignalInv /\ ReadyInv
      /\ DeadlineHasTimer /\ FreshSlots /\ AwaiterHasTimer
      /\ status \in [Pids -> {"unborn", "ready", "blocked", "done", "failed"}]
      /\ pc \in [Pids -> {"run", "recv", "after", "await"}]
      /\ aref \in [Pids -> Refs \cup {NoRef}]
      /\ awaiting \in [Pids -> Refs \cup {NoRef}]
      /\ deadline \in [Pids -> {"zero", "future", "past"}]
      /\ slots \in [Refs -> Slots]
      /\ timers \subseteq Pids
      /\ NoRef \notin Refs /\ NoPid \notin Pids
  BY AwaitFacts
<1>3. nextRef \in Int
  BY DEF AwaitInv, SignalInv, ReadyInv, TypeInv, TypeOK
<1>4. ASSUME UNCHANGED <<status, pc, aref, timeVars, slots>>,
             nextRef' = nextRef \/ nextRef' = nextRef + 1
      PROVE  Goal
  BY <1>3, <1>4, AwaitSame
<1>5. ASSUME UNCHANGED <<slots, nextRef>>
      PROVE  FreshSlots'
  BY <1>2, <1>5 DEF FreshSlots
<1>6. CASE Loop \/ Idle \/ UNCHANGED vars
  <2>1. CASE WaitTimer
    <3> DEFINE due == {x \in timers : deadline[x] = "past"}
               woken == {x \in due : status[x] = "blocked"}
    <3>1. /\ timers' = timers \ due
          /\ status' = [x \in Pids |-> IF x \in woken THEN "ready" ELSE status[x]]
          /\ UNCHANGED <<pc, aref, awaiting, deadline, slots, nextRef>>
      BY <2>1 DEF WaitTimer
    <3>2. DeadlineHasTimer'
      BY <1>2, <3>1 DEF DeadlineHasTimer
    <3>3. \A x \in Pids : status'[x] = "blocked" =>
              /\ status[x] = "blocked"
              /\ x \in timers => x \in timers'
      BY <3>1
    <3>4. AwaiterHasTimer'
      BY <3>1, <3>3, AwaitFewer
    <3> QED BY <1>5, <3>1, <3>2, <3>4
  <2>2. CASE ~WaitTimer
    BY <1>4, <1>6, <2>2 DEF Loop, Idle, Finish, PickNext, WaitNothing, vars
  <2> QED BY <2>1, <2>2
<1>7. ASSUME NEW p \in Pids, Tick(p) PROVE Goal
  <2>1. /\ p \in timers /\ deadline' = [deadline EXCEPT ![p] = "past"]
        /\ UNCHANGED <<status, pc, aref, awaiting, timers, slots, nextRef>>
    BY <1>7 DEF Tick
  <2>2. DeadlineHasTimer'
    BY <1>2, <2>1 DEF DeadlineHasTimer
  <2>3. AwaiterHasTimer'
    BY <2>1, AwaitFewer
  <2> QED BY <1>5, <2>1, <2>2, <2>3
<1>8. ASSUME NEW p \in Pids, Step(p) PROVE Goal
  <2>0. status[p] = "ready"
    BY <1>2, <1>8, StepActive, ReadyFacts
  <2>1. CASE \/ Call(p) \/ Charge(p) \/ PushEnsure(p) \/ PopEnsure(p)
             \/ EnsureEnd(p)
             \/ \E q \in Pids : Watch(p, q) \/ Link(p, q)
             \/ \E r \in Refs : Unwatch(p, r)
             \/ \E r \in Reasons : ExitSelf(p, r)
             \/ \E n \in Names : \/ Unregister(p, n)
                                 \/ \E q \in Pids : Register(p, n, q)
    <3>1. /\ UNCHANGED <<status, pc, aref, timeVars, slots>>
          /\ nextRef' = nextRef \/ nextRef' = nextRef + 1
      BY <2>1 DEF Call, Charge, PushEnsure, PopEnsure, EnsureEnd, Watch, Link,
         Unwatch, ExitSelf, Unregister, Register
    <3> QED BY <1>4, <3>1
  <2>2. CASE Return(p) \/ Raise(p) \/ ExitStep(p)
    <3>1. CASE \E how, why : Death(p, how, why)
      <4>1. PICK how, why : Death(p, how, why)
        BY <3>1
      <4> DEFINE C == {p} \cup {c \in Kids(p) : status[c] = "blocked"}
                 W == Wakes({q \in Live \ (Kids(p) \cup {p}) :
                                 Told(p, q) # {}})
      <4>2. /\ ClearTimers(C)
            /\ status' = [q \in Pids |-> IF q = p THEN how
                                         ELSE IF q \in Kids(p) \cup W
                                         THEN "ready" ELSE status[q]]
            /\ pc' = [pc EXCEPT ![p] = "run"]
            /\ aref' = [aref EXCEPT ![p] = NoRef]
            /\ UNCHANGED <<slots, nextRef>>
        BY <4>1 DEF Death
      <4>3. C \in SUBSET Pids /\ C \subseteq {p} \cup Kids(p)
        BY DEF Kids, Live
      <4> HIDE DEF C, W
      <4>4. \A x \in Pids : status'[x] = "blocked" /\ pc'[x] = "await" =>
                x \notin C /\ x # p /\ status[x] = "blocked" /\ pc[x] = "await"
        BY <1>2, <4>2, <4>3
      <4>5. AwaiterHasTimer'
        BY <1>2, <4>2, <4>3, <4>4, ClearedDeadlines, AwaitFewer
      <4> QED BY <1>5, <4>2, <4>3, <4>5, ClearedDeadlines
    <3>2. CASE ~\E how, why : Death(p, how, why)
      <4>1. /\ UNCHANGED <<status, timeVars, slots, nextRef>>
            /\ \/ UNCHANGED <<pc, aref>>
               \/ /\ pc' = [pc EXCEPT ![p] = "run"]
                  /\ aref' = [aref EXCEPT ![p] = NoRef]
        BY <2>2, <3>2 DEF Return, Raise, ExitStep
      <4>2. \A x \in Pids : status'[x] = "blocked" =>
                x # p /\ pc'[x] = pc[x] /\ aref'[x] = aref[x]
        BY <1>2, <2>0, <4>1
      <4>3. AwaiterHasTimer'
        BY <4>1, <4>2, AwaitFewer
      <4>4. DeadlineHasTimer'
        BY <1>2, <4>1 DEF DeadlineHasTimer
      <4> QED BY <1>5, <4>1, <4>3, <4>4
    <3> QED BY <3>1, <3>2
  <2>3. CASE \/ \E mode \in {"plain", "linked", "watched"} : Spawn(p, mode)
             \/ \E q \in Pids, m \in Msgs : Send(p, q, m)
    <3>1. /\ \A x \in Pids : status'[x] = "blocked" => status[x] = "blocked"
          /\ UNCHANGED <<pc, aref, timeVars, slots>>
          /\ nextRef' = nextRef \/ nextRef' = nextRef + 1
      BY <1>2, <2>3 DEF Spawn, Send
    <3>2. AwaiterHasTimer'
      BY <3>1, AwaitFewer
    <3>3. DeadlineHasTimer'
      BY <1>2, <3>1 DEF DeadlineHasTimer
    <3>4. FreshSlots'
      BY <1>2, <1>3, <3>1 DEF FreshSlots, Refs
    <3> QED BY <3>2, <3>3, <3>4
  <2>4. ASSUME NEW q \in Pids, NEW r \in Reasons, Exit(p, q, r)
        PROVE  Goal
    <3>1. UNCHANGED <<pc, aref, slots, nextRef>>
      BY <2>4 DEF Exit
    <3>2. CASE UNCHANGED <<status, timeVars>>
      BY <1>4, <3>1, <3>2
    <3>3. CASE ~UNCHANGED <<status, timeVars>>
      <4> DEFINE C == {q} \ {x \in Pids : status[x] = "ready"}
      <4>1. status' = [status EXCEPT ![q] = "ready"] /\ ClearTimers(C)
        BY <2>4, <3>3 DEF Exit, ExitActor
      <4>2. C \in SUBSET Pids /\ C \subseteq {q}
        OBVIOUS
      <4> HIDE DEF C
      <4>3. AwaiterHasTimer'
        BY <1>2, <3>1, <4>1, <4>2, ClearedDeadlines, AwaitFewer
      <4> QED BY <1>5, <3>1, <4>1, <4>2, <4>3, ClearedDeadlines
    <3> QED BY <3>2, <3>3
  <2>5. CASE RecvTimer(p)
    <3>1. /\ deadline' = [deadline EXCEPT ![p] = "future"]
          /\ timers' = timers \cup {p} /\ pc' = [pc EXCEPT ![p] = "after"]
          /\ UNCHANGED <<status, aref, awaiting, slots, nextRef>>
      BY <2>5 DEF RecvTimer
    <3>2. DeadlineHasTimer'
      BY <1>2, <3>1 DEF DeadlineHasTimer
    <3>3. AwaiterHasTimer'
      BY <1>2, <3>1, AwaitFewer
    <3> QED BY <1>5, <3>1, <3>2, <3>3
  <2>6. CASE RecvTake(p)
    <3>1. /\ UNCHANGED <<aref, slots, nextRef>>
          /\ ClearTimers({p}) \/ UNCHANGED timeVars
          /\ status' = status \/ status' = [status EXCEPT ![p] = "blocked"]
          /\ pc' = [pc EXCEPT ![p] = "run"] \/
             pc' = [pc EXCEPT ![p] = IF @ = "after" THEN "after" ELSE "recv"]
      BY <2>6 DEF RecvTake
    <3>2. {p} \in SUBSET Pids
      OBVIOUS
    <3>3. DeadlineHasTimer'
      <4>1. CASE ClearTimers({p})
        BY <3>2, <4>1, ClearedDeadlines
      <4>2. CASE UNCHANGED timeVars
        BY <1>2, <4>2 DEF DeadlineHasTimer
      <4> QED BY <3>1, <4>1, <4>2
    <3>4. \A x \in Pids : x # p => /\ awaiting'[x] = awaiting[x]
                                   /\ x \in timers => x \in timers'
      BY <3>1, <3>2, ClearedDeadlines
    <3>5. pc'[p] # "await"
      BY <1>2, <3>1
    <3>6. AwaiterHasTimer'
      BY <1>2, <3>1, <3>4, <3>5, AwaitFewer
    <3> QED BY <1>5, <3>1, <3>3, <3>6
  <2>7. CASE MakeRef(p)
    <3>1. /\ nextRef < MaxRefs /\ nextRef' = nextRef + 1
          /\ slots' = [slots EXCEPT ![nextRef] = [owner |-> p, state |-> "empty"]]
          /\ UNCHANGED <<status, pc, aref, timeVars>>
      BY <2>7 DEF MakeRef
    <3>2. FreshSlots'
      BY <1>2, <1>3, <3>1 DEF FreshSlots, Refs
    <3>3. DeadlineHasTimer'
      BY <1>2, <3>1 DEF DeadlineHasTimer
    <3>4. AwaiterHasTimer'
      <4>1. \A x \in Pids : status[x] = "blocked" /\ pc[x] = "await" =>
                aref[x] # nextRef
        <5>1. \A r \in Refs : r >= nextRef => slots[r].owner = NoPid
          BY <1>2 DEF FreshSlots
        <5> QED BY <1>2, <1>3, <5>1 DEF AwaiterHasTimer
      <4>2. \A x \in Pids : status[x] = "blocked" /\ pc[x] = "await" =>
                slots'[aref[x]] = slots[aref[x]]
        BY <1>2, <3>1, <4>1 DEF AwaiterHasTimer
      <4> QED BY <3>1, <4>2, AwaitFewer
    <3> QED BY <3>2, <3>3, <3>4
  <2>8. ASSUME NEW r \in Refs, NEW wait \in BOOLEAN, Await(p, r, wait)
        PROVE  Goal
    <3>1. slots[r].owner = p /\ nextRef' = nextRef
      BY <2>8 DEF Await
    <3>2. CASE /\ \/ UNCHANGED timeVars /\ slots[r].state = "empty"
                                        /\ awaiting[p] = r
                                        /\ deadline[p] = "future"
                  \/ /\ deadline' = [deadline EXCEPT ![p] = "future"]
                     /\ timers' = timers \cup {p}
                     /\ awaiting' = [awaiting EXCEPT ![p] = r]
                     /\ slots[r].state = "empty"
               /\ pc' = [pc EXCEPT ![p] = "await"]
               /\ aref' = [aref EXCEPT ![p] = r]
               /\ status' = [status EXCEPT ![p] = "blocked"]
               /\ UNCHANGED slots
      <4>1. DeadlineHasTimer' /\ p \in timers'
        BY <1>2, <3>2 DEF DeadlineHasTimer
      <4>2. AwaiterHasTimer'
        <5> SUFFICES ASSUME NEW x \in Pids, status'[x] = "blocked",
                            pc'[x] = "await"
                     PROVE  /\ aref'[x] \in Refs /\ awaiting'[x] = aref'[x]
                            /\ slots'[aref'[x]].owner = x
                            /\ slots'[aref'[x]].state = "empty"
                            /\ x \in timers'
          BY DEF AwaiterHasTimer
        <5>1. CASE x = p
          BY <1>2, <3>1, <3>2, <4>1, <5>1
        <5>2. CASE x # p
          <6>1. /\ status[x] = "blocked" /\ pc[x] = "await"
                /\ aref'[x] = aref[x] /\ awaiting'[x] = awaiting[x]
                /\ x \in timers => x \in timers'
            BY <1>2, <3>2, <5>2
          <6> QED BY <1>2, <3>2, <6>1 DEF AwaiterHasTimer
        <5> QED BY <5>1, <5>2
      <4> QED BY <1>5, <3>1, <3>2, <4>1, <4>2
    <3>3. CASE /\ slots' = [slots EXCEPT ![r].state = "closed"]
               /\ ClearTimers({p}) \/ UNCHANGED timeVars
               /\ pc' = [pc EXCEPT ![p] = "run"]
               /\ aref' = [aref EXCEPT ![p] = NoRef]
               /\ UNCHANGED status
      <4>1. {p} \in SUBSET Pids
        OBVIOUS
      <4>2. DeadlineHasTimer'
        <5>1. CASE ClearTimers({p})
          BY <4>1, <5>1, ClearedDeadlines
        <5>2. CASE UNCHANGED timeVars
          BY <1>2, <5>2 DEF DeadlineHasTimer
        <5> QED BY <3>3, <5>1, <5>2
      <4>3. \A x \in Pids : x # p => /\ awaiting'[x] = awaiting[x]
                                     /\ x \in timers => x \in timers'
        BY <3>3, <4>1, ClearedDeadlines
      <4>4. \A s \in Refs : /\ slots'[s].owner = slots[s].owner
                            /\ s # r => slots'[s] = slots[s]
        BY <1>2, <3>3 DEF Slots
      <4>5. \A x \in Pids : status[x] = "blocked" /\ pc[x] = "await" =>
                x # p /\ aref[x] # r
        BY <1>2, <2>0, <3>1 DEF AwaiterHasTimer
      <4>6. AwaiterHasTimer'
        BY <1>2, <3>3, <4>3, <4>4, <4>5, AwaitFewer DEF AwaiterHasTimer
      <4>7. FreshSlots'
        BY <1>2, <3>1, <4>4 DEF FreshSlots
      <4> QED BY <4>2, <4>6, <4>7
    <3> QED BY <2>8, <3>2, <3>3 DEF Await
  <2>9. ASSUME NEW q \in Pids, NEW r \in Refs, Reply(p, q, r)
        PROVE  Goal
    <3>1. /\ slots[r] = [owner |-> q, state |-> "empty"]
          /\ slots' = [slots EXCEPT ![r].state = "filled"]
          /\ UNCHANGED <<pc, aref, nextRef>>
      BY <2>9 DEF Reply
    <3>2. \A s \in Refs : /\ slots'[s].owner = slots[s].owner
                          /\ s # r => slots'[s] = slots[s]
      BY <1>2, <3>1 DEF Slots
    <3>3. FreshSlots'
      BY <1>2, <3>1, <3>2 DEF FreshSlots
    <3>4. \A x \in Pids : status[x] = "blocked" /\ pc[x] = "await"
                              /\ aref[x] = r => x = q /\ AnswerWakes(q, r)
      BY <1>2, <3>1 DEF AwaiterHasTimer, AnswerWakes
    <3>5. CASE AnswerWakes(q, r)
      <4>1. ClearTimers({q}) /\ status' = [status EXCEPT ![q] = "ready"]
        BY <2>9, <3>5 DEF Reply
      <4>2. {q} \in SUBSET Pids
        OBVIOUS
      <4>3. AwaiterHasTimer'
        BY <1>2, <3>1, <3>2, <3>4, <4>1, <4>2, ClearedDeadlines, AwaitFewer
           DEF AwaiterHasTimer
      <4> QED BY <3>3, <4>1, <4>2, <4>3, ClearedDeadlines
    <3>6. CASE ~AnswerWakes(q, r)
      <4>1. UNCHANGED <<status, timeVars>>
        BY <2>9, <3>6 DEF Reply
      <4>2. DeadlineHasTimer'
        BY <1>2, <4>1 DEF DeadlineHasTimer
      <4>3. AwaiterHasTimer'
        BY <1>2, <3>1, <3>2, <3>4, <3>6, <4>1, AwaitFewer DEF AwaiterHasTimer
      <4> QED BY <3>3, <4>2, <4>3
    <3> QED BY <3>5, <3>6
  <2> QED BY <1>8, <2>1, <2>2, <2>3, <2>4, <2>5, <2>6, <2>7, <2>8, <2>9 DEF Step
<1> QED BY <1>6, <1>7, <1>8 DEF Next

\* At the start nobody waits and no slot is given out.
LEMMA AwaitInit == Init => AwaitInv
<1>1. Init => DeadlineHasTimer /\ FreshSlots /\ AwaiterHasTimer
  BY DEF Init, DeadlineHasTimer, FreshSlots, AwaiterHasTimer
<1> QED BY <1>1, SignalInit DEF AwaitInv

\* An actor asleep in await waits for an empty slot of its own, is the one
\* the answer wakes, and has its timer in the heap, whatever signals,
\* timeouts and answers came before.
THEOREM AwaitCorrect == Spec => []AwaiterHasTimer
<1>1. AwaitInv => AwaiterHasTimer
  BY DEF AwaitInv
<1> QED BY <1>1, AwaitInit, AwaitStep, PTL DEF Spec

(***************************************************************************)
(* Every watch is answered.                                                *)
(***************************************************************************)

WatchStep == WatchesStand /\ DownsAreTrue /\ DownsStay /\ WatchesStart

\* What is put behind a queue leaves the queue at the front.
LEMMA ConcatPrefix ==
    ASSUME NEW S, NEW q \in Seq(S), NEW u \in Seq(S)
    PROVE  IsPrefix(q, q \o u)
<1>1. /\ q \o u \in Seq(S) /\ Len(q \o u) = Len(q) + Len(u)
      /\ \A k \in 1 .. Len(q) : (q \o u)[k] = q[k]
      /\ Len(q) \in Nat /\ Len(u) \in Nat
  BY ConcatProperties, LenProperties
<1> QED BY <1>1 DEF IsPrefix

\* A step that leaves the downs and the watches there are alone, and uses a
\* new ref only for a slot or a watch.
LEMMA AnswerSame ==
    ASSUME downs \in [Pids -> Seq(Downs)], watches \subseteq watches',
           downs' = downs,
           \/ nextRef' = nextRef
           \/ slots' # slots
           \/ \E w \in watches' : w.ref = nextRef
    PROVE  WatchStep
<1>1. WatchesStand /\ WatchesStart
  BY DEF WatchesStand, WatchesStart
<1>2. DownsAreTrue
  BY DEF DownsAreTrue
<1>3. \A p \in Pids : IsPrefix(downs[p], downs[p])
  BY DEF IsPrefix
<1>4. DownsStay
  BY <1>3 DEF DownsStay, Live
<1> QED BY <1>1, <1>2, <1>4 DEF WatchStep

\* In the step in which an actor dies, every watch on it becomes its down.
LEMMA AnswerDeath ==
    ASSUME ReadyInv, NEW p \in Pids, active = p, NEW how \in {"done", "failed"},
           NEW why \in ExitReasons, Death(p, how, why), why = DeathReason(p)
    PROVE  WatchStep
<1> DEFINE Orders(q) == SetToSeqs({Down(w, why) : w \in Told(p, q)})
<1>1. PICK d \in [Pids -> UNION {Orders(q) : q \in Pids}] :
          /\ \A q \in Pids : d[q] \in Orders(q)
          /\ downs' = [q \in Pids |-> IF q \in Live \ {p}
                                      THEN downs[q] \o d[q] ELSE <<>>]
  BY ONLY Death(p, how, why), Zenon DEF Death
<1>2. TypeOK /\ downs \in [Pids -> Seq(Downs)]
      /\ watches \subseteq [ref : Refs, watcher : Pids, target : Pids]
  BY DEF ReadyInv, TypeInv, TypeOK
<1>3. Dies(p)
  <2>1. status'[p] = how
    BY DEF Death
  <2> QED BY <2>1, ReadyFacts DEF Dies
<1>4. \A q \in Pids : /\ d[q] \in Seq(Downs)
                      /\ ToSet(d[q]) = {Down(w, why) : w \in Told(p, q)}
  <2> SUFFICES ASSUME NEW q \in Pids
               PROVE  /\ d[q] \in Seq(Downs)
                      /\ ToSet(d[q]) = {Down(w, why) : w \in Told(p, q)}
    OBVIOUS
  <2> DEFINE E == {Down(w, why) : w \in Told(p, q)}
  <2>1. d[q] \in SetToSeqs(E)
    BY <1>1
  <2>2. E \in SUBSET Downs /\ IsFiniteSet(E)
    BY <1>2, ToldFinite
  <2> HIDE DEF E
  <2>3. d[q] \in Seq(E) /\ ToSet(d[q]) = E
    BY <2>1, <2>2, SetToSeqsLists
  <2>4. d[q] \in Seq(Downs)
    BY <2>2, <2>3, SeqMonotonic
  <2> QED BY <2>3, <2>4 DEF E
<1> HIDE DEF Orders
<1>5. \A q \in Live \ {p} :
          /\ downs'[q] = downs[q] \o d[q]
          /\ IsPrefix(downs[q], downs'[q])
          /\ ToSet(downs'[q]) =
                ToSet(downs[q]) \cup {Down(w, why) : w \in Told(p, q)}
  <2> SUFFICES ASSUME NEW q \in Live \ {p}
               PROVE  /\ downs'[q] = downs[q] \o d[q]
                      /\ IsPrefix(downs[q], downs'[q])
                      /\ ToSet(downs'[q]) = ToSet(downs[q]) \cup ToSet(d[q])
    BY <1>4 DEF Live
  <2>1. q \in Pids /\ downs'[q] = downs[q] \o d[q]
    BY <1>1 DEF Live
  <2>2. downs[q] \in Seq(Downs) /\ d[q] \in Seq(Downs)
    BY <1>2, <1>4, <2>1
  <2> QED BY <2>1, <2>2, ConcatPrefix, ConcatLists
<1>6. /\ watches' = {w \in watches : w.target # p}
      /\ nextRef' = nextRef
  BY DEF Death, DropWatches, idVars
<1>7. WatchesStand
  <2> SUFFICES ASSUME NEW w \in watches, w \notin watches',
                      w.watcher \in Live, ~Dies(w.watcher)
               PROVE  /\ Dies(w.target)
                      /\ [ref |-> w.ref, reason |-> DeathReason(w.target)]
                             \in ToSet(downs'[w.watcher])
    BY <1>3, <1>6 DEF WatchesStand
  <2>1. w.target = p /\ w.watcher \in Live \ {p}
    BY <1>3, <1>6
  <2>2. w \in Told(p, w.watcher)
    BY <2>1 DEF Told
  <2>3. Down(w, why) \in ToSet(downs'[w.watcher])
    BY <1>5, <2>1, <2>2
  <2> QED BY <1>3, <2>1, <2>3 DEF Down
<1>8. DownsAreTrue
  <2> SUFFICES ASSUME NEW q \in Pids, NEW e \in ToSet(downs'[q])
               PROVE  \/ e \in ToSet(downs[q])
                      \/ \E w \in watches : /\ w.watcher = q /\ Dies(w.target)
                                            /\ e = [ref |-> w.ref,
                                                    reason |-> DeathReason(w.target)]
    BY DEF DownsAreTrue
  <2>1. CASE q \in Live \ {p}
    <3>1. \/ e \in ToSet(downs[q])
          \/ \E w \in Told(p, q) : e = Down(w, why)
      BY <1>5, <2>1
    <3> QED BY <1>3, <3>1 DEF Told, Down
  <2>2. CASE q \notin Live \ {p}
    <3>1. downs'[q] = <<>>
      BY <1>1, <2>2
    <3> QED BY <3>1 DEF ToSet
  <2> QED BY <2>1, <2>2
<1>9. DownsStay
  BY <1>3, <1>5 DEF DownsStay
<1>10. WatchesStart
  BY <1>6 DEF WatchesStart
<1> QED BY <1>7, <1>8, <1>9, <1>10 DEF WatchStep

\* watch of a dead actor answers in the same step.
LEMMA AnswerWatch ==
    ASSUME ReadyInv, NEW p \in Pids, NEW q \in Pids, Watch(p, q)
    PROVE  WatchStep
<1>1. downs \in [Pids -> Seq(Downs)] /\ nextRef \in Refs
  <2>1. nextRef \in 0 .. MaxRefs /\ nextRef < MaxRefs
    BY DEF ReadyInv, TypeInv, TypeOK, Watch
  <2> QED BY <2>1, SchedulerAssumption DEF ReadyInv, TypeInv, TypeOK, Refs
<1>2. CASE q \in Live
  <2> DEFINE w0 == [ref |-> nextRef, watcher |-> p, target |-> q]
  <2>1. watches' = watches \cup {w0} /\ downs' = downs
    BY <1>2 DEF Watch
  <2>2. w0 \in watches' /\ w0.ref = nextRef
    BY <2>1
  <2> HIDE DEF w0
  <2> QED BY <1>1, <2>1, <2>2, AnswerSame
<1>3. CASE q \notin Live
  <2> DEFINE d0 == [ref |-> nextRef, reason |-> "noproc"]
  <2>1. watches' = watches /\ downs' = [downs EXCEPT ![p] = Append(@, d0)]
    BY <1>3 DEF Watch
  <2>2. d0 \in Downs /\ d0.ref = nextRef
    BY <1>1 DEF Downs, DownReasons
  <2> HIDE DEF d0
  <2>3. /\ \A x \in Pids : x # p => downs'[x] = downs[x]
        /\ downs[p] \in Seq(Downs) /\ downs'[p] = Append(downs[p], d0)
    BY <1>1, <2>1
  <2>4. /\ ToSet(downs'[p]) = ToSet(downs[p]) \cup {d0}
        /\ IsPrefix(downs[p], downs'[p])
    <3>1. Append(downs[p], d0) = downs[p] \o <<d0>> /\ <<d0>> \in Seq(Downs)
      BY <2>2, <2>3, AppendIsConcat
    <3>2. IsPrefix(downs[p], downs[p] \o <<d0>>)
      BY <2>3, <3>1, ConcatPrefix
    <3>3. ToSet(Append(downs[p], d0)) = ToSet(downs[p]) \cup {d0}
      BY <2>2, <2>3, AppendLists
    <3> QED BY <2>3, <3>1, <3>2, <3>3
  <2>5. WatchesStand
    BY <2>1 DEF WatchesStand
  <2>6. DownsAreTrue
    <3>1. ASSUME NEW x \in Pids, NEW e \in ToSet(downs'[x])
          PROVE  e \in ToSet(downs[x]) \/ (x = p /\ e = d0)
      <4>1. CASE x = p
        BY <2>4, <3>1, <4>1
      <4>2. CASE x # p
        BY <2>3, <3>1, <4>2
      <4> QED BY <4>1, <4>2
    <3> QED BY <1>3, <3>1 DEF DownsAreTrue, d0
  <2>7. DownsStay
    <3>1. \A x \in Pids : IsPrefix(downs[x], downs[x])
      BY <1>1 DEF IsPrefix
    <3> QED BY <2>3, <2>4, <3>1 DEF DownsStay, Live
  <2>8. WatchesStart
    BY <2>2, <2>4 DEF WatchesStart
  <2> QED BY <2>5, <2>6, <2>7, <2>8 DEF WatchStep
<1> QED BY <1>2, <1>3

\* recv takes the oldest down and leaves the others.
LEMMA AnswerTaken ==
    ASSUME ReadyInv, NEW p \in Pids, RecvTake(p)
    PROVE  WatchStep
<1>1. downs \in [Pids -> Seq(Downs)]
  BY DEF ReadyInv, TypeInv, TypeOK
<1>2. /\ watches' = watches /\ nextRef' = nextRef
      /\ \/ downs' = downs
         \/ downs[p] # <<>> /\ downs' = [downs EXCEPT ![p] = Tail(@)]
  BY DEF RecvTake, boxVars, relVars, idVars
<1>3. CASE downs' = downs
  BY <1>1, <1>2, <1>3, AnswerSame
<1>4. CASE downs[p] # <<>> /\ downs' = [downs EXCEPT ![p] = Tail(@)]
  <2>1. /\ downs[p] \in Seq(Downs) /\ downs'[p] = Tail(downs[p])
        /\ \A x \in Pids : x # p => downs'[x] = downs[x]
    BY <1>1, <1>4
  <2>2. ToSet(Tail(downs[p])) \subseteq ToSet(downs[p])
    <3>1. /\ Tail(downs[p]) \in Seq(Downs)
          /\ Len(Tail(downs[p])) = Len(downs[p]) - 1
          /\ \A i \in 1 .. Len(Tail(downs[p])) :
                 Tail(downs[p])[i] = downs[p][i + 1]
      BY <1>4, <2>1, HeadTailProperties
    <3>2. /\ DOMAIN Tail(downs[p]) = 1 .. Len(downs[p]) - 1
          /\ DOMAIN downs[p] = 1 .. Len(downs[p])
          /\ Len(downs[p]) \in Nat
      BY <2>1, <3>1, LenProperties
    <3> QED BY <3>1, <3>2 DEF ToSet
  <2>3. WatchesStand /\ WatchesStart
    BY <1>2 DEF WatchesStand, WatchesStart
  <2>4. DownsAreTrue
    <3>1. \A x \in Pids : ToSet(downs'[x]) \subseteq ToSet(downs[x])
      BY <2>1, <2>2
    <3> QED BY <3>1 DEF DownsAreTrue
  <2>5. DownsStay
    <3>1. \A x \in Pids : IsPrefix(downs[x], downs[x])
      BY <1>1 DEF IsPrefix
    <3> QED BY <1>4, <2>1, <3>1 DEF DownsStay, Live
  <2> QED BY <2>3, <2>4, <2>5 DEF WatchStep
<1> QED BY <1>2, <1>3, <1>4

\* No step loses a watch or its answer, or makes one up.
LEMMA AnswerStep == ReadyInv /\ FreshSlots /\ [Next]_vars => [WatchStep]_vars
<1> SUFFICES ASSUME ReadyInv, FreshSlots, Next PROVE WatchStep
  OBVIOUS
<1> USE DEF boxVars, relVars, idVars
<1>1. /\ downs \in [Pids -> Seq(Downs)] /\ nextRef \in 0 .. MaxRefs
      /\ slots \in [Refs -> Slots] /\ exit \in [Pids -> ExitSigs]
  BY DEF ReadyInv, TypeInv, TypeOK
<1>2. ASSUME watches' = watches, downs' = downs, nextRef' = nextRef
      PROVE  WatchStep
  BY <1>1, <1>2, AnswerSame
<1>3. CASE Loop \/ Idle
  BY <1>2, <1>3 DEF Loop, Idle, Finish, PickNext, WaitTimer, WaitNothing, vars
<1>4. ASSUME NEW p \in Pids, Tick(p) \/ Step(p)
      PROVE  WatchStep
  <2>1. CASE \/ Tick(p) \/ Call(p) \/ Charge(p) \/ PushEnsure(p)
             \/ PopEnsure(p) \/ EnsureEnd(p) \/ RecvTimer(p)
             \/ \E q \in Pids, m \in Msgs : Send(p, q, m)
             \/ \E q \in Pids : Link(p, q)
             \/ \E q \in Pids, r \in Reasons : Exit(p, q, r)
             \/ \E r \in Reasons : ExitSelf(p, r)
             \/ \E n \in Names : \/ Unregister(p, n)
                                 \/ \E q \in Pids : Register(p, n, q)
             \/ \E r \in Refs, wait \in BOOLEAN : Await(p, r, wait)
             \/ \E q \in Pids, r \in Refs : Reply(p, q, r)
    <3>1. watches' = watches /\ downs' = downs /\ nextRef' = nextRef
      BY <2>1 DEF Tick, Call, Charge, PushEnsure, PopEnsure, EnsureEnd,
         RecvTimer, Send, Link, Exit, ExitSelf, Unregister, Register,
         Await, Reply
    <3> QED BY <1>2, <3>1
  <2>2. ASSUME NEW r \in Refs, Unwatch(p, r)
        PROVE  WatchStep
    <3>1. /\ watches' = {w \in watches : ~(w.ref = r /\ w.watcher = p)}
          /\ downs' = downs /\ nextRef' = nextRef
      BY <2>2 DEF Unwatch
    <3>2. WatchesStand
      BY <2>2, <3>1 DEF WatchesStand
    <3>3. DownsAreTrue /\ WatchesStart
      BY <3>1 DEF DownsAreTrue, WatchesStart
    <3>4. \A x \in Pids : IsPrefix(downs[x], downs[x])
      BY <1>1 DEF IsPrefix
    <3>5. DownsStay
      BY <3>1, <3>4 DEF DownsStay, Live
    <3> QED BY <3>2, <3>3, <3>5 DEF WatchStep
  <2>3. CASE Return(p) \/ Raise(p) \/ ExitStep(p)
    <3>1. active = p
      BY <2>3 DEF Return, Raise, ExitStep, Runs, Executing
    <3>2. \/ UNCHANGED <<watches, downs, nextRef>>
          \/ Death(p, "done", "normal")
          \/ ~exit[p].set /\ Death(p, "failed", "raise")
          \/ exit[p].set /\ Death(p, "failed", exit[p].reason)
      BY <2>3 DEF Return, Raise, ExitStep, ExitPending
    <3>3. ASSUME NEW how, NEW why, Death(p, how, why)
          PROVE  status'[p] = how
      BY <3>3 DEF Death
    <3>4. CASE Death(p, "done", "normal")
      <4>1. DeathReason(p) = "normal" /\ "normal" \in ExitReasons
        BY <3>3, <3>4 DEF DeathReason, ExitReasons
      <4> QED BY <3>1, <3>4, <4>1, AnswerDeath
    <3>5. CASE ~exit[p].set /\ Death(p, "failed", "raise")
      <4>1. DeathReason(p) = "raise" /\ "raise" \in ExitReasons
        BY <3>3, <3>5 DEF DeathReason, ExitReasons
      <4> QED BY <3>1, <3>5, <4>1, AnswerDeath
    <3>6. CASE exit[p].set /\ Death(p, "failed", exit[p].reason)
      <4>1. DeathReason(p) = exit[p].reason /\ exit[p].reason \in ExitReasons
        BY <1>1, <3>3, <3>6 DEF DeathReason, ExitSigs
      <4> QED BY <3>1, <3>6, <4>1, AnswerDeath
    <3> QED BY <1>2, <3>2, <3>4, <3>5, <3>6
  <2>4. CASE MakeRef(p)
    <3>1. /\ watches' = watches /\ downs' = downs /\ nextRef \in Refs
          /\ slots' = [slots EXCEPT ![nextRef] = [owner |-> p, state |-> "empty"]]
      BY <1>1, <2>4, SchedulerAssumption DEF MakeRef, Refs
    <3>2. slots[nextRef].owner = NoPid
      BY <3>1 DEF FreshSlots, Refs
    <3>3. slots' # slots
      <4>1. slots'[nextRef].owner = p
        BY <1>1, <3>1
      <4>2. p # NoPid
        BY DEF NoPid, Pids
      <4> QED BY <3>2, <4>1, <4>2
    <3> QED BY <1>1, <3>1, <3>3, AnswerSame
  <2>5. ASSUME NEW mode \in {"plain", "linked", "watched"}, Spawn(p, mode)
        PROVE  WatchStep
    <3> DEFINE w0 == [ref |-> nextRef, watcher |-> p, target |-> nextPid]
    <3>1. /\ downs' = downs
          /\ \/ watches' = watches /\ nextRef' = nextRef
             \/ watches' = watches \cup {w0}
      BY <2>5 DEF Spawn
    <3>2. w0.ref = nextRef
      OBVIOUS
    <3> HIDE DEF w0
    <3>3. CASE watches' = watches \cup {w0}
      <4>1. \E w \in watches' : w.ref = nextRef
        BY <3>2, <3>3
      <4> QED BY <1>1, <3>1, <3>3, <4>1, AnswerSame
    <3> QED BY <1>2, <3>1, <3>3
  <2> QED BY <1>4, <2>1, <2>2, <2>3, <2>4, <2>5, AnswerWatch, AnswerTaken DEF Step
<1> QED BY <1>3, <1>4 DEF Next

\* Every watch is answered exactly once and truly: it stands until it is
\* unwatched or its target dies, becomes the down with the reason of that
\* death in the same step, and the down waits in its place for recv; nobody
\* hears of a death that was not, and :noproc only of the dead.
THEOREM DownCorrect == Spec => WatchesAnswered
<1>1. Init => DownInv
  <2>1. Init => DownOnce /\ FreshRefs
    BY DEF Init, DownOnce, FreshRefs
  <2> QED BY <2>1, ReadyInit DEF DownInv
<1>2. DownInv => DownOnce /\ ReadyInv
  BY DEF DownInv
<1>3. AwaitInv => FreshSlots
  BY DEF AwaitInv
<1>4. [WatchStep]_vars =>
          [WatchesStand /\ DownsAreTrue /\ DownsStay /\ WatchesStart]_vars
  BY DEF WatchStep
<1> QED
  BY <1>1, <1>2, <1>3, <1>4, DownStep, AnswerStep, AwaitInit, AwaitStep, PTL
  DEF Spec, WatchesAnswered

\* What an actor's waits leave behind when they do not meet in an ensure
\* block: without await no ref is awaited, without after nobody is in one, and
\* without ensure blocks awaiting is that of the AWAIT an actor resumes.
Unmixed ==
    \A p \in Pids :
        /\ "await" \notin Ops => awaiting[p] = NoRef /\ pc[p] # "await"
        /\ "after" \notin Ops => pc[p] # "after"
        /\ MaxEnsure = 0 /\ awaiting[p] # NoRef =>
               pc[p] = "await" /\ aref[p] = awaiting[p]

\* A step that leaves the waits of every actor alone or ends them.
LEMMA UnmixedQuiet ==
    ASSUME Unmixed,
           \A x \in Pids : /\ pc'[x] = pc[x] \/ pc'[x] \in {"run", "recv"}
                           /\ \/ awaiting'[x] = NoRef
                              \/ /\ awaiting'[x] = awaiting[x]
                                 /\ pc'[x] = pc[x] /\ aref'[x] = aref[x]
    PROVE  Unmixed'
BY DEF Unmixed

\* Apart, the two timed waits stay apart: an actor in recv with an after
\* branch does not stand as the waiter of an answer.
LEMMA UnmixedStep == AwaitInv /\ Unmixed /\ [Next]_vars => Unmixed'
<1> SUFFICES ASSUME AwaitInv, Unmixed, [Next]_vars PROVE Unmixed'
  OBVIOUS
<1> USE DEF bodyVars, timeVars
<1>1. /\ pc \in [Pids -> {"run", "recv", "after", "await"}]
      /\ aref \in [Pids -> Refs \cup {NoRef}]
      /\ awaiting \in [Pids -> Refs \cup {NoRef}]
      /\ NoRef \notin Refs
  BY AwaitFacts
<1>2. CASE UNCHANGED <<pc, aref, awaiting>>
  BY <1>2, UnmixedQuiet
<1>3. ASSUME NEW C \in SUBSET Pids, ClearTimers(C), UNCHANGED <<pc, aref>>
      PROVE  Unmixed'
  BY <1>3, ClearedDeadlines, UnmixedQuiet
<1>4. CASE Loop \/ Idle \/ UNCHANGED vars
  BY <1>2, <1>4 DEF Loop, Idle, Finish, PickNext, WaitTimer, WaitNothing, vars
<1>5. ASSUME NEW p \in Pids, Tick(p) \/ Step(p) PROVE Unmixed'
  <2>1. CASE \/ Tick(p) \/ Call(p) \/ Charge(p) \/ PushEnsure(p)
             \/ PopEnsure(p) \/ EnsureEnd(p) \/ MakeRef(p)
             \/ \E mode \in {"plain", "linked", "watched"} : Spawn(p, mode)
             \/ \E q \in Pids, m \in Msgs : Send(p, q, m)
             \/ \E q \in Pids : Watch(p, q) \/ Link(p, q)
             \/ \E r \in Refs : Unwatch(p, r)
             \/ \E r \in Reasons : ExitSelf(p, r)
             \/ \E n \in Names : \/ Unregister(p, n)
                                 \/ \E q \in Pids : Register(p, n, q)
    <3>1. UNCHANGED <<pc, aref, awaiting>>
      BY <2>1 DEF Tick, Call, Charge, PushEnsure, PopEnsure, EnsureEnd, MakeRef,
         Spawn, Send, Watch, Link, Unwatch, ExitSelf, Unregister, Register
    <3> QED BY <1>2, <3>1
  <2>2. CASE Return(p) \/ Raise(p) \/ ExitStep(p)
    <3>1. CASE \E how, why : Death(p, how, why)
      <4> DEFINE C == {p} \cup {c \in Kids(p) : status[c] = "blocked"}
      <4>1. /\ ClearTimers(C) /\ pc' = [pc EXCEPT ![p] = "run"]
            /\ aref' = [aref EXCEPT ![p] = NoRef]
        BY <3>1 DEF Death
      <4>2. C \in SUBSET Pids /\ p \in C
        BY DEF Kids, Live
      <4> HIDE DEF C
      <4>3. \A x \in Pids : \/ awaiting'[x] = NoRef
                            \/ x # p /\ awaiting'[x] = awaiting[x]
        BY <4>1, <4>2, ClearedDeadlines
      <4> QED BY <1>1, <4>1, <4>3, UnmixedQuiet
    <3>2. CASE ~\E how, why : Death(p, how, why)
      <4>1. \/ UNCHANGED <<pc, aref, awaiting>>
            \/ /\ handlers[p] > 0 /\ awaiting' = awaiting
               /\ pc' = [pc EXCEPT ![p] = "run"]
        BY <2>2, <3>2 DEF Return, Raise, ExitStep
      <4>2. CASE /\ handlers[p] > 0 /\ awaiting' = awaiting
                 /\ pc' = [pc EXCEPT ![p] = "run"]
        <5>1. MaxEnsure # 0
          BY <4>2, SchedulerAssumption
             DEF AwaitInv, SignalInv, ReadyInv, TypeInv, TypeOK
        <5> QED BY <1>1, <4>2, <5>1 DEF Unmixed
      <4> QED BY <1>2, <4>1, <4>2
    <3> QED BY <3>1, <3>2
  <2>3. ASSUME NEW q \in Pids, NEW r \in Reasons, Exit(p, q, r)
        PROVE  Unmixed'
    <3> DEFINE C == {q} \ {x \in Pids : status[x] = "ready"}
    <3>1. UNCHANGED <<pc, aref>> /\ (ClearTimers(C) \/ UNCHANGED awaiting)
      BY <2>3 DEF Exit, ExitActor
    <3>2. C \in SUBSET Pids
      OBVIOUS
    <3> HIDE DEF C
    <3> QED BY <1>2, <1>3, <3>1, <3>2
  <2>4. ASSUME NEW q \in Pids, NEW r \in Refs, Reply(p, q, r)
        PROVE  Unmixed'
    <3>1. UNCHANGED <<pc, aref>> /\ (ClearTimers({q}) \/ UNCHANGED awaiting)
      BY <2>4 DEF Reply
    <3>2. {q} \in SUBSET Pids
      OBVIOUS
    <3> QED BY <1>2, <1>3, <3>1, <3>2
  <2>5. CASE RecvTimer(p)
    <3>1. /\ pc[p] = "run" /\ "after" \in Ops
          /\ pc' = [pc EXCEPT ![p] = "after"] /\ UNCHANGED <<aref, awaiting>>
      BY <2>5 DEF RecvTimer, Runs
    <3> QED BY <1>1, <3>1 DEF Unmixed
  <2>6. CASE RecvTake(p)
    <3>1. /\ pc[p] # "await" /\ aref' = aref
          /\ \/ ClearTimers({p}) \/ UNCHANGED awaiting
          /\ \/ pc' = [pc EXCEPT ![p] = "run"] /\ ClearTimers({p})
             \/ pc' = [pc EXCEPT ![p] = IF @ = "after" THEN "after" ELSE "recv"]
      BY <2>6 DEF RecvTake, Runs
    <3>2. {p} \in SUBSET Pids
      OBVIOUS
    <3>3. /\ \A x \in Pids : x # p => awaiting'[x] = awaiting[x]
          /\ awaiting'[p] = NoRef \/ awaiting'[p] = awaiting[p]
      BY <3>1, <3>2, ClearedDeadlines
    <3>4. /\ \A x \in Pids : x # p => pc'[x] = pc[x]
          /\ pc'[p] \in {"run", "recv"} \/ pc'[p] = pc[p]
          /\ pc'[p] # "await"
      BY <1>1, <3>1
    <3> QED BY <3>1, <3>3, <3>4 DEF Unmixed
  <2>7. ASSUME NEW r \in Refs, NEW wait \in BOOLEAN, Await(p, r, wait)
        PROVE  Unmixed'
    <3>1. \/ pc[p] = "run" /\ "await" \in Ops
          \/ pc[p] = "await" /\ r = aref[p]
      BY <2>7 DEF Await, Runs
    <3>2. "await" \in Ops
      BY <3>1 DEF Unmixed
    <3>3. CASE /\ pc' = [pc EXCEPT ![p] = "await"]
               /\ aref' = [aref EXCEPT ![p] = r]
               /\ \/ awaiting[p] = r /\ awaiting' = awaiting
                  \/ awaiting' = [awaiting EXCEPT ![p] = r]
      <4>1. awaiting'[p] = r /\ aref'[p] = r /\ pc'[p] = "await"
        BY <1>1, <3>3
      <4>2. \A x \in Pids : x # p => /\ awaiting'[x] = awaiting[x]
                                     /\ aref'[x] = aref[x] /\ pc'[x] = pc[x]
        BY <1>1, <3>3
      <4> QED BY <3>2, <4>1, <4>2 DEF Unmixed
    <3>4. CASE /\ pc' = [pc EXCEPT ![p] = "run"]
               /\ aref' = [aref EXCEPT ![p] = NoRef]
               /\ IF awaiting[p] = r THEN ClearTimers({p})
                  ELSE UNCHANGED timeVars
      <4>1. {p} \in SUBSET Pids
        OBVIOUS
      <4>2. \A x \in Pids : x # p => /\ awaiting'[x] = awaiting[x]
                                     /\ aref'[x] = aref[x] /\ pc'[x] = pc[x]
        BY <1>1, <3>4, <4>1, ClearedDeadlines
      <4>3. \/ awaiting'[p] = NoRef
            \/ awaiting'[p] = awaiting[p] /\ awaiting[p] # r
        BY <3>4, <4>1, ClearedDeadlines
      <4>4. pc'[p] = "run"
        BY <1>1, <3>4
      <4>5. MaxEnsure = 0 => awaiting'[p] = NoRef
        BY <3>1, <4>3 DEF Unmixed
      <4> QED BY <3>2, <4>2, <4>4, <4>5 DEF Unmixed
    <3> QED BY <2>7, <3>3, <3>4 DEF Await
  <2> QED BY <1>5, <2>1, <2>2, <2>3, <2>4, <2>5, <2>6, <2>7 DEF Step
<1> QED BY <1>4, <1>5 DEF Next

\* An actor in a recv with an after branch sleeps with its timer; the branch
\* lost its deadline only if a signal is about to end the recv.
Timeouts ==
    \A x \in Pids : pc[x] = "after" =>
        /\ x \in Live
        /\ status[x] = "blocked" => x \in timers
        /\ deadline[x] = "zero" =>
               ExitPending(x) /\ (active = x => over = FALSE)

TimeoutInv == AwaitInv /\ Unmixed /\ Timeouts

\* Waits cannot meet: a program without await, without recv with an after
\* branch, or without ensure blocks.
WaitsApart == "await" \notin Ops \/ "after" \notin Ops \/ MaxEnsure = 0

\* A signal that waits to be acted upon still does after another one.
LEMMA PendingKept ==
    ASSUME NEW sig \in ExitSigs, sig.set, ~sig.unwinding, NEW r
    PROVE  SignalExit(sig, r).set /\ ~SignalExit(sig, r).unwinding
BY DEF SignalExit, ExitSigs

\* What another actor, or the loop, may do to an actor in such a recv.
TouchesWaiter(x) ==
    /\ \/ status'[x] = "ready"
       \/ /\ status'[x] = status[x]
          /\ status[x] = "blocked" /\ x \in timers => x \in timers'
    /\ \/ exit'[x] = exit[x]
       \/ \E r \in ExitReasons : exit'[x] = SignalExit(exit[x], r)
    /\ \/ deadline'[x] = deadline[x]
       \/ deadline'[x] # "zero"
       \/ exit'[x].set /\ ~exit'[x].unwinding
    /\ active' = x =>
           \/ over' = FALSE
           \/ /\ active = x /\ over' = over
              /\ deadline'[x] = "zero" => deadline[x] = "zero"

\* Whatever touches an actor in recv with an after branch by one of the
\* legal ways leaves it its timer or its wakeup.
LEMMA TimeoutKept ==
    ASSUME TimeoutInv, NEW x \in Pids, pc[x] = "after", TouchesWaiter(x)
    PROVE  /\ x \in Live'
           /\ status'[x] = "blocked" => x \in timers'
           /\ deadline'[x] = "zero" =>
                  /\ exit'[x].set /\ ~exit'[x].unwinding
                  /\ active' = x => over' = FALSE
<1>1. /\ x \in Live /\ exit[x] \in ExitSigs
      /\ status[x] = "blocked" => x \in timers
      /\ deadline[x] = "zero" =>
             /\ exit[x].set /\ ~exit[x].unwinding
             /\ active = x => over = FALSE
  BY DEF TimeoutInv, Timeouts, ExitPending, AwaitInv, SignalInv, ReadyInv,
     TypeInv, TypeOK
<1>2. x \in Live' /\ (status'[x] = "blocked" => x \in timers')
  BY <1>1 DEF Live, TouchesWaiter
<1>3. ASSUME deadline'[x] = "zero"
      PROVE  exit'[x].set /\ ~exit'[x].unwinding
  BY <1>1, <1>3, PendingKept DEF TouchesWaiter
<1> QED BY <1>1, <1>2, <1>3 DEF TouchesWaiter

\* The loop and the clock.
LEMMA LoopTouches ==
    ASSUME TimeoutInv, NEW x \in Pids,
           Loop \/ Idle \/ UNCHANGED vars \/ \E p \in Pids : Tick(p)
    PROVE  pc'[x] = pc[x] /\ TouchesWaiter(x)
<1> USE DEF queueVars, cpuVars, bodyVars, timeVars
<1>1. /\ deadline \in [Pids -> {"zero", "future", "past"}]
      /\ NoPid \notin Pids
  BY AwaitFacts DEF TimeoutInv
<1>2. CASE WaitTimer
  <2> DEFINE due == {p \in timers : deadline[p] = "past"}
             woken == {p \in due : status[p] = "blocked"}
  <2>1. /\ timers' = timers \ due
        /\ status' = [p \in Pids |-> IF p \in woken THEN "ready" ELSE status[p]]
        /\ UNCHANGED <<cpuVars, pc, exit, deadline>>
        /\ active = NoPid
    BY <1>2 DEF WaitTimer, AtLoopHead
  <2> QED BY <1>1, <2>1 DEF TouchesWaiter
<1>3. CASE PickNext
  BY <1>3 DEF PickNext, TouchesWaiter
<1>4. CASE Finish \/ WaitNothing \/ Idle \/ UNCHANGED vars
  BY <1>4 DEF Finish, WaitNothing, Idle, vars, TouchesWaiter
<1>5. ASSUME NEW p \in Pids, Tick(p)
      PROVE  pc'[x] = pc[x] /\ TouchesWaiter(x)
  <2>1. /\ deadline[p] = "future" /\ deadline' = [deadline EXCEPT ![p] = "past"]
        /\ UNCHANGED <<status, cpuVars, pc, exit, timers>>
    BY <1>5 DEF Tick
  <2> QED BY <1>1, <2>1 DEF TouchesWaiter
<1> QED BY <1>2, <1>3, <1>4, <1>5 DEF Loop

\* The running actor, of which no opcode but RECVTIMER and RECVTAKE leaves it
\* in such a recv, and the others.
LEMMA StepTouches ==
    ASSUME TimeoutInv, WaitsApart, NEW p \in Pids, Step(p), NEW x \in Pids,
           pc'[x] = "after"
    PROVE  \/ x = p /\ (RecvTimer(p) \/ RecvTake(p))
           \/ x # p /\ pc[x] = "after" /\ TouchesWaiter(x)
<1> USE DEF queueVars, cpuVars, bodyVars, timeVars
<1>1. /\ AwaitInv /\ Unmixed /\ Timeouts
      /\ status \in [Pids -> {"unborn", "ready", "blocked", "done", "failed"}]
      /\ pc \in [Pids -> {"run", "recv", "after", "await"}]
      /\ NoPid \notin Pids /\ timers \subseteq Pids
  BY AwaitFacts DEF TimeoutInv
<1>2. /\ exit \in [Pids -> ExitSigs]
      /\ deadline \in [Pids -> {"zero", "future", "past"}]
      /\ "linked" \in ExitReasons /\ Reasons \subseteq ExitReasons
  BY SchedulerAssumption DEF TimeoutInv, AwaitInv, SignalInv, ReadyInv, TypeInv,
     TypeOK, ExitReasons
<1>3. active = p
  BY StepActive DEF TimeoutInv, AwaitInv, SignalInv
\* Opcodes that touch nobody else's waits.
<1>4. ASSUME pc[p] = "run" \/ pc'[p] = "run",
             \A y \in Pids : y # p => pc'[y] = pc[y],
             pc'[p] = pc[p] \/ pc'[p] = "run",
             x # p /\ pc[x] = "after" => TouchesWaiter(x)
      PROVE  x # p /\ pc[x] = "after" /\ TouchesWaiter(x)
  BY <1>1, <1>4 DEF Runs
<1>5. ASSUME UNCHANGED timeVars, active' = p \/ active' = NoPid,
             status'[x] = status[x] \/ status'[x] = "ready",
             exit'[x] = exit[x], x # p
      PROVE  TouchesWaiter(x)
  BY <1>1, <1>5 DEF TouchesWaiter
<1>6. CASE \/ Call(p) \/ Charge(p) \/ PushEnsure(p) \/ PopEnsure(p)
           \/ EnsureEnd(p) \/ MakeRef(p)
           \/ \E q \in Pids : Watch(p, q) \/ Link(p, q)
           \/ \E r \in Refs : Unwatch(p, r)
           \/ \E r \in Reasons : ExitSelf(p, r)
           \/ \E n \in Names : \/ Unregister(p, n)
                               \/ \E q \in Pids : Register(p, n, q)
  <2>1. /\ pc[p] = "run" /\ UNCHANGED <<pc, status, timeVars>>
        /\ active' = p \/ active' = NoPid
        /\ \A y \in Pids : y # p => exit'[y] = exit[y]
    BY <1>2, <1>3, <1>6 DEF Call, Burn, Charge, PushEnsure, PopEnsure,
       EnsureEnd, MakeRef, Watch, Link, Unwatch, ExitSelf, Unregister, Register,
       Runs
  <2> QED BY <1>4, <1>5, <2>1
<1>7. CASE \/ \E mode \in {"plain", "linked", "watched"} : Spawn(p, mode)
           \/ \E q \in Pids, m \in Msgs : Send(p, q, m)
  <2>1. /\ pc[p] = "run" /\ UNCHANGED <<pc, exit, timeVars, active>>
        /\ \A y \in Pids : status'[y] = status[y] \/ status'[y] = "ready"
    BY <1>1, <1>7 DEF Spawn, Send, Runs
  <2> QED BY <1>3, <1>4, <1>5, <2>1
<1>8. CASE Return(p) \/ Raise(p) \/ ExitStep(p)
  <2>1. CASE \E how, why : Death(p, how, why)
    <3>1. PICK how, why : Death(p, how, why)
      BY <2>1
    <3> DEFINE C == {p} \cup {c \in Kids(p) : status[c] = "blocked"}
               W == Wakes({q \in Live \ (Kids(p) \cup {p}) : Told(p, q) # {}})
    <3>2. /\ ClearTimers(C) /\ active' = NoPid
          /\ status' = [q \in Pids |-> IF q = p THEN how
                                       ELSE IF q \in Kids(p) \cup W
                                       THEN "ready" ELSE status[q]]
          /\ exit' = [q \in Pids |-> IF q = p THEN NoExit
                                     ELSE IF q \in Kids(p)
                                     THEN SignalExit(exit[q], "linked")
                                     ELSE exit[q]]
          /\ pc' = [pc EXCEPT ![p] = "run"]
      BY <3>1 DEF Death, LeaveCpu
    <3>3. C \in SUBSET Pids /\ C \subseteq {p} \cup Kids(p)
      BY DEF Kids, Live
    <3> HIDE DEF C, W
    <3>4. /\ \A y \in Pids \ C : deadline'[y] = deadline[y]
                                 /\ (y \in timers => y \in timers')
      BY <1>1, <3>2, <3>3, ClearedDeadlines
    <3>5. x # p /\ pc[x] = "after"
      BY <1>1, <3>2
    <3>6. CASE x \in Kids(p)
      <4>1. ~exit[x].set
        BY <3>6 DEF Kids
      <4>2. SignalExit(exit[x], "linked").set
            /\ ~SignalExit(exit[x], "linked").unwinding
        BY <4>1 DEF SignalExit, NoExit
      <4>3. /\ exit'[x] = SignalExit(exit[x], "linked")
            /\ status'[x] = "ready"
        BY <3>2, <3>5, <3>6
      <4> QED BY <1>1, <1>2, <3>2, <3>5, <4>2, <4>3 DEF TouchesWaiter
    <3>7. CASE x \notin Kids(p)
      <4>1. /\ x \notin C /\ exit'[x] = exit[x]
            /\ status'[x] = status[x] \/ status'[x] = "ready"
        BY <3>2, <3>3, <3>5, <3>7
      <4> QED BY <1>1, <3>2, <3>4, <3>5, <4>1 DEF TouchesWaiter
    <3> QED BY <3>6, <3>7
  <2>2. CASE ~\E how, why : Death(p, how, why)
    <3>1. /\ UNCHANGED <<status, timeVars>>
          /\ active' = p \/ active' = NoPid
          /\ \A y \in Pids : y # p => exit'[y] = exit[y]
          /\ \/ pc' = pc /\ pc[p] = "run"
             \/ pc' = [pc EXCEPT ![p] = "run"]
      BY <1>2, <1>3, <1>8, <2>2 DEF Return, Raise, ExitStep, Burn, Runs
    <3>2. /\ \A y \in Pids : y # p => pc'[y] = pc[y]
          /\ pc'[p] = "run"
      BY <1>1, <3>1
    <3> QED BY <1>4, <1>5, <3>1, <3>2
  <2> QED BY <2>1, <2>2
<1>9. ASSUME NEW q \in Pids, NEW r \in Reasons, Exit(p, q, r)
      PROVE  x # p /\ pc[x] = "after" /\ TouchesWaiter(x)
  <2>1. /\ pc[p] = "run" /\ pc' = pc /\ active' = p /\ q # p
    BY <1>3, <1>9 DEF Exit, Runs
  <2>2. CASE UNCHANGED <<exit, queueVars, timeVars>>
    BY <1>4, <1>5, <2>1, <2>2
  <2>3. CASE ~UNCHANGED <<exit, queueVars, timeVars>>
    <3> DEFINE C == {q} \ {y \in Pids : status[y] = "ready"}
    <3>1. /\ exit' = [exit EXCEPT ![q] = SignalExit(@, r)]
          /\ SignalExit(exit[q], r) # exit[q]
          /\ status' = [status EXCEPT ![q] = "ready"] /\ ClearTimers(C)
      BY <1>9, <2>3 DEF Exit, ExitActor
    <3>2. C \in SUBSET Pids /\ C \subseteq {q}
      OBVIOUS
    <3> HIDE DEF C
    <3>3. \A y \in Pids \ C : deadline'[y] = deadline[y]
                              /\ (y \in timers => y \in timers')
      BY <1>1, <3>1, <3>2, ClearedDeadlines
    <3>4. SignalExit(exit[q], r).set /\ ~SignalExit(exit[q], r).unwinding
      <4>1. exit[q] \in ExitSigs
        BY <1>2
      <4> QED BY <3>1, <4>1 DEF SignalExit, NoExit, ExitSigs
    <3>5. CASE x = q
      <4>1. /\ exit'[x] = SignalExit(exit[x], r) /\ status'[x] = "ready"
            /\ r \in ExitReasons
        BY <1>1, <1>2, <3>1, <3>5
      <4> QED BY <1>1, <2>1, <3>4, <3>5, <4>1 DEF TouchesWaiter
    <3>6. CASE x # q
      <4>1. exit'[x] = exit[x] /\ status'[x] = status[x] /\ x \notin C
        BY <1>1, <1>2, <3>1, <3>2, <3>6
      <4>2. x # p => TouchesWaiter(x)
        BY <1>1, <2>1, <3>3, <4>1 DEF TouchesWaiter
      <4> QED BY <1>4, <2>1, <4>2
    <3> QED BY <3>5, <3>6
  <2> QED BY <2>2, <2>3
<1>10. ASSUME NEW r \in Refs, NEW wait \in BOOLEAN, Await(p, r, wait)
       PROVE  x # p /\ pc[x] = "after" /\ TouchesWaiter(x)
  <2>1. AwaitEffect(p, r) /\ exit' = exit
    BY <1>10, AwaitShape DEF Await
  <2>2. /\ \A y \in Pids : y # p => pc'[y] = pc[y] /\ status'[y] = status[y]
        /\ pc'[p] \in {"run", "await"}
        /\ active' = p \/ active' = NoPid
    BY <1>1, <1>3, <2>1 DEF AwaitEffect, LeaveCpu
  <2>3. \A y \in Pids : y # p => /\ deadline'[y] = deadline[y]
                                 /\ y \in timers => y \in timers'
    <3>1. CASE ClearTimers({p})
      <4>1. {p} \in SUBSET Pids
        OBVIOUS
      <4> QED BY <1>1, <3>1, <4>1, ClearedDeadlines
    <3>2. CASE ~ClearTimers({p})
      BY <1>2, <2>1, <3>2 DEF AwaitEffect
    <3> QED BY <3>1, <3>2
  <2>4. x # p /\ pc[x] = "after"
    BY <2>2
  <2> QED BY <1>1, <2>1, <2>2, <2>3, <2>4 DEF TouchesWaiter
<1>11. ASSUME NEW q \in Pids, NEW r \in Refs, Reply(p, q, r)
       PROVE  x # p /\ pc[x] = "after" /\ TouchesWaiter(x)
  <2>1. /\ pc[p] = "run" /\ UNCHANGED <<pc, exit, active>>
    BY <1>11 DEF Reply, Runs
  <2>2. x # p /\ pc[x] = "after"
    BY <2>1
  <2>3. CASE AnswerWakes(q, r)
    <3>1. ClearTimers({q}) /\ status' = [status EXCEPT ![q] = "ready"]
      BY <1>11, <2>3 DEF Reply
    <3>2. x # q
      <4>1. NoRef \notin Refs
        BY <1>1, AwaitFacts
      <4>2. awaiting[q] # NoRef
        BY <2>3, <4>1 DEF AnswerWakes
      <4> QED BY <1>1, <2>2, <4>2 DEF WaitsApart, Unmixed
    <3>3. {q} \in SUBSET Pids
      OBVIOUS
    <3>4. deadline'[x] = deadline[x] /\ (x \in timers => x \in timers')
      BY <1>1, <3>1, <3>2, <3>3, ClearedDeadlines
    <3>5. status'[x] = status[x]
      BY <1>1, <3>1, <3>2
    <3> QED BY <1>3, <2>1, <2>2, <3>4, <3>5 DEF TouchesWaiter
  <2>4. CASE ~AnswerWakes(q, r)
    <3>1. UNCHANGED <<status, timeVars>>
      BY <1>11, <2>4 DEF Reply
    <3> QED BY <1>3, <1>5, <2>1, <2>2, <3>1
  <2> QED BY <2>3, <2>4
<1>12. CASE RecvTimer(p) \/ RecvTake(p)
  <2>1. CASE x = p
    BY <1>12, <2>1
  <2>2. CASE x # p
    <3>1. /\ pc'[x] = pc[x] /\ status'[x] = status[x] /\ exit' = exit
          /\ active' = p \/ active' = NoPid
      BY <1>1, <1>3, <1>12, <2>2 DEF RecvTimer, RecvTake, LeaveCpu
    <3>2. deadline'[x] = deadline[x] /\ (x \in timers => x \in timers')
      <4>1. CASE ClearTimers({p})
        <5>1. {p} \in SUBSET Pids
          OBVIOUS
        <5> QED BY <1>1, <2>2, <4>1, <5>1, ClearedDeadlines
      <4>2. CASE ~ClearTimers({p})
        BY <1>2, <1>12, <2>2, <4>2 DEF RecvTimer, RecvTake
      <4> QED BY <4>1, <4>2
    <3> QED BY <1>1, <2>2, <3>1, <3>2 DEF TouchesWaiter
  <2> QED BY <2>1, <2>2
<1> QED BY <1>6, <1>7, <1>8, <1>9, <1>10, <1>11, <1>12 DEF Step

\* Every step keeps the timers of those in recv with an after branch.
LEMMA TimeoutStep ==
    ASSUME WaitsApart
    PROVE  TimeoutInv /\ [Next]_vars => TimeoutInv'
<1> SUFFICES ASSUME TimeoutInv, [Next]_vars PROVE TimeoutInv'
  OBVIOUS
<1>1. AwaitInv' /\ Unmixed'
  BY AwaitStep, UnmixedStep DEF TimeoutInv
<1>2. Timeouts'
  <2> SUFFICES ASSUME NEW x \in Pids, pc'[x] = "after"
               PROVE  /\ x \in Live'
                      /\ status'[x] = "blocked" => x \in timers'
                      /\ deadline'[x] = "zero" =>
                             /\ exit'[x].set /\ ~exit'[x].unwinding
                             /\ active' = x => over' = FALSE
    BY DEF Timeouts, ExitPending
  <2>1. CASE pc[x] = "after" /\ TouchesWaiter(x)
    BY <2>1, TimeoutKept
  <2>2. CASE RecvTimer(x) \/ RecvTake(x)
    <3>1. /\ AwaitInv /\ Timeouts /\ DeadlineHasTimer
          /\ status \in [Pids -> {"unborn", "ready", "blocked", "done",
                                  "failed"}]
          /\ pc \in [Pids -> {"run", "recv", "after", "await"}]
          /\ deadline \in [Pids -> {"zero", "future", "past"}]
      BY AwaitFacts DEF TimeoutInv
    <3>2. status[x] = "ready"
      BY <2>2, ReadyFacts DEF RecvTimer, RecvTake, Runs, Executing, TimeoutInv,
         AwaitInv, SignalInv
    <3>3. CASE RecvTimer(x)
      <4>1. /\ status' = status /\ timers' = timers \cup {x}
            /\ deadline' = [deadline EXCEPT ![x] = "future"]
        BY <3>3 DEF RecvTimer, queueVars
      <4> QED BY <3>1, <3>2, <4>1 DEF Live
    <3>4. CASE RecvTake(x)
      <4>1. /\ pc[x] = "after" /\ deadline[x] # "past" /\ Executing(x)
            /\ status' = [status EXCEPT ![x] = "blocked"]
            /\ UNCHANGED timeVars
        BY <3>1, <3>4 DEF RecvTake, Runs
      <4>2. deadline[x] # "zero"
        BY <3>1, <4>1 DEF Timeouts, Executing
      <4>3. deadline[x] = "future" /\ x \in timers
        BY <3>1, <4>1, <4>2 DEF DeadlineHasTimer
      <4> QED BY <3>1, <4>1, <4>3 DEF Live, timeVars
    <3> QED BY <2>2, <3>3, <3>4
  <2>3. CASE Loop \/ Idle \/ UNCHANGED vars \/ \E p \in Pids : Tick(p)
    BY <2>1, <2>3, LoopTouches
  <2>4. CASE \E p \in Pids : Step(p)
    BY <2>1, <2>2, <2>4, StepTouches
  <2> QED BY <2>3, <2>4 DEF Next
<1> QED BY <1>1, <1>2 DEF TimeoutInv

\* Where await and recv with an after branch do not meet in an ensure block,
\* every sleeper has what it waits for: in await an empty slot and a timer,
\* in a recv with an after branch its timer.
THEOREM SleeperCorrect ==
    ASSUME WaitsApart
    PROVE  Spec => []SleeperHasTimer
<1>1. Init => TimeoutInv
  <2>1. Init => Unmixed /\ Timeouts
    BY DEF Init, Unmixed, Timeouts
  <2> QED BY <2>1, AwaitInit DEF TimeoutInv
<1>2. TimeoutInv => SleeperHasTimer
  BY DEF TimeoutInv, AwaitInv, AwaiterHasTimer, Timeouts, SleeperHasTimer
<1>3. TimeoutInv /\ [Next]_vars => TimeoutInv'
  BY TimeoutStep
<1> QED BY <1>1, <1>2, <1>3, PTL DEF Spec
=============================================================================
