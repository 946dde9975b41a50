----------------------------- MODULE TimerQueue -----------------------------
(* What the timers of the scheduler promise (docs/01, G4): the timers of recv, *)
(* await and Timer.send_after are one queue in the order (deadline, arming).   *)
(* A timer that is armed is served once, not before its time and not after one *)
(* that comes later in the order, or it is taken off and never served.         *)
EXTENDS Naturals, Sequences

VARIABLES pending,   \* the armed timers: [id, dl, sq]
          served,    \* the timers served so far, in order
          armings,   \* how many were armed
          now        \* the clock

vars == <<pending, served, armings, now>>

Earlier(s, t) == s.dl < t.dl \/ (s.dl = t.dl /\ s.sq < t.sq)
Due == {t \in pending : t.dl <= now}

Init == pending = {} /\ served = <<>> /\ armings = 0 /\ now = 0

\* Arming a timer that is armed already moves it to its new place.
Arm(id, dl) ==
    /\ dl >= now
    /\ pending' = {t \in pending : t.id # id} \cup {[id |-> id, dl |-> dl, sq |-> armings]}
    /\ armings' = armings + 1
    /\ UNCHANGED <<served, now>>

Disarm(t) == pending' = pending \ {t} /\ UNCHANGED <<served, armings, now>>

\* All that is due is served, in the order.
Serve ==
    LET first == Len(served) + 1
        last == Len(served')
    IN  /\ Due # {}
        /\ served = SubSeq(served', 1, Len(served))
        /\ Due = {served'[k] : k \in first .. last}
        /\ \A j, k \in first .. last : j < k => Earlier(served'[j], served'[k])
        /\ pending' = pending \ Due
        /\ UNCHANGED <<armings, now>>

Tick == now' = now + 1 /\ UNCHANGED <<pending, served, armings>>

Next ==
    \/ \E id \in {t.id : t \in pending'}, dl \in {t.dl : t \in pending'} : Arm(id, dl)
    \/ \E t \in pending : Disarm(t)
    \/ Serve \/ Tick

Spec == Init /\ [][Next]_vars
=============================================================================
