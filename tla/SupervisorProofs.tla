-------------------------- MODULE SupervisorProofs --------------------------
(* Proofs about Supervisor: the three safety invariants its run checks, for *)
(* any number of children, clients and restarts, any window and any clock.  *)
(* The inductive invariant is IInv; every part of it is a fact the code     *)
(* relies on without saying it.                                             *)
EXTENDS Supervisor, FiniteSetTheorems, WellFoundedInduction, TLAPS

-----------------------------------------------------------------------------
(* The inductive invariant *)

\* An incarnation that lives, was asked to exit, killed or watched was born.
AllBorn ==
    /\ alive \cup asked \cup killed \cup watched \subseteq DOMAIN born
    /\ \A i \in DOMAIN downs : downs[i].ref \in DOMAIN born \ alive

\* Every entry of children is an incarnation of its name, and neither names
\* nor incarnations repeat; in init the names are 1, 2, ...
Listed ==
    /\ \A i \in DOMAIN children :
           /\ children[i].pid \in DOMAIN born
           /\ born[children[i].pid].name = children[i].name
    /\ \A i, j \in DOMAIN children :
           \/ children[i].pid = children[j].pid
           \/ children[i].name = children[j].name
           => i = j

\* What start_child starts: in init the next name of the specification, later
\* the successor of an entry whose incarnation is dead.
TaskOK ==
    /\ mode = "loop" => task.old = 0 /\ starter # "waiting"
    /\ mode = "starting" =>
         /\ task.name \in 1 .. Count
         /\ task.new # 0 =>
              /\ task.new \in DOMAIN born /\ born[task.new].name = task.name
              /\ \A i \in DOMAIN children : children[i].pid # task.new
         /\ InInit =>
              /\ task.old = 0 /\ task.name = Len(children) + 1
              /\ \A i \in DOMAIN children : children[i].name = i
         /\ ~InInit =>
              /\ task.old \notin alive
              /\ \E i \in DOMAIN children :
                    children[i].pid = task.old /\ children[i].name = task.name

\* Every living incarnation is known: it is listed, or being started.
LivingListed ==
    mode \in {"starting", "loop"} =>
        \A p \in alive : \/ \E i \in DOMAIN children : children[i].pid = p
                         \/ mode = "starting" /\ task.new = p

\* Nobody is asked to exit before stop_children begins.
NotAskedYet == mode \in {"starting", "loop"} => asked = {}

\* Outside its own restart no child falls unnoticed.
Noticed ==
    mode \in {"starting", "loop"} => \A i \in DOMAIN children :
        \/ children[i].pid = task.old
        \/ children[i].pid \in alive \cap watched
        \/ \E j \in DOMAIN downs : downs[j].ref = children[i].pid

OneIncarnation == \A p, q \in alive : born[p].name = born[q].name => p = q

\* stop_children: every living child is still to be stopped, those seen are
\* dead, what is left is in reverse order, and a child was asked only when no
\* later one is left.
Stopping ==
    mode = "stopping" =>
        /\ stop.phase # "ask" => stop.left # <<>>
        /\ stop.seen \cap alive = {}
        /\ \A p \in alive : \E k \in DOMAIN stop.left : stop.left[k].pid = p
        /\ \A i, j \in DOMAIN children, k, l \in DOMAIN stop.left :
               i < j /\ children[i].pid = stop.left[k].pid
                     /\ children[j].pid = stop.left[l].pid => l < k
        /\ \A i, j \in DOMAIN children, l \in DOMAIN stop.left :
               i < j /\ children[i].pid \in asked
                   => children[j].pid # stop.left[l].pid

\* stop has been answered :ok only by a supervisor that left nobody behind.
NobodyLeft ==
    (\E c \in Clients : call[c] = "stopped") => mode = "dead" /\ alive = {}

\* restarts holds the last restarts, and those before them are out of the
\* window for good.
Window ==
    /\ \A i, j \in DOMAIN began : i <= j => began[i] <= began[j]
    /\ \A i \in DOMAIN began : began[i] <= now
    /\ Len(restarts) <= Len(began)
    /\ \A i \in DOMAIN restarts :
           restarts[i] = began[Len(began) - Len(restarts) + i]
    /\ \A i \in 1 .. (Len(began) - Len(restarts)) : now - began[i] >= Within

IInv == /\ TypeOK /\ AllBorn /\ Listed /\ TaskOK /\ LivingListed /\ NotAskedYet
        /\ Noticed /\ OneIncarnation /\ Stopping /\ NobodyLeft
        /\ Window /\ RestartsAreBounded

-----------------------------------------------------------------------------
(* Operators on sequences *)

\* Enum.filter on a reference keeps the other entries, in their order.
LEMMA OthersKeep ==
    ASSUME TypeOK, Listed, NEW i \in DOMAIN children
    PROVE  LET o == Others(children[i].pid)
               at(k) == IF k < i THEN k ELSE k + 1
           IN  /\ o \in Seq(Child) /\ Len(o) = Len(children) - 1
               /\ \A k \in DOMAIN o : /\ at(k) \in DOMAIN children \ {i}
                                      /\ o[k] = children[at(k)]
<1> DEFINE o == Others(children[i].pid)
<1>1. children \in Seq(Child)
  BY DEF TypeOK
<1>2. o = RemoveAt(children, i)
  <2>1. i = CHOOSE j \in DOMAIN children : children[j].pid = children[i].pid
    BY DEF Listed
  <2> QED BY <2>1 DEF Others
<1>3. o = SubSeq(children, 1, i - 1) \o SubSeq(children, i + 1, Len(children))
  BY <1>2 DEF RemoveAt
<1> DEFINE a == SubSeq(children, 1, i - 1)
           b == SubSeq(children, i + 1, Len(children))
<1>4. /\ a \in Seq(Child) /\ Len(a) = i - 1
      /\ \A k \in 1 .. i - 1 : a[k] = children[k]
  BY <1>1
<1>5. /\ b \in Seq(Child) /\ Len(b) = Len(children) - i
      /\ \A k \in 1 .. Len(children) - i : b[k] = children[i + k]
  BY <1>1
<1> HIDE DEF a, b
<1>6. o = a \o b
  BY <1>3 DEF a, b
<1> HIDE DEF o
<1>7. /\ o \in Seq(Child) /\ Len(o) = Len(children) - 1
      /\ \A k \in DOMAIN o : o[k] = IF k < i THEN a[k] ELSE b[k - (i - 1)]
  BY <1>1, <1>4, <1>5, <1>6
<1>8. ASSUME NEW k \in DOMAIN o
      PROVE  /\ (IF k < i THEN k ELSE k + 1) \in DOMAIN children \ {i}
             /\ o[k] = children[IF k < i THEN k ELSE k + 1]
  <2>1. CASE k < i
    BY <1>1, <1>4, <1>7, <2>1
  <2>2. CASE ~(k < i)
    <3>1. k - (i - 1) \in 1 .. Len(children) - i
      BY <1>1, <1>7, <2>2
    <3>2. b[k - (i - 1)] = children[i + (k - (i - 1))]
      BY <1>5, <3>1
    <3> QED BY <1>1, <1>7, <2>2, <3>1, <3>2
  <2> QED BY <2>1, <2>2
<1> QED BY <1>7, <1>8 DEF o

\* Enum.reverse.
LEMMA ReverseFacts ==
    ASSUME NEW S, NEW s \in Seq(S)
    PROVE  /\ Reverse(s) \in Seq(S) /\ Len(Reverse(s)) = Len(s)
           /\ \A k \in 1 .. Len(s) : Reverse(s)[k] = s[(Len(s) - k) + 1]
BY DEF Reverse

\* The times of restart are those of the last restarts, so the ones out of
\* the window come first.
LEMMA OldOnesFirst ==
    ASSUME NEW n \in Nat, NEW S \in SUBSET (1 .. n),
           \A i \in 1 .. n, j \in S : i <= j => i \in S
    PROVE  /\ Cardinality(S) \in 0 .. n
           /\ S = 1 .. Cardinality(S)
<1> DEFINE R == OpToRel(<, Nat)
           T == (1 .. n + 1) \ S
<1>1. /\ n + 1 \in T /\ T \subseteq Nat
  OBVIOUS
<1>2. PICK m \in T : \A y \in T : ~(<<y, m>> \in R)
  <2>1. IsWellFoundedOn(R, Nat)
    BY NatLessThanWellFounded
  <2>2. T \subseteq Nat /\ T # {}
    BY <1>1
  <2> HIDE DEF R, T
  <2> QED BY ONLY <2>1, <2>2, WFMin, Zenon
<1>3. \A y \in T : ~(y < m)
  BY <1>1, <1>2 DEF OpToRel
<1>4. S = 1 .. m - 1
  <2>1. m \in 1 .. n + 1 /\ m \notin S
    BY DEF T
  <2>2. ASSUME NEW j \in S PROVE j \in 1 .. m - 1
    <3>1. CASE j >= m
      <4>1. m \in 1 .. n /\ m <= j
        BY <2>1, <3>1
      <4> QED BY <2>1, <4>1
    <3> QED BY <2>1, <3>1
  <2>3. ASSUME NEW j \in 1 .. m - 1 PROVE j \in S
    <3>1. j \in 1 .. n /\ j < m
      BY <2>1
    <3> QED BY <1>3, <3>1
  <2> QED BY <2>2, <2>3
<1>5. Cardinality(1 .. m - 1) = m - 1
  <2>1. /\ 1 \in Int /\ m - 1 \in Int /\ m \in Nat /\ m >= 1
    BY <1>1
  <2>2. Cardinality(1 .. m - 1) = IF 1 > m - 1 THEN 0 ELSE (m - 1) - 1 + 1
    BY <2>1, FS_Interval
  <2> QED BY <2>1, <2>2
<1> QED BY <1>1, <1>4, <1>5

\* What InWindow leaves is the end of restarts; the rest is out of the window.
LEMMA InWindowFacts ==
    ASSUME TypeOK, Window
    PROVE  LET ts == InWindow(restarts)
           IN  /\ ts \in Seq(Nat) /\ Len(ts) <= Len(restarts)
               /\ \A i \in DOMAIN ts :
                      ts[i] = restarts[Len(restarts) - Len(ts) + i]
               /\ \A i \in 1 .. (Len(restarts) - Len(ts)) :
                      now - restarts[i] >= Within
<1> DEFINE old == {i \in DOMAIN restarts : now - restarts[i] >= Within}
           n == Len(restarts)
           c == Cardinality(old)
           ts == InWindow(restarts)
<1>1. /\ restarts \in Seq(Nat) /\ now \in Nat /\ began \in Seq(Nat) /\ n \in Nat
      /\ Within \in Nat /\ Len(began) \in Nat
  BY SupervisorAssumption DEF TypeOK
<1>2. ASSUME NEW i \in DOMAIN restarts, NEW j \in DOMAIN restarts, i <= j
      PROVE  restarts[i] <= restarts[j]
  <2> DEFINE k == Len(began) - n
  <2>1. n <= Len(began) /\ i \in 1 .. n /\ j \in 1 .. n
    <3>1. n <= Len(began)
      BY DEF Window
    <3>2. DOMAIN restarts = 1 .. n
      BY <1>1
    <3> HIDE DEF n, old, c, ts
    <3> QED BY <3>1, <3>2
  <2>2. k + i \in DOMAIN began /\ k + j \in DOMAIN began /\ k + i <= k + j
    <3>1. /\ DOMAIN began = 1 .. Len(began)
          /\ Len(began) \in Nat /\ n \in Nat
      BY <1>1
    <3>2. i <= j
      BY <1>2
    <3> HIDE DEF n
    <3> QED BY <2>1, <3>1, <3>2
  <2>3. restarts[i] = began[k + i] /\ restarts[j] = began[k + j]
    BY <2>1 DEF Window
  <2> QED BY <2>2, <2>3 DEF Window
<1>3. \A i \in 1 .. n, j \in old : i <= j => i \in old
  BY <1>1, <1>2
<1>4. old \in SUBSET (1 .. n)
  BY <1>1
<1>5. c \in 0 .. n /\ old = 1 .. c
  <2> HIDE DEF old, n
  <2> QED BY <1>1, <1>3, <1>4, OldOnesFirst
<1>6. ts = SubSeq(restarts, c + 1, n)
  BY DEF InWindow
<1> HIDE DEF c, ts
<1>7. /\ ts \in Seq(Nat) /\ Len(ts) = n - c
      /\ \A i \in 1 .. n - c : ts[i] = restarts[c + i]
  BY <1>1, <1>5, <1>6
<1>8. \A i \in 1 .. c : now - restarts[i] >= Within
  BY <1>5
<1>9. /\ Len(ts) <= n /\ n - Len(ts) = c
      /\ DOMAIN ts = 1 .. n - c
  BY <1>1, <1>5, <1>7
<1>10. /\ \A i \in DOMAIN ts : ts[i] = restarts[n - Len(ts) + i]
       /\ \A i \in 1 .. (n - Len(ts)) : now - restarts[i] >= Within
  BY <1>7, <1>8, <1>9
<1> QED BY <1>7, <1>9, <1>10 DEF ts

-----------------------------------------------------------------------------
(* Types *)

\* What stop_children begins with, whatever list it is given.
LEMMA BeginStopType ==
    ASSUME NEW why \in {"init", "stop", "escalate"}, NEW cs \in Seq(Child),
           NEW by \in Clients \cup {"none"}, BeginStop(why, cs, by)
    PROVE  /\ mode' = "stopping" /\ expired' \in BOOLEAN
           /\ stop' \in Stops
<1>1. Order(cs) \in Seq(Child)
  BY ReverseFacts DEF Order
<1> HIDE DEF Child
<1> QED BY <1>1 DEF BeginStop, Order, Stops

\* The small updates of stop.
LEMMA StopsUpdates ==
    ASSUME stop \in Stops
    PROVE  /\ stop.left \in Seq(Child)
           /\ stop.left # <<>> =>
                  /\ [stop EXCEPT !.left = Tail(@)] \in Stops
                  /\ [stop EXCEPT !.left = Tail(@), !.phase = "ask"] \in Stops
           /\ \A ph \in {"ask", "await", "killing"} : [stop EXCEPT !.phase = ph] \in Stops
           /\ \A ref \in Nat : [stop EXCEPT !.seen = @ \cup {ref}] \in Stops
<1>1. stop.left \in Seq(Child)
  BY DEF Stops
<1>2. stop.left # <<>> => Tail(stop.left) \in Seq(Child)
  BY <1>1
<1> HIDE DEF Child
<1> QED BY <1>1, <1>2 DEF Stops

\* What exited leaves behind is a state of the supervisor.
LEMMA ExitedType ==
    ASSUME TypeOK, Listed, Window, NEW i \in DOMAIN children, NEW reason,
           Exited(children[i].name, children[i].pid, reason)
    PROVE  /\ mode' \in {"starting", "loop", "stopping", "dead"}
           /\ children' \in Seq(Child)
           /\ task' \in [name : 0 .. Count, old : Nat, new : Nat]
           /\ restarts' \in Seq(Nat) /\ began' \in Seq(Nat)
           /\ stop' \in Stops
           /\ expired' \in BOOLEAN
<1> DEFINE c == children[i]
           ts == Append(InWindow(restarts), now)
<1>1. /\ c.name \in 1 .. Count /\ c.pid \in Nat /\ Count \in Nat
      /\ Others(c.pid) \in Seq(Child)
      /\ ts \in Seq(Nat) /\ began \in Seq(Nat) /\ now \in Nat
  <2>1. Others(c.pid) \in Seq(Child)
    BY OthersKeep
  <2>2. InWindow(restarts) \in Seq(Nat)
    BY InWindowFacts
  <2>3. c \in Child
    BY DEF TypeOK
  <2> QED BY <2>1, <2>2, <2>3, SupervisorAssumption DEF TypeOK, Child
<1>2. NoTask \in [name : 0 .. Count, old : Nat, new : Nat]
  BY <1>1 DEF NoTask
<1> HIDE DEF c, ts
<1>3. CASE /\ children' = Others(c.pid) /\ mode' = "loop" /\ task' = NoTask
           /\ UNCHANGED <<restarts, stop, expired, began>>
  BY <1>1, <1>2, <1>3 DEF TypeOK
<1>4. CASE /\ BeginStop("escalate", Others(c.pid), "none")
           /\ task' = NoTask /\ UNCHANGED <<restarts, children, began>>
  BY <1>1, <1>2, <1>4, BeginStopType DEF TypeOK
<1>5. CASE /\ restarts' = ts /\ mode' = "starting" /\ began' = Append(began, now)
           /\ task' = [name |-> c.name, old |-> c.pid, new |-> 0]
           /\ UNCHANGED <<children, stop, expired>>
  BY <1>1, <1>5 DEF TypeOK
<1> QED BY <1>3, <1>4, <1>5 DEF Exited, c, ts

\* Every action keeps the types.
LEMMA TypeStep == IInv /\ [Next]_vars => TypeOK'
<1> SUFFICES ASSUME IInv, [Next]_vars PROVE TypeOK'
  OBVIOUS
<1> USE DEF supVars, childVars
<1>1. TypeOK /\ Listed /\ TaskOK /\ Window /\ Stopping
  BY DEF IInv
<1>2. Count \in Nat \ {0}
  BY SupervisorAssumption
<1>19. downs \in Seq(Down) /\ inbox \in Seq(Req) /\ born \in Seq(Birth)
  BY <1>1 DEF TypeOK
<1>20. /\ stop \in Stops /\ children \in Seq(Child)
       /\ call \in [Clients -> {"idle", "waiting", "busy", "timeout", "stopped", "listed"}]
  BY <1>1 DEF TypeOK
<1>3. CASE StartOk
  <2> DEFINE p == Len(born) + 1
  <2>1. /\ task.name \in 1 .. Count /\ p \in Nat
        /\ born' = Append(born, [name |-> task.name, ended |-> "no"])
        /\ alive' = alive \cup {p} /\ task' = [task EXCEPT !.new = p]
    BY <1>1, <1>3 DEF StartOk, TaskOK, TypeOK
  <2>2. /\ [name |-> task.name, ended |-> "no"] \in Birth
        /\ task \in [name : 0 .. Count, old : Nat, new : Nat]
    BY <1>1, <2>1 DEF Birth, TypeOK
  <2> HIDE DEF p
  <2>3. /\ born' \in Seq(Birth) /\ alive' \in SUBSET Nat
        /\ task' \in [name : 0 .. Count, old : Nat, new : Nat]
    <3>1. born' \in Seq(Birth)
      BY <1>19, <2>1, <2>2
    <3>2. alive' \in SUBSET Nat
      BY <1>1, <2>1 DEF TypeOK
    <3>3. task' \in [name : 0 .. Count, old : Nat, new : Nat]
      BY <2>1, <2>2
    <3> QED BY <3>1, <3>2, <3>3
  <2> QED BY <1>1, <1>3, <2>3 DEF StartOk, TypeOK
<1>4. CASE StartFails
  <2>1. CASE InInit
    <3>1. BeginStop("init", children, "none") /\ children \in Seq(Child)
      BY <1>1, <1>4, <2>1 DEF StartFails, TypeOK
    <3>2. /\ mode' = "stopping" /\ expired' \in BOOLEAN
          /\ stop' \in Stops
      BY <3>1, BeginStopType
    <3> QED BY <1>1, <1>4, <2>1, <3>2 DEF StartFails, TypeOK
  <2>2. CASE ~InInit
    <3>1. PICK i \in DOMAIN children :
              children[i].pid = task.old /\ children[i].name = task.name
      BY <1>1, <1>4, <2>2 DEF StartFails, TaskOK
    <3>2. Exited(children[i].name, children[i].pid, "boom")
      BY <1>4, <2>2, <3>1 DEF StartFails
    <3> QED BY <1>1, <1>4, <3>2, ExitedType DEF StartFails, TypeOK
  <2> QED BY <2>1, <2>2
<1>5. CASE WatchChild
  <2>1. /\ task.name \in 1 .. Count /\ task.new \in Nat
        /\ NoTask \in [name : 0 .. Count, old : Nat, new : Nat]
    BY <1>1, <1>2, <1>5 DEF WatchChild, TaskOK, TypeOK, NoTask
  <2>2. watched' \in SUBSET Nat /\ downs' \in Seq(Down)
    <3>1. [ref |-> task.new, reason |-> "noproc"] \in Down
      BY <2>1 DEF Down
    <3>2. watched \in SUBSET Nat
      BY <1>1 DEF TypeOK
    <3>3. Append(downs, [ref |-> task.new, reason |-> "noproc"]) \in Seq(Down)
      BY <1>19, <3>1
    <3>4. watched \cup {task.new} \in SUBSET Nat
      BY <2>1, <3>2
    <3> QED BY <1>5, <1>19, <3>2, <3>3, <3>4 DEF WatchChild
  <2>3. children' \in Seq(Child)
    <3>1. CASE InInit
      <4>1. children' = Append(children, [name |-> task.name, pid |-> task.new])
        BY <1>5, <3>1 DEF WatchChild
      <4>2. [name |-> task.name, pid |-> task.new] \in Child
        BY <2>1 DEF Child
      <4> QED BY <1>1, <4>1, <4>2 DEF TypeOK
    <3>2. CASE ~InInit
      <4>1. /\ children' = [i \in 1 .. Len(children) |->
                               IF children[i].pid = task.old
                               THEN Placed(children[i], task.new) ELSE children[i]]
            /\ Len(children) \in Nat
        BY <1>1, <1>5, <3>2 DEF WatchChild, TypeOK
      <4>2. \A i \in 1 .. Len(children) : /\ children[i] \in Child
                                          /\ Placed(children[i], task.new) \in Child
        <5>1. \A c \in Child : Placed(c, task.new) \in Child
          BY <2>1 DEF Placed, Child
        <5> QED BY <1>20, <5>1
      <4> QED BY <4>1, <4>2
    <3> QED BY <3>1, <3>2
  <2>4. /\ task' \in [name : 0 .. Count, old : Nat, new : Nat]
        /\ mode' \in {"starting", "loop"} /\ starter' \in {"waiting", "ok", "failed", "timeout"}
    <3>1. CASE InInit /\ task.name < Count
      <4>1. task' = [NoTask EXCEPT !.name = task.name + 1] /\ UNCHANGED <<mode, starter>>
        BY <1>5, <3>1 DEF WatchChild
      <4>2. task' \in [name : 0 .. Count, old : Nat, new : Nat]
        BY <1>2, <2>1, <3>1, <4>1 DEF NoTask
      <4> QED BY <1>1, <1>5, <4>1, <4>2 DEF TypeOK, WatchChild
    <3>2. CASE ~(InInit /\ task.name < Count)
      <4>1. task' = NoTask /\ mode' = "loop" /\ (starter' = "ok" \/ UNCHANGED starter)
        BY <1>5, <3>2 DEF WatchChild
      <4> QED BY <1>1, <2>1, <4>1 DEF TypeOK
    <3> QED BY <3>1, <3>2
  <2> QED BY <1>1, <1>5, <2>2, <2>3, <2>4 DEF WatchChild, TypeOK
<1>6. CASE ChildDown
  <2>1. downs' \in Seq(Down)
    BY <1>1, <1>6 DEF ChildDown, TypeOK
  <2> DEFINE found == {i \in DOMAIN children : children[i].pid = Head(downs).ref}
  <2>2. CASE found = {}
    BY <1>1, <1>6, <2>1, <2>2 DEF ChildDown, TypeOK
  <2>3. CASE found # {}
    <3> DEFINE i == CHOOSE i \in found : TRUE
    <3>1. i \in DOMAIN children /\ children[i].pid = Head(downs).ref
      BY <2>3
    <3>2. Exited(children[i].name, Head(downs).ref, Head(downs).reason)
      BY <1>6, <2>3 DEF ChildDown
    <3> HIDE DEF i, found
    <3>3. Exited(children[i].name, children[i].pid, Head(downs).reason)
      BY <3>1, <3>2
    <3> QED BY <1>1, <1>6, <2>1, <3>1, <3>3, ExitedType DEF ChildDown, TypeOK
  <2> QED BY <2>2, <2>3
<1>7. CASE Request
  <2>1. /\ Head(inbox) \in Req
        /\ inbox' \in Seq(Req)
    BY <1>7, <1>19 DEF Request
  <2>2. CASE Head(inbox).req = "stop"
    <3>1. BeginStop("stop", children, Head(inbox).from) /\ children \in Seq(Child)
      BY <1>1, <1>7, <2>2 DEF Request, TypeOK
    <3>2. /\ mode' = "stopping" /\ expired' \in BOOLEAN
          /\ stop' \in Stops
      <4>1. Head(inbox).from \in Clients
        BY <2>1 DEF Req
      <4> QED BY <3>1, <4>1, BeginStopType
    <3> QED BY <1>1, <1>7, <2>1, <2>2, <3>2 DEF Request, TypeOK
  <2>3. CASE Head(inbox).req # "stop"
    <3>1. /\ call' = Answer(Head(inbox).from, "listed")
          /\ UNCHANGED <<supVars, expired>>
      BY <1>7, <2>3 DEF Request
    <3>2. call' \in [Clients -> {"idle", "waiting", "busy", "timeout", "stopped", "listed"}]
      BY <1>1, <2>1, <3>1 DEF Answer, TypeOK
    <3> QED BY <1>1, <1>7, <2>1, <3>1, <3>2 DEF Request, TypeOK
  <2> QED BY <2>2, <2>3
<1>8. CASE StopChild
  <2>1. /\ \/ stop' = [stop EXCEPT !.left = Tail(@)]
           \/ stop' = [stop EXCEPT !.phase = "await"]
        /\ stop.left # <<>> /\ asked' \subseteq asked \cup alive
    BY <1>8 DEF StopChild
  <2>2. stop' \in Stops
    BY <1>20, <2>1, StopsUpdates
  <2>3. asked' \in SUBSET Nat
    BY <1>1, <2>1 DEF TypeOK
  <2> QED BY <1>1, <1>8, <2>2, <2>3 DEF StopChild, TypeOK
<1>9. CASE AwaitDown
  <2>1. stop.left # <<>>
    BY <1>1, <1>9 DEF AwaitDown, Stopping
  <2>2. downs' \in Seq(Down) /\ inbox' \in Seq(Req)
    <3>1. /\ downs # <<>> => Tail(downs) \in Seq(Down)
          /\ inbox # <<>> => Tail(inbox) \in Seq(Req)
      BY <1>19
    <3> QED BY <1>9, <1>19, <3>1 DEF AwaitDown
  <2>3. stop' \in Stops
    <3>1. CASE downs # <<>>
      <4>1. TakeDown(Head(downs).ref)
        BY <1>9, <3>1 DEF AwaitDown
      <4>2. Head(downs).ref \in Nat
        <5>1. Head(downs) \in Down
          BY <1>19, <3>1
        <5> QED BY <5>1 DEF Down
      <4> QED BY <1>20, <2>1, <4>1, <4>2, StopsUpdates DEF TakeDown
    <3>2. CASE downs = <<>>
      BY <1>9, <1>20, <3>2 DEF AwaitDown
    <3> QED BY <3>1, <3>2
  <2> QED BY <1>1, <1>9, <2>2, <2>3 DEF AwaitDown, TypeOK
<1>10. CASE KillChild
  <2>1. killed' \in SUBSET Nat
    <3>1. killed' \subseteq killed \cup alive
      BY <1>10 DEF KillChild
    <3> QED BY <1>1, <3>1 DEF TypeOK
  <2>2. stop' \in Stops
    BY <1>10, <1>20, StopsUpdates DEF KillChild
  <2> QED BY <1>1, <1>10, <2>1, <2>2 DEF KillChild, TypeOK
<1>11. CASE Stopped
  <2>1. call' \in [Clients -> {"idle", "waiting", "busy", "timeout", "stopped", "listed"}]
    BY <1>1, <1>11 DEF Stopped, Answer, TypeOK
  <2> QED BY <1>1, <1>11, <2>1 DEF Stopped, Dies, TypeOK
<1>12. ASSUME NEW p \in Pids, ChildEnds(p) PROVE TypeOK'
  <2>1. PICK reason \in Spontaneous \cup {"kill", "shutdown"} :
            /\ born' = [born EXCEPT ![p].ended = reason]
            /\ downs' = IF p \in watched /\ mode # "dead"
                        THEN Append(downs, [ref |-> p, reason |-> reason]) ELSE downs
    BY <1>12 DEF ChildEnds
  <2>2. born' \in Seq(Birth)
    <3>1. \A i \in DOMAIN born : [born[i] EXCEPT !.ended = reason] \in Birth
      <4>1. \A b \in Birth : [b EXCEPT !.ended = reason] \in Birth
        BY DEF Birth
      <4> QED BY <1>19, <4>1
    <3>2. /\ born' = [i \in 1 .. Len(born) |->
                       IF i = p THEN [born[i] EXCEPT !.ended = reason] ELSE born[i]]
          /\ Len(born) \in Nat
      <4>1. DOMAIN born = 1 .. Len(born) /\ Len(born) \in Nat
        BY <1>19
      <4>2. born' = [born EXCEPT ![p] = [born[p] EXCEPT !.ended = reason]]
        BY <2>1
      <4> QED BY <4>1, <4>2
    <3>3. \A i \in 1 .. Len(born) :
              (IF i = p THEN [born[i] EXCEPT !.ended = reason] ELSE born[i]) \in Birth
      BY <1>19, <3>1
    <3> QED BY <3>2, <3>3
  <2>3. p \in Nat
    BY <1>1, <1>12 DEF ChildEnds, TypeOK
  <2>4. downs' \in Seq(Down)
    <3>1. [ref |-> p, reason |-> reason] \in Down
      BY <2>3 DEF Down
    <3>2. Append(downs, [ref |-> p, reason |-> reason]) \in Seq(Down)
      BY <1>19, <3>1
    <3> QED BY <1>19, <2>1, <3>2
  <2> QED BY <1>1, <1>12, <2>2, <2>4 DEF ChildEnds, TypeOK
<1>13. CASE Expire
  BY <1>1, <1>13 DEF Expire, TypeOK
<1>14. ASSUME NEW c \in Clients, Call(c) PROVE TypeOK'
  <2>1. PICK req \in {"stop", "which"} :
            \/ call' = [call EXCEPT ![c] = "busy"] /\ UNCHANGED inbox
            \/ /\ call' = [call EXCEPT ![c] = "waiting"]
               /\ inbox' = inbox \/ inbox' = Append(inbox, [from |-> c, req |-> req])
    BY <1>14 DEF Call
  <2>2. inbox' \in Seq(Req)
    <3>1. [from |-> c, req |-> req] \in Req
      BY DEF Req
    <3>2. Append(inbox, [from |-> c, req |-> req]) \in Seq(Req)
      BY <1>19, <3>1
    <3> QED BY <1>19, <2>1, <3>2
  <2>3. call' \in [Clients -> {"idle", "waiting", "busy", "timeout", "stopped", "listed"}]
    BY <1>1, <2>1 DEF TypeOK
  <2> QED BY <1>1, <1>14, <2>2, <2>3 DEF Call, TypeOK
<1>15. ASSUME NEW c \in Clients, CallTimeout(c) PROVE TypeOK'
  BY <1>1, <1>15 DEF CallTimeout, TypeOK
<1>16. CASE SupKilled
  BY <1>1, <1>16 DEF SupKilled, Dies, TypeOK
<1>17. CASE Tick
  BY <1>1, <1>17 DEF Tick, TypeOK
<1>18. CASE UNCHANGED vars
  BY <1>1, <1>18 DEF vars, TypeOK
<1> QED BY <1>3, <1>4, <1>5, <1>6, <1>7, <1>8, <1>9, <1>10, <1>11, <1>12, <1>13,
           <1>14, <1>15, <1>16, <1>17, <1>18 DEF Next, SupStep, Rest

-----------------------------------------------------------------------------
(* Steps *)

\* What is known of the children, the mailbox and the list of those to stop.
StructInv == /\ AllBorn /\ Listed /\ TaskOK /\ LivingListed /\ NotAskedYet
             /\ Noticed /\ OneIncarnation /\ Stopping /\ NobodyLeft

\* stop_children begins with all the living, each before those started
\* earlier.
LEMMA BeginStopping ==
    ASSUME Listed, asked = {}, NEW cs \in Seq(Child),
           NEW f \in [DOMAIN cs -> DOMAIN children],
           \A k \in DOMAIN cs : cs[k] = children[f[k]],
           \A k, l \in DOMAIN cs : k < l => f[k] < f[l],
           \A p \in alive : \E k \in DOMAIN cs : cs[k].pid = p,
           NEW why, NEW by, BeginStop(why, cs, by),
           children \in Seq(Child), UNCHANGED <<children, alive, asked>>
    PROVE  Stopping'
<1> DEFINE n == Len(cs)
           left == Order(cs)
<1>1. /\ n \in Nat /\ DOMAIN cs = 1 .. n /\ left \in Seq(Child)
      /\ DOMAIN left = 1 .. n
      /\ \A k \in 1 .. n : left[k] = cs[(n - k) + 1]
  BY ReverseFacts DEF Order
<1>2. /\ stop'.left = left /\ stop'.phase = "ask" /\ stop'.seen = {}
  BY DEF BeginStop
<1> HIDE DEF n, left
<1>3. ASSUME NEW p \in alive PROVE \E k \in DOMAIN left : left[k].pid = p
  <2>1. PICK k \in DOMAIN cs : cs[k].pid = p
    OBVIOUS
  <2>2. k \in 1 .. n /\ n \in Nat
    BY <1>1
  <2>3. (n - k) + 1 \in 1 .. n /\ (n - ((n - k) + 1)) + 1 = k
    BY <2>2
  <2> QED BY <1>1, <2>1, <2>3
<1>4. ASSUME NEW i \in DOMAIN children, NEW j \in DOMAIN children,
             NEW k \in DOMAIN left, NEW l \in DOMAIN left, i < j,
             children[i].pid = left[k].pid, children[j].pid = left[l].pid
      PROVE  l < k
  <2> DEFINE a == (n - k) + 1
             b == (n - l) + 1
  <2>1. /\ a \in DOMAIN cs /\ b \in DOMAIN cs
        /\ left[k] = children[f[a]] /\ left[l] = children[f[b]]
    <3>1. n \in Nat /\ k \in 1 .. n /\ l \in 1 .. n
      BY <1>1
    <3>2. a \in 1 .. n /\ b \in 1 .. n
      BY <3>1
    <3> QED BY <1>1, <3>1, <3>2
  <2>2. i = f[a] /\ j = f[b]
    BY <1>4, <2>1 DEF Listed
  <2>3. ~(b < a) /\ a # b
    <3>1. DOMAIN children \subseteq Nat
      OBVIOUS
    <3> QED BY <1>4, <2>1, <2>2, <3>1
  <2> QED BY <1>1, <2>3
<1> QED BY <1>2, <1>3, <1>4 DEF Stopping

\* A step into stop_children keeps the rest.
LEMMA BegunStop ==
    ASSUME IInv, mode \in {"starting", "loop"}, mode' = "stopping", Stopping',
           UNCHANGED <<children, alive, asked, killed, watched, born, call>>,
           \A d \in DOMAIN downs' : downs'[d].ref \in DOMAIN born \ alive
    PROVE  StructInv'
BY DEF IInv, StructInv, AllBorn, Listed, TaskOK, LivingListed, NotAskedYet, Noticed,
       OneIncarnation, NobodyLeft

\* The list of those to stop loses its head, which is dead.
LEMMA LeftTail ==
    ASSUME Stopping, mode = "stopping", stop.left \in Seq(Child), stop.left # <<>>,
           Head(stop.left).pid \notin alive, stop'.left = Tail(stop.left),
           stop'.phase = "ask", stop'.seen = stop.seen,
           UNCHANGED <<children, alive, asked>>
    PROVE  Stopping'
<1> DEFINE old == stop.left
           left == stop'.left
<1>1. /\ DOMAIN left = 1 .. Len(old) - 1 /\ DOMAIN old = 1 .. Len(old)
      /\ Len(old) \in Nat \ {0} /\ old[1] = Head(old)
      /\ \A k \in DOMAIN left : k + 1 \in DOMAIN old /\ left[k] = old[k + 1]
  OBVIOUS
<1> HIDE DEF old, left
<1>2. ASSUME NEW p \in alive PROVE \E k \in DOMAIN left : left[k].pid = p
  <2>1. PICK k \in DOMAIN old : old[k].pid = p
    BY DEF Stopping, old
  <2>2. k # 1
    BY <1>1, <2>1 DEF old
  <2>3. k - 1 \in DOMAIN left /\ (k - 1) + 1 = k
    BY <1>1, <2>2
  <2> QED BY <1>1, <2>1, <2>3
<1>3. ASSUME NEW i \in DOMAIN children, NEW j \in DOMAIN children,
             NEW k \in DOMAIN left, NEW l \in DOMAIN left, i < j,
             children[i].pid = left[k].pid, children[j].pid = left[l].pid
      PROVE  l < k
  <2>1. /\ k + 1 \in DOMAIN old /\ l + 1 \in DOMAIN old
        /\ children[i].pid = old[k + 1].pid /\ children[j].pid = old[l + 1].pid
    BY <1>1, <1>3
  <2>2. l + 1 < k + 1
    BY <1>3, <2>1 DEF Stopping, old
  <2>3. k \in Nat /\ l \in Nat
    BY <1>1
  <2> QED BY <2>2, <2>3
<1>4. \A i, j \in DOMAIN children, l \in DOMAIN left :
          i < j /\ children[i].pid \in asked => children[j].pid # left[l].pid
  BY <1>1 DEF Stopping, old
<1>5. stop'.seen \cap alive = {}
  BY DEF Stopping
<1>6. children' = children /\ alive' = alive /\ asked' = asked /\ stop'.phase = "ask"
  OBVIOUS
<1> QED BY ONLY <1>2, <1>3, <1>4, <1>5, <1>6, SMT DEF Stopping, left

\* exited, whoever asks: the child is dead, and the news of the others stay.
LEMMA ExitedStep ==
    ASSUME IInv, NEW i \in DOMAIN children, NEW reason,
           mode \in {"starting", "loop"}, mode = "starting" => task.new = 0,
           ~InInit, children[i].pid \notin alive,
           \A d \in DOMAIN downs' : downs'[d].ref \in DOMAIN born \ alive,
           \A j \in DOMAIN children \ {i} :
               \/ children[j].pid \in alive \cap watched
               \/ \E d \in DOMAIN downs' : downs'[d].ref = children[j].pid,
           Exited(children[i].name, children[i].pid, reason),
           UNCHANGED <<childVars, starter, call>>
    PROVE  StructInv'
<1> DEFINE o == Others(children[i].pid)
           at(k) == IF k < i THEN k ELSE k + 1
<1> USE DEF childVars, InInit
<1>1. /\ children \in Seq(Child) /\ born \in Seq(Birth) /\ asked = {}
      /\ Listed /\ AllBorn /\ OneIncarnation /\ NobodyLeft /\ LivingListed
      /\ TaskOK
  BY DEF IInv, TypeOK, NotAskedYet
<1>2. /\ o \in Seq(Child) /\ Len(o) = Len(children) - 1
      /\ \A k \in DOMAIN o : at(k) \in DOMAIN children \ {i} /\ o[k] = children[at(k)]
  BY OthersKeep DEF IInv
<1>3. DOMAIN children = 1 .. Len(children) /\ Len(children) \in Nat /\ 0 \notin DOMAIN born
  BY <1>1
<1>4. ASSUME NEW p \in alive
      PROVE  \E j \in DOMAIN children \ {i} : children[j].pid = p
  <2>1. p # 0
    BY <1>1, <1>3 DEF AllBorn
  <2>2. PICK j \in DOMAIN children : children[j].pid = p
    BY <1>1, <2>1 DEF LivingListed
  <2> QED BY <2>2
<1>5. ASSUME NEW j \in DOMAIN children \ {i} PROVE \E k \in DOMAIN o : o[k] = children[j]
  <2> DEFINE k == IF j < i THEN j ELSE j - 1
  <2>1. DOMAIN o = 1 .. Len(children) - 1
    BY <1>2
  <2>2. k \in 1 .. Len(children) - 1 /\ at(k) = j
    BY <1>3
  <2> HIDE DEF o, at, k
  <2> QED BY <1>2, <2>1, <2>2
<1> HIDE DEF o
<1>6. \A k, l \in DOMAIN o : k < l => at(k) < at(l)
  BY <1>2, <1>3
<1>7. CASE /\ children' = o /\ mode' = "loop" /\ task' = NoTask
  <2>1. Listed'
    <3>1. \A k \in DOMAIN o : /\ o[k].pid \in DOMAIN born
                              /\ born[o[k].pid].name = o[k].name
      <4> HIDE DEF at
      <4> QED BY <1>1, <1>2 DEF Listed
    <3>2. ASSUME NEW k \in DOMAIN o, NEW l \in DOMAIN o,
                 o[k].pid = o[l].pid \/ o[k].name = o[l].name
          PROVE  k = l
      <4>1. at(k) = at(l)
        <5>1. /\ at(k) \in DOMAIN children /\ o[k] = children[at(k)]
              /\ at(l) \in DOMAIN children /\ o[l] = children[at(l)]
          BY <1>2
        <5> HIDE DEF at
        <5> QED BY <1>1, <3>2, <5>1 DEF Listed
      <4>2. k \in Nat /\ l \in Nat
        BY <1>2
      <4>3. ~(k < l) /\ ~(l < k)
        BY <1>2, <1>3, <4>1, <4>2
      <4> QED BY <4>2, <4>3
    <3> QED BY <1>7, <3>1, <3>2 DEF Listed
  <2>2. LivingListed'
    BY <1>4, <1>5, <1>7 DEF LivingListed
  <2>3. Noticed'
    BY <1>2, <1>7 DEF Noticed
  <2>4. AllBorn' /\ TaskOK' /\ NotAskedYet' /\ OneIncarnation' /\ Stopping' /\ NobodyLeft'
    BY <1>1, <1>7 DEF AllBorn, TaskOK, NotAskedYet, OneIncarnation, Stopping,
       NobodyLeft, NoTask
  <2> QED BY <2>1, <2>2, <2>3, <2>4 DEF StructInv
<1>8. CASE /\ BeginStop("escalate", o, "none") /\ children' = children
  <2> DEFINE f == [k \in DOMAIN o |-> at(k)]
  <2>1. /\ f \in [DOMAIN o -> DOMAIN children]
        /\ \A k \in DOMAIN o : o[k] = children[f[k]]
        /\ \A k, l \in DOMAIN o : k < l => f[k] < f[l]
    BY <1>2, <1>6
  <2>2. \A p \in alive : \E k \in DOMAIN o : o[k].pid = p
    BY <1>4, <1>5
  <2> HIDE DEF f
  <2>3. Stopping'
    BY <1>1, <1>2, <1>8, <2>1, <2>2, BeginStopping
  <2>4. mode' = "stopping"
    BY <1>8 DEF BeginStop
  <2> QED BY <1>1, <1>8, <2>3, <2>4, BegunStop
<1>9. CASE /\ mode' = "starting" /\ children' = children
           /\ task' = [name |-> children[i].name, old |-> children[i].pid, new |-> 0]
  <2>1. children[i].name \in 1 .. Count
    <3>1. children[i] \in Child
      BY <1>1
    <3> QED BY <3>1 DEF Child
  <2>2. TaskOK'
    BY <1>9, <2>1 DEF TaskOK
  <2>3. LivingListed'
    BY <1>4, <1>9 DEF LivingListed
  <2>4. Noticed'
    BY <1>9 DEF Noticed
  <2>5. /\ AllBorn' /\ Listed' /\ NotAskedYet' /\ OneIncarnation' /\ Stopping'
        /\ NobodyLeft'
    BY <1>1, <1>9 DEF AllBorn, Listed, NotAskedYet, OneIncarnation, Stopping, NobodyLeft
  <2> QED BY <2>2, <2>3, <2>4, <2>5 DEF StructInv
<1> QED BY <1>7, <1>8, <1>9 DEF Exited, o


\* start_child starts an incarnation nobody knew.
LEMMA StartOkStep == IInv /\ StartOk => StructInv'
<1> SUFFICES ASSUME IInv, StartOk PROVE StructInv'
  OBVIOUS
<1> DEFINE p == Len(born) + 1
<1> USE DEF supVars, childVars, InInit
<1>1. /\ AllBorn /\ Listed /\ TaskOK /\ LivingListed /\ NotAskedYet /\ Noticed
      /\ OneIncarnation /\ NobodyLeft /\ mode = "starting" /\ task.new = 0
      /\ born \in Seq(Birth) /\ children \in Seq(Child)
      /\ task \in [name : 0 .. Count, old : Nat, new : Nat]
  BY DEF IInv, TypeOK, StartOk
<1>2. /\ born' = Append(born, [name |-> task.name, ended |-> "no"])
      /\ alive' = alive \cup {p} /\ task' = [task EXCEPT !.new = p]
      /\ UNCHANGED <<mode, children, asked, killed, watched, downs, starter, call>>
  BY DEF StartOk
<1>3. /\ DOMAIN born' = DOMAIN born \cup {p} /\ p \notin DOMAIN born
      /\ born'[p].name = task.name /\ p # 0
      /\ \A q \in DOMAIN born : born'[q] = born[q]
  <2>1. /\ Len(born') = Len(born) + 1 /\ Len(born) \in Nat
        /\ DOMAIN born = 1 .. Len(born) /\ DOMAIN born' = 1 .. Len(born')
        /\ born'[p] = [name |-> task.name, ended |-> "no"]
        /\ \A q \in DOMAIN born : born'[q] = born[q]
    BY <1>1, <1>2
  <2> QED BY <2>1
<1>4. task'.new = p /\ task'.name = task.name /\ task'.old = task.old
  BY <1>1, <1>2
<1> HIDE DEF p
<1>5. AllBorn'
  BY <1>1, <1>2, <1>3 DEF AllBorn
<1>6. Listed'
  BY <1>1, <1>2, <1>3 DEF Listed
<1>7. TaskOK'
  BY <1>1, <1>2, <1>3, <1>4 DEF TaskOK, Listed
<1>8. LivingListed'
  <2>1. 0 \notin alive
    BY <1>1 DEF AllBorn
  <2> QED BY <1>1, <1>2, <1>4, <2>1 DEF LivingListed
<1>9. Noticed'
  BY <1>1, <1>2, <1>4 DEF Noticed
<1>10. ASSUME NEW q \in alive PROVE born'[q].name # task.name
  <2>1. q \in DOMAIN born /\ q # 0
    BY <1>1 DEF AllBorn
  <2>2. PICK i \in DOMAIN children : children[i].pid = q
    BY <1>1, <2>1 DEF LivingListed
  <2>3. children[i].name # task.name
    <3>1. CASE InInit
      <4>1. DOMAIN children = 1 .. Len(children) /\ Len(children) \in Nat
        BY <1>1
      <4> QED BY <1>1, <3>1, <4>1 DEF TaskOK
    <3>2. CASE ~InInit
      BY <1>1, <2>2, <3>2 DEF TaskOK, Listed
    <3> QED BY <3>1, <3>2
  <2> QED BY <1>1, <1>3, <2>1, <2>2, <2>3 DEF Listed
<1>11. OneIncarnation'
  BY <1>1, <1>2, <1>3, <1>10 DEF OneIncarnation, AllBorn
<1>12. NotAskedYet' /\ Stopping' /\ NobodyLeft'
  BY <1>1, <1>2 DEF NotAskedYet, Stopping, NobodyLeft
<1> QED BY <1>5, <1>6, <1>7, <1>8, <1>9, <1>11, <1>12 DEF StructInv

\* A start that raised: in init the started ones are stopped, later it is an
\* exit of the child that was to be restarted.
LEMMA StartFailsStep == IInv /\ StartFails => StructInv'
<1> SUFFICES ASSUME IInv, StartFails PROVE StructInv'
  OBVIOUS
<1> USE DEF supVars, childVars
<1>1. /\ AllBorn /\ Listed /\ TaskOK /\ LivingListed /\ NotAskedYet /\ Noticed
      /\ mode = "starting" /\ task.new = 0 /\ asked = {}
      /\ born \in Seq(Birth) /\ children \in Seq(Child)
      /\ UNCHANGED <<downs, childVars, starter, call>>
  BY DEF IInv, TypeOK, StartFails, NotAskedYet
<1>2. CASE InInit
  <2>1. BeginStop("init", children, "none") /\ UNCHANGED children
    BY <1>2 DEF StartFails
  <2>2. \A p \in alive : \E i \in DOMAIN children : children[i].pid = p
    <3>1. 0 \notin alive
      BY <1>1 DEF AllBorn
    <3> QED BY <1>1, <3>1 DEF LivingListed
  <2> DEFINE f == [i \in DOMAIN children |-> i]
  <2>3. /\ f \in [DOMAIN children -> DOMAIN children]
        /\ \A k \in DOMAIN children : children[k] = children[f[k]]
        /\ \A k, l \in DOMAIN children : k < l => f[k] < f[l]
    OBVIOUS
  <2> HIDE DEF f
  <2>4. Stopping'
    BY <1>1, <2>1, <2>2, <2>3, BeginStopping
  <2>5. mode' = "stopping"
    BY <2>1 DEF BeginStop
  <2>6. \A d \in DOMAIN downs' : downs'[d].ref \in DOMAIN born \ alive
    BY <1>1 DEF AllBorn
  <2> QED BY <1>1, <2>1, <2>4, <2>5, <2>6, BegunStop
<1>3. CASE ~InInit
  <2>1. PICK i \in DOMAIN children :
            children[i].pid = task.old /\ children[i].name = task.name
    BY <1>1, <1>3 DEF TaskOK
  <2>2. Exited(children[i].name, children[i].pid, "boom")
    BY <1>3, <2>1 DEF StartFails
  <2>3. children[i].pid \notin alive
    BY <1>1, <1>3, <2>1 DEF TaskOK
  <2>4. \A d \in DOMAIN downs' : downs'[d].ref \in DOMAIN born \ alive
    BY <1>1 DEF AllBorn
  <2>5. \A j \in DOMAIN children \ {i} :
               \/ children[j].pid \in alive \cap watched
               \/ \E d \in DOMAIN downs' : downs'[d].ref = children[j].pid
    BY <1>1, <2>1 DEF Noticed, Listed
  <2>6. /\ mode \in {"starting", "loop"} /\ (mode = "starting" => task.new = 0)
        /\ UNCHANGED <<childVars, starter, call>>
    BY <1>1
  <2> HIDE DEF InInit
  <2> QED BY <1>3, <2>2, <2>3, <2>4, <2>5, <2>6, ExitedStep
<1> QED BY <1>2, <1>3

\* watch and the place of the new incarnation.
LEMMA WatchChildStep == IInv /\ TypeOK' /\ WatchChild => StructInv'
<1> SUFFICES ASSUME IInv, TypeOK', WatchChild PROVE StructInv'
  OBVIOUS
<1> DEFINE p == task.new
<1> USE DEF supVars, childVars, InInit
<1>1. /\ AllBorn /\ Listed /\ TaskOK /\ LivingListed /\ NotAskedYet /\ Noticed
      /\ OneIncarnation /\ NobodyLeft /\ mode = "starting" /\ p # 0
      /\ children \in Seq(Child) /\ downs \in Seq(Down)
      /\ UNCHANGED <<alive, asked, killed, born, call>>
  BY DEF IInv, TypeOK, WatchChild
<1>2. /\ p \in DOMAIN born /\ born[p].name = task.name
      /\ \A i \in DOMAIN children : children[i].pid # p
      /\ 0 \notin DOMAIN born
  <2>1. born \in Seq(Birth)
    BY DEF IInv, TypeOK
  <2> QED BY <1>1, <2>1 DEF TaskOK
<1>3. /\ watched \subseteq watched' /\ watched' \subseteq watched \cup {p}
      /\ \A d \in DOMAIN downs : d \in DOMAIN downs' /\ downs'[d] = downs[d]
      /\ \A d \in DOMAIN downs' : \/ downs'[d] = downs[d] /\ d \in DOMAIN downs
                                  \/ downs'[d].ref = p /\ p \notin alive
      /\ \/ p \in alive \cap watched'
         \/ \E d \in DOMAIN downs' : downs'[d].ref = p
  <2>1. CASE p \in alive
    <3>1. watched' = watched \cup {p} /\ downs' = downs
      BY <2>1 DEF WatchChild
    <3> QED BY <2>1, <3>1
  <2>2. CASE p \notin alive
    <3> DEFINE e == [ref |-> p, reason |-> "noproc"]
    <3>1. downs' = Append(downs, e) /\ watched' = watched
      BY <2>2 DEF WatchChild
    <3>2. e.ref = p
      OBVIOUS
    <3> HIDE DEF e
    <3>3. /\ DOMAIN downs' = 1 .. Len(downs) + 1 /\ Len(downs) \in Nat
          /\ DOMAIN downs = 1 .. Len(downs)
          /\ downs'[Len(downs) + 1] = e
          /\ \A d \in 1 .. Len(downs) : downs'[d] = downs[d]
      BY <1>1, <3>1
    <3> QED BY <2>2, <3>1, <3>2, <3>3
  <2> QED BY <2>1, <2>2
<1> HIDE DEF p
<1>4. AllBorn'
  BY <1>1, <1>2, <1>3 DEF AllBorn
\* The list after the step: the entry of the new incarnation, and the others.
<1>5. PICK n \in DOMAIN children' :
          /\ children'[n].pid = p /\ children'[n].name = task.name
          /\ \A i \in DOMAIN children' \ {n} :
                 /\ i \in DOMAIN children /\ children'[i] = children[i]
                 /\ children[i].pid # task.old /\ children[i].name # task.name
          /\ \A i \in DOMAIN children : i \in DOMAIN children'
                 /\ (i = n => children[i].pid = task.old /\ task.old \notin alive)
          /\ InInit => n = Len(children) + 1 /\ Len(children') = n
          /\ DOMAIN children' = IF InInit THEN DOMAIN children \cup {n} ELSE DOMAIN children
  <2>1. CASE InInit
    <3> DEFINE e == [name |-> task.name, pid |-> p]
               n == Len(children) + 1
    <3>1. children' = Append(children, e)
      BY <2>1 DEF WatchChild, p
    <3>2. e.name = task.name /\ e.pid = p
      OBVIOUS
    <3> HIDE DEF e
    <3>3. /\ DOMAIN children' = 1 .. n /\ Len(children) \in Nat
          /\ DOMAIN children = 1 .. Len(children) /\ Len(children') = n
          /\ children'[n] = e
          /\ \A i \in 1 .. Len(children) : children'[i] = children[i]
      BY <1>1, <3>1
    <3>4. \A i \in DOMAIN children :
              children[i].pid # task.old /\ children[i].name # task.name
      BY <1>1, <1>2, <2>1, <3>3 DEF TaskOK, Listed
    <3> QED BY <2>1, <3>2, <3>3, <3>4
  <2>2. CASE ~InInit
    <3>1. PICK n \in DOMAIN children :
              children[n].pid = task.old /\ children[n].name = task.name
      BY <1>1, <2>2 DEF TaskOK
    <3>2. children' = [i \in DOMAIN children |->
                         IF children[i].pid = task.old
                         THEN Placed(children[i], p) ELSE children[i]]
      BY <2>2 DEF WatchChild, p
    <3>3. \A i \in DOMAIN children \ {n} :
              children[i].pid # task.old /\ children[i].name # task.name
      BY <1>1, <3>1 DEF Listed
    <3>4. Placed(children[n], p).pid = p /\ Placed(children[n], p).name = task.name
      <4>1. children[n] \in Child
        BY <1>1
      <4> QED BY <3>1, <4>1 DEF Placed, Child
    <3>5. task.old \notin alive
      BY <1>1, <2>2 DEF TaskOK
    <3> QED BY <2>2, <3>1, <3>2, <3>3, <3>4, <3>5
  <2> QED BY <2>1, <2>2
<1>6. Listed'
  <2>1. \A i \in DOMAIN children' :
           /\ children'[i].pid \in DOMAIN born
           /\ born[children'[i].pid].name = children'[i].name
    BY <1>1, <1>2, <1>5 DEF Listed
  <2>2. \A i \in DOMAIN children' \ {n} :
            children'[i].pid # p /\ children'[i].name # task.name
    BY <1>2, <1>5
  <2>3. ASSUME NEW i \in DOMAIN children', NEW j \in DOMAIN children',
               \/ children'[i].pid = children'[j].pid
               \/ children'[i].name = children'[j].name
        PROVE  i = j
    <3>1. CASE i = n \/ j = n
      BY <1>5, <2>2, <2>3, <3>1
    <3>2. CASE i # n /\ j # n
      BY <1>1, <1>5, <2>3, <3>2 DEF Listed
    <3> QED BY <3>1, <3>2
  <2> QED BY <1>1, <2>1, <2>3 DEF Listed
<1>7. TaskOK' /\ mode' \in {"starting", "loop"}
      /\ (mode' = "loop" => task'.new = 0) /\ task'.old = 0 /\ task'.new = 0
  <2>1. CASE InInit /\ task.name < Count
    <3>1. task' = [NoTask EXCEPT !.name = task.name + 1] /\ UNCHANGED <<mode, starter>>
      BY <2>1 DEF WatchChild
    <3>2. task'.name = task.name + 1 /\ task'.old = 0 /\ task'.new = 0
      BY <3>1 DEF NoTask
    <3>3. task.name \in 1 .. Count /\ task.name = Len(children) + 1
          /\ \A i \in DOMAIN children : children[i].name = i
      BY <1>1, <2>1 DEF TaskOK
    <3>4. /\ Len(children') = Len(children) + 1 /\ n = Len(children) + 1
          /\ \A i \in DOMAIN children' : children'[i].name = i
      BY <1>5, <2>1, <3>3
    <3>5. task'.name \in 1 .. Count /\ Count \in Nat
      BY <2>1, <3>2, <3>3, SupervisorAssumption
    <3> QED BY <1>1, <2>1, <3>1, <3>2, <3>3, <3>4, <3>5 DEF TaskOK
  <2>2. CASE ~(InInit /\ task.name < Count)
    <3>1. task' = NoTask /\ mode' = "loop" /\ starter' # "waiting"
      BY <2>2 DEF WatchChild
    <3> QED BY <3>1 DEF TaskOK, NoTask
  <2> QED BY <2>1, <2>2
<1>8. LivingListed'
  BY <1>1, <1>5 DEF LivingListed, p
<1>9. Noticed'
  <2>1. ASSUME NEW i \in DOMAIN children'
        PROVE  \/ children'[i].pid \in alive \cap watched'
               \/ \E j \in DOMAIN downs' : downs'[j].ref = children'[i].pid
    <3>1. CASE i = n
      BY <1>3, <1>5, <3>1
    <3>2. CASE i # n
      BY <1>1, <1>3, <1>5, <3>2 DEF Noticed
    <3> QED BY <3>1, <3>2
  <2> QED BY <1>1, <2>1 DEF Noticed
<1>10. NotAskedYet' /\ OneIncarnation' /\ Stopping' /\ NobodyLeft'
  BY <1>1, <1>7 DEF NotAskedYet, OneIncarnation, Stopping, NobodyLeft
<1> QED BY <1>4, <1>6, <1>7, <1>8, <1>9, <1>10 DEF StructInv


\* A down is that of a listed child, which is restarted or leaves the list, or
\* of one that nobody lists any more.
LEMMA ChildDownStep == IInv /\ ChildDown => StructInv'
<1> SUFFICES ASSUME IInv, ChildDown PROVE StructInv'
  OBVIOUS
<1> DEFINE found == {i \in DOMAIN children : children[i].pid = Head(downs).ref}
<1> USE DEF childVars
<1>1. /\ AllBorn /\ Listed /\ TaskOK /\ LivingListed /\ NotAskedYet /\ Noticed
      /\ OneIncarnation /\ NobodyLeft /\ mode = "loop"
      /\ born \in Seq(Birth) /\ downs \in Seq(Down) /\ downs # <<>>
      /\ downs' = Tail(downs) /\ UNCHANGED <<childVars, starter, call>>
  BY DEF IInv, TypeOK, ChildDown
<1>2. /\ 1 \in DOMAIN downs /\ Head(downs) = downs[1]
      /\ \A d \in DOMAIN downs' : d + 1 \in DOMAIN downs /\ downs'[d] = downs[d + 1]
      /\ \A d \in DOMAIN downs \ {1} : \E e \in DOMAIN downs' : downs'[e] = downs[d]
  <2>1. /\ DOMAIN downs = 1 .. Len(downs) /\ Len(downs) \in Nat \ {0}
        /\ DOMAIN downs' = 1 .. Len(downs) - 1
        /\ \A d \in 1 .. Len(downs) - 1 : downs'[d] = downs[d + 1]
        /\ Head(downs) = downs[1]
    BY <1>1
  <2>2. \A d \in DOMAIN downs \ {1} : d - 1 \in DOMAIN downs' /\ (d - 1) + 1 = d
    BY <2>1
  <2>3. \A d \in DOMAIN downs \ {1} : downs'[d - 1] = downs[d]
    BY <2>1, <2>2
  <2>4. \A d \in DOMAIN downs' : d + 1 \in DOMAIN downs
    BY <2>1
  <2> QED BY <2>1, <2>2, <2>3, <2>4
<1>3. \A d \in DOMAIN downs' : downs'[d].ref \in DOMAIN born \ alive
  BY <1>1, <1>2 DEF AllBorn
<1>4. task.old = 0 /\ starter # "waiting" /\ 0 \notin DOMAIN born
  BY <1>1 DEF TaskOK
<1>5. ASSUME NEW j \in DOMAIN children, children[j].pid # Head(downs).ref
      PROVE  \/ children[j].pid \in alive \cap watched
             \/ \E d \in DOMAIN downs' : downs'[d].ref = children[j].pid
  <2>1. children[j].pid # task.old
    BY <1>1, <1>4 DEF Listed
  <2>2. CASE \E d \in DOMAIN downs : downs[d].ref = children[j].pid
    <3>1. PICK d \in DOMAIN downs : downs[d].ref = children[j].pid
      BY <2>2
    <3>2. d # 1
      BY <1>2, <1>5, <3>1
    <3> QED BY <1>2, <3>1, <3>2
  <2> QED BY <1>1, <2>1, <2>2 DEF Noticed
<1>6. CASE found = {}
  <2>1. UNCHANGED supVars
    BY <1>6 DEF ChildDown
  <2>2. Noticed'
    BY <1>1, <1>5, <1>6, <2>1 DEF Noticed, supVars
  <2>3. AllBorn' /\ Listed'
    BY <1>1, <1>3, <2>1 DEF AllBorn, Listed, supVars
  <2> QED BY <1>1, <2>1, <2>2, <2>3 DEF StructInv, TaskOK, LivingListed, NotAskedYet,
             OneIncarnation, Stopping, NobodyLeft, supVars, InInit
<1>7. CASE found # {}
  <2> DEFINE i == CHOOSE i \in found : TRUE
  <2>1. i \in DOMAIN children /\ children[i].pid = Head(downs).ref
    BY <1>7
  <2>2. Exited(children[i].name, Head(downs).ref, Head(downs).reason)
    BY <1>7 DEF ChildDown
  <2> HIDE DEF i, found
  <2>3. Exited(children[i].name, children[i].pid, Head(downs).reason)
    BY <2>1, <2>2
  <2>4. children[i].pid \notin alive
    BY <1>1, <1>2, <2>1 DEF AllBorn
  <2>5. \A j \in DOMAIN children \ {i} :
            \/ children[j].pid \in alive \cap watched
            \/ \E d \in DOMAIN downs' : downs'[d].ref = children[j].pid
    BY <1>1, <1>5, <2>1 DEF Listed
  <2>6. ~InInit
    BY <1>4 DEF InInit
  <2>7. mode = "loop" /\ UNCHANGED <<childVars, starter, call>>
    BY <1>1
  <2> QED BY <1>3, <2>1, <2>3, <2>4, <2>5, <2>6, <2>7, ExitedStep
<1> QED BY <1>6, <1>7

\* stop begins with the whole list; which_children changes nothing.
LEMMA RequestStep == IInv /\ Request => StructInv'
<1> SUFFICES ASSUME IInv, Request PROVE StructInv'
  OBVIOUS
<1> USE DEF childVars
<1>1. /\ AllBorn /\ Listed /\ TaskOK /\ LivingListed /\ NotAskedYet /\ Noticed
      /\ OneIncarnation /\ NobodyLeft /\ mode = "loop" /\ asked = {}
      /\ children \in Seq(Child)
      /\ call \in [Clients -> {"idle", "waiting", "busy", "timeout", "stopped", "listed"}]
      /\ UNCHANGED <<downs, childVars, starter>>
  BY DEF IInv, TypeOK, Request, NotAskedYet
<1>2. CASE Head(inbox).req = "stop"
  <2>1. BeginStop("stop", children, Head(inbox).from) /\ UNCHANGED <<children, call>>
    BY <1>2 DEF Request
  <2>2. \A p \in alive : \E i \in DOMAIN children : children[i].pid = p
    BY <1>1 DEF LivingListed
  <2> DEFINE f == [i \in DOMAIN children |-> i]
  <2>3. /\ f \in [DOMAIN children -> DOMAIN children]
        /\ \A k \in DOMAIN children : children[k] = children[f[k]]
        /\ \A k, l \in DOMAIN children : k < l => f[k] < f[l]
    OBVIOUS
  <2> HIDE DEF f
  <2>4. Stopping'
    BY <1>1, <2>1, <2>2, <2>3, BeginStopping
  <2>5. mode' = "stopping"
    BY <2>1 DEF BeginStop
  <2>6. \A d \in DOMAIN downs' : downs'[d].ref \in DOMAIN born \ alive
    BY <1>1 DEF AllBorn
  <2> QED BY <1>1, <2>1, <2>4, <2>5, <2>6, BegunStop
<1>3. CASE Head(inbox).req # "stop"
  <2>1. call' = Answer(Head(inbox).from, "listed") /\ UNCHANGED supVars
    BY <1>3 DEF Request
  <2>2. NobodyLeft'
    BY <1>1, <2>1 DEF NobodyLeft, Answer, supVars
  <2> QED BY <1>1, <2>1, <2>2 DEF StructInv, AllBorn, Listed, TaskOK, LivingListed,
             NotAskedYet, Noticed, OneIncarnation, Stopping, supVars, InInit
<1> QED BY <1>2, <1>3

\* The steps of stop_children.
LEMMA StopChildStep == IInv /\ StopChild => StructInv'
<1> SUFFICES ASSUME IInv, StopChild PROVE StructInv'
  OBVIOUS
<1>1. /\ AllBorn /\ Stopping /\ NobodyLeft /\ mode = "stopping" /\ stop \in Stops
      /\ stop.left # <<>> /\ stop.phase = "ask" /\ OneIncarnation /\ Listed
      /\ UNCHANGED <<mode, children, alive, killed, watched, born, downs, call>>
  BY DEF IInv, TypeOK, StopChild
<1> DEFINE c == Head(stop.left)
<1>2. /\ stop.left \in Seq(Child) /\ 1 \in DOMAIN stop.left /\ c = stop.left[1]
      /\ DOMAIN stop.left \subseteq Nat \ {0}
  <2>1. stop.left \in Seq(Child)
    BY <1>1, StopsUpdates
  <2> QED BY <1>1, <2>1
<1> HIDE DEF c
<1>3. Stopping' /\ asked' \subseteq asked \cup alive
  <2>1. CASE c.pid \in stop.seen
    <3>1. stop' = [stop EXCEPT !.left = Tail(@)] /\ UNCHANGED asked
      BY <2>1 DEF StopChild, c
    <3>2. /\ stop'.left = Tail(stop.left) /\ stop'.phase = "ask"
          /\ stop'.seen = stop.seen
      BY <1>1, <3>1 DEF Stops
    <3>3. c.pid \notin alive
      BY <1>1, <2>1 DEF Stopping
    <3> QED BY <1>1, <1>2, <3>1, <3>2, <3>3, LeftTail DEF c
  <2>2. CASE c.pid \notin stop.seen
    <3>1. stop' = [stop EXCEPT !.phase = "await"] /\ asked' = asked \cup ({c.pid} \cap alive)
      BY <2>2 DEF StopChild, c
    <3>2. /\ stop'.left = stop.left /\ stop'.phase = "await"
          /\ stop'.seen = stop.seen
      BY <1>1, <3>1 DEF Stops
    <3>3. ASSUME NEW i \in DOMAIN children, NEW j \in DOMAIN children,
                 NEW l \in DOMAIN stop.left, i < j, children[i].pid \in asked'
          PROVE  children[j].pid # stop.left[l].pid
      <4>1. CASE children[i].pid \in asked
        BY <1>1, <3>3, <4>1 DEF Stopping
      <4>2. CASE children[i].pid = c.pid
        <5>1. children[j].pid = stop.left[l].pid => l < 1
          BY <1>1, <1>2, <3>3, <4>2 DEF Stopping
        <5> QED BY <1>2, <5>1
      <4> QED BY <3>1, <3>3, <4>1, <4>2
    <3> QED BY <1>1, <3>1, <3>2, <3>3 DEF Stopping
  <2> QED BY <2>1, <2>2
<1> QED BY <1>1, <1>3 DEF StructInv, AllBorn, Listed, TaskOK, LivingListed,
           NotAskedYet, Noticed, OneIncarnation, NobodyLeft

\* A down taken while stop_children waits is that of a dead child.
LEMMA AwaitDownStep == IInv /\ AwaitDown => StructInv'
<1> SUFFICES ASSUME IInv, AwaitDown PROVE StructInv'
  OBVIOUS
<1> USE DEF childVars
<1>1. /\ AllBorn /\ Stopping /\ NobodyLeft /\ mode = "stopping" /\ stop \in Stops
      /\ stop.left # <<>> /\ OneIncarnation /\ Listed /\ downs \in Seq(Down)
      /\ UNCHANGED <<mode, children, childVars, call>>
  BY DEF IInv, TypeOK, AwaitDown, Stopping
<1>2. stop.left \in Seq(Child)
  BY <1>1, StopsUpdates
<1>3. CASE downs # <<>>
  <2> DEFINE ref == Head(downs).ref
  <2>1. TakeDown(ref) /\ downs' = Tail(downs)
    BY <1>3 DEF AwaitDown
  <2>2. ref \notin alive /\ \A d \in DOMAIN downs' : downs'[d].ref \in DOMAIN born \ alive
    <3>1. /\ 1 \in DOMAIN downs /\ Head(downs) = downs[1]
          /\ \A d \in DOMAIN Tail(downs) : /\ d + 1 \in DOMAIN downs
                                           /\ Tail(downs)[d] = downs[d + 1]
      BY <1>1, <1>3
    <3> QED BY <1>1, <2>1, <3>1 DEF AllBorn
  <2> HIDE DEF ref
  <2>3. Stopping'
    <3>1. CASE ref = Head(stop.left).pid
      <4>1. stop' = [stop EXCEPT !.left = Tail(@), !.phase = "ask"]
        BY <2>1, <3>1 DEF TakeDown
      <4>2. /\ stop'.left = Tail(stop.left) /\ stop'.phase = "ask"
            /\ stop'.seen = stop.seen
        BY <1>1, <4>1 DEF Stops
      <4> QED BY <1>1, <1>2, <2>2, <3>1, <4>2, LeftTail
    <3>2. CASE ref # Head(stop.left).pid
      <4>1. stop' = [stop EXCEPT !.seen = @ \cup {ref}]
        BY <2>1, <3>2 DEF TakeDown
      <4>2. /\ stop'.left = stop.left /\ stop'.phase = stop.phase
            /\ stop'.seen = stop.seen \cup {ref}
        BY <1>1, <4>1 DEF Stops
      <4> QED BY <1>1, <2>2, <4>2 DEF Stopping
    <3> QED BY <3>1, <3>2
  <2>4. AllBorn'
    BY <1>1, <2>2 DEF AllBorn
  <2> QED BY <1>1, <2>3, <2>4 DEF StructInv, Listed, TaskOK, LivingListed,
             NotAskedYet, Noticed, OneIncarnation, NobodyLeft
<1>4. CASE downs = <<>>
  <2>1. UNCHANGED <<stop, downs>>
    BY <1>4 DEF AwaitDown
  <2> QED BY <1>1, <2>1 DEF StructInv, AllBorn, Listed, TaskOK, LivingListed,
             NotAskedYet, Noticed, OneIncarnation, NobodyLeft, Stopping
<1> QED BY <1>3, <1>4

\* The :kill after the deadline changes nobody's place in the list.
LEMMA KillChildStep == IInv /\ KillChild => StructInv'
<1> SUFFICES ASSUME IInv, KillChild PROVE StructInv'
  OBVIOUS
<1>1. /\ AllBorn /\ Stopping /\ NobodyLeft /\ mode = "stopping" /\ stop \in Stops
      /\ stop.left # <<>> /\ OneIncarnation /\ Listed
      /\ stop' = [stop EXCEPT !.phase = "killing"]
      /\ killed' \subseteq killed \cup alive
      /\ UNCHANGED <<mode, children, alive, asked, watched, born, downs, call>>
  BY DEF IInv, TypeOK, KillChild, Stopping
<1>2. stop'.left = stop.left /\ stop'.phase = "killing" /\ stop'.seen = stop.seen
  BY <1>1 DEF Stops
<1>3. Stopping'
  BY <1>1, <1>2 DEF Stopping
<1> QED BY <1>1, <1>3 DEF StructInv, AllBorn, Listed, TaskOK, LivingListed,
           NotAskedYet, Noticed, OneIncarnation, NobodyLeft

\* The end of stop_children: nobody is left to live.
LEMMA StoppedStep == IInv /\ Stopped => StructInv'
<1> SUFFICES ASSUME IInv, Stopped PROVE StructInv'
  OBVIOUS
<1>1. /\ AllBorn /\ Stopping /\ mode = "stopping" /\ stop.left = <<>>
      /\ OneIncarnation /\ Listed /\ mode' = "dead" /\ downs' = <<>>
      /\ asked' = asked \cup alive
      /\ UNCHANGED <<children, alive, killed, watched, born>>
  BY DEF IInv, Stopped, Dies
<1>2. alive = {}
  BY <1>1 DEF Stopping
<1> QED BY <1>1, <1>2 DEF StructInv, AllBorn, Listed, TaskOK, LivingListed,
           NotAskedYet, Noticed, OneIncarnation, NobodyLeft, Stopping

\* A child ends: whoever watches it is told.
LEMMA ChildEndsStep ==
    ASSUME IInv, NEW p \in Pids, ChildEnds(p)
    PROVE  StructInv'
<1> USE DEF supVars
<1>1. /\ AllBorn /\ Listed /\ TaskOK /\ LivingListed /\ NotAskedYet /\ Noticed
      /\ OneIncarnation /\ NobodyLeft /\ Stopping
      /\ born \in Seq(Birth) /\ downs \in Seq(Down)
      /\ p \in alive /\ alive' = alive \ {p}
      /\ UNCHANGED <<supVars, asked, killed, watched, starter, call>>
  BY DEF IInv, TypeOK, ChildEnds
<1>2. PICK reason :
          /\ born' = [born EXCEPT ![p].ended = reason]
          /\ downs' = IF p \in watched /\ mode # "dead"
                      THEN Append(downs, [ref |-> p, reason |-> reason]) ELSE downs
  BY DEF ChildEnds
<1>3. DOMAIN born' = DOMAIN born /\ \A q \in DOMAIN born : born'[q].name = born[q].name
  <2>1. \A q \in DOMAIN born : born[q] \in Birth
    BY <1>1
  <2>2. \A q \in DOMAIN born : [born[q] EXCEPT !.ended = reason].name = born[q].name
    BY <2>1 DEF Birth
  <2>3. born' = [q \in DOMAIN born |-> IF q = p THEN [born[q] EXCEPT !.ended = reason]
                                       ELSE born[q]]
    BY <1>2
  <2> QED BY <2>2, <2>3
<1>4. /\ \A d \in DOMAIN downs : d \in DOMAIN downs' /\ downs'[d] = downs[d]
      /\ \A d \in DOMAIN downs' : \/ downs'[d] = downs[d] /\ d \in DOMAIN downs
                                  \/ downs'[d].ref = p
      /\ p \in watched /\ mode # "dead" => \E d \in DOMAIN downs' : downs'[d].ref = p
  <2>1. CASE p \in watched /\ mode # "dead"
    <3> DEFINE e == [ref |-> p, reason |-> reason]
    <3>1. downs' = Append(downs, e) /\ e.ref = p
      BY <1>2, <2>1
    <3> HIDE DEF e
    <3>2. /\ DOMAIN downs' = 1 .. Len(downs) + 1 /\ Len(downs) \in Nat
          /\ DOMAIN downs = 1 .. Len(downs)
          /\ downs'[Len(downs) + 1] = e
          /\ \A d \in 1 .. Len(downs) : downs'[d] = downs[d]
      BY <1>1, <3>1
    <3> QED BY <3>1, <3>2
  <2>2. CASE ~(p \in watched /\ mode # "dead")
    BY <1>2, <2>2
  <2> QED BY <2>1, <2>2
<1>5. AllBorn'
  BY <1>1, <1>3, <1>4 DEF AllBorn
<1>6. Listed'
  BY <1>1, <1>3 DEF Listed
<1>7. TaskOK'
  BY <1>1, <1>3 DEF TaskOK, InInit
<1>8. Noticed'
  <2>1. ASSUME NEW i \in DOMAIN children, mode \in {"starting", "loop"}
        PROVE  \/ children[i].pid = task.old
               \/ children[i].pid \in alive' \cap watched
               \/ \E j \in DOMAIN downs' : downs'[j].ref = children[i].pid
    BY <1>1, <1>4, <2>1 DEF Noticed
  <2> QED BY <1>1, <2>1 DEF Noticed
<1>9. OneIncarnation'
  BY <1>1, <1>3 DEF OneIncarnation, AllBorn
<1> QED BY <1>1, <1>5, <1>6, <1>7, <1>8, <1>9
        DEF StructInv, LivingListed, NotAskedYet, Stopping, NobodyLeft

\* Callers, the clock and the death of the supervisor itself.
LEMMA OthersStep ==
    ASSUME IInv,
           \/ Expire \/ SupKilled \/ Tick \/ UNCHANGED vars
           \/ \E c \in Clients : Call(c) \/ CallTimeout(c)
    PROVE  StructInv'
<1> USE DEF supVars, childVars
<1>1. /\ AllBorn /\ Listed /\ TaskOK /\ LivingListed /\ NotAskedYet /\ Noticed
      /\ OneIncarnation /\ NobodyLeft /\ Stopping
      /\ call \in [Clients -> {"idle", "waiting", "busy", "timeout", "stopped", "listed"}]
  BY DEF IInv, TypeOK
<1>2. CASE SupKilled
  <2>1. /\ mode # "dead" /\ mode' = "dead" /\ downs' = <<>> /\ asked' = asked \cup alive
        /\ UNCHANGED <<children, task, alive, killed, watched, born, call>>
    BY <1>2 DEF SupKilled, Dies
  <2> QED BY <1>1, <2>1 DEF StructInv, AllBorn, Listed, TaskOK, LivingListed,
             NotAskedYet, Noticed, OneIncarnation, NobodyLeft, Stopping
<1>3. CASE ~SupKilled
  <2>1. /\ UNCHANGED <<supVars, childVars, downs, starter>>
        /\ \A c \in Clients : call'[c] = "stopped" => call[c] = "stopped"
    <3>1. CASE Expire \/ Tick \/ UNCHANGED vars
      BY <3>1 DEF Expire, Tick, vars
    <3>2. ASSUME NEW c \in Clients, Call(c) \/ CallTimeout(c) PROVE <2>1
      <4>1. /\ UNCHANGED <<supVars, childVars, downs, starter>>
            /\ \E r \in {"busy", "waiting", "timeout"} : call' = [call EXCEPT ![c] = r]
        BY <3>2 DEF Call, CallTimeout
      <4> QED BY <1>1, <4>1
    <3> QED BY <1>3, <3>1, <3>2
  <2> QED BY <1>1, <2>1 DEF StructInv, AllBorn, Listed, TaskOK, LivingListed,
             NotAskedYet, Noticed, OneIncarnation, NobodyLeft, Stopping, InInit
<1> QED BY <1>2, <1>3


\* The clock goes on: what was out of the window stays out.
LEMMA WindowQuiet ==
    ASSUME TypeOK, Window, RestartsAreBounded, UNCHANGED <<restarts, began>>,
           now' \in Nat, now <= now'
    PROVE  Window' /\ RestartsAreBounded'
<1>1. /\ Within \in Nat /\ now \in Nat /\ began \in Seq(Nat) /\ restarts \in Seq(Nat)
      /\ Len(began) \in Nat /\ Len(restarts) \in Nat
  BY SupervisorAssumption DEF TypeOK
<1>2. \A i \in DOMAIN began : began[i] \in Nat /\ began[i] <= now
  BY <1>1 DEF Window
<1>3. \A i \in DOMAIN began : began[i] <= now'
  BY <1>1, <1>2
<1>4. ASSUME NEW i \in 1 .. Len(began) - Len(restarts) PROVE now' - began[i] >= Within
  <2>1. i \in DOMAIN began /\ now - began[i] >= Within
    BY <1>1 DEF Window
  <2> QED BY <1>1, <1>2, <2>1
<1>5. RestartsAreBounded'
  BY DEF RestartsAreBounded
<1> QED BY <1>3, <1>4, <1>5 DEF Window

\* A restart that the limit allows: the restarts in the window are those of
\* state.restarts, the new one included.
LEMMA Restarted ==
    ASSUME TypeOK, Window, RestartsAreBounded,
           restarts' = Append(InWindow(restarts), now),
           began' = Append(began, now), now' = now,
           Len(restarts') <= MaxRestarts
    PROVE  Window' /\ RestartsAreBounded'
<1> DEFINE w == InWindow(restarts)
           n == Len(began)
           m == Len(restarts)
           k == Len(w)
<1>1. /\ Within \in Nat /\ now \in Nat /\ began \in Seq(Nat) /\ restarts \in Seq(Nat)
      /\ MaxRestarts \in Nat
  BY SupervisorAssumption DEF TypeOK
<1>2. /\ w \in Seq(Nat) /\ k <= m
      /\ \A i \in DOMAIN w : w[i] = restarts[m - k + i]
      /\ \A i \in 1 .. (m - k) : now - restarts[i] >= Within
  BY InWindowFacts
<1>3. /\ m <= n
      /\ \A i \in DOMAIN restarts : restarts[i] = began[n - m + i]
      /\ \A i \in 1 .. (n - m) : now - began[i] >= Within
      /\ \A i, j \in DOMAIN began : i <= j => began[i] <= began[j]
      /\ \A i \in DOMAIN began : began[i] <= now
  BY DEF Window
<1>4. /\ n \in Nat /\ m \in Nat /\ k \in Nat
      /\ DOMAIN began = 1 .. n /\ DOMAIN restarts = 1 .. m /\ DOMAIN w = 1 .. k
  BY <1>1, <1>2
<1>5. /\ began' \in Seq(Nat) /\ Len(began') = n + 1 /\ DOMAIN began' = 1 .. n + 1
      /\ began'[n + 1] = now /\ \A i \in 1 .. n : began'[i] = began[i]
  BY <1>1
<1>6. /\ restarts' \in Seq(Nat) /\ Len(restarts') = k + 1
      /\ DOMAIN restarts' = 1 .. k + 1
      /\ restarts'[k + 1] = now /\ \A i \in 1 .. k : restarts'[i] = w[i]
  BY <1>1, <1>2
<1> HIDE DEF w, n, m, k
<1>7. ASSUME NEW i \in 1 .. k + 1
      PROVE  restarts'[i] = began'[(n + 1) - (k + 1) + i]
  <2>1. CASE i = k + 1
    <3>1. (n + 1) - (k + 1) + i = n + 1
      BY <1>4, <2>1
    <3> QED BY <1>5, <1>6, <2>1, <3>1
  <2>2. CASE i # k + 1
    <3>1. /\ i \in 1 .. k /\ m - k + i \in 1 .. m
          /\ n - m + (m - k + i) = (n + 1) - (k + 1) + i
          /\ (n + 1) - (k + 1) + i \in 1 .. n
      BY <1>2, <1>3, <1>4, <2>2
    <3>2. restarts'[i] = restarts[m - k + i]
      BY <1>2, <1>4, <1>6, <3>1
    <3>3. restarts[m - k + i] = began[n - m + (m - k + i)]
      BY <1>3, <1>4, <3>1
    <3> QED BY <1>5, <3>1, <3>2, <3>3
  <2> QED BY <2>1, <2>2
<1>8. ASSUME NEW i \in 1 .. (n + 1) - (k + 1) PROVE now - began'[i] >= Within
  <2>1. i \in 1 .. n /\ began'[i] = began[i]
    BY <1>4, <1>5
  <2>2. CASE i <= n - m
    BY <1>3, <1>4, <2>1, <2>2
  <2>3. CASE ~(i <= n - m)
    <3>1. /\ i - (n - m) \in 1 .. m - k /\ i - (n - m) \in 1 .. m
          /\ n - m + (i - (n - m)) = i
      BY <1>2, <1>3, <1>4, <2>3
    <3>2. restarts[i - (n - m)] = began[i]
      BY <1>3, <1>4, <3>1
    <3> QED BY <1>2, <2>1, <3>1, <3>2
  <2> QED BY <2>2, <2>3
<1>9. Window'
  <2>1. ASSUME NEW i \in 1 .. n + 1 PROVE began'[i] \in Nat /\ began'[i] <= now
    <3>1. CASE i \in 1 .. n
      <4>1. began'[i] = began[i] /\ began[i] \in Nat
        BY <1>1, <1>4, <1>5, <3>1
      <4> QED BY <1>3, <1>4, <3>1, <4>1
    <3>2. CASE i = n + 1
      BY <1>1, <1>5, <3>2
    <3> QED BY <1>4, <3>1, <3>2
  <2>2. ASSUME NEW i \in 1 .. n + 1, NEW j \in 1 .. n + 1, i <= j
        PROVE  began'[i] <= began'[j]
    <3>1. CASE j = n + 1
      BY <1>5, <2>1, <3>1
    <3>2. CASE j # n + 1
      <4>1. i \in 1 .. n /\ j \in 1 .. n
        BY <1>4, <2>2, <3>2
      <4> QED BY <1>3, <1>4, <1>5, <2>2, <4>1
    <3> QED BY <3>1, <3>2
  <2>3. k + 1 <= n + 1
    BY <1>2, <1>3, <1>4
  <2> QED BY <1>5, <1>6, <1>7, <1>8, <2>1, <2>2, <2>3 DEF Window
<1>10. ASSUME NEW i \in 1 .. n + 1
       PROVE  Cardinality({j \in DOMAIN began' : j <= i /\ began'[i] - began'[j] < Within})
                <= MaxRestarts
  <2> DEFINE S == {j \in DOMAIN began' : j <= i /\ began'[i] - began'[j] < Within}
  <2>1. CASE i = n + 1
    <3> DEFINE a == (n + 1) - (k + 1) + 1
    <3>1. S \subseteq a .. n + 1
      <4>1. ASSUME NEW j \in S PROVE j \in a .. n + 1
        <5>1. /\ j \in 1 .. n + 1 /\ now - began'[j] < Within /\ began'[j] \in Nat
          BY <1>5, <2>1
        <5>2. ~(j \in 1 .. (n + 1) - (k + 1))
          BY <1>1, <1>8, <5>1
        <5> QED BY <1>4, <5>1, <5>2
      <4> QED BY <4>1
    <3>2. /\ a \in Int /\ n + 1 \in Int /\ (n + 1) - a + 1 = k + 1 /\ a <= n + 1
      BY <1>4
    <3>3. IsFiniteSet(a .. n + 1) /\ Cardinality(a .. n + 1) = k + 1
      <4> HIDE DEF a
      <4>1. /\ IsFiniteSet(a .. n + 1)
            /\ Cardinality(a .. n + 1) = IF a > n + 1 THEN 0 ELSE (n + 1) - a + 1
        BY <3>2, FS_Interval
      <4> QED BY <3>2, <4>1
    <3> HIDE DEF S, a
    <3>4. Cardinality(S) <= k + 1
      <4>1. S \in SUBSET (a .. n + 1)
        BY <3>1
      <4> QED BY <3>3, <4>1, FS_Subset
    <3>5. Cardinality(S) \in Nat
      BY <3>1, <3>3, FS_Subset, FS_CardinalityType
    <3>6. k + 1 <= MaxRestarts /\ k + 1 \in Nat
      BY <1>4, <1>6
    <3>7. Cardinality(S) <= MaxRestarts
      BY <1>1, <3>4, <3>5, <3>6
    <3> QED BY <3>7 DEF S
  <2>2. CASE i # n + 1
    <3>1. i \in 1 .. n
      BY <1>4, <2>2
    <3>2. S = {j \in DOMAIN began : j <= i /\ began[i] - began[j] < Within}
      BY <1>4, <1>5, <3>1
    <3> QED BY <1>4, <3>1, <3>2 DEF RestartsAreBounded
  <2> QED BY <2>1, <2>2
<1> QED BY <1>5, <1>9, <1>10 DEF RestartsAreBounded

\* Every step keeps the window and the bound.
LEMMA WindowStep == IInv /\ TypeOK' /\ [Next]_vars => Window' /\ RestartsAreBounded'
<1> SUFFICES ASSUME IInv, TypeOK', [Next]_vars PROVE Window' /\ RestartsAreBounded'
  OBVIOUS
<1> USE DEF supVars, childVars
<1>1. TypeOK /\ Window /\ RestartsAreBounded /\ now \in Nat /\ now' \in Nat
  BY DEF IInv, TypeOK
<1>2. ASSUME NEW name, NEW pid, NEW reason, Exited(name, pid, reason), now' = now
      PROVE  Window' /\ RestartsAreBounded'
  <2>1. CASE UNCHANGED <<restarts, began>>
    BY <1>1, <1>2, <2>1, WindowQuiet
  <2>2. CASE ~UNCHANGED <<restarts, began>>
    <3> DEFINE ts == Append(InWindow(restarts), now)
    <3>1. restarts' = ts /\ began' = Append(began, now) /\ ~OverLimit(ts)
      BY <1>2, <2>2 DEF Exited
    <3>2. Len(restarts') <= MaxRestarts
      <4>1. InWindow(restarts) \in Seq(Nat)
        BY <1>1, InWindowFacts
      <4>2. Len(ts) \in Nat
        BY <1>1, <4>1
      <4> QED BY <3>1, <4>2, SupervisorAssumption DEF OverLimit
    <3> QED BY <1>1, <1>2, <3>1, <3>2, Restarted
  <2> QED BY <2>1, <2>2
<1>3. CASE ChildDown
  <2>1. now' = now /\ \/ UNCHANGED <<restarts, began>>
                      \/ \E name, pid, reason : Exited(name, pid, reason)
    BY <1>3 DEF ChildDown
  <2> QED BY <1>1, <1>2, <2>1, WindowQuiet
<1>4. CASE StartFails
  <2>1. now' = now /\ \/ UNCHANGED <<restarts, began>>
                      \/ \E name, pid, reason : Exited(name, pid, reason)
    BY <1>4 DEF StartFails
  <2> QED BY <1>1, <1>2, <2>1, WindowQuiet
<1>5. CASE ~ChildDown /\ ~StartFails
  <2>1. UNCHANGED <<restarts, began>> /\ (now' = now \/ now' = now + 1)
    BY <1>5 DEF Next, SupStep, StartOk, WatchChild, Request, StopChild, AwaitDown,
       KillChild, Stopped, ChildEnds, Expire, Call, CallTimeout, SupKilled, Tick,
       Rest, vars, BeginStop, Dies
  <2> QED BY <1>1, <2>1, WindowQuiet
<1> QED BY <1>3, <1>4, <1>5

-----------------------------------------------------------------------------
(* The theorems *)

\* The invariant holds when the supervisor starts.
LEMMA IInvInit == Init => IInv
<1> SUFFICES ASSUME Init PROVE IInv
  OBVIOUS
<1>1. Count \in Nat \ {0}
  BY SupervisorAssumption
<1>2. task.name = 1 /\ task.old = 0 /\ task.new = 0
  BY DEF Init, NoTask
<1>3. NoStop \in Stops
  <2>1. <<>> \in Seq(Child)
    OBVIOUS
  <2> QED BY <2>1 DEF NoStop, Stops
<1>4. TypeOK
  <2>1. task \in [name : 0 .. Count, old : Nat, new : Nat]
    BY <1>1 DEF Init, NoTask
  <2>2. call \in [Clients -> {"idle", "waiting", "busy", "timeout", "stopped", "listed"}]
    BY DEF Init
  <2>3. /\ children \in Seq(Child) /\ downs \in Seq(Down) /\ inbox \in Seq(Req)
        /\ born \in Seq(Birth) /\ restarts \in Seq(Nat) /\ began \in Seq(Nat)
    BY DEF Init
  <2>4. /\ stop \in Stops /\ mode = "starting" /\ expired = FALSE /\ now = 0
        /\ alive = {} /\ asked = {} /\ killed = {} /\ watched = {}
        /\ starter = "waiting"
    BY <1>3 DEF Init
  <2> QED BY <2>1, <2>2, <2>3, <2>4 DEF TypeOK
<1>5. /\ AllBorn /\ Listed /\ LivingListed /\ NotAskedYet /\ Noticed
      /\ OneIncarnation /\ Stopping /\ NobodyLeft
  BY DEF Init, AllBorn, Listed, LivingListed, NotAskedYet, Noticed,
     OneIncarnation, Stopping, NobodyLeft
<1>6. TaskOK
  BY <1>1, <1>2 DEF Init, TaskOK, InInit
<1>7. Window /\ RestartsAreBounded
  BY DEF Init, Window, RestartsAreBounded
<1> QED BY <1>4, <1>5, <1>6, <1>7 DEF IInv

\* Every step keeps the invariant.
LEMMA IInvStep == IInv /\ [Next]_vars => IInv'
<1> SUFFICES ASSUME IInv, [Next]_vars PROVE IInv'
  OBVIOUS
<1>1. TypeOK'
  BY TypeStep
<1>2. StructInv'
  <2>1. CASE SupStep
    BY <1>1, <2>1, StartOkStep, StartFailsStep, WatchChildStep, ChildDownStep,
       RequestStep, StopChildStep, AwaitDownStep, KillChildStep, StoppedStep
       DEF SupStep
  <2>2. CASE \E p \in Pids : ChildEnds(p)
    BY <2>2, ChildEndsStep
  <2>3. CASE \/ Expire \/ SupKilled \/ Tick \/ UNCHANGED vars
             \/ \E c \in Clients : Call(c) \/ CallTimeout(c)
    BY <2>3, OthersStep
  <2> QED BY <2>1, <2>2, <2>3 DEF Next, Rest
<1>3. Window' /\ RestartsAreBounded'
  BY <1>1, WindowStep
<1> QED BY <1>1, <1>2, <1>3 DEF IInv, StructInv

\* Every variable of the supervisor keeps its type, whatever ends, fails or is
\* asked for in whatever order.
THEOREM TypeCorrect == Spec => []TypeOK
<1>1. IInv => TypeOK
  BY DEF IInv
<1> QED BY <1>1, IInvInit, IInvStep, PTL DEF Spec

\* While the supervisor serves its loop every listed child lives and is
\* watched, or the news of its end is in the mailbox.
THEOREM NoticedCorrect == Spec => []NobodyFallsUnnoticed
<1>1. IInv => NobodyFallsUnnoticed
  <2> SUFFICES ASSUME IInv, mode = "loop", NEW i \in DOMAIN children
               PROVE  \/ children[i].pid \in alive \cap watched
                      \/ \E j \in DOMAIN downs : downs[j].ref = children[i].pid
    BY DEF NobodyFallsUnnoticed
  <2>1. children[i].pid # task.old
    <3>1. born \in Seq(Birth)
      BY DEF IInv, TypeOK
    <3>2. 0 \notin DOMAIN born
      BY <3>1
    <3> QED BY <3>2 DEF IInv, TaskOK, Listed
  <2> QED BY <2>1 DEF IInv, Noticed
<1> QED BY <1>1, IInvInit, IInvStep, PTL DEF Spec

\* stop answers :ok when nobody is left, no name has two living incarnations,
\* and a child is asked to stop only when those started after it are gone.
THEOREM StopCorrect == Spec => []StopIsOrderly
<1>1. IInv => StopIsOrderly
  <2> SUFFICES ASSUME IInv PROVE StopIsOrderly
    OBVIOUS
  <2>1. (\E c \in Clients : call[c] = "stopped") => alive = {}
    BY DEF IInv, NobodyLeft
  <2>2. \A p, q \in alive : born[p].name = born[q].name => p = q
    BY DEF IInv, OneIncarnation
  <2>3. ASSUME mode = "stopping", NEW i \in DOMAIN children, NEW j \in DOMAIN children,
               i < j, children[i].pid \in asked
        PROVE  children[j].pid \notin alive
    BY <2>3 DEF IInv, Stopping
  <2> QED BY <2>1, <2>2, <2>3 DEF StopIsOrderly
<1> QED BY <1>1, IInvInit, IInvStep, PTL DEF Spec

\* At most max_restarts restarts begin within any `within` milliseconds.
THEOREM RestartsCorrect == Spec => []RestartsAreBounded
<1>1. IInv => RestartsAreBounded
  BY DEF IInv
<1> QED BY <1>1, IInvInit, IInvStep, PTL DEF Spec
=============================================================================
