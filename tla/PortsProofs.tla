----------------------------- MODULE PortsProofs -----------------------------
(* Proofs about Ports, for any number of actors, ports, sizes and requests: *)
(* an open port has one live owner that knows of it, a refused writer is    *)
(* told when there is room, and a closed port is silent; every request has  *)
(* one answer under way, the loop waits while anything is, and what was     *)
(* accepted for writing is in the file at the end.                          *)
EXTENDS Ports, SequenceTheorems, FiniteSetTheorems, TLAPS

PortRec == [state : {"none", "open", "closed"}, kind : {"read", "write", "signal"},
            owner : Actors, armed : BOOLEAN, pending : Int, promise : BOOLEAN]
ResRec == [at : {"none", "opening", "wait", "busy", "gone"}, ops : Seq(Ops),
           failed : BOOLEAN, err : BOOLEAN, closing : BOOLEAN]
Notes == [port : PortIds, ev : {"data", "eof", "error", "ready", "signal"}]

\* The loop's part of the state.
LoopType == /\ alive \subseteq Actors
            /\ owned \in [Actors -> SUBSET PortIds]
            /\ port \in [PortIds -> PortRec]

\* The goroutines' part; one that is busy has an operation.
GoType == /\ res \in [PortIds -> ResRec]
          /\ \A p \in PortIds : res[p].at = "busy" => res[p].ops # <<>>

QueueType == /\ inject \in Seq(Events) /\ batch \in Seq(Events)
             /\ got \in [Actors -> Seq(Notes)]

\* A list holds open ports of its actor only: without it a port that is opened,
\* whose number stands in no list yet, could come to have two owners.
ListsAreOpen ==
    \A a \in Actors : \A p \in owned[a] : Open(p) /\ port[p].owner = a

\* The port table, which only the loop changes.
Table == LoopType /\ PortsOfTheLiving /\ ListsAreOpen /\ PromiseMeansFull

PortInv == Table /\ GoType /\ QueueType

\* What the proofs use of the constants.
LEMMA Bounds ==
    /\ Main \in Actors /\ HWM \in Nat
    /\ \A k \in Kinds : k \in {"read", "write", "signal"}
    /\ \A n \in Sizes \cup {0} : n \in Nat
<1>1. Main \in Actors
  BY PortBounds
<1>2. HWM \in Nat
  BY PortBounds
<1>3. \A k \in Kinds : k \in {"read", "write", "signal"}
  BY PortBounds, Zenon
<1>4. \A n \in Sizes : n \in Nat
  BY PortBounds, Zenon
<1> QED BY <1>1, <1>2, <1>3, <1>4

-----------------------------------------------------------------------------
(* The operations on the port table. *)

\* Closing the ports of P, all those of an actor if it dies, keeps the table
\* and the lists of ports in step, and tells each resource at most to close.
LEMMA ShutKeeps ==
    ASSUME NEW P, Shut(P), Table, GoType,
           alive' \subseteq alive,
           \A a \in alive \ alive' : P = owned[a]
    PROVE  Table' /\ GoType'
<1> DEFINE Q == {p \in P : Open(p)}
<1>1. \A p \in PortIds :
         port'[p] = IF p \in Q THEN [port[p] EXCEPT !.state = "closed"] ELSE port[p]
  BY DEF Shut, Table, LoopType
<1>2. \A a \in Actors : owned'[a] = owned[a] \ {p \in Q : port[p].owner = a}
  BY DEF Shut
<1>3. port' \in [PortIds -> PortRec]
  BY DEF Shut, Table, LoopType, PortRec
<1>4. LoopType'
  BY <1>3 DEF Shut, Table, LoopType
<1>5. GoType'
  BY DEF Shut, GoType, ResRec
<1>6. \A p \in PortIds : Open(p)' => Open(p) /\ p \notin Q /\ port'[p] = port[p]
  <2> TAKE p \in PortIds
  <2> HAVE Open(p)'
  <2>1. port[p] \in PortRec
    BY DEF Table, LoopType
  <2>2. p \notin Q
    BY <1>1, <2>1 DEF Open, PortRec
  <2> QED BY <1>1, <2>2 DEF Open
<1>7. PortsOfTheLiving'
  <2> SUFFICES ASSUME NEW p \in PortIds, Open(p)'
               PROVE  /\ port'[p].owner \in alive'
                      /\ \A a \in Actors : p \in owned'[a] <=> a = port'[p].owner
    BY DEF PortsOfTheLiving
  <2>1. Open(p) /\ p \notin Q /\ port'[p] = port[p]
    BY <1>6
  <2>2. /\ port[p].owner \in alive
        /\ \A a \in Actors : p \in owned[a] <=> a = port[p].owner
    BY <2>1 DEF Table, PortsOfTheLiving
  <2>3. p \notin P
    BY <2>1
  <2>4. port[p].owner \in alive'
    BY <2>2, <2>3 DEF Table, LoopType
  <2> QED BY <1>2, <2>1, <2>2, <2>4
<1>8. PromiseMeansFull'
  BY <1>6 DEF Table, PromiseMeansFull
<1>9. ListsAreOpen'
  BY <1>1, <1>2, <1>4 DEF ListsAreOpen, Table, LoopType, Open
<1> QED BY <1>4, <1>5, <1>7, <1>8, <1>9 DEF Table

\* A port may change all but its state and its owner; a promise needs a full
\* buffer.
LEMMA SetPort ==
    ASSUME NEW p \in PortIds, NEW r \in PortRec, Table,
           port' = [port EXCEPT ![p] = r],
           r.state = port[p].state, r.owner = port[p].owner,
           r.promise => r.pending >= HWM,
           alive' = alive, owned' = owned
    PROVE  Table'
<1>1. LoopType'
  BY DEF Table, LoopType
<1>2. \A q \in PortIds : port'[q] = IF q = p THEN r ELSE port[q]
  BY DEF Table, LoopType
<1>3. PortsOfTheLiving'
  BY <1>2 DEF Table, PortsOfTheLiving, Open
<1>4. ListsAreOpen'
  BY <1>2 DEF Table, LoopType, ListsAreOpen, Open
<1>5. PromiseMeansFull'
  BY <1>2 DEF Table, PromiseMeansFull, Open
<1> QED BY <1>1, <1>3, <1>4, <1>5 DEF Table

LEMMA SameTable ==
    ASSUME Table, UNCHANGED <<alive, owned, port>>
    PROVE  Table'
<1>1. LoopType'
  BY DEF Table, LoopType
<1>2. PortsOfTheLiving'
  BY DEF Table, PortsOfTheLiving, Open
<1>3. ListsAreOpen'
  BY DEF Table, ListsAreOpen, Open
<1>4. PromiseMeansFull'
  BY DEF Table, PromiseMeansFull, Open
<1> QED BY <1>1, <1>2, <1>3, <1>4 DEF Table

\* An event ends the request of its port, takes bytes off its buffer or closes it.
LEMMA EventKeeps ==
    ASSUME NEW e \in Events, Open(e.port), Event(e), Table, GoType,
           UNCHANGED alive
    PROVE  Table' /\ GoType'
<1> DEFINE p == e.port
<1>1. /\ p \in PortIds /\ port[p] \in PortRec /\ e.size \in Nat /\ HWM \in Nat
      /\ port[p].promise => port[p].pending >= HWM
  <2>1. p \in PortIds /\ e.size \in Sizes \cup {0}
    BY DEF Events
  <2>2. e.size \in Nat /\ HWM \in Nat
    BY <2>1, Bounds
  <2>3. port[p] \in PortRec
    BY <2>1 DEF Table, LoopType
  <2>4. port[p].promise => port[p].pending >= HWM
    BY <2>1 DEF Table, PromiseMeansFull
  <2> QED BY <2>1, <2>2, <2>3, <2>4
<1>2. CASE Shut({p})
  BY <1>2, ShutKeeps
<1>3. CASE UNCHANGED <<port, owned, res>>
  BY <1>3, SameTable DEF GoType
<1>4. CASE e.ev = "data" /\ port' = [port EXCEPT ![p].armed = FALSE]
           /\ UNCHANGED <<owned, res>>
  <2> DEFINE r == [port[p] EXCEPT !.armed = FALSE]
  <2>1. /\ r \in PortRec
        /\ r.state = port[p].state /\ r.owner = port[p].owner
        /\ r.promise = port[p].promise /\ r.pending = port[p].pending
    BY <1>1 DEF PortRec
  <2>2. port' = [port EXCEPT ![p] = r]
    BY <1>4
  <2> HIDE DEF r
  <2>3. Table'
    BY <1>1, <1>4, <2>1, <2>2, SetPort
  <2> QED BY <1>4, <2>3 DEF GoType
<1>5. CASE e.ev = "written"
  <2> DEFINE left == port[p].pending - e.size
             told == port[p].promise /\ left < HWM
             r == [port[p] EXCEPT !.pending = left,
                                  !.promise = IF told THEN FALSE ELSE @]
  <2>1. left \in Int
    BY <1>1 DEF PortRec
  <2>2. /\ r \in PortRec
        /\ r.state = port[p].state /\ r.owner = port[p].owner
        /\ r.pending = left
        /\ r.promise = IF told THEN FALSE ELSE port[p].promise
    BY <1>1, <2>1 DEF PortRec
  <2>3. r.promise => r.pending >= HWM
    BY <1>1, <2>1, <2>2 DEF PortRec
  <2>4. port' = [port EXCEPT ![p] = r] /\ UNCHANGED <<owned, res>>
    <3>1. CASE told
      BY <1>1, <1>5, <3>1 DEF Event
    <3>2. CASE ~told
      <4>1. port' = [port EXCEPT ![p].pending = left] /\ UNCHANGED <<owned, res>>
        BY <1>5, <3>2 DEF Event
      <4>2. r = [port[p] EXCEPT !.pending = left]
        BY <1>1, <3>2 DEF PortRec
      <4> HIDE DEF r
      <4> QED BY <4>1, <4>2
    <3> QED BY <3>1, <3>2
  <2> HIDE DEF r
  <2>5. Table'
    BY <1>1, <2>2, <2>3, <2>4, SetPort
  <2> QED BY <2>4, <2>5 DEF GoType
<1> QED BY <1>2, <1>3, <1>4, <1>5 DEF Event

-----------------------------------------------------------------------------
(* The natives. *)

LEMMA OpenKeeps ==
    ASSUME Table, GoType, NEW a \in Actors, NEW k \in Kinds, OpenPort(a, k)
    PROVE  Table' /\ GoType'
<1>1. PICK p \in PortIds :
         /\ port[p].state = "none"
         /\ port' = [port EXCEPT ![p] = [NoPort EXCEPT !.state = "open",
                                        !.kind = k, !.owner = a]]
         /\ owned' = [owned EXCEPT ![a] = @ \cup {p}]
         /\ res' = IF k = "signal" THEN res ELSE [res EXCEPT ![p].at = "opening"]
  BY DEF OpenPort
<1> DEFINE r == [NoPort EXCEPT !.state = "open", !.kind = k, !.owner = a]
<1>2. r \in PortRec /\ r.owner = a /\ r.promise = FALSE /\ r.state = "open"
  <2>1. Main \in Actors /\ k \in {"read", "write", "signal"}
    BY Bounds
  <2>2. NoPort \in PortRec /\ NoPort.promise = FALSE
    BY <2>1 DEF PortRec, NoPort
  <2> QED BY <2>1, <2>2 DEF PortRec
<1>3. port' = [port EXCEPT ![p] = r]
  BY <1>1
<1> HIDE DEF r
<1>4. \A q \in PortIds : port'[q] = IF q = p THEN r ELSE port[q]
  BY <1>3 DEF Table, LoopType
<1>5. \A b \in Actors : owned'[b] = IF b = a THEN owned[a] \cup {p} ELSE owned[b]
  BY <1>1 DEF Table, LoopType
<1>6. alive' = alive /\ a \in alive
  BY DEF OpenPort, Runs
<1>7. LoopType'
  BY <1>1, <1>2, <1>3, <1>6 DEF Table, LoopType
<1>8. GoType'
  BY <1>1 DEF GoType, ResRec
<1>9. \A b \in Actors : p \notin owned[b]
  BY <1>1 DEF Table, ListsAreOpen, Open
<1>10. PortsOfTheLiving'
  BY <1>2, <1>4, <1>5, <1>6, <1>9 DEF Table, PortsOfTheLiving, Open
<1>11. ListsAreOpen'
  BY <1>2, <1>4, <1>5, <1>9 DEF Table, LoopType, ListsAreOpen, Open
<1>12. PromiseMeansFull'
  BY <1>2, <1>4 DEF Table, PromiseMeansFull, Open
<1> QED BY <1>7, <1>8, <1>10, <1>11, <1>12 DEF Table

\* An operation put in the queue of a resource.
LEMMA Pushes ==
    ASSUME GoType, NEW p \in PortIds, NEW op \in Ops,
           res' = [res EXCEPT ![p].ops = Append(@, op)]
    PROVE  GoType'
<1>1. res[p] \in ResRec
  BY DEF GoType
<1>2. Append(res[p].ops, op) \in Seq(Ops) /\ Append(res[p].ops, op) # <<>>
  BY <1>1, AppendProperties DEF ResRec
<1>3. res' \in [PortIds -> ResRec]
  BY <1>1, <1>2 DEF GoType, ResRec
<1>4. \A q \in PortIds : res'[q].at = res[q].at
                        /\ res'[q].ops = IF q = p THEN Append(res[p].ops, op) ELSE res[q].ops
  BY DEF GoType, ResRec
<1> QED BY <1>2, <1>3, <1>4 DEF GoType

LEMMA RequestKeeps ==
    ASSUME Table, GoType, NEW a \in Actors, NEW p \in PortIds, Request(a, p)
    PROVE  Table' /\ GoType'
<1> DEFINE r == [port[p] EXCEPT !.armed = TRUE]
<1>1. port[p] \in PortRec /\ (port[p].promise => port[p].pending >= HWM)
  BY DEF Table, LoopType, PromiseMeansFull, Request, Owns
<1>2. /\ r \in PortRec
      /\ r.state = port[p].state /\ r.owner = port[p].owner
      /\ r.promise = port[p].promise /\ r.pending = port[p].pending
  BY <1>1 DEF PortRec
<1>3. port' = [port EXCEPT ![p] = r]
  BY DEF Request
<1> HIDE DEF r
<1>4. Table'
  BY <1>1, <1>2, <1>3, SetPort DEF Request
<1>5. GoType'
  BY Pushes DEF Request, Ops
<1> QED BY <1>4, <1>5

LEMMA WriteKeeps ==
    ASSUME Table, GoType, NEW a \in Actors, NEW p \in PortIds, NEW n \in Sizes,
           WritePort(a, p, n)
    PROVE  Table' /\ GoType'
<1>1. /\ port[p] \in PortRec /\ HWM \in Nat /\ n \in Nat
      /\ port[p].promise => port[p].pending >= HWM
  BY Bounds DEF Table, LoopType, PromiseMeansFull, WritePort, Owns
<1>2. CASE port[p].pending >= HWM /\ port' = [port EXCEPT ![p].promise = TRUE]
           /\ UNCHANGED res
  <2> DEFINE r == [port[p] EXCEPT !.promise = TRUE]
  <2>1. /\ r \in PortRec
        /\ r.state = port[p].state /\ r.owner = port[p].owner
        /\ r.pending = port[p].pending
    BY <1>1 DEF PortRec
  <2>2. port' = [port EXCEPT ![p] = r]
    BY <1>2
  <2> HIDE DEF r
  <2>3. Table'
    BY <1>2, <2>1, <2>2, SetPort DEF WritePort
  <2> QED BY <1>2, <2>3 DEF GoType
<1>3. CASE port[p].pending < HWM /\ port' = [port EXCEPT ![p].pending = @ + n]
           /\ res' = [res EXCEPT ![p].ops = Append(@, [read |-> FALSE, size |-> n])]
  <2> DEFINE r == [port[p] EXCEPT !.pending = @ + n]
  <2>1. /\ r \in PortRec
        /\ r.state = port[p].state /\ r.owner = port[p].owner
        /\ r.promise = port[p].promise
    BY <1>1 DEF PortRec
  <2>2. ~r.promise
    BY <1>1, <1>3, <2>1 DEF PortRec
  <2>3. port' = [port EXCEPT ![p] = r]
    BY <1>3
  <2> HIDE DEF r
  <2>4. Table'
    BY <2>1, <2>2, <2>3, SetPort DEF WritePort
  <2>5. GoType'
    BY <1>3, Pushes DEF Ops
  <2> QED BY <2>4, <2>5
<1> QED BY <1>2, <1>3 DEF WritePort

LEMMA GiveKeeps ==
    ASSUME Table, GoType, NEW a \in Actors, NEW p \in PortIds, NEW b \in Actors,
           Give(a, p, b)
    PROVE  Table' /\ GoType'
<1>1. /\ port[p] \in PortRec /\ Open(p) /\ port[p].owner = a
      /\ b \in alive /\ b # a /\ alive' = alive /\ res' = res
  BY DEF Table, LoopType, Give, Owns, resVars
<1> DEFINE r == [port[p] EXCEPT !.owner = b]
<1>2. /\ r \in PortRec /\ r.owner = b /\ r.state = port[p].state
      /\ r.promise = port[p].promise /\ r.pending = port[p].pending
  BY <1>1 DEF PortRec
<1>3. port' = [port EXCEPT ![p] = r]
  BY DEF Give
<1> HIDE DEF r
<1>4. \A q \in PortIds : port'[q] = IF q = p THEN r ELSE port[q]
  BY <1>3 DEF Table, LoopType
<1>5. \A c \in Actors : owned'[c] = IF c = a THEN owned[a] \ {p}
                                   ELSE IF c = b THEN owned[b] \cup {p} ELSE owned[c]
  BY <1>1 DEF Table, LoopType, Give
<1>6. LoopType'
  BY <1>1, <1>2, <1>3 DEF Table, LoopType, Give
<1>7. PortsOfTheLiving'
  BY <1>1, <1>2, <1>4, <1>5 DEF Table, PortsOfTheLiving, Open
<1>8. ListsAreOpen'
  BY <1>1, <1>2, <1>4, <1>5 DEF Table, LoopType, ListsAreOpen, Open
<1>9. PromiseMeansFull'
  BY <1>2, <1>4 DEF Table, PromiseMeansFull, Open
<1> QED BY <1>1, <1>6, <1>7, <1>8, <1>9 DEF Table, GoType

LEMMA NativeKeeps ==
    ASSUME PortInv, NEW a \in Actors, Native(a)
    PROVE  PortInv'
<1>0. Table /\ GoType
  BY DEF PortInv
<1>1. Table' /\ GoType'
  <2>1. ASSUME NEW k \in Kinds, OpenPort(a, k)  PROVE Table' /\ GoType'
    BY <1>0, <2>1, OpenKeeps
  <2>2. ASSUME NEW p \in PortIds, Request(a, p)  PROVE Table' /\ GoType'
    BY <1>0, <2>2, RequestKeeps
  <2>3. ASSUME NEW p \in PortIds, ClosePort(a, p)  PROVE Table' /\ GoType'
    BY <1>0, <2>3, ShutKeeps DEF ClosePort
  <2>4. ASSUME NEW p \in PortIds, NEW n \in Sizes, WritePort(a, p, n)
        PROVE  Table' /\ GoType'
    BY <1>0, <2>4, WriteKeeps
  <2>5. ASSUME NEW p \in PortIds, NEW b \in Actors, Give(a, p, b)
        PROVE  Table' /\ GoType'
    BY <1>0, <2>5, GiveKeeps
  <2>6. CASE Die(a)
    BY <1>0, <2>6, ShutKeeps DEF Die
  <2> QED BY <2>1, <2>2, <2>3, <2>4, <2>5, <2>6 DEF Native
<1>2. UNCHANGED <<inject, batch, got>>
  BY DEF Native, OpenPort, Request, ClosePort, WritePort, Give, Die
<1> QED BY <1>1, <1>2 DEF PortInv, QueueType

-----------------------------------------------------------------------------
(* The inject queue. *)

\* Who gets an event: the owner of the port at this moment, if anyone.
LEMMA Delivers ==
    ASSUME Table, QueueType, NEW p \in PortIds,
           NEW ev \in {"data", "eof", "error", "ready", "signal"},
           Deliver(p, ev)
    PROVE  /\ got' \in [Actors -> Seq(Notes)]
           /\ \A a \in Actors : got'[a] # got[a] =>
                 /\ port[p].owner = a
                 /\ Last(got'[a]).port = p /\ Front(got'[a]) = got[a]
<1> DEFINE o == port[p].owner
           note == [port |-> p, ev |-> ev]
<1>1. o \in Actors /\ got[o] \in Seq(Notes) /\ note \in Notes
  BY DEF Table, LoopType, PortRec, QueueType, Notes
<1>2. CASE UNCHANGED got
  BY <1>2 DEF QueueType
<1>3. CASE got' = [got EXCEPT ![o] = Append(@, note)]
  <2>1. \A a \in Actors : got'[a] = IF a = o THEN Append(got[o], note) ELSE got[a]
    BY <1>1, <1>3 DEF QueueType
  <2>2. Append(got[o], note) \in Seq(Notes)
    BY <1>1, AppendProperties
  <2>3. got' \in [Actors -> Seq(Notes)]
    BY <1>1, <1>3, <2>2 DEF QueueType
  <2>4. Last(Append(got[o], note)) = note
    BY <1>1, AppendProperties DEF Last
  <2>5. Front(Append(got[o], note)) = got[o]
    <3>1. Front(Append(got[o], note)) = SubSeq(Append(got[o], note), 1, Len(got[o]))
      BY <1>1, AppendProperties DEF Front
    <3>2. Append(got[o], note) = got[o] \o <<note>> /\ <<note>> \in Seq(Notes)
      BY <1>1, AppendIsConcat
    <3>3. Len(got[o]) \in Nat
      BY <1>1, LenProperties
    <3>4. SubSeq(got[o] \o <<note>>, 1, Len(got[o])) = SubSeq(got[o], 1, Len(got[o]))
      <4>1. CASE Len(got[o]) = 0
        BY <4>1, SubSeqEmpty
      <4>2. CASE Len(got[o]) # 0
        <5>1. 1 \in 1 .. Len(got[o]) /\ Len(got[o]) \in 1 .. Len(got[o])
          BY <3>3, <4>2
        <5> QED BY <1>1, <3>2, <5>1, SubSeqOfConcat1
      <4> QED BY <4>1, <4>2
    <3> QED BY <1>1, <3>1, <3>2, <3>4, SubSeqFull
  <2>6. note.port = p /\ o = port[p].owner
    OBVIOUS
  <2> HIDE DEF note, o
  <2> QED BY <2>1, <2>3, <2>4, <2>5, <2>6
<1> QED BY <1>2, <1>3 DEF Deliver

\* The first event of a batch, and what the others are.
LEMMA FirstEvent ==
    ASSUME QueueType, batch # <<>>
    PROVE  /\ Head(batch) \in Events /\ Head(batch).port \in PortIds
           /\ Tail(batch) \in Seq(Events)
<1>1. Head(batch) \in Events /\ Tail(batch) \in Seq(Events)
  BY HeadTailProperties DEF QueueType
<1>2. Head(batch).port \in PortIds
  BY <1>1 DEF Events
<1> QED BY <1>1, <1>2

\* Only the parsing of an event of an open port tells an actor something.
LEMMA ParseTells ==
    ASSUME PortInv, Parse
    PROVE  /\ got' \in [Actors -> Seq(Notes)]
           /\ \A a \in Actors : got'[a] # got[a] =>
                 \E p \in PortIds : /\ Owns(a, p)
                                    /\ Last(got'[a]).port = p
                                    /\ Front(got'[a]) = got[a]
<1> DEFINE e == Head(batch)
<1>1. Table /\ QueueType /\ e \in Events /\ e.port \in PortIds
  BY FirstEvent DEF PortInv, Parse
<1>2. CASE UNCHANGED got
  BY <1>1, <1>2 DEF QueueType
<1>3. ASSUME Open(e.port),
             NEW ev \in {"data", "eof", "error", "ready", "signal"},
             Deliver(e.port, ev)
      PROVE  /\ got' \in [Actors -> Seq(Notes)]
             /\ \A a \in Actors : got'[a] # got[a] =>
                   /\ Owns(a, e.port)
                   /\ Last(got'[a]).port = e.port /\ Front(got'[a]) = got[a]
  BY <1>1, <1>3, Delivers DEF Owns
<1>4. ASSUME Open(e.port), Event(e)
      PROVE  \/ UNCHANGED got
             \/ \E ev \in {"data", "eof", "error", "ready", "signal"} :
                   Deliver(e.port, ev)
  BY <1>4 DEF Event
<1> QED BY <1>1, <1>2, <1>3, <1>4 DEF Parse

LEMMA ParseKeeps ==
    ASSUME PortInv, Parse
    PROVE  PortInv'
<1> DEFINE e == Head(batch)
<1>1. e \in Events /\ e.port \in PortIds /\ Tail(batch) \in Seq(Events)
  BY FirstEvent DEF PortInv, Parse
<1>2. Table' /\ GoType'
  <2>1. CASE Open(e.port) /\ Event(e)
    BY <1>1, <2>1, EventKeeps DEF PortInv, Parse
  <2>2. CASE UNCHANGED <<port, owned, res>>
    BY <2>2, SameTable DEF PortInv, Parse, GoType
  <2> QED BY <2>1, <2>2 DEF Parse
<1>3. QueueType'
  BY <1>1, ParseTells DEF PortInv, Parse, QueueType
<1> QED BY <1>2, <1>3 DEF PortInv

-----------------------------------------------------------------------------
(* The goroutines. *)

\* What a goroutine does to its own record and to the queue.
LEMMA GoKeeps ==
    ASSUME PortInv, NEW p \in PortIds, Go(p)
    PROVE  PortInv'
<1>0. /\ Table' /\ UNCHANGED <<batch, got>>
  BY SameTable DEF PortInv, Go, OpenFile, NextOp, DropOp, DoOp, CloseFile,
                   GoUnchanged, portVars
<1>1. /\ res[p] \in ResRec /\ res \in [PortIds -> ResRec]
      /\ \A q \in PortIds : res[q].at = "busy" => res[q].ops # <<>>
  BY DEF PortInv, GoType
<1>2. ASSUME NEW r \in ResRec, res' = [res EXCEPT ![p] = r],
             r.at = "busy" => r.ops # <<>>
      PROVE  GoType'
  BY <1>1, <1>2 DEF GoType
<1>3. ASSUME NEW ev \in {"data", "eof", "error", "written", "signal"},
             NEW n \in Sizes \cup {0}, Emit(p, ev, n)
      PROVE  QueueType'
  <2>1. [port |-> p, ev |-> ev, size |-> n] \in Events
    BY DEF Events
  <2>2. inject' \in Seq(Events)
    BY <1>3, <2>1, AppendProperties DEF PortInv, QueueType, Emit
  <2> QED BY <1>0, <2>2 DEF PortInv, QueueType
<1>4. ASSUME UNCHANGED inject  PROVE QueueType'
  BY <1>0, <1>4 DEF PortInv, QueueType
<1>5. CASE OpenFile(p)
  <2>1. PICK bad \in BOOLEAN :
           res' = [res EXCEPT ![p].at = "wait", ![p].failed = bad, ![p].err = bad]
    BY <1>5 DEF OpenFile
  <2> DEFINE r == [res[p] EXCEPT !.at = "wait", !.failed = bad, !.err = bad]
  <2>2. r \in ResRec /\ r.at = "wait"
    BY <1>1 DEF ResRec
  <2>3. res' = [res EXCEPT ![p] = r]
    BY <1>1, <2>1 DEF ResRec
  <2> HIDE DEF r
  <2> QED BY <1>0, <1>2, <1>4, <1>5, <2>2, <2>3 DEF OpenFile, PortInv
<1>6. CASE NextOp(p)
  <2> DEFINE r == [res[p] EXCEPT !.at = "busy"]
  <2>1. r \in ResRec /\ r.ops # <<>>
    BY <1>1, <1>6 DEF ResRec, NextOp
  <2>2. res' = [res EXCEPT ![p] = r]
    BY <1>6 DEF NextOp
  <2> HIDE DEF r
  <2> QED BY <1>0, <1>2, <1>4, <1>6, <2>1, <2>2 DEF NextOp, PortInv
<1>7. CASE DropOp(p)
  <2> DEFINE r == [res[p] EXCEPT !.ops = Tail(@), !.err = FALSE]
  <2>1. Tail(res[p].ops) \in Seq(Ops)
    BY <1>1, <1>7, HeadTailProperties DEF ResRec, DropOp
  <2>2. r \in ResRec /\ r.at = "wait"
    BY <1>1, <1>7, <2>1 DEF ResRec, DropOp
  <2>3. res' = [res EXCEPT ![p] = r]
    BY <1>1, <1>7 DEF DropOp, ResRec
  <2> HIDE DEF r
  <2>4. QueueType'
    BY <1>3, <1>4, <1>7 DEF DropOp
  <2> QED BY <1>0, <1>2, <2>2, <2>3, <2>4 DEF PortInv
<1>8. CASE DoOp(p)
  <2> DEFINE op == Head(res[p].ops)
             rest == [res[p] EXCEPT !.at = "wait", !.ops = Tail(@)]
             bad == [rest EXCEPT !.failed = TRUE]
  <2>1. op \in Ops /\ Tail(res[p].ops) \in Seq(Ops)
    BY <1>1, <1>8, HeadTailProperties DEF ResRec, DoOp
  <2>2. op.size \in Sizes \cup {0}
    <3>1. CASE op = [read |-> TRUE, size |-> 0]
      BY <3>1
    <3>2. CASE op \in [read : {FALSE}, size : Sizes]
      <4> HIDE DEF op
      <4> QED BY <3>2
    <3> QED BY <2>1, <3>1, <3>2 DEF Ops
  <2>3. rest \in ResRec /\ rest.at = "wait" /\ bad \in ResRec /\ bad.at = "wait"
    BY <1>1, <2>1 DEF ResRec
  <2>4. res' = [res EXCEPT ![p] = rest] \/ res' = [res EXCEPT ![p] = bad]
    BY <1>8 DEF DoOp
  <2>5. \/ \E ev \in {"data", "eof"} : Emit(p, ev, 0)
        \/ Emit(p, "written", op.size)
        \/ Emit(p, "error", 0)
    BY <1>8 DEF DoOp
  <2> HIDE DEF rest, bad, op
  <2>6. QueueType'
    BY <1>3, <2>2, <2>5
  <2>7. GoType'
    BY <1>2, <2>3, <2>4
  <2> QED BY <1>0, <2>6, <2>7 DEF PortInv
<1>9. CASE CloseFile(p)
  <2> DEFINE r == [res[p] EXCEPT !.at = "gone"]
  <2>1. r \in ResRec /\ r.at = "gone"
    BY <1>1 DEF ResRec
  <2>2. res' = [res EXCEPT ![p] = r]
    BY <1>9 DEF CloseFile
  <2> HIDE DEF r
  <2> QED BY <1>0, <1>2, <1>4, <1>9, <2>1, <2>2 DEF CloseFile, PortInv
<1> QED BY <1>5, <1>6, <1>7, <1>8, <1>9 DEF Go

LEMMA SignalKeeps ==
    ASSUME PortInv, NEW p \in PortIds, Signal(p)
    PROVE  PortInv'
<1>1. [port |-> p, ev |-> "signal", size |-> 0] \in Events
  BY DEF Events
<1>2. inject' \in Seq(Events)
  BY <1>1, AppendProperties DEF PortInv, QueueType, Signal, Emit
<1>3. UNCHANGED <<alive, owned, port, res, batch, got>>
  BY DEF Signal, portVars, resVars
<1>4. Table' /\ GoType'
  BY <1>3, SameTable DEF PortInv, GoType
<1> QED BY <1>2, <1>3, <1>4 DEF PortInv, QueueType

-----------------------------------------------------------------------------
(* The whole system. *)

LEMMA InitPortInv == Init => PortInv
<1> SUFFICES ASSUME Init PROVE PortInv
  OBVIOUS
<1>1. NoPort \in PortRec /\ NoPort.state = "none"
  BY Bounds DEF PortRec, NoPort
<1>2. NoRes \in ResRec /\ NoRes.at = "none"
  BY DEF ResRec, NoRes
<1>3. LoopType
  BY <1>1 DEF Init, LoopType
<1>4. \A p \in PortIds : ~Open(p)
  BY <1>1 DEF Init, Open
<1>5. PortsOfTheLiving /\ PromiseMeansFull
  BY <1>4 DEF PortsOfTheLiving, PromiseMeansFull
<1>6. ListsAreOpen
  BY DEF Init, ListsAreOpen
<1>7. GoType
  BY <1>2 DEF Init, GoType
<1>8. QueueType
  BY DEF Init, QueueType
<1> QED BY <1>3, <1>5, <1>6, <1>7, <1>8 DEF PortInv, Table

LEMMA NextPortInv == PortInv /\ [Next]_vars => PortInv'
<1> SUFFICES ASSUME PortInv, [Next]_vars PROVE PortInv'
  OBVIOUS
<1>0. Table /\ GoType /\ QueueType
  BY DEF PortInv
<1>1. ASSUME NEW a \in Actors, Native(a)  PROVE PortInv'
  BY <1>1, NativeKeeps
<1>2. CASE Take
  <2>1. UNCHANGED <<alive, owned, port, res, got>>
    BY <1>2 DEF Take, portVars, resVars
  <2>2. Table' /\ GoType'
    BY <1>0, <2>1, SameTable DEF GoType
  <2>3. QueueType'
    BY <1>0, <1>2, <2>1 DEF Take, QueueType
  <2> QED BY <2>2, <2>3 DEF PortInv
<1>3. CASE Parse
  BY <1>3, ParseKeeps
<1>4. CASE Leave
  <2>1. Table' /\ GoType'
    BY <1>0, <1>4, ShutKeeps DEF Leave
  <2>2. QueueType'
    BY <1>0, <1>4 DEF Leave, QueueType
  <2> QED BY <2>1, <2>2 DEF PortInv
<1>5. CASE UNCHANGED <<alive, owned, port, res, inject, batch, got>>
  <2>1. Table' /\ GoType'
    BY <1>0, <1>5, SameTable DEF GoType
  <2> QED BY <1>0, <1>5, <2>1 DEF PortInv, QueueType
<1>6. Over \/ Stopped \/ UNCHANGED vars
         => UNCHANGED <<alive, owned, port, res, inject, batch, got>>
  BY DEF Over, Stopped, vars, portVars, resVars
<1>7. ASSUME NEW p \in PortIds, Go(p) \/ Signal(p)  PROVE PortInv'
  BY <1>7, GoKeeps, SignalKeeps
<1> QED BY <1>1, <1>2, <1>3, <1>4, <1>5, <1>6, <1>7 DEF Next

LEMMA AlwaysPortInv == Spec => []PortInv
BY InitPortInv, NextPortInv, PTL DEF Spec

\* Every open port has a live owner, and stands in the list of that actor and in
\* no other: a death closes exactly the ports of the dead (closeActorPorts).
THEOREM OwnersCorrect == Spec => []PortsOfTheLiving
<1>1. PortInv => PortsOfTheLiving
  BY DEF PortInv, Table
<1> QED BY <1>1, AlwaysPortInv, PTL

\* The promise of a :port_ready stands only while the buffer is full: Port.write
\* makes it at the limit and the write that frees the buffer keeps it.
THEOREM PromiseCorrect == Spec => []PromiseMeansFull
<1>1. PortInv => PromiseMeansFull
  BY DEF PortInv, Table
<1> QED BY <1>1, AlwaysPortInv, PTL

\* An actor only ever hears of ports that are open and its own, one event at a
\* time: nothing a goroutine sent before a close or a give comes later.
THEOREM SilenceCorrect == Spec => ClosedIsSilent
<1>1. PortInv /\ Next =>
         \A a \in Actors : got'[a] # got[a] =>
            \E p \in PortIds : /\ Owns(a, p)
                               /\ Last(got'[a]).port = p /\ Front(got'[a]) = got[a]
  <2> SUFFICES ASSUME PortInv, Next, NEW a \in Actors, got'[a] # got[a]
               PROVE  \E p \in PortIds :
                         /\ Owns(a, p)
                         /\ Last(got'[a]).port = p /\ Front(got'[a]) = got[a]
    OBVIOUS
  <2>1. CASE Parse
    BY <2>1, ParseTells
  <2>2. Parse \/ UNCHANGED got
    BY DEF Next, Native, OpenPort, Request, ClosePort, WritePort, Give, Die, Take,
           Leave, Over, Stopped, vars, Go, OpenFile, NextOp, DropOp, DoOp,
           CloseFile, GoUnchanged, Signal
  <2> QED BY <2>1, <2>2
<1> QED BY <1>1, AlwaysPortInv, PTL DEF Spec, ClosedIsSilent

-----------------------------------------------------------------------------
(* Answers: what a goroutine owes to an open port. *)

\* The events under way to the loop, in their order; those that answer an
\* operation.
Flow == batch \o inject
Owing == {"data", "eof", "error", "written"}
Answers(p) == InFlight(p, {"data", "eof", "error"})
Written(p) == InFlight(p, {"written"})

\* A port that was never opened has no resource and no answers.
NoneOK(p) ==
    port[p].state = "none" =>
        /\ port[p].kind = "read" /\ res[p] = NoRes
        /\ accepted[p] = <<>> /\ file[p] = <<>> /\ InFlight(p, Owing) = {}

\* What a resource is asked to do and answers is what its kind has.
KindOK(p) ==
    /\ port[p].kind # "write" =>
           /\ accepted[p] = <<>> /\ file[p] = <<>> /\ Written(p) = {}
           /\ \A j \in DOMAIN res[p].ops : res[p].ops[j].read = TRUE
    /\ port[p].kind = "write" =>
           /\ InFlight(p, {"data", "eof"}) = {}
           /\ \A j \in DOMAIN res[p].ops : res[p].ops[j].read = FALSE

\* The goroutine: a resource that failed is past its opening and takes nothing
\* up any more; one that is gone was closed and had nothing left to do; those
\* told to close are those of closed ports.
GoOK(p) ==
    /\ res[p].at \in {"opening", "busy"} => ~res[p].failed
    /\ res[p].err => res[p].failed
    /\ res[p].at \in {"none", "gone"} => res[p].ops = <<>>
    /\ res[p].closing => port[p].state = "closed"
    /\ port[p].state = "closed" /\ port[p].kind # "signal" => res[p].closing
    /\ res[p].at = "gone" => res[p].closing
    /\ port[p].state # "none" /\ port[p].kind # "signal" => res[p].at # "none"

\* An open port to read from is armed while its request is in the queue of the
\* goroutine, or its answer on the way, and only then.
ReadOK(p) ==
    Open(p) /\ port[p].kind = "read" =>
        \/ /\ port[p].armed /\ Len(res[p].ops) = 1 /\ Answers(p) = {}
           /\ res[p].failed => res[p].err
        \/ /\ port[p].armed /\ res[p].ops = <<>>
           /\ \E i \in DOMAIN Flow :
                 /\ Answers(p) = {i}
                 /\ Flow[i].ev # "error" => ~res[p].failed /\ res[p].at # "opening"
        \/ /\ ~port[p].armed /\ res[p].ops = <<>> /\ Answers(p) = {}
           /\ res[p].failed => res[p].err

\* What Port.write accepted is in the file, or failed, or in the queue, in that
\* order; an error on its way is that of an operation that is not in the file.
Done(p) == Len(accepted[p]) - Len(res[p].ops)
WriteOK(p) ==
    port[p].kind = "write" =>
        /\ Len(file[p]) <= Done(p)
        /\ ~res[p].failed => Len(file[p]) = Done(p)
        /\ \A i \in DOMAIN file[p] : file[p][i] = accepted[p][i]
        /\ \A j \in DOMAIN res[p].ops : res[p].ops[j].size = accepted[p][Done(p) + j]
        /\ InFlight(p, {"error"}) # {} => res[p].failed /\ Len(file[p]) < Done(p)

\* The bytes of the writes: sum[i] is the sum of the first i.
Sums(w, sum) ==
    /\ sum \in [0 .. Len(w) -> Nat]
    /\ \A i \in DOMAIN w : sum[i] = sum[i - 1] + w[i]
    /\ \A i, j \in 0 .. Len(w) : i < j => sum[i] < sum[j]

\* The answers of the writes from c + 1 are on their way, in order.
OnTheWay(p, c, at) ==
    /\ at \in [(c + 1) .. Len(file[p]) -> Written(p)]
    /\ \A k \in (c + 1) .. Len(file[p]) : Flow[at[k]].size = file[p][k]
    /\ \A k, l \in (c + 1) .. Len(file[p]) : k < l => at[k] < at[l]
    /\ \A i \in Written(p) : \E k \in (c + 1) .. Len(file[p]) : at[k] = i

\* pending counts the bytes of the writes past the first c, whose answers were
\* parsed.
PendingOK(p) ==
    Open(p) /\ port[p].kind = "write" =>
        \E c, sum, at :
            /\ c \in 0 .. Len(file[p])
            /\ Sums(accepted[p], sum) /\ OnTheWay(p, c, at)
            /\ port[p].pending = sum[Len(accepted[p])] - sum[c]

PortOK(p) == NoneOK(p) /\ KindOK(p) /\ GoOK(p) /\ ReadOK(p) /\ WriteOK(p) /\ PendingOK(p)

\* What finishPorts closes, and waits for.
EndOK == /\ stage # "run" => \A p \in PortIds : ~Open(p)
         /\ stage = "over" => \A p \in PortIds : res[p].closing => res[p].at = "gone"

HistoryType == /\ accepted \in [PortIds -> Seq(Sizes)] /\ file \in [PortIds -> Seq(Sizes)]
               /\ stage \in {"run", "finishing", "over"}

AnswerInv == /\ PortInv /\ HistoryType /\ EndOK /\ \A p \in PortIds : PortOK(p)

-----------------------------------------------------------------------------
(* The events under way. *)

\* The events evs of port p are the same after the step, in the same order; s
\* says where each of them stands then.
Moved(p, evs, s) ==
    /\ \A i \in InFlight(p, evs) : s[i] \in InFlight(p, evs)' /\ Flow'[s[i]] = Flow[i]
    /\ \A j \in InFlight(p, evs)' : \E i \in InFlight(p, evs) : s[i] = j
    /\ \A i, j \in InFlight(p, evs) : i < j => s[i] < s[j]

\* Nothing new for port p.
Fewer(p) == \A evs : InFlight(p, evs) = {} => InFlight(p, evs)' = {}

\* InFlight in terms of Flow, before and after a step.
LEMMA InFlightIs ==
    ASSUME NEW p, NEW evs
    PROVE  /\ InFlight(p, evs) = {i \in DOMAIN Flow : Flow[i].port = p /\ Flow[i].ev \in evs}
           /\ InFlight(p, evs)' = {i \in DOMAIN Flow' : Flow'[i].port = p /\ Flow'[i].ev \in evs}
BY DEF InFlight, Flow

\* The events under way are events.
LEMMA FlowType == QueueType => Flow \in Seq(Events)
BY ConcatProperties DEF QueueType, Flow

\* A step that leaves the queue alone.
LEMMA FlowSame ==
    ASSUME QueueType, \/ UNCHANGED <<batch, inject>> \/ Take
    PROVE  /\ Flow' = Flow
           /\ \A p, evs : InFlight(p, evs)' = InFlight(p, evs)
           /\ \A p, evs : Moved(p, evs, [i \in DOMAIN Flow |-> i])
<1>1. Flow' = Flow
  <2>1. CASE UNCHANGED <<batch, inject>>
    BY <2>1 DEF Flow
  <2>2. CASE Take
    <3>1. Flow = inject
      BY <2>2, ConcatEmptySeq DEF Take, Flow, QueueType
    <3>2. Flow' = inject
      BY <2>2, ConcatEmptySeq DEF Take, Flow, QueueType
    <3> QED BY <3>1, <3>2
  <2> QED BY <2>1, <2>2
<1>2. ASSUME NEW p, NEW evs PROVE InFlight(p, evs)' = InFlight(p, evs)
  <2>1. \A i : i \in InFlight(p, evs)' <=> i \in InFlight(p, evs)
    BY <1>1, InFlightIs
  <2> QED BY <2>1
<1>3. \A p, evs : InFlight(p, evs) \subseteq DOMAIN Flow
  BY InFlightIs
<1> QED BY <1>1, <1>2, <1>3 DEF Moved

\* The event ev of port p stands at z, behind all others.
Emitted(p, ev, n, z) ==
    /\ z \notin DOMAIN Flow /\ DOMAIN Flow' = DOMAIN Flow \cup {z}
    /\ \A i \in DOMAIN Flow : i < z /\ Flow'[i] = Flow[i]
    /\ Flow'[z].ev = ev /\ Flow'[z].size = n
    /\ \A q, evs : q = p /\ ev \in evs => InFlight(q, evs)' = InFlight(q, evs) \cup {z}
    /\ \A q, evs : q # p \/ ev \notin evs =>
                       /\ InFlight(q, evs)' = InFlight(q, evs)
                       /\ Moved(q, evs, [i \in DOMAIN Flow |-> i])

\* A goroutine says something: the events before it stay where they are.
LEMMA FlowEmit ==
    ASSUME QueueType, NEW p \in PortIds, NEW ev, NEW n, Emit(p, ev, n), batch' = batch
    PROVE  \E z : Emitted(p, ev, n, z)
<1> PICK z : z = Len(Flow) + 1
  OBVIOUS
<1> DEFINE e == [port |-> p, ev |-> ev, size |-> n]
<1>1. inject' = Append(inject, e)
  BY DEF Emit
<1>2. e.port = p /\ e.ev = ev /\ e.size = n
  OBVIOUS
<1> HIDE DEF e
<1>3. /\ Len(batch) \in Nat /\ Len(inject) \in Nat /\ Len(inject') = Len(inject) + 1
      /\ \A i \in 1 .. Len(inject) : inject'[i] = inject[i]
      /\ inject'[Len(inject) + 1] = e
  BY <1>1 DEF QueueType
<1>4. /\ Len(Flow) = Len(batch) + Len(inject) /\ DOMAIN Flow = 1 .. Len(Flow)
      /\ DOMAIN Flow' = 1 .. (Len(batch) + Len(inject) + 1)
      /\ \A i \in DOMAIN Flow : Flow[i] = IF i <= Len(batch) THEN batch[i]
                                          ELSE inject[i - Len(batch)]
      /\ \A i \in DOMAIN Flow' : Flow'[i] = IF i <= Len(batch) THEN batch[i]
                                            ELSE inject'[i - Len(batch)]
  BY <1>1, <1>3 DEF QueueType, Flow
<1>5. /\ z \notin DOMAIN Flow /\ DOMAIN Flow' = DOMAIN Flow \cup {z}
      /\ \A i \in DOMAIN Flow : i < z
  <2>1. /\ Len(Flow) \in Nat /\ DOMAIN Flow = 1 .. Len(Flow)
        /\ DOMAIN Flow' = 1 .. (Len(Flow) + 1)
    BY <1>3, <1>4
  <2> QED BY <2>1
<1>6. Flow'[z] = e
  <2>1. z = Len(batch) + Len(inject) + 1
    BY <1>4
  <2>2. ~(z <= Len(batch)) /\ z - Len(batch) = Len(inject) + 1
    BY <1>3, <2>1
  <2>3. z \in DOMAIN Flow'
    BY <1>5
  <2> QED BY <1>3, <1>4, <2>2, <2>3
<1>7. ASSUME NEW i \in DOMAIN Flow PROVE Flow'[i] = Flow[i]
  <2>1. CASE i <= Len(batch)
    BY <1>4, <1>5, <2>1
  <2>2. CASE ~(i <= Len(batch))
    <3>1. i - Len(batch) \in 1 .. Len(inject)
      BY <1>3, <1>4, <2>2
    <3> QED BY <1>3, <1>4, <1>5, <2>2, <3>1
  <2> QED BY <2>1, <2>2
<1>8. ASSUME NEW q, NEW evs
      PROVE  /\ InFlight(q, evs) \subseteq DOMAIN Flow
             /\ q = p /\ ev \in evs => InFlight(q, evs)' = InFlight(q, evs) \cup {z}
             /\ q # p \/ ev \notin evs => InFlight(q, evs)' = InFlight(q, evs)
  <2>1. Flow'[z].port = p /\ Flow'[z].ev = ev
    BY <1>2, <1>6
  <2>2. /\ \A i : i \in InFlight(q, evs) <=>
                     i \in DOMAIN Flow /\ Flow[i].port = q /\ Flow[i].ev \in evs
        /\ \A i : i \in InFlight(q, evs)' <=>
                     i \in DOMAIN Flow' /\ Flow'[i].port = q /\ Flow'[i].ev \in evs
    BY InFlightIs
  <2>3. \A i : i \in InFlight(q, evs)' <=>
                 i \in InFlight(q, evs) \/ (i = z /\ q = p /\ ev \in evs)
    BY <1>5, <1>7, <2>1, <2>2
  <2> QED BY <2>2, <2>3
<1>9. \A q, evs : q # p \/ ev \notin evs => Moved(q, evs, [i \in DOMAIN Flow |-> i])
  BY <1>7, <1>8 DEF Moved
<1>10. Flow'[z].ev = ev /\ Flow'[z].size = n
  BY <1>2, <1>6
<1>11. Emitted(p, ev, n, z)
  BY <1>5, <1>7, <1>8, <1>9, <1>10 DEF Emitted
<1> QED BY <1>11

\* The loop takes the first event off: the others move up.
LEMMA FlowParse ==
    ASSUME QueueType, batch # <<>>, batch' = Tail(batch), inject' = inject
    PROVE  LET e == Head(batch)
           IN  /\ 1 \in DOMAIN Flow /\ Flow[1] = e
               /\ \A i \in DOMAIN Flow' : i + 1 \in DOMAIN Flow /\ Flow'[i] = Flow[i + 1]
               /\ \A i \in DOMAIN Flow \ {1} : i - 1 \in DOMAIN Flow' /\ Flow'[i - 1] = Flow[i]
               /\ \A p : Fewer(p)
               /\ \A p, evs : p # e.port \/ e.ev \notin evs =>
                                  Moved(p, evs, [i \in DOMAIN Flow |-> i - 1])
<1> DEFINE e == Head(batch)
<1>1. /\ Len(batch) \in Nat \ {0} /\ Len(inject) \in Nat /\ Len(batch') = Len(batch) - 1
      /\ \A i \in 1 .. Len(batch) - 1 : batch'[i] = batch[i + 1]
      /\ batch[1] = e
  BY DEF QueueType
<1>2. /\ DOMAIN Flow = 1 .. (Len(batch) + Len(inject))
      /\ DOMAIN Flow' = 1 .. (Len(batch') + Len(inject))
      /\ \A i \in DOMAIN Flow : Flow[i] = IF i <= Len(batch) THEN batch[i]
                                          ELSE inject[i - Len(batch)]
      /\ \A i \in DOMAIN Flow' : Flow'[i] = IF i <= Len(batch') THEN batch'[i]
                                            ELSE inject[i - Len(batch')]
  BY DEF QueueType, Flow
<1> HIDE DEF e
<1>3. ASSUME NEW i \in DOMAIN Flow' PROVE i + 1 \in DOMAIN Flow /\ Flow'[i] = Flow[i + 1]
  <2>1. i + 1 \in DOMAIN Flow
    BY <1>1, <1>2
  <2>2. CASE i <= Len(batch')
    BY <1>1, <1>2, <2>1, <2>2
  <2>3. CASE ~(i <= Len(batch'))
    <3>1. i - Len(batch') = (i + 1) - Len(batch) /\ ~(i + 1 <= Len(batch))
      BY <1>1, <1>2, <2>3
    <3> QED BY <1>2, <2>1, <2>3, <3>1
  <2> QED BY <2>1, <2>2, <2>3
<1>4. ASSUME NEW i \in DOMAIN Flow \ {1}
      PROVE  i - 1 \in DOMAIN Flow' /\ Flow'[i - 1] = Flow[i]
  <2>1. i - 1 \in DOMAIN Flow' /\ (i - 1) + 1 = i
    BY <1>1, <1>2
  <2> QED BY <1>3, <2>1
<1>5. /\ 1 \in DOMAIN Flow /\ Flow[1] = e /\ DOMAIN Flow \subseteq Nat
      /\ DOMAIN Flow' \subseteq Nat
  BY <1>1, <1>2
<1>6. \A p : Fewer(p)
  BY <1>3, InFlightIs DEF Fewer
<1>7. ASSUME NEW p, NEW evs, p # e.port \/ e.ev \notin evs
      PROVE  Moved(p, evs, [i \in DOMAIN Flow |-> i - 1])
  <2> DEFINE s == [i \in DOMAIN Flow |-> i - 1]
  <2>1. InFlight(p, evs) \subseteq DOMAIN Flow \ {1}
    BY <1>5, <1>7, InFlightIs
  <2>2. \A i \in InFlight(p, evs) : s[i] \in InFlight(p, evs)' /\ Flow'[s[i]] = Flow[i]
    BY <1>4, <2>1, InFlightIs
  <2>3. \A j \in InFlight(p, evs)' : j + 1 \in InFlight(p, evs) /\ s[j + 1] = j
    BY <1>3, <1>5, InFlightIs
  <2>4. \A i, j \in InFlight(p, evs) : i < j => s[i] < s[j]
    BY <1>5, <2>1
  <2> QED BY <2>2, <2>3, <2>4 DEF Moved
<1> QED BY <1>3, <1>4, <1>5, <1>6, <1>7 DEF e

-----------------------------------------------------------------------------
(* A port that a step does not concern. *)

\* What holds of the records of one port.
LEMMA PortTypes ==
    ASSUME AnswerInv, NEW q \in PortIds
    PROVE  /\ port[q] \in PortRec /\ res[q] \in ResRec
           /\ accepted[q] \in Seq(Sizes) /\ file[q] \in Seq(Sizes)
           /\ Len(accepted[q]) \in Nat /\ Len(file[q]) \in Nat /\ Len(res[q].ops) \in Nat
           /\ res[q].ops \in Seq(Ops)
           /\ DOMAIN accepted[q] = 1 .. Len(accepted[q])
           /\ DOMAIN file[q] = 1 .. Len(file[q])
           /\ DOMAIN res[q].ops = 1 .. Len(res[q].ops)
<1>1. port[q] \in PortRec
  BY DEF AnswerInv, PortInv, Table, LoopType
<1>2. res[q] \in ResRec
  BY DEF AnswerInv, PortInv, GoType
<1>3. accepted[q] \in Seq(Sizes) /\ file[q] \in Seq(Sizes)
  BY DEF AnswerInv, HistoryType
<1>4. res[q].ops \in Seq(Ops)
  BY <1>2 DEF ResRec
<1> QED BY <1>1, <1>2, <1>3, <1>4

\* Positions are numbers from 1 on.
LEMMA Positions ==
    ASSUME QueueType
    PROVE  /\ \A q, evs : InFlight(q, evs) \subseteq DOMAIN Flow
           /\ \A i \in DOMAIN Flow : i \in Nat /\ i >= 1
<1>1. Flow \in Seq(Events)
  BY FlowType
<1>2. \A i \in DOMAIN Flow : i \in Nat /\ i >= 1
  BY <1>1
<1> QED BY <1>2, InFlightIs

\* What moved with all its answers moved with each kind of them.
LEMMA MovedPart ==
    ASSUME NEW q, NEW s, Moved(q, Owing, s), NEW evs, evs \subseteq Owing
    PROVE  /\ Moved(q, evs, s)
           /\ InFlight(q, evs) = {} <=> InFlight(q, evs)' = {}
           /\ \A i : InFlight(q, evs) = {i} =>
                        InFlight(q, evs)' = {s[i]} /\ Flow'[s[i]] = Flow[i]
<1>1. InFlight(q, evs) \subseteq InFlight(q, Owing)
  BY InFlightIs
<1>2. InFlight(q, evs)' \subseteq InFlight(q, Owing)'
  BY InFlightIs
<1>3. ASSUME NEW i \in InFlight(q, evs)
      PROVE  s[i] \in InFlight(q, evs)' /\ Flow'[s[i]] = Flow[i]
  BY <1>1, <1>3, InFlightIs DEF Moved
<1>4. ASSUME NEW j \in InFlight(q, evs)'
      PROVE  \E i \in InFlight(q, evs) : s[i] = j
  <2>1. PICK i \in InFlight(q, Owing) : s[i] = j
    BY <1>2 DEF Moved
  <2>2. Flow'[j] = Flow[i]
    BY <2>1 DEF Moved
  <2> QED BY <2>1, <2>2, InFlightIs
<1>5. Moved(q, evs, s)
  BY <1>1, <1>3, <1>4 DEF Moved
<1> QED BY <1>3, <1>4, <1>5

\* The answers of the writes may move, as long as all do.
LEMMA PendingKept ==
    ASSUME NEW q, NEW s, QueueType, Moved(q, {"written"}, s), PendingOK(q),
           file'[q] = file[q], accepted'[q] = accepted[q],
           Open(q)' => Open(q), port'[q].kind = port[q].kind,
           port'[q].pending = port[q].pending
    PROVE  PendingOK(q)'
<1> SUFFICES ASSUME Open(q)', port'[q].kind = "write"
             PROVE  \E c, sum, at :
                       /\ c \in 0 .. Len(file[q])
                       /\ Sums(accepted[q], sum) /\ OnTheWay(q, c, at)'
                       /\ port[q].pending = sum[Len(accepted[q])] - sum[c]
  BY DEF PendingOK, Sums
<1>1. PICK c, sum, at :
         /\ c \in 0 .. Len(file[q])
         /\ Sums(accepted[q], sum) /\ OnTheWay(q, c, at)
         /\ port[q].pending = sum[Len(accepted[q])] - sum[c]
  BY DEF PendingOK
<1> DEFINE K == (c + 1) .. Len(file[q])
           Way(to) == /\ to \in [K -> Written(q)']
                      /\ \A k \in K : Flow'[to[k]].size = file[q][k]
                      /\ \A k, l \in K : k < l => to[k] < to[l]
                      /\ \A j \in Written(q)' : \E k \in K : to[k] = j
<1>2. /\ at \in [K -> Written(q)]
      /\ \A k \in K : Flow[at[k]].size = file[q][k]
      /\ \A k, l \in K : k < l => at[k] < at[l]
      /\ \A i \in Written(q) : \E k \in K : at[k] = i
  BY <1>1 DEF OnTheWay
<1> HIDE DEF K
<1>3. PICK to : Way(to)
  <2> DEFINE r == [k \in K |-> s[at[k]]]
  <2>1. r \in [K -> Written(q)']
    BY <1>2 DEF Moved, Written
  <2>2. /\ \A k \in K : Flow'[r[k]].size = file[q][k]
        /\ \A k, l \in K : k < l => r[k] < r[l]
        /\ \A j \in Written(q)' : \E k \in K : r[k] = j
    BY <1>2 DEF Moved, Written
  <2> HIDE DEF r
  <2> QED BY <2>1, <2>2
<1>4. OnTheWay(q, c, to)'
  BY <1>3 DEF OnTheWay, K
<1> QED BY <1>1, <1>4

\* Nothing that its answers depend on changes for port q.
SameFor(q) ==
    /\ port'[q].state = port[q].state /\ port'[q].kind = port[q].kind
    /\ port'[q].armed = port[q].armed /\ port'[q].pending = port[q].pending
    /\ res'[q] = res[q] /\ accepted'[q] = accepted[q] /\ file'[q] = file[q]

\* Then it keeps its promises.
LEMMA Kept ==
    ASSUME NEW q, NEW s, QueueType, Moved(q, Owing, s), PortOK(q),
           SameFor(q)
    PROVE  PortOK(q)'
<1>1. \A evs : evs \subseteq Owing =>
         /\ Moved(q, evs, s)
         /\ InFlight(q, evs) = {} <=> InFlight(q, evs)' = {}
         /\ \A i : InFlight(q, evs) = {i} =>
                      InFlight(q, evs)' = {s[i]} /\ Flow'[s[i]] = Flow[i]
  BY MovedPart
<1>2. {"data", "eof", "error"} \subseteq Owing /\ {"written"} \subseteq Owing
      /\ {"data", "eof"} \subseteq Owing /\ {"error"} \subseteq Owing
  BY DEF Owing
<1>3. NoneOK(q)'
  BY <1>1 DEF PortOK, NoneOK, Owing, SameFor
<1>4. KindOK(q)'
  BY <1>1, <1>2 DEF PortOK, KindOK, Written, SameFor
<1>5. GoOK(q)'
  BY DEF PortOK, GoOK, SameFor
<1>6. ReadOK(q)'
  <2> SUFFICES ASSUME Open(q)', port'[q].kind = "read" PROVE ReadOK(q)'
    BY DEF ReadOK, SameFor
  <2>1. Open(q) /\ port[q].kind = "read"
    BY DEF Open, SameFor
  <2>2. Answers(q) = {} <=> Answers(q)' = {}
    BY <1>1, <1>2 DEF Answers
  <2>3. ASSUME NEW i \in DOMAIN Flow, Answers(q) = {i}
        PROVE  s[i] \in DOMAIN Flow' /\ Answers(q)' = {s[i]} /\ Flow'[s[i]] = Flow[i]
    <3>1. Answers(q)' = {s[i]} /\ Flow'[s[i]] = Flow[i]
      BY <1>1, <1>2, <2>3 DEF Answers
    <3> QED BY <3>1, InFlightIs DEF Answers
  <2> QED BY <2>1, <2>2, <2>3 DEF PortOK, ReadOK, SameFor
<1>7. WriteOK(q)'
  BY <1>1, <1>2 DEF PortOK, WriteOK, Done, SameFor
<1>8. PendingOK(q)'
  BY <1>1, <1>2, PendingKept DEF PortOK, Open, SameFor
<1> QED BY <1>3, <1>4, <1>5, <1>6, <1>7, <1>8 DEF PortOK

\* ... also when the loop takes what was sent.
LEMMA Quiet ==
    ASSUME AnswerInv, NEW q \in PortIds, SameFor(q),
           \/ UNCHANGED <<batch, inject>> \/ Take
    PROVE  PortOK(q)'
<1>1. QueueType /\ PortOK(q)
  BY DEF AnswerInv, PortInv
<1>2. Moved(q, Owing, [i \in DOMAIN Flow |-> i])
  BY <1>1, FlowSame
<1> QED BY <1>1, <1>2, Kept

-----------------------------------------------------------------------------
(* The natives. *)

\* A port that the table forgets owes nothing any more.
LEMMA Closed ==
    ASSUME AnswerInv, NEW q \in PortIds, Open(q), Fewer(q),
           port'[q] = [port[q] EXCEPT !.state = "closed"],
           res'[q] = IF Stream(q) THEN [res[q] EXCEPT !.closing = TRUE] ELSE res[q],
           accepted'[q] = accepted[q], file'[q] = file[q]
    PROVE  PortOK(q)'
<1>1. /\ port'[q].state = "closed" /\ port'[q].kind = port[q].kind
      /\ res'[q].at = res[q].at /\ res'[q].ops = res[q].ops
      /\ res'[q].failed = res[q].failed /\ res'[q].err = res[q].err
      /\ res'[q].closing = (Stream(q) \/ res[q].closing)
  BY PortTypes DEF PortRec, ResRec
<1>2. PortOK(q) /\ port[q].state = "open" /\ ~Open(q)'
  BY <1>1 DEF AnswerInv, Open
<1>3. NoneOK(q)' /\ ReadOK(q)' /\ PendingOK(q)'
  BY <1>1, <1>2 DEF NoneOK, ReadOK, PendingOK
<1>4. KindOK(q)'
  BY <1>1, <1>2 DEF PortOK, KindOK, Written, Fewer
<1>5. GoOK(q)'
  BY <1>1, <1>2 DEF PortOK, GoOK, Stream
<1>6. WriteOK(q)'
  <2>1. Done(q)' = Done(q)
    BY <1>1 DEF Done
  <2>2. InFlight(q, {"error"})' # {} => InFlight(q, {"error"}) # {}
    BY DEF Fewer
  <2>3. WriteOK(q)
    BY <1>2 DEF PortOK
  <2> HIDE DEF Done
  <2> QED BY <1>1, <2>1, <2>2, <2>3 DEF WriteOK
<1> QED BY <1>3, <1>4, <1>5, <1>6 DEF PortOK

\* Ports are closed: those of P owe nothing, the others what they owed.
LEMMA ShutAnswers ==
    ASSUME AnswerInv, NEW P, Shut(P), UNCHANGED <<accepted, file, batch, inject>>
    PROVE  \A q \in PortIds : PortOK(q)'
<1> TAKE q \in PortIds
<1>1. CASE q \in P /\ Open(q)
  <2>1. /\ port'[q] = [port[q] EXCEPT !.state = "closed"]
        /\ res'[q] = IF Stream(q) THEN [res[q] EXCEPT !.closing = TRUE] ELSE res[q]
    BY <1>1 DEF Shut
  <2>2. Fewer(q)
    BY FlowSame DEF Fewer, AnswerInv, PortInv
  <2> QED BY <1>1, <2>1, <2>2, Closed
<1>2. CASE ~(q \in P /\ Open(q))
  <2>1. port'[q] = port[q] /\ res'[q] = res[q]
    BY <1>2 DEF Shut
  <2> QED BY <2>1, Quiet DEF SameFor
<1> QED BY <1>1, <1>2

\* A new port has a resource that opens and owes nothing.
LEMMA OpenAnswers ==
    ASSUME AnswerInv, NEW a \in Actors, NEW k \in Kinds, OpenPort(a, k)
    PROVE  \A q \in PortIds : PortOK(q)'
<1>1. PICK p \in PortIds :
         /\ port[p].state = "none"
         /\ port' = [port EXCEPT ![p] = [NoPort EXCEPT !.state = "open",
                                        !.kind = k, !.owner = a]]
         /\ res' = IF k = "signal" THEN res ELSE [res EXCEPT ![p].at = "opening"]
  BY DEF OpenPort
<1>2. UNCHANGED <<batch, inject, accepted, file>> /\ QueueType
  BY DEF OpenPort, AnswerInv, PortInv
<1>3. port \in [PortIds -> PortRec] /\ res \in [PortIds -> ResRec]
  BY DEF AnswerInv, PortInv, Table, LoopType, GoType
<1>4. ASSUME NEW q \in PortIds, q # p PROVE PortOK(q)'
  <2>1. port'[q] = port[q] /\ res'[q] = res[q]
    BY <1>1, <1>3, <1>4
  <2> QED BY <1>2, <2>1, Quiet DEF SameFor
<1>5. PortOK(p)'
  <2>1. k \in {"read", "write", "signal"}
    BY Bounds
  <2>2. /\ port'[p].state = "open" /\ port'[p].kind = k
        /\ port'[p].armed = FALSE /\ port'[p].pending = 0
    BY <1>1, <1>3 DEF NoPort
  <2>3. /\ res[p] = NoRes /\ accepted[p] = <<>> /\ file[p] = <<>>
        /\ InFlight(p, Owing) = {}
    BY <1>1 DEF AnswerInv, PortOK, NoneOK
  <2>4. /\ res'[p].at = IF k = "signal" THEN "none" ELSE "opening"
        /\ res'[p].ops = <<>> /\ res'[p].failed = FALSE /\ res'[p].err = FALSE
        /\ res'[p].closing = FALSE
    BY <1>1, <1>3, <2>3 DEF NoRes, ResRec
  <2>5. ASSUME NEW evs, evs \subseteq Owing PROVE InFlight(p, evs)' = {}
    <3>1. InFlight(p, evs) \subseteq InFlight(p, Owing)
      BY InFlightIs, <2>5
    <3> QED BY <1>2, <2>3, <3>1, FlowSame
  <2>6. /\ {"data", "eof", "error"} \subseteq Owing /\ {"written"} \subseteq Owing
        /\ {"data", "eof"} \subseteq Owing /\ {"error"} \subseteq Owing
    BY DEF Owing
  <2>7. accepted'[p] = <<>> /\ file'[p] = <<>>
    BY <1>2, <2>3
  <2>8. NoneOK(p)' /\ GoOK(p)'
    BY <2>1, <2>2, <2>4 DEF NoneOK, GoOK
  <2>9. KindOK(p)' /\ WriteOK(p)'
    BY <2>4, <2>5, <2>6, <2>7 DEF KindOK, WriteOK, Written, Done
  <2>10. ReadOK(p)'
    BY <2>2, <2>4, <2>5, <2>6 DEF ReadOK, Answers
  <2>11. PendingOK(p)'
    <3> DEFINE sum == [i \in 0 .. 0 |-> 0]
               at == [i \in 1 .. 0 |-> 0]
    <3>1. Sums(accepted'[p], sum)
      BY <2>7 DEF Sums
    <3>2. OnTheWay(p, 0, at)'
      BY <2>5, <2>6, <2>7 DEF OnTheWay, Written
    <3>3. Len(accepted'[p]) = 0 /\ Len(file'[p]) = 0 /\ sum[0] = 0
      BY <2>7
    <3> HIDE DEF sum, at
    <3> QED BY <2>2, <3>1, <3>2, <3>3 DEF PendingOK
  <2> QED BY <2>8, <2>9, <2>10, <2>11 DEF PortOK
<1> QED BY <1>4, <1>5

\* A request arms the port and stands in the queue of its goroutine.
LEMMA RequestAnswers ==
    ASSUME AnswerInv, NEW a \in Actors, NEW p \in PortIds, Request(a, p)
    PROVE  \A q \in PortIds : PortOK(q)'
<1> DEFINE op == [read |-> TRUE, size |-> 0]
<1>1. /\ port' = [port EXCEPT ![p].armed = TRUE]
      /\ res' = [res EXCEPT ![p].ops = Append(@, op)]
      /\ Open(p) /\ port[p].kind = "read" /\ ~port[p].armed
  BY DEF Request, Owns
<1>2. UNCHANGED <<batch, inject, accepted, file>> /\ QueueType
  BY DEF Request, AnswerInv, PortInv
<1>3. port \in [PortIds -> PortRec] /\ res \in [PortIds -> ResRec]
  BY DEF AnswerInv, PortInv, Table, LoopType, GoType
<1>4. ASSUME NEW q \in PortIds, q # p PROVE PortOK(q)'
  <2>1. port'[q] = port[q] /\ res'[q] = res[q]
    BY <1>1, <1>3, <1>4
  <2> QED BY <1>2, <2>1, Quiet DEF SameFor
<1>5. PortOK(p)'
  <2>1. /\ port'[p].state = "open" /\ port'[p].kind = "read"
        /\ port'[p].armed = TRUE /\ port'[p].pending = port[p].pending
    BY <1>1, <1>3 DEF Open, PortRec
  <2>2. /\ res'[p].at = res[p].at /\ res'[p].failed = res[p].failed
        /\ res'[p].err = res[p].err /\ res'[p].closing = res[p].closing
        /\ res'[p].ops = Append(res[p].ops, op)
    BY <1>1, <1>3 DEF ResRec
  <2>3. PortOK(p)
    BY DEF AnswerInv
  <2>4. /\ res[p].ops = <<>> /\ Answers(p) = {}
        /\ res[p].failed => res[p].err
    BY <1>1, <2>3 DEF PortOK, ReadOK
  <2>5. res'[p].ops = <<op>>
    BY <2>2, <2>4
  <2>6. \A evs : InFlight(p, evs)' = InFlight(p, evs)
    BY <1>2, FlowSame
  <2>7. NoneOK(p)' /\ WriteOK(p)' /\ PendingOK(p)'
    BY <2>1 DEF NoneOK, WriteOK, PendingOK
  <2>8. KindOK(p)'
    BY <1>1, <1>2, <2>1, <2>3, <2>5, <2>6 DEF PortOK, KindOK, Written
  <2>9. GoOK(p)'
    BY <1>1, <2>1, <2>2, <2>3 DEF PortOK, GoOK, Open
  <2>10. ReadOK(p)'
    BY <2>1, <2>2, <2>4, <2>5, <2>6 DEF ReadOK, Answers
  <2> QED BY <2>7, <2>8, <2>9, <2>10 DEF PortOK
<1> QED BY <1>4, <1>5

\* The sums of a list that is longer by one number.
LEMMA SumsAppend ==
    ASSUME NEW w \in Seq(Sizes), NEW n \in Sizes, NEW sum, Sums(w, sum)
    PROVE  \E t : /\ Sums(Append(w, n), t)
                  /\ t[Len(w) + 1] = sum[Len(w)] + n
                  /\ \A i \in 0 .. Len(w) : t[i] = sum[i]
<1> DEFINE m == Len(w)
           t == [i \in 0 .. m + 1 |-> IF i = m + 1 THEN sum[m] + n ELSE sum[i]]
           v == Append(w, n)
<1>1. n \in Nat /\ n > 0
  <2>1. Sizes \subseteq Nat \ {0}
    BY PortBounds
  <2> QED BY <2>1
<1>2. /\ Len(v) = m + 1 /\ m \in Nat /\ DOMAIN v = 1 .. m + 1 /\ DOMAIN w = 1 .. m
      /\ \A i \in 1 .. m : v[i] = w[i]
      /\ v[m + 1] = n
  OBVIOUS
<1>3. /\ sum \in [0 .. m -> Nat] /\ \A i \in 1 .. m : sum[i] = sum[i - 1] + w[i]
      /\ \A i, j \in 0 .. m : i < j => sum[i] < sum[j]
  BY <1>2 DEF Sums
<1> HIDE DEF v, m
<1>4. \A i \in 0 .. m : sum[i] \in Nat /\ t[i] = sum[i] /\ sum[i] <= sum[m]
  <2> TAKE i \in 0 .. m
  <2>1. i \in Nat /\ m \in 0 .. m /\ i # m + 1
    BY <1>2
  <2>2. sum[i] \in Nat /\ t[i] = sum[i] /\ sum[m] \in Nat
    BY <1>2, <1>3, <2>1
  <2>3. i < m \/ i = m
    BY <1>2, <2>1
  <2> QED BY <1>3, <2>1, <2>2, <2>3
<1>5. t[m + 1] = sum[m] + n /\ m \in 0 .. m /\ sum[m] \in Nat
  BY <1>2, <1>3
<1>6. DOMAIN t = 0 .. m + 1
  OBVIOUS
<1> HIDE DEF t
<1>7. t \in [0 .. m + 1 -> Nat]
  <2>1. \A i \in 0 .. m + 1 : t[i] \in Nat
    BY <1>1, <1>2, <1>4, <1>5
  <2>2. t = [i \in 0 .. m + 1 |-> t[i]]
    BY <1>6 DEF t
  <2> QED BY <2>1, <2>2
<1>8. \A i \in 1 .. m + 1 : t[i] = t[i - 1] + v[i]
  <2> TAKE i \in 1 .. m + 1
  <2>1. CASE i = m + 1
    <3>1. i - 1 = m
      BY <1>2, <2>1
    <3> QED BY <1>2, <1>4, <1>5, <2>1, <3>1
  <2>2. CASE i # m + 1
    <3>1. i \in 1 .. m /\ i \in 0 .. m /\ i - 1 \in 0 .. m
      BY <1>2, <2>2
    <3> QED BY <1>2, <1>3, <1>4, <3>1
  <2> QED BY <2>1, <2>2
<1>9. \A i, j \in 0 .. m + 1 : i < j => t[i] < t[j]
  <2> TAKE i, j \in 0 .. m + 1
  <2> HAVE i < j
  <2>1. i \in 0 .. m
    BY <1>2
  <2>2. CASE j = m + 1
    BY <1>1, <1>4, <1>5, <2>1, <2>2
  <2>3. CASE j # m + 1
    <3>1. j \in 0 .. m
      BY <1>2, <2>3
    <3> QED BY <1>3, <1>4, <2>1, <3>1
  <2> QED BY <2>2, <2>3
<1>10. Sums(v, t)
  BY <1>2, <1>7, <1>8, <1>9 DEF Sums
<1> QED BY <1>4, <1>5, <1>10 DEF m, v

\* Who owns a port does not matter to its answers.
LEMMA GiveAnswers ==
    ASSUME AnswerInv, NEW a \in Actors, NEW p \in PortIds, NEW b \in Actors, Give(a, p, b)
    PROVE  \A q \in PortIds : PortOK(q)'
<1>1. /\ port' = [port EXCEPT ![p].owner = b]
      /\ UNCHANGED <<batch, inject, accepted, file, res>>
  BY DEF Give, resVars
<1>2. port \in [PortIds -> PortRec]
  BY DEF AnswerInv, PortInv, Table, LoopType
<1> TAKE q \in PortIds
<1>3. port[q] \in PortRec /\ port'[q] = IF q = p THEN [port[q] EXCEPT !.owner = b] ELSE port[q]
  BY <1>1, <1>2
<1>4. SameFor(q)
  BY <1>1, <1>3 DEF SameFor, PortRec
<1> QED BY <1>1, <1>4, Quiet

\* A write is refused, or adds its bytes to those that are pending.
LEMMA WriteAnswers ==
    ASSUME AnswerInv, NEW a \in Actors, NEW p \in PortIds, NEW n \in Sizes,
           WritePort(a, p, n)
    PROVE  \A q \in PortIds : PortOK(q)'
<1> DEFINE op == [read |-> FALSE, size |-> n]
<1>1. /\ UNCHANGED <<batch, inject, file>> /\ Open(p) /\ port[p].kind = "write"
      /\ QueueType
  BY DEF WritePort, Owns, AnswerInv, PortInv
<1>2. /\ port \in [PortIds -> PortRec] /\ res \in [PortIds -> ResRec]
      /\ accepted \in [PortIds -> Seq(Sizes)]
  BY DEF AnswerInv, PortInv, Table, LoopType, GoType, HistoryType
<1>3. CASE port' = [port EXCEPT ![p].promise = TRUE] /\ UNCHANGED <<accepted, res>>
  <2> TAKE q \in PortIds
  <2>1. port[q] \in PortRec
        /\ port'[q] = IF q = p THEN [port[q] EXCEPT !.promise = TRUE] ELSE port[q]
    BY <1>2, <1>3
  <2>2. SameFor(q)
    BY <1>1, <1>3, <2>1 DEF SameFor, PortRec
  <2> QED BY <1>1, <2>2, Quiet
<1>4. CASE /\ port' = [port EXCEPT ![p].pending = @ + n]
           /\ accepted' = [accepted EXCEPT ![p] = Append(@, n)]
           /\ res' = [res EXCEPT ![p].ops = Append(@, op)]
  <2>1. ASSUME NEW q \in PortIds, q # p PROVE PortOK(q)'
    <3>1. port'[q] = port[q] /\ res'[q] = res[q] /\ accepted'[q] = accepted[q]
      BY <1>2, <1>4, <2>1
    <3> QED BY <1>1, <3>1, Quiet DEF SameFor
  <2>2. PortOK(p)'
    <3>1. /\ port'[p].state = "open" /\ port'[p].kind = "write"
          /\ port'[p].pending = port[p].pending + n
      BY <1>1, <1>2, <1>4 DEF Open, PortRec
    <3>2. /\ res'[p].at = res[p].at /\ res'[p].failed = res[p].failed
          /\ res'[p].err = res[p].err /\ res'[p].closing = res[p].closing
          /\ res'[p].ops = Append(res[p].ops, op)
      BY <1>2, <1>4 DEF ResRec
    <3>3. PortOK(p) /\ port[p].state = "open"
      BY <1>1 DEF AnswerInv, Open
    <3>4. accepted'[p] = Append(accepted[p], n) /\ file'[p] = file[p]
      BY <1>1, <1>2, <1>4
    <3>5. \A evs : InFlight(p, evs)' = InFlight(p, evs)
      BY <1>1, FlowSame
    <3> DEFINE A == Len(accepted[p])
               O == Len(res[p].ops)
    <3>6. /\ A \in Nat /\ O \in Nat /\ Len(file[p]) \in Nat /\ accepted[p] \in Seq(Sizes)
          /\ DOMAIN accepted[p] = 1 .. A /\ DOMAIN file[p] = 1 .. Len(file[p])
          /\ DOMAIN res[p].ops = 1 .. O
      BY PortTypes
    <3>7. /\ Len(accepted'[p]) = A + 1 /\ accepted'[p][A + 1] = n
          /\ \A i \in 1 .. A : accepted'[p][i] = accepted[p][i]
      BY <3>4, <3>6
    <3>8. /\ Len(res'[p].ops) = O + 1 /\ DOMAIN res'[p].ops = 1 .. O + 1
          /\ res'[p].ops[O + 1] = op
          /\ \A j \in 1 .. O : res'[p].ops[j] = res[p].ops[j]
      <4>1. res[p].ops \in Seq(Ops)
        BY PortTypes
      <4> HIDE DEF op
      <4> QED BY <3>2, <4>1
    <3>9. op.read = FALSE /\ op.size = n
      OBVIOUS
    <3> HIDE DEF op, A, O
    <3>10. NoneOK(p)' /\ ReadOK(p)'
      BY <3>1 DEF NoneOK, ReadOK
    <3>11. KindOK(p)'
      <4>1. \A j \in 1 .. O : res[p].ops[j].read = FALSE
        BY <1>1, <3>3, <3>6 DEF PortOK, KindOK
      <4>2. \A j \in 1 .. O + 1 : res'[p].ops[j].read = FALSE
        <5> TAKE j \in 1 .. O + 1
        <5>1. j \in 1 .. O \/ j = O + 1
          BY <3>6
        <5> QED BY <3>8, <3>9, <4>1, <5>1
      <4>3. InFlight(p, {"data", "eof"})' = {}
        BY <1>1, <3>3, <3>5 DEF PortOK, KindOK
      <4> QED BY <3>1, <3>8, <4>2, <4>3 DEF KindOK
    <3>12. GoOK(p)'
      BY <1>1, <3>1, <3>2, <3>3 DEF PortOK, GoOK
    <3>13. /\ Len(file[p]) <= A - O
           /\ ~res[p].failed => Len(file[p]) = A - O
           /\ \A i \in DOMAIN file[p] : file[p][i] = accepted[p][i]
           /\ \A j \in 1 .. O : res[p].ops[j].size = accepted[p][(A - O) + j]
           /\ InFlight(p, {"error"}) # {} => res[p].failed /\ Len(file[p]) < A - O
      BY <1>1, <3>3, <3>6 DEF PortOK, WriteOK, Done, A, O
    <3>14. WriteOK(p)'
      <4>1. Done(p)' = A - O
        BY <3>6, <3>7, <3>8 DEF Done
      <4>2. \A i \in DOMAIN file[p] : file[p][i] = accepted'[p][i]
        BY <3>6, <3>7, <3>13
      <4>3. \A j \in 1 .. O + 1 : res'[p].ops[j].size = accepted'[p][(A - O) + j]
        <5> TAKE j \in 1 .. O + 1
        <5>1. CASE j = O + 1
          <6>1. (A - O) + j = A + 1
            BY <3>6, <5>1
          <6> QED BY <3>7, <3>8, <3>9, <5>1, <6>1
        <5>2. CASE j # O + 1
          <6>1. j \in 1 .. O /\ (A - O) + j \in 1 .. A
            BY <3>6, <3>13, <5>2
          <6> QED BY <3>7, <3>8, <3>13, <6>1
        <5> QED BY <5>1, <5>2
      <4> QED BY <3>2, <3>4, <3>5, <3>8, <3>13, <4>1, <4>2, <4>3 DEF WriteOK
    <3>15. PendingOK(p)'
      <4>1. PICK c, sum, at :
               /\ c \in 0 .. Len(file[p])
               /\ Sums(accepted[p], sum) /\ OnTheWay(p, c, at)
               /\ port[p].pending = sum[A] - sum[c]
        BY <1>1, <3>3 DEF PortOK, PendingOK, A
      <4>2. PICK t : /\ Sums(accepted'[p], t) /\ t[A + 1] = sum[A] + n
                     /\ \A i \in 0 .. A : t[i] = sum[i]
        BY <3>4, <3>6, <4>1, SumsAppend DEF A
      <4>3. c \in 0 .. A /\ A \in 0 .. A /\ sum \in [0 .. A -> Nat] /\ n \in Nat
        BY <3>6, <3>13, <4>1, Bounds DEF Sums, A
      <4>4. sum[c] \in Nat /\ sum[A] \in Nat
        BY <4>3
      <4>5. port'[p].pending = t[A + 1] - t[c]
        <5>1. t[c] = sum[c]
          BY <4>2, <4>3
        <5>2. port'[p].pending = (sum[A] - sum[c]) + n
          BY <3>1, <4>1
        <5>3. (sum[A] - sum[c]) + n = (sum[A] + n) - sum[c]
          BY <4>3, <4>4
        <5> QED BY <4>2, <5>1, <5>2, <5>3
      <4>6. OnTheWay(p, c, at)'
        <5>1. Flow' = Flow
          BY <1>1, FlowSame
        <5> QED BY <3>4, <3>5, <4>1, <5>1 DEF OnTheWay, Written
      <4> QED BY <3>4, <3>7, <4>1, <4>2, <4>5, <4>6 DEF PendingOK
    <3> QED BY <3>10, <3>11, <3>12, <3>14, <3>15 DEF PortOK
  <2> QED BY <2>1, <2>2
<1> QED BY <1>3, <1>4 DEF WritePort

-----------------------------------------------------------------------------
(* The goroutines. *)

\* A goroutine that says nothing: its record changes, the queues do not.
LEMMA SilentAnswers ==
    ASSUME AnswerInv, NEW p \in PortIds, OpenFile(p) \/ NextOp(p) \/ CloseFile(p)
    PROVE  \A q \in PortIds : PortOK(q)'
<1>1. /\ UNCHANGED <<batch, inject, accepted, file, port>> /\ QueueType
      /\ res \in [PortIds -> ResRec] /\ PortOK(p) /\ res[p] \in ResRec
  BY DEF OpenFile, NextOp, CloseFile, GoUnchanged, portVars, AnswerInv, PortInv, GoType
<1>2. ASSUME NEW q \in PortIds, q # p PROVE PortOK(q)'
  <2>1. res'[q] = res[q]
    BY <1>1, <1>2 DEF OpenFile, NextOp, CloseFile
  <2> QED BY <1>1, <2>1, Quiet DEF SameFor
<1>3. \A evs : InFlight(p, evs)' = InFlight(p, evs)
  BY <1>1, FlowSame
<1>4. Flow' = Flow
  BY <1>1, FlowSame
<1>5. PendingOK(p)'
  <2>1. Moved(p, {"written"}, [i \in DOMAIN Flow |-> i])
    BY <1>1, FlowSame
  <2>2. PendingOK(p)
    BY <1>1 DEF PortOK
  <2> QED BY <1>1, <2>1, <2>2, PendingKept DEF Open
<1>6. /\ res'[p].ops = res[p].ops /\ res'[p].closing = res[p].closing
      /\ OpenFile(p) => res'[p].at = "wait" /\ res'[p].failed = res'[p].err
  <2>1. ASSUME NEW bad, res' = [res EXCEPT ![p].at = "wait", ![p].failed = bad, ![p].err = bad]
        PROVE  /\ res'[p].ops = res[p].ops /\ res'[p].closing = res[p].closing
               /\ res'[p].at = "wait" /\ res'[p].failed = res'[p].err
    BY <1>1, <2>1 DEF ResRec
  <2>2. ASSUME NEW at, res' = [res EXCEPT ![p].at = at]
        PROVE  res'[p].ops = res[p].ops /\ res'[p].closing = res[p].closing
    BY <1>1, <2>2 DEF ResRec
  <2>3. OpenFile(p) => \E bad : res' = [res EXCEPT ![p].at = "wait", ![p].failed = bad,
                                                  ![p].err = bad]
    BY DEF OpenFile
  <2>4. NextOp(p) \/ CloseFile(p) => \E at : res' = [res EXCEPT ![p].at = at]
    BY DEF NextOp, CloseFile
  <2> QED BY <2>1, <2>2, <2>3, <2>4
<1>10. KindOK(p)'
  BY <1>1, <1>3, <1>6 DEF PortOK, KindOK, Written
<1>7. NoneOK(p)'
  <2>1. res[p].at # "none"
    BY DEF OpenFile, NextOp, CloseFile
  <2>2. port[p].state # "none"
    BY <1>1, <2>1 DEF PortOK, NoneOK, NoRes
  <2> QED BY <1>1, <2>2 DEF NoneOK
<1>8. CASE OpenFile(p)
  <2>1. /\ res[p].at = "opening" /\ res'[p].at = "wait"
        /\ res'[p].failed = res'[p].err
    BY <1>6, <1>8 DEF OpenFile
  <2>2. ~res[p].failed
    BY <1>1, <2>1 DEF PortOK, GoOK
  <2>3. GoOK(p)'
    BY <1>1, <1>6, <2>1 DEF PortOK, GoOK
  <2>4. ReadOK(p)'
    BY <1>1, <1>3, <1>4, <1>6, <2>1, <2>2 DEF PortOK, ReadOK, Answers, Open
  <2>5. WriteOK(p)'
    <3>1. Done(p)' = Done(p)
      BY <1>1, <1>6 DEF Done
    <3>2. WriteOK(p)
      BY <1>1 DEF PortOK
    <3> HIDE DEF Done
    <3> QED BY <1>1, <1>3, <1>6, <2>2, <3>1, <3>2 DEF WriteOK
  <2> QED BY <1>2, <1>5, <1>7, <1>10, <2>3, <2>4, <2>5 DEF PortOK
<1>9. CASE NextOp(p) \/ CloseFile(p)
  <2>1. /\ res'[p].failed = res[p].failed /\ res'[p].err = res[p].err
        /\ res[p].at = "wait" /\ res'[p].at \in {"busy", "gone"}
        /\ res'[p].at = "busy" => ~res[p].failed
        /\ res'[p].at = "gone" => res[p].ops = <<>> /\ res[p].closing
    BY <1>1, <1>9 DEF NextOp, CloseFile, ResRec
  <2>2. GoOK(p)'
    BY <1>1, <1>6, <2>1 DEF PortOK, GoOK
  <2>3. ReadOK(p)'
    BY <1>1, <1>3, <1>4, <1>6, <2>1 DEF PortOK, ReadOK, Answers, Open
  <2>4. WriteOK(p)'
    <3>1. Done(p)' = Done(p)
      BY <1>1, <1>6 DEF Done
    <3>2. WriteOK(p)
      BY <1>1 DEF PortOK
    <3> HIDE DEF Done
    <3> QED BY <1>1, <1>3, <1>6, <2>1, <3>1, <3>2 DEF WriteOK
  <2> QED BY <1>2, <1>5, <1>7, <1>10, <2>2, <2>3, <2>4 DEF PortOK
<1> QED BY <1>2, <1>8, <1>9

\* Whatever port p says, the answers of the other ports stay where they are.
LEMMA OthersAnswer ==
    ASSUME AnswerInv, NEW p \in PortIds, NEW ev, NEW n, Emit(p, ev, n), batch' = batch,
           NEW q \in PortIds, q # p \/ ev = "signal", SameFor(q)
    PROVE  PortOK(q)'
<1>1. QueueType /\ PortOK(q)
  BY DEF AnswerInv, PortInv
<1>2. q # p \/ ev \notin Owing
  BY DEF Owing
<1>3. Moved(q, Owing, [i \in DOMAIN Flow |-> i])
  BY <1>1, <1>2, FlowEmit DEF Emitted
<1> QED BY <1>1, <1>3, Kept

\* A signal answers no operation.
LEMMA SignalAnswers ==
    ASSUME AnswerInv, NEW p \in PortIds, Signal(p)
    PROVE  \A q \in PortIds : PortOK(q)'
<1>1. /\ Emit(p, "signal", 0)
      /\ UNCHANGED <<batch, accepted, file, port, res>>
  BY DEF Signal, portVars, resVars
<1> QED BY <1>1, OthersAnswer DEF SameFor

\* The first operation of a queue, and what comes after it.
LEMMA FirstOp ==
    ASSUME AnswerInv, NEW p \in PortIds, res[p].ops # <<>>,
           NEW rest, rest = Tail(res[p].ops)
    PROVE  /\ Len(res[p].ops) \in Nat \ {0} /\ 1 \in DOMAIN res[p].ops
           /\ Head(res[p].ops) = res[p].ops[1] /\ Len(rest) = Len(res[p].ops) - 1
           /\ DOMAIN rest = 1 .. Len(res[p].ops) - 1 /\ rest \in Seq(Ops)
           /\ \A j \in DOMAIN rest : j + 1 \in DOMAIN res[p].ops /\ rest[j] = res[p].ops[j + 1]
           /\ Len(res[p].ops) = 1 => rest = <<>>
<1> DEFINE ops == res[p].ops
<1>1. ops \in Seq(Ops) /\ ops # <<>> /\ DOMAIN ops = 1 .. Len(ops) /\ Len(ops) \in Nat
  BY PortTypes
<1> HIDE DEF ops
<1>2. /\ Len(ops) \in Nat \ {0} /\ 1 \in DOMAIN ops /\ Head(ops) = ops[1]
  BY <1>1
<1>3. /\ Tail(ops) \in Seq(Ops) /\ Len(Tail(ops)) = Len(ops) - 1
      /\ \A j \in 1 .. Len(ops) - 1 : Tail(ops)[j] = ops[j + 1]
  BY <1>1
<1>4. DOMAIN Tail(ops) = 1 .. Len(ops) - 1
  BY <1>3
<1>5. \A j \in 1 .. Len(ops) - 1 : j + 1 \in DOMAIN ops
  BY <1>1
<1>6. Len(ops) = 1 => Tail(ops) = <<>>
  <2>1. Len(ops) = 1 => Len(Tail(ops)) = 0
    BY <1>3
  <2> QED BY <1>3, <2>1, EmptySeq
<1> QED BY <1>2, <1>3, <1>4, <1>5, <1>6 DEF ops

\* What holds of the first operation and its port when the goroutine takes it off.
LEMMA TakesOff ==
    ASSUME AnswerInv, NEW p \in PortIds, res[p].ops # <<>>, PortOK(p),
           UNCHANGED <<port, accepted>>,
           res'[p].ops = Tail(res[p].ops),
           res'[p].at = "wait", res'[p].closing = res[p].closing,
           res'[p].err => res'[p].failed, res[p].at \in {"wait", "busy"}
    PROVE  /\ NoneOK(p)' /\ GoOK(p)' /\ Done(p)' = Done(p) + 1 /\ Done(p) \in Int
           /\ port[p].kind # "write" =>
                 /\ Head(res[p].ops).read = TRUE
                 /\ \A j \in DOMAIN res'[p].ops : res'[p].ops[j].read = TRUE
           /\ port[p].kind = "write" =>
                 /\ Head(res[p].ops).read = FALSE
                 /\ \A j \in DOMAIN res'[p].ops : res'[p].ops[j].read = FALSE
                 /\ Head(res[p].ops).size = accepted[p][Done(p) + 1]
                 /\ \A j \in DOMAIN res'[p].ops :
                        res'[p].ops[j].size = accepted[p][(Done(p) + 1) + j]
           /\ Open(p) /\ port[p].kind = "read" =>
                 /\ port[p].armed /\ res'[p].ops = <<>> /\ Answers(p) = {}
                 /\ res[p].failed => res[p].err
<1> DEFINE ops == res[p].ops
           rest == res'[p].ops
<1>1. /\ Len(ops) \in Nat \ {0} /\ 1 \in DOMAIN ops
      /\ Head(ops) = ops[1] /\ Len(rest) = Len(ops) - 1
      /\ DOMAIN rest = 1 .. Len(ops) - 1
      /\ \A j \in DOMAIN rest : j + 1 \in DOMAIN ops /\ rest[j] = ops[j + 1]
      /\ Len(ops) = 1 => rest = <<>>
  BY FirstOp
<1>2. NoneOK(p)'
  BY DEF PortOK, NoneOK, NoRes
<1>3. GoOK(p)'
  BY DEF PortOK, GoOK
<1>4. Done(p)' = Done(p) + 1 /\ Done(p) \in Int
  <2>1. Len(accepted[p]) \in Nat /\ Len(accepted'[p]) = Len(accepted[p])
    BY PortTypes
  <2>2. Done(p)' = Len(accepted[p]) - Len(rest) /\ Done(p) = Len(accepted[p]) - Len(ops)
    BY <2>1 DEF Done
  <2> HIDE DEF ops, rest
  <2> QED BY <1>1, <2>1, <2>2
<1>5. port[p].kind # "write" =>
         Head(ops).read = TRUE /\ \A j \in DOMAIN rest : rest[j].read = TRUE
  BY <1>1 DEF PortOK, KindOK
<1>6. port[p].kind = "write" =>
         Head(ops).read = FALSE /\ \A j \in DOMAIN rest : rest[j].read = FALSE
  BY <1>1 DEF PortOK, KindOK
<1>7. ASSUME port[p].kind = "write"
      PROVE  /\ Head(ops).size = accepted[p][Done(p) + 1]
             /\ \A j \in DOMAIN rest : rest[j].size = accepted[p][(Done(p) + 1) + j]
  <2>1. \A j \in DOMAIN ops : ops[j].size = accepted[p][Done(p) + j]
    BY <1>7 DEF PortOK, WriteOK
  <2> HIDE DEF Done, ops, rest
  <2>2. ASSUME NEW j \in DOMAIN rest PROVE Done(p) + (j + 1) = (Done(p) + 1) + j
    BY <1>1, <1>4
  <2> QED BY <1>1, <2>1, <2>2
<1>8. ASSUME Open(p), port[p].kind = "read"
      PROVE  /\ port[p].armed /\ rest = <<>> /\ Answers(p) = {}
             /\ res[p].failed => res[p].err
  <2>1. /\ port[p].armed /\ Len(ops) = 1 /\ Answers(p) = {}
        /\ res[p].failed => res[p].err
    BY <1>8 DEF PortOK, ReadOK
  <2> QED BY <1>1, <2>1
<1> QED BY <1>2, <1>3, <1>4, <1>5, <1>6, <1>7, <1>8

\* A failed resource takes an operation off; the first time, it says so.
LEMMA DropAnswers ==
    ASSUME AnswerInv, NEW p \in PortIds, DropOp(p)
    PROVE  \A q \in PortIds : PortOK(q)'
<1>1. /\ UNCHANGED <<batch, accepted, file, port>> /\ QueueType /\ PortOK(p)
      /\ res \in [PortIds -> ResRec] /\ res[p] \in ResRec
      /\ res[p].at = "wait" /\ res[p].ops # <<>> /\ res[p].failed
      /\ res' = [res EXCEPT ![p].ops = Tail(@), ![p].err = FALSE]
      /\ IF res[p].err THEN Emit(p, "error", 0) ELSE UNCHANGED inject
  BY DEF DropOp, GoUnchanged, portVars, AnswerInv, PortInv, GoType
<1>2. ASSUME NEW q \in PortIds, q # p PROVE PortOK(q)'
  <2>1. res'[q] = res[q]
    BY <1>1, <1>2
  <2>2. SameFor(q)
    BY <1>1, <2>1 DEF SameFor
  <2> QED BY <1>1, <1>2, <2>2, OthersAnswer, Quiet
<1>3. /\ res'[p].ops = Tail(res[p].ops) /\ res'[p].at = "wait" /\ res'[p].failed
      /\ ~res'[p].err /\ res'[p].closing = res[p].closing
  BY <1>1 DEF ResRec
<1>4. /\ NoneOK(p)' /\ GoOK(p)' /\ Done(p)' = Done(p) + 1 /\ Done(p) \in Int
      /\ port[p].kind # "write" =>
             \A j \in DOMAIN res'[p].ops : res'[p].ops[j].read = TRUE
      /\ port[p].kind = "write" =>
             /\ \A j \in DOMAIN res'[p].ops : res'[p].ops[j].read = FALSE
             /\ \A j \in DOMAIN res'[p].ops :
                    res'[p].ops[j].size = accepted[p][(Done(p) + 1) + j]
      /\ Open(p) /\ port[p].kind = "read" =>
             /\ port[p].armed /\ res'[p].ops = <<>> /\ Answers(p) = {}
             /\ res[p].failed => res[p].err
  BY <1>1, <1>3, TakesOff
<1>5. \A evs : "error" \notin evs =>
         /\ InFlight(p, evs)' = InFlight(p, evs)
         /\ Moved(p, evs, [i \in DOMAIN Flow |-> i])
  <2>1. CASE res[p].err
    <3>1. PICK z : Emitted(p, "error", 0, z)
      BY <1>1, <2>1, FlowEmit
    <3> QED BY <3>1 DEF Emitted
  <2>2. CASE ~res[p].err
    BY <1>1, <2>2, FlowSame
  <2> QED BY <2>1, <2>2
<1>6. KindOK(p)'
  <2>1. KindOK(p)
    BY <1>1 DEF PortOK
  <2> QED BY <1>1, <1>4, <1>5, <2>1 DEF KindOK, Written
<1>7. ReadOK(p)'
  <2> SUFFICES ASSUME Open(p), port[p].kind = "read"
               PROVE  /\ port[p].armed /\ res'[p].ops = <<>>
                      /\ \E i \in DOMAIN Flow' : Answers(p)' = {i} /\ Flow'[i].ev = "error"
    BY <1>1 DEF ReadOK, Open
  <2>1. /\ port[p].armed /\ res'[p].ops = <<>> /\ Answers(p) = {} /\ Emit(p, "error", 0)
    BY <1>1, <1>4
  <2>2. PICK z : Emitted(p, "error", 0, z)
    BY <1>1, <2>1, FlowEmit
  <2>3. /\ DOMAIN Flow' = DOMAIN Flow \cup {z} /\ Flow'[z].ev = "error"
        /\ InFlight(p, {"data", "eof", "error"})'
              = InFlight(p, {"data", "eof", "error"}) \cup {z}
    BY <2>2 DEF Emitted
  <2> QED BY <2>1, <2>3 DEF Answers
<1>8. WriteOK(p)'
  <2>1. WriteOK(p) /\ Len(file[p]) \in Nat
    BY <1>1, PortTypes DEF PortOK
  <2> HIDE DEF Done
  <2>2. port[p].kind = "write" => Len(file[p]) <= Done(p) + 1 /\ Len(file[p]) < Done(p) + 1
    BY <1>4, <2>1 DEF WriteOK
  <2> QED BY <1>1, <1>3, <1>4, <2>1, <2>2 DEF WriteOK
<1>9. PendingOK(p)'
  <2>1. PendingOK(p)
    BY <1>1 DEF PortOK
  <2> QED BY <1>1, <1>5, <2>1, PendingKept DEF Open
<1> QED BY <1>2, <1>4, <1>6, <1>7, <1>8, <1>9 DEF PortOK

\* The answer of a write that is done stands behind those of the writes before it.
LEMMA WayAppend ==
    ASSUME QueueType, NEW p, NEW n, NEW z,
           \A i \in DOMAIN Flow : i < z /\ Flow'[i] = Flow[i], Flow'[z].size = n,
           Written(p)' = Written(p) \cup {z},
           file[p] \in Seq(Sizes), n \in Sizes, file'[p] = Append(file[p], n),
           NEW c \in 0 .. Len(file[p]), NEW at, OnTheWay(p, c, at)
    PROVE  \E to : OnTheWay(p, c, to)'
<1> DEFINE F == Len(file[p])
           K == (c + 1) .. F
           L == (c + 1) .. (F + 1)
           to == [k \in L |-> IF k = F + 1 THEN z ELSE at[k]]
<1>1. /\ F \in Nat /\ Len(file'[p]) = F + 1 /\ file'[p][F + 1] = n
      /\ \A k \in 1 .. F : file'[p][k] = file[p][k]
  OBVIOUS
<1> HIDE DEF F
<1>2. /\ at \in [K -> Written(p)]
      /\ \A k \in K : Flow[at[k]].size = file[p][k]
      /\ \A k, l \in K : k < l => at[k] < at[l]
      /\ \A i \in Written(p) : \E k \in K : at[k] = i
  BY DEF OnTheWay, F
<1>3. c \in Nat /\ c <= F
  BY <1>1 DEF F
<1>4. /\ \A k \in K : k \in L /\ k # F + 1 /\ k < F + 1 /\ k \in 1 .. F
      /\ F + 1 \in L
      /\ \A k \in L : k \in K \/ k = F + 1
      /\ \A k, l \in L : k < l => k \in K
  BY <1>1, <1>3
<1>5. Written(p) \subseteq DOMAIN Flow
  BY Positions DEF Written
<1> HIDE DEF K, L
<1>6. /\ \A k \in K : to[k] = at[k] /\ at[k] \in Written(p)
      /\ to[F + 1] = z /\ DOMAIN to = L
  BY <1>2, <1>4
<1>7. to \in [L -> Written(p)']
  <2>1. \A k \in L : to[k] \in Written(p)'
    BY <1>4, <1>6
  <2> QED BY <2>1
<1> HIDE DEF to
<1>8. \A k \in L : Flow'[to[k]].size = file'[p][k]
  <2> TAKE k \in L
  <2>1. CASE k \in K
    BY <1>1, <1>2, <1>4, <1>5, <1>6, <2>1
  <2>2. CASE k = F + 1
    BY <1>1, <1>6, <2>2
  <2> QED BY <1>4, <2>1, <2>2
<1>9. \A k, l \in L : k < l => to[k] < to[l]
  <2> TAKE k, l \in L
  <2> HAVE k < l
  <2>1. k \in K /\ to[k] = at[k] /\ to[k] \in DOMAIN Flow
    BY <1>4, <1>5, <1>6
  <2>2. CASE l \in K
    BY <1>2, <1>6, <2>1, <2>2
  <2>3. CASE l = F + 1
    BY <1>6, <2>1, <2>3
  <2> QED BY <1>4, <2>2, <2>3
<1>10. \A i \in Written(p)' : \E k \in L : to[k] = i
  BY <1>2, <1>4, <1>6
<1>11. PICK way : /\ way \in [L -> Written(p)']
                  /\ \A k \in L : Flow'[way[k]].size = file'[p][k]
                  /\ \A k, l \in L : k < l => way[k] < way[l]
                  /\ \A i \in Written(p)' : \E k \in L : way[k] = i
  BY <1>7, <1>8, <1>9, <1>10
<1>12. OnTheWay(p, c, way)'
  BY <1>1, <1>11 DEF OnTheWay, L
<1> QED BY <1>12

\* An operation is done: its answer goes to the loop.
LEMMA DoAnswers ==
    ASSUME AnswerInv, NEW p \in PortIds, DoOp(p)
    PROVE  \A q \in PortIds : PortOK(q)'
<1> DEFINE op == Head(res[p].ops)
<1>1. /\ UNCHANGED <<batch, accepted, port>> /\ QueueType /\ PortOK(p)
      /\ res \in [PortIds -> ResRec] /\ res[p] \in ResRec
      /\ file \in [PortIds -> Seq(Sizes)]
      /\ res[p].at = "busy" /\ res[p].ops # <<>>
  BY DEF DoOp, GoUnchanged, portVars, AnswerInv, PortInv, GoType, HistoryType
<1> DEFINE Says(ev, n) ==
             /\ Emit(p, ev, n)
             /\ res'[p].ops = Tail(res[p].ops) /\ res'[p].at = "wait"
             /\ res'[p].closing = res[p].closing /\ res'[p].err = res[p].err
             /\ res'[p].failed = (res[p].failed \/ ev = "error")
             /\ ev \in {"data", "eof"} => op.read
             /\ ev = "written" => ~op.read /\ n = op.size /\ file' = [file EXCEPT ![p] = Append(@, n)]
             /\ ev # "written" => file' = file
             /\ \A q \in PortIds : q # p => res'[q] = res[q]
<1>2. PICK ev, n : ev \in {"data", "eof", "error", "written"} /\ Says(ev, n)
  <2> DEFINE rest == [res[p] EXCEPT !.at = "wait", !.ops = Tail(@)]
             bad == [rest EXCEPT !.failed = TRUE]
  <2>1. /\ rest.ops = Tail(res[p].ops) /\ rest.at = "wait"
        /\ rest.closing = res[p].closing /\ rest.err = res[p].err
        /\ rest.failed = res[p].failed
        /\ bad.ops = Tail(res[p].ops) /\ bad.at = "wait"
        /\ bad.closing = res[p].closing /\ bad.err = res[p].err /\ bad.failed = TRUE
    BY <1>1 DEF ResRec
  <2>2. res[p].failed \in BOOLEAN
    BY <1>1 DEF ResRec
  <2>3. \/ /\ op.read /\ \E ev \in {"data", "eof"} : Emit(p, ev, 0)
           /\ res' = [res EXCEPT ![p] = rest] /\ UNCHANGED file
        \/ /\ ~op.read /\ Emit(p, "written", op.size)
           /\ file' = [file EXCEPT ![p] = Append(@, op.size)]
           /\ res' = [res EXCEPT ![p] = rest]
        \/ /\ Emit(p, "error", 0) /\ res' = [res EXCEPT ![p] = bad]
           /\ UNCHANGED file
    BY DEF DoOp
  <2> HIDE DEF op, rest, bad
  <2>4. CASE /\ op.read /\ \E ev \in {"data", "eof"} : Emit(p, ev, 0)
             /\ res' = [res EXCEPT ![p] = rest] /\ UNCHANGED file
    <3>1. res'[p] = rest /\ \A q \in PortIds : q # p => res'[q] = res[q]
      BY <1>1, <2>4
    <3>2. PICK ev \in {"data", "eof"} : Emit(p, ev, 0)
      BY <2>4
    <3>3. Says(ev, 0)
      BY <2>1, <2>2, <2>4, <3>1, <3>2
    <3> QED BY <3>3
  <2>5. CASE /\ ~op.read /\ Emit(p, "written", op.size)
             /\ file' = [file EXCEPT ![p] = Append(@, op.size)]
             /\ res' = [res EXCEPT ![p] = rest]
    <3>1. res'[p] = rest /\ \A q \in PortIds : q # p => res'[q] = res[q]
      BY <1>1, <2>5
    <3>2. Says("written", op.size)
      BY <2>1, <2>2, <2>5, <3>1
    <3> HIDE DEF Says
    <3> QED BY <3>2
  <2>6. CASE Emit(p, "error", 0) /\ res' = [res EXCEPT ![p] = bad] /\ UNCHANGED file
    <3>1. res'[p] = bad /\ \A q \in PortIds : q # p => res'[q] = res[q]
      BY <1>1, <2>6
    <3>2. file' = file /\ Emit(p, "error", 0) /\ res'[p].failed = TRUE
      BY <2>1, <2>6, <3>1
    <3>3. /\ res'[p].ops = Tail(res[p].ops) /\ res'[p].at = "wait"
          /\ res'[p].closing = res[p].closing /\ res'[p].err = res[p].err
      BY <2>1, <3>1
    <3>4. Says("error", 0)
      BY <2>2, <3>1, <3>2, <3>3
    <3> HIDE DEF Says
    <3> QED BY <3>4
  <2> QED BY <2>3, <2>4, <2>5, <2>6
<1> HIDE DEF op
<1>3. /\ \A q \in PortIds : q # p => file'[q] = file[q]
      /\ file'[p] = IF ev = "written" THEN Append(file[p], n) ELSE file[p]
  BY <1>1, <1>2
<1>4. ASSUME NEW q \in PortIds, q # p PROVE PortOK(q)'
  <2>1. SameFor(q)
    BY <1>1, <1>2, <1>3, <1>4 DEF SameFor
  <2> QED BY <1>1, <1>2, <1>4, <2>1, OthersAnswer
<1>5. ~res[p].failed /\ ~res[p].err
  BY <1>1 DEF PortOK, GoOK
<1>6. /\ NoneOK(p)' /\ GoOK(p)' /\ Done(p)' = Done(p) + 1 /\ Done(p) \in Int
      /\ port[p].kind # "write" =>
             /\ op.read = TRUE
             /\ \A j \in DOMAIN res'[p].ops : res'[p].ops[j].read = TRUE
      /\ port[p].kind = "write" =>
             /\ op.read = FALSE
             /\ \A j \in DOMAIN res'[p].ops : res'[p].ops[j].read = FALSE
             /\ op.size = accepted[p][Done(p) + 1]
             /\ \A j \in DOMAIN res'[p].ops :
                    res'[p].ops[j].size = accepted[p][(Done(p) + 1) + j]
      /\ Open(p) /\ port[p].kind = "read" =>
             port[p].armed /\ res'[p].ops = <<>> /\ Answers(p) = {}
  BY <1>1, <1>2, <1>5, TakesOff DEF op
<1>7. PICK z : Emitted(p, ev, n, z)
  BY <1>1, <1>2, FlowEmit
<1>8. /\ z \notin DOMAIN Flow /\ DOMAIN Flow' = DOMAIN Flow \cup {z}
      /\ \A i \in DOMAIN Flow : i < z /\ Flow'[i] = Flow[i]
      /\ Flow'[z].ev = ev /\ Flow'[z].size = n
      /\ \A evs : InFlight(p, evs)' = IF ev \in evs THEN InFlight(p, evs) \cup {z}
                                       ELSE InFlight(p, evs)
      /\ \A evs : ev \notin evs => Moved(p, evs, [i \in DOMAIN Flow |-> i])
  BY <1>7 DEF Emitted
<1>9. KindOK(p)'
  <2>1. KindOK(p)
    BY <1>1 DEF PortOK
  <2>2. port[p].kind # "write" => ev # "written" /\ file'[p] = file[p]
    BY <1>2, <1>3, <1>6
  <2>3. port[p].kind = "write" => ev \notin {"data", "eof"}
    BY <1>2, <1>6
  <2> QED BY <1>1, <1>6, <1>8, <2>1, <2>2, <2>3 DEF KindOK, Written
<1>10. ReadOK(p)'
  <2> SUFFICES ASSUME Open(p), port[p].kind = "read"
               PROVE  /\ port[p].armed /\ res'[p].ops = <<>>
                      /\ \E i \in DOMAIN Flow' :
                            /\ Answers(p)' = {i}
                            /\ Flow'[i].ev # "error" => ~res'[p].failed /\ res'[p].at # "opening"
    BY <1>1 DEF ReadOK, Open
  <2>1. ev \in {"data", "eof", "error"}
    BY <1>2, <1>6
  <2>2. Answers(p)' = {z} /\ z \in DOMAIN Flow'
    BY <1>6, <1>8, <2>1 DEF Answers
  <2> QED BY <1>2, <1>5, <1>6, <1>8, <2>2
<1>11. ASSUME port[p].kind = "write"
       PROVE  /\ Len(file[p]) = Done(p) /\ InFlight(p, {"error"}) = {}
              /\ \A i \in DOMAIN file[p] : file[p][i] = accepted[p][i]
              /\ op.size = accepted[p][Done(p) + 1]
  BY <1>1, <1>5, <1>6, <1>11 DEF PortOK, WriteOK
<1>12. file[p] \in Seq(Sizes) /\ Len(file[p]) \in Nat /\ DOMAIN file[p] = 1 .. Len(file[p])
  BY PortTypes
<1>13. WriteOK(p)'
  <2> SUFFICES ASSUME port[p].kind = "write" PROVE WriteOK(p)'
    BY <1>1 DEF WriteOK
  <2> HIDE DEF Done
  <2>1. CASE ev = "written"
    <3>1. /\ Len(file'[p]) = Len(file[p]) + 1 /\ DOMAIN file'[p] = 1 .. Len(file[p]) + 1
          /\ file'[p][Len(file[p]) + 1] = n
          /\ \A i \in 1 .. Len(file[p]) : file'[p][i] = file[p][i]
      BY <1>3, <1>12, <2>1
    <3>2. Len(file'[p]) = Done(p) + 1 /\ n = accepted[p][Done(p) + 1]
      BY <1>2, <1>11, <2>1, <3>1
    <3>3. \A i \in DOMAIN file'[p] : file'[p][i] = accepted[p][i]
      <4> TAKE i \in DOMAIN file'[p]
      <4>1. i \in 1 .. Len(file[p]) \/ i = Len(file[p]) + 1
        BY <1>12, <3>1
      <4> QED BY <1>11, <1>12, <3>1, <3>2, <4>1
    <3>4. InFlight(p, {"error"})' = {}
      BY <1>8, <1>11, <2>1
    <3> QED BY <1>1, <1>6, <3>2, <3>3, <3>4 DEF WriteOK
  <2>2. CASE ev = "error"
    <3>1. Len(file[p]) <= Done(p) + 1 /\ Len(file[p]) < Done(p) + 1
      BY <1>6, <1>11
    <3> QED BY <1>1, <1>2, <1>3, <1>6, <1>11, <2>2, <3>1 DEF WriteOK
  <2> QED BY <1>2, <1>6, <2>1, <2>2
<1>14. PendingOK(p)'
  <2>0. PendingOK(p)
    BY <1>1 DEF PortOK
  <2>1. CASE ev # "written"
    <3>1. Moved(p, {"written"}, [i \in DOMAIN Flow |-> i])
      BY <1>8, <2>1
    <3> QED BY <1>1, <1>3, <2>0, <2>1, <3>1, PendingKept DEF Open
  <2>2. CASE ev = "written" /\ Open(p) /\ port[p].kind = "write"
    <3>1. PICK c, sum, at :
             /\ c \in 0 .. Len(file[p])
             /\ Sums(accepted[p], sum) /\ OnTheWay(p, c, at)
             /\ port[p].pending = sum[Len(accepted[p])] - sum[c]
      BY <2>0, <2>2 DEF PendingOK
    <3>2. n \in Sizes
      <4>1. Head(res[p].ops) \in Ops
        BY <1>1, PortTypes
      <4>2. op \in Ops /\ op.read = FALSE /\ n = op.size
        BY <1>2, <1>6, <2>2, <4>1 DEF op
      <4>3. CASE op = [read |-> TRUE, size |-> 0]
        BY <4>2, <4>3
      <4>4. CASE op \in [read : {FALSE}, size : Sizes]
        BY <4>2, <4>4
      <4> QED BY <4>2, <4>3, <4>4 DEF Ops
    <3>3. Written(p)' = Written(p) \cup {z} /\ file'[p] = Append(file[p], n)
      BY <1>3, <1>8, <2>2 DEF Written
    <3>4. PICK to : OnTheWay(p, c, to)'
      BY <1>1, <1>8, <1>12, <3>1, <3>2, <3>3, WayAppend
    <3>5. c \in 0 .. Len(file'[p])
      BY <1>12, <3>1, <3>2, <3>3
    <3> QED BY <1>1, <3>1, <3>4, <3>5 DEF PendingOK
  <2> QED BY <1>1, <2>1, <2>2 DEF PendingOK, Open
<1> QED BY <1>4, <1>6, <1>9, <1>10, <1>13, <1>14 DEF PortOK

-----------------------------------------------------------------------------
(* The loop parses an event. *)

\* The first answer of a write is that of the first write that is not answered.
LEMMA WayFirst ==
    ASSUME QueueType, NEW p, 1 \in Written(p), file'[p] = file[p], Len(file[p]) \in Nat,
           \A i \in DOMAIN Flow' : /\ i \in Nat /\ i >= 1
                                   /\ i + 1 \in DOMAIN Flow /\ Flow'[i] = Flow[i + 1],
           \A i \in DOMAIN Flow \ {1} : i - 1 \in DOMAIN Flow' /\ Flow'[i - 1] = Flow[i],
           NEW c \in 0 .. Len(file[p]), NEW at, OnTheWay(p, c, at)
    PROVE  /\ c + 1 \in 1 .. Len(file[p]) /\ Flow[1].size = file[p][c + 1]
           /\ \E to : OnTheWay(p, c + 1, to)'
<1> DEFINE F == Len(file[p])
           K == (c + 1) .. F
           L == ((c + 1) + 1) .. F
<1>1. /\ at \in [K -> Written(p)]
      /\ \A k \in K : Flow[at[k]].size = file[p][k]
      /\ \A k, l \in K : k < l => at[k] < at[l]
      /\ \A i \in Written(p) : \E k \in K : at[k] = i
  BY DEF OnTheWay
<1>2. \A i \in Written(p) : i \in Nat /\ i >= 1 /\ i \in DOMAIN Flow
  BY Positions DEF Written
<1> HIDE DEF F
<1>3. F \in Nat /\ c \in Nat /\ c <= F
  BY DEF F
<1>4. c + 1 \in K /\ at[c + 1] = 1
  <2>1. PICK k \in K : at[k] = 1
    BY <1>1
  <2>2. c + 1 \in K /\ (k = c + 1 \/ c + 1 < k)
    BY <1>3
  <2> HIDE DEF K
  <2>3. at[c + 1] \in Written(p)
    BY <1>1, <2>2
  <2> QED BY <1>1, <1>2, <2>1, <2>2, <2>3
<1>5. c + 1 \in 1 .. F /\ Flow[1].size = file[p][c + 1]
  BY <1>1, <1>3, <1>4
<1>6. /\ \A l \in L : l \in K /\ c + 1 < l
      /\ \A k \in K : k = c + 1 \/ k \in L
      /\ \A l \in L : l \in Nat
  BY <1>3
<1> HIDE DEF K, L
<1>7. /\ \A j \in Written(p)' : j \in Nat /\ j >= 1 /\ j + 1 \in Written(p)
      /\ \A i \in Written(p) \ {1} : i - 1 \in Written(p)' /\ Flow'[i - 1] = Flow[i]
  <2>1. /\ \A i : i \in Written(p) <=>
                     i \in DOMAIN Flow /\ Flow[i].port = p /\ Flow[i].ev \in {"written"}
        /\ \A i : i \in Written(p)' <=>
                     i \in DOMAIN Flow' /\ Flow'[i].port = p /\ Flow'[i].ev \in {"written"}
    BY InFlightIs DEF Written
  <2> QED BY <2>1
<1>8. \A l \in L : at[l] \in Written(p) /\ at[l] \in Nat /\ at[l] > 1
  <2> TAKE l \in L
  <2>1. l \in K /\ at[c + 1] < at[l] /\ at[l] \in Written(p)
    BY <1>1, <1>4, <1>6
  <2> QED BY <1>2, <1>4, <2>1
<1> DEFINE to == [l \in L |-> at[l] - 1]
<1>9. /\ \A l \in L : to[l] = at[l] - 1 /\ to[l] \in Written(p)' /\ Flow'[to[l]] = Flow[at[l]]
      /\ to \in [L -> Written(p)']
  BY <1>7, <1>8
<1> HIDE DEF to
<1>10. \A l \in L : Flow'[to[l]].size = file[p][l]
  BY <1>1, <1>6, <1>9
<1>11. \A k, l \in L : k < l => to[k] < to[l]
  <2> TAKE k, l \in L
  <2> HAVE k < l
  <2>1. at[k] < at[l]
    BY <1>1, <1>6
  <2> QED BY <1>8, <1>9, <2>1
<1>12. \A j \in Written(p)' : \E l \in L : to[l] = j
  <2> TAKE j \in Written(p)'
  <2>1. PICK k \in K : at[k] = j + 1
    BY <1>1, <1>7
  <2>2. j + 1 # 1
    BY <1>7
  <2>3. k \in L
    BY <1>4, <1>6, <2>1, <2>2
  <2> QED BY <1>7, <1>9, <2>1, <2>3
<1>13. PICK way : /\ way \in [L -> Written(p)']
                  /\ \A l \in L : Flow'[way[l]].size = file[p][l]
                  /\ \A k, l \in L : k < l => way[k] < way[l]
                  /\ \A j \in Written(p)' : \E l \in L : way[l] = j
  BY <1>9, <1>10, <1>11, <1>12
<1>14. OnTheWay(p, c + 1, way)'
  BY <1>13 DEF OnTheWay, L, F
<1> QED BY <1>5, <1>14 DEF F

\* The loop parses an event: only its port is concerned.
LEMMA ParseOthers ==
    ASSUME AnswerInv, Parse, NEW q \in PortIds,
           q # Head(batch).port \/ Head(batch).ev = "signal"
    PROVE  PortOK(q)'
<1> DEFINE e == Head(batch)
<1>1. /\ QueueType /\ PortOK(q) /\ e.port \in PortIds /\ batch # <<>> /\ batch' = Tail(batch)
      /\ inject' = inject /\ accepted' = accepted /\ file' = file
      /\ port \in [PortIds -> PortRec]
  BY FirstEvent DEF AnswerInv, PortInv, Parse, Table, LoopType
<1>2. \/ Open(e.port) /\ Event(e)
      \/ UNCHANGED <<port, owned, res, got>>
  BY DEF Parse
<1> HIDE DEF e
<1>3. port'[q] = port[q] /\ res'[q] = res[q]
  <2>1. CASE UNCHANGED <<port, res>>
    BY <2>1
  <2>2. CASE Shut({e.port}) /\ q # e.port
    BY <2>2 DEF Shut
  <2>3. CASE /\ q # e.port /\ res' = res
             /\ \E r : port' = [port EXCEPT ![e.port] = r]
    BY <1>1, <2>3
  <2>4. ASSUME e.ev = "data", Event(e), q # e.port
        PROVE  res' = res /\ \E r : port' = [port EXCEPT ![e.port] = r]
    BY <2>4 DEF Event
  <2>5. ASSUME e.ev = "written", Event(e), q # e.port
        PROVE  res' = res /\ port'[q] = port[q]
    BY <1>1, <2>5 DEF Event
  <2>6. Event(e) => e.ev \in {"error", "eof", "data", "written", "signal"}
    BY DEF Event
  <2>7. ASSUME e.ev \in {"error", "eof"}, Event(e) PROVE Shut({e.port})
    BY <2>7 DEF Event
  <2>8. ASSUME e.ev = "signal", Event(e) PROVE UNCHANGED <<port, res>>
    BY <2>8 DEF Event
  <2>9. q # e.port \/ e.ev = "signal"
    BY DEF e
  <2> QED BY <1>2, <2>1, <2>2, <2>3, <2>4, <2>5, <2>6, <2>7, <2>8, <2>9
<1>4. Moved(q, Owing, [i \in DOMAIN Flow |-> i - 1])
  <2>1. q # e.port \/ e.ev \notin Owing
    BY DEF Owing, e
  <2> QED BY <1>1, <2>1, FlowParse DEF e
<1> QED BY <1>1, <1>3, <1>4, Kept DEF SameFor

\* ... which has its request answered, its bytes written, or is closed.
LEMMA ParseOwn ==
    ASSUME AnswerInv, Parse, NEW p \in PortIds, p = Head(batch).port
    PROVE  PortOK(p)'
<1> DEFINE e == Head(batch)
<1>1. /\ QueueType /\ PortOK(p) /\ batch # <<>> /\ batch' = Tail(batch)
      /\ inject' = inject /\ accepted' = accepted /\ file' = file
      /\ port \in [PortIds -> PortRec] /\ port[p] \in PortRec
  BY DEF AnswerInv, PortInv, Parse, Table, LoopType
<1>2. \/ Open(p) /\ Event(e)
      \/ ~Open(p) /\ UNCHANGED <<port, owned, res, got>>
  BY DEF Parse
<1>3. e.port = p /\ e \in Events
  BY FirstEvent, <1>1
<1>4. /\ 1 \in DOMAIN Flow /\ Flow[1] = e
      /\ \A i \in DOMAIN Flow' : i + 1 \in DOMAIN Flow /\ Flow'[i] = Flow[i + 1]
      /\ \A i \in DOMAIN Flow \ {1} : i - 1 \in DOMAIN Flow' /\ Flow'[i - 1] = Flow[i]
      /\ Fewer(p)
      /\ \A evs : e.ev \notin evs => Moved(p, evs, [i \in DOMAIN Flow |-> i - 1])
  BY <1>1, FlowParse
<1> HIDE DEF e
<1>5. \A i \in DOMAIN Flow' : i \in Nat /\ i >= 1
  <2>1. Tail(batch) \in Seq(Events)
    BY <1>1, FirstEvent
  <2>2. Flow' \in Seq(Events)
    BY <1>1, <2>1, ConcatProperties DEF QueueType, Flow
  <2> QED BY <2>2
<1>6. \A evs : InFlight(p, evs) = {} => InFlight(p, evs)' = {}
  BY <1>4 DEF Fewer
<1>7. \A evs : e.ev \in evs => 1 \in InFlight(p, evs)
  BY <1>3, <1>4, InFlightIs
<1>8. ASSUME ~Open(p), UNCHANGED <<port, res>> PROVE PortOK(p)'
  <2>1. NoneOK(p)'
    BY <1>1, <1>6, <1>8 DEF PortOK, NoneOK
  <2>2. KindOK(p)'
    BY <1>1, <1>6, <1>8 DEF PortOK, KindOK, Written
  <2>3. GoOK(p)' /\ ReadOK(p)' /\ PendingOK(p)'
    BY <1>1, <1>8 DEF PortOK, GoOK, ReadOK, PendingOK, Open
  <2>4. WriteOK(p)'
    <3>1. Done(p)' = Done(p)
      BY <1>1, <1>8 DEF Done
    <3>2. WriteOK(p)
      BY <1>1 DEF PortOK
    <3> HIDE DEF Done
    <3> QED BY <1>1, <1>6, <1>8, <3>1, <3>2 DEF WriteOK
  <2> QED BY <2>1, <2>2, <2>3, <2>4 DEF PortOK
<1>9. ASSUME Open(p), Shut({p}) PROVE PortOK(p)'
  <2>1. /\ port'[p] = [port[p] EXCEPT !.state = "closed"]
        /\ res'[p] = IF Stream(p) THEN [res[p] EXCEPT !.closing = TRUE] ELSE res[p]
    BY <1>9 DEF Shut
  <2> QED BY <1>1, <1>4, <1>9, <2>1, Closed
<1>10. ASSUME Open(p), e.ev = "data", port' = [port EXCEPT ![p].armed = FALSE], UNCHANGED res
       PROVE  PortOK(p)'
  <2>1. /\ port'[p].state = "open" /\ port'[p].kind = port[p].kind
        /\ port'[p].armed = FALSE
    BY <1>1, <1>10 DEF PortRec, Open
  <2>2. port[p].kind # "write"
    BY <1>1, <1>7, <1>10 DEF PortOK, KindOK
  <2>3. NoneOK(p)' /\ WriteOK(p)' /\ PendingOK(p)'
    BY <2>1, <2>2 DEF NoneOK, WriteOK, PendingOK
  <2>4. KindOK(p)'
    BY <1>1, <1>6, <1>10, <2>1, <2>2 DEF PortOK, KindOK, Written
  <2>5. GoOK(p)'
    BY <1>1, <1>10, <2>1 DEF PortOK, GoOK, Open
  <2>6. ReadOK(p)'
    <3> SUFFICES ASSUME port[p].kind = "read"
                 PROVE  res[p].ops = <<>> /\ Answers(p)' = {} /\ ~res[p].failed
      BY <1>10, <2>1 DEF ReadOK, Open
    <3>1. 1 \in Answers(p)
      BY <1>7, <1>10 DEF Answers
    <3>2. PICK i \in DOMAIN Flow :
             /\ res[p].ops = <<>> /\ Answers(p) = {i}
             /\ Flow[i].ev # "error" => ~res[p].failed
      BY <1>1, <1>10, <3>1 DEF PortOK, ReadOK
    <3>3. i = 1 /\ ~res[p].failed
      BY <1>4, <1>10, <3>1, <3>2
    <3>4. ASSUME NEW j \in Answers(p)' PROVE FALSE
      <4>1. j \in DOMAIN Flow' /\ j + 1 \in Answers(p)
        BY <1>4, <3>4, InFlightIs DEF Answers
      <4> QED BY <1>5, <3>2, <3>3, <4>1
    <3> QED BY <3>2, <3>3, <3>4
  <2> QED BY <2>3, <2>4, <2>5, <2>6 DEF PortOK
<1>11. ASSUME Open(p), e.ev = "written", UNCHANGED res,
              \/ port' = [port EXCEPT ![p].pending = port[p].pending - e.size, ![p].promise = FALSE]
              \/ port' = [port EXCEPT ![p].pending = port[p].pending - e.size]
       PROVE  PortOK(p)'
  <2>1. /\ port'[p].state = "open" /\ port'[p].kind = port[p].kind
        /\ port'[p].pending = port[p].pending - e.size /\ port'[p].armed = port[p].armed
    BY <1>1, <1>11 DEF PortRec, Open
  <2>2. port[p].kind = "write" /\ 1 \in Written(p)
    BY <1>1, <1>7, <1>11 DEF PortOK, KindOK, Written
  <2>3. NoneOK(p)' /\ ReadOK(p)'
    BY <2>1, <2>2 DEF NoneOK, ReadOK
  <2>4. KindOK(p)'
    BY <1>1, <1>6, <1>11, <2>1, <2>2 DEF PortOK, KindOK
  <2>5. GoOK(p)'
    BY <1>1, <1>11, <2>1 DEF PortOK, GoOK, Open
  <2>6. WriteOK(p)'
    <3>1. Done(p)' = Done(p)
      BY <1>1, <1>11 DEF Done
    <3>2. WriteOK(p)
      BY <1>1 DEF PortOK
    <3>3. InFlight(p, {"error"})' # {} => InFlight(p, {"error"}) # {}
      BY <1>6
    <3>4. res' = res
      BY <1>11
    <3> HIDE DEF Done
    <3> QED BY <1>1, <2>1, <3>1, <3>2, <3>3, <3>4 DEF WriteOK
  <2>7. PendingOK(p)'
    <3>1. PICK c, sum, at :
             /\ c \in 0 .. Len(file[p])
             /\ Sums(accepted[p], sum) /\ OnTheWay(p, c, at)
             /\ port[p].pending = sum[Len(accepted[p])] - sum[c]
      BY <1>1, <1>11, <2>2 DEF PortOK, PendingOK
    <3>2. /\ Len(file[p]) \in Nat /\ Len(accepted[p]) \in Nat /\ Len(file[p]) <= Len(accepted[p])
          /\ DOMAIN accepted[p] = 1 .. Len(accepted[p]) /\ DOMAIN file[p] = 1 .. Len(file[p])
          /\ \A i \in DOMAIN file[p] : file[p][i] = accepted[p][i]
      <4> DEFINE f == Len(file[p])
                 w == Len(accepted[p])
                 o == Len(res[p].ops)
      <4>1. WriteOK(p) /\ o \in Nat /\ w \in Nat /\ f \in Nat
        BY <1>1, PortTypes DEF PortOK
      <4>2. f <= w - o
        BY <2>2, <4>1 DEF WriteOK, Done
      <4> HIDE DEF f, w, o
      <4>3. f <= w
        BY <4>1, <4>2
      <4> QED BY <2>2, <4>1, <4>3, PortTypes DEF WriteOK, f, w
    <3>3. /\ c + 1 \in 1 .. Len(file[p]) /\ e.size = file[p][c + 1]
          /\ \E to : OnTheWay(p, c + 1, to)'
      BY <1>1, <1>4, <1>5, <2>2, <3>1, <3>2, WayFirst
    <3>4. PICK to : OnTheWay(p, c + 1, to)'
      BY <3>3
    <3>5. sum[c + 1] = sum[c] + e.size
      <4>1. c + 1 \in DOMAIN accepted[p] /\ e.size = accepted[p][c + 1] /\ (c + 1) - 1 = c
        BY <3>1, <3>2, <3>3
      <4> QED BY <3>1, <4>1 DEF Sums
    <3>6. sum[c] \in Nat /\ sum[c + 1] \in Nat /\ sum[Len(accepted[p])] \in Nat
      <4>1. /\ c \in 0 .. Len(accepted[p]) /\ c + 1 \in 0 .. Len(accepted[p])
            /\ Len(accepted[p]) \in 0 .. Len(accepted[p])
        BY <3>1, <3>2, <3>3
      <4> QED BY <3>1, <4>1 DEF Sums
    <3>7. e.size \in Nat
      <4>1. e.size \in Sizes \cup {0}
        BY <1>3 DEF Events
      <4> QED BY <4>1, Bounds
    <3>8. port'[p].pending = sum[Len(accepted[p])] - sum[c + 1]
      BY <2>1, <3>1, <3>5, <3>6, <3>7
    <3>9. c + 1 \in 0 .. Len(file[p])
      BY <3>3
    <3> QED BY <1>1, <3>1, <3>4, <3>8, <3>9 DEF PendingOK
  <2> QED BY <2>3, <2>4, <2>5, <2>6, <2>7 DEF PortOK
<1>12. CASE e.ev = "signal"
  BY <1>12, ParseOthers DEF e
<1>13. ASSUME Open(p), Event(e), e.ev # "signal" PROVE PortOK(p)'
  <2>1. CASE e.ev \in {"error", "eof"}
    BY <1>3, <1>9, <1>13, <2>1 DEF Event
  <2>2. CASE e.ev = "data"
    BY <1>3, <1>10, <1>13, <2>2 DEF Event
  <2>3. CASE e.ev = "written"
    BY <1>3, <1>11, <1>13, <2>3 DEF Event
  <2> QED BY <1>13, <2>1, <2>2, <2>3 DEF Event
<1> QED BY <1>2, <1>8, <1>12, <1>13

-----------------------------------------------------------------------------
(* The whole system. *)

\* No port is open at the start.
LEMMA InitAnswerInv == Init => AnswerInv
<1> SUFFICES ASSUME Init PROVE AnswerInv
  OBVIOUS
<1>1. PortInv
  BY InitPortInv
<1>2. HistoryType
  BY DEF Init, HistoryType
<1>3. ASSUME NEW p \in PortIds PROVE PortOK(p)
  <2>1. /\ port[p].state = "none" /\ port[p].kind = "read" /\ ~Open(p)
        /\ res[p] = NoRes /\ accepted[p] = <<>> /\ file[p] = <<>>
    BY DEF Init, NoPort, Open
  <2>2. Flow = <<>>
    BY DEF Init, Flow
  <2>3. \A evs : InFlight(p, evs) = {}
    BY <2>2, InFlightIs
  <2>4. NoneOK(p) /\ KindOK(p) /\ GoOK(p)
    BY <2>1, <2>3 DEF NoneOK, KindOK, GoOK, Written, NoRes
  <2>5. ReadOK(p) /\ WriteOK(p) /\ PendingOK(p)
    BY <2>1 DEF ReadOK, WriteOK, PendingOK
  <2> QED BY <2>4, <2>5 DEF PortOK
<1>4. EndOK
  BY DEF Init, EndOK
<1> QED BY <1>1, <1>2, <1>3, <1>4 DEF AnswerInv

\* No step breaks what is known of one port.
LEMMA NextPortOK ==
    ASSUME AnswerInv, [Next]_vars
    PROVE  \A q \in PortIds : PortOK(q)'
<1>1. ASSUME NEW a \in Actors, Native(a) PROVE \A q \in PortIds : PortOK(q)'
  <2>1. ASSUME NEW p \in PortIds, ClosePort(a, p) PROVE \A q \in PortIds : PortOK(q)'
    BY <2>1, ShutAnswers DEF ClosePort
  <2>2. CASE Die(a)
    BY <2>2, ShutAnswers DEF Die
  <2> QED BY <1>1, <2>1, <2>2, OpenAnswers, RequestAnswers, WriteAnswers, GiveAnswers
          DEF Native
<1>2. CASE Take
  BY <1>2, Quiet DEF Take, portVars, resVars, SameFor
<1>3. CASE Parse
  BY <1>3, ParseOthers, ParseOwn
<1>4. CASE Leave
  BY <1>4, ShutAnswers DEF Leave
<1>5. CASE Over \/ Stopped \/ UNCHANGED vars
  <2>1. UNCHANGED <<batch, inject, port, res, accepted, file>>
    BY <1>5 DEF Over, Stopped, vars, portVars, resVars
  <2> QED BY <2>1, Quiet DEF SameFor
<1>6. ASSUME NEW p \in PortIds, Go(p) \/ Signal(p) PROVE \A q \in PortIds : PortOK(q)'
  BY <1>6, SilentAnswers, DropAnswers, DoAnswers, SignalAnswers DEF Go
<1> QED BY <1>1, <1>2, <1>3, <1>4, <1>5, <1>6 DEF Next

\* The histories keep their types: an answer is written once it was accepted.
LEMMA NextHistory ==
    ASSUME AnswerInv, [Next]_vars
    PROVE  HistoryType'
<1>1. HistoryType /\ res \in [PortIds -> ResRec]
  BY DEF AnswerInv, PortInv, GoType
<1>2. accepted' \in [PortIds -> Seq(Sizes)]
  <2>1. ASSUME NEW a \in Actors, Native(a)
        PROVE  \/ accepted' = accepted
               \/ \E p \in PortIds, n \in Sizes : WritePort(a, p, n)
    BY <2>1 DEF Native, OpenPort, Request, Give, ClosePort, Die
  <2>2. ASSUME NEW a \in Actors, NEW p \in PortIds, NEW n \in Sizes, WritePort(a, p, n)
        PROVE  accepted' \in [PortIds -> Seq(Sizes)]
    <3>1. Append(accepted[p], n) \in Seq(Sizes)
      BY <1>1, AppendProperties DEF HistoryType
    <3>2. accepted' = accepted \/ accepted' = [accepted EXCEPT ![p] = Append(accepted[p], n)]
      BY <2>2 DEF WritePort
    <3> QED BY <1>1, <3>1, <3>2 DEF HistoryType
  <2>3. ASSUME NEW p \in PortIds, Go(p) \/ Signal(p) PROVE accepted' = accepted
    BY <2>3 DEF Go, OpenFile, NextOp, DropOp, DoOp, CloseFile, Signal, GoUnchanged, portVars
  <2>4. CASE Take \/ Parse \/ Leave \/ Over \/ Stopped \/ UNCHANGED vars
    BY <1>1, <2>4 DEF Take, Parse, Leave, Over, Stopped, vars, portVars, HistoryType
  <2> QED BY <1>1, <2>1, <2>2, <2>3, <2>4 DEF HistoryType, Next
<1>3. file' \in [PortIds -> Seq(Sizes)]
  <2>1. \/ file' = file
        \/ \E p \in PortIds : DoOp(p)
    BY DEF Next, Native, OpenPort, Request, WritePort, Give, ClosePort, Die, Take, Parse,
           Leave, Over, Stopped, vars, resVars, Go, OpenFile, NextOp, DropOp, CloseFile, Signal
  <2>2. ASSUME NEW p \in PortIds, DoOp(p)
        PROVE  \/ file' = file
               \/ \E n \in Sizes : file' = [file EXCEPT ![p] = Append(@, n)]
    <3>1. res[p].ops # <<>> /\ res[p].ops \in Seq(Ops)
      BY <2>2, PortTypes DEF DoOp, AnswerInv, PortInv, GoType
    <3> DEFINE op == Head(res[p].ops)
    <3>2. op \in Ops
      BY <3>1
    <3>3. file' = file \/ (~op.read /\ file' = [file EXCEPT ![p] = Append(@, op.size)])
      BY <2>2 DEF DoOp
    <3> HIDE DEF op
    <3>4. ~op.read => op.size \in Sizes
      <4>1. CASE op = [read |-> TRUE, size |-> 0]
        BY <4>1
      <4>2. CASE op \in [read : {FALSE}, size : Sizes]
        BY <4>2
      <4> QED BY <3>2, <4>1, <4>2 DEF Ops
    <3> QED BY <3>3, <3>4
  <2>3. ASSUME NEW p \in PortIds, NEW n \in Sizes, file' = [file EXCEPT ![p] = Append(@, n)]
        PROVE  file' \in [PortIds -> Seq(Sizes)]
    <3>1. Append(file[p], n) \in Seq(Sizes)
      BY <1>1, AppendProperties DEF HistoryType
    <3> QED BY <1>1, <2>3, <3>1 DEF HistoryType
  <2> QED BY <1>1, <2>1, <2>2, <2>3 DEF HistoryType
<1>4. stage' \in {"run", "finishing", "over"}
  <2>1. stage' \in {stage, "finishing", "over"}
    BY DEF Next, Native, OpenPort, Request, WritePort, Give, ClosePort, Die, Take, Parse,
           Leave, Over, Stopped, vars, Go, OpenFile, NextOp, DropOp, DoOp, CloseFile,
           Signal, GoUnchanged
  <2> QED BY <1>1, <2>1 DEF HistoryType
<1> QED BY <1>2, <1>3, <1>4 DEF HistoryType

\* The end: no port is opened any more, and what is closed stays so.
LEMMA NextEnd ==
    ASSUME AnswerInv, [Next]_vars
    PROVE  EndOK'
<1>1. /\ EndOK /\ HistoryType /\ res \in [PortIds -> ResRec] /\ port \in [PortIds -> PortRec]
  BY DEF AnswerInv, PortInv, GoType, Table, LoopType
<1>2. CASE stage = "run" /\ stage' = "run"
  BY <1>2 DEF EndOK
<1>3. CASE Leave
  <2>1. \A p \in PortIds : ~Open(p)'
    <3> TAKE p \in PortIds
    <3>1. port'[p] = IF Open(p) THEN [port[p] EXCEPT !.state = "closed"] ELSE port[p]
      BY <1>3 DEF Leave, Shut
    <3> QED BY <1>1, <3>1 DEF Open, PortRec
  <2>2. stage' = "finishing"
    BY <1>3 DEF Leave
  <2> QED BY <2>1, <2>2 DEF EndOK
<1>4. CASE Over
  BY <1>1, <1>4 DEF EndOK, Over, portVars, resVars, Open
<1>5. ASSUME NEW p \in PortIds, Go(p) \/ Signal(p) PROVE EndOK'
  <2>1. stage' = stage /\ port' = port
    BY <1>5 DEF Go, OpenFile, NextOp, DropOp, DoOp, CloseFile, Signal, GoUnchanged, portVars
  <2>2. ASSUME stage = "over", NEW q \in PortIds, res'[q].closing PROVE res'[q].at = "gone"
    <3>1. CASE res'[q] = res[q]
      BY <1>1, <2>1, <2>2, <3>1 DEF EndOK
    <3>2. CASE q = p /\ Go(p)
      <4>1. res[p].closing => res[p].at = "gone"
        BY <1>1, <2>2, <3>2 DEF EndOK
      <4>2. res[p].at # "gone" /\ res'[p].closing = res[p].closing
        <5>1. res[p] \in ResRec
          BY <1>1
        <5>2. ASSUME NEW bad, res' = [res EXCEPT ![p].at = "wait", ![p].failed = bad,
                                                 ![p].err = bad]
              PROVE  res'[p].closing = res[p].closing
          BY <1>1, <5>1, <5>2 DEF ResRec
        <5>5. CASE OpenFile(p)
          BY <5>2, <5>5 DEF OpenFile
        <5>6. CASE NextOp(p)
          BY <1>1, <5>1, <5>6 DEF NextOp, ResRec
        <5>7. CASE CloseFile(p)
          BY <1>1, <5>1, <5>7 DEF CloseFile, ResRec
        <5>3. CASE DropOp(p)
          BY <1>1, <5>1, <5>3 DEF DropOp, ResRec
        <5>4. CASE DoOp(p)
          <6> DEFINE rest == [res[p] EXCEPT !.at = "wait", !.ops = Tail(@)]
          <6>1. /\ rest.closing = res[p].closing
                /\ [rest EXCEPT !.failed = TRUE].closing = res[p].closing
            BY <5>1 DEF ResRec
          <6>2. /\ res[p].at # "gone"
                /\ \/ res' = [res EXCEPT ![p] = rest]
                   \/ res' = [res EXCEPT ![p] = [rest EXCEPT !.failed = TRUE]]
            BY <5>4 DEF DoOp
          <6> HIDE DEF rest
          <6> QED BY <1>1, <6>1, <6>2
        <5> QED BY <3>2, <5>3, <5>4, <5>5, <5>6, <5>7 DEF Go
      <4> QED BY <2>2, <3>2, <4>1, <4>2
    <3>3. CASE q # p /\ Go(p)
      <4>1. res'[q] = res[q]
        BY <1>1, <3>3 DEF Go, OpenFile, NextOp, DropOp, DoOp, CloseFile
      <4> QED BY <3>1, <4>1
    <3>4. Signal(p) => res' = res
      BY DEF Signal, resVars
    <3> QED BY <1>5, <3>1, <3>2, <3>3, <3>4
  <2> QED BY <1>1, <2>1, <2>2 DEF EndOK, Open
<1>6. ASSUME NEW a \in Actors, Native(a) PROVE stage = "run" /\ stage' = stage
  BY <1>6 DEF Native, OpenPort, Request, WritePort, Give, ClosePort, Die, Runs
<1>7. CASE Take \/ Parse
  BY <1>2, <1>7 DEF Take, Parse
<1>8. CASE Stopped \/ UNCHANGED vars
  BY <1>1, <1>8 DEF EndOK, Stopped, vars, portVars, resVars, Open
<1> QED BY <1>2, <1>3, <1>4, <1>5, <1>6, <1>7, <1>8 DEF Next

\* The invariant of the answers is inductive.
LEMMA NextAnswerInv == AnswerInv /\ [Next]_vars => AnswerInv'
<1> SUFFICES ASSUME AnswerInv, [Next]_vars PROVE AnswerInv'
  OBVIOUS
<1>1. PortInv'
  BY NextPortInv DEF AnswerInv
<1> QED BY <1>1, NextPortOK, NextHistory, NextEnd DEF AnswerInv

\* It holds in every state of a run.
LEMMA AlwaysAnswerInv == Spec => []AnswerInv
BY InitAnswerInv, NextAnswerInv, PTL DEF Spec

-----------------------------------------------------------------------------
(* What the runs check. *)

\* The requests that the goroutine of a port has not taken off its queue.
Requests(p) == Queued(p, TRUE)

\* An armed port to read from has exactly one request under way, as an
\* operation its goroutine has not done or as the one event that answers it, and
\* a port that is not armed has none (Port.request, docs/01 12.12).
THEOREM AnswersCorrect == Spec => []OneAnswerPerRequest
<1>1. AnswerInv => OneAnswerPerRequest
  <2> SUFFICES ASSUME AnswerInv, NEW p \in PortIds, Open(p), port[p].kind = "read"
               PROVE  Cardinality(Requests(p)) + Cardinality(Answers(p))
                        = IF port[p].armed THEN 1 ELSE 0
    BY DEF OneAnswerPerRequest, Answers, Requests
  <2>1. ReadOK(p) /\ \A j \in DOMAIN res[p].ops : res[p].ops[j].read = TRUE
    BY DEF AnswerInv, PortOK, KindOK
  <2>2. Requests(p) = 1 .. Len(res[p].ops)
    BY <2>1, PortTypes DEF Queued, Requests
  <2>3. CASE port[p].armed /\ Len(res[p].ops) = 1 /\ Answers(p) = {}
    <3>1. Requests(p) = {1}
      BY <2>2, <2>3
    <3>2. Cardinality(Requests(p)) = 1
      BY <3>1, FS_Singleton
    <3>3. Cardinality(Answers(p)) = 0
      BY <2>3, FS_EmptySet
    <3> QED BY <2>3, <3>2, <3>3
  <2>4. ASSUME NEW i, port[p].armed, res[p].ops = <<>>, Answers(p) = {i}
        PROVE  Cardinality(Requests(p)) + Cardinality(Answers(p)) = 1
    <3>1. Requests(p) = {}
      BY <2>2, <2>4
    <3>2. Cardinality(Answers(p)) = 1
      BY <2>4, FS_Singleton
    <3> QED BY <3>1, <3>2, FS_EmptySet
  <2>5. CASE ~port[p].armed /\ res[p].ops = <<>> /\ Answers(p) = {}
    <3>1. Requests(p) = {}
      BY <2>2, <2>5
    <3> QED BY <2>5, <3>1, FS_EmptySet
  <2> QED BY <2>1, <2>3, <2>4, <2>5 DEF ReadOK
<1> QED BY <1>1, AlwaysAnswerInv, PTL

\* While an open port has an operation or an answer under way, the loop counts it
\* among those that may still say something: a program that waits for it is
\* never taken for one that is finished or deadlocked (openPort.live).
THEOREM LiveCorrect == Spec => []LiveWhileOwed
<1>1. AnswerInv => LiveWhileOwed
  <2> SUFFICES ASSUME AnswerInv, NEW p \in PortIds, Open(p), port[p].kind # "signal",
                      res[p].ops # <<>> \/ InFlight(p, Owing) # {}
               PROVE  port[p].armed \/ port[p].pending > 0
    BY DEF LiveWhileOwed, Live, Owing
  <2>1. PortOK(p) /\ port[p].kind \in {"read", "write"}
    BY PortTypes DEF AnswerInv, PortRec
  <2>2. InFlight(p, Owing) # {} =>
           InFlight(p, {"data", "eof"}) # {} \/ InFlight(p, {"error"}) # {} \/ Written(p) # {}
    BY InFlightIs DEF Owing, Written
  <2>3. InFlight(p, {"data", "eof"}) # {} \/ InFlight(p, {"error"}) # {} => Answers(p) # {}
    BY InFlightIs DEF Answers
  <2>4. CASE port[p].kind = "read"
    BY <2>1, <2>2, <2>3, <2>4 DEF PortOK, KindOK, ReadOK
  <2>5. CASE port[p].kind = "write"
    <3>1. PICK c, sum, at :
             /\ c \in 0 .. Len(file[p])
             /\ Sums(accepted[p], sum) /\ OnTheWay(p, c, at)
             /\ port[p].pending = sum[Len(accepted[p])] - sum[c]
      BY <2>1, <2>5 DEF PortOK, PendingOK
    <3> DEFINE f == Len(file[p])
               w == Len(accepted[p])
               o == Len(res[p].ops)
    <3>2. f \in Nat /\ w \in Nat /\ o \in Nat /\ (res[p].ops # <<>> => o > 0)
      BY PortTypes
    <3>3. /\ f <= w - o /\ c \in 0 .. f
          /\ InFlight(p, {"error"}) # {} => f < w - o
      BY <2>1, <2>5, <3>1 DEF PortOK, WriteOK, Done
    <3>4. c < w /\ w \in Nat
      <4>1. Written(p) # {} => \E k \in (c + 1) .. f : TRUE
        BY <3>1 DEF OnTheWay
      <4>2. InFlight(p, {"data", "eof"}) = {}
        BY <2>1, <2>5 DEF PortOK, KindOK
      <4> HIDE DEF f, w, o
      <4>3. CASE res[p].ops # <<>>
        BY <3>2, <3>3, <4>3
      <4>4. CASE InFlight(p, {"error"}) # {}
        BY <3>2, <3>3, <4>4
      <4>5. CASE Written(p) # {}
        BY <3>2, <3>3, <4>1, <4>5
      <4> QED BY <2>2, <3>2, <4>2, <4>3, <4>4, <4>5
    <3>5. c \in 0 .. Len(accepted[p]) /\ Len(accepted[p]) \in 0 .. Len(accepted[p])
      BY <3>1, <3>2, <3>4
    <3>6. /\ sum[c] \in Nat /\ sum[Len(accepted[p])] \in Nat
          /\ sum[c] < sum[Len(accepted[p])]
      BY <3>1, <3>4, <3>5 DEF Sums
    <3> QED BY <3>1, <3>6
  <2> QED BY <2>1, <2>4, <2>5
<1> QED BY <1>1, AlwaysAnswerInv, PTL

\* What Port.write accepted stands in the file in that order, and all of it when
\* the program is over, unless the resource failed (writes go on after a close,
\* and closing.Wait waits for them).
THEOREM WritesCorrect == Spec => []AcceptedIsWritten
<1>1. AnswerInv => AcceptedIsWritten
  <2> SUFFICES ASSUME AnswerInv, NEW p \in PortIds
               PROVE  /\ IsPrefix(file[p], accepted[p])
                      /\ stage = "over" /\ ~res[p].failed => file[p] = accepted[p]
    BY DEF AcceptedIsWritten
  <2>1. /\ PortOK(p) /\ EndOK /\ HistoryType
        /\ file[p] \in Seq(Sizes) /\ accepted[p] \in Seq(Sizes)
        /\ Len(accepted[p]) \in Nat /\ Len(file[p]) \in Nat /\ Len(res[p].ops) \in Nat
        /\ DOMAIN file[p] = 1 .. Len(file[p]) /\ DOMAIN accepted[p] = 1 .. Len(accepted[p])
    BY PortTypes DEF AnswerInv
  <2>2. CASE port[p].kind # "write"
    <3>1. file[p] = <<>> /\ accepted[p] = <<>>
      BY <2>1, <2>2 DEF PortOK, KindOK
    <3> QED BY <3>1 DEF IsPrefix
  <2>3. CASE port[p].kind = "write"
    <3>1. /\ Len(file[p]) <= Len(accepted[p]) - Len(res[p].ops)
          /\ ~res[p].failed => Len(file[p]) = Len(accepted[p]) - Len(res[p].ops)
          /\ \A i \in DOMAIN file[p] : file[p][i] = accepted[p][i]
      BY <2>1, <2>3 DEF PortOK, WriteOK, Done
    <3>2. Len(file[p]) <= Len(accepted[p])
      <4> DEFINE f == Len(file[p])
                 w == Len(accepted[p])
                 o == Len(res[p].ops)
      <4>1. f \in Nat /\ w \in Nat /\ o \in Nat /\ f <= w - o
        BY <2>1, <3>1
      <4> HIDE DEF f, w, o
      <4>2. f <= w
        BY <4>1
      <4> QED BY <4>2 DEF f, w
    <3>3. IsPrefix(file[p], accepted[p])
      BY <2>1, <3>1, <3>2 DEF IsPrefix
    <3>4. ASSUME stage = "over", ~res[p].failed PROVE file[p] = accepted[p]
      <4>1. port[p].state = "none" => res[p].ops = <<>>
        BY <2>1 DEF PortOK, NoneOK, NoRes
      <4>2. port[p].state = "closed" => res[p].closing
        BY <2>1, <2>3 DEF PortOK, GoOK
      <4>3. res[p].closing => res[p].ops = <<>>
        BY <2>1, <3>4 DEF PortOK, GoOK, EndOK
      <4>4. port[p].state \in {"none", "closed"}
        <5>1. ~Open(p) /\ port[p] \in PortRec
          BY <2>1, <3>4, PortTypes DEF EndOK
        <5> QED BY <5>1 DEF Open, PortRec
      <4>5. Len(file[p]) = Len(accepted[p])
        <5>1. res[p].ops = <<>>
          BY <4>1, <4>2, <4>3, <4>4
        <5>2. Len(res[p].ops) = 0
          BY <5>1
        <5> QED BY <2>1, <3>1, <3>4, <5>2
      <4> QED BY <2>1, <3>1, <4>5
    <3> QED BY <3>3, <3>4
  <2> QED BY <2>2, <2>3
<1> QED BY <1>1, AlwaysAnswerInv, PTL
=============================================================================
