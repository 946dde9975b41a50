---------------------------- MODULE UnwindProofs ----------------------------
(* Unwind implements EnsureStack, for any bounds: whichever way an actor    *)
(* leaves its blocks, the ensures it owes are in order along its stack (the *)
(* numbers grow from frame to frame, and in a frame from the cleanups over  *)
(* its blocks), what lies above the place where control lands owes nothing, *)
(* and so the ensure that starts there is the newest of all.  After a       *)
(* signal, control lands only in frames above an ensure that started late.  *)
EXTENDS Unwind, TLAPS, FunctionTheorems, FiniteSetTheorems, SequenceTheorems,
        WellFoundedInduction

-----------------------------------------------------------------------------
(* Sequences. *)

\* The numbers of a list grow.
Increasing(s) == \A m, n \in DOMAIN s : m < n => s[m] < s[n]

\* Every number of S is less than every number of T.
Precedes(S, T) == \A a \in S, b \in T : a < b

\* The stack s up to its frame k, with g in the place of frame k.
Cut(s, k, g) == Append(SubSeq(s, 1, k - 1), g)

\* The set of a sequence is that of its elements.
LEMMA SetOfSeq ==
  ASSUME NEW S, NEW s \in Seq(S)
  PROVE  /\ ToSet(s) = {s[i] : i \in 1 .. Len(s)} /\ ToSet(s) \subseteq S
         /\ DOMAIN s = 1 .. Len(s) /\ Len(s) \in Nat
         /\ \A i \in 1 .. Len(s) : s[i] \in S /\ s[i] \in ToSet(s)
         /\ \A x \in ToSet(s) : \E i \in 1 .. Len(s) : x = s[i]
BY DEF ToSet

\* An empty list has no elements.
LEMMA SetOfEmpty == ToSet(<<>>) = {}
BY DEF ToSet

\* Appending an element adds it to the set.
LEMMA SetOfAppend ==
  ASSUME NEW S, NEW s \in Seq(S), NEW e \in S
  PROVE  ToSet(Append(s, e)) = ToSet(s) \cup {e}
<1>1. Append(s, e) \in Seq(S) /\ Len(Append(s, e)) = Len(s) + 1
  OBVIOUS
<1>2. /\ \A i \in 1 .. Len(s) : Append(s, e)[i] = s[i]
      /\ Append(s, e)[Len(s) + 1] = e
  OBVIOUS
<1>3. /\ ToSet(s) = {s[i] : i \in 1 .. Len(s)}
      /\ ToSet(Append(s, e)) = {Append(s, e)[i] : i \in 1 .. Len(s) + 1}
  BY <1>1, SetOfSeq
<1> QED BY <1>2, <1>3

\* The set of two lists put together.
LEMMA SetOfConcat ==
  ASSUME NEW S, NEW s \in Seq(S), NEW t \in Seq(S)
  PROVE  ToSet(s \o t) = ToSet(s) \cup ToSet(t)
<1>1. s \o t \in Seq(S) /\ Len(s \o t) = Len(s) + Len(t)
  OBVIOUS
<1>2. /\ \A i \in 1 .. Len(s) : (s \o t)[i] = s[i]
      /\ \A i \in 1 .. Len(t) : (s \o t)[Len(s) + i] = t[i]
  OBVIOUS
<1>0. /\ ToSet(s) = {s[i] : i \in 1 .. Len(s)}
      /\ ToSet(t) = {t[i] : i \in 1 .. Len(t)}
      /\ ToSet(s \o t) = {(s \o t)[i] : i \in 1 .. Len(s \o t)}
  BY <1>1, SetOfSeq
<1>3. ASSUME NEW x \in ToSet(s \o t) PROVE x \in ToSet(s) \cup ToSet(t)
  <2>1. PICK i \in 1 .. Len(s \o t) : x = (s \o t)[i]
    BY <1>0
  <2>2. CASE i <= Len(s)
    BY <1>2, <2>1, <2>2, <1>0
  <2>3. CASE i > Len(s)
    <3>1. i - Len(s) \in 1 .. Len(t) /\ Len(s) + (i - Len(s)) = i
      BY <1>1, <2>1, <2>3
    <3>2. x = t[i - Len(s)]
      BY <1>2, <2>1, <3>1
    <3> QED BY <3>1, <3>2, <1>0
  <2> QED BY <2>1, <2>2, <2>3, <1>1
<1>4. ASSUME NEW x \in ToSet(s) PROVE x \in ToSet(s \o t)
  BY <1>1, <1>2, <1>0
<1>5. ASSUME NEW x \in ToSet(t) PROVE x \in ToSet(s \o t)
  <2>1. PICK i \in 1 .. Len(t) : x = t[i]
    BY <1>0
  <2>2. Len(s) + i \in 1 .. Len(s \o t)
    BY <1>1, <2>1
  <2> QED BY <1>1, <1>2, <2>1, <2>2, <1>0
<1> QED BY <1>3, <1>4, <1>5

\* The front of a list.
LEMMA FrontIs ==
  ASSUME NEW S, NEW s \in Seq(S), s # <<>>
  PROVE  /\ Front(s) \in Seq(S) /\ Len(Front(s)) = Len(s) - 1
         /\ \A i \in 1 .. Len(s) - 1 : Front(s)[i] = s[i]
<1>1. Len(s) \in Nat \ {0}
  OBVIOUS
<1>2. Front(s) \in Seq(S) /\ Len(Front(s)) = Len(s) - 1
  <2>1. Len(s) - 1 \in Int /\ 1 \in Int /\ \A i \in 1 .. Len(s) - 1 : s[i] \in S
    BY <1>1
  <2>2. SubSeq(s, 1, Len(s) - 1) \in Seq(S)
        /\ Len(SubSeq(s, 1, Len(s) - 1)) =
              IF 1 <= Len(s) - 1 THEN (Len(s) - 1) - 1 + 1 ELSE 0
    BY <2>1, SubSeqProperties
  <2>3. Front(s) = SubSeq(s, 1, Len(s) - 1)
    BY Zenon DEF Front
  <2>4. Front(s) \in Seq(S)
    BY <2>2, <2>3, Zenon
  <2>5. Len(Front(s)) = IF 1 <= Len(s) - 1 THEN (Len(s) - 1) - 1 + 1 ELSE 0
    BY <2>2, <2>3, Zenon
  <2>6. \A n \in Nat \ {0} : (IF 1 <= n - 1 THEN (n - 1) - 1 + 1 ELSE 0) = n - 1
    OBVIOUS
  <2>7. Len(Front(s)) = Len(s) - 1
    BY <1>1, <2>5, <2>6, Zenon
  <2> QED BY <2>4, <2>7, Zenon
<1>3. \A i \in 1 .. Len(s) - 1 : Front(s)[i] = s[i]
  BY <1>1 DEF Front
<1> QED BY <1>2, <1>3

\* Taking the last of a growing list leaves a growing list of smaller numbers.
LEMMA FrontAndLast ==
  ASSUME NEW S \in SUBSET Nat, NEW s \in Seq(S), s # <<>>, Increasing(s)
  PROVE  /\ Front(s) \in Seq(S) /\ Len(Front(s)) = Len(s) - 1
         /\ Increasing(Front(s))
         /\ Last(s) \in S
         /\ ToSet(s) = ToSet(Front(s)) \cup {Last(s)}
         /\ \A x \in ToSet(Front(s)) : x < Last(s)
<1>1. Len(s) \in Nat \ {0}
  OBVIOUS
<1>2. Front(s) \in Seq(S) /\ Len(Front(s)) = Len(s) - 1
  BY FrontIs
<1>3. \A i \in 1 .. Len(s) - 1 : Front(s)[i] = s[i]
  BY FrontIs
<1>4. Last(s) = s[Len(s)] /\ Last(s) \in S
  BY <1>1 DEF Last
<1>5. Increasing(Front(s))
  BY <1>1, <1>2, <1>3 DEF Increasing
<1>6. ASSUME NEW x \in ToSet(Front(s)) PROVE x < Last(s) /\ x \in ToSet(s)
  <2>1. PICK i \in 1 .. Len(s) - 1 : x = s[i]
    BY <1>2, <1>3, SetOfSeq
  <2> QED BY <1>1, <1>4, <2>1, SetOfSeq DEF Increasing
<1>7. ASSUME NEW x \in ToSet(s), x # Last(s) PROVE x \in ToSet(Front(s))
  <2>1. PICK i \in 1 .. Len(s) : x = s[i]
    BY SetOfSeq
  <2>2. i \in 1 .. Len(s) - 1
    BY <1>1, <1>4, <1>7, <2>1
  <2> QED BY <1>2, <1>3, <2>1, <2>2, SetOfSeq
<1>8. Last(s) \in ToSet(s)
  BY <1>1, <1>4, SetOfSeq
<1> QED BY <1>2, <1>4, <1>5, <1>6, <1>7, <1>8

\* A growing list can be extended by a greater number.
LEMMA IncreasingAppend ==
  ASSUME NEW S \in SUBSET Nat, NEW s \in Seq(S), Increasing(s), NEW e \in S,
         \A x \in ToSet(s) : x < e
  PROVE  Increasing(Append(s, e))
<1>1. Append(s, e) \in Seq(S) /\ Len(Append(s, e)) = Len(s) + 1
  OBVIOUS
<1>2. /\ \A i \in 1 .. Len(s) : Append(s, e)[i] = s[i]
      /\ Append(s, e)[Len(s) + 1] = e
  OBVIOUS
<1>3. \A i \in 1 .. Len(s) : s[i] < e
  BY SetOfSeq
<1> QED BY <1>1, <1>2, <1>3 DEF Increasing

\* Two growing lists, the first below the second, make a growing list.
LEMMA IncreasingConcat ==
  ASSUME NEW S \in SUBSET Nat, NEW s \in Seq(S), NEW t \in Seq(S),
         Increasing(s), Increasing(t), Precedes(ToSet(s), ToSet(t))
  PROVE  Increasing(s \o t)
<1>1. s \o t \in Seq(S) /\ Len(s \o t) = Len(s) + Len(t)
  OBVIOUS
<1>2. /\ \A i \in 1 .. Len(s) : (s \o t)[i] = s[i]
      /\ \A i \in Len(s) + 1 .. Len(s) + Len(t) :
            (s \o t)[i] = t[i - Len(s)] /\ i - Len(s) \in 1 .. Len(t)
  OBVIOUS
<1>3. \A i \in 1 .. Len(s), j \in 1 .. Len(t) : s[i] < t[j]
  <2>1. /\ \A i \in 1 .. Len(s) : s[i] \in ToSet(s)
        /\ \A i \in 1 .. Len(t) : t[i] \in ToSet(t)
    BY SetOfSeq
  <2> QED BY <2>1 DEF Precedes
<1>4. SUFFICES ASSUME NEW m \in 1 .. Len(s) + Len(t), NEW n \in 1 .. Len(s) + Len(t),
                      m < n
               PROVE  (s \o t)[m] < (s \o t)[n]
  BY <1>1 DEF Increasing
<1>5. CASE n <= Len(s)
  BY <1>2, <1>4, <1>5 DEF Increasing
<1>6. CASE m <= Len(s) /\ n > Len(s)
  BY <1>2, <1>3, <1>4, <1>6
<1>7. CASE m > Len(s)
  <2>1. m - Len(s) \in 1 .. Len(t) /\ n - Len(s) \in 1 .. Len(t)
        /\ m - Len(s) < n - Len(s)
    BY <1>4, <1>7
  <2>2. t[m - Len(s)] < t[n - Len(s)]
    BY <2>1 DEF Increasing
  <2>3. (s \o t)[m] = t[m - Len(s)] /\ (s \o t)[n] = t[n - Len(s)]
    BY <1>2, <1>4, <1>7
  <2> QED BY <2>2, <2>3
<1> QED BY <1>4, <1>5, <1>6, <1>7

\* A growing list of numbers of 1 .. n has at most n of them.
LEMMA IncreasingLength ==
  ASSUME NEW n \in Nat, NEW s \in Seq(1 .. n), Increasing(s)
  PROVE  Len(s) <= n
<1>1. IsFiniteSet(1 .. n) /\ Cardinality(1 .. n) = n
  BY FS_Interval
<1>2. IsFiniteSet(1 .. Len(s)) /\ Cardinality(1 .. Len(s)) = Len(s)
  <2>1. Len(s) \in Nat
    OBVIOUS
  <2>2. Len(s) \in Int /\ 1 \in Int
    BY <2>1
  <2>3. /\ IsFiniteSet(1 .. Len(s))
        /\ Cardinality(1 .. Len(s)) = IF 1 > Len(s) THEN 0 ELSE Len(s) - 1 + 1
    BY <2>2, FS_Interval
  <2> QED BY <2>1, <2>3
<1>3. s \in [1 .. Len(s) -> 1 .. n]
  OBVIOUS
<1>4. \A i, j \in 1 .. Len(s) : s[i] = s[j] => i = j
  <2> SUFFICES ASSUME NEW i \in 1 .. Len(s), NEW j \in 1 .. Len(s), s[i] = s[j]
               PROVE  i = j
    OBVIOUS
  <2>1. s[i] \in Nat /\ s[j] \in Nat
    OBVIOUS
  <2>2. DOMAIN s = 1 .. Len(s)
    BY SetOfSeq
  <2>3. i < j => s[i] < s[j]
    BY <2>2 DEF Increasing
  <2>4. j < i => s[j] < s[i]
    BY <2>2 DEF Increasing
  <2> QED BY <2>1, <2>3, <2>4
<1>5. s \in Injection(1 .. Len(s), 1 .. n)
  BY <1>3, <1>4 DEF Injection, IsInjective
<1> QED BY <1>1, <1>2, <1>5, FS_Injection

\* The stack cut at frame k: shorter, and the same below k.
LEMMA CutIs ==
  ASSUME NEW S, NEW s \in Seq(S), NEW k \in 1 .. Len(s), NEW g \in S
  PROVE  /\ Cut(s, k, g) \in Seq(S) /\ Len(Cut(s, k, g)) = k
         /\ \A i \in 1 .. k - 1 : Cut(s, k, g)[i] = s[i]
         /\ Cut(s, k, g)[k] = g
<1>1. SubSeq(s, 1, k - 1) \in Seq(S) /\ Len(SubSeq(s, 1, k - 1)) = k - 1
  OBVIOUS
<1>2. \A i \in 1 .. k - 1 : SubSeq(s, 1, k - 1)[i] = s[i]
  OBVIOUS
<1> QED BY <1>1, <1>2 DEF Cut

\* A set of numbers of 1 .. n has a greatest, which Max picks.
LEMMA MaxIs ==
  ASSUME NEW n \in Nat, NEW S \in SUBSET (1 .. n), S # {}
  PROVE  Max(S) \in S /\ \A x \in S : x <= Max(S)
<1> DEFINE R == OpToRel(<, Nat)
           T == {n - x : x \in S}
<1>0. \A x \in S : x \in Nat /\ n - x \in Nat
  OBVIOUS
<1>1. T \subseteq Nat /\ T # {}
  BY <1>0
<1>2. PICK m \in T : \A y \in T : ~(<<y, m>> \in R)
  <2>1. IsWellFoundedOn(R, Nat)
    BY NatLessThanWellFounded
  <2> HIDE DEF R, T
  <2> QED BY ONLY <1>1, <2>1, WFMin, Zenon
<1>3. \A y \in T : ~(y < m)
  BY <1>1, <1>2 DEF OpToRel
<1>4. PICK x \in S : m = n - x
  BY <1>2
<1>5. \A y \in S : x >= y
  <2> SUFFICES ASSUME NEW y \in S PROVE x >= y
    OBVIOUS
  <2>1. ~(n - y < n - x)
    BY <1>3, <1>4
  <2>2. x \in Nat /\ y \in Nat
    BY <1>0
  <2> QED BY <2>1, <2>2
<1>6. \E z \in S : \A y \in S : z >= y
  BY <1>5
<1>7. Max(S) \in S /\ \A y \in S : Max(S) >= y
  BY <1>6, Zenon DEF Max
<1> QED BY <1>7

-----------------------------------------------------------------------------
(* One frame. *)

Modes == {"code", "drain", "exit", "done"}

\* Handlers and frames whose lists have any length.
HandlerSet == [ensure : BOOLEAN, left : Seq(Ids), running : Ids \cup {0}]
FrameSet == [handlers : Seq(HandlerSet), cleanups : Seq(Ids), mode : Modes,
             running : Ids \cup {0}]

\* What the block of handler j of frame f still has to start.
Left(f, j) == ToSet(f.handlers[j].left)

\* A frame that drains has no blocks open, and a trap guards no ensure.
Whole(f) ==
    /\ f.mode # "code" => f.handlers = <<>>
    /\ \A j \in 1 .. Len(f.handlers) :
          ~f.handlers[j].ensure =>
              f.handlers[j].left = <<>> /\ f.handlers[j].running = 0

\* Inside a frame the numbers grow from the cleanups over its blocks.
InOrder(f) ==
    /\ Increasing(f.cleanups)
    /\ \A j \in 1 .. Len(f.handlers) :
          /\ Increasing(f.handlers[j].left)
          /\ Precedes(ToSet(f.cleanups), Left(f, j))
    /\ \A i, j \in 1 .. Len(f.handlers) : i < j => Precedes(Left(f, i), Left(f, j))

\* A frame of a state of the model.
Good(f) == f \in FrameSet /\ Whole(f) /\ InOrder(f)

\* The frame without its handlers from j up.
Drop(f, j) == [f EXCEPT !.handlers = SubSeq(@, 1, j - 1)]

\* The frame with one more handler.
Open1(f, h) == [f EXCEPT !.handlers = Append(@, h)]

\* A handler that can be put over frame f.
Fits(h, f) ==
    /\ h \in HandlerSet
    /\ ~h.ensure => h.left = <<>> /\ h.running = 0
    /\ Increasing(h.left)
    /\ Precedes(OwedBy(f), ToSet(h.left))

\* The names of ensures are numbers.
LEMMA IdsAreNumbers == Ids \in SUBSET Nat /\ MaxEns \in Nat /\ 0 \notin Ids
BY UnwindBounds DEF Ids

\* What a frame owes, place by place.
LEMMA OwedMembers ==
  ASSUME NEW f \in FrameSet
  PROVE  /\ \A x : x \in OwedBy(f) <=>
                      \/ x \in ToSet(f.cleanups)
                      \/ \E j \in 1 .. Len(f.handlers) : x \in Left(f, j)
         /\ OwedBy(f) \subseteq Ids
<1>1. f.handlers \in Seq(HandlerSet) /\ f.cleanups \in Seq(Ids)
  BY DEF FrameSet
<1>2. /\ ToSet(f.handlers) = {f.handlers[j] : j \in 1 .. Len(f.handlers)}
      /\ \A j \in 1 .. Len(f.handlers) : f.handlers[j] \in HandlerSet
  BY <1>1, SetOfSeq
<1>3. \A j \in 1 .. Len(f.handlers) : f.handlers[j].left \in Seq(Ids)
  BY <1>2 DEF HandlerSet
<1>4. ToSet(f.cleanups) \subseteq Ids
  BY <1>1, SetOfSeq
<1>5. \A j \in 1 .. Len(f.handlers) : Left(f, j) \subseteq Ids
  BY <1>3, SetOfSeq DEF Left
<1>6. \A x : x \in OwedBy(f) <=>
                \/ x \in ToSet(f.cleanups)
                \/ \E j \in 1 .. Len(f.handlers) : x \in Left(f, j)
  BY <1>2 DEF OwedBy, Left
<1> QED BY <1>4, <1>5, <1>6

\* A new frame owes nothing.
LEMMA NewFrame == Good(Frame) /\ OwedBy(Frame) = {}
<1>1. Frame \in FrameSet
  BY IdsAreNumbers DEF Frame, FrameSet, Modes
<1>2. Frame.handlers = <<>> /\ Frame.cleanups = <<>> /\ Frame.mode = "code"
  BY DEF Frame
<1>3. Len(Frame.handlers) = 0 /\ Len(Frame.cleanups) = 0
  BY <1>2
<1>4. ToSet(Frame.cleanups) = {}
  BY <1>2, SetOfEmpty
<1>5. Increasing(Frame.cleanups)
  BY <1>2 DEF Increasing
<1>6. 1 .. Len(Frame.handlers) = {}
  BY <1>3
<1>7. Whole(Frame) /\ InOrder(Frame)
  BY <1>2, <1>5, <1>6 DEF Whole, InOrder
<1> QED BY <1>1, <1>4, <1>6, <1>7, OwedMembers DEF Good

\* The frame without its upper handlers: what it still owes comes before what
\* the dropped ones owed.
LEMMA DropIs ==
  ASSUME NEW f, Good(f), NEW j \in 1 .. Len(f.handlers)
  PROVE  /\ Good(Drop(f, j)) /\ Len(Drop(f, j).handlers) = j - 1
         /\ \A i \in 1 .. j - 1 : Drop(f, j).handlers[i] = f.handlers[i]
         /\ Drop(f, j).cleanups = f.cleanups /\ Drop(f, j).mode = f.mode
         /\ Drop(f, j).running = f.running
         /\ Precedes(OwedBy(Drop(f, j)), Left(f, j))
         /\ \A x : x \in OwedBy(f) <=>
                      \/ x \in OwedBy(Drop(f, j))
                      \/ \E i \in j .. Len(f.handlers) : x \in Left(f, i)
<1> DEFINE g == Drop(f, j)
<1>1. f \in FrameSet /\ Whole(f) /\ InOrder(f) /\ f.handlers \in Seq(HandlerSet)
  BY DEF Good, FrameSet
<1>2. Len(f.handlers) \in Nat /\ j - 1 \in Nat /\ j - 1 <= Len(f.handlers)
  BY <1>1
<1>3. /\ SubSeq(f.handlers, 1, j - 1) \in Seq(HandlerSet)
      /\ Len(SubSeq(f.handlers, 1, j - 1)) = j - 1
      /\ \A i \in 1 .. j - 1 : SubSeq(f.handlers, 1, j - 1)[i] = f.handlers[i]
  BY <1>1, <1>2
<1>4. /\ g.handlers = SubSeq(f.handlers, 1, j - 1) /\ g.cleanups = f.cleanups
      /\ g.mode = f.mode /\ g.running = f.running
  BY <1>1 DEF Drop, FrameSet
<1>5. g \in FrameSet
  BY <1>1, <1>3 DEF Drop, FrameSet
<1>6. Len(g.handlers) = j - 1 /\ \A i \in 1 .. j - 1 : g.handlers[i] = f.handlers[i]
  BY <1>3, <1>4
<1>7. \A i \in 1 .. j - 1 : i \in 1 .. Len(f.handlers) /\ Left(g, i) = Left(f, i)
  BY <1>2, <1>6 DEF Left
<1>8. Whole(g)
  BY <1>1, <1>2, <1>4, <1>6, <1>7 DEF Whole
<1>9. InOrder(g)
  BY <1>1, <1>4, <1>6, <1>7 DEF InOrder
<1>10. ASSUME NEW x \in OwedBy(g), NEW y \in Left(f, j) PROVE x < y
  <2>1. x \in ToSet(f.cleanups) \/ \E i \in 1 .. j - 1 : x \in Left(f, i)
    BY <1>4, <1>5, <1>6, <1>7, OwedMembers
  <2>2. \A i \in 1 .. j - 1 : i < j
    OBVIOUS
  <2> QED BY <1>1, <1>7, <2>1, <2>2 DEF InOrder, Precedes
<1>11. ASSUME NEW x
       PROVE  x \in OwedBy(f) <=> \/ x \in OwedBy(g)
                                  \/ \E i \in j .. Len(f.handlers) : x \in Left(f, i)
  <2>1. x \in OwedBy(f) <=> \/ x \in ToSet(f.cleanups)
                            \/ \E i \in 1 .. Len(f.handlers) : x \in Left(f, i)
    BY <1>1, OwedMembers
  <2>2. x \in OwedBy(g) <=> \/ x \in ToSet(f.cleanups)
                            \/ \E i \in 1 .. j - 1 : x \in Left(f, i)
    BY <1>4, <1>5, <1>6, <1>7, OwedMembers
  <2>3. \A i : i \in 1 .. Len(f.handlers) <=> i \in 1 .. j - 1 \/ i \in j .. Len(f.handlers)
    BY <1>2
  <2> QED BY <2>1, <2>2, <2>3
<1> HIDE DEF g
<1>12. Precedes(OwedBy(g), Left(f, j))
  BY <1>10 DEF Precedes
<1> QED BY <1>4, <1>5, <1>6, <1>8, <1>9, <1>11, <1>12 DEF Good, g

\* A handler put over a frame adds what its block owes.
LEMMA OpenIs ==
  ASSUME NEW f, Good(f), f.mode = "code", NEW h, Fits(h, f)
  PROVE  /\ Good(Open1(f, h)) /\ Len(Open1(f, h).handlers) = Len(f.handlers) + 1
         /\ \A i \in 1 .. Len(f.handlers) : Open1(f, h).handlers[i] = f.handlers[i]
         /\ Open1(f, h).handlers[Len(f.handlers) + 1] = h
         /\ Open1(f, h).cleanups = f.cleanups /\ Open1(f, h).mode = f.mode
         /\ Open1(f, h).running = f.running
         /\ OwedBy(Open1(f, h)) = OwedBy(f) \cup ToSet(h.left)
<1> DEFINE g == Open1(f, h)
           n == Len(f.handlers)
<1>1. f \in FrameSet /\ Whole(f) /\ InOrder(f) /\ f.handlers \in Seq(HandlerSet)
  BY DEF Good, FrameSet
<1>2. h \in HandlerSet
  BY DEF Fits
<1>3. /\ Append(f.handlers, h) \in Seq(HandlerSet) /\ n \in Nat
      /\ Len(Append(f.handlers, h)) = n + 1
      /\ \A i \in 1 .. n : Append(f.handlers, h)[i] = f.handlers[i]
      /\ Append(f.handlers, h)[n + 1] = h
  BY <1>1, <1>2
<1>4. /\ g.handlers = Append(f.handlers, h) /\ g.cleanups = f.cleanups
      /\ g.mode = f.mode /\ g.running = f.running
  BY <1>1 DEF Open1, FrameSet
<1>5. g \in FrameSet
  BY <1>1, <1>3 DEF Open1, FrameSet
<1>6. /\ Len(g.handlers) = n + 1 /\ g.handlers[n + 1] = h
      /\ \A i \in 1 .. n : g.handlers[i] = f.handlers[i]
  BY <1>3, <1>4
<1>7. /\ \A i \in 1 .. n : Left(g, i) = Left(f, i)
      /\ Left(g, n + 1) = ToSet(h.left)
  BY <1>6 DEF Left
<1> HIDE DEF g
<1>8. \A i : i \in 1 .. n + 1 <=> i \in 1 .. n \/ i = n + 1
  BY <1>3
<1>9. Whole(g)
  <2>1. ASSUME NEW i \in 1 .. n + 1, ~g.handlers[i].ensure
        PROVE  g.handlers[i].left = <<>> /\ g.handlers[i].running = 0
    <3>1. CASE i \in 1 .. n
      BY <1>1, <1>6, <2>1, <3>1 DEF Whole
    <3>2. CASE i = n + 1
      BY <1>6, <2>1, <3>2 DEF Fits
    <3> QED BY <1>8, <3>1, <3>2
  <2> QED BY <1>4, <1>6, <2>1 DEF Whole
<1>10. /\ \A x \in ToSet(f.cleanups) : x \in OwedBy(f)
       /\ \A i \in 1 .. n : \A x \in Left(f, i) : x \in OwedBy(f)
  BY <1>1, OwedMembers
<1>11. InOrder(g)
  <2>1. Increasing(g.cleanups)
    BY <1>1, <1>4 DEF InOrder
  <2>2. ASSUME NEW i \in 1 .. n + 1
        PROVE  Increasing(g.handlers[i].left) /\ Precedes(ToSet(g.cleanups), Left(g, i))
    <3>1. CASE i \in 1 .. n
      BY <1>1, <1>4, <1>6, <1>7, <3>1 DEF InOrder
    <3>2. CASE i = n + 1
      BY <1>4, <1>6, <1>7, <1>10, <3>2 DEF Fits, Precedes
    <3> QED BY <1>8, <3>1, <3>2
  <2>3. ASSUME NEW i \in 1 .. n + 1, NEW j \in 1 .. n + 1, i < j
        PROVE  Precedes(Left(g, i), Left(g, j))
    <3>1. CASE j \in 1 .. n
      <4>1. i \in 1 .. n
        BY <1>3, <2>3, <3>1
      <4> QED BY <1>1, <1>7, <2>3, <3>1, <4>1 DEF InOrder
    <3>2. CASE j = n + 1
      <4>1. i \in 1 .. n
        BY <1>3, <2>3, <3>2
      <4> QED BY <1>7, <1>10, <3>2, <4>1 DEF Fits, Precedes
    <3> QED BY <1>8, <3>1, <3>2
  <2> QED BY <1>6, <2>1, <2>2, <2>3 DEF InOrder
<1>12. ASSUME NEW x PROVE x \in OwedBy(g) <=> x \in OwedBy(f) \/ x \in ToSet(h.left)
  <2>1. x \in OwedBy(g) <=> \/ x \in ToSet(f.cleanups)
                            \/ \E i \in 1 .. n + 1 : x \in Left(g, i)
    BY <1>4, <1>5, <1>6, OwedMembers
  <2>2. x \in OwedBy(f) <=> \/ x \in ToSet(f.cleanups)
                            \/ \E i \in 1 .. n : x \in Left(f, i)
    BY <1>1, OwedMembers
  <2> QED BY <1>7, <1>8, <2>1, <2>2
<1>13. OwedBy(g) = OwedBy(f) \cup ToSet(h.left)
  BY <1>12
<1> QED BY <1>4, <1>5, <1>6, <1>9, <1>11, <1>13 DEF Good, g

\* i is the newest of the ensures of S.
IsNewest(i, S) == i \in S /\ \A x \in S : x <= i

\* j is a handler of frame f, and those above it have nothing to start.
Reached(f, j) ==
    /\ j \in 1 .. Len(f.handlers)
    /\ \A i \in j + 1 .. Len(f.handlers) : f.handlers[i].left = <<>>

\* g is frame f after control went past its handler j: the ensure that starts
\* is the newest of the frame, and the frame owes the others.
WentPast(f, j, left, g) ==
    /\ Good(g)
    /\ g.cleanups = f.cleanups /\ g.mode = f.mode /\ g.running = f.running
    /\ \A i \in 1 .. j - 1 : g.handlers[i] = f.handlers[i]
    /\ left = <<>> => OwedBy(g) = OwedBy(f) /\ Len(g.handlers) = j - 1
    /\ left # <<>> => /\ Len(g.handlers) = j
                      /\ g.handlers[j] = Guard(Front(left), Last(left))
                      /\ Last(left) \in Ids
                      /\ IsNewest(Last(left), OwedBy(f))
                      /\ OwedBy(g) = OwedBy(f) \ {Last(left)}

\* Control goes past a handler above which the frame owes nothing.
LEMMA PastIs ==
  ASSUME NEW f, Good(f), NEW j, Reached(f, j)
  PROVE  WentPast(f, j, f.handlers[j].left,
                  NextEnsure(Drop(f, j), f.handlers[j].left))
<1> SUFFICES ASSUME NEW left, left = f.handlers[j].left,
                    NEW g, g = NextEnsure(Drop(f, j), left)
             PROVE  WentPast(f, j, left, g)
  OBVIOUS
<1>0. /\ j \in 1 .. Len(f.handlers)
      /\ \A i \in j + 1 .. Len(f.handlers) : f.handlers[i].left = <<>>
  BY DEF Reached
<1> DEFINE d == Drop(f, j)
<1>1. /\ f \in FrameSet /\ Whole(f) /\ InOrder(f) /\ f.handlers \in Seq(HandlerSet)
      /\ f.handlers[j] \in HandlerSet
  BY <1>0 DEF Good, FrameSet
<1>2. left \in Seq(Ids) /\ Increasing(left) /\ Left(f, j) = ToSet(left)
  BY <1>0, <1>1 DEF HandlerSet, InOrder, Left
<1>3. /\ Good(d) /\ Len(d.handlers) = j - 1
      /\ \A i \in 1 .. j - 1 : d.handlers[i] = f.handlers[i]
      /\ d.cleanups = f.cleanups /\ d.mode = f.mode /\ d.running = f.running
      /\ Precedes(OwedBy(d), ToSet(left))
      /\ \A x : x \in OwedBy(f) <=> \/ x \in OwedBy(d)
                                    \/ \E i \in j .. Len(f.handlers) : x \in Left(f, i)
  BY <1>0, <1>2, DropIs
<1> HIDE DEF d
<1>4. \A x : x \in OwedBy(f) <=> x \in OwedBy(d) \/ x \in ToSet(left)
  <2>1. \A i \in j + 1 .. Len(f.handlers) : Left(f, i) = {}
    BY <1>0, SetOfEmpty DEF Left
  <2>2. \A i : i \in j .. Len(f.handlers) <=> i = j \/ i \in j + 1 .. Len(f.handlers)
    BY <1>0, <1>1
  <2> QED BY <1>2, <1>3, <2>1, <2>2
<1>5. CASE left = <<>>
  <2>1. g = d
    BY <1>5 DEF NextEnsure, d
  <2>2. OwedBy(d) = OwedBy(f)
    BY <1>4, <1>5, SetOfEmpty
  <2> QED BY <1>3, <1>5, <2>1, <2>2 DEF WentPast
<1>6. CASE left # <<>>
  <2> DEFINE h == Guard(Front(left), Last(left))
  <2>1. /\ Front(left) \in Seq(Ids) /\ Increasing(Front(left)) /\ Last(left) \in Ids
        /\ ToSet(left) = ToSet(Front(left)) \cup {Last(left)}
        /\ \A x \in ToSet(Front(left)) : x < Last(left)
    BY <1>2, <1>6, FrontAndLast, IdsAreNumbers
  <2>2. h \in HandlerSet /\ h.ensure /\ h.left = Front(left)
    BY <2>1 DEF Guard, HandlerSet
  <2>3. Precedes(OwedBy(d), ToSet(Front(left)))
    BY <1>3, <2>1 DEF Precedes
  <2> HIDE DEF h
  <2>4. Fits(h, d)
    BY <2>1, <2>2, <2>3 DEF Fits
  <2>5. f.mode = "code"
    <3>1. Len(f.handlers) # 0
      BY <1>0, <1>1
    <3> QED BY <1>1, <3>1 DEF Whole
  <2>6. g = Open1(d, h)
    BY <1>6 DEF NextEnsure, Open1, d, h
  <2>7. /\ Good(g) /\ Len(g.handlers) = (j - 1) + 1
        /\ \A i \in 1 .. j - 1 : g.handlers[i] = d.handlers[i]
        /\ g.handlers[(j - 1) + 1] = h
        /\ g.cleanups = d.cleanups /\ g.mode = d.mode /\ g.running = d.running
        /\ OwedBy(g) = OwedBy(d) \cup ToSet(h.left)
    BY <1>3, <2>4, <2>5, <2>6, OpenIs
  <2>8. (j - 1) + 1 = j
    BY <1>0, <1>1
  <2>9. \A x \in OwedBy(d) : x < Last(left)
    BY <1>3, <2>1 DEF Precedes
  <2>10. OwedBy(f) \subseteq Nat /\ Last(left) \in Nat
    BY <1>1, <2>1, OwedMembers, IdsAreNumbers
  <2>11. IsNewest(Last(left), OwedBy(f))
    BY <1>4, <2>1, <2>9, <2>10 DEF IsNewest
  <2>12. OwedBy(g) = OwedBy(f) \ {Last(left)}
    <3>1. Last(left) \notin OwedBy(d) /\ Last(left) \notin ToSet(Front(left))
      BY <2>1, <2>9, <2>10
    <3> QED BY <1>4, <2>1, <2>2, <2>7, <3>1
  <2> QED BY <1>3, <1>6, <2>1, <2>7, <2>8, <2>11, <2>12 DEF h, WentPast
<1> QED BY <1>5, <1>6

\* The last element replaced, as a cut.
LEMMA ReplaceLast ==
  ASSUME NEW S, NEW s \in Seq(S), s # <<>>, NEW e \in S
  PROVE  [s EXCEPT ![Len(s)] = e] = Cut(s, Len(s), e)
<1>1. Len(s) \in Nat \ {0}
  OBVIOUS
<1> DEFINE t == [s EXCEPT ![Len(s)] = e]
<1>2. /\ t \in Seq(S) /\ Len(t) = Len(s) /\ t[Len(s)] = e
      /\ \A i \in 1 .. Len(s) - 1 : t[i] = s[i]
  BY <1>1
<1>3. /\ Cut(s, Len(s), e) \in Seq(S) /\ Len(Cut(s, Len(s), e)) = Len(s)
      /\ \A i \in 1 .. Len(s) - 1 : Cut(s, Len(s), e)[i] = s[i]
      /\ Cut(s, Len(s), e)[Len(s)] = e
  BY <1>1, CutIs
<1> HIDE DEF t
<1>4. \A i \in 1 .. Len(s) : t[i] = Cut(s, Len(s), e)[i]
  BY <1>1, <1>2, <1>3
<1>5. t = Cut(s, Len(s), e)
  BY <1>2, <1>3, <1>4
<1> QED BY <1>5 DEF t

\* g is frame f after its innermost block, handler n, registered ensure c.
Registers(f, n, c, g) ==
    /\ Good(f) /\ n = Len(f.handlers) /\ n # 0 /\ f.handlers[n].ensure
    /\ c \in Ids /\ \A x \in OwedBy(f) : x < c
    /\ g = [f EXCEPT !.handlers[n].left = Append(@, c)]

\* g is frame f with ensure c more to start.
OwesMore(f, c, g) ==
    /\ Good(g)
    /\ g.cleanups = f.cleanups /\ g.mode = f.mode /\ g.running = f.running
    /\ Len(g.handlers) = Len(f.handlers)
    /\ \A i \in 1 .. Len(f.handlers) : g.handlers[i].running = f.handlers[i].running
    /\ OwedBy(g) = OwedBy(f) \cup {c}

\* The body of the innermost block registers an ensure with a new number.
LEMMA RegisterInFrame ==
  ASSUME NEW f, NEW n, NEW c, NEW g, Registers(f, n, c, g)
  PROVE  OwesMore(f, c, g)
<1>0. /\ Good(f) /\ n = Len(f.handlers) /\ n # 0 /\ f.handlers[n].ensure
      /\ c \in Ids /\ \A x \in OwedBy(f) : x < c
      /\ g = [f EXCEPT !.handlers[n].left = Append(@, c)]
  BY DEF Registers
<1> DEFINE d == Drop(f, n)
           h == f.handlers[n]
           e == [h EXCEPT !.left = Append(@, c)]
<1>1. /\ f \in FrameSet /\ Whole(f) /\ InOrder(f) /\ f.handlers \in Seq(HandlerSet)
      /\ n \in Nat \ {0} /\ n \in 1 .. Len(f.handlers) /\ h \in HandlerSet
      /\ f.handlers # <<>> /\ c \in Ids /\ n = Len(f.handlers)
  BY <1>0 DEF Good, FrameSet
<1>2. h.left \in Seq(Ids) /\ Increasing(h.left) /\ Left(f, n) = ToSet(h.left)
  BY <1>1 DEF HandlerSet, InOrder, Left
<1>3. /\ Good(d) /\ Len(d.handlers) = n - 1
      /\ \A i \in 1 .. n - 1 : d.handlers[i] = f.handlers[i]
      /\ d.cleanups = f.cleanups /\ d.mode = f.mode /\ d.running = f.running
      /\ Precedes(OwedBy(d), ToSet(h.left))
      /\ \A x : x \in OwedBy(f) <=> \/ x \in OwedBy(d)
                                    \/ \E i \in n .. Len(f.handlers) : x \in Left(f, i)
  BY <1>0, <1>1, <1>2, DropIs
<1>4. \A x : x \in OwedBy(f) <=> x \in OwedBy(d) \/ x \in ToSet(h.left)
  <2>1. \A i : i \in n .. Len(f.handlers) <=> i = n
    BY <1>1
  <2> QED BY <1>2, <1>3, <2>1
<1>5. /\ e \in HandlerSet /\ e.ensure /\ e.left = Append(h.left, c)
      /\ e.running = h.running
  <2>1. Append(h.left, c) \in Seq(Ids)
    BY <1>1, <1>2
  <2>2. h.ensure
    BY <1>0
  <2> HIDE DEF h
  <2> QED BY <1>1, <2>1, <2>2 DEF HandlerSet
<1>6. ToSet(e.left) = ToSet(h.left) \cup {c} /\ Increasing(e.left)
  <2>1. \A x \in ToSet(h.left) : x < c
    BY <1>0, <1>4
  <2> QED
    BY <1>1, <1>2, <1>5, <2>1, SetOfAppend, IncreasingAppend, IdsAreNumbers
<1>7. g = Open1(d, e)
  <2>1. [f.handlers EXCEPT ![n] = e] = Append(SubSeq(f.handlers, 1, n - 1), e)
    BY <1>1, <1>5, ReplaceLast DEF Cut
  <2>2. g = [f EXCEPT !.handlers = [f.handlers EXCEPT ![n] = e]]
    BY <1>0, <1>1 DEF FrameSet
  <2> QED BY <1>1, <2>1, <2>2 DEF Open1, Drop, FrameSet
<1> HIDE DEF d, e
<1>8. Fits(e, d)
  <2>1. Precedes(OwedBy(d), ToSet(e.left))
    BY <1>0, <1>3, <1>4, <1>6 DEF Precedes
  <2> QED BY <1>5, <1>6, <2>1 DEF Fits
<1>9. f.mode = "code"
  BY <1>1 DEF Whole
<1>10. /\ Good(g) /\ Len(g.handlers) = (n - 1) + 1
       /\ \A i \in 1 .. n - 1 : g.handlers[i] = d.handlers[i]
       /\ g.handlers[(n - 1) + 1] = e
       /\ g.cleanups = d.cleanups /\ g.mode = d.mode /\ g.running = d.running
       /\ OwedBy(g) = OwedBy(d) \cup ToSet(e.left)
  <2>1. Good(d) /\ d.mode = "code" /\ Fits(e, d)
    BY <1>3, <1>8, <1>9
  <2>2. /\ Good(Open1(d, e)) /\ Len(Open1(d, e).handlers) = Len(d.handlers) + 1
        /\ \A i \in 1 .. Len(d.handlers) : Open1(d, e).handlers[i] = d.handlers[i]
        /\ Open1(d, e).handlers[Len(d.handlers) + 1] = e
        /\ Open1(d, e).cleanups = d.cleanups /\ Open1(d, e).mode = d.mode
        /\ Open1(d, e).running = d.running
        /\ OwedBy(Open1(d, e)) = OwedBy(d) \cup ToSet(e.left)
    BY <2>1, OpenIs
  <2> QED BY <1>3, <1>7, <2>2
<1>11. /\ (n - 1) + 1 = n /\ n = Len(f.handlers)
       /\ \A i \in 1 .. n : i \in 1 .. n - 1 \/ i = n
  BY <1>0, <1>1
<1>12. \A i \in 1 .. n : g.handlers[i].running = f.handlers[i].running
  BY <1>3, <1>5, <1>10, <1>11
<1>13. OwedBy(g) = OwedBy(f) \cup {c}
  BY <1>4, <1>6, <1>10
<1> QED BY <1>3, <1>10, <1>11, <1>12, <1>13 DEF OwesMore

\* g is frame f after a tail call from its only block, which still has the
\* ensures of list left to start.
TailCalls(f, left, g) ==
    /\ Good(f) /\ Len(f.handlers) = 1 /\ f.mode = "code"
    /\ left = f.handlers[1].left
    /\ g = [f EXCEPT !.handlers = <<>>, !.cleanups = @ \o left]

\* A tail call keeps the ensures of the frame's only block as cleanups.
LEMMA TailCallInFrame ==
  ASSUME NEW f, NEW left, NEW g, TailCalls(f, left, g)
  PROVE  Good(g) /\ g.handlers = <<>> /\ OwedBy(g) = OwedBy(f)
<1>0. /\ Good(f) /\ Len(f.handlers) = 1 /\ f.mode = "code"
      /\ left = f.handlers[1].left
      /\ g = [f EXCEPT !.handlers = <<>>, !.cleanups = @ \o left]
  BY DEF TailCalls
<1>1. /\ f \in FrameSet /\ Whole(f) /\ InOrder(f) /\ f.handlers \in Seq(HandlerSet)
      /\ f.cleanups \in Seq(Ids) /\ f.handlers[1] \in HandlerSet
  BY <1>0 DEF Good, FrameSet
<1>2. /\ left \in Seq(Ids) /\ Increasing(left) /\ Left(f, 1) = ToSet(left)
      /\ Increasing(f.cleanups) /\ Precedes(ToSet(f.cleanups), ToSet(left))
  BY <1>0, <1>1 DEF HandlerSet, InOrder, Left
<1>3. /\ f.cleanups \o left \in Seq(Ids)
      /\ ToSet(f.cleanups \o left) = ToSet(f.cleanups) \cup ToSet(left)
      /\ Increasing(f.cleanups \o left)
  BY <1>1, <1>2, SetOfConcat, IncreasingConcat, IdsAreNumbers
<1>4. /\ g.handlers = <<>> /\ g.cleanups = f.cleanups \o left /\ g.mode = f.mode
      /\ g.running = f.running
  BY <1>0, <1>1 DEF FrameSet
<1>5. g \in FrameSet
  <2>1. <<>> \in Seq(HandlerSet)
    OBVIOUS
  <2> QED BY <1>0, <1>1, <1>3, <2>1 DEF FrameSet
<1>6. 1 .. Len(g.handlers) = {}
  BY <1>4
<1>7. Whole(g) /\ InOrder(g)
  BY <1>3, <1>4, <1>6 DEF Whole, InOrder
<1>8. ASSUME NEW x PROVE x \in OwedBy(g) <=> x \in OwedBy(f)
  <2>1. x \in OwedBy(g) <=> x \in ToSet(g.cleanups)
    BY <1>5, <1>6, OwedMembers
  <2>2. x \in OwedBy(f) <=> \/ x \in ToSet(f.cleanups)
                            \/ \E j \in 1 .. Len(f.handlers) : x \in Left(f, j)
    BY <1>1, OwedMembers
  <2>3. \A j : j \in 1 .. Len(f.handlers) <=> j = 1
    BY <1>0
  <2> QED BY <1>2, <1>3, <1>4, <2>1, <2>2, <2>3
<1> QED BY <1>4, <1>5, <1>7, <1>8 DEF Good

\* A frame of which only cleanups are left to start.
LEMMA OnlyCleanups ==
  ASSUME NEW f, Good(f), \A j \in 1 .. Len(f.handlers) : f.handlers[j].left = <<>>,
         NEW g \in FrameSet, g.handlers = <<>>, g.cleanups = f.cleanups
  PROVE  Good(g) /\ OwedBy(g) = OwedBy(f) /\ OwedBy(f) = ToSet(f.cleanups)
<1>1. f \in FrameSet /\ InOrder(f)
  BY DEF Good
<1>2. 1 .. Len(g.handlers) = {}
  OBVIOUS
<1>3. Whole(g) /\ InOrder(g)
  BY <1>1, <1>2 DEF Whole, InOrder
<1>4. \A j \in 1 .. Len(f.handlers) : Left(f, j) = {}
  BY SetOfEmpty DEF Left
<1>5. /\ \A x : x \in OwedBy(f) <=> x \in ToSet(f.cleanups)
      /\ \A x : x \in OwedBy(g) <=> x \in ToSet(f.cleanups)
  BY <1>1, <1>2, <1>4, OwedMembers
<1>6. OwedBy(f) = ToSet(f.cleanups) /\ OwedBy(g) = ToSet(f.cleanups)
  BY <1>5
<1> QED BY <1>3, <1>6 DEF Good

\* A frame without cleanups, with nothing left in its blocks, owes nothing.
LEMMA OwesNothing ==
  ASSUME NEW f \in FrameSet, f.cleanups = <<>>,
         \A j \in 1 .. Len(f.handlers) : f.handlers[j].left = <<>>
  PROVE  OwedBy(f) = {}
<1>1. ToSet(f.cleanups) = {} /\ \A j \in 1 .. Len(f.handlers) : Left(f, j) = {}
  BY SetOfEmpty DEF Left
<1> QED BY <1>1, OwedMembers

\* That the cleanup a frame waited for is over leaves what it owes.
LEMMA CleanupOver ==
  ASSUME NEW f, Good(f), NEW g, g = [f EXCEPT !.running = 0]
  PROVE  /\ Good(g) /\ OwedBy(g) = OwedBy(f)
         /\ g.handlers = f.handlers /\ g.cleanups = f.cleanups /\ g.mode = f.mode
         /\ g.running = 0
<1>1. f \in FrameSet /\ Whole(f) /\ InOrder(f)
  BY DEF Good
<1>2. /\ g \in FrameSet /\ g.handlers = f.handlers /\ g.cleanups = f.cleanups
      /\ g.mode = f.mode /\ g.running = 0
  BY <1>1 DEF FrameSet
<1>3. Whole(g) /\ InOrder(g)
  BY <1>1, <1>2 DEF Whole, InOrder, Left
<1>4. OwedBy(g) = OwedBy(f)
  BY <1>2 DEF OwedBy
<1> QED BY <1>2, <1>3, <1>4 DEF Good

\* g is frame f when its drain takes a cleanup.
DrainsOne(f, g) ==
    /\ Good(f) /\ f.handlers = <<>> /\ f.cleanups # <<>>
    /\ g = [f EXCEPT !.cleanups = Front(@), !.running = Last(f.cleanups)]

\* A drain takes the newest of its frame's cleanups.
LEMMA DrainInFrame ==
  ASSUME NEW f, NEW g, DrainsOne(f, g)
  PROVE  /\ Good(g) /\ g.handlers = <<>> /\ g.mode = f.mode
         /\ g.cleanups = Front(f.cleanups) /\ g.running = Last(f.cleanups)
         /\ Last(f.cleanups) \in Ids
         /\ IsNewest(Last(f.cleanups), OwedBy(f))
         /\ OwedBy(g) = OwedBy(f) \ {Last(f.cleanups)}
<1> DEFINE c == f.cleanups
<1>0. /\ Good(f) /\ f.handlers = <<>> /\ c # <<>>
      /\ g = [f EXCEPT !.cleanups = Front(@), !.running = Last(c)]
  BY DEF DrainsOne
<1>1. f \in FrameSet /\ Whole(f) /\ InOrder(f) /\ c \in Seq(Ids) /\ Increasing(c)
  BY <1>0 DEF Good, FrameSet, InOrder
<1>2. /\ Front(c) \in Seq(Ids) /\ Increasing(Front(c)) /\ Last(c) \in Ids
      /\ ToSet(c) = ToSet(Front(c)) \cup {Last(c)}
      /\ \A x \in ToSet(Front(c)) : x < Last(c)
  BY <1>0, <1>1, FrontAndLast, IdsAreNumbers
<1>3. /\ g \in FrameSet /\ g.handlers = <<>> /\ g.mode = f.mode
      /\ g.cleanups = Front(c) /\ g.running = Last(c)
  BY <1>0, <1>1, <1>2 DEF FrameSet
<1>4. 1 .. Len(g.handlers) = {} /\ 1 .. Len(f.handlers) = {}
  BY <1>0, <1>3
<1>5. Whole(g) /\ InOrder(g)
  BY <1>2, <1>3, <1>4 DEF Whole, InOrder
<1>6. /\ \A x : x \in OwedBy(f) <=> x \in ToSet(c)
      /\ \A x : x \in OwedBy(g) <=> x \in ToSet(Front(c))
  BY <1>1, <1>3, <1>4, OwedMembers
<1>7. Last(c) \in Nat /\ ToSet(Front(c)) \subseteq Nat
  BY <1>2, SetOfSeq, IdsAreNumbers
<1>8. IsNewest(Last(c), OwedBy(f))
  BY <1>2, <1>6, <1>7 DEF IsNewest
<1>9. Last(c) \notin ToSet(Front(c))
  BY <1>2, <1>7
<1>10. OwedBy(g) = OwedBy(f) \ {Last(c)}
  BY <1>2, <1>6, <1>9
<1> QED BY <1>2, <1>3, <1>5, <1>8, <1>10 DEF Good

-----------------------------------------------------------------------------
(* The stack. *)

\* A stack of frames cut at frame k.
LEMMA CutFrames ==
  ASSUME NEW s \in Seq(FrameSet), NEW k \in 1 .. Len(s), NEW g \in FrameSet
  PROVE  /\ Cut(s, k, g) \in Seq(FrameSet) /\ Len(Cut(s, k, g)) = k
         /\ \A i \in 1 .. k - 1 : Cut(s, k, g)[i] = s[i]
         /\ Cut(s, k, g)[k] = g
<1>1. /\ SubSeq(s, 1, k - 1) \in Seq(FrameSet) /\ Len(SubSeq(s, 1, k - 1)) = k - 1
      /\ \A i \in 1 .. k - 1 : SubSeq(s, 1, k - 1)[i] = s[i]
  OBVIOUS
<1> QED BY <1>1 DEF Cut

\* What the frames of stack s owe.
OwedIn(s) == UNION {OwedBy(f) : f \in ToSet(s)}

\* The numbers grow from frame to frame.
StackOK(s) ==
    /\ s \in Seq(FrameSet)
    /\ \A k \in 1 .. Len(s) : Good(s[k])
    /\ \A k, l \in 1 .. Len(s) : k < l => Precedes(OwedBy(s[k]), OwedBy(s[l]))

\* k is a frame of s, and the frames above it owe nothing.
ClearAbove(s, k) ==
    k \in 1 .. Len(s) /\ \A l \in k + 1 .. Len(s) : OwedBy(s[l]) = {}

\* The bounds of the model: a frame with cleanups leaves room for a closure.
InBounds(s) ==
    /\ Len(s) <= MaxFrames
    /\ \A k \in 1 .. Len(s) :
          /\ Len(s[k].handlers) <= MaxHandlers
          /\ s[k].cleanups # <<>> => k < MaxFrames

\* What a stack owes, frame by frame.
LEMMA OwedInMembers ==
  ASSUME NEW s \in Seq(FrameSet)
  PROVE  /\ \A x : x \in OwedIn(s) <=> \E k \in 1 .. Len(s) : x \in OwedBy(s[k])
         /\ OwedIn(s) \subseteq Ids
<1>1. /\ ToSet(s) = {s[k] : k \in 1 .. Len(s)}
      /\ \A k \in 1 .. Len(s) : s[k] \in FrameSet
  BY SetOfSeq
<1>2. \A x : x \in OwedIn(s) <=> \E k \in 1 .. Len(s) : x \in OwedBy(s[k])
  BY <1>1 DEF OwedIn
<1>3. \A k \in 1 .. Len(s) : OwedBy(s[k]) \subseteq Ids
  BY <1>1, OwedMembers
<1> QED BY <1>2, <1>3

\* Frame k replaced by one above all that the lower frames owe.
LEMMA CutStack ==
  ASSUME NEW s, StackOK(s), NEW k \in 1 .. Len(s), NEW g, Good(g),
         \A i \in 1 .. k - 1 : Precedes(OwedBy(s[i]), OwedBy(g))
  PROVE  /\ StackOK(Cut(s, k, g))
         /\ \A x : x \in OwedIn(Cut(s, k, g)) <=>
                      \/ x \in OwedBy(g)
                      \/ \E i \in 1 .. k - 1 : x \in OwedBy(s[i])
<1> DEFINE t == Cut(s, k, g)
<1>1. s \in Seq(FrameSet) /\ g \in FrameSet /\ Len(s) \in Nat
  BY DEF StackOK, Good
<1>2. /\ t \in Seq(FrameSet) /\ Len(t) = k /\ t[k] = g
      /\ \A i \in 1 .. k - 1 : t[i] = s[i]
  BY <1>1, CutFrames
<1> HIDE DEF t
<1>3. /\ \A i : i \in 1 .. k <=> i \in 1 .. k - 1 \/ i = k
      /\ \A i \in 1 .. k - 1 : i \in 1 .. Len(s) /\ i < k
  BY <1>1
<1>4. \A i \in 1 .. k : Good(t[i])
  BY <1>2, <1>3 DEF StackOK
<1>5. ASSUME NEW i \in 1 .. k, NEW l \in 1 .. k, i < l
      PROVE  Precedes(OwedBy(t[i]), OwedBy(t[l]))
  <2>1. i \in 1 .. k - 1
    BY <1>1, <1>5
  <2>2. CASE l = k
    BY <1>2, <2>1, <2>2
  <2>3. CASE l \in 1 .. k - 1
    BY <1>2, <1>3, <1>5, <2>1, <2>3 DEF StackOK
  <2> QED BY <1>3, <2>2, <2>3
<1>6. StackOK(t)
  BY <1>2, <1>4, <1>5 DEF StackOK
<1>7. ASSUME NEW x
      PROVE  x \in OwedIn(t) <=> \/ x \in OwedBy(g)
                                 \/ \E i \in 1 .. k - 1 : x \in OwedBy(s[i])
  <2>1. x \in OwedIn(t) <=> \E i \in 1 .. k : x \in OwedBy(t[i])
    BY <1>2, OwedInMembers
  <2> QED BY <1>2, <1>3, <2>1
<1> QED BY <1>6, <1>7 DEF t

\* What a stack owes below a frame, in it, and above it.
LEMMA OwedAround ==
  ASSUME NEW s, StackOK(s), NEW k, ClearAbove(s, k)
  PROVE  /\ \A x : x \in OwedIn(s) <=> \/ x \in OwedBy(s[k])
                                       \/ \E i \in 1 .. k - 1 : x \in OwedBy(s[i])
         /\ \A i \in 1 .. k - 1 : Precedes(OwedBy(s[i]), OwedBy(s[k]))
         /\ s[k] \in FrameSet /\ Good(s[k])
<1>1. /\ s \in Seq(FrameSet) /\ Len(s) \in Nat /\ k \in 1 .. Len(s)
      /\ \A l \in k + 1 .. Len(s) : OwedBy(s[l]) = {}
  <2>1. s \in Seq(FrameSet)
    BY DEF StackOK
  <2> QED BY <2>1 DEF ClearAbove
<1>2. \A i : i \in 1 .. Len(s) <=> \/ i \in 1 .. k - 1 \/ i = k
                                   \/ i \in k + 1 .. Len(s)
  BY <1>1
<1>3. \A x : x \in OwedIn(s) <=> \E i \in 1 .. Len(s) : x \in OwedBy(s[i])
  BY <1>1, OwedInMembers
<1>4. \A i \in 1 .. k - 1 : i \in 1 .. Len(s) /\ i < k
  BY <1>1
<1>5. \A i \in 1 .. k - 1 : Precedes(OwedBy(s[i]), OwedBy(s[k]))
  BY <1>1, <1>4 DEF StackOK
<1>6. \A x : x \in OwedIn(s) <=> \/ x \in OwedBy(s[k])
                               \/ \E i \in 1 .. k - 1 : x \in OwedBy(s[i])
  BY <1>1, <1>2, <1>3
<1>7. Good(s[k])
  BY <1>1 DEF StackOK
<1> QED BY <1>5, <1>6, <1>7 DEF Good

\* A frame that owes as much in the place of frame k, the frames above it,
\* which owe nothing, gone.
LEMMA CutSame ==
  ASSUME NEW s, StackOK(s), NEW k, ClearAbove(s, k), NEW g, Good(g),
         OwedBy(g) = OwedBy(s[k])
  PROVE  StackOK(Cut(s, k, g)) /\ OwedIn(Cut(s, k, g)) = OwedIn(s)
<1>0. k \in 1 .. Len(s)
  BY DEF ClearAbove
<1>1. /\ \A x : x \in OwedIn(s) <=> \/ x \in OwedBy(s[k])
                                    \/ \E i \in 1 .. k - 1 : x \in OwedBy(s[i])
      /\ \A i \in 1 .. k - 1 : Precedes(OwedBy(s[i]), OwedBy(s[k]))
  BY OwedAround
<1>2. /\ StackOK(Cut(s, k, g))
      /\ \A x : x \in OwedIn(Cut(s, k, g)) <=>
                   \/ x \in OwedBy(g)
                   \/ \E i \in 1 .. k - 1 : x \in OwedBy(s[i])
  BY <1>0, <1>1, CutStack
<1>3. OwedIn(Cut(s, k, g)) = OwedIn(s)
  BY <1>1, <1>2
<1> QED BY <1>2, <1>3

\* One that owes all but its newest: that was the newest of the stack.
LEMMA CutNewest ==
  ASSUME NEW s, StackOK(s), NEW k, ClearAbove(s, k), NEW g, Good(g),
         NEW v, IsNewest(v, OwedBy(s[k])), OwedBy(g) = OwedBy(s[k]) \ {v}
  PROVE  /\ StackOK(Cut(s, k, g))
         /\ IsNewest(v, OwedIn(s))
         /\ OwedIn(Cut(s, k, g)) = OwedIn(s) \ {v}
<1>0. k \in 1 .. Len(s)
  BY DEF ClearAbove
<1>1. /\ \A x : x \in OwedIn(s) <=> \/ x \in OwedBy(s[k])
                                    \/ \E i \in 1 .. k - 1 : x \in OwedBy(s[i])
      /\ \A i \in 1 .. k - 1 : Precedes(OwedBy(s[i]), OwedBy(s[k]))
      /\ OwedIn(s) \subseteq Nat
  BY OwedAround, OwedInMembers, IdsAreNumbers DEF StackOK
<1>2. \A i \in 1 .. k - 1 : Precedes(OwedBy(s[i]), OwedBy(g))
  BY <1>1 DEF Precedes
<1>3. /\ StackOK(Cut(s, k, g))
      /\ \A x : x \in OwedIn(Cut(s, k, g)) <=>
                   \/ x \in OwedBy(g)
                   \/ \E i \in 1 .. k - 1 : x \in OwedBy(s[i])
  BY <1>0, <1>2, CutStack
<1>4. v \in OwedBy(s[k]) /\ v \in OwedIn(s)
  BY <1>1 DEF IsNewest
<1>5. \A i \in 1 .. k - 1 : \A x \in OwedBy(s[i]) : x < v
  BY <1>1, <1>4 DEF Precedes
<1>6. ASSUME NEW x \in OwedIn(s) PROVE x <= v
  <2>1. x \in Nat /\ v \in Nat
    BY <1>1, <1>4
  <2>2. CASE x \in OwedBy(s[k])
    BY <2>2 DEF IsNewest
  <2>3. ASSUME NEW i \in 1 .. k - 1, x \in OwedBy(s[i]) PROVE x <= v
    BY <1>5, <2>1, <2>3
  <2> QED BY <1>1, <2>2, <2>3
<1>7. ASSUME NEW i \in 1 .. k - 1, v \in OwedBy(s[i]) PROVE FALSE
  <2>1. v \in Nat /\ v < v
    BY <1>1, <1>4, <1>5, <1>7
  <2> QED BY <2>1
<1>9. IsNewest(v, OwedIn(s))
  BY <1>4, <1>6 DEF IsNewest
<1>8. OwedIn(Cut(s, k, g)) = OwedIn(s) \ {v}
  BY <1>1, <1>3, <1>7
<1> QED BY <1>3, <1>8, <1>9

\* One more in the last frame, greater than all.
LEMMA CutMore ==
  ASSUME NEW s, StackOK(s), s # <<>>, NEW g, NEW c, OwesMore(s[Len(s)], c, g),
         \A x \in OwedIn(s) : x < c
  PROVE  /\ StackOK(Cut(s, Len(s), g))
         /\ OwedIn(Cut(s, Len(s), g)) = OwedIn(s) \cup {c}
<1> DEFINE k == Len(s)
<1>0. Good(g) /\ OwedBy(g) = OwedBy(s[k]) \cup {c}
  BY DEF OwesMore
<1>1. s \in Seq(FrameSet) /\ k \in 1 .. Len(s) /\ k + 1 .. Len(s) = {}
  BY DEF StackOK
<1>2. /\ \A x : x \in OwedIn(s) <=> \/ x \in OwedBy(s[k])
                                    \/ \E i \in 1 .. k - 1 : x \in OwedBy(s[i])
      /\ \A i \in 1 .. k - 1 : Precedes(OwedBy(s[i]), OwedBy(s[k]))
  BY <1>1, OwedAround DEF ClearAbove
<1>3. \A i \in 1 .. k - 1 : Precedes(OwedBy(s[i]), OwedBy(g))
  BY <1>0, <1>2 DEF Precedes
<1>4. /\ StackOK(Cut(s, k, g))
      /\ \A x : x \in OwedIn(Cut(s, k, g)) <=>
                   \/ x \in OwedBy(g)
                   \/ \E i \in 1 .. k - 1 : x \in OwedBy(s[i])
  BY <1>0, <1>1, <1>3, CutStack
<1>5. OwedIn(Cut(s, k, g)) = OwedIn(s) \cup {c}
  BY <1>0, <1>2, <1>4
<1> QED BY <1>4, <1>5

\* A new frame on the stack.
LEMMA PushFrame ==
  ASSUME NEW s, StackOK(s), NEW t, t = Append(s, Frame)
  PROVE  /\ StackOK(t) /\ OwedIn(t) = OwedIn(s)
         /\ Len(t) = Len(s) + 1 /\ t[Len(s) + 1] = Frame
         /\ \A i \in 1 .. Len(s) : t[i] = s[i]
<1>1. s \in Seq(FrameSet) /\ Len(s) \in Nat /\ Frame \in FrameSet
  BY NewFrame DEF StackOK, Good
<1>2. /\ t \in Seq(FrameSet) /\ Len(t) = Len(s) + 1 /\ t[Len(s) + 1] = Frame
      /\ \A i \in 1 .. Len(s) : t[i] = s[i]
  BY <1>1
<1>3. \A i : i \in 1 .. Len(s) + 1 <=> i \in 1 .. Len(s) \/ i = Len(s) + 1
  BY <1>1
<1>4. \A i \in 1 .. Len(t) : Good(t[i])
  BY <1>2, <1>3, NewFrame DEF StackOK
<1>5. ASSUME NEW i \in 1 .. Len(t), NEW l \in 1 .. Len(t), i < l
      PROVE  Precedes(OwedBy(t[i]), OwedBy(t[l]))
  <2>1. CASE l = Len(s) + 1
    BY <1>2, <2>1, NewFrame DEF Precedes
  <2>2. CASE l \in 1 .. Len(s)
    <3>1. i \in 1 .. Len(s)
      BY <1>1, <1>2, <1>5, <2>2
    <3> QED BY <1>2, <1>5, <2>2, <3>1 DEF StackOK
  <2> QED BY <1>2, <1>3, <2>1, <2>2
<1>6. ASSUME NEW x PROVE x \in OwedIn(t) <=> x \in OwedIn(s)
  <2>1. x \in OwedIn(t) <=> \E i \in 1 .. Len(s) + 1 : x \in OwedBy(t[i])
    BY <1>2, OwedInMembers
  <2>2. x \in OwedIn(s) <=> \E i \in 1 .. Len(s) : x \in OwedBy(s[i])
    BY <1>1, OwedInMembers
  <2> QED BY <1>2, <1>3, <2>1, <2>2, NewFrame
<1>7. OwedIn(t) = OwedIn(s)
  BY <1>6
<1> QED BY <1>2, <1>4, <1>5, <1>7 DEF StackOK

\* The bounds of a stack that was cut.
LEMMA CutInBounds ==
  ASSUME NEW s \in Seq(FrameSet), InBounds(s), NEW k \in 1 .. Len(s),
         NEW g \in FrameSet, Len(g.handlers) <= MaxHandlers,
         g.cleanups # <<>> => k < MaxFrames
  PROVE  InBounds(Cut(s, k, g))
<1> DEFINE t == Cut(s, k, g)
<1>0. s \in Seq(FrameSet) /\ g \in FrameSet /\ Len(s) \in Nat
  OBVIOUS
<1>1. /\ Len(t) = k /\ t[k] = g
      /\ \A i \in 1 .. k - 1 : t[i] = s[i]
  BY <1>0, CutFrames
<1> HIDE DEF t
<1>2. /\ Len(s) \in Nat /\ MaxFrames \in Nat
      /\ \A i : i \in 1 .. k <=> i \in 1 .. k - 1 \/ i = k
      /\ \A i \in 1 .. k - 1 : i \in 1 .. Len(s)
  BY UnwindBounds
<1>3. k <= MaxFrames
  BY <1>2 DEF InBounds
<1>4. InBounds(t)
  BY <1>1, <1>2, <1>3 DEF InBounds
<1> QED BY <1>4 DEF t

-----------------------------------------------------------------------------
(* The inductive invariant. *)

\* The ensure that the unwind entered runs above this handler.
HandlerAnchor(s, sg, lt) ==
    /\ sg.ensFrame \in 1 .. Len(s)
    /\ sg.ensHandlers + 1 \in 1 .. Len(s[sg.ensFrame].handlers)
    /\ s[sg.ensFrame].handlers[sg.ensHandlers + 1].running \in lt

\* The closure of a cleanup that the unwind started runs above this frame.
DrainAnchor(s, lt) ==
    \E k \in 1 .. Len(s) : s[k].mode = "exit" /\ (k < Len(s) => s[k].running \in lt)

\* Where the unwind is under way, it is in an ensure that started late.
Anchored(s, sg, lt) ==
    sg.unwinding => HandlerAnchor(s, sg, lt) \/ DrainAnchor(s, lt)

Sigs == [on : BOOLEAN, kill : BOOLEAN, unwinding : BOOLEAN,
         ensFrame : 1 .. MaxFrames, ensHandlers : 0 .. MaxHandlers]

\* Kinds of values, and the bounds.
Types ==
    /\ StackOK(frames) /\ InBounds(frames)
    /\ sig \in Sigs /\ alive \in BOOLEAN
    /\ count \in 0 .. MaxEns /\ begun \in 0 .. MaxEns /\ late \subseteq Ids

\* :kill is a signal that no ensure answers; only a signal unwinds.
SigOK(sg) == (sg.kill => sg.on /\ ~sg.unwinding) /\ (sg.unwinding => sg.on)

IInv ==
    /\ Types
    /\ alive <=> frames # <<>>
    /\ SigOK(sig)
    /\ \A x \in Owed : x <= count
    /\ Anchored(frames, sig, late)

\* From stack s to t only the last frame n of s changes, or frames are put
\* over it, and the handler or drain there that the unwind is above stays.
KeepsAnchor(s, t, n, sg, lt, lt2) ==
    /\ n = Len(s) /\ n \in Nat \ {0} /\ Len(t) \in Nat /\ Len(t) >= n
    /\ \A i \in 1 .. n - 1 : t[i] = s[i]
    /\ lt \subseteq lt2
    /\ sg.unwinding /\ sg.ensFrame = n =>
          \A i \in 1 .. Len(s[n].handlers) :
              i = sg.ensHandlers + 1 /\ s[n].handlers[i].running \in lt =>
                  i \in 1 .. Len(t[n].handlers) /\ t[n].handlers[i].running \in lt2
    /\ \/ s[n].mode # "exit"
       \/ t[n].mode = "exit" /\ (Len(t) > n => t[n].running \in lt2)

\* The unwind stays where it is when only the running frame changes.
LEMMA AnchorKept ==
  ASSUME NEW s, NEW t, NEW n, NEW sg, NEW lt, NEW lt2,
         Anchored(s, sg, lt), KeepsAnchor(s, t, n, sg, lt, lt2)
  PROVE  Anchored(t, sg, lt2)
<1>0. /\ n = Len(s) /\ n \in Nat \ {0} /\ Len(t) \in Nat /\ Len(t) >= n
      /\ \A i \in 1 .. n - 1 : t[i] = s[i]
      /\ lt \subseteq lt2
      /\ sg.unwinding /\ sg.ensFrame = n =>
            \A i \in 1 .. Len(s[n].handlers) :
                i = sg.ensHandlers + 1 /\ s[n].handlers[i].running \in lt =>
                    i \in 1 .. Len(t[n].handlers) /\ t[n].handlers[i].running \in lt2
      /\ \/ s[n].mode # "exit"
         \/ t[n].mode = "exit" /\ (Len(t) > n => t[n].running \in lt2)
  BY DEF KeepsAnchor
<1> SUFFICES ASSUME sg.unwinding PROVE HandlerAnchor(t, sg, lt2) \/ DrainAnchor(t, lt2)
  BY DEF Anchored
<1>1. \A i : i \in 1 .. n => i \in 1 .. n - 1 \/ i = n
  BY <1>0
<1>2. ASSUME HandlerAnchor(s, sg, lt) PROVE HandlerAnchor(t, sg, lt2)
  <2>1. sg.ensFrame \in 1 .. n /\ sg.ensFrame \in 1 .. Len(t)
    BY <1>0, <1>2 DEF HandlerAnchor
  <2>2. CASE sg.ensFrame = n
    BY <1>0, <1>2, <2>1, <2>2 DEF HandlerAnchor
  <2>3. CASE sg.ensFrame \in 1 .. n - 1
    BY <1>0, <1>2, <2>1, <2>3 DEF HandlerAnchor
  <2> QED BY <1>1, <2>1, <2>2, <2>3
<1>3. ASSUME NEW k \in 1 .. n, s[k].mode = "exit", k < n => s[k].running \in lt
      PROVE  DrainAnchor(t, lt2)
  <2>1. k \in 1 .. Len(t)
    BY <1>0
  <2>2. CASE k = n
    BY <1>0, <1>3, <2>1, <2>2 DEF DrainAnchor
  <2>3. CASE k \in 1 .. n - 1
    <3>1. k < n /\ t[k] = s[k]
      BY <1>0, <2>3
    <3> QED BY <1>0, <1>3, <2>1, <3>1 DEF DrainAnchor
  <2> QED BY <1>1, <2>2, <2>3
<1> QED BY <1>0, <1>2, <1>3 DEF Anchored, DrainAnchor

\* Nor does it move when a frame with no blocks and no drain is popped.
LEMMA AnchorPopped ==
  ASSUME NEW s \in Seq(FrameSet), NEW sg, NEW lt, Anchored(s, sg, lt), sg.unwinding,
         NEW n, n = Len(s), n \in Nat \ {0}, s[n].handlers = <<>>, s[n].mode # "exit",
         NEW t, Len(t) = n - 1, \A i \in 1 .. n - 2 : t[i] = s[i],
         n > 1 => /\ t[n - 1].handlers = s[n - 1].handlers
                  /\ t[n - 1].mode = s[n - 1].mode
  PROVE  n > 1 /\ Anchored(t, sg, lt)
<1>1. \A i : i \in 1 .. n => i \in 1 .. n - 2 \/ i = n - 1 \/ i = n
  OBVIOUS
<1>2. ASSUME HandlerAnchor(s, sg, lt) PROVE n > 1 /\ HandlerAnchor(t, sg, lt)
  <2>1. sg.ensFrame \in 1 .. n /\ sg.ensFrame # n
    BY <1>2 DEF HandlerAnchor
  <2>2. n > 1 /\ sg.ensFrame \in 1 .. n - 1
    BY <2>1
  <2>3. t[sg.ensFrame].handlers = s[sg.ensFrame].handlers
    BY <1>1, <2>1, <2>2
  <2> QED BY <1>2, <2>2, <2>3 DEF HandlerAnchor
<1>3. ASSUME NEW k \in 1 .. n, s[k].mode = "exit", k < n => s[k].running \in lt
      PROVE  n > 1 /\ DrainAnchor(t, lt)
  <2>1. k \in 1 .. n - 1 /\ n > 1
    BY <1>3
  <2>2. CASE k = n - 1
    BY <1>3, <2>1, <2>2 DEF DrainAnchor
  <2>3. CASE k \in 1 .. n - 2
    BY <1>3, <2>1, <2>3 DEF DrainAnchor
  <2> QED BY <1>1, <2>1, <2>2, <2>3
<1> QED BY <1>2, <1>3 DEF Anchored, DrainAnchor

-----------------------------------------------------------------------------
(* Steps of the abstract specification. *)

\* A step that starts no ensure, registers none and leaves the actor as it is.
LEMMA QuietStep ==
  ASSUME Owed' = Owed, count' = count, begun' = begun, Life' = Life
  PROVE  [ES!Next]_(ES!vars)
BY DEF ES!vars

\* A step that starts the newest.
LEMMA StartStep ==
  ASSUME Life = "alive", Life' = "alive", NEW v, IsNewest(v, Owed),
         begun' = v, Owed' = Owed \ {v}, count' = count
  PROVE  [ES!Next]_(ES!vars)
<1>1. v \in Owed /\ ES!Newest(v)
  BY DEF IsNewest, ES!Newest
<1>2. ES!Start
  BY <1>1 DEF ES!Start
<1> QED BY <1>2 DEF ES!Next

\* A step that ends the actor.
LEMMA StopStep ==
  ASSUME Life = "killed" \/ (Life = "alive" /\ Owed = {}),
         Life' = "dead", Owed' = {}, count' = count, begun' = begun
  PROVE  [ES!Next]_(ES!vars)
<1>1. ES!Stop
  BY DEF ES!Stop
<1> QED BY <1>1 DEF ES!Next

\* What the actor owes is what its stack owes.
LEMMA OwedIs == Owed = OwedIn(frames)
BY DEF Owed, OwedIn

\* An actor that runs has a frame to run in, and no :kill reached it.
LEMMA RunsFacts ==
  ASSUME IInv, NEW m, Runs(m)
  PROVE  /\ alive /\ ~sig.kill /\ Life = "alive" /\ (sig.on => sig.unwinding)
         /\ frames \in Seq(FrameSet) /\ frames # <<>>
         /\ Len(frames) \in Nat \ {0} /\ Len(frames) \in 1 .. Len(frames)
         /\ Good(Top) /\ Top \in FrameSet /\ Top = frames[Len(frames)]
         /\ Top.mode = m
         /\ Len(frames) <= MaxFrames /\ Len(Top.handlers) <= MaxHandlers
         /\ Top.cleanups # <<>> => Len(frames) < MaxFrames
<1>1. alive /\ ~ExitPending /\ Top.mode = m
  BY DEF Runs
<1>2. sig.on => sig.unwinding
  BY <1>1 DEF ExitPending
<1>3. ~sig.kill
  BY <1>2 DEF IInv, SigOK
<1>4. frames \in Seq(FrameSet) /\ frames # <<>>
  BY <1>1 DEF IInv, Types, StackOK
<1>5. Len(frames) \in Nat \ {0} /\ Len(frames) \in 1 .. Len(frames)
  BY <1>4
<1>6. Good(Top)
  BY <1>5 DEF IInv, Types, StackOK, Top
<1>7. /\ Len(frames) <= MaxFrames /\ Len(Top.handlers) <= MaxHandlers
      /\ Top.cleanups # <<>> => Len(frames) < MaxFrames
  BY <1>5 DEF IInv, Types, InBounds, Top
<1>8. Life = "alive"
  BY <1>1, <1>3 DEF Life
<1> QED BY <1>1, <1>2, <1>3, <1>4, <1>5, <1>6, <1>7, <1>8 DEF Good, Top

\* Frame k, replaced by one that owes as much, becomes the running frame; the
\* frames that go owe nothing.
LEMMA QuietCut ==
  ASSUME IInv, alive, NEW k, ClearAbove(frames, k),
         NEW g, Good(g), OwedBy(g) = OwedBy(frames[k]),
         Len(g.handlers) <= MaxHandlers, g.cleanups # <<>> => k < MaxFrames,
         frames' = Cut(frames, k, g),
         sig' \in Sigs, sig'.kill = sig.kill, SigOK(sig'),
         Anchored(frames', sig', late'),
         UNCHANGED <<alive, count, begun, late>>
  PROVE  IInv' /\ [ES!Next]_(ES!vars)
<1>1. /\ StackOK(frames) /\ InBounds(frames)
      /\ frames \in Seq(FrameSet) /\ g \in FrameSet
      /\ k \in 1 .. Len(frames)
  BY DEF IInv, Types, StackOK, Good, ClearAbove
<1>2. StackOK(frames') /\ OwedIn(frames') = OwedIn(frames)
  BY <1>1, CutSame
<1>3. InBounds(frames')
  BY <1>1, CutInBounds
<1>4. Len(frames') = k
  <2>1. Len(Cut(frames, k, g)) = k
    BY <1>1, CutFrames
  <2> QED BY <2>1
<1>5. frames' # <<>>
  BY <1>1, <1>4
<1>6. Owed' = Owed
  BY <1>2, OwedIs DEF Owed, OwedIn
<1>7. Types'
  BY <1>2, <1>3 DEF IInv, Types, StackOK, InBounds
<1>8. IInv'
  BY <1>5, <1>6, <1>7 DEF IInv, SigOK, Anchored, HandlerAnchor, DrainAnchor
<1>9. Life' = Life
  BY DEF Life
<1> QED BY <1>6, <1>8, <1>9, QuietStep

-----------------------------------------------------------------------------
(* One lemma per step: it keeps the invariant and maps to a step of the    *)
(* abstract specification, or to none.                                     *)

\* A change of the running frame alone, as a cut.
LEMMA SetTopIsCut ==
  ASSUME IInv, NEW m, Runs(m), NEW g, Good(g), SetTop(g)
  PROVE  /\ frames' = Cut(frames, Len(frames), g)
         /\ Len(frames') = Len(frames) /\ frames'[Len(frames)] = g
         /\ \A i \in 1 .. Len(frames) - 1 : frames'[i] = frames[i]
         /\ ClearAbove(frames, Len(frames))
<1>1. /\ frames \in Seq(FrameSet) /\ frames # <<>> /\ g \in FrameSet
      /\ Len(frames) \in 1 .. Len(frames) /\ Len(frames) \in Nat
  BY RunsFacts DEF Good
<1>2. frames' = Cut(frames, Len(frames), g)
  BY <1>1, ReplaceLast DEF SetTop
<1>3. /\ Len(Cut(frames, Len(frames), g)) = Len(frames)
      /\ \A i \in 1 .. Len(frames) - 1 : Cut(frames, Len(frames), g)[i] = frames[i]
      /\ Cut(frames, Len(frames), g)[Len(frames)] = g
  BY <1>1, CutFrames
<1>4. Len(frames) + 1 .. Len(frames) = {}
  BY <1>1
<1> QED BY <1>1, <1>2, <1>3, <1>4 DEF ClearAbove

\* Frame g is in the bounds of the model, owes as much as f and keeps its
\* handlers that guard an ensure.
Keeps(f, g) ==
    /\ Good(g) /\ OwedBy(g) = OwedBy(f)
    /\ Len(g.handlers) <= MaxHandlers
    /\ \A i \in 1 .. Len(f.handlers) :
          f.handlers[i].running # 0 =>
              /\ i \in 1 .. Len(g.handlers)
              /\ g.handlers[i].running = f.handlers[i].running

\* The running frame is replaced by one that owes as much, in the course of an
\* unwind or when one ends.
LEMMA QuietTop ==
  ASSUME IInv, NEW m, Runs(m), NEW g, Keeps(Top, g), SetTop(g),
         g.cleanups # <<>> => Len(frames) < MaxFrames,
         (sig' = sig /\ m # "exit") \/ sig' = [sig EXCEPT !.unwinding = FALSE],
         UNCHANGED <<alive, count, begun, late>>
  PROVE  IInv' /\ [ES!Next]_(ES!vars)
<1> DEFINE n == Len(frames)
<1>0. /\ Good(g) /\ OwedBy(g) = OwedBy(Top) /\ Len(g.handlers) <= MaxHandlers
      /\ \A i \in 1 .. Len(Top.handlers) :
            Top.handlers[i].running # 0 =>
                /\ i \in 1 .. Len(g.handlers)
                /\ g.handlers[i].running = Top.handlers[i].running
  BY DEF Keeps
<1>1. /\ alive /\ n \in Nat \ {0} /\ n \in 1 .. Len(frames) /\ Top = frames[n]
      /\ Top.mode = m
  BY RunsFacts
<1>2. /\ frames' = Cut(frames, n, g)
      /\ Len(frames') = n /\ frames'[n] = g
      /\ \A i \in 1 .. n - 1 : frames'[i] = frames[i]
      /\ ClearAbove(frames, n)
  BY <1>0, SetTopIsCut
<1>3. sig \in Sigs /\ SigOK(sig) /\ Anchored(frames, sig, late) /\ 0 \notin late
  BY IdsAreNumbers DEF IInv, Types
<1>4. /\ sig' \in Sigs /\ sig'.kill = sig.kill /\ SigOK(sig')
      /\ Anchored(frames', sig', late')
  <2>1. CASE sig' = sig /\ m # "exit"
    <3>1. KeepsAnchor(frames, frames', n, sig, late, late)
      BY <1>0, <1>1, <1>2, <1>3, <2>1 DEF KeepsAnchor
    <3>2. Anchored(frames', sig, late)
      BY <1>3, <3>1, AnchorKept
    <3> QED BY <1>3, <2>1, <3>2
  <2>2. CASE sig' = [sig EXCEPT !.unwinding = FALSE]
    BY <1>3, <2>2 DEF Sigs, SigOK, Anchored
  <2> QED BY <2>1, <2>2
<1>5. OwedBy(g) = OwedBy(frames[n])
  BY <1>0, <1>1
<1> QED BY <1>0, <1>1, <1>2, <1>4, <1>5, QuietCut

\* The stack without its running frame, which owes nothing and guards nothing.
LEMMA PopStep ==
  ASSUME IInv, NEW m, Runs(m), m # "exit", Top.handlers = <<>>, Top.cleanups = <<>>,
         frames' = Popped, alive' = (Below # <<>>),
         UNCHANGED <<sig, count, begun, late>>,
         NEW n, n = Len(frames)
  PROVE  IInv' /\ [ES!Next]_(ES!vars)
<1>1. /\ alive /\ ~sig.kill /\ Life = "alive" /\ frames \in Seq(FrameSet)
      /\ n \in Nat \ {0} /\ n \in 1 .. n /\ Top = frames[n] /\ Good(Top) /\ Top.mode = m
  BY RunsFacts
<1>2. OwedBy(Top) = {}
  <2>1. Top \in FrameSet /\ 1 .. Len(Top.handlers) = {} /\ ToSet(Top.cleanups) = {}
    BY <1>1, SetOfEmpty DEF Good
  <2> QED BY <2>1, OwedMembers
<1>3. /\ Below \in Seq(FrameSet) /\ Len(Below) = n - 1
      /\ \A i \in 1 .. n - 1 : Below[i] = frames[i]
  BY <1>1, FrontIs DEF Below
<1>4. /\ sig \in Sigs /\ SigOK(sig) /\ Anchored(frames, sig, late)
      /\ StackOK(frames) /\ InBounds(frames)
  BY DEF IInv, Types
<1>5. CASE n = 1
  <2>1. Below = <<>> /\ frames' = <<>> /\ ~alive'
    <3>1. Below = <<>>
      BY <1>3, <1>5
    <3>2. DOMAIN Below = {}
      BY <3>1
    <3>3. Popped = <<>>
      BY <3>2 DEF Popped
    <3> QED BY <3>1, <3>3
  <2>3. Len(frames') = 0
    BY <2>1
  <2>2. ASSUME sig.unwinding PROVE FALSE
    <3>1. /\ Len(frames') = n - 1 /\ n = 1
          /\ \A i \in 1 .. n - 2 : frames'[i] = frames[i]
      BY <1>5, <2>3
    <3>2. frames[n].mode # "exit" /\ frames[n].handlers = <<>> /\ ~(n > 1)
      BY <1>1, <1>5
    <3> QED BY <1>1, <1>4, <2>2, <3>1, <3>2, AnchorPopped
  <2>4. Owed' = {}
    BY <2>1, SetOfEmpty DEF Owed
  <2>5. Owed = {}
    <3>1. \A x : x \in OwedIn(frames) <=> \E k \in 1 .. n : x \in OwedBy(frames[k])
      BY <1>1, OwedInMembers
    <3>2. \A k : k \in 1 .. n <=> k = n
      BY <1>5
    <3> QED BY <1>1, <1>2, <3>1, <3>2, OwedIs
  <2>6. StackOK(frames') /\ InBounds(frames')
    BY <2>1, <2>3, UnwindBounds DEF StackOK, InBounds
  <2>7. IInv'
    BY <1>4, <2>1, <2>2, <2>4, <2>6
       DEF IInv, Types, StackOK, InBounds, SigOK, Anchored
  <2>8. Life' = "dead"
    BY <2>1 DEF Life
  <2> QED BY <1>1, <2>4, <2>5, <2>7, <2>8, StopStep
<1>6. CASE n # 1
  <2> DEFINE f == frames[n - 1]
             g == [f EXCEPT !.running = 0]
  <2>1. n - 1 \in 1 .. n /\ n - 1 \in Nat \ {0} /\ Good(f) /\ f \in FrameSet
    <3>1. n - 1 \in 1 .. n /\ n - 1 \in Nat \ {0}
      BY <1>1, <1>6
    <3>2. Good(frames[n - 1])
      BY <1>4, <3>1 DEF StackOK
    <3> QED BY <3>1, <3>2 DEF Good
  <2>2. /\ Good(g) /\ OwedBy(g) = OwedBy(f)
        /\ g.handlers = f.handlers /\ g.cleanups = f.cleanups /\ g.mode = f.mode
        /\ g.running = 0
    BY <2>1, CleanupOver
  <2>3. Len(f.handlers) <= MaxHandlers /\ (f.cleanups # <<>> => n - 1 < MaxFrames)
    BY <1>4, <2>1 DEF InBounds
  <2> HIDE DEF f
  <2>4. frames' = Cut(frames, n - 1, g)
    <3>1. frames' = [Below EXCEPT ![n - 1] = g]
      <4>1. Below[n - 1] = f /\ DOMAIN Below = 1 .. n - 1
        BY <1>3, <2>1 DEF f
      <4>2. frames' = [k \in 1 .. n - 1 |-> IF k = n - 1 THEN g ELSE Below[k]]
        BY <1>3, <4>1 DEF Popped
      <4> QED BY <4>1, <4>2
    <3>2. Below # <<>> /\ g \in FrameSet
      BY <1>3, <2>1, <2>2 DEF Good
    <3>3. frames' = Cut(Below, n - 1, g)
      <4>1. [Below EXCEPT ![Len(Below)] = g] = Cut(Below, Len(Below), g)
        BY <1>3, <3>2, ReplaceLast
      <4> QED BY <1>3, <3>1, <4>1
    <3>4. SubSeq(Below, 1, (n - 1) - 1) = SubSeq(frames, 1, (n - 1) - 1)
      <4>1. /\ SubSeq(Below, 1, (n - 1) - 1) \in Seq(FrameSet)
            /\ SubSeq(frames, 1, (n - 1) - 1) \in Seq(FrameSet)
            /\ Len(SubSeq(Below, 1, (n - 1) - 1)) = (n - 1) - 1
            /\ Len(SubSeq(frames, 1, (n - 1) - 1)) = (n - 1) - 1
            /\ \A i \in 1 .. (n - 1) - 1 :
                  /\ SubSeq(Below, 1, (n - 1) - 1)[i] = Below[i]
                  /\ SubSeq(frames, 1, (n - 1) - 1)[i] = frames[i]
        BY <1>1, <1>3, <2>1
      <4> QED BY <1>3, <4>1
    <3> QED BY <3>3, <3>4 DEF Cut
  <2>5. /\ Len(frames') = n - 1 /\ frames'[n - 1] = g
        /\ \A i \in 1 .. (n - 1) - 1 : frames'[i] = frames[i]
    <3>1. g \in FrameSet
      BY <2>2 DEF Good
    <3> HIDE DEF g
    <3>3. frames \in Seq(FrameSet) /\ n - 1 \in 1 .. Len(frames)
      BY <1>1, <2>1
    <3>2. /\ Len(Cut(frames, n - 1, g)) = n - 1 /\ Cut(frames, n - 1, g)[n - 1] = g
          /\ \A i \in 1 .. (n - 1) - 1 : Cut(frames, n - 1, g)[i] = frames[i]
      BY <3>1, <3>3, CutFrames
    <3> QED BY <2>4, <3>2
  <2>6. ClearAbove(frames, n - 1)
    BY <1>1, <1>2, <2>1 DEF ClearAbove
  <2>7. alive' = alive
    BY <1>1, <1>3, <2>1
  <2>8. Anchored(frames', sig', late')
    <3>1. CASE sig.unwinding
      <4>1. /\ Len(frames') = n - 1 /\ \A i \in 1 .. n - 2 : frames'[i] = frames[i]
            /\ frames'[n - 1].handlers = frames[n - 1].handlers
            /\ frames'[n - 1].mode = frames[n - 1].mode
        BY <2>2, <2>5 DEF f
      <4> QED BY <1>1, <1>4, <3>1, <4>1, AnchorPopped
    <3>2. CASE ~sig.unwinding
      BY <3>2 DEF Anchored
    <3> QED BY <3>1, <3>2
  <2> HIDE DEF g
  <2>9. OwedBy(g) = OwedBy(frames[n - 1])
    BY <2>2 DEF f
  <2> QED BY <1>1, <1>4, <2>1, <2>2, <2>3, <2>4, <2>6, <2>7, <2>8, <2>9, QuietCut
<1> QED BY <1>5, <1>6

\* TRAPBEGIN and TRAPENSURE put an empty block on the running frame.
LEMMA BlockOpens ==
  ASSUME IInv, Runs("code"), Len(Top.handlers) < MaxHandlers,
         NEW h, h = Trap \/ h = Guard(<<>>, 0),
         SetTop([Top EXCEPT !.handlers = Append(@, h)]),
         UNCHANGED <<sig, alive, count, begun, late>>
  PROVE  IInv' /\ [ES!Next]_(ES!vars)
<1>1. /\ Good(Top) /\ Top.mode = "code"
      /\ Top.cleanups # <<>> => Len(frames) < MaxFrames
      /\ Top.handlers \in Seq(HandlerSet)
  BY RunsFacts DEF FrameSet
<1>2. h \in HandlerSet /\ h.left = <<>> /\ h.running = 0
  <2>1. <<>> \in Seq(Ids)
    OBVIOUS
  <2>2. CASE h = Trap
    BY <2>1, <2>2 DEF Trap, HandlerSet
  <2>3. CASE h = Guard(<<>>, 0)
    BY <2>1, <2>3 DEF Guard, HandlerSet
  <2> QED BY <2>2, <2>3
<1>3. ToSet(h.left) = {} /\ Increasing(h.left)
  BY <1>2, SetOfEmpty DEF Increasing
<1>4. Fits(h, Top)
  BY <1>2, <1>3 DEF Fits, Precedes
<1> DEFINE g == Open1(Top, h)
<1>5. /\ Good(g) /\ Len(g.handlers) = Len(Top.handlers) + 1
      /\ \A i \in 1 .. Len(Top.handlers) : g.handlers[i] = Top.handlers[i]
      /\ g.cleanups = Top.cleanups /\ OwedBy(g) = OwedBy(Top) \cup ToSet(h.left)
  <2>1. /\ Good(Open1(Top, h)) /\ Len(Open1(Top, h).handlers) = Len(Top.handlers) + 1
        /\ \A i \in 1 .. Len(Top.handlers) :
              Open1(Top, h).handlers[i] = Top.handlers[i]
        /\ Open1(Top, h).cleanups = Top.cleanups
        /\ OwedBy(Open1(Top, h)) = OwedBy(Top) \cup ToSet(h.left)
    BY <1>1, <1>4, OpenIs
  <2> QED BY <2>1
<1>6. SetTop(g)
  BY DEF Open1
<1> HIDE DEF g
<1>7. /\ OwedBy(g) = OwedBy(Top) /\ Len(g.handlers) <= MaxHandlers
      /\ Len(Top.handlers) \in Nat
  BY <1>1, <1>3, <1>5, UnwindBounds
<1>8. \A i \in 1 .. Len(Top.handlers) :
         i \in 1 .. Len(g.handlers) /\ g.handlers[i].running = Top.handlers[i].running
  BY <1>5, <1>7
<1>9. Keeps(Top, g) /\ (g.cleanups # <<>> => Len(frames) < MaxFrames)
  BY <1>1, <1>5, <1>7, <1>8 DEF Keeps
<1> QED BY <1>6, <1>9, QuietTop

\* t is stack s after control went past handler j of its frame k: the ensure
\* that starts is the newest of all.
StackPast(s, k, j, left, t) ==
    /\ StackOK(t) /\ InBounds(t) /\ Len(t) = k
    /\ \A i \in 1 .. k - 1 : t[i] = s[i]
    /\ \A i \in 1 .. j - 1 : t[k].handlers[i] = s[k].handlers[i]
    /\ left = <<>> => OwedIn(t) = OwedIn(s) /\ Len(t[k].handlers) = j - 1
    /\ left # <<>> => /\ Len(t[k].handlers) = j
                      /\ t[k].handlers[j].running = Last(left)
                      /\ Last(left) \in Ids
                      /\ IsNewest(Last(left), OwedIn(s))
                      /\ OwedIn(t) = OwedIn(s) \ {Last(left)}

\* The stack, when control goes past a handler above which nothing is owed.
LEMMA PastCut ==
  ASSUME NEW s, StackOK(s), InBounds(s), NEW k, ClearAbove(s, k),
         NEW j, Reached(s[k], j)
  PROVE  StackPast(s, k, j, s[k].handlers[j].left,
                   Cut(s, k, NextEnsure(Drop(s[k], j), s[k].handlers[j].left)))
<1> SUFFICES ASSUME NEW f, f = s[k], NEW left, left = f.handlers[j].left,
                    NEW g, g = NextEnsure(Drop(f, j), left), NEW t, t = Cut(s, k, g)
             PROVE  StackPast(s, k, j, left, t)
  OBVIOUS
<1>0. k \in 1 .. Len(s) /\ j \in 1 .. Len(f.handlers) /\ Reached(f, j)
  BY DEF ClearAbove, Reached
<1>1. /\ s \in Seq(FrameSet) /\ Good(f) /\ f.handlers \in Seq(HandlerSet)
      /\ Len(f.handlers) <= MaxHandlers
      /\ f.cleanups # <<>> => k < MaxFrames
  BY <1>0 DEF StackOK, InBounds, Good, FrameSet
<1>2. /\ Good(g) /\ g.cleanups = f.cleanups
      /\ \A i \in 1 .. j - 1 : g.handlers[i] = f.handlers[i]
      /\ left = <<>> => OwedBy(g) = OwedBy(f) /\ Len(g.handlers) = j - 1
      /\ left # <<>> => /\ Len(g.handlers) = j
                        /\ g.handlers[j] = Guard(Front(left), Last(left))
                        /\ Last(left) \in Ids
                        /\ IsNewest(Last(left), OwedBy(f))
                        /\ OwedBy(g) = OwedBy(f) \ {Last(left)}
  <2>1. WentPast(f, j, left, g)
    BY <1>0, <1>1, PastIs
  <2> QED BY <2>1 DEF WentPast
<1>3. g \in FrameSet /\ Len(g.handlers) <= MaxHandlers
  <2>1. Len(f.handlers) \in Nat /\ j \in Nat /\ j <= Len(f.handlers)
        /\ MaxHandlers \in Nat
    BY <1>0, <1>1, UnwindBounds
  <2>2. Len(g.handlers) = j - 1 \/ Len(g.handlers) = j
    BY <1>2
  <2>3. Len(g.handlers) <= MaxHandlers
    BY <1>1, <2>1, <2>2
  <2>4. g \in FrameSet
    BY <1>2, Zenon DEF Good
  <2> QED BY <2>3, <2>4
<1>4. InBounds(t)
  BY <1>0, <1>1, <1>2, <1>3, CutInBounds
<1>5. Len(t) = k /\ t[k] = g /\ \A i \in 1 .. k - 1 : t[i] = s[i]
  <2>1. s \in Seq(FrameSet) /\ k \in 1 .. Len(s) /\ g \in FrameSet
    BY <1>0, <1>1, <1>3
  <2>2. /\ Len(Cut(s, k, g)) = k /\ Cut(s, k, g)[k] = g
        /\ \A i \in 1 .. k - 1 : Cut(s, k, g)[i] = s[i]
    BY <2>1, CutFrames
  <2> QED BY <2>2
<1>6. left = <<>> => StackOK(t) /\ OwedIn(t) = OwedIn(s)
  <2> SUFFICES ASSUME left = <<>> PROVE StackOK(t) /\ OwedIn(t) = OwedIn(s)
    OBVIOUS
  <2>1. OwedBy(g) = OwedBy(s[k]) /\ Good(g)
    BY <1>2
  <2>2. StackOK(Cut(s, k, g)) /\ OwedIn(Cut(s, k, g)) = OwedIn(s)
    BY <2>1, CutSame
  <2> QED BY <2>2
<1>7. left # <<>> => /\ StackOK(t) /\ IsNewest(Last(left), OwedIn(s))
                     /\ OwedIn(t) = OwedIn(s) \ {Last(left)}
  <2> SUFFICES ASSUME left # <<>>,
                      NEW v, v = Last(left)
               PROVE  /\ StackOK(t) /\ IsNewest(v, OwedIn(s))
                      /\ OwedIn(t) = OwedIn(s) \ {v}
    OBVIOUS
  <2>1. IsNewest(v, OwedBy(s[k])) /\ OwedBy(g) = OwedBy(s[k]) \ {v} /\ Good(g)
    BY <1>2
  <2>2. /\ StackOK(Cut(s, k, g)) /\ IsNewest(v, OwedIn(s))
        /\ OwedIn(Cut(s, k, g)) = OwedIn(s) \ {v}
    BY <2>1, CutNewest
  <2> QED BY <2>2
<1>8. left # <<>> => g.handlers[j].running = Last(left)
  <2>1. Guard(Front(left), Last(left)).running = Last(left)
    BY DEF Guard
  <2> QED BY <1>2, <2>1
<1> QED BY <1>2, <1>4, <1>5, <1>6, <1>7, <1>8 DEF StackPast

\* The ensure that is next starts, or there is none.
LEMMA PastStep ==
  ASSUME IInv, alive, ~sig.kill, NEW k, NEW j, NEW left,
         StackPast(frames, k, j, left, frames'), k # 0,
         IF left = <<>> THEN NothingBegins ELSE Begin(Last(left)),
         sig' \in Sigs, ~sig'.kill, SigOK(sig'), Anchored(frames', sig', late'),
         UNCHANGED <<alive, count>>
  PROVE  IInv' /\ [ES!Next]_(ES!vars)
<1>2. /\ StackOK(frames') /\ InBounds(frames') /\ Len(frames') = k
      /\ left = <<>> => OwedIn(frames') = OwedIn(frames)
      /\ left # <<>> => /\ Last(left) \in Ids
                        /\ IsNewest(Last(left), OwedIn(frames))
                        /\ OwedIn(frames') = OwedIn(frames) \ {Last(left)}
  BY DEF StackPast
<1>3. frames' # <<>>
  BY <1>2
<1>4. Life = "alive" /\ Life' = "alive"
  BY DEF Life
<1>5. \A x \in Owed : x <= count
  BY DEF IInv
<1>6. CASE left = <<>>
  <2>1. Owed' = Owed
    BY <1>2, <1>6, OwedIs DEF Owed, OwedIn
  <2>2. UNCHANGED <<begun, late>>
    BY <1>6 DEF NothingBegins
  <2>3. IInv'
    BY <1>2, <1>3, <2>1, <2>2
       DEF IInv, Types, StackOK, InBounds, SigOK, Anchored, HandlerAnchor, DrainAnchor
  <2> QED BY <1>4, <2>1, <2>2, <2>3, QuietStep
<1>7. CASE left # <<>>
  <2>1. IsNewest(Last(left), Owed) /\ Owed' = Owed \ {Last(left)}
    BY <1>2, <1>7, OwedIs DEF Owed, OwedIn
  <2>2. begun' = Last(left) /\ late' \in {late, late \cup {Last(left)}}
    BY <1>7 DEF Begin
  <2>3. begun' \in 0 .. MaxEns /\ late' \subseteq Ids
    BY <1>2, <1>7, <2>2 DEF IInv, Types, Ids
  <2>4. \A x \in Owed' : x <= count'
    BY <1>5, <2>1
  <2>5. IInv'
    BY <1>2, <1>3, <2>3, <2>4
       DEF IInv, Types, StackOK, InBounds, SigOK, Anchored, HandlerAnchor, DrainAnchor
  <2> QED BY <1>4, <2>1, <2>2, <2>5, StartStep
<1> QED BY <1>6, <1>7

\* A trap ends, an ensure block starts its next ensure or ends, in the running
\* frame or, when no signal came, where a raise was caught.
LEMMA LandStep ==
  ASSUME IInv, Runs("code"), NEW k, ClearAbove(frames, k), NEW f, f = frames[k],
         NEW j, j = Len(f.handlers), f.handlers # <<>>,
         k = Len(frames) \/ ~sig.on,
         Land(k, j), UNCHANGED <<alive, count>>
  PROVE  IInv' /\ [ES!Next]_(ES!vars)
<1> SUFFICES ASSUME NEW left, left = f.handlers[j].left,
                    NEW g, g = NextEnsure(Drop(f, j), left),
                    NEW n, n = Len(frames)
             PROVE  IInv' /\ [ES!Next]_(ES!vars)
  OBVIOUS
<1>1. /\ alive /\ ~sig.kill /\ (sig.on => sig.unwinding)
      /\ n \in Nat \ {0} /\ frames \in Seq(FrameSet)
      /\ Top.mode = "code" /\ Top = frames[n]
  BY RunsFacts
<1>0. k \in 1 .. Len(frames)
  BY DEF ClearAbove
<1>2. /\ Good(f) /\ f.handlers \in Seq(HandlerSet) /\ sig \in Sigs /\ SigOK(sig)
      /\ Anchored(frames, sig, late) /\ Whole(f) /\ 0 \notin late
  BY <1>0, IdsAreNumbers DEF IInv, Types, StackOK, Good, FrameSet
<1>3. j \in 1 .. Len(f.handlers) /\ j + 1 .. Len(f.handlers) = {}
  BY <1>2
<1>4. /\ frames' = Cut(frames, k, g)
      /\ IF left = <<>> THEN NothingBegins ELSE Begin(Last(left))
      /\ sig' = [sig EXCEPT !.unwinding =
                    @ /\ ~(f.handlers[j].ensure /\ left = <<>> /\ AtEnsureEnd(k, j - 1))]
  BY DEF Land, Cut, Drop
<1>5. /\ sig'.unwinding => sig.unwinding /\ ~(/\ f.handlers[j].ensure /\ left = <<>>
                                              /\ AtEnsureEnd(k, j - 1))
      /\ sig' \in Sigs /\ sig'.on = sig.on /\ sig'.kill = sig.kill
      /\ sig'.ensFrame = sig.ensFrame /\ sig'.ensHandlers = sig.ensHandlers
  BY <1>2, <1>4 DEF Sigs
<1>6. SigOK(sig') /\ ~sig'.kill
  BY <1>1, <1>2, <1>5 DEF SigOK
<1>10. StackPast(frames, k, j, left, frames')
  <2>1. Reached(frames[k], j)
    BY <1>3 DEF Reached
  <2>2. StackOK(frames) /\ InBounds(frames)
    BY DEF IInv, Types
  <2> QED BY <1>4, <2>1, <2>2, PastCut
<1>7. Anchored(frames', sig', late')
  <2>1. SUFFICES ASSUME sig'.unwinding PROVE Anchored(frames', sig', late')
    BY DEF Anchored
  <2>2. sig.unwinding /\ sig.on /\ k = n
    BY <1>2, <1>5, <2>1 DEF SigOK
  <2>3. /\ Len(frames') = n
        /\ \A i \in 1 .. n - 1 : frames'[i] = frames[i]
        /\ \A i \in 1 .. j - 1 : frames'[n].handlers[i] = f.handlers[i]
        /\ left = <<>> => Len(frames'[n].handlers) = j - 1
        /\ left # <<>> => Len(frames'[n].handlers) = j /\ frames'[n].handlers[j].running = Last(left)
    BY <1>10, <2>2 DEF StackPast
  <2>5. late \subseteq late' /\ (left # <<>> => Last(left) \in late')
    BY <1>4, <2>2 DEF NothingBegins, Begin
  <2>6. ASSUME sig.ensFrame = n, NEW i \in 1 .. Len(f.handlers),
               i = sig.ensHandlers + 1, f.handlers[i].running \in late
        PROVE  i \in 1 .. Len(frames'[n].handlers) /\ frames'[n].handlers[i].running \in late'
    <3>1. i \in 1 .. j - 1 \/ i = j
      BY <1>2
    <3>2. CASE i \in 1 .. j - 1
      BY <1>3, <2>3, <2>5, <2>6, <3>2
    <3>3. CASE i = j
      <4>1. f.handlers[j].ensure
        BY <1>2, <2>6, <3>3 DEF Whole
      <4>2. AtEnsureEnd(k, j - 1)
        BY <1>2, <1>3, <2>2, <2>6, <3>3 DEF AtEnsureEnd, Sigs
      <4>3. left # <<>>
        BY <1>5, <2>1, <4>1, <4>2
      <4>4. frames'[n].handlers[j].running = Last(left)
        BY <2>3, <4>3
      <4> QED BY <1>3, <2>3, <2>5, <3>3, <4>3, <4>4
    <3> QED BY <3>1, <3>2, <3>3
  <2>7. frames[n].mode # "exit" /\ frames[n] = f
    BY <1>1, <2>2
  <2>9. KeepsAnchor(frames, frames', n, sig, late, late')
    BY <1>1, <2>3, <2>5, <2>6, <2>7 DEF KeepsAnchor
  <2>8. Anchored(frames', sig, late')
    BY <1>2, <2>9, AnchorKept
  <2> QED BY <1>5, <2>2, <2>8 DEF Anchored, HandlerAnchor
<1>8. k # 0
  BY <1>0
<1>9. IF left = <<>> THEN NothingBegins ELSE Begin(Last(left))
  BY <1>4
<1>11. sig' \in Sigs
  BY <1>5
<1> QED BY <1>1, <1>6, <1>7, <1>8, <1>9, <1>10, <1>11, PastStep

\* The invariant's part about the abstract state is kept when it is the same.
LEMMA SameSteps ==
  ASSUME IInv, alive, StackOK(frames'), InBounds(frames'), frames' # <<>>,
         OwedIn(frames') = OwedIn(frames), Anchored(frames', sig', late'),
         sig' \in Sigs, SigOK(sig'), sig'.kill = sig.kill,
         UNCHANGED <<alive, count, begun, late>>
  PROVE  IInv' /\ [ES!Next]_(ES!vars)
<1>1. Owed' = Owed
  BY OwedIs DEF Owed, OwedIn
<1>2. Types'
  BY DEF IInv, Types, StackOK, InBounds
<1>3. IInv'
  BY <1>1, <1>2 DEF IInv, SigOK, Anchored, HandlerAnchor, DrainAnchor
<1>4. Life' = Life
  BY DEF Life
<1> QED BY <1>1, <1>3, <1>4, QuietStep

\* TRAPBEGIN.
LEMMA TrapBeginStep == ASSUME IInv, TrapBegin PROVE IInv' /\ [ES!Next]_(ES!vars)
<1>1. /\ Runs("code") /\ Len(Top.handlers) < MaxHandlers
      /\ SetTop([Top EXCEPT !.handlers = Append(@, Trap)])
      /\ UNCHANGED <<sig, alive, count, begun, late>>
  BY DEF TrapBegin
<1> QED BY <1>1, BlockOpens

\* TRAPENSURE.
LEMMA TrapEnsureStep == ASSUME IInv, TrapEnsure PROVE IInv' /\ [ES!Next]_(ES!vars)
<1>1. /\ Runs("code") /\ Len(Top.handlers) < MaxHandlers
      /\ SetTop([Top EXCEPT !.handlers = Append(@, Guard(<<>>, 0))])
      /\ UNCHANGED <<sig, alive, count, begun, late>>
  BY DEF TrapEnsure
<1> QED BY <1>1, BlockOpens

\* TRAPEND and ENSEND.
LEMMA TrapEndStep == ASSUME IInv, TrapEnd PROVE IInv' /\ [ES!Next]_(ES!vars)
<1>1. /\ Runs("code") /\ Top.handlers # <<>>
      /\ Land(Len(frames), Len(Top.handlers))
      /\ UNCHANGED <<alive, count>>
  BY DEF TrapEnd
<1>2. Len(frames) \in 1 .. Len(frames) /\ Top = frames[Len(frames)]
  BY <1>1, RunsFacts
<1>3. ClearAbove(frames, Len(frames))
  BY <1>2 DEF ClearAbove
<1> QED BY <1>1, <1>2, <1>3, LandStep

\* The running frame owes one more, a number greater than every other.
LEMMA MoreInTop ==
  ASSUME IInv, Runs("code"), count < MaxEns, NEW c, c = count + 1, count' = c,
         NEW g, OwesMore(Top, c, g), SetTop(g),
         UNCHANGED <<sig, alive, begun, late>>,
         NEW n, n = Len(frames)
  PROVE  IInv' /\ [ES!Next]_(ES!vars)
<1>1. /\ Good(g) /\ g.cleanups = Top.cleanups /\ g.mode = Top.mode
      /\ Len(g.handlers) = Len(Top.handlers)
      /\ \A i \in 1 .. Len(Top.handlers) :
            g.handlers[i].running = Top.handlers[i].running
  BY DEF OwesMore
<1>2. /\ alive /\ Life = "alive" /\ frames \in Seq(FrameSet) /\ frames # <<>>
      /\ n \in Nat \ {0} /\ n \in 1 .. n
      /\ Good(Top) /\ Top \in FrameSet /\ Top = frames[n] /\ Top.mode = "code"
      /\ Len(Top.handlers) <= MaxHandlers /\ (Top.cleanups # <<>> => n < MaxFrames)
  BY RunsFacts
<1>3. count \in Nat /\ c \in 0 .. MaxEns
  <2>1. count \in 0 .. MaxEns
    BY DEF IInv, Types
  <2> QED BY <2>1, UnwindBounds
<1>4. \A x \in Owed : x <= count /\ x \in Nat /\ x < c
  <2>1. Owed \subseteq Nat
    BY <1>2, OwedIs, OwedInMembers, IdsAreNumbers
  <2> QED BY <1>3, <2>1 DEF IInv
<1>8. /\ frames' = Cut(frames, n, g) /\ Len(frames') = n /\ frames'[n] = g
      /\ \A i \in 1 .. n - 1 : frames'[i] = frames[i]
  BY <1>1, SetTopIsCut
<1>9. StackOK(frames') /\ OwedIn(frames') = OwedIn(frames) \cup {c}
  <2>1. StackOK(frames) /\ OwesMore(frames[Len(frames)], c, g)
    BY <1>2 DEF IInv, Types
  <2>2. \A x \in OwedIn(frames) : x < c
    BY <1>4, OwedIs
  <2>3. /\ StackOK(Cut(frames, Len(frames), g))
        /\ OwedIn(Cut(frames, Len(frames), g)) = OwedIn(frames) \cup {c}
    BY <1>2, <2>1, <2>2, CutMore
  <2> QED BY <1>8, <2>3
<1>10. InBounds(frames')
  <2>1. InBounds(frames) /\ g \in FrameSet /\ n \in 1 .. Len(frames)
    BY <1>1, <1>2 DEF IInv, Types, Good
  <2>2. Len(g.handlers) <= MaxHandlers /\ (g.cleanups # <<>> => n < MaxFrames)
    BY <1>1, <1>2
  <2>3. InBounds(Cut(frames, n, g))
    BY <1>2, <2>1, <2>2, CutInBounds
  <2> QED BY <1>8, <2>3
<1>11. Anchored(frames', sig', late')
  <2>1. KeepsAnchor(frames, frames', n, sig, late, late)
    <3>1. /\ n = Len(frames) /\ n \in Nat \ {0}
          /\ Len(frames') \in Nat /\ Len(frames') >= n
          /\ \A i \in 1 .. n - 1 : frames'[i] = frames[i]
          /\ frames[n].mode # "exit"
      BY <1>2, <1>8
    <3>2. /\ Len(frames'[n].handlers) = Len(frames[n].handlers)
          /\ \A i \in 1 .. Len(frames[n].handlers) :
                frames'[n].handlers[i].running = frames[n].handlers[i].running
      BY <1>1, <1>2, <1>8
    <3> QED BY <3>1, <3>2 DEF KeepsAnchor
  <2>2. Anchored(frames', sig, late)
    BY <2>1, AnchorKept DEF IInv
  <2> QED BY <2>2
<1>12. Owed' = Owed \cup {c}
  BY <1>9, OwedIs DEF Owed, OwedIn
<1>13. \A x \in Owed' : x <= count'
  BY <1>3, <1>4, <1>12
<1>14. frames' # <<>>
  BY <1>2, <1>8
<1>15. Types'
  BY <1>3, <1>9, <1>10 DEF IInv, Types, StackOK, InBounds
<1>16. IInv'
  BY <1>2, <1>11, <1>13, <1>14, <1>15
     DEF IInv, SigOK, Anchored, HandlerAnchor, DrainAnchor
<1>17. Life' = "alive"
  BY <1>2 DEF Life
<1>18. ES!Register
  BY <1>2, <1>12, <1>17 DEF ES!Register
<1> QED BY <1>16, <1>18 DEF ES!Next

\* An ensure is registered.
LEMMA RegisterStep == ASSUME IInv, Register PROVE IInv' /\ [ES!Next]_(ES!vars)
<1> SUFFICES ASSUME NEW m, m = Len(Top.handlers), NEW c, c = count + 1,
                    NEW g, g = [Top EXCEPT !.handlers[m].left = Append(@, c)]
             PROVE  IInv' /\ [ES!Next]_(ES!vars)
  OBVIOUS
<1>1. /\ Runs("code") /\ count < MaxEns /\ count' = c
      /\ Top.handlers # <<>> /\ Last(Top.handlers).ensure
      /\ SetTop(g) /\ UNCHANGED <<sig, alive, begun, late>>
  BY DEF Register
<1>2. /\ frames \in Seq(FrameSet) /\ Len(frames) \in 1 .. Len(frames)
      /\ Good(Top) /\ Top = frames[Len(frames)] /\ Top.handlers \in Seq(HandlerSet)
  BY <1>1, RunsFacts DEF FrameSet
<1>3. count \in Nat /\ c \in Ids
  <2>1. count \in 0 .. MaxEns
    BY DEF IInv, Types
  <2> QED BY <1>1, <2>1, UnwindBounds DEF Ids
<1>4. \A x \in Owed : x < c
  <2>1. Owed \subseteq Nat
    BY <1>2, OwedIs, OwedInMembers, IdsAreNumbers
  <2>2. \A x \in Owed : x <= count
    BY DEF IInv
  <2> QED BY <1>3, <2>1, <2>2
<1>5. \A x \in OwedBy(Top) : x < c
  <2>1. \A x : x \in OwedIn(frames) <=> \E k \in 1 .. Len(frames) : x \in OwedBy(frames[k])
    BY <1>2, OwedInMembers
  <2> QED BY <1>2, <1>4, <2>1, OwedIs
<1>6. m # 0 /\ Top.handlers[m].ensure
  BY <1>1, <1>2 DEF Last
<1>7. Registers(Top, m, c, g)
  BY <1>2, <1>3, <1>5, <1>6 DEF Registers
<1>8. OwesMore(Top, c, g)
  BY <1>7, RegisterInFrame
<1> QED BY <1>1, <1>8, MoreInTop

\* The bounds of a stack with a frame more.
LEMMA PushInBounds ==
  ASSUME NEW s \in Seq(FrameSet), InBounds(s), Len(s) < MaxFrames,
         NEW t, t = Append(s, Frame)
  PROVE  InBounds(t)
<1>1. Len(s) \in Nat /\ Frame \in FrameSet /\ MaxFrames \in Nat /\ MaxHandlers \in Nat
  BY NewFrame, UnwindBounds DEF Good
<1>2. /\ Len(t) = Len(s) + 1 /\ t[Len(s) + 1] = Frame
      /\ \A i \in 1 .. Len(s) : t[i] = s[i]
  BY <1>1
<1>3. Len(Frame.handlers) = 0 /\ Frame.cleanups = <<>>
  BY DEF Frame
<1>4. /\ \A i : i \in 1 .. Len(s) + 1 <=> i \in 1 .. Len(s) \/ i = Len(s) + 1
      /\ Len(s) + 1 <= MaxFrames
  BY <1>1
<1> QED BY <1>1, <1>2, <1>3, <1>4 DEF InBounds

\* CALL.
LEMMA CallStep == ASSUME IInv, Call PROVE IInv' /\ [ES!Next]_(ES!vars)
<1> SUFFICES ASSUME NEW n, n = Len(frames) PROVE IInv' /\ [ES!Next]_(ES!vars)
  OBVIOUS
<1>1. /\ Runs("code") /\ n < MaxFrames /\ frames' = Append(frames, Frame)
      /\ UNCHANGED <<sig, alive, count, begun, late>>
  BY DEF Call
<1>2. /\ alive /\ frames \in Seq(FrameSet) /\ n \in Nat \ {0}
      /\ Top = frames[n] /\ Top.mode = "code"
  BY <1>1, RunsFacts
<1>3. StackOK(frames) /\ InBounds(frames) /\ Anchored(frames, sig, late)
  BY DEF IInv, Types
<1>4. /\ StackOK(frames') /\ OwedIn(frames') = OwedIn(frames)
      /\ Len(frames') = n + 1
      /\ \A i \in 1 .. n : frames'[i] = frames[i]
  BY <1>1, <1>3, PushFrame
<1>5. InBounds(frames')
  BY <1>1, <1>2, <1>3, PushInBounds
<1>6. KeepsAnchor(frames, frames', n, sig, late, late)
  BY <1>2, <1>4 DEF KeepsAnchor
<1>7. Anchored(frames', sig, late)
  BY <1>3, <1>6, AnchorKept
<1>8. frames' # <<>>
  BY <1>2, <1>4
<1>9. sig \in Sigs /\ SigOK(sig)
  BY DEF IInv, Types
<1> QED BY <1>1, <1>2, <1>4, <1>5, <1>7, <1>8, <1>9, SameSteps

\* TAILCALLENS: the ensures of the block become cleanups.
LEMMA TailCallEnsStep == ASSUME IInv, TailCallEns PROVE IInv' /\ [ES!Next]_(ES!vars)
<1> DEFINE f == Top
           left == f.handlers[1].left
           g == [f EXCEPT !.handlers = <<>>, !.cleanups = @ \o left]
<1>1. /\ Runs("code") /\ Len(f.handlers) = 1 /\ Len(frames) < MaxFrames
      /\ f.handlers[1].running = 0 /\ SetTop(g)
      /\ UNCHANGED <<sig, alive, count, begun, late>>
  BY DEF TailCallEns, Last
<1>2. Good(f) /\ f.mode = "code"
  BY <1>1, RunsFacts
<1>3. TailCalls(f, left, g)
  BY <1>1, <1>2 DEF TailCalls
<1> HIDE DEF g
<1>4. Good(g) /\ g.handlers = <<>> /\ OwedBy(g) = OwedBy(f)
  BY <1>3, TailCallInFrame
<1>5. Len(g.handlers) <= MaxHandlers
  BY <1>4, UnwindBounds
<1>6. Keeps(Top, g)
  BY <1>1, <1>4, <1>5 DEF Keeps
<1>7. Runs("code") /\ SetTop(g) /\ UNCHANGED <<sig, alive, count, begun, late>>
  BY <1>1
<1>8. g.cleanups # <<>> => Len(frames) < MaxFrames
  BY <1>1
<1> QED BY <1>6, <1>7, <1>8, QuietTop

\* The actor stops, when it owes nothing or was killed.
LEMMA StopsHere ==
  ASSUME IInv, alive, sig.kill \/ OwedIn(frames) = {}, ~sig.unwinding,
         frames' = <<>>, ~alive', alive' \in BOOLEAN,
         UNCHANGED <<sig, count, begun, late>>
  PROVE  IInv' /\ [ES!Next]_(ES!vars)
<1>1. Len(frames') = 0
  OBVIOUS
<1>2. Owed' = {}
  BY SetOfEmpty DEF Owed
<1>3. StackOK(frames') /\ InBounds(frames')
  BY <1>1, UnwindBounds DEF StackOK, InBounds
<1>4. IInv'
  BY <1>2, <1>3 DEF IInv, Types, StackOK, InBounds, SigOK, Anchored
<1>5. Life' = "dead" /\ (Life = "killed" \/ (Life = "alive" /\ Owed = {}))
  BY OwedIs DEF Life
<1> QED BY <1>2, <1>4, <1>5, StopStep

\* The running frame has no blocks open: it drains its cleanups.
LEMMA DrainTop ==
  ASSUME IInv, Runs("code"), Top.handlers = <<>>,
         SetTop([Top EXCEPT !.mode = "drain"]),
         UNCHANGED <<sig, alive, count, begun, late>>
  PROVE  IInv' /\ [ES!Next]_(ES!vars)
<1> DEFINE f == Top
           g == [f EXCEPT !.mode = "drain"]
<1>1. Good(f) /\ f \in FrameSet /\ (f.cleanups # <<>> => Len(frames) < MaxFrames)
  BY RunsFacts
<1>2. g \in FrameSet /\ g.handlers = <<>> /\ g.cleanups = f.cleanups
  BY <1>1 DEF FrameSet, Modes
<1>3. SetTop(g) /\ 1 .. Len(f.handlers) = {}
  OBVIOUS
<1> HIDE DEF g
<1>4. Good(g) /\ OwedBy(g) = OwedBy(f)
  BY <1>1, <1>2, <1>3, OnlyCleanups
<1>5. Keeps(Top, g)
  BY <1>2, <1>3, <1>4, UnwindBounds DEF Keeps
<1>6. g.cleanups # <<>> => Len(frames) < MaxFrames
  BY <1>1, <1>2
<1> QED BY <1>3, <1>5, <1>6, QuietTop

\* RETURN.
LEMMA ReturnStep == ASSUME IInv, Return PROVE IInv' /\ [ES!Next]_(ES!vars)
<1>1. /\ Runs("code") /\ Top.handlers = <<>> /\ UNCHANGED <<sig, count, begun, late>>
      /\ \/ SetTop([Top EXCEPT !.mode = "drain"]) /\ UNCHANGED alive
         \/ Top.cleanups = <<>> /\ frames' = Popped /\ alive' = (Below # <<>>)
  BY DEF Return
<1>2. CASE SetTop([Top EXCEPT !.mode = "drain"]) /\ UNCHANGED alive
  BY <1>1, <1>2, DrainTop
<1>3. CASE Top.cleanups = <<>> /\ frames' = Popped /\ alive' = (Below # <<>>)
  BY <1>1, <1>3, PopStep
<1> QED BY <1>1, <1>2, <1>3

\* A drain that has run all: its frame returns, or the unwind goes on.
LEMMA DrainEndStep == ASSUME IInv, DrainEnd PROVE IInv' /\ [ES!Next]_(ES!vars)
<1>1. /\ Top.cleanups = <<>> /\ UNCHANGED <<count, begun, late>>
      /\ \/ /\ Runs("drain")
            /\ frames' = Popped /\ alive' = (Below # <<>>) /\ UNCHANGED sig
         \/ /\ Runs("exit") /\ SetTop([Top EXCEPT !.mode = "done"])
            /\ sig' = [sig EXCEPT !.unwinding = FALSE] /\ UNCHANGED alive
  BY DEF DrainEnd
<1>2. CASE /\ Runs("drain")
           /\ frames' = Popped /\ alive' = (Below # <<>>) /\ UNCHANGED sig
  <2>1. Top.handlers = <<>>
    BY <1>2, RunsFacts DEF Good, Whole
  <2> QED BY <1>1, <1>2, <2>1, PopStep
<1>3. CASE /\ Runs("exit") /\ SetTop([Top EXCEPT !.mode = "done"])
           /\ sig' = [sig EXCEPT !.unwinding = FALSE] /\ UNCHANGED alive
  <2> DEFINE f == Top
             g == [f EXCEPT !.mode = "done"]
  <2>1. Good(f) /\ f \in FrameSet /\ f.handlers = <<>>
    BY <1>3, RunsFacts DEF Good, Whole
  <2>2. g \in FrameSet /\ g.handlers = <<>> /\ g.cleanups = f.cleanups
    BY <2>1 DEF FrameSet, Modes
  <2>3. SetTop(g) /\ 1 .. Len(f.handlers) = {}
    BY <1>3, <2>1
  <2> HIDE DEF g
  <2>4. Good(g) /\ OwedBy(g) = OwedBy(f)
    BY <2>1, <2>2, <2>3, OnlyCleanups
  <2>5. Keeps(Top, g)
    BY <2>1, <2>2, <2>3, <2>4, UnwindBounds DEF Keeps
  <2>6. g.cleanups = <<>>
    BY <1>1, <2>2
  <2> QED BY <1>1, <1>3, <2>3, <2>5, <2>6, QuietTop
<1> QED BY <1>1, <1>2, <1>3

\* The newest ensure starts; the stack owes the others.
LEMMA NewestStarts ==
  ASSUME IInv, alive, ~sig.kill, StackOK(frames'), InBounds(frames'), frames' # <<>>,
         NEW v \in Ids, IsNewest(v, OwedIn(frames)),
         OwedIn(frames') = OwedIn(frames) \ {v}, Begin(v),
         sig' \in Sigs, ~sig'.kill, SigOK(sig'), Anchored(frames', sig', late'),
         UNCHANGED <<alive, count>>
  PROVE  IInv' /\ [ES!Next]_(ES!vars)
<1>1. Life = "alive" /\ Life' = "alive"
  BY DEF Life
<1>2. IsNewest(v, Owed) /\ Owed' = Owed \ {v}
  BY OwedIs DEF Owed, OwedIn
<1>3. begun' = v /\ late' \in {late, late \cup {v}}
  BY DEF Begin
<1>4. begun' \in 0 .. MaxEns /\ late' \subseteq Ids
  BY <1>3 DEF IInv, Types, Ids
<1>5. \A x \in Owed' : x <= count'
  BY <1>2 DEF IInv
<1>6. IInv'
  BY <1>4, <1>5
     DEF IInv, Types, StackOK, InBounds, SigOK, Anchored, HandlerAnchor, DrainAnchor
<1> QED BY <1>1, <1>2, <1>3, <1>6, StartStep

\* A drain calls the closure of its next cleanup.
LEMMA DrainNextStep == ASSUME IInv, DrainNext PROVE IInv' /\ [ES!Next]_(ES!vars)
<1> DEFINE n == Len(frames)
           f == Top
           v == Last(f.cleanups)
           g == [f EXCEPT !.cleanups = Front(@), !.running = v]
           s == Cut(frames, n, g)
<1>1. /\ Runs("drain") \/ Runs("exit")
      /\ f.cleanups # <<>> /\ Begin(v) /\ UNCHANGED <<sig, alive, count>>
      /\ frames' = Append(Append(Below, g), Frame)
  BY DEF DrainNext
<1>2. /\ alive /\ ~sig.kill /\ (sig.on => sig.unwinding)
      /\ frames \in Seq(FrameSet) /\ frames # <<>> /\ n \in Nat \ {0} /\ n \in 1 .. n
      /\ Good(f) /\ f \in FrameSet /\ f = frames[n] /\ f.mode \in {"drain", "exit"}
      /\ n < MaxFrames
  BY <1>1, RunsFacts
<1>3. f.handlers = <<>>
  BY <1>2 DEF Good, Whole
<1>4. /\ Good(g) /\ g.handlers = <<>> /\ g.mode = f.mode
      /\ g.cleanups = Front(f.cleanups) /\ g.running = v /\ v \in Ids
      /\ IsNewest(v, OwedBy(f)) /\ OwedBy(g) = OwedBy(f) \ {v}
  <2>1. DrainsOne(f, g)
    BY <1>1, <1>2, <1>3 DEF DrainsOne
  <2> HIDE DEF g
  <2> QED BY <2>1, DrainInFrame DEF v
<1>5. frames' = Append(s, Frame)
  BY <1>1, Zenon DEF Cut, Below, Front
<1> HIDE DEF g, v
<1>6. /\ StackOK(frames) /\ InBounds(frames) /\ ClearAbove(frames, n)
      /\ sig \in Sigs /\ SigOK(sig) /\ Anchored(frames, sig, late)
  BY <1>2 DEF IInv, Types, ClearAbove
<1>7. /\ StackOK(s) /\ IsNewest(v, OwedIn(frames)) /\ OwedIn(s) = OwedIn(frames) \ {v}
  <2>1. IsNewest(v, OwedBy(frames[n])) /\ OwedBy(g) = OwedBy(frames[n]) \ {v}
    BY <1>2, <1>4
  <2>2. StackOK(frames) /\ ClearAbove(frames, n) /\ Good(g)
    BY <1>4, <1>6
  <2> QED BY <2>1, <2>2, CutNewest
<1>8. /\ s \in Seq(FrameSet) /\ Len(s) = n /\ s[n] = g
      /\ \A i \in 1 .. n - 1 : s[i] = frames[i]
  <2>1. g \in FrameSet
    BY <1>4 DEF Good
  <2> QED BY <1>2, <2>1, CutFrames
<1>9. InBounds(s)
  <2>1. g \in FrameSet /\ Len(g.handlers) <= MaxHandlers
    BY <1>4, UnwindBounds DEF Good
  <2> QED BY <1>2, <1>6, <2>1, CutInBounds
<1> HIDE DEF s
<1>10. /\ StackOK(frames') /\ OwedIn(frames') = OwedIn(s)
       /\ Len(frames') = n + 1 /\ \A i \in 1 .. n : frames'[i] = s[i]
  <2>1. StackOK(s)
    BY <1>7
  <2>2. /\ StackOK(frames') /\ OwedIn(frames') = OwedIn(s)
        /\ Len(frames') = Len(s) + 1 /\ \A i \in 1 .. Len(s) : frames'[i] = s[i]
    BY <1>5, <2>1, PushFrame
  <2> QED BY <1>8, <2>2
<1>11. InBounds(frames')
  BY <1>2, <1>5, <1>8, <1>9, PushInBounds
<1>12. Anchored(frames', sig, late')
  <2>1. CASE sig.unwinding
    <3>1. v \in late' /\ late \subseteq late'
      BY <1>1, <1>6, <2>1 DEF Begin, SigOK
    <3>2. /\ n = Len(frames) /\ Len(frames') \in Nat /\ Len(frames') >= n
          /\ \A i \in 1 .. n - 1 : frames'[i] = frames[i]
          /\ frames'[n] = g
      BY <1>2, <1>8, <1>10
    <3>3. 1 .. Len(frames[n].handlers) = {}
      BY <1>2, <1>3
    <3>4. frames[n].mode # "exit" \/ (g.mode = "exit" /\ g.running \in late')
      BY <1>2, <1>4, <3>1
    <3>5. KeepsAnchor(frames, frames', n, sig, late, late')
      BY <1>2, <3>1, <3>2, <3>3, <3>4 DEF KeepsAnchor
    <3> QED BY <1>6, <3>5, AnchorKept
  <2>2. CASE ~sig.unwinding
    BY <2>2 DEF Anchored
  <2> QED BY <2>1, <2>2
<1>13. frames' # <<>>
  BY <1>2, <1>10
<1>14. OwedIn(frames') = OwedIn(frames) \ {v}
  BY <1>7, <1>10
<1> QED BY <1>1, <1>2, <1>4, <1>6, <1>7, <1>10, <1>11, <1>12, <1>13, <1>14, NewestStarts

\* An exit signal: the actor goes on until its unwind starts; :kill counts.
LEMMA ExitStep == ASSUME IInv, Exit PROVE IInv' /\ [ES!Next]_(ES!vars)
<1>1. /\ alive /\ UNCHANGED <<frames, alive, count, begun, late>>
      /\ \E kill \in BOOLEAN :
            \/ ~sig.on /\ sig' = [NoSig EXCEPT !.on = TRUE, !.kill = kill]
            \/ /\ sig.on /\ kill /\ ~sig.kill
               /\ sig' = [sig EXCEPT !.kill = TRUE, !.unwinding = FALSE]
  BY DEF Exit
<1>2. sig \in Sigs /\ SigOK(sig) /\ 1 \in 1 .. MaxFrames /\ 0 \in 0 .. MaxHandlers
  BY UnwindBounds DEF IInv, Types
<1>3. ~sig.kill /\ sig' \in Sigs /\ SigOK(sig') /\ ~sig'.unwinding
  BY <1>1, <1>2 DEF NoSig, Sigs, SigOK
<1>4. Owed' = Owed
  BY <1>1 DEF Owed
<1>5. IInv'
  BY <1>1, <1>3, <1>4 DEF IInv, Types, StackOK, InBounds, SigOK, Anchored
<1>6. Life = "alive" /\ Life' = IF sig'.kill THEN "killed" ELSE "alive"
  BY <1>1, <1>3 DEF Life
<1>7. CASE sig'.kill
  <2>1. ES!Kill
    BY <1>1, <1>4, <1>6, <1>7 DEF ES!Kill
  <2> QED BY <1>5, <2>1 DEF ES!Next
<1>8. CASE ~sig'.kill
  <2>1. Life' = Life
    BY <1>6, <1>8
  <2> QED BY <1>1, <1>4, <1>5, <2>1, QuietStep
<1> QED BY <1>7, <1>8

\* A raise that no frame of the running actor's stack above frame k answers
\* finds nothing owed there.
LEMMA AboveCatcher ==
  ASSUME IInv, Runs("code"), Top.handlers = <<>>, Top.cleanups = <<>>,
         NEW n, n = Len(frames),
         NEW k \in Nat, \A l \in k + 1 .. n - 1 : ~Catches(frames[l])
  PROVE  \A l \in k + 1 .. n : OwedBy(frames[l]) = {}
<1>1. /\ frames \in Seq(FrameSet) /\ n \in Nat \ {0} /\ Top = frames[n]
  BY RunsFacts
<1> SUFFICES ASSUME NEW l \in k + 1 .. n PROVE OwedBy(frames[l]) = {}
  OBVIOUS
<1>2. l \in 1 .. n /\ frames[l] \in FrameSet
  BY <1>1
<1>3. frames[l].handlers = <<>> /\ frames[l].cleanups = <<>>
  <2>1. CASE l = n
    BY <1>1, <2>1
  <2>2. CASE l # n
    <3>1. l \in k + 1 .. n - 1
      BY <1>1, <2>2
    <3> QED BY <3>1 DEF Catches
  <2> QED BY <2>1, <2>2
<1>4. 1 .. Len(frames[l].handlers) = {}
  BY <1>3
<1> QED BY <1>2, <1>3, <1>4, OwesNothing

\* A raise that a drain takes from its closure, or a frame with cleanups.
LEMMA CatchStep ==
  ASSUME IInv, alive, ~sig.on, NEW k, ClearAbove(frames, k),
         NEW f, f = frames[k], f.handlers = <<>>,
         CatchCleanups(k), k < MaxFrames, UNCHANGED <<alive, count>>
  PROVE  IInv' /\ [ES!Next]_(ES!vars)
<1> DEFINE g == [f EXCEPT !.mode = IF @ = "code" THEN "drain" ELSE @, !.running = 0]
<1>1. k \in 1 .. Len(frames) /\ sig \in Sigs /\ SigOK(sig)
  BY DEF ClearAbove, IInv, Types
<1>2. Good(f) /\ f \in FrameSet
  BY <1>1 DEF IInv, Types, StackOK, Good
<1>3. g \in FrameSet /\ g.handlers = <<>> /\ g.cleanups = f.cleanups
  BY <1>2 DEF FrameSet, Modes
<1>4. 1 .. Len(f.handlers) = {} /\ Len(g.handlers) <= MaxHandlers
  BY <1>3, UnwindBounds
<1>5. /\ frames' = Cut(frames, k, g)
      /\ UNCHANGED <<sig, alive, count, begun, late>>
  BY DEF CatchCleanups, Cut, NothingBegins
<1> HIDE DEF g
<1>6. Good(g) /\ OwedBy(g) = OwedBy(f)
  BY <1>2, <1>3, <1>4, OnlyCleanups
<1>7. Anchored(frames', sig', late')
  BY <1>1, <1>5 DEF Anchored, SigOK
<1>8. OwedBy(g) = OwedBy(frames[k]) /\ sig' \in Sigs /\ sig'.kill = sig.kill /\ SigOK(sig')
  BY <1>1, <1>5, <1>6
<1> QED BY <1>4, <1>5, <1>6, <1>7, <1>8, QuietCut

\* RAISE, and every opcode that fails.
LEMMA RaiseStep == ASSUME IInv, Raise PROVE IInv' /\ [ES!Next]_(ES!vars)
<1> SUFFICES ASSUME NEW n, n = Len(frames) PROVE IInv' /\ [ES!Next]_(ES!vars)
  OBVIOUS
<1>1. /\ Runs("code") /\ UNCHANGED count
      /\ \/ /\ Top.handlers # <<>> /\ Land(n, Len(Top.handlers)) /\ UNCHANGED alive
         \/ Top.handlers = <<>> /\ RaiseOut
  BY DEF Raise
<1>2. /\ alive /\ ~sig.kill /\ frames \in Seq(FrameSet) /\ frames # <<>>
      /\ n \in Nat \ {0} /\ n \in 1 .. n /\ Top = frames[n] /\ n <= MaxFrames
  BY <1>1, RunsFacts
<1>3. /\ sig \in Sigs /\ SigOK(sig) /\ StackOK(frames) /\ InBounds(frames)
      /\ ClearAbove(frames, n)
  BY <1>2 DEF IInv, Types, ClearAbove
<1>4. CASE Top.handlers # <<>> /\ Land(n, Len(Top.handlers)) /\ UNCHANGED alive
  BY <1>1, <1>2, <1>3, <1>4, LandStep
<1>5. CASE Top.handlers = <<>> /\ sig.on /\ sig' = [sig EXCEPT !.unwinding = FALSE]
           /\ NothingBegins /\ UNCHANGED <<frames, alive>>
  <2>1. /\ sig' \in Sigs /\ SigOK(sig') /\ sig'.kill = sig.kill /\ ~sig'.unwinding
    BY <1>3, <1>5 DEF Sigs, SigOK
  <2>2. Anchored(frames', sig', late')
    BY <2>1 DEF Anchored
  <2>3. /\ StackOK(frames') /\ InBounds(frames') /\ OwedIn(frames') = OwedIn(frames)
    BY <1>3, <1>5 DEF StackOK, InBounds
  <2>4. UNCHANGED <<alive, count, begun, late>> /\ frames' # <<>>
    BY <1>1, <1>2, <1>5 DEF NothingBegins
  <2> QED BY <1>2, <2>1, <2>2, <2>3, <2>4, SameSteps
<1>6. CASE /\ Top.handlers = <<>> /\ SetTop([Top EXCEPT !.mode = "drain"])
           /\ NothingBegins /\ UNCHANGED <<sig, alive>>
  BY <1>1, <1>6, DrainTop DEF NothingBegins
<1>7. DOMAIN Below = 1 .. n - 1
  <2>1. Below \in Seq(FrameSet) /\ Len(Below) = n - 1
    BY <1>2, FrontIs DEF Below
  <2> QED BY <2>1
<1>8. Catchers = {l \in 1 .. n - 1 : Catches(frames[l])}
  BY <1>7 DEF Catchers
<1>9. CASE /\ Top.handlers = <<>> /\ ~sig.on /\ Top.cleanups = <<>> /\ Catchers # {}
           /\ IF frames[Max(Catchers)].handlers # <<>>
              THEN Land(Max(Catchers), Len(frames[Max(Catchers)].handlers))
              ELSE CatchCleanups(Max(Catchers))
           /\ UNCHANGED alive
  <2> DEFINE k == Max(Catchers)
  <2>1. k \in Catchers /\ \A l \in Catchers : l <= k
    <3>1. n - 1 \in Nat /\ Catchers \subseteq 1 .. n - 1
      BY <1>2, <1>8
    <3> QED BY <1>9, <3>1, MaxIs
  <2> HIDE DEF k
  <2>2. k \in 1 .. n - 1 /\ k \in Nat /\ k < n
    BY <1>2, <1>8, <2>1
  <2>3. \A l \in k + 1 .. n - 1 : ~Catches(frames[l])
    <3> SUFFICES ASSUME NEW l \in k + 1 .. n - 1 PROVE ~Catches(frames[l])
      OBVIOUS
    <3>1. l \in 1 .. n - 1 /\ ~(l <= k)
      BY <2>2
    <3> QED BY <1>8, <2>1, <3>1
  <2>4. \A l \in k + 1 .. n : OwedBy(frames[l]) = {}
    BY <1>1, <1>9, <2>2, <2>3, AboveCatcher
  <2>5. ClearAbove(frames, k)
    <3>1. k \in 1 .. n
      BY <1>2, <2>2
    <3> QED BY <2>4, <3>1 DEF ClearAbove
  <2>6. CASE frames[k].handlers # <<>>
    <3>1. Land(k, Len(frames[k].handlers)) /\ UNCHANGED <<alive, count>>
      BY <1>1, <1>9, <2>6 DEF k
    <3> QED BY <1>1, <1>9, <2>5, <2>6, <3>1, LandStep
  <2>7. CASE frames[k].handlers = <<>>
    <3>1. CatchCleanups(k) /\ UNCHANGED <<alive, count>>
      BY <1>1, <1>9, <2>7 DEF k
    <3>2. k < MaxFrames
      BY <1>2, <2>2, UnwindBounds
    <3> QED BY <1>2, <1>9, <2>5, <2>7, <3>1, <3>2, CatchStep
  <2> QED BY <2>6, <2>7
<1>10. CASE /\ Top.handlers = <<>> /\ ~sig.on /\ Top.cleanups = <<>> /\ Catchers = {}
            /\ frames' = <<>> /\ alive' = FALSE /\ NothingBegins /\ UNCHANGED sig
  <2>1. \A l \in 0 + 1 .. n - 1 : ~Catches(frames[l])
    BY <1>8, <1>10
  <2>2. \A l \in 0 + 1 .. n : OwedBy(frames[l]) = {}
    BY <1>1, <1>10, <2>1, AboveCatcher
  <2>3. OwedIn(frames) = {}
    <3>1. \A x : x \in OwedIn(frames) <=> \E l \in 1 .. n : x \in OwedBy(frames[l])
      BY <1>2, OwedInMembers
    <3> QED BY <2>2, <3>1
  <2>4. ~sig.unwinding /\ UNCHANGED <<sig, count, begun, late>> /\ alive' \in BOOLEAN
    BY <1>1, <1>3, <1>10 DEF SigOK, NothingBegins
  <2> QED BY <1>2, <1>10, <2>3, <2>4, StopsHere
<1> QED BY <1>1, <1>4, <1>5, <1>6, <1>9, <1>10 DEF RaiseOut

\* Frames the unwind drops owe nothing, and no more do the handlers it drops.
LEMMA UnwindDrops ==
  ASSUME IInv, NEW k \in 1 .. Len(frames)
  PROVE  /\ \A j \in 1 .. Len(frames[k].handlers) :
               j \notin Entries(frames[k]) => frames[k].handlers[j].left = <<>>
         /\ Entries(frames[k]) = {} /\ ~Drains(frames[k]) => OwedBy(frames[k]) = {}
         /\ Entries(frames[k]) \subseteq 1 .. Len(frames[k].handlers)
         /\ Len(frames[k].handlers) \in Nat
<1> DEFINE f == frames[k]
<1>1. f \in FrameSet /\ Whole(f) /\ f.handlers \in Seq(HandlerSet)
  BY DEF IInv, Types, StackOK, Good, FrameSet
<1> HIDE DEF f
<1>2. /\ DOMAIN f.handlers = 1 .. Len(f.handlers) /\ Len(f.handlers) \in Nat
      /\ Entries(f) \subseteq 1 .. Len(f.handlers)
  BY <1>1 DEF Entries
<1>3. \A j \in 1 .. Len(f.handlers) : j \notin Entries(f) => f.handlers[j].left = <<>>
  BY <1>1, <1>2 DEF Entries, Whole
<1>4. Entries(f) = {} /\ ~Drains(f) => OwedBy(f) = {}
  BY <1>1, <1>3, OwesNothing DEF Drains
<1> QED BY <1>2, <1>3, <1>4 DEF f

\* The unwind enters the block of handler j of frame k.
LEMMA EnterEnsureStep ==
  ASSUME IInv, alive, sig.on, ~sig.kill, NEW k, ClearAbove(frames, k),
         NEW j, Reached(frames[k], j), EnterEnsure(k, j), UNCHANGED <<alive, count>>
  PROVE  IInv' /\ [ES!Next]_(ES!vars)
<1> DEFINE f == frames[k]
           left == f.handlers[j].left
           g == NextEnsure(Drop(f, j), left)
<1>1. /\ frames' = Cut(frames, k, g)
      /\ sig' = [sig EXCEPT !.unwinding = left # <<>>,
                            !.ensFrame = k, !.ensHandlers = j - 1]
      /\ IF left = <<>> THEN NothingBegins ELSE Begin(Last(left))
  BY DEF EnterEnsure, Cut, Drop
<1>2. StackOK(frames) /\ InBounds(frames) /\ sig \in Sigs
  BY DEF IInv, Types
<1>3. StackPast(frames, k, j, left, frames')
  BY <1>1, <1>2, PastCut
<1> HIDE DEF left
<1>4. /\ k \in 1 .. Len(frames) /\ Len(frames) \in Nat /\ Len(frames) <= MaxFrames
      /\ j \in 1 .. Len(f.handlers) /\ Len(f.handlers) \in Nat
      /\ Len(f.handlers) <= MaxHandlers
  <2>1. k \in 1 .. Len(frames) /\ j \in 1 .. Len(f.handlers)
    BY DEF ClearAbove, Reached
  <2> QED BY <1>2, <2>1, UnwindDrops DEF StackOK, InBounds
<1>5. k \in 1 .. MaxFrames /\ j - 1 \in 0 .. MaxHandlers /\ k # 0 /\ j \in Nat \ {0}
  BY <1>4, UnwindBounds
<1>6. /\ sig' \in Sigs /\ sig'.on /\ ~sig'.kill
      /\ (sig'.unwinding <=> left # <<>>)
      /\ sig'.ensFrame = k /\ sig'.ensHandlers = j - 1
  BY <1>1, <1>2, <1>5 DEF Sigs
<1>7. SigOK(sig')
  BY <1>6 DEF SigOK
<1>8. Anchored(frames', sig', late')
  <2> SUFFICES ASSUME left # <<>> PROVE HandlerAnchor(frames', sig', late')
    BY <1>6 DEF Anchored
  <2>1. /\ Len(frames') = k /\ Len(frames'[k].handlers) = j
        /\ frames'[k].handlers[j].running = Last(left)
    BY <1>3 DEF StackPast
  <2>2. Last(left) \in late'
    BY <1>1 DEF Begin
  <2>3. sig'.ensHandlers + 1 = j /\ j \in 1 .. j /\ k \in 1 .. k
    BY <1>4, <1>5, <1>6
  <2> QED BY <1>6, <2>1, <2>2, <2>3 DEF HandlerAnchor
<1>9. IF left = <<>> THEN NothingBegins ELSE Begin(Last(left))
  BY <1>1
<1> QED BY <1>3, <1>5, <1>6, <1>7, <1>8, <1>9, PastStep

\* The unwind runs the cleanups of frame k.
LEMMA EnterDrainStep ==
  ASSUME IInv, alive, sig.on, ~sig.kill, NEW k, ClearAbove(frames, k),
         Entries(frames[k]) = {}, EnterDrain(k), UNCHANGED <<alive, count>>
  PROVE  IInv' /\ [ES!Next]_(ES!vars)
<1> DEFINE f == frames[k]
           g == [f EXCEPT !.handlers = <<>>, !.mode = "exit", !.running = 0]
<1>1. /\ k \in 1 .. Len(frames) /\ sig \in Sigs /\ InBounds(frames)
      /\ frames \in Seq(FrameSet)
  BY DEF ClearAbove, IInv, Types, StackOK
<1>2. Good(f) /\ f \in FrameSet
  BY <1>1 DEF IInv, Types, StackOK, Good
<1>3. g \in FrameSet /\ g.handlers = <<>> /\ g.cleanups = f.cleanups /\ g.mode = "exit"
  <2>1. <<>> \in Seq(HandlerSet)
    OBVIOUS
  <2> QED BY <1>2, <2>1 DEF FrameSet, Modes
<1>4. \A j \in 1 .. Len(f.handlers) : f.handlers[j].left = <<>>
  BY <1>1, UnwindDrops
<1>5. /\ frames' = Cut(frames, k, g) /\ sig' = [sig EXCEPT !.unwinding = TRUE]
      /\ UNCHANGED <<begun, late>>
  BY DEF EnterDrain, Cut, NothingBegins
<1> HIDE DEF g
<1>6. Good(g) /\ OwedBy(g) = OwedBy(f)
  BY <1>2, <1>3, <1>4, OnlyCleanups
<1>7. Len(g.handlers) <= MaxHandlers /\ (g.cleanups # <<>> => k < MaxFrames)
  BY <1>1, <1>3, UnwindBounds DEF InBounds
<1>8. sig' \in Sigs /\ sig'.kill = sig.kill /\ SigOK(sig')
  BY <1>1, <1>5 DEF Sigs, SigOK
<1>9. Anchored(frames', sig', late')
  <2>1. Len(Cut(frames, k, g)) = k /\ Cut(frames, k, g)[k] = g
    BY <1>1, <1>3, CutFrames
  <2>2. Len(frames') = k /\ frames'[k] = g /\ k \in 1 .. k /\ ~(k < k)
    BY <1>1, <1>5, <2>1
  <2>3. DrainAnchor(frames', late')
    BY <1>3, <2>2 DEF DrainAnchor
  <2> QED BY <2>3 DEF Anchored
<1>10. OwedBy(g) = OwedBy(frames[k])
  BY <1>6
<1> QED BY <1>5, <1>6, <1>7, <1>8, <1>9, <1>10, QuietCut

\* The unwind of an exit: what it drops owes nothing, or the actor was killed.
LEMMA UnwindExitStep == ASSUME IInv, UnwindExit PROVE IInv' /\ [ES!Next]_(ES!vars)
<1> SUFFICES ASSUME NEW n, n = Len(frames) PROVE IInv' /\ [ES!Next]_(ES!vars)
  OBVIOUS
<1>1. alive /\ sig.on /\ ~sig.unwinding /\ UNCHANGED count
  BY DEF UnwindExit, ExitPending
<1>2. frames \in Seq(FrameSet) /\ n \in Nat /\ DOMAIN frames = 1 .. n
  BY DEF IInv, Types, StackOK
<1>3. ~sig.kill => Stops = {k \in 1 .. n : Entries(frames[k]) # {} \/ Drains(frames[k])}
  BY <1>2 DEF Stops
<1>4. sig.kill => Stops = {}
  BY DEF Stops
<1>5. CASE /\ Stops # {} /\ UNCHANGED alive
           /\ IF Entries(frames[Max(Stops)]) # {}
              THEN EnterEnsure(Max(Stops), Max(Entries(frames[Max(Stops)])))
              ELSE EnterDrain(Max(Stops))
  <2> DEFINE k == Max(Stops)
  <2>0. ~sig.kill
    BY <1>4, <1>5
  <2>1. k \in Stops /\ \A l \in Stops : l <= k
    <3>1. Stops \subseteq 1 .. n
      BY <1>3, <2>0
    <3> QED BY <1>2, <1>5, <3>1, MaxIs
  <2> HIDE DEF k
  <2>2. k \in 1 .. n
    BY <1>3, <2>0, <2>1
  <2>3. \A l \in k + 1 .. n : OwedBy(frames[l]) = {}
    <3> SUFFICES ASSUME NEW l \in k + 1 .. n PROVE OwedBy(frames[l]) = {}
      OBVIOUS
    <3>1. l \in 1 .. n /\ ~(l <= k)
      BY <1>2, <2>2
    <3>2. Entries(frames[l]) = {} /\ ~Drains(frames[l])
      BY <1>3, <2>0, <2>1, <3>1
    <3> QED BY <3>1, <3>2, UnwindDrops
  <2>4. ClearAbove(frames, k)
    BY <2>2, <2>3 DEF ClearAbove
  <2>5. CASE Entries(frames[k]) # {}
    <3> DEFINE j == Max(Entries(frames[k]))
    <3>1. /\ \A i \in 1 .. Len(frames[k].handlers) :
                i \notin Entries(frames[k]) => frames[k].handlers[i].left = <<>>
          /\ Entries(frames[k]) \subseteq 1 .. Len(frames[k].handlers)
          /\ Len(frames[k].handlers) \in Nat
      BY <2>2, UnwindDrops
    <3>2. j \in Entries(frames[k]) /\ \A i \in Entries(frames[k]) : i <= j
      BY <2>5, <3>1, MaxIs
    <3>3. EnterEnsure(k, j)
      BY <1>5, <2>5 DEF k
    <3> HIDE DEF j
    <3>4. Reached(frames[k], j)
      <4>1. j \in 1 .. Len(frames[k].handlers)
        BY <3>1, <3>2
      <4>2. ASSUME NEW i \in j + 1 .. Len(frames[k].handlers)
            PROVE  frames[k].handlers[i].left = <<>>
        <5>1. i \in 1 .. Len(frames[k].handlers) /\ ~(i <= j)
          BY <3>1, <4>1
        <5> QED BY <3>1, <3>2, <5>1
      <4> QED BY <4>1, <4>2 DEF Reached
    <3> QED BY <1>1, <1>5, <2>0, <2>4, <3>3, <3>4, EnterEnsureStep
  <2>6. CASE Entries(frames[k]) = {}
    <3>1. EnterDrain(k)
      BY <1>5, <2>6 DEF k
    <3> QED BY <1>1, <1>5, <2>0, <2>4, <2>6, <3>1, EnterDrainStep
  <2> QED BY <2>5, <2>6
<1>6. CASE /\ Stops = {} /\ frames' = <<>> /\ alive' = FALSE
           /\ NothingBegins /\ UNCHANGED sig
  <2>1. CASE ~sig.kill
    <3>1. \A l \in 1 .. n : OwedBy(frames[l]) = {}
      BY <1>3, <1>6, <2>1, UnwindDrops
    <3>2. \A x : x \in OwedIn(frames) <=> \E l \in 1 .. n : x \in OwedBy(frames[l])
      BY <1>2, OwedInMembers
    <3>3. OwedIn(frames) = {}
      BY <3>1, <3>2
    <3> QED BY <1>1, <1>6, <3>3, StopsHere DEF NothingBegins
  <2>2. CASE sig.kill
    BY <1>1, <1>6, <2>2, StopsHere DEF NothingBegins
  <2> QED BY <2>1, <2>2
<1> QED BY <1>5, <1>6 DEF UnwindExit

\* Every step keeps the invariant, and is a step of the abstract specification
\* or changes nothing there.
LEMMA NextStep == ASSUME IInv, [Next]_vars PROVE IInv' /\ [ES!Next]_(ES!vars)
<1>1. CASE Open
  BY <1>1, TrapBeginStep, TrapEnsureStep, RegisterStep, CallStep, TailCallEnsStep
     DEF Open
<1>2. CASE Close
  <2>1. CASE Drain
    BY <2>1, DrainNextStep, DrainEndStep DEF Drain
  <2> QED BY <1>2, <2>1, TrapEndStep, ReturnStep, UnwindExitStep DEF Close
<1>3. CASE Raise
  BY <1>3, RaiseStep
<1>4. CASE Exit
  BY <1>4, ExitStep
<1>5. CASE UNCHANGED vars
  <2>1. /\ IInv'
        /\ Owed' = Owed /\ Life' = Life
    BY <1>5 DEF vars, IInv, Types, StackOK, InBounds, SigOK, Anchored,
                HandlerAnchor, DrainAnchor, Owed, Life
  <2> QED BY <1>5, <2>1, QuietStep DEF vars
<1> QED BY <1>1, <1>2, <1>3, <1>4, <1>5 DEF Next, Dead

\* An actor starts with one frame and owes nothing.
LEMMA Start0 == ASSUME Init PROVE IInv /\ ES!Init
<1>1. StackOK(<<>>) /\ InBounds(<<>>)
  BY UnwindBounds DEF StackOK, InBounds
<1>2. <<Frame>> = Append(<<>>, Frame) /\ <<>> \in Seq(FrameSet) /\ Len(<<>>) < MaxFrames
  BY UnwindBounds
<1>3. frames = Append(<<>>, Frame)
  BY <1>2 DEF Init
<1>4. StackOK(frames) /\ OwedIn(frames) = OwedIn(<<>>) /\ Len(frames) = 1
  <2>1. \A s : StackOK(s) /\ frames = Append(s, Frame) =>
                  /\ StackOK(frames) /\ OwedIn(frames) = OwedIn(s)
                  /\ Len(frames) = Len(s) + 1
    BY PushFrame
  <2>2. Len(<<>>) = 0
    OBVIOUS
  <2> QED BY <1>1, <1>3, <2>1, <2>2
<1>5. InBounds(frames)
  BY <1>1, <1>2, <1>3, PushInBounds
<1>6. Owed = {}
  BY <1>4, OwedIs, SetOfEmpty DEF OwedIn
<1>7. /\ sig \in Sigs /\ ~sig.kill /\ ~sig.unwinding /\ alive /\ frames # <<>>
      /\ count = 0 /\ begun = 0 /\ late = {}
  BY <1>4, UnwindBounds DEF Init, NoSig, Sigs
<1>8. IInv
  BY <1>4, <1>5, <1>6, <1>7, UnwindBounds DEF IInv, Types, SigOK, Anchored
<1>9. ES!Init
  BY <1>6, <1>7 DEF ES!Init, Life
<1> QED BY <1>8, <1>9

-----------------------------------------------------------------------------
(* Theorems. *)

\* The invariant holds in every state.
THEOREM Inductive == Spec => []IInv
<1>1. Init => IInv
  BY Start0
<1>2. IInv /\ [Next]_vars => IInv'
  BY NextStep
<1> QED BY <1>1, <1>2, PTL DEF Spec

\* A growing list of names has no more than there are.
LEMMA ListsBound == ASSUME NEW s \in Seq(Ids), Increasing(s) PROVE s \in Lists
<1>1. Len(s) \in Nat /\ Len(s) <= MaxEns /\ s \in [1 .. Len(s) -> Ids]
  BY IdsAreNumbers, IncreasingLength DEF Ids
<1>2. Len(s) \in 0 .. MaxEns
  BY <1>1, IdsAreNumbers
<1> QED BY <1>1, <1>2 DEF Lists

\* The values of the state, the lists of ensures among them, stay in the
\* bounds of the model.
LEMMA TypesHold == IInv => TypeOK
<1> SUFFICES ASSUME IInv PROVE TypeOK
  OBVIOUS
<1>1. /\ frames \in Seq(FrameSet) /\ InBounds(frames)
      /\ DOMAIN frames = 1 .. Len(frames)
      /\ \A k \in 1 .. Len(frames) : Good(frames[k])
  BY DEF IInv, Types, StackOK
<1>2. ASSUME NEW k \in 1 .. Len(frames)
      PROVE  /\ frames[k].handlers \in Seq(Handlers)
             /\ Len(frames[k].handlers) <= MaxHandlers
             /\ frames[k].cleanups \in Lists
             /\ frames[k].mode \in {"code", "drain", "exit", "done"}
             /\ frames[k].running \in Ids \cup {0}
  <2> DEFINE f == frames[k]
  <2>1. f \in FrameSet /\ InOrder(f) /\ f.handlers \in Seq(HandlerSet)
    BY <1>1 DEF Good, FrameSet
  <2>2. \A j \in 1 .. Len(f.handlers) :
           f.handlers[j] \in HandlerSet /\ Increasing(f.handlers[j].left)
    BY <2>1 DEF InOrder
  <2>3. \A j \in 1 .. Len(f.handlers) : f.handlers[j] \in Handlers
    <3> SUFFICES ASSUME NEW j \in 1 .. Len(f.handlers) PROVE f.handlers[j] \in Handlers
      OBVIOUS
    <3>1. f.handlers[j] \in HandlerSet /\ f.handlers[j].left \in Seq(Ids)
      BY <2>2 DEF HandlerSet
    <3>2. f.handlers[j].left \in Lists
      BY <2>2, <3>1, ListsBound
    <3> QED BY <3>1, <3>2 DEF HandlerSet, Handlers
  <2>4. f.handlers \in Seq(Handlers)
    BY <2>1, <2>3
  <2>5. f.cleanups \in Lists
    BY <2>1, ListsBound DEF FrameSet, InOrder
  <2> QED BY <1>1, <2>1, <2>4, <2>5 DEF FrameSet, Modes, InBounds
<1> QED BY <1>1, <1>2 DEF TypeOK, IInv, Types, Sigs, InBounds

\* Every variable keeps its type, for any bounds.
THEOREM TypeCorrect == Spec => []TypeOK
BY Inductive, TypesHold, PTL

\* Where the actor runs code after a signal, an ensure that started late runs.
LEMMA LateRuns == IInv => ExitRunsEnsures
<1> SUFFICES ASSUME IInv, Runs("code"), sig.on, NEW n, n = Len(frames)
             PROVE  Running \cap late # {}
  BY DEF ExitRunsEnsures
<1>1. /\ sig.unwinding /\ frames \in Seq(FrameSet) /\ n \in Nat \ {0}
      /\ frames[n].mode = "code"
  BY RunsFacts
<1>2. \A k \in 1 .. n : frames[k] \in ToSet(frames) /\ frames[k] \in FrameSet
  BY <1>1, SetOfSeq
<1>3. CASE HandlerAnchor(frames, sig, late)
  <2> DEFINE f == frames[sig.ensFrame]
             h == f.handlers[sig.ensHandlers + 1]
  <2>1. /\ f \in ToSet(frames) /\ f.handlers \in Seq(HandlerSet)
        /\ sig.ensHandlers + 1 \in 1 .. Len(f.handlers) /\ h.running \in late
    BY <1>2, <1>3 DEF HandlerAnchor, FrameSet
  <2>2. h \in ToSet(f.handlers)
    BY <2>1, SetOfSeq
  <2> HIDE DEF h, f
  <2>3. h.running \in Running
    BY <2>1, <2>2 DEF Running
  <2> QED BY <2>1, <2>3
<1>4. CASE DrainAnchor(frames, late)
  <2>1. PICK k \in 1 .. n : frames[k].mode = "exit" /\ (k < n => frames[k].running \in late)
    BY <1>4 DEF DrainAnchor
  <2>2. k < n
    BY <1>1, <2>1
  <2>3. frames[k].running \in Running
    BY <1>2 DEF Running
  <2> QED BY <2>1, <2>2, <2>3
<1> QED BY <1>1, <1>3, <1>4 DEF IInv, Anchored

\* Whatever the bounds and whichever way an actor leaves its blocks, each
\* registered ensure starts once, the newest first, before the actor stops; and
\* after a signal the actor runs nothing but ensures that start then.
THEOREM EnsuresInOrder == Spec => EnsuresAreAStack
<1>1. Init => ES!Init
  BY Start0
<1>2. IInv /\ [Next]_vars => [ES!Next]_(ES!vars)
  BY NextStep
<1> QED BY <1>1, <1>2, Inductive, LateRuns, PTL DEF Spec, ES!Spec, EnsuresAreAStack

=============================================================================
