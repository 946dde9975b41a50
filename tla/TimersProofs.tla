---------------------------- MODULE TimersProofs ----------------------------
(***************************************************************************)
(* Proofs about Timers, for any actors, waits and bounds: the heap is in    *)
(* order whatever is done to it, and it is the queue of TimerQueue.  The    *)
(* loops of up, down and wakeExpired are sequences of states (Loops): what  *)
(* a turn keeps (ClimbIs, SinkIs, ServeIs) holds after any number of turns, *)
(* and each loop is at its end after the turns it is given, for a turn that *)
(* is not the last moves up, down or takes an entry.                        *)
(***************************************************************************)
EXTENDS Timers, WellFoundedInduction, TLAPS

-----------------------------------------------------------------------------
(* Loops. *)

\* A set of numbers that holds 0, and with a number the next one, holds all.
LEMMA Induct ==
  ASSUME NEW P, 0 \in P, \A k \in Nat : k \in P => k + 1 \in P
  PROVE  Nat \subseteq P
<1> DEFINE R == OpToRel(<, Nat)
           T == Nat \ P
<1>1. SUFFICES ASSUME T # {} PROVE FALSE
  OBVIOUS
<1>2. PICK m \in T : \A y \in T : ~(<<y, m>> \in R)
  <2>1. IsWellFoundedOn(R, Nat)
    BY NatLessThanWellFounded
  <2>2. T \subseteq Nat
    OBVIOUS
  <2> HIDE DEF R, T
  <2> QED BY ONLY <1>1, <2>1, <2>2, WFMin, Zenon
<1>3. m \in Nat /\ m # 0 /\ m - 1 \in Nat /\ m = (m - 1) + 1
  OBVIOUS
<1>4. m - 1 \in T
  BY <1>3
<1>5. \A y \in T : ~(y < m)
  BY <1>2, <1>3 DEF OpToRel
<1> QED BY <1>3, <1>4, <1>5

\* A first number of a set of numbers.
LEMMA Least ==
  ASSUME NEW S \in SUBSET Nat, S # {}
  PROVE  \E m \in S : \A y \in S : m <= y
<1> DEFINE P == {k \in Nat : \A y \in S : y > k}
<1>1. SUFFICES ASSUME \A m \in S : \E y \in S : y < m PROVE FALSE
  OBVIOUS
<1>2. CASE 0 \in P
  <2>1. \A k \in Nat : k \in P => k + 1 \in P
    BY <1>1
  <2>2. Nat \subseteq P
    <3> HIDE DEF P
    <3> QED BY <1>2, <2>1, Induct
  <2>3. PICK m \in S : TRUE
    OBVIOUS
  <2> QED BY <2>2, <2>3
<1>3. CASE 0 \notin P
  BY <1>3, <1>1
<1> QED BY <1>2, <1>3

\* t gives the states of a loop, one for each number of turns.
Loops(S, F, x, t) ==
    t \in [Nat -> S] /\ t[0] = x /\ \A k \in Nat : t[k + 1] = F[t[k]]

LEMMA LoopExists ==
  ASSUME NEW S, NEW F, F \in [S -> S], NEW x, x \in S
  PROVE  \E t : Loops(S, F, x, t)
<1> DEFINE Begins(g, n) == g[0] = x /\ \A k \in 0 .. n - 1 : g[k + 1] = F[g[k]]
           G(n) == {g \in [0 .. n -> S] : Begins(g, n)}
           Long == {n \in Nat : G(n) # {}}
\* There is a beginning of any length,
<1>1. Nat \subseteq Long
  <2>1. 0 \in Long
    <3> DEFINE g == [k \in 0 .. 0 |-> x]
    <3>1. g \in G(0)
      OBVIOUS
    <3> QED BY <3>1
  <2>2. \A n \in Nat : n \in Long => n + 1 \in Long
    <3> SUFFICES ASSUME NEW n \in Nat, NEW g \in G(n) PROVE n + 1 \in Long
      BY DEF Long
    <3> DEFINE f == [k \in 0 .. n + 1 |-> IF k = n + 1 THEN F[g[n]] ELSE g[k]]
    <3>1. g[n] \in S /\ F[g[n]] \in S
      OBVIOUS
    <3>2. f \in [0 .. n + 1 -> S]
      BY <3>1
    <3>3. Begins(f, n + 1)
      <4>1. f[0] = x
        OBVIOUS
      <4>2. \A k \in 0 .. (n + 1) - 1 : f[k + 1] = F[f[k]]
        <5> SUFFICES ASSUME NEW k \in 0 .. (n + 1) - 1 PROVE f[k + 1] = F[f[k]]
          OBVIOUS
        <5>1. f[k] = g[k]
          OBVIOUS
        <5> QED BY <5>1
      <4> QED BY <4>1, <4>2
    <3> QED BY <3>2, <3>3
  <2> HIDE DEF Long
  <2> QED BY <2>1, <2>2, Induct
\* and any two agree as far as they go.
<1>2. \A n, m \in Nat : \A g \in G(n), f \in G(m), k \in Nat :
         k <= n /\ k <= m => g[k] = f[k]
  <2> SUFFICES ASSUME NEW n \in Nat, NEW m \in Nat, NEW g \in G(n), NEW f \in G(m)
               PROVE  \A k \in Nat : k <= n /\ k <= m => g[k] = f[k]
    OBVIOUS
  <2> DEFINE P == {k \in Nat : k <= n /\ k <= m => g[k] = f[k]}
  <2>1. 0 \in P
    OBVIOUS
  <2>2. \A k \in Nat : k \in P => k + 1 \in P
    OBVIOUS
  <2>3. Nat \subseteq P
    <3> HIDE DEF P
    <3> QED BY <2>1, <2>2, Induct
  <2> QED BY <2>3
<1> DEFINE c == [n \in Nat |-> CHOOSE g : g \in G(n)]
           t == [n \in Nat |-> c[n][n]]
<1>3. \A n \in Nat : c[n] \in G(n)
  <2> SUFFICES ASSUME NEW n \in Nat PROVE c[n] \in G(n)
    OBVIOUS
  <2>1. \E g : g \in G(n)
    BY <1>1
  <2>2. c[n] = CHOOSE g : g \in G(n)
    OBVIOUS
  <2> HIDE DEF c, G
  <2> QED BY <2>1, <2>2, Zenon
<1> HIDE DEF c
<1>4. t \in [Nat -> S]
  BY <1>3
<1>5. t[0] = x
  BY <1>3
<1>6. \A k \in Nat : t[k + 1] = F[t[k]]
  <2> SUFFICES ASSUME NEW k \in Nat PROVE t[k + 1] = F[t[k]]
    OBVIOUS
  <2>1. c[k] \in G(k) /\ c[k + 1] \in G(k + 1)
    BY <1>3
  <2>2. c[k][k] = c[k + 1][k]
    <3> HIDE DEF G
    <3>1. k + 1 \in Nat /\ k <= k /\ k <= k + 1
      OBVIOUS
    <3> QED BY ONLY <1>2, <2>1, <3>1, k \in Nat
  <2>3. c[k + 1][k + 1] = F[c[k + 1][k]]
    BY <2>1
  <2> QED BY <2>2, <2>3
<1>7. Loops(S, F, x, t)
  BY <1>4, <1>5, <1>6 DEF Loops
<1> QED BY <1>7

-----------------------------------------------------------------------------
(* A heap, its places and its order. *)

Keys == [TimerIds -> Nat]
Heaps == [q : Seq(TimerIds), at : [TimerIds -> Nat]]

\* Each timer in the heap knows its place, and there is no other.
Places(h) ==
    /\ \A i \in 1 .. Len(h.q) : h.at[h.q[i]] = i
    /\ \A e \in TimerIds : h.at[e] # 0 => h.at[e] \in 1 .. Len(h.q) /\ h.q[h.at[e]] = e

\* g holds the same timers as h, those after place n where they were.
Same(h, g, n) ==
    /\ g \in Heaps /\ Places(g) /\ Len(g.q) = Len(h.q)
    /\ \A e \in TimerIds : g.at[e] = 0 <=> h.at[e] = 0
    /\ \A i \in n + 1 .. Len(h.q) : g.q[i] = h.q[i]

Parent(i) == i \div 2

\* Among the first n places: c is not before its parent; but for the one at i;
\* but for i and its children, which are not before the parent of i.
Fits(h, d, s, c) == ~Less(d, s, h.q[c], h.q[Parent(c)])
Spans(h, d, s, n, i) ==
    \A c \in 2 .. n : Parent(c) = i /\ i > 1 => ~Less(d, s, h.q[c], h.q[Parent(i)])
OrderedTo(h, d, s, n) == \A c \in 2 .. n : Fits(h, d, s, c)
OrderedBut(h, d, s, n, i) ==
    /\ \A c \in 2 .. n : c # i => Fits(h, d, s, c)
    /\ Spans(h, d, s, n, i)
OrderedAround(h, d, s, n, i) ==
    /\ \A c \in 2 .. n : c # i /\ Parent(c) # i => Fits(h, d, s, c)
    /\ Spans(h, d, s, n, i)

LEMMA ParentIs ==
  ASSUME NEW c \in Nat, c > 1
  PROVE  /\ Parent(c) \in Nat /\ Parent(c) >= 1 /\ Parent(c) < c
         /\ c = 2 * Parent(c) \/ c = 2 * Parent(c) + 1
BY DEF Parent

LEMMA ChildIs ==
  ASSUME NEW p \in Nat, NEW c \in Nat, c = 2 * p \/ c = 2 * p + 1
  PROVE  Parent(c) = p
BY DEF Parent

LEMMA LessIs ==
  ASSUME NEW d \in Keys, NEW s \in Keys
  PROVE  /\ \A e \in TimerIds : ~Less(d, s, e, e)
         /\ \A e, f \in TimerIds : Less(d, s, e, f) => ~Less(d, s, f, e)
         /\ \A e, f, g \in TimerIds :
               ~Less(d, s, f, e) /\ ~Less(d, s, g, f) => ~Less(d, s, g, e)
BY DEF Less, Keys

LEMMA IsSeq ==
  ASSUME NEW T, NEW n \in Nat, NEW f \in [1 .. n -> T]
  PROVE  f \in Seq(T) /\ Len(f) = n
OBVIOUS

LEMMA SwapIs ==
  ASSUME NEW h \in Heaps, Places(h), NEW n \in Nat, n <= Len(h.q),
         NEW i \in 1 .. n, NEW j \in 1 .. n, i # j
  PROVE  /\ Same(h, Swap(h, i, j), n)
         /\ Swap(h, i, j).q[i] = h.q[j] /\ Swap(h, i, j).q[j] = h.q[i]
         /\ \A k \in 1 .. Len(h.q) : k # i /\ k # j => Swap(h, i, j).q[k] = h.q[k]
<1> DEFINE g == Swap(h, i, j)
           N == Len(h.q)
<1>1. /\ h.q \in [1 .. N -> TimerIds] /\ N \in Nat /\ h.at \in [TimerIds -> Nat]
      /\ i \in 1 .. N /\ j \in 1 .. N
  BY DEF Heaps
<1>2. /\ g.q = [h.q EXCEPT ![i] = h.q[j], ![j] = h.q[i]]
      /\ g.at = [h.at EXCEPT ![h.q[j]] = i, ![h.q[i]] = j]
      /\ g = [q |-> g.q, at |-> g.at]
  BY DEF Swap
<1>3. h.q[i] \in TimerIds /\ h.q[j] \in TimerIds /\ h.q[i] # h.q[j]
  BY <1>1 DEF Places
<1> HIDE DEF g
<1>4. g.q \in [1 .. N -> TimerIds] /\ g.q \in Seq(TimerIds) /\ Len(g.q) = N
  <2>1. g.q \in [1 .. N -> TimerIds]
    BY <1>1, <1>2, <1>3
  <2> QED BY <2>1, <1>1, IsSeq
<1>5. /\ g.q[i] = h.q[j] /\ g.q[j] = h.q[i]
      /\ \A k \in 1 .. N : k # i /\ k # j => g.q[k] = h.q[k]
  BY <1>1, <1>2
<1>6. /\ g.at \in [TimerIds -> Nat]
      /\ g.at[h.q[i]] = j /\ g.at[h.q[j]] = i
      /\ \A e \in TimerIds : e # h.q[i] /\ e # h.q[j] => g.at[e] = h.at[e]
  <2>1. i \in Nat /\ j \in Nat
    BY <1>1
  <2>2. /\ h.at \in [TimerIds -> Nat]
        /\ g.at = [h.at EXCEPT ![h.q[j]] = i, ![h.q[i]] = j]
    BY <1>1, <1>2
  <2> DEFINE a == h.q[j]
             b == h.q[i]
             f == h.at
             r == g.at
  <2>3. a \in TimerIds /\ b \in TimerIds /\ a # b
    BY <1>3
  <2>4. f \in [TimerIds -> Nat] /\ r = [f EXCEPT ![a] = i, ![b] = j]
    BY <2>2
  <2> HIDE DEF a, b, f, r
  <2>5. /\ r \in [TimerIds -> Nat] /\ r[b] = j /\ r[a] = i
        /\ \A e \in TimerIds : e # b /\ e # a => r[e] = f[e]
    BY ONLY <2>1, <2>3, <2>4
  <2> QED BY <2>5 DEF a, b, f, r
<1>7. g \in Heaps
  BY <1>2, <1>4, <1>6 DEF Heaps
<1>8. Places(g)
  <2>1. ASSUME NEW k \in 1 .. N PROVE g.at[g.q[k]] = k
    <3>1. CASE k = i \/ k = j
      BY <3>1, <1>5, <1>6
    <3>2. CASE k # i /\ k # j
      <4>1. h.q[k] \in TimerIds /\ h.q[k] # h.q[i] /\ h.q[k] # h.q[j]
        BY <3>2, <1>1 DEF Places
      <4>2. g.at[g.q[k]] = h.at[h.q[k]]
        BY <4>1, <3>2, <1>5, <1>6
      <4> QED BY <4>2 DEF Places
    <3> QED BY <3>1, <3>2
  <2>2. ASSUME NEW e \in TimerIds, g.at[e] # 0
        PROVE  g.at[e] \in 1 .. N /\ g.q[g.at[e]] = e
    <3>1. CASE e = h.q[i] \/ e = h.q[j]
      BY <3>1, <1>1, <1>5, <1>6
    <3>2. CASE e # h.q[i] /\ e # h.q[j]
      <4>1. g.at[e] = h.at[e] /\ h.at[e] \in 1 .. N /\ h.q[h.at[e]] = e
        BY <3>2, <2>2, <1>6 DEF Places
      <4>2. h.at[e] # i /\ h.at[e] # j
        BY <4>1, <3>2
      <4> QED BY <4>1, <4>2, <1>5
    <3> QED BY <3>1, <3>2
  <2> QED BY <2>1, <2>2, <1>4 DEF Places
<1>9. \A e \in TimerIds : g.at[e] = 0 <=> h.at[e] = 0
  BY <1>1, <1>6 DEF Places
<1>10. \A k \in n + 1 .. N : g.q[k] = h.q[k]
  BY <1>1, <1>5
<1>11. Same(h, g, n)
  BY <1>4, <1>7, <1>8, <1>9, <1>10 DEF Same
<1> QED BY <1>5, <1>11 DEF g

LEMMA SameTrans ==
  ASSUME NEW h, NEW g, NEW k, NEW n \in Nat, Same(h, g, n), Same(g, k, n)
  PROVE  Same(h, k, n)
BY DEF Same

LEMMA InHeap ==
  ASSUME NEW h \in Heaps, NEW n \in Nat, n <= Len(h.q)
  PROVE  \A c \in 1 .. n : h.q[c] \in TimerIds
BY DEF Heaps

-----------------------------------------------------------------------------
(* Up. *)

LEMMA ClimbIs ==
  ASSUME NEW d \in Keys, NEW s \in Keys, NEW x, x = [h |-> x.h, i |-> x.i],
         x.h \in Heaps, Places(x.h), NEW n \in Nat, n <= Len(x.h.q),
         x.i \in 1 .. n, OrderedBut(x.h, d, s, n, x.i),
         NEW y, y = Climb(d, s, x)
  PROVE  \/ y = x /\ OrderedTo(x.h, d, s, n)
         \/ /\ y = [h |-> y.h, i |-> y.i]
            /\ y.i \in 1 .. n /\ y.i < x.i
            /\ Same(x.h, y.h, n) /\ OrderedBut(y.h, d, s, n, y.i)
<1> DEFINE h == x.h
           i == x.i
           p == Parent(i)
           g == Swap(h, p, i)
<1>1. i \in Nat /\ i >= 1
  OBVIOUS
<1>2. CASE i = 1
  <2>1. y = x
    BY <1>2 DEF Climb
  <2>2. OrderedTo(h, d, s, n)
    BY <1>2 DEF OrderedBut, OrderedTo
  <2> QED BY <2>1, <2>2
<1>3. CASE i > 1 /\ Fits(h, d, s, i)
  <2>1. y = x
    BY <1>3 DEF Climb, Fits, Parent
  <2>2. OrderedTo(h, d, s, n)
    BY <1>3 DEF OrderedBut, OrderedTo
  <2> QED BY <2>1, <2>2
<1>4. CASE i > 1 /\ ~Fits(h, d, s, i)
  <2>1. y = [h |-> g, i |-> p]
    BY <1>4 DEF Climb, Fits, Parent
  <2>2. /\ p \in 1 .. n /\ p < i /\ i \in 1 .. n /\ p # i
        /\ p > 1 => Parent(p) \in 1 .. n /\ Parent(p) < p
    BY <1>1, <1>4, ParentIs
  <2>3. /\ Same(h, g, n) /\ g.q[p] = h.q[i] /\ g.q[i] = h.q[p]
        /\ \A k \in 1 .. n : k # i /\ k # p => g.q[k] = h.q[k]
    <3> HIDE DEF h, i, p, g
    <3>1. h \in Heaps /\ Places(h) /\ n <= Len(h.q)
      BY DEF h
    <3>2. Len(h.q) \in Nat
      BY <3>1 DEF Heaps
    <3> QED BY <3>1, <3>2, <2>2, SwapIs DEF g
  <2>4. Less(d, s, h.q[i], h.q[p])
    BY <1>4 DEF Fits
  <2>5. \A c \in 1 .. n : h.q[c] \in TimerIds
    BY InHeap
  <2>6. \A c \in 2 .. n : c # i => Fits(h, d, s, c)
    BY DEF OrderedBut
  <2>7. \A c \in 2 .. n : Parent(c) = i => ~Less(d, s, h.q[c], h.q[p])
    BY <1>4 DEF OrderedBut, Spans
  <2>8. \A c \in 2 .. n : Parent(c) \in 1 .. n /\ c \in 1 .. n /\ Parent(c) < c
    BY ParentIs
  <2>9. ~Less(d, s, h.q[p], h.q[i])
    BY <2>2, <2>4, <2>5, LessIs
  <2> HIDE DEF h, i, p, g
  <2>10. ASSUME NEW c \in 2 .. n, c # p
         PROVE  Fits(g, d, s, c)
    <3>1. CASE c = i
      <4>1. Parent(c) = p
        BY <3>1 DEF p
      <4> QED BY <3>1, <4>1, <2>3, <2>9 DEF Fits
    <3>2. CASE c # i /\ Parent(c) = p
      <4>1. ~Less(d, s, h.q[c], h.q[p])
        BY <3>2, <2>6 DEF Fits
      <4>2. ~Less(d, s, h.q[c], h.q[i])
        BY <4>1, <2>2, <2>5, <2>8, <2>9, LessIs
      <4>3. g.q[c] = h.q[c]
        BY <3>2, <2>3, <2>8, <2>10
      <4> QED BY <3>2, <4>2, <4>3, <2>3 DEF Fits
    <3>3. CASE Parent(c) = i
      <4>1. c # i
        BY <3>3, <2>8
      <4>2. g.q[c] = h.q[c]
        BY <4>1, <2>3, <2>8, <2>10
      <4> QED BY <3>3, <4>2, <2>3, <2>7 DEF Fits
    <3>4. CASE c # i /\ Parent(c) # p /\ Parent(c) # i
      <4>1. g.q[c] = h.q[c] /\ g.q[Parent(c)] = h.q[Parent(c)]
        BY <3>4, <2>3, <2>8, <2>10
      <4> QED BY <3>4, <4>1, <2>6 DEF Fits
    <3> QED BY <3>1, <3>2, <3>3, <3>4
  <2>11. ASSUME NEW c \in 2 .. n, Parent(c) = p, p > 1
         PROVE  ~Less(d, s, g.q[c], g.q[Parent(p)])
    <3>1. g.q[Parent(p)] = h.q[Parent(p)] /\ p \in 2 .. n
      BY <2>2, <2>3, <2>11
    <3>2. ~Less(d, s, h.q[p], h.q[Parent(p)])
      BY <3>1, <2>2, <2>6 DEF Fits
    <3>3. CASE c = i
      BY <3>1, <3>2, <3>3, <2>3
    <3>4. CASE c # i
      <4>1. ~Less(d, s, h.q[c], h.q[p])
        BY <3>4, <2>6, <2>11 DEF Fits
      <4>2. c # p
        BY <2>8, <2>11
      <4>3. g.q[c] = h.q[c]
        BY <3>4, <4>2, <2>3, <2>8
      <4> QED BY <3>1, <3>2, <4>1, <4>3, <2>2, <2>5, <2>8, <2>11, LessIs
    <3> QED BY <3>3, <3>4
  <2>12. OrderedBut(g, d, s, n, p)
    BY <2>10, <2>11 DEF OrderedBut, Spans
  <2> QED BY <2>1, <2>2, <2>3, <2>12 DEF h, i
<1> QED BY <1>1, <1>2, <1>3, <1>4

LEMMA UpIs ==
  ASSUME NEW d \in Keys, NEW s \in Keys, NEW h \in Heaps, Places(h),
         NEW n \in Nat, n <= Len(h.q), NEW j \in 1 .. n, OrderedBut(h, d, s, n, j)
  PROVE  Same(h, Up(h, d, s, j), n) /\ OrderedTo(Up(h, d, s, j), d, s, n)
<1> DEFINE U == {x \in [h : Heaps, i : 1 .. n] :
                   Same(h, x.h, n) /\ OrderedBut(x.h, d, s, n, x.i)}
           x0 == [h |-> h, i |-> j]
           Turn(x) == Climb(d, s, x)
           t == CHOOSE t : t = [k \in Nat |-> IF k = 0 THEN x0 ELSE Turn(t[k - 1])]
<1>1. x0 \in U
  BY DEF Same
<1>2. \A x \in U : /\ Turn(x) \in U
                    /\ \/ Turn(x) = x /\ OrderedTo(x.h, d, s, n)
                       \/ Turn(x).i < x.i
  <2> SUFFICES ASSUME NEW x \in U
               PROVE  /\ Turn(x) \in U
                      /\ \/ Turn(x) = x /\ OrderedTo(x.h, d, s, n)
                         \/ Turn(x).i < x.i
    OBVIOUS
  <2>1. /\ x = [h |-> x.h, i |-> x.i] /\ x.h \in Heaps /\ Places(x.h)
        /\ n <= Len(x.h.q) /\ x.i \in 1 .. n /\ OrderedBut(x.h, d, s, n, x.i)
    BY DEF Same
  <2> DEFINE y == Turn(x)
  <2>2. \/ y = x /\ OrderedTo(x.h, d, s, n)
        \/ /\ y = [h |-> y.h, i |-> y.i]
           /\ y.i \in 1 .. n /\ y.i < x.i
           /\ Same(x.h, y.h, n) /\ OrderedBut(y.h, d, s, n, y.i)
    <3>1. y = Climb(d, s, x)
      OBVIOUS
    <3> HIDE DEF y, U
    <3> QED BY <2>1, <3>1, ClimbIs
  <2>3. Same(h, x.h, n)
    OBVIOUS
  <2> HIDE DEF y
  <2>4. ASSUME y = [h |-> y.h, i |-> y.i], y.i \in 1 .. n,
               Same(x.h, y.h, n), OrderedBut(y.h, d, s, n, y.i)
        PROVE  y \in U
    <3>1. Same(h, y.h, n) /\ y.h \in Heaps
      BY <2>3, <2>4, SameTrans DEF Same
    <3> QED BY <2>4, <3>1
  <2>5. y \in U /\ ((y = x /\ OrderedTo(x.h, d, s, n)) \/ y.i < x.i)
    BY <2>2, <2>4
  <2> QED BY <2>5 DEF y
<1>3. Up(h, d, s, j) = t[j].h
  BY DEF Up, Turns
<1>4. t = [k \in Nat |-> IF k = 0 THEN x0 ELSE Turn(t[k - 1])]
  <2> DEFINE F == [x \in U |-> Turn(x)]
  <2>1. F \in [U -> U]
    BY <1>2
  <2>2. PICK r : Loops(U, F, x0, r)
    <3> HIDE DEF F, U, x0
    <3> QED BY ONLY <1>1, <2>1, LoopExists, Zenon
  <2>3. r = [k \in Nat |-> IF k = 0 THEN x0 ELSE Turn(r[k - 1])]
    <3>1. \A k \in Nat : k # 0 => r[k] = Turn(r[k - 1])
      <4> SUFFICES ASSUME NEW k \in Nat, k # 0 PROVE r[k] = Turn(r[k - 1])
        OBVIOUS
      <4> HIDE DEF U, Turn
      <4>1. k - 1 \in Nat /\ k = (k - 1) + 1
        OBVIOUS
      <4>2. r[k - 1] \in U
        BY <2>2, <4>1 DEF Loops
      <4> QED BY <2>2, <4>1, <4>2 DEF Loops
    <3> HIDE DEF U, Turn, x0
    <3> QED BY <2>2, <3>1 DEF Loops
  <2> HIDE DEF Turn, x0
  <2> QED BY <2>3, Zenon
<1> HIDE DEF t, Turn, x0
<1>5. t[0] = x0 /\ \A k \in Nat : t[k + 1] = Turn(t[k])
  <2>1. t[0] = x0
    BY <1>4
  <2>2. ASSUME NEW k \in Nat PROVE t[k + 1] = Turn(t[k])
    <3>1. k + 1 \in Nat /\ k + 1 # 0 /\ (k + 1) - 1 = k
      OBVIOUS
    <3> QED BY <1>4, <3>1
  <2> QED BY <2>1, <2>2
<1>6. \A k \in Nat : t[k] \in U
  <2> HIDE DEF U
  <2> DEFINE P == {k \in Nat : t[k] \in U}
  <2>1. 0 \in P
    BY <1>1, <1>5
  <2>3. ASSUME NEW k \in Nat, k \in P PROVE k + 1 \in P
    <3>1. t[k] \in U /\ t[k + 1] = Turn(t[k])
      BY <1>5, <2>3
    <3> QED BY <1>2, <3>1
  <2> HIDE DEF P
  <2>2. Nat \subseteq P
    BY <2>1, <2>3, Induct
  <2> QED BY <2>2 DEF P
<1> DEFINE Done(x) == Turn(x) = x /\ OrderedTo(x.h, d, s, n)
\* A turn that is not the last goes up by a place at least.
<1>7. \A k \in Nat : Done(t[k]) \/ t[k].i + k <= j
  <2> DEFINE P == {k \in Nat : Done(t[k]) \/ t[k].i + k <= j}
  <2>1. 0 \in P
    <3>1. t[0].i = j
      BY <1>5 DEF x0
    <3> HIDE DEF U
    <3> QED BY <3>1
  <2>2. ASSUME NEW k \in Nat, k \in P PROVE k + 1 \in P
    <3>1. t[k + 1] = Turn(t[k]) /\ t[k] \in U /\ t[k + 1] \in U
      <4> HIDE DEF U
      <4>1. t[k + 1] = Turn(t[k]) /\ t[k] \in U
        BY <1>5, <1>6
      <4>2. k + 1 \in Nat
        OBVIOUS
      <4>3. t[k + 1] \in U
        BY <4>2, <1>6
      <4> QED BY <4>1, <4>3
    <3>2. CASE Done(t[k])
      BY <3>1, <3>2
    <3>3. CASE ~Done(t[k])
      <4>1. t[k + 1].i < t[k].i /\ t[k].i + k <= j
        BY <1>2, <3>1, <3>3, <2>2
      <4>2. t[k + 1].i \in Nat /\ t[k].i \in Nat
        BY <3>1
      <4> QED BY <4>1, <4>2
    <3> QED BY <3>2, <3>3
  <2> HIDE DEF P
  <2>3. Nat \subseteq P
    BY <2>1, <2>2, Induct
  <2> QED BY <2>3 DEF P
<1>8. Done(t[j]) /\ t[j] \in U
  BY <1>6, <1>7
<1> QED BY <1>3, <1>8
-----------------------------------------------------------------------------
(* Down. *)

\* The children of place i are not before it.
Settled(h, d, s, n, i) == \A c \in 2 .. n : Parent(c) = i => Fits(h, d, s, c)

LEMMA SinkIs ==
  ASSUME NEW d \in Keys, NEW s \in Keys, NEW x, x = [h |-> x.h, i |-> x.i],
         x.h \in Heaps, Places(x.h), NEW n \in Nat, n <= Len(x.h.q),
         x.i \in 1 .. n, OrderedAround(x.h, d, s, n, x.i),
         NEW y, y = Sink(d, s, n, x)
  PROVE  \/ y = x /\ Settled(x.h, d, s, n, x.i)
         \/ /\ y = [h |-> y.h, i |-> y.i]
            /\ y.i \in 1 .. n /\ y.i > x.i /\ Fits(y.h, d, s, y.i)
            /\ Same(x.h, y.h, n) /\ OrderedAround(y.h, d, s, n, y.i)
<1> DEFINE h == x.h
           i == x.i
           l == 2 * i
           c == IF l < n /\ Less(d, s, h.q[l + 1], h.q[l]) THEN l + 1 ELSE l
           g == Swap(h, i, c)
<1>1. i \in Nat /\ i >= 1 /\ l \in Nat /\ l > i
  OBVIOUS
<1>2. \A e \in 2 .. n : Parent(e) \in 1 .. n /\ Parent(e) < e /\ e \in 1 .. n
  BY ParentIs
<1>3. \A e \in 2 .. n : Parent(e) = i => e = l \/ e = l + 1
  BY ParentIs
<1>4. CASE l > n
  <2>1. y = x
    BY <1>4 DEF Sink
  <2>2. Settled(h, d, s, n, i)
    BY <1>1, <1>3, <1>4 DEF Settled
  <2> QED BY <2>1, <2>2
<1>5. \A e \in 1 .. n : h.q[e] \in TimerIds
  BY InHeap
\* c is the lesser child.
<1>6. ASSUME l <= n
      PROVE  /\ c \in 2 .. n /\ Parent(c) = i /\ c > i
             /\ \A e \in 2 .. n : Parent(e) = i => ~Less(d, s, h.q[e], h.q[c])
  <2>1. c \in 2 .. n /\ c > i
    BY <1>1, <1>6
  <2>2. Parent(c) = i
    BY <1>1, ChildIs
  <2>3. ASSUME NEW e \in 2 .. n, e = l \/ e = l + 1
        PROVE  ~Less(d, s, h.q[e], h.q[c])
    <3>1. CASE l < n /\ Less(d, s, h.q[l + 1], h.q[l])
      <4>1. c = l + 1
        BY <3>1
      <4>2. h.q[l] \in TimerIds /\ h.q[l + 1] \in TimerIds
        BY <1>1, <1>5, <3>1
      <4> QED BY <2>3, <3>1, <4>1, <4>2, LessIs
    <3>2. CASE ~(l < n /\ Less(d, s, h.q[l + 1], h.q[l]))
      <4>1. c = l
        BY <3>2
      <4>2. h.q[l] \in TimerIds
        BY <1>1, <1>5, <1>6
      <4>3. e = l + 1 => l < n
        BY <1>1
      <4> QED BY <2>3, <3>2, <4>1, <4>2, <4>3, LessIs
    <3> QED BY <3>1, <3>2
  <2> QED BY <1>3, <2>1, <2>2, <2>3
<1>7. l <= n /\ ~Less(d, s, h.q[c], h.q[i]) => y = x
  BY DEF Sink
<1>8. l <= n /\ Less(d, s, h.q[c], h.q[i]) => y = [h |-> g, i |-> c]
  BY <1>1 DEF Sink
<1> HIDE DEF h, i, l, c, g
<1>9. CASE l <= n /\ ~Less(d, s, h.q[c], h.q[i])
  <2>1. ASSUME NEW e \in 2 .. n, Parent(e) = i
        PROVE  Fits(h, d, s, e)
    <3>1. ~Less(d, s, h.q[e], h.q[c]) /\ h.q[e] \in TimerIds
          /\ h.q[c] \in TimerIds /\ h.q[i] \in TimerIds
      BY <1>2, <1>5, <1>6, <1>9, <2>1 DEF i
    <3> QED BY <3>1, <1>9, <2>1, LessIs DEF Fits
  <2> QED BY <2>1, <1>7, <1>9 DEF Settled, h, i
<1>10. CASE l <= n /\ Less(d, s, h.q[c], h.q[i])
  <2>1. /\ c \in 2 .. n /\ c \in 1 .. n /\ i \in 1 .. n /\ c # i /\ Parent(c) = i /\ c > i
        /\ h.q[c] \in TimerIds /\ h.q[i] \in TimerIds
    <3>1. i \in 1 .. n
      BY DEF i
    <3>2. c \in 2 .. n /\ Parent(c) = i /\ c > i
      BY <1>6, <1>10
    <3>3. c \in 1 .. n /\ c # i
      BY <3>1, <3>2
    <3> QED BY <1>5, <3>1, <3>2, <3>3
  <2>2. /\ Same(h, g, n) /\ g.q[i] = h.q[c] /\ g.q[c] = h.q[i]
        /\ \A k \in 1 .. n : k # i /\ k # c => g.q[k] = h.q[k]
    <3>1. h \in Heaps /\ Places(h) /\ n <= Len(h.q)
      BY DEF h
    <3>2. Len(h.q) \in Nat
      BY <3>1 DEF Heaps
    <3> QED BY <3>1, <3>2, <2>1, SwapIs DEF g
  <2>3. ~Less(d, s, h.q[i], h.q[c])
    BY <1>10, <2>1, LessIs
  <2>4. /\ \A e \in 2 .. n : e # i /\ Parent(e) # i => Fits(h, d, s, e)
        /\ \A e \in 2 .. n : Parent(e) = i /\ i > 1 => ~Less(d, s, h.q[e], h.q[Parent(i)])
    BY DEF OrderedAround, Spans, h, i
  <2>5. ASSUME NEW e \in 2 .. n, e # c, Parent(e) # c
        PROVE  Fits(g, d, s, e)
    <3>1. CASE e = i
      <4>1. Parent(i) \in 1 .. n /\ Parent(i) # i /\ Parent(i) # c /\ i > 1
        BY <3>1, <1>2, <2>1
      <4>2. g.q[Parent(i)] = h.q[Parent(i)]
        BY <4>1, <2>2
      <4> QED BY <3>1, <4>1, <4>2, <2>1, <2>2, <2>4 DEF Fits
    <3>2. CASE Parent(e) = i
      <4>1. g.q[e] = h.q[e]
        BY <3>2, <2>2, <2>5, <1>2
      <4>2. ~Less(d, s, h.q[e], h.q[c])
        BY <3>2, <1>6, <1>10
      <4> QED BY <3>2, <4>1, <4>2, <2>2 DEF Fits
    <3>3. CASE e # i /\ Parent(e) # i
      <4>1. g.q[e] = h.q[e] /\ g.q[Parent(e)] = h.q[Parent(e)]
        BY <3>3, <2>2, <2>5, <1>2
      <4> QED BY <3>3, <4>1, <2>4 DEF Fits
    <3> QED BY <3>1, <3>2, <3>3
  <2>6. ASSUME NEW e \in 2 .. n, Parent(e) = c
        PROVE  ~Less(d, s, g.q[e], g.q[Parent(c)])
    <3>1. e # i /\ e # c /\ Parent(e) # i
      BY <1>2, <2>1, <2>6
    <3>2. g.q[e] = h.q[e]
      BY <3>1, <2>2, <1>2
    <3>3. Fits(h, d, s, e)
      BY <3>1, <2>4
    <3> QED BY <3>2, <3>3, <2>1, <2>2, <2>6 DEF Fits
  <2>7. OrderedAround(g, d, s, n, c)
    BY <2>5, <2>6 DEF OrderedAround, Spans
  <2>8. Fits(g, d, s, c)
    BY <2>1, <2>2, <2>3 DEF Fits
  <2>9. y = [h |-> g, i |-> c]
    BY <1>8, <1>10
  <2> QED BY <2>1, <2>2, <2>7, <2>8, <2>9 DEF h, i
<1> QED
  <2>1. l > n \/ l <= n
    BY <1>1
  <2>2. l <= n => Less(d, s, h.q[c], h.q[i]) \/ ~Less(d, s, h.q[c], h.q[i])
    OBVIOUS
  <2> QED BY <2>1, <2>2, <1>4, <1>9, <1>10
LEMMA DownIs ==
  ASSUME NEW d \in Keys, NEW s \in Keys, NEW h \in Heaps, Places(h),
         NEW n \in Nat, n <= Len(h.q), NEW j \in 1 .. n, OrderedAround(h, d, s, n, j),
         NEW z, z = Down(h, d, s, j, n)
  PROVE  /\ z.i \in Nat /\ z.i >= j /\ Same(h, z.h, n)
         /\ IF z.i > j THEN OrderedTo(z.h, d, s, n) ELSE OrderedBut(z.h, d, s, n, j)
<1> DEFINE U == {x \in [h : Heaps, i : 1 .. n] :
                   /\ Same(h, x.h, n) /\ OrderedAround(x.h, d, s, n, x.i)
                   /\ x.i >= j /\ (x.i > j => Fits(x.h, d, s, x.i))}
           x0 == [h |-> h, i |-> j]
           Turn(x) == Sink(d, s, n, x)
           t == CHOOSE t : t = [k \in Nat |-> IF k = 0 THEN x0 ELSE Turn(t[k - 1])]
<1>1. x0 \in U
  BY DEF Same
<1>2. \A x \in U : /\ Turn(x) \in U
                    /\ \/ Turn(x) = x /\ Settled(x.h, d, s, n, x.i)
                       \/ Turn(x).i > x.i
  <2> SUFFICES ASSUME NEW x \in U
               PROVE  /\ Turn(x) \in U
                      /\ \/ Turn(x) = x /\ Settled(x.h, d, s, n, x.i)
                         \/ Turn(x).i > x.i
    OBVIOUS
  <2>1. /\ x = [h |-> x.h, i |-> x.i] /\ x.h \in Heaps /\ Places(x.h)
        /\ n <= Len(x.h.q) /\ x.i \in 1 .. n /\ OrderedAround(x.h, d, s, n, x.i)
        /\ x.i >= j
    BY DEF Same
  <2> DEFINE y == Turn(x)
  <2>2. \/ y = x /\ Settled(x.h, d, s, n, x.i)
        \/ /\ y = [h |-> y.h, i |-> y.i]
           /\ y.i \in 1 .. n /\ y.i > x.i /\ Fits(y.h, d, s, y.i)
           /\ Same(x.h, y.h, n) /\ OrderedAround(y.h, d, s, n, y.i)
    <3>1. y = Sink(d, s, n, x)
      OBVIOUS
    <3> HIDE DEF y, U
    <3> QED BY <2>1, <3>1, SinkIs
  <2>3. Same(h, x.h, n)
    OBVIOUS
  <2> HIDE DEF y
  <2>4. ASSUME y = [h |-> y.h, i |-> y.i], y.i \in 1 .. n, y.i > x.i, Fits(y.h, d, s, y.i),
               Same(x.h, y.h, n), OrderedAround(y.h, d, s, n, y.i)
        PROVE  y \in U
    <3>1. Same(h, y.h, n) /\ y.h \in Heaps
      BY <2>3, <2>4, SameTrans DEF Same
    <3>2. y.i >= j
      BY <2>1, <2>4
    <3> QED BY <2>4, <3>1, <3>2
  <2>5. y \in U /\ ((y = x /\ Settled(x.h, d, s, n, x.i)) \/ y.i > x.i)
    BY <2>2, <2>4
  <2> QED BY <2>5 DEF y
<1>3. z = t[n]
  BY DEF Down, Turns
<1>4. t = [k \in Nat |-> IF k = 0 THEN x0 ELSE Turn(t[k - 1])]
  <2> DEFINE F == [x \in U |-> Turn(x)]
  <2>1. F \in [U -> U]
    BY <1>2
  <2>2. PICK r : Loops(U, F, x0, r)
    <3> HIDE DEF F, U, x0
    <3> QED BY ONLY <1>1, <2>1, LoopExists, Zenon
  <2>3. r = [k \in Nat |-> IF k = 0 THEN x0 ELSE Turn(r[k - 1])]
    <3>1. \A k \in Nat : k # 0 => r[k] = Turn(r[k - 1])
      <4> SUFFICES ASSUME NEW k \in Nat, k # 0 PROVE r[k] = Turn(r[k - 1])
        OBVIOUS
      <4> HIDE DEF U, Turn
      <4>1. k - 1 \in Nat /\ k = (k - 1) + 1
        OBVIOUS
      <4>2. r[k - 1] \in U
        BY <2>2, <4>1 DEF Loops
      <4> QED BY <2>2, <4>1, <4>2 DEF Loops
    <3> HIDE DEF U, Turn, x0
    <3> QED BY <2>2, <3>1 DEF Loops
  <2> HIDE DEF Turn, x0
  <2> QED BY <2>3, Zenon
<1> HIDE DEF t, Turn, x0
<1>5. t[0] = x0 /\ \A k \in Nat : t[k + 1] = Turn(t[k])
  <2>1. t[0] = x0
    BY <1>4
  <2>2. ASSUME NEW k \in Nat PROVE t[k + 1] = Turn(t[k])
    <3>1. k + 1 \in Nat /\ k + 1 # 0 /\ (k + 1) - 1 = k
      OBVIOUS
    <3> QED BY <1>4, <3>1
  <2> QED BY <2>1, <2>2
<1>6. \A k \in Nat : t[k] \in U
  <2> HIDE DEF U
  <2> DEFINE P == {k \in Nat : t[k] \in U}
  <2>1. 0 \in P
    BY <1>1, <1>5
  <2>3. ASSUME NEW k \in Nat, k \in P PROVE k + 1 \in P
    <3>1. t[k] \in U /\ t[k + 1] = Turn(t[k])
      BY <1>5, <2>3
    <3> QED BY <1>2, <3>1
  <2> HIDE DEF P
  <2>2. Nat \subseteq P
    BY <2>1, <2>3, Induct
  <2> QED BY <2>2 DEF P
<1> DEFINE Done(x) == Turn(x) = x /\ Settled(x.h, d, s, n, x.i)
\* A turn that is not the last goes down by a place at least.
<1>7. \A k \in Nat : Done(t[k]) \/ t[k].i >= j + k
  <2> DEFINE P == {k \in Nat : Done(t[k]) \/ t[k].i >= j + k}
  <2>1. 0 \in P
    <3>1. t[0].i = j
      BY <1>5 DEF x0
    <3> HIDE DEF U
    <3> QED BY <3>1
  <2>2. ASSUME NEW k \in Nat, k \in P PROVE k + 1 \in P
    <3>1. t[k + 1] = Turn(t[k]) /\ t[k] \in U /\ t[k + 1] \in U
      <4> HIDE DEF U
      <4>1. t[k + 1] = Turn(t[k]) /\ t[k] \in U
        BY <1>5, <1>6
      <4>2. k + 1 \in Nat
        OBVIOUS
      <4>3. t[k + 1] \in U
        BY <4>2, <1>6
      <4> QED BY <4>1, <4>3
    <3>2. CASE Done(t[k])
      BY <3>1, <3>2
    <3>3. CASE ~Done(t[k])
      <4>1. t[k + 1].i > t[k].i /\ t[k].i >= j + k
        BY <1>2, <3>1, <3>3, <2>2
      <4>2. t[k + 1].i \in Nat /\ t[k].i \in Nat
        BY <3>1
      <4> QED BY <4>1, <4>2
    <3> QED BY <3>2, <3>3
  <2> HIDE DEF P
  <2>3. Nat \subseteq P
    BY <2>1, <2>2, Induct
  <2> QED BY <2>3 DEF P
<1>8. Done(z) /\ z \in U
  BY <1>3, <1>6, <1>7
<1>9. /\ z.i \in 1 .. n /\ z.i >= j /\ Same(h, z.h, n)
      /\ OrderedAround(z.h, d, s, n, z.i) /\ Settled(z.h, d, s, n, z.i)
      /\ z.i > j => Fits(z.h, d, s, z.i)
  BY <1>8
<1>10. z.i > j => OrderedTo(z.h, d, s, n)
  BY <1>9 DEF OrderedAround, Settled, OrderedTo
<1>11. z.i = j => OrderedBut(z.h, d, s, n, j)
  BY <1>9 DEF OrderedAround, Settled, OrderedBut
<1> QED BY <1>9, <1>10, <1>11

LEMMA SettleIs ==
  ASSUME NEW d \in Keys, NEW s \in Keys, NEW h \in Heaps, Places(h),
         NEW n \in Nat, n <= Len(h.q), NEW i \in 1 .. n, OrderedAround(h, d, s, n, i)
  PROVE  Same(h, Settle(h, d, s, i, n), n) /\ OrderedTo(Settle(h, d, s, i, n), d, s, n)
<1> DEFINE z == Down(h, d, s, i, n)
<1>1. /\ z.i \in Nat /\ z.i >= i /\ Same(h, z.h, n)
      /\ IF z.i > i THEN OrderedTo(z.h, d, s, n) ELSE OrderedBut(z.h, d, s, n, i)
  <2>1. z = Down(h, d, s, i, n)
    OBVIOUS
  <2> HIDE DEF z
  <2> QED BY <2>1, DownIs
<1>2. Settle(h, d, s, i, n) = IF z.i > i THEN z.h ELSE Up(z.h, d, s, i)
  BY DEF Settle
<1> HIDE DEF z
<1>3. CASE z.i > i
  BY <1>1, <1>2, <1>3
<1>4. CASE ~(z.i > i)
  <2>1. z.h \in Heaps /\ Places(z.h) /\ n <= Len(z.h.q)
    BY <1>1 DEF Same
  <2>2. Same(z.h, Up(z.h, d, s, i), n) /\ OrderedTo(Up(z.h, d, s, i), d, s, n)
    BY <1>1, <1>4, <2>1, UpIs
  <2> QED BY <1>1, <1>2, <1>4, <2>2, SameTrans
<1> QED BY <1>3, <1>4
-----------------------------------------------------------------------------
(* The operations. *)

HeapOK(h, d, s) == h \in Heaps /\ Places(h) /\ OrderedTo(h, d, s, Len(h.q))

\* The first is before no other, for a least one before it would have a parent
\* that is not.
LEMMA RootIs ==
  ASSUME NEW d \in Keys, NEW s \in Keys, NEW h, HeapOK(h, d, s)
  PROVE  \A k \in 1 .. Len(h.q) : ~Less(d, s, h.q[k], h.q[1])
<1> DEFINE n == Len(h.q)
           S == {k \in 1 .. n : Less(d, s, h.q[k], h.q[1])}
<1>1. h \in Heaps /\ n \in Nat /\ OrderedTo(h, d, s, n)
  BY DEF HeapOK, Heaps
<1>2. SUFFICES ASSUME S # {} PROVE FALSE
  OBVIOUS
<1>3. PICK m \in S : \A y \in S : m <= y
  <2>1. S \in SUBSET Nat
    OBVIOUS
  <2> HIDE DEF S
  <2> QED BY <1>2, <2>1, Least
<1>4. \A k \in 1 .. n : h.q[k] \in TimerIds
  BY <1>1, InHeap
<1>5. m \in 1 .. n /\ m # 1 /\ 1 \in 1 .. n
  BY <1>4, LessIs
<1>6. Parent(m) \in 1 .. n /\ Parent(m) < m
  BY <1>5, ParentIs
<1>7. Parent(m) \notin S
  BY <1>3, <1>5, <1>6
<1>8. ~Less(d, s, h.q[m], h.q[Parent(m)]) /\ ~Less(d, s, h.q[Parent(m)], h.q[1])
  BY <1>1, <1>5, <1>6, <1>7 DEF OrderedTo, Fits
<1> QED BY <1>4, <1>5, <1>6, <1>8, LessIs

LEMMA PushIs ==
  ASSUME NEW d \in Keys, NEW s \in Keys, NEW h, HeapOK(h, d, s),
         NEW e \in TimerIds, h.at[e] = 0, NEW g, g = Push(h, d, s, e)
  PROVE  /\ HeapOK(g, d, s)
         /\ \A f \in TimerIds : g.at[f] # 0 <=> h.at[f] # 0 \/ f = e
<1> DEFINE n == Len(h.q)
           q == Append(h.q, e)
           at == [h.at EXCEPT ![e] = Len(q)]
           k == [q |-> q, at |-> at]
<1>1. h \in Heaps /\ h.q \in Seq(TimerIds) /\ n \in Nat /\ h.at \in [TimerIds -> Nat]
      /\ Places(h) /\ OrderedTo(h, d, s, n)
  BY DEF HeapOK, Heaps
<1>2. /\ q \in Seq(TimerIds) /\ Len(q) = n + 1 /\ q[n + 1] = e
      /\ \A c \in 1 .. n : q[c] = h.q[c]
  BY <1>1
<1>3. /\ at \in [TimerIds -> Nat] /\ at[e] = n + 1
      /\ \A f \in TimerIds : f # e => at[f] = h.at[f]
  BY <1>1, <1>2
<1>4. \A c \in 1 .. n : h.q[c] \in TimerIds /\ h.q[c] # e
  BY <1>1 DEF Places
<1>5. g = Up(k, d, s, n + 1) /\ k.q = q /\ k.at = at
  BY <1>2 DEF Push
<1> HIDE DEF q, at
<1>6. k \in Heaps
  BY <1>2, <1>3 DEF Heaps
<1>7. Places(k)
  <2>1. ASSUME NEW c \in 1 .. n + 1 PROVE at[q[c]] = c
    <3>1. CASE c = n + 1
      BY <3>1, <1>2, <1>3
    <3>2. CASE c # n + 1
      <4>1. c \in 1 .. n
        BY <1>1, <3>2
      <4> QED BY <4>1, <1>1, <1>2, <1>3, <1>4 DEF Places
    <3> QED BY <3>1, <3>2
  <2>2. ASSUME NEW f \in TimerIds, at[f] # 0
        PROVE  at[f] \in 1 .. n + 1 /\ q[at[f]] = f
    <3>1. CASE f = e
      BY <3>1, <1>1, <1>2, <1>3
    <3>2. CASE f # e
      <4>1. at[f] \in 1 .. n /\ h.q[at[f]] = f
        BY <3>2, <2>2, <1>1, <1>3 DEF Places
      <4> QED BY <4>1, <1>1, <1>2
    <3> QED BY <3>1, <3>2
  <2> QED BY <2>1, <2>2, <1>2 DEF Places
<1>8. OrderedBut(k, d, s, n + 1, n + 1)
  <2>1. ASSUME NEW c \in 2 .. n + 1, c # n + 1
        PROVE  Fits(k, d, s, c)
    <3>1. c \in 2 .. n /\ c \in 1 .. n /\ Parent(c) \in 1 .. n
      BY <1>1, <2>1, ParentIs
    <3> QED BY <3>1, <1>1, <1>2 DEF OrderedTo, Fits
  <2>2. \A c \in 2 .. n + 1 : Parent(c) # n + 1
    BY <1>1, ParentIs
  <2> QED BY <2>1, <2>2 DEF OrderedBut, Spans
<1> HIDE DEF k
<1>9. Same(k, g, n + 1) /\ OrderedTo(g, d, s, n + 1)
  BY <1>1, <1>2, <1>5, <1>6, <1>7, <1>8, UpIs
<1>10. HeapOK(g, d, s)
  BY <1>2, <1>5, <1>9 DEF HeapOK, Same
<1>11. \A f \in TimerIds : g.at[f] # 0 <=> at[f] # 0
  BY <1>5, <1>9 DEF Same
<1>12. \A f \in TimerIds : at[f] # 0 <=> h.at[f] # 0 \/ f = e
  BY <1>1, <1>3
<1> QED BY <1>10, <1>11, <1>12

LEMMA FixIs ==
  ASSUME NEW d \in Keys, NEW s \in Keys, NEW h \in Heaps, Places(h),
         NEW i \in 1 .. Len(h.q), OrderedAround(h, d, s, Len(h.q), i),
         NEW g, g = Fix(h, d, s, i)
  PROVE  HeapOK(g, d, s) /\ \A f \in TimerIds : g.at[f] # 0 <=> h.at[f] # 0
<1> DEFINE n == Len(h.q)
<1>1. n \in Nat
  BY DEF Heaps
<1>2. Same(h, g, n) /\ OrderedTo(g, d, s, n)
  BY <1>1, SettleIs DEF Fix
<1> QED BY <1>2 DEF HeapOK, Same
LEMMA PrefixIs ==
  ASSUME NEW S, NEW s \in Seq(S), NEW k \in Nat, k <= Len(s)
  PROVE  /\ SubSeq(s, 1, k) \in Seq(S) /\ Len(SubSeq(s, 1, k)) = k
         /\ \A c \in 1 .. k : SubSeq(s, 1, k)[c] = s[c]
OBVIOUS

\* Without its last entry.
Cut(k) == [q |-> Front(k.q), at |-> [k.at EXCEPT ![Last(k.q)] = 0]]

LEMMA CutIs ==
  ASSUME NEW d \in Keys, NEW s \in Keys, NEW k, k \in Heaps, Places(k),
         NEW n, n \in Nat, n = Len(k.q), n > 0, OrderedTo(k, d, s, n - 1),
         NEW g, g = Cut(k)
  PROVE  /\ HeapOK(g, d, s)
         /\ \A f \in TimerIds : g.at[f] # 0 <=> k.at[f] # 0 /\ f # k.q[n]
<1>1. k.q \in Seq(TimerIds) /\ k.at \in [TimerIds -> Nat] /\ n \in 1 .. n
  BY DEF Heaps
<1>2. k.q[n] \in TimerIds /\ k.at[k.q[n]] = n /\ Last(k.q) = k.q[n]
  BY <1>1 DEF Places, Last
<1>3. /\ g.q = SubSeq(k.q, 1, n - 1) /\ g.at = [k.at EXCEPT ![k.q[n]] = 0]
      /\ g = [q |-> g.q, at |-> g.at]
  BY <1>2 DEF Cut, Front
<1>4. /\ g.q \in Seq(TimerIds) /\ Len(g.q) = n - 1
      /\ \A c \in 1 .. n - 1 : g.q[c] = k.q[c]
  <2> DEFINE m == n - 1
             q == k.q
  <2>1. m \in Nat /\ m <= Len(q) /\ q \in Seq(TimerIds) /\ g.q = SubSeq(q, 1, m)
    BY <1>1, <1>3
  <2> HIDE DEF m, q
  <2>2. /\ SubSeq(q, 1, m) \in Seq(TimerIds) /\ Len(SubSeq(q, 1, m)) = m
        /\ \A c \in 1 .. m : SubSeq(q, 1, m)[c] = q[c]
    BY ONLY <2>1, PrefixIs
  <2> QED BY <2>1, <2>2 DEF m, q
<1>5. /\ g.at \in [TimerIds -> Nat] /\ g.at[k.q[n]] = 0
      /\ \A f \in TimerIds : f # k.q[n] => g.at[f] = k.at[f]
  BY <1>1, <1>2, <1>3
<1>6. g \in Heaps
  BY <1>3, <1>4, <1>5 DEF Heaps
<1>7. Places(g)
  <2>1. ASSUME NEW c \in 1 .. n - 1 PROVE g.at[g.q[c]] = c
    <3>1. c \in 1 .. n /\ c # n
      OBVIOUS
    <3>2. k.q[c] \in TimerIds /\ k.at[k.q[c]] = c
      BY <3>1, <1>1 DEF Places
    <3>3. k.q[c] # k.q[n]
      BY <3>1, <3>2, <1>2
    <3> QED BY <3>2, <3>3, <1>4, <1>5
  <2>2. ASSUME NEW f \in TimerIds, g.at[f] # 0
        PROVE  g.at[f] \in 1 .. n - 1 /\ g.q[g.at[f]] = f
    <3>1. f # k.q[n] /\ g.at[f] = k.at[f]
      BY <2>2, <1>2, <1>5
    <3>2. k.at[f] \in 1 .. n /\ k.q[k.at[f]] = f
      BY <3>1, <2>2 DEF Places
    <3>3. k.at[f] \in 1 .. n - 1
      BY <3>1, <3>2
    <3> QED BY <3>1, <3>2, <3>3, <1>4
  <2> QED BY <2>1, <2>2, <1>4 DEF Places
<1>8. OrderedTo(g, d, s, n - 1)
  <2> SUFFICES ASSUME NEW c \in 2 .. n - 1 PROVE Fits(g, d, s, c)
    BY DEF OrderedTo
  <2>1. c \in 1 .. n - 1 /\ Parent(c) \in 1 .. n - 1
    BY ParentIs
  <2> QED BY <2>1, <1>4 DEF OrderedTo, Fits
<1>9. \A f \in TimerIds : g.at[f] # 0 <=> k.at[f] # 0 /\ f # k.q[n]
  BY <1>2, <1>5
<1> QED BY <1>4, <1>6, <1>7, <1>8, <1>9 DEF HeapOK

LEMMA TakeOutIs ==
  ASSUME NEW d \in Keys, NEW s \in Keys, NEW h, HeapOK(h, d, s),
         NEW i \in 1 .. Len(h.q), NEW g, g = TakeOut(h, d, s, i)
  PROVE  /\ HeapOK(g, d, s)
         /\ \A f \in TimerIds : g.at[f] # 0 <=> h.at[f] # 0 /\ f # h.q[i]
         /\ Len(g.q) = Len(h.q) - 1
<1> DEFINE n == Len(h.q)
           w == Swap(h, i, n)
           k == IF i = n THEN h ELSE Settle(w, d, s, i, n - 1)
<1>1. h \in Heaps /\ n \in Nat /\ n \in 1 .. n /\ n > 0 /\ Places(h) /\ OrderedTo(h, d, s, n)
  BY DEF HeapOK, Heaps
<1>2. \A c \in 1 .. n : h.q[c] \in TimerIds
  BY <1>1, InHeap
<1>3. g = Cut(k)
  BY DEF TakeOut, Cut
<1>4. /\ k \in Heaps /\ Places(k) /\ Len(k.q) = n /\ k.q[n] = h.q[i]
      /\ OrderedTo(k, d, s, n - 1)
      /\ \A f \in TimerIds : k.at[f] = 0 <=> h.at[f] = 0
  <2>1. CASE i = n
    <3>1. OrderedTo(h, d, s, n - 1)
      BY <1>1 DEF OrderedTo
    <3> QED BY <2>1, <3>1, <1>1
  <2>2. CASE i # n
    <3>1. /\ Same(h, w, n) /\ w.q[i] = h.q[n] /\ w.q[n] = h.q[i]
          /\ \A c \in 1 .. n : c # i /\ c # n => w.q[c] = h.q[c]
      <4>1. n <= Len(h.q) /\ i \in 1 .. n
        BY <1>1
      <4> HIDE DEF n
      <4> QED BY <4>1, <1>1, <2>2, SwapIs
    <3> HIDE DEF w
    <3>2. w \in Heaps /\ Places(w) /\ Len(w.q) = n
      BY <3>1 DEF Same
    <3>3. OrderedAround(w, d, s, n - 1, i)
      <4>1. ASSUME NEW c \in 2 .. n - 1, c # i, Parent(c) # i
            PROVE  Fits(w, d, s, c)
        <5>1. c \in 2 .. n /\ c \in 1 .. n /\ c # n /\ Parent(c) \in 1 .. n /\ Parent(c) # n
          BY ParentIs, <1>1
        <5> QED BY <5>1, <4>1, <3>1, <1>1 DEF OrderedTo, Fits
      <4>2. ASSUME NEW c \in 2 .. n - 1, Parent(c) = i, i > 1
            PROVE  ~Less(d, s, w.q[c], w.q[Parent(i)])
        <5>1. /\ c \in 2 .. n /\ c \in 1 .. n /\ c # n /\ c # i
              /\ i \in 2 .. n /\ i \in 1 .. n
              /\ Parent(i) \in 1 .. n /\ Parent(i) # n /\ Parent(i) # i
          BY ParentIs, <1>1, <4>2
        <5>2. ~Less(d, s, h.q[c], h.q[i]) /\ ~Less(d, s, h.q[i], h.q[Parent(i)])
          BY <5>1, <4>2, <1>1 DEF OrderedTo, Fits
        <5>3. ~Less(d, s, h.q[c], h.q[Parent(i)])
          BY <5>1, <5>2, <1>2, LessIs
        <5> QED BY <5>1, <5>3, <3>1
      <4> QED BY <4>1, <4>2 DEF OrderedAround, Spans
    <3>4. /\ n - 1 \in Nat /\ n - 1 <= Len(w.q) /\ i \in 1 .. n - 1
          /\ n \in (n - 1) + 1 .. Len(w.q)
      BY <1>1, <2>2, <3>2
    <3>5. Same(w, k, n - 1) /\ OrderedTo(k, d, s, n - 1)
      <4>1. k = Settle(w, d, s, i, n - 1)
        BY <2>2
      <4> HIDE DEF n, k
      <4> QED BY <4>1, <3>2, <3>3, <3>4, SettleIs
    <3>6. k.q[n] = w.q[n]
      BY <3>4, <3>5 DEF Same
    <3> QED BY <3>1, <3>2, <3>5, <3>6 DEF Same
  <2> QED BY <2>1, <2>2
<1> HIDE DEF k, n
<1>5. HeapOK(g, d, s) /\ \A f \in TimerIds : g.at[f] # 0 <=> k.at[f] # 0 /\ f # k.q[n]
  <2>1. k \in Heaps /\ Places(k) /\ n = Len(k.q) /\ OrderedTo(k, d, s, n - 1)
    BY <1>4
  <2>2. n \in Nat /\ n > 0
    BY <1>1
  <2> QED BY <1>3, <2>1, <2>2, CutIs
<1>6. Len(g.q) = n - 1
  <2>1. g.q = Front(k.q)
    BY <1>3 DEF Cut
  <2>2. k.q \in Seq(TimerIds)
    BY <1>4 DEF Heaps
  <2> QED BY <2>1, <2>2, <1>1, <1>4 DEF Front
<1> QED BY <1>4, <1>5, <1>6 DEF n
-----------------------------------------------------------------------------
(* The scheduler. *)

Entries == [id : TimerIds, dl : Nat, sq : Nat]
TypeOK ==
    /\ Heap \in Heaps /\ dl \in Keys /\ sq \in Keys
    /\ sends \subseteq Refs /\ nextRef \in Nat /\ nextSeq \in Nat /\ now \in Nat
    /\ served \in Seq(Entries)
    /\ status \in [Actors -> {"ready", "blocked", "dead"}] /\ box \in [Actors -> Nat]

\* No two timers in the heap were armed at once.
ArmedApart ==
    \A e, f \in TimerIds : pos[e] # 0 /\ pos[f] # 0 => sq[e] < nextSeq /\ (e # f => sq[e] # sq[f])

\* The inductive invariant.
TimersInv == TypeOK /\ HeapHolds /\ ArmedApart

LEMMA InvHeap ==
  ASSUME TimersInv
  PROVE  HeapOK(Heap, dl, sq) /\ Heap.q = heap /\ Heap.at = pos
<1>1. Heap.q = heap /\ Heap.at = pos
  BY DEF Heap
<1>2. Heap \in Heaps
  BY DEF TimersInv, TypeOK
<1>3. DOMAIN heap = 1 .. Len(heap)
  BY <1>1, <1>2 DEF Heaps
<1> QED BY <1>1, <1>2, <1>3 DEF TimersInv, HeapHolds, HeapOK, Places, OrderedTo, Fits, Parent

LEMMA Pairs ==
  ASSUME NEW h, NEW q, NEW at, h = [q |-> q, at |-> at]
  PROVE  h.q = q /\ h.at = at
OBVIOUS

\* The timers in a heap.
LEMMA InIs ==
  ASSUME NEW h \in Heaps, Places(h)
  PROVE  {h.q[i] : i \in DOMAIN h.q} = {e \in TimerIds : h.at[e] # 0}
<1>1. DOMAIN h.q = 1 .. Len(h.q) /\ \A i \in DOMAIN h.q : h.q[i] \in TimerIds
  BY DEF Heaps
<1>2. \A i \in DOMAIN h.q : h.at[h.q[i]] = i /\ i # 0
  BY <1>1 DEF Places
<1>3. \A e \in TimerIds : h.at[e] # 0 => h.at[e] \in DOMAIN h.q /\ h.q[h.at[e]] = e
  BY <1>1 DEF Places
<1> QED BY <1>1, <1>2, <1>3

LEMMA ArmIs ==
  ASSUME TimersInv, NEW id \in TimerIds, NEW when \in Nat, Arm(id, when)
  PROVE  /\ Heap' \in Heaps /\ HeapOK(Heap', dl', sq')
         /\ \A f \in TimerIds : pos'[f] # 0 <=> pos[f] # 0 \/ f = id
         /\ dl' \in Keys /\ sq' \in Keys /\ dl'[id] = when /\ sq'[id] = nextSeq
         /\ \A f \in TimerIds : f # id => dl'[f] = dl[f] /\ sq'[f] = sq[f]
         /\ nextSeq' = nextSeq + 1
<1> DEFINE d == [dl EXCEPT ![id] = when]
           s == [sq EXCEPT ![id] = nextSeq]
           n == Len(heap)
           g == IF pos[id] > 0 THEN Fix(Heap, d, s, pos[id]) ELSE Push(Heap, d, s, id)
<1>1. dl' = d /\ sq' = s /\ nextSeq' = nextSeq + 1 /\ heap' = g.q /\ pos' = g.at
  BY DEF Arm, SetHeap
<1>2. dl \in Keys /\ sq \in Keys /\ nextSeq \in Nat
  BY DEF TimersInv, TypeOK
<1>3. /\ d \in Keys /\ s \in Keys /\ d[id] = when /\ s[id] = nextSeq
      /\ \A f \in TimerIds : f # id => d[f] = dl[f] /\ s[f] = sq[f]
  BY <1>2 DEF Keys
<1> HIDE DEF d, s
<1>4. \A e, f \in TimerIds : e # id /\ f # id => (Less(d, s, e, f) <=> Less(dl, sq, e, f))
  BY <1>3 DEF Less
<1>5. /\ HeapOK(Heap, dl, sq) /\ Heap \in Heaps /\ Places(Heap) /\ OrderedTo(Heap, dl, sq, n)
      /\ Heap.q = heap /\ Heap.at = pos /\ n \in Nat
  BY InvHeap DEF HeapOK, Heaps
<1>6. \A c \in 1 .. n : heap[c] \in TimerIds /\ pos[heap[c]] = c
  BY <1>5 DEF Places, Heaps
<1>7. HeapOK(g, d, s) /\ \A f \in TimerIds : g.at[f] # 0 <=> pos[f] # 0 \/ f = id
  <2>1. CASE pos[id] > 0
    <3> DEFINE i == pos[id]
    <3>1. i \in 1 .. n /\ heap[i] = id
      BY <2>1, <1>5 DEF Places
    <3>2. \A c \in 1 .. n : c # i => heap[c] # id
      BY <1>6
    <3>3. OrderedAround(Heap, d, s, n, i)
      <4>1. ASSUME NEW c \in 2 .. n, c # i, Parent(c) # i
            PROVE  Fits(Heap, d, s, c)
        <5>1. c \in 1 .. n /\ Parent(c) \in 1 .. n
          BY ParentIs, <1>5
        <5> QED BY <5>1, <4>1, <3>2, <1>4, <1>5, <1>6 DEF OrderedTo, Fits
      <4>2. ASSUME NEW c \in 2 .. n, Parent(c) = i, i > 1
            PROVE  ~Less(d, s, heap[c], heap[Parent(i)])
        <5>1. /\ c \in 1 .. n /\ c # i /\ i \in 2 .. n
              /\ Parent(i) \in 1 .. n /\ Parent(i) # i
          BY ParentIs, <1>5, <3>1, <4>2
        <5>2. ~Less(dl, sq, heap[c], heap[i]) /\ ~Less(dl, sq, heap[i], heap[Parent(i)])
          BY <5>1, <4>2, <1>5 DEF OrderedTo, Fits
        <5>3. /\ heap[c] \in TimerIds /\ heap[i] \in TimerIds /\ heap[Parent(i)] \in TimerIds
              /\ heap[c] # id /\ heap[Parent(i)] # id
          BY <5>1, <3>1, <3>2, <1>6
        <5>4. ~Less(dl, sq, heap[c], heap[Parent(i)])
          BY <5>2, <5>3, <1>2, LessIs
        <5> QED BY <5>3, <5>4, <1>4
      <4> QED BY <4>1, <4>2, <1>5 DEF OrderedAround, Spans
    <3>4. g = Fix(Heap, d, s, i)
      BY <2>1
    <3> HIDE DEF g, i, n
    <3>5. i \in 1 .. Len(Heap.q) /\ OrderedAround(Heap, d, s, Len(Heap.q), i)
      BY <1>5, <3>1, <3>3 DEF n
    <3>6. HeapOK(g, d, s) /\ \A f \in TimerIds : g.at[f] # 0 <=> Heap.at[f] # 0
      BY <1>3, <1>5, <3>4, <3>5, FixIs
    <3> QED BY <3>6, <2>1, <1>5
  <2>2. CASE ~(pos[id] > 0)
    <3>1. pos[id] = 0
      BY <2>2, <1>5 DEF Heaps
    <3>2. \A c \in 1 .. n : heap[c] # id
      BY <3>1, <1>6
    <3>3. OrderedTo(Heap, d, s, n)
      <4> SUFFICES ASSUME NEW c \in 2 .. n PROVE Fits(Heap, d, s, c)
        BY DEF OrderedTo
      <4>1. c \in 1 .. n /\ Parent(c) \in 1 .. n
        BY ParentIs, <1>5
      <4> QED BY <4>1, <3>2, <1>4, <1>5, <1>6 DEF OrderedTo, Fits
    <3>4. g = Push(Heap, d, s, id)
      BY <2>2
    <3>5. HeapOK(Heap, d, s) /\ Heap.at[id] = 0
      BY <3>1, <3>3, <1>5 DEF HeapOK
    <3> HIDE DEF g, n
    <3> QED BY <3>4, <3>5, <1>3, <1>5, PushIs
  <2> QED BY <2>1, <2>2
<1> HIDE DEF g
<1>8. Heap' = g
  <2>1. g = [q |-> g.q, at |-> g.at]
    BY <1>7 DEF HeapOK, Heaps
  <2> QED BY <2>1, <1>1 DEF Heap
<1> QED BY <1>1, <1>3, <1>7, <1>8 DEF HeapOK
LEMMA DisarmIs ==
  ASSUME TimersInv, NEW id \in TimerIds, pos[id] > 0,
         SetHeap(TakeOut(Heap, dl, sq, pos[id]))
  PROVE  /\ Heap' \in Heaps /\ HeapOK(Heap', dl, sq)
         /\ \A f \in TimerIds : pos'[f] # 0 <=> pos[f] # 0 /\ f # id
<1> DEFINE g == TakeOut(Heap, dl, sq, pos[id])
           i == pos[id]
<1>1. heap' = g.q /\ pos' = g.at
  BY DEF SetHeap
<1>2. dl \in Keys /\ sq \in Keys
  BY DEF TimersInv, TypeOK
<1>3. HeapOK(Heap, dl, sq) /\ Heap.q = heap /\ Heap.at = pos
  BY InvHeap
<1>4. i \in 1 .. Len(Heap.q) /\ Heap.q[i] = id
  BY <1>3 DEF HeapOK, Places
<1>5. g = TakeOut(Heap, dl, sq, i)
  OBVIOUS
<1> HIDE DEF g, i
<1>6. HeapOK(g, dl, sq) /\ \A f \in TimerIds : g.at[f] # 0 <=> Heap.at[f] # 0 /\ f # Heap.q[i]
  BY <1>2, <1>3, <1>4, <1>5, TakeOutIs
<1>7. Heap' = g
  <2>1. g = [q |-> g.q, at |-> g.at]
    BY <1>6 DEF HeapOK, Heaps
  <2> QED BY <2>1, <1>1 DEF Heap
<1> QED BY <1>1, <1>3, <1>4, <1>6, <1>7 DEF HeapOK

\* What is pending, before a step and after it.
LEMMA PendingIs ==
  ASSUME TimersInv
  PROVE  Pending = {Entry(e) : e \in {f \in TimerIds : pos[f] # 0}}
<1>1. HeapOK(Heap, dl, sq) /\ Heap.q = heap /\ Heap.at = pos
  BY InvHeap
<1>2. {Heap.q[i] : i \in DOMAIN Heap.q} = {e \in TimerIds : Heap.at[e] # 0}
  BY <1>1, InIs DEF HeapOK
<1> QED BY <1>1, <1>2 DEF Pending, Armed

LEMMA PendingNext ==
  ASSUME Heap' \in Heaps, Places(Heap')
  PROVE  Pending' = {[id |-> e, dl |-> dl'[e], sq |-> sq'[e]] : e \in {f \in TimerIds : pos'[f] # 0}}
<1>1. Heap'.q = heap' /\ Heap'.at = pos'
  BY DEF Heap
<1> DEFINE h == Heap'
<1>2. h \in Heaps /\ Places(h)
  OBVIOUS
<1> HIDE DEF h
<1>3. {h.q[i] : i \in DOMAIN h.q} = {e \in TimerIds : h.at[e] # 0}
  BY <1>2, InIs
<1>4. Armed' = {e \in TimerIds : pos'[e] # 0}
  BY <1>1, <1>3 DEF h, Armed
<1> QED BY <1>4 DEF Pending, Entry

LEMMA HoldsNext ==
  ASSUME Heap' \in Heaps, HeapOK(Heap', dl', sq'), sends' = {r \in Refs : pos'[r] # 0},
         \A r \in Refs : r >= nextRef' => pos'[r] = 0
  PROVE  HeapHolds'
<1>1. Heap'.q = heap' /\ Heap'.at = pos'
  BY DEF Heap
<1>2. DOMAIN heap' = 1 .. Len(heap')
  BY <1>1 DEF Heaps
<1> QED BY <1>1, <1>2 DEF HeapHolds, HeapOK, Places, OrderedTo, Fits, Parent

\* A step that arms.
LEMMA ArmStep ==
  ASSUME TimersInv, NEW id \in TimerIds, NEW when \in Nat, when >= now, Arm(id, when),
         UNCHANGED <<now, served>>
  PROVE  /\ Heap' \in Heaps /\ HeapOK(Heap', dl', sq') /\ dl' \in Keys /\ sq' \in Keys
         /\ nextSeq' \in Nat /\ ArmedApart' /\ Q!Next
         /\ \A f \in TimerIds : pos'[f] # 0 <=> pos[f] # 0 \/ f = id
<1>1. /\ Heap' \in Heaps /\ HeapOK(Heap', dl', sq')
      /\ \A f \in TimerIds : pos'[f] # 0 <=> pos[f] # 0 \/ f = id
      /\ dl' \in Keys /\ sq' \in Keys /\ dl'[id] = when /\ sq'[id] = nextSeq
      /\ \A f \in TimerIds : f # id => dl'[f] = dl[f] /\ sq'[f] = sq[f]
      /\ nextSeq' = nextSeq + 1
  BY ArmIs
<1>2. nextSeq \in Nat /\ sq \in Keys /\ ArmedApart
  BY DEF TimersInv, TypeOK
<1>3. ArmedApart'
  <2> SUFFICES ASSUME NEW e \in TimerIds, NEW f \in TimerIds, pos'[e] # 0, pos'[f] # 0
               PROVE  sq'[e] < nextSeq' /\ (e # f => sq'[e] # sq'[f])
    BY DEF ArmedApart
  <2>1. /\ e # id => sq'[e] = sq[e] /\ pos[e] # 0
        /\ f # id => sq'[f] = sq[f] /\ pos[f] # 0
    BY <1>1
  <2>2. /\ e # id => sq[e] < nextSeq /\ sq[e] \in Nat
        /\ f # id => sq[f] < nextSeq /\ sq[f] \in Nat
        /\ e # id /\ f # id /\ e # f => sq[e] # sq[f]
    BY <2>1, <1>2 DEF ArmedApart, Keys
  <2> QED BY <2>1, <2>2, <1>1, <1>2
<1>4. Pending = {Entry(e) : e \in {f \in TimerIds : pos[f] # 0}}
  BY PendingIs
<1>5. Pending' = {[id |-> e, dl |-> dl'[e], sq |-> sq'[e]] : e \in {f \in TimerIds : pos'[f] # 0}}
  BY <1>1, PendingNext DEF HeapOK
<1> DEFINE new == [id |-> id, dl |-> when, sq |-> nextSeq]
<1>6. Pending' = {t \in Pending : t.id # id} \cup {new}
  <2>1. ASSUME NEW t \in Pending' PROVE t \in {u \in Pending : u.id # id} \cup {new}
    <3>1. PICK e \in TimerIds : pos'[e] # 0 /\ t = [id |-> e, dl |-> dl'[e], sq |-> sq'[e]]
      BY <2>1, <1>5
    <3>2. CASE e = id
      BY <3>1, <3>2, <1>1
    <3>3. CASE e # id
      <4>1. t = Entry(e) /\ pos[e] # 0 /\ t.id = e
        BY <3>1, <3>3, <1>1 DEF Entry
      <4> QED BY <4>1, <3>3, <1>4
    <3> QED BY <3>2, <3>3
  <2>2. ASSUME NEW t \in Pending, t.id # id PROVE t \in Pending'
    <3>1. PICK e \in TimerIds : pos[e] # 0 /\ t = Entry(e)
      BY <2>2, <1>4
    <3>2. e # id /\ pos'[e] # 0
      BY <3>1, <2>2, <1>1 DEF Entry
    <3>3. t = [id |-> e, dl |-> dl'[e], sq |-> sq'[e]]
      BY <3>1, <3>2, <1>1 DEF Entry
    <3> QED BY <3>2, <3>3, <1>5
  <2>3. new \in Pending'
    BY <1>1, <1>5
  <2> QED BY <2>1, <2>2, <2>3
<1>7. Q!Arm(id, when)
  BY <1>1, <1>6 DEF Q!Arm
<1>8. new \in Pending' /\ new.id = id /\ new.dl = when
  BY <1>6
<1>9. Q!Next
  BY <1>7, <1>8 DEF Q!Next
<1> QED BY <1>1, <1>2, <1>3, <1>9

\* A step that takes a timer off.
LEMMA DisarmStep ==
  ASSUME TimersInv, NEW id \in TimerIds, pos[id] > 0,
         SetHeap(TakeOut(Heap, dl, sq, pos[id])), UNCHANGED <<dl, sq, nextSeq, now, served>>
  PROVE  /\ Heap' \in Heaps /\ HeapOK(Heap', dl', sq') /\ ArmedApart' /\ Q!Next
         /\ \A f \in TimerIds : pos'[f] # 0 <=> pos[f] # 0 /\ f # id
<1>1. /\ Heap' \in Heaps /\ HeapOK(Heap', dl, sq)
      /\ \A f \in TimerIds : pos'[f] # 0 <=> pos[f] # 0 /\ f # id
  BY DisarmIs
<1>2. ArmedApart'
  BY <1>1 DEF TimersInv, ArmedApart
<1>3. Pending = {Entry(e) : e \in {f \in TimerIds : pos[f] # 0}}
  BY PendingIs
<1>4. Pending' = {Entry(e) : e \in {f \in TimerIds : pos'[f] # 0}}
  BY <1>1, PendingNext DEF HeapOK, Entry
<1>5. \A e, f \in TimerIds : Entry(e) = Entry(f) => e = f
  BY DEF Entry
<1>6. Pending' = Pending \ {Entry(id)}
  BY <1>1, <1>3, <1>4, <1>5
<1>7. pos[id] # 0
  BY DEF TimersInv, TypeOK, Heap, Heaps
<1>8. Entry(id) \in Pending /\ Q!Disarm(Entry(id))
  BY <1>3, <1>6, <1>7 DEF Q!Disarm
<1> QED BY <1>1, <1>2, <1>8 DEF Q!Next
-----------------------------------------------------------------------------
(* Serving what is due. *)

\* Of two timers in the heap the first is the one not after the other.
LEMMA FirstIsEarlier ==
  ASSUME TimersInv, NEW e \in TimerIds, NEW f \in TimerIds, e # f,
         pos[e] # 0, pos[f] # 0, ~Less(dl, sq, f, e)
  PROVE  Q!Earlier(Entry(e), Entry(f))
<1>1. dl[e] \in Nat /\ dl[f] \in Nat /\ sq[e] \in Nat /\ sq[f] \in Nat
  BY DEF TimersInv, TypeOK, Keys
<1>2. sq[e] # sq[f]
  BY DEF TimersInv, ArmedApart
<1> QED BY <1>1, <1>2 DEF Less, Q!Earlier, Entry

States == [h : Heaps, status : [Actors -> {"ready", "blocked", "dead"}], box : [Actors -> Nat],
           sends : SUBSET Refs, served : Seq(Entries)]

\* What the loop of wakeExpired keeps, from the state in which it begins: what
\* was in the heap is in it or is served, the served are due, in the order and
\* before the ones in the heap.
New(x) == Len(served) + 1 .. Len(x.served)
Serving(x) ==
    /\ HeapOK(x.h, dl, sq)
    /\ \A e \in TimerIds : x.h.at[e] # 0 => pos[e] # 0
    /\ Len(x.served) >= Len(served)
    /\ \A c \in 1 .. Len(served) : x.served[c] = served[c]
    /\ \A e \in TimerIds : pos[e] # 0 => x.h.at[e] # 0 \/ \E c \in New(x) : x.served[c] = Entry(e)
    /\ \A c \in New(x) : \E e \in TimerIds :
          x.served[c] = Entry(e) /\ pos[e] # 0 /\ dl[e] <= now /\ x.h.at[e] = 0
    /\ \A c, k \in New(x) : c < k => Q!Earlier(x.served[c], x.served[k])
    /\ \A c \in New(x), e \in TimerIds : x.h.at[e] # 0 => Q!Earlier(x.served[c], Entry(e))
    /\ x.sends = {r \in Refs : x.h.at[r] # 0}

Over(x) == x.h.q = <<>> \/ dl[x.h.q[1]] > now

LEMMA DeliverIs ==
  ASSUME NEW st \in [Actors -> {"ready", "blocked", "dead"}], NEW bx \in [Actors -> Nat], NEW b
  PROVE  /\ Deliver(b, st, bx).status \in [Actors -> {"ready", "blocked", "dead"}]
         /\ Deliver(b, st, bx).box \in [Actors -> Nat]
<1>1. CASE b \in Actors
  <2>1. bx[b] + 1 \in Nat
    BY <1>1
  <2> QED BY <1>1, <2>1 DEF Deliver
<1>2. CASE b \notin Actors
  BY <1>2 DEF Deliver
<1> QED BY <1>1, <1>2

LEMMA ServeIs ==
  ASSUME TimersInv, NEW x \in States, Serving(x), ~Over(x), NEW y, y = Serve(x)
  PROVE  y \in States /\ Serving(y) /\ Len(y.h.q) = Len(x.h.q) - 1
<1> DEFINE e == x.h.q[1]
           n == Len(x.served)
<1>1. dl \in Keys /\ sq \in Keys /\ now \in Nat /\ served \in Seq(Entries)
  BY DEF TimersInv, TypeOK
<1>2. /\ x.h \in Heaps /\ HeapOK(x.h, dl, sq) /\ Places(x.h)
      /\ x.served \in Seq(Entries) /\ n \in Nat /\ Len(served) \in Nat /\ n >= Len(served)
      /\ x.status \in [Actors -> {"ready", "blocked", "dead"}] /\ x.box \in [Actors -> Nat]
      /\ x.sends \subseteq Refs
  BY <1>1 DEF States, Serving, HeapOK
<1>3. /\ 1 \in 1 .. Len(x.h.q) /\ e \in TimerIds /\ x.h.at[e] = 1 /\ ~(dl[e] > now)
      /\ x.h.q # <<>>
  <2>1. x.h.q # <<>> /\ ~(dl[e] > now)
    BY DEF Over
  <2>2. x.h.q \in Seq(TimerIds)
    BY <1>2 DEF Heaps
  <2>3. 1 \in 1 .. Len(x.h.q)
    BY <2>1, <2>2
  <2> QED BY <2>1, <2>2, <2>3, <1>2 DEF Places
<1>4. /\ pos[e] # 0 /\ dl[e] <= now
      /\ Entry(e) \in Entries
  BY <1>1, <1>3 DEF Serving, Keys, Entry, Entries
<1> DEFINE r == IF e \in Actors
                THEN [status |-> IF x.status[e] = "blocked"
                                 THEN [x.status EXCEPT ![e] = "ready"] ELSE x.status,
                      box |-> x.box]
                ELSE Deliver(to[e], x.status, x.box)
<1>5. r.status \in [Actors -> {"ready", "blocked", "dead"}] /\ r.box \in [Actors -> Nat]
  <2>1. CASE e \in Actors
    BY <2>1, <1>2
  <2>2. CASE e \notin Actors
    BY <2>2, <1>2, DeliverIs
  <2> QED BY <2>1, <2>2
<1>6. y = [h |-> TakeOut(x.h, dl, sq, 1), status |-> r.status, box |-> r.box,
           sends |-> x.sends \ {e}, served |-> Append(x.served, Entry(e))]
  BY <1>3 DEF Serve
<1> HIDE DEF r, e, n
<1>7. /\ y.h = TakeOut(x.h, dl, sq, 1) /\ y.sends = x.sends \ {e}
      /\ y.served = Append(x.served, Entry(e))
  BY <1>6
<1>8. /\ HeapOK(y.h, dl, sq) /\ y.h \in Heaps /\ Len(y.h.q) = Len(x.h.q) - 1
      /\ \A f \in TimerIds : y.h.at[f] # 0 <=> x.h.at[f] # 0 /\ f # e
  <2>1. /\ HeapOK(y.h, dl, sq) /\ Len(y.h.q) = Len(x.h.q) - 1
        /\ \A f \in TimerIds : y.h.at[f] # 0 <=> x.h.at[f] # 0 /\ f # x.h.q[1]
    BY <1>1, <1>2, <1>3, <1>7, TakeOutIs
  <2> QED BY <2>1 DEF e, HeapOK
<1>9. /\ y.served \in Seq(Entries) /\ Len(y.served) = n + 1 /\ y.served[n + 1] = Entry(e)
      /\ \A c \in 1 .. n : y.served[c] = x.served[c]
  BY <1>2, <1>4, <1>7 DEF n
<1>10. y \in States
  <2>1. x.sends \ {e} \in SUBSET Refs
    BY <1>2
  <2>2. y.h \in Heaps /\ y.served \in Seq(Entries)
    BY <1>8, <1>9
  <2> QED BY <1>5, <1>6, <1>7, <2>1, <2>2 DEF States
<1>11. /\ New(y) = New(x) \cup {n + 1} /\ \A c \in New(x) : c < n + 1 /\ c \in 1 .. n
       /\ n + 1 \notin New(x)
  BY <1>2, <1>9 DEF New, n
<1>12. \A f \in TimerIds : y.h.at[f] # 0 => Q!Earlier(Entry(e), Entry(f))
  <2> SUFFICES ASSUME NEW f \in TimerIds, y.h.at[f] # 0
               PROVE  Q!Earlier(Entry(e), Entry(f))
    OBVIOUS
  <2>1. f # e /\ x.h.at[f] # 0 /\ pos[f] # 0
    BY <1>8 DEF Serving
  <2>2. x.h.at[f] \in 1 .. Len(x.h.q) /\ x.h.q[x.h.at[f]] = f
    BY <2>1, <1>2 DEF Places
  <2>3. ~Less(dl, sq, f, e)
    BY <2>2, <1>1, <1>2, RootIs DEF e
  <2> QED BY <2>1, <2>3, <1>3, <1>4, FirstIsEarlier
<1>13. Serving(y)
  <2>1. \A f \in TimerIds : y.h.at[f] # 0 => pos[f] # 0
    BY <1>8 DEF Serving
  <2>2. Len(y.served) >= Len(served)
    BY <1>2, <1>9
  <2>3. \A c \in 1 .. Len(served) : y.served[c] = served[c]
    <3> SUFFICES ASSUME NEW c \in 1 .. Len(served) PROVE y.served[c] = served[c]
      OBVIOUS
    <3>1. c \in 1 .. n
      BY <1>2
    <3> QED BY <3>1, <1>9 DEF Serving
  <2>4. ASSUME NEW f \in TimerIds, pos[f] # 0
        PROVE  y.h.at[f] # 0 \/ \E c \in New(y) : y.served[c] = Entry(f)
    <3>1. CASE f = e
      BY <3>1, <1>9, <1>11
    <3>2. CASE f # e /\ x.h.at[f] # 0
      BY <3>2, <1>8
    <3>3. CASE x.h.at[f] = 0
      <4>1. PICK c \in New(x) : x.served[c] = Entry(f)
        BY <3>3, <2>4 DEF Serving
      <4> QED BY <4>1, <1>9, <1>11
    <3> QED BY <3>1, <3>2, <3>3
  <2>5. ASSUME NEW c \in New(y)
        PROVE  \E f \in TimerIds :
                 y.served[c] = Entry(f) /\ pos[f] # 0 /\ dl[f] <= now /\ y.h.at[f] = 0
    <3>1. CASE c = n + 1
      BY <3>1, <1>3, <1>4, <1>8, <1>9
    <3>2. CASE c \in New(x)
      <4>1. PICK f \in TimerIds :
                 x.served[c] = Entry(f) /\ pos[f] # 0 /\ dl[f] <= now /\ x.h.at[f] = 0
        BY <3>2 DEF Serving
      <4>2. y.served[c] = x.served[c] /\ y.h.at[f] = 0
        BY <3>2, <4>1, <1>8, <1>9, <1>11
      <4> QED BY <4>1, <4>2
    <3> QED BY <3>1, <3>2, <1>11
  <2>6. ASSUME NEW c \in New(y), NEW k \in New(y), c < k
        PROVE  Q!Earlier(y.served[c], y.served[k])
    <3>1. c \in New(x) /\ y.served[c] = x.served[c]
      <4>1. c # n + 1
        BY <2>6, <1>2, <1>11 DEF New
      <4> QED BY <4>1, <1>9, <1>11
    <3>2. CASE k = n + 1
      BY <3>1, <3>2, <1>3, <1>9 DEF Serving
    <3>3. CASE k \in New(x)
      BY <3>1, <3>3, <2>6, <1>9, <1>11 DEF Serving
    <3> QED BY <3>2, <3>3, <1>11
  <2>7. ASSUME NEW c \in New(y), NEW f \in TimerIds, y.h.at[f] # 0
        PROVE  Q!Earlier(y.served[c], Entry(f))
    <3>1. CASE c = n + 1
      BY <3>1, <2>7, <1>9, <1>12
    <3>2. CASE c \in New(x)
      BY <3>2, <2>7, <1>8, <1>9, <1>11 DEF Serving
    <3> QED BY <3>1, <3>2, <1>11
  <2>8. y.sends = {q \in Refs : y.h.at[q] # 0}
    <3>1. x.sends = {q \in Refs : x.h.at[q] # 0}
      BY DEF Serving
    <3>2. Refs \subseteq TimerIds
      BY DEF TimerIds
    <3> QED BY <3>1, <3>2, <1>7, <1>8
  <2> QED BY <2>1, <2>2, <2>3, <2>4, <2>5, <2>6, <2>7, <2>8, <1>8 DEF Serving
<1> QED BY <1>8, <1>10, <1>13
\* The loop of wakeExpired comes to its end.
Begin == [h |-> Heap, status |-> status, box |-> box, sends |-> sends, served |-> served]

LEMMA LoopIs ==
  ASSUME TimersInv, NEW z, z = Turns(Serve, Begin, Len(heap))
  PROVE  z \in States /\ Serving(z) /\ Over(z)
<1> DEFINE U == {x \in States : Serving(x)}
           x0 == Begin
           Turn(x) == Serve(x)
           t == CHOOSE t : t = [k \in Nat |-> IF k = 0 THEN x0 ELSE Turn(t[k - 1])]
<1>1. x0 \in U
  <2>1. /\ Heap \in Heaps /\ HeapOK(Heap, dl, sq) /\ Heap.at = pos
        /\ sends = {r \in Refs : pos[r] # 0} /\ served \in Seq(Entries)
    BY InvHeap DEF TimersInv, TypeOK, HeapHolds
  <2>2. Begin \in States
    BY DEF TimersInv, TypeOK, Begin, States
  <2>3. Begin.h = Heap /\ Begin.sends = sends /\ Begin.served = served
    BY DEF Begin
  <2>4. Len(served) \in Nat /\ New(Begin) = {}
    BY <2>1, <2>3 DEF New
  <2>5. Serving(Begin)
    BY <2>1, <2>3, <2>4 DEF Serving
  <2> QED BY <2>2, <2>5
<1>2. ASSUME NEW x \in U, Over(x) PROVE Turn(x) = x
  BY <1>2 DEF Over, Serve
<1>3. ASSUME NEW x \in U, ~Over(x)
       PROVE  Turn(x) \in U /\ Len(Turn(x).h.q) = Len(x.h.q) - 1
  BY <1>3, ServeIs
<1>4. \A x \in U : Turn(x) \in U
  <2> HIDE DEF U, Turn
  <2> QED BY <1>2, <1>3
<1>5. z = t[Len(heap)]
  BY DEF Turns
<1>6. t = [k \in Nat |-> IF k = 0 THEN x0 ELSE Turn(t[k - 1])]
  <2> DEFINE F == [x \in U |-> Turn(x)]
  <2>1. F \in [U -> U]
    BY <1>4
  <2>2. PICK r : Loops(U, F, x0, r)
    <3> HIDE DEF F, U, x0
    <3> QED BY ONLY <1>1, <2>1, LoopExists, Zenon
  <2>3. r = [k \in Nat |-> IF k = 0 THEN x0 ELSE Turn(r[k - 1])]
    <3>1. \A k \in Nat : k # 0 => r[k] = Turn(r[k - 1])
      <4> SUFFICES ASSUME NEW k \in Nat, k # 0 PROVE r[k] = Turn(r[k - 1])
        OBVIOUS
      <4> HIDE DEF U, Turn
      <4>1. k - 1 \in Nat /\ k = (k - 1) + 1
        OBVIOUS
      <4>2. r[k - 1] \in U
        BY <2>2, <4>1 DEF Loops
      <4> QED BY <2>2, <4>1, <4>2 DEF Loops
    <3> HIDE DEF U, Turn, x0
    <3> QED BY <2>2, <3>1 DEF Loops
  <2> HIDE DEF Turn, x0
  <2> QED BY <2>3, Zenon
<1> HIDE DEF t, Turn, x0
<1>7. t[0] = x0 /\ \A k \in Nat : t[k + 1] = Turn(t[k])
  <2>1. t[0] = x0
    BY <1>6
  <2>2. ASSUME NEW k \in Nat PROVE t[k + 1] = Turn(t[k])
    <3>1. k + 1 \in Nat /\ k + 1 # 0 /\ (k + 1) - 1 = k
      OBVIOUS
    <3> QED BY <1>6, <3>1
  <2> QED BY <2>1, <2>2
<1>8. \A k \in Nat : t[k] \in U
  <2> HIDE DEF U
  <2> DEFINE P == {k \in Nat : t[k] \in U}
  <2>1. 0 \in P
    BY <1>1, <1>7
  <2>3. ASSUME NEW k \in Nat, k \in P PROVE k + 1 \in P
    <3>1. t[k] \in U /\ t[k + 1] = Turn(t[k])
      BY <1>7, <2>3
    <3> QED BY <1>4, <3>1
  <2> HIDE DEF P
  <2>2. Nat \subseteq P
    BY <2>1, <2>3, Induct
  <2> QED BY <2>2 DEF P
<1> HIDE DEF U
<1> DEFINE n == Len(heap)
<1>9. n \in Nat /\ \A x \in U : x.h.q \in Seq(TimerIds) /\ Len(x.h.q) \in Nat
  <2>1. heap \in Seq(TimerIds)
    BY DEF TimersInv, TypeOK, Heap, Heaps
  <2> QED BY <2>1 DEF U, States, Heaps
<1> HIDE DEF n
<1>10. \A k \in Nat : Over(t[k]) \/ Len(t[k].h.q) + k <= n
  <2> DEFINE P == {k \in Nat : Over(t[k]) \/ Len(t[k].h.q) + k <= n}
  <2>1. 0 \in P
    <3>1. Len(t[0].h.q) = n
      BY <1>7 DEF x0, Begin, Heap, n
    <3> QED BY <3>1, <1>9
  <2>2. ASSUME NEW k \in Nat, k \in P PROVE k + 1 \in P
    <3>1. t[k + 1] = Turn(t[k]) /\ t[k] \in U
      BY <1>7, <1>8
    <3>2. CASE Over(t[k])
      BY <3>1, <3>2, <1>2
    <3>3. CASE ~Over(t[k])
      <4>1. Len(t[k + 1].h.q) = Len(t[k].h.q) - 1 /\ Len(t[k].h.q) + k <= n
        BY <3>1, <3>3, <1>3, <2>2
      <4>2. Len(t[k].h.q) \in Nat
        BY <3>1, <1>9
      <4>3. ASSUME NEW l \in Nat, l + k <= n PROVE (l - 1) + (k + 1) <= n
        BY <4>3, <2>2, <1>9
      <4>4. Len(t[k + 1].h.q) + (k + 1) <= n
        BY ONLY <4>1, <4>2, <4>3
      <4>5. k + 1 \in Nat
        BY <2>2
      <4> HIDE DEF P
      <4>6. k + 1 \in P <=> Over(t[k + 1]) \/ Len(t[k + 1].h.q) + (k + 1) <= n
        BY ONLY <4>5, Zenon DEF P
      <4> QED BY ONLY <4>4, <4>6
    <3> QED BY <3>2, <3>3
  <2> HIDE DEF P
  <2>3. Nat \subseteq P
    BY <2>1, <2>2, Induct
  <2> QED BY <2>3 DEF P
<1>11. z \in U /\ (Over(z) \/ Len(z.h.q) + n <= n)
  BY <1>5, <1>8, <1>9, <1>10 DEF n
<1>12. Over(z)
  <2>1. z.h.q \in Seq(TimerIds) /\ Len(z.h.q) \in Nat
    BY <1>9, <1>11
  <2>2. CASE Len(z.h.q) = 0
    BY <2>1, <2>2 DEF Over
  <2> QED BY <2>1, <2>2, <1>9, <1>11
<1> QED BY <1>11, <1>12 DEF U

LEMMA WakeStep ==
  ASSUME TimersInv, WakeExpired
  PROVE  TimersInv' /\ Q!Next
<1> DEFINE z == Turns(Serve, Begin, Len(heap))
<1>1. /\ heap' = z.h.q /\ pos' = z.h.at /\ status' = z.status /\ box' = z.box
      /\ sends' = z.sends /\ served' = z.served
      /\ UNCHANGED <<dl, sq, sendVars, nextSeq, deadline, now>>
  BY DEF WakeExpired, SetHeap, Begin
<1>2. z \in States /\ Serving(z) /\ Over(z)
  <2>1. z = Turns(Serve, Begin, Len(heap))
    OBVIOUS
  <2> HIDE DEF z
  <2> QED BY <2>1, LoopIs
<1> HIDE DEF z
<1>3. Heap' = z.h /\ Heap' \in Heaps /\ HeapOK(Heap', dl', sq')
  <2>1. z.h \in Heaps /\ z.h = [q |-> z.h.q, at |-> z.h.at]
    BY <1>2 DEF States, Heaps
  <2> QED BY <2>1, <1>1, <1>2 DEF Heap, Serving
<1>4. \A e \in TimerIds : pos'[e] # 0 => pos[e] # 0
  BY <1>1, <1>2 DEF Serving
<1>5. HeapHolds'
  <2>1. sends' = {r \in Refs : pos'[r] # 0}
    BY <1>1, <1>2 DEF Serving
  <2>2. \A r \in Refs : r >= nextRef' => pos'[r] = 0
    <3>1. Refs \subseteq TimerIds /\ nextRef' = nextRef
      BY <1>1 DEF TimerIds, sendVars
    <3>2. \A r \in Refs : r >= nextRef => pos[r] = 0
      BY DEF TimersInv, HeapHolds
    <3> QED BY <3>1, <3>2, <1>4
  <2> QED BY <1>3, <2>1, <2>2, HoldsNext
<1>6. ArmedApart'
  BY <1>1, <1>4 DEF TimersInv, ArmedApart
<1>7. TypeOK'
  BY <1>1, <1>2, <1>3 DEF TimersInv, TypeOK, States, sendVars
<1>8. Pending = {Entry(e) : e \in {f \in TimerIds : pos[f] # 0}}
  BY PendingIs
<1>9. Pending' = {Entry(e) : e \in {f \in TimerIds : pos'[f] # 0}}
  BY <1>1, <1>3, PendingNext DEF HeapOK, Entry
\* What is left in the heap is not due, for its first is not.
<1>10. \A e \in TimerIds : z.h.at[e] # 0 => dl[e] > now
  <2> SUFFICES ASSUME NEW e \in TimerIds, z.h.at[e] # 0 PROVE dl[e] > now
    OBVIOUS
  <2>1. HeapOK(z.h, dl, sq) /\ dl \in Keys /\ sq \in Keys /\ now \in Nat
    BY <1>2 DEF Serving, TimersInv, TypeOK
  <2>2. z.h.at[e] \in 1 .. Len(z.h.q) /\ z.h.q[z.h.at[e]] = e
    BY <2>1 DEF HeapOK, Places
  <2>3. ~Less(dl, sq, e, z.h.q[1])
    BY <2>1, <2>2, RootIs
  <2>4. Len(z.h.q) \in Nat /\ z.h.q \in Seq(TimerIds)
    BY <2>1 DEF HeapOK, Heaps
  <2>5. 1 \in 1 .. Len(z.h.q) /\ z.h.q # <<>> /\ z.h.q[1] \in TimerIds
    BY <2>2, <2>4
  <2>6. dl[z.h.q[1]] > now
    BY <2>5, <1>2 DEF Over
  <2>7. dl[e] \in Nat /\ dl[z.h.q[1]] \in Nat
    BY <2>1, <2>5 DEF Keys
  <2> QED BY <2>1, <2>3, <2>6, <2>7 DEF Less
<1>11. \A e \in TimerIds : pos[e] # 0 /\ z.h.at[e] = 0 => dl[e] <= now
  <2> SUFFICES ASSUME NEW e \in TimerIds, pos[e] # 0, z.h.at[e] = 0 PROVE dl[e] <= now
    OBVIOUS
  <2>1. PICK c \in New(z) : z.served[c] = Entry(e)
    BY <1>2 DEF Serving
  <2>2. PICK f \in TimerIds : z.served[c] = Entry(f) /\ dl[f] <= now
    BY <2>1, <1>2 DEF Serving
  <2>3. e = f
    BY <2>1, <2>2 DEF Entry
  <2> QED BY <2>2, <2>3
<1>12. \A e \in TimerIds : dl[e] \in Nat /\ now \in Nat
  BY DEF TimersInv, TypeOK, Keys
<1>13. Q!Due = {Entry(e) : e \in {f \in TimerIds : pos[f] # 0 /\ z.h.at[f] = 0}}
  <2>1. \A e \in TimerIds : Entry(e).dl = dl[e]
    BY DEF Entry
  <2> QED BY <2>1, <1>8, <1>10, <1>11, <1>12 DEF Q!Due
<1>14. Q!Due = {served'[c] : c \in New(z)}
  <2>1. ASSUME NEW c \in New(z) PROVE z.served[c] \in Q!Due
    <3>1. PICK f \in TimerIds : z.served[c] = Entry(f) /\ pos[f] # 0 /\ z.h.at[f] = 0
      BY <2>1, <1>2 DEF Serving
    <3> QED BY <3>1, <1>13
  <2>2. ASSUME NEW f \in TimerIds, pos[f] # 0, z.h.at[f] = 0
        PROVE  \E c \in New(z) : z.served[c] = Entry(f)
    BY <2>2, <1>2 DEF Serving
  <2> QED BY <2>1, <2>2, <1>1, <1>13
<1>15. Pending' = Pending \ Q!Due
  <2>1. \A e, f \in TimerIds : Entry(e) = Entry(f) => e = f
    BY DEF Entry
  <2> QED BY <2>1, <1>1, <1>4, <1>8, <1>9, <1>13
<1>16. Q!Due # {}
  <2>1. heap # <<>> /\ dl[heap[1]] <= now
    BY DEF WakeExpired
  <2>2. /\ Heap.q = heap /\ Heap.at = pos /\ Places(Heap) /\ heap \in Seq(TimerIds)
    BY InvHeap DEF HeapOK, Heaps
  <2>3. 1 \in 1 .. Len(heap) /\ heap[1] \in TimerIds
    BY <2>1, <2>2
  <2>4. pos[heap[1]] # 0
    BY <2>2, <2>3 DEF Places
  <2>5. Entry(heap[1]) \in Pending /\ Entry(heap[1]).dl <= now
    BY <2>1, <2>3, <2>4, <1>8 DEF Entry
  <2> QED BY <2>5 DEF Q!Due
<1>17. served = SubSeq(served', 1, Len(served))
  <2>1. served \in Seq(Entries) /\ served' \in Seq(Entries) /\ Len(served) <= Len(served')
    BY <1>1, <1>2 DEF TimersInv, TypeOK, States, Serving
  <2>2. \A c \in 1 .. Len(served) : served'[c] = served[c]
    BY <1>1, <1>2 DEF Serving
  <2> QED BY <2>1, <2>2
<1>18. New(z) = Len(served) + 1 .. Len(served')
  BY <1>1 DEF New
<1>19. \A c, k \in New(z) : c < k => Q!Earlier(served'[c], served'[k])
  BY <1>1, <1>2 DEF Serving
<1>20. Q!Serve
  BY <1>1, <1>14, <1>15, <1>16, <1>17, <1>18, <1>19 DEF Q!Serve
<1> QED BY <1>5, <1>6, <1>7, <1>20 DEF TimersInv, Q!Next
-----------------------------------------------------------------------------
(* The theorems. *)

LEMMA InitInv ==
  ASSUME Init
  PROVE  TimersInv /\ Q!Init
<1>1. /\ heap = <<>> /\ pos = [i \in TimerIds |-> 0] /\ dl = [i \in TimerIds |-> 0]
      /\ sq = [i \in TimerIds |-> 0] /\ sends = {} /\ nextRef = 1 /\ nextSeq = 0
      /\ status = [a \in Actors |-> "ready"] /\ box = [a \in Actors |-> 0]
      /\ now = 0 /\ served = <<>>
  BY DEF Init
<1>2. TypeOK
  BY <1>1 DEF TypeOK, Heap, Heaps, Keys
<1>3. HeapHolds
  <2>1. Len(heap) = 0 /\ DOMAIN heap = {}
    BY <1>1
  <2>2. \A e \in TimerIds : pos[e] = 0
    BY <1>1
  <2>3. Refs \subseteq TimerIds
    BY DEF TimerIds
  <2> QED BY <2>1, <2>2, <2>3, <1>1 DEF HeapHolds
<1>4. ArmedApart
  BY <1>1 DEF ArmedApart
<1>5. Pending = {}
  BY <1>1 DEF Pending, Armed
<1> QED BY <1>1, <1>2, <1>3, <1>4, <1>5 DEF TimersInv, Q!Init

\* A step that leaves the heap alone.
LEMMA StillStep ==
  ASSUME TimersInv, UNCHANGED <<heap, pos, dl, sq, sends, nextRef, nextSeq, served>>
  PROVE  HeapHolds' /\ ArmedApart' /\ Pending' = Pending
<1>1. HeapHolds'
  BY DEF TimersInv, HeapHolds
<1>2. ArmedApart'
  BY DEF TimersInv, ArmedApart
<1>3. Pending' = Pending
  BY DEF Pending, Armed, Entry
<1> QED BY <1>1, <1>2, <1>3

\* clearTimer is a step that takes a timer off, or leaves the heap alone.
LEMMA ClearStep ==
  ASSUME TimersInv, ConstantsOK, NEW a \in Actors, ClearTimer(a),
         UNCHANGED <<dl, sq, sends, nextRef, nextSeq, now, served>>
  PROVE  /\ Heap' \in Heaps /\ HeapHolds' /\ ArmedApart'
         /\ Q!Next \/ UNCHANGED Q!vars
<1>1. CASE pos[a] > 0
  <2>1. SetHeap(TakeOut(Heap, dl, sq, pos[a])) /\ a \in TimerIds
    BY <1>1 DEF ClearTimer, TimerIds
  <2>2. /\ Heap' \in Heaps /\ HeapOK(Heap', dl', sq') /\ ArmedApart' /\ Q!Next
        /\ \A f \in TimerIds : pos'[f] # 0 <=> pos[f] # 0 /\ f # a
    BY <1>1, <2>1, DisarmStep
  <2>3. \A r \in Refs : r \in TimerIds /\ r # a
    BY DEF ConstantsOK, TimerIds
  <2>4. /\ sends' = {r \in Refs : pos'[r] # 0}
        /\ \A r \in Refs : r >= nextRef' => pos'[r] = 0
    BY <2>2, <2>3 DEF TimersInv, HeapHolds
  <2> QED BY <2>2, <2>4, HoldsNext
<1>2. CASE ~(pos[a] > 0)
  <2>1. UNCHANGED <<heap, pos>>
    BY <1>2 DEF ClearTimer
  <2>2. HeapHolds' /\ ArmedApart' /\ Pending' = Pending
    BY <2>1, StillStep
  <2>3. Heap' = Heap
    BY <2>1 DEF Heap
  <2> QED BY <2>2, <2>3 DEF Q!vars, TimersInv, TypeOK
<1> QED BY <1>1, <1>2

LEMMA NextInv ==
  ASSUME TimersInv, ConstantsOK, [Next]_vars
  PROVE  TimersInv' /\ (Q!Next \/ UNCHANGED Q!vars)
<1>1. ASSUME UNCHANGED vars PROVE TimersInv' /\ UNCHANGED Q!vars
  <2>1. UNCHANGED <<heap, pos, dl, sq, sends, nextRef, nextSeq, served, now, status, box>>
    BY <1>1 DEF vars
  <2>2. HeapHolds' /\ ArmedApart' /\ Pending' = Pending
    BY <2>1, StillStep
  <2>3. TypeOK'
    BY <2>1 DEF TimersInv, TypeOK, Heap
  <2> QED BY <2>1, <2>2, <2>3 DEF TimersInv, Q!vars
<1>2. ASSUME NEW a \in Actors, NEW w \in Waits, RecvTimer(a, w)
      PROVE  TimersInv' /\ Q!Next
  <2>1. a \in TimerIds /\ now + w \in Nat /\ now + w >= now
    BY DEF ConstantsOK, TimersInv, TypeOK, TimerIds
  <2>2. Arm(a, now + w) /\ UNCHANGED <<sends, nextRef, to, status, box, now, served>>
    BY <1>2 DEF RecvTimer, sendVars
  <2>3. /\ Heap' \in Heaps /\ HeapOK(Heap', dl', sq') /\ dl' \in Keys /\ sq' \in Keys
        /\ nextSeq' \in Nat /\ ArmedApart' /\ Q!Next
        /\ \A f \in TimerIds : pos'[f] # 0 <=> pos[f] # 0 \/ f = a
    BY <2>1, <2>2, ArmStep
  <2>4. \A r \in Refs : r \in TimerIds /\ r # a
    BY DEF ConstantsOK, TimerIds
  <2>5. /\ sends' = {r \in Refs : pos'[r] # 0}
        /\ \A r \in Refs : r >= nextRef' => pos'[r] = 0
    BY <2>2, <2>3, <2>4 DEF TimersInv, HeapHolds
  <2>6. TypeOK'
    BY <2>2, <2>3 DEF TimersInv, TypeOK
  <2> QED BY <2>3, <2>5, <2>6, HoldsNext DEF TimersInv
<1>3. ASSUME NEW a \in Actors, NEW w \in Waits, NEW b \in Actors, SendAfter(a, w, b)
      PROVE  TimersInv' /\ Q!Next
  <2>1. nextRef \in Refs /\ nextRef \in TimerIds /\ now + w \in Nat /\ now + w >= now
    BY <1>3 DEF ConstantsOK, TimersInv, TypeOK, TimerIds, SendAfter
  <2>2. /\ Arm(nextRef, now + w) /\ sends' = sends \cup {nextRef} /\ nextRef' = nextRef + 1
        /\ UNCHANGED <<status, box, now, served>>
    BY <1>3 DEF SendAfter, actorVars
  <2>3. /\ Heap' \in Heaps /\ HeapOK(Heap', dl', sq') /\ dl' \in Keys /\ sq' \in Keys
        /\ nextSeq' \in Nat /\ ArmedApart' /\ Q!Next
        /\ \A f \in TimerIds : pos'[f] # 0 <=> pos[f] # 0 \/ f = nextRef
    BY <2>1, <2>2, ArmStep
  <2>4. /\ sends = {r \in Refs : pos[r] # 0} /\ nextRef \in Nat
        /\ \A r \in Refs : r >= nextRef => pos[r] = 0
        /\ Refs \subseteq TimerIds /\ Refs \subseteq Nat
    BY DEF TimersInv, TypeOK, HeapHolds, TimerIds, ConstantsOK, Refs
  <2>5. sends' = {r \in Refs : pos'[r] # 0}
    <3> HIDE DEF Refs, TimerIds
    <3> QED BY <2>1, <2>2, <2>3, <2>4
  <2>6. \A r \in Refs : r >= nextRef' => pos'[r] = 0
    <3> SUFFICES ASSUME NEW r \in Refs, r >= nextRef + 1 PROVE pos'[r] = 0
      BY <2>2
    <3>1. r \in Nat /\ r # nextRef /\ r >= nextRef /\ r \in TimerIds
      BY <2>4
    <3> QED BY <3>1, <2>3, <2>4
  <2>7. TypeOK'
    <3>1. nextRef' \in Nat /\ sends' \subseteq Refs
      BY <2>2, <2>4, <2>5
    <3> QED BY <3>1, <2>2, <2>3 DEF TimersInv, TypeOK
  <2> QED BY <2>3, <2>5, <2>6, <2>7, HoldsNext DEF TimersInv
<1>4. ASSUME NEW a \in Actors, RecvTake(a)
      PROVE  TimersInv' /\ (Q!Next \/ UNCHANGED Q!vars)
  <2>1. UNCHANGED <<dl, sq, sends, nextRef, nextSeq, now, served>>
    BY <1>4 DEF RecvTake, sendVars
  <2>2. status' \in [Actors -> {"ready", "blocked", "dead"}] /\ box' \in [Actors -> Nat]
    <3>1. status \in [Actors -> {"ready", "blocked", "dead"}] /\ box \in [Actors -> Nat]
      BY DEF TimersInv, TypeOK
    <3>2. box[a] > 0 => box[a] - 1 \in Nat
      BY <3>1
    <3>3. CASE box[a] > 0 /\ box' = [box EXCEPT ![a] = @ - 1] /\ UNCHANGED status
      BY <3>1, <3>2, <3>3
    <3>4. CASE UNCHANGED box /\ status' = [status EXCEPT ![a] = "blocked"]
      BY <3>1, <3>4
    <3>5. CASE UNCHANGED <<status, box>>
      BY <3>1, <3>5
    <3> QED BY <1>4, <3>3, <3>4, <3>5 DEF RecvTake
  <2>3. CASE ClearTimer(a)
    <3>1. /\ Heap' \in Heaps /\ HeapHolds' /\ ArmedApart'
          /\ Q!Next \/ UNCHANGED Q!vars
      BY <2>1, <2>3, ClearStep
    <3> QED BY <2>1, <2>2, <3>1 DEF TimersInv, TypeOK
  <2>4. CASE UNCHANGED <<heap, pos>>
    <3>1. HeapHolds' /\ ArmedApart' /\ Pending' = Pending
      BY <2>1, <2>4, StillStep
    <3>2. Heap' = Heap
      BY <2>4 DEF Heap
    <3> QED BY <2>1, <2>2, <3>1, <3>2 DEF TimersInv, TypeOK, Q!vars
  <2> QED BY <1>4, <2>3, <2>4 DEF RecvTake
<1>5. ASSUME NEW a \in Actors, Signal(a) \/ Die(a)
      PROVE  TimersInv' /\ (Q!Next \/ UNCHANGED Q!vars)
  <2>1. /\ UNCHANGED <<dl, sq, sends, nextRef, nextSeq, now, served, box>> /\ ClearTimer(a)
        /\ status' = [status EXCEPT ![a] = "ready"] \/ status' = [status EXCEPT ![a] = "dead"]
    BY <1>5 DEF Signal, Die, sendVars
  <2>2. status' \in [Actors -> {"ready", "blocked", "dead"}]
    BY <2>1 DEF TimersInv, TypeOK
  <2>3. /\ Heap' \in Heaps /\ HeapHolds' /\ ArmedApart'
        /\ Q!Next \/ UNCHANGED Q!vars
    BY <2>1, ClearStep
  <2> QED BY <2>1, <2>2, <2>3 DEF TimersInv, TypeOK
<1>6. ASSUME NEW a \in Actors, NEW r \in Refs, Cancel(a, r)
      PROVE  TimersInv' /\ Q!Next
  <2>1. /\ r \in TimerIds /\ pos[r] > 0 /\ SetHeap(TakeOut(Heap, dl, sq, pos[r]))
        /\ sends' = sends \ {r}
        /\ UNCHANGED <<dl, sq, nextRef, nextSeq, status, box, now, served>>
    BY <1>6 DEF Cancel, TimerIds, sendVars, actorVars
  <2>2. /\ Heap' \in Heaps /\ HeapOK(Heap', dl', sq') /\ ArmedApart' /\ Q!Next
        /\ \A f \in TimerIds : pos'[f] # 0 <=> pos[f] # 0 /\ f # r
    BY <2>1, DisarmStep
  <2>3. Refs \subseteq TimerIds
    BY DEF TimerIds
  <2>4. /\ sends' = {f \in Refs : pos'[f] # 0}
        /\ \A f \in Refs : f >= nextRef' => pos'[f] = 0
    BY <2>1, <2>2, <2>3 DEF TimersInv, HeapHolds
  <2>5. TypeOK'
    BY <2>1, <2>2 DEF TimersInv, TypeOK
  <2> QED BY <2>2, <2>4, <2>5, HoldsNext DEF TimersInv
<1>7. ASSUME NEW a \in Actors, NEW b \in Actors, Send(a, b)
      PROVE  TimersInv' /\ UNCHANGED Q!vars
  <2>1. /\ UNCHANGED <<heap, pos, dl, sq, sends, nextRef, nextSeq, now, served>>
        /\ status' = Deliver(b, status, box).status /\ box' = Deliver(b, status, box).box
    BY <1>7 DEF Send, heapVars, sendVars
  <2>2. status' \in [Actors -> {"ready", "blocked", "dead"}] /\ box' \in [Actors -> Nat]
    BY <2>1, DeliverIs DEF TimersInv, TypeOK
  <2>3. HeapHolds' /\ ArmedApart' /\ Pending' = Pending
    BY <2>1, StillStep
  <2>4. Heap' = Heap
    BY <2>1 DEF Heap
  <2> QED BY <2>1, <2>2, <2>3, <2>4 DEF TimersInv, TypeOK, Q!vars
<1>8. ASSUME Tick PROVE TimersInv' /\ Q!Next
  <2>1. /\ UNCHANGED <<heap, pos, dl, sq, sends, nextRef, nextSeq, status, box, served>>
        /\ now' = now + 1
    BY <1>8 DEF Tick, heapVars, sendVars, actorVars
  <2>2. HeapHolds' /\ ArmedApart' /\ Pending' = Pending
    BY <2>1, StillStep
  <2>3. Heap' = Heap
    BY <2>1 DEF Heap
  <2>4. Q!Tick
    BY <2>1, <2>2 DEF Q!Tick
  <2> QED BY <2>1, <2>2, <2>3, <2>4 DEF TimersInv, TypeOK, Q!Next
<1> QED BY <1>1, <1>2, <1>3, <1>4, <1>5, <1>6, <1>7, <1>8, WakeStep DEF Next, Rest

\* Whatever is armed again, taken out of the middle or cancelled, the places kept
\* in the timers are the places in the heap, the heap is in order, and the timers
\* of send_after in it are those that Timer.cancel finds.
THEOREM HeapCorrect ==
  ASSUME ConstantsOK
  PROVE  Spec => []HeapHolds
<1>1. Init => TimersInv
  BY InitInv
<1>2. TimersInv /\ [Next]_vars => TimersInv'
  BY NextInv
<1>3. TimersInv => HeapHolds
  BY DEF TimersInv
<1> QED BY <1>1, <1>2, <1>3, PTL DEF Spec

\* Timers implements TimerQueue, for any actors, waits and bounds: a timer that is
\* armed is served once, with all that are due, in the order of deadline and
\* arming, or is taken off and never served.
THEOREM QueueCorrect ==
  ASSUME ConstantsOK
  PROVE  Spec => ServesInOrder
<1>1. Init => TimersInv /\ Q!Init
  BY InitInv
<1>2. TimersInv /\ [Next]_vars => TimersInv' /\ [Q!Next]_(Q!vars)
  BY NextInv
<1> QED BY <1>1, <1>2, PTL DEF Spec, ServesInOrder, Q!Spec
=============================================================================
