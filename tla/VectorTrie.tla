----------------------------- MODULE VectorTrie -----------------------------
(***************************************************************************)
(* The persistent vector (runtime/vector.go): a dense tree of full leaves   *)
(* of LeafWidth elements, and a tail of 1 to LeafWidth.  A node is the      *)
(* sequence of its children, a leaf of its elements, and the tree has depth *)
(* levels of nodes above its leaves (the shift over vectorBits).  Nodes are *)
(* shared between versions, and equality skips a shared node, unless one of *)
(* the vectors may hold a NaN, which equals nothing.                       *)
(*                                                                         *)
(* vecElems is history: the elements by the definition of the operations.   *)
(***************************************************************************)
EXTENDS Integers, Sequences, FiniteSets, SequencesExt, FiniteSetsExt

CONSTANTS LeafWidth, MaxLen,
          Odd,         \* elements written besides the plain one, 1
          MaxOdd

VARIABLES vec,         \* [cnt, depth, root, tail, nan]
          vecElems
vectorVars == <<vec, vecElems>>

NaN == 9               \* a Float
Box == 8               \* a tuple that holds one
MaybeNaN(v) == v \in {NaN, Box, 7}
\* Equality and order of elements.
Same(v, w) == v = w /\ v \notin {NaN, Box}
Order(v, w) == IF v < w THEN -1 ELSE IF v > w THEN 1 ELSE 0

None == <<>>
Empty == [cnt |-> 0, depth |-> 0, root |-> None, tail |-> <<>>, nan |-> FALSE]
TailOff(t) == t.cnt - Len(t.tail)
\* The place of index i in a node of a level.
Digit(i, level) == ((i \div LeafWidth ^ level) % LeafWidth) + 1

RECURSIVE ElemAt(_, _, _)
ElemAt(node, level, i) == IF level = 0 THEN node[Digit(i, 0)] ELSE ElemAt(node[Digit(i, level)], level - 1, i)
At(t, i) == IF i >= TailOff(t) THEN t.tail[i - TailOff(t) + 1] ELSE ElemAt(t.root, t.depth, i)

RECURSIVE NewPath(_, _)
NewPath(level, leaf) == IF level = 0 THEN leaf ELSE <<NewPath(level - 1, leaf)>>

RECURSIVE InsertLeaf(_, _, _, _)
InsertLeaf(node, level, i, leaf) ==
    LET k == Digit(i, level)
    IN  IF k <= Len(node) THEN [node EXCEPT ![k] = InsertLeaf(@, level - 1, i, leaf)]
        ELSE Append(node, NewPath(level - 1, leaf))

\* A full leaf whose first element has index i: the tree with it, and its depth.
PushLeaf(root, depth, i, leaf) ==
    CASE root = None -> <<leaf, 0>>
      [] i = LeafWidth ^ (depth + 1) -> <<<<root, NewPath(depth, leaf)>>, depth + 1>>
      [] OTHER -> <<InsertLeaf(root, depth, i, leaf), depth>>

RECURSIVE SetPath(_, _, _, _)
SetPath(node, level, i, v) ==
    [node EXCEPT ![Digit(i, level)] = IF level = 0 THEN v ELSE SetPath(@, level - 1, i, v)]

\* push, and Add of a builder: a full tail becomes a leaf first.
Push(t, v) ==
    LET nan == t.nan \/ MaybeNaN(v)
        tree == PushLeaf(t.root, t.depth, TailOff(t), t.tail)
    IN  IF Len(t.tail) < LeafWidth
        THEN [t EXCEPT !.cnt = @ + 1, !.tail = Append(@, v), !.nan = nan]
        ELSE [cnt |-> t.cnt + 1, depth |-> tree[2], root |-> tree[1], tail |-> <<v>>, nan |-> nan]

\* Mutant of MarkedSet: the new element is not looked at.
MarkedSetOnce(t, v) == t.nan
MarkedSet(t, v) == t.nan \/ MaybeNaN(v)
SetElem(t, i, v) ==
    IF i >= TailOff(t)
    THEN [t EXCEPT !.tail[i - TailOff(t) + 1] = v, !.nan = MarkedSet(t, v)]
    ELSE [t EXCEPT !.root = SetPath(@, t.depth, i, v), !.nan = MarkedSet(t, v)]

RECURSIVE Leaves(_, _)
Leaves(node, level) ==
    IF level = 0 THEN node ELSE FlattenSeq([k \in DOMAIN node |-> Leaves(node[k], level - 1)])
Slice(t) == (IF t.root = None THEN <<>> ELSE Leaves(t.root, t.depth)) \o t.tail

-----------------------------------------------------------------------------
(* Equality and order.  Shared(x, y) says whether two nodes are one node: *)
(* of two equal nodes, any may be shared.                                 *)

RECURSIVE NodeEqual(_, _, _, _)
NodeEqual(x, y, level, skip) ==
    \/ skip /\ x = y
    \/ \A k \in DOMAIN x : IF level = 0 THEN Same(x[k], y[k]) ELSE NodeEqual(x[k], y[k], level - 1, skip)
VectorEqual(a, b, shared) ==
    LET skip == shared /\ ~a.nan /\ ~b.nan
    IN  /\ a.cnt = b.cnt
        /\ \/ skip /\ a = b
           \/ /\ a.root = None \/ NodeEqual(a.root, b.root, a.depth, skip)
              /\ \A k \in DOMAIN a.tail : Same(a.tail[k], b.tail[k])

FirstOf(n, C(_)) == FoldLeft(LAMBDA c, i : IF c # 0 THEN c ELSE C(i), 0, [i \in 1 .. n |-> i])
RECURSIVE NodeCompare(_, _, _, _)
NodeCompare(x, y, level, shared) ==
    IF shared /\ x = y THEN 0
    ELSE FirstOf(Len(x), LAMBDA k : IF level = 0 THEN Order(x[k], y[k])
                                    ELSE NodeCompare(x[k], y[k], level - 1, shared))
VectorCompare(a, b, shared) ==
    LET tree == IF a.root = None THEN 0 ELSE NodeCompare(a.root, b.root, a.depth, shared)
        common == Min({a.cnt, b.cnt})
        prefix == FirstOf(common, LAMBDA i : Order(At(a, i - 1), At(b, i - 1)))
    IN  CASE a.cnt # b.cnt -> IF prefix # 0 THEN prefix ELSE Order(a.cnt, b.cnt)
          [] shared /\ a = b -> 0
          [] tree # 0 -> tree
          [] OTHER -> FirstOf(Len(a.tail), LAMBDA k : Order(a.tail[k], b.tail[k]))

-----------------------------------------------------------------------------
Odds(s) == Cardinality({i \in DOMAIN s : s[i] # 1})

Init == vec = Empty /\ vecElems = <<>>
VecPush(v) == /\ Len(vecElems) < MaxLen /\ (v = 1 \/ Odds(vecElems) < MaxOdd)
              /\ vec' = Push(vec, v) /\ vecElems' = Append(vecElems, v)
VecSet(i, v) == /\ v = 1 \/ Odds(vecElems) < MaxOdd
                /\ vec' = SetElem(vec, i - 1, v) /\ vecElems' = [vecElems EXCEPT ![i] = v]
\* VectorBuilderFrom, Add of n elements, Vector.
Build(n) == /\ Len(vecElems) + n <= MaxLen
            /\ vec' = FoldLeft(Push, vec, [k \in 1 .. n |-> 1])
            /\ vecElems' = vecElems \o [k \in 1 .. n |-> 1]
Next == \/ \E v \in {1} \cup Odd : VecPush(v) \/ \E i \in DOMAIN vecElems : VecSet(i, v)
        \/ \E n \in 2 .. MaxLen : Build(n)

-----------------------------------------------------------------------------
\* The tree is dense, whatever the order of the operations: its shape is a
\* function of the number of elements.
RECURSIVE Dense(_, _)
Dense(s, level) ==
    LET size == LeafWidth ^ level
        kids == (Len(s) + size - 1) \div size
    IN  IF level = 0 THEN s
        ELSE [k \in 1 .. kids |-> Dense(SubSeq(s, (k - 1) * size + 1, Min({k * size, Len(s)})), level - 1)]
VectorHolds ==
    /\ vec.cnt = Len(vecElems) /\ Slice(vec) = vecElems
    /\ \A i \in DOMAIN vecElems : At(vec, i - 1) = vecElems[i]
    /\ vec.root # None => vec.root = Dense(SubSeq(vecElems, 1, TailOff(vec)), vec.depth)
    /\ vecElems # <<>> => Len(vec.tail) \in 1 .. LeafWidth /\ TailOff(vec) % LeafWidth = 0

\* Skipping shared nodes changes no answer: a version equals, and has the order
\* of, another one and itself as the elements do, one by one.
SameElems(s, t) == Len(s) = Len(t) /\ \A i \in DOMAIN s : Same(s[i], t[i])
Lexical(s, t) ==
    LET c == FirstOf(Min({Len(s), Len(t)}), LAMBDA i : Order(s[i], t[i]))
    IN  IF c # 0 THEN c ELSE Order(Len(s), Len(t))
SharingStep ==
    \A shared \in BOOLEAN :
       /\ VectorEqual(vec, vec', shared) = SameElems(vecElems, vecElems')
       /\ VectorEqual(vec', vec', shared) = SameElems(vecElems', vecElems')
       /\ VectorCompare(vec, vec', shared) = Lexical(vecElems, vecElems')
       /\ VectorCompare(vec', vec', shared) = 0
=============================================================================
