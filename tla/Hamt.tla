-------------------------------- MODULE Hamt --------------------------------
(***************************************************************************)
(* The table under Map and Set (runtime/hamt.go).  A hash is the sequence   *)
(* of its digits, one for a level.  A node maps the digits it has a slot    *)
(* for to the slot: a leaf with its full hash and the chain of the pairs of *)
(* that hash, or a child node.  A pair is <<key, val>>; a key has its hash, *)
(* its class under KeyEqual (0: equal to nothing, itself included) and its  *)
(* form (1 and 1.0 are two forms of one class).                            *)
(*                                                                         *)
(* chains is history: for every hash, the pairs put and not removed, by the *)
(* definition of a map and not by the tree.                                *)
(***************************************************************************)
EXTENDS Integers, Sequences, FiniteSets, SequencesExt, FiniteSetsExt, Functions

CONSTANTS Keys,        \* set of [hash, class, form]
          Vals, MaxPairs

VARIABLES tableKind,   \* "map" or "set"
          table,       \* [root, n]
          chains
tableVars == <<tableKind, table, chains>>

None == <<>>
SameKey(a, b) == a.class = b.class /\ a.class # 0
Place(chain, key) == SelectInSeq(chain, LAMBDA p : SameKey(p[1], key))
Leaf(hash, chain) == <<"leaf", hash, chain>>
Child(node) == <<"child", node>>
IsLeaf(slot) == slot[1] = "leaf"
\* withSlot and replaceSlot.
With(node, digit, slot) == [g \in DOMAIN node \cup {digit} |-> IF g = digit THEN slot ELSE node[g]]
Without(node, digit) == Restrict(node, DOMAIN node \ {digit})

\* The pair of key, or None.
RECURSIVE Get(_, _, _)
Get(node, level, key) ==
    LET g == key.hash[level]
    IN  IF g \notin DOMAIN node THEN None
        ELSE LET slot == node[g]
             IN  CASE ~IsLeaf(slot) -> Get(slot[2], level + 1, key)
                   [] slot[2] # key.hash \/ Place(slot[3], key) = 0 -> None
                   [] OTHER -> slot[3][Place(slot[3], key)]

\* A node of two leaves of different hashes.
RECURSIVE JoinLeaves(_, _, _)
JoinLeaves(level, a, b) ==
    LET x == a[2][level]
        y == b[2][level]
    IN  IF x = y THEN With(<<>>, x, Child(JoinLeaves(level + 1, a, b)))
        ELSE With(With(<<>>, x, a), y, b)

\* hamtLeaf.put: an equal key is replaced where it stands, a new one is last.
LeafPut(chain, pair) ==
    LET i == Place(chain, pair[1])
    IN  IF i # 0 THEN [chain EXCEPT ![i] = pair] ELSE Append(chain, pair)
LeafRemove(chain, key) == RemoveAt(chain, Place(chain, key))

RECURSIVE PutIn(_, _, _)
PutIn(node, level, pair) ==
    LET hash == pair[1].hash
        g == hash[level]
        new == Leaf(hash, <<pair>>)
    IN  IF g \notin DOMAIN node THEN With(node, g, new)
        ELSE With(node, g,
               CASE ~IsLeaf(node[g]) -> Child(PutIn(node[g][2], level + 1, pair))
                 [] node[g][2] = hash -> Leaf(hash, LeafPut(node[g][3], pair))
                 [] OTHER -> Child(JoinLeaves(level + 1, node[g], new)))
Put(t, pair) ==
    [root |-> PutIn(t.root, 1, pair),
     n |-> IF Get(t.root, 1, pair[1]) = None THEN t.n + 1 ELSE t.n]

\* A child left with one leaf folds into the slot of its parent.
Only(node) == CHOOSE g \in DOMAIN node : TRUE
\* Mutant of Folded: it never does.
FoldedNever(node) == Child(node)
Folded(node) == IF Cardinality(DOMAIN node) = 1 /\ IsLeaf(node[Only(node)]) THEN node[Only(node)] ELSE Child(node)

\* Of a key that is there.
RECURSIVE RemoveIn(_, _, _)
RemoveIn(node, level, key) ==
    LET g == key.hash[level]
        slot == node[g]
    IN  IF ~IsLeaf(slot) THEN With(node, g, Folded(RemoveIn(slot[2], level + 1, key)))
        ELSE LET chain == LeafRemove(slot[3], key)
             IN  IF chain = <<>> THEN Without(node, g) ELSE With(node, g, Leaf(slot[2], chain))
RemoveKey(t, key) ==
    IF Get(t.root, 1, key) = None THEN t
    ELSE [root |-> RemoveIn(t.root, 1, key), n |-> t.n - 1]

-----------------------------------------------------------------------------
Hashes == {k.hash : k \in Keys}
Init == /\ tableKind \in {"map", "set"} /\ table = [root |-> <<>>, n |-> 0]
        /\ chains = [h \in Hashes |-> <<>>]

MapPut(key, val) ==
    /\ tableKind = "map" /\ table.n < MaxPairs
    /\ table' = Put(table, <<key, val>>)
    /\ chains' = [chains EXCEPT ![key.hash] = LeafPut(@, <<key, val>>)]
    /\ UNCHANGED tableKind
\* The element that is there stays.
SetAdd(key) ==
    /\ tableKind = "set" /\ table.n < MaxPairs
    /\ table' = IF Get(table.root, 1, key) = None THEN Put(table, <<key, 0>>) ELSE table
    /\ chains' = [chains EXCEPT ![key.hash] = IF Place(@, key) = 0 THEN Append(@, <<key, 0>>) ELSE @]
    /\ UNCHANGED tableKind
\* MapRemove and SetRemove.
Drop(key) ==
    /\ table' = RemoveKey(table, key)
    /\ chains' = [chains EXCEPT ![key.hash] = IF Place(@, key) = 0 THEN @ ELSE LeafRemove(@, key)]
    /\ UNCHANGED tableKind

Next == \/ \E key \in Keys, val \in Vals : MapPut(key, val)
        \/ \E key \in Keys : SetAdd(key) \/ Drop(key)

-----------------------------------------------------------------------------
\* The tree of a set of hashes: a slot is a leaf exactly when one hash leads there.
RECURSIVE Canonical(_, _)
Canonical(hs, level) ==
    [g \in {h[level] : h \in hs} |->
       LET here == {h \in hs : h[level] = g}
       IN  IF Cardinality(here) = 1
           THEN LET h == CHOOSE h \in here : TRUE IN Leaf(h, chains[h])
           ELSE Child(Canonical(here, level + 1))]

\* The shape of a table is that of the hashes in it, whatever was put and removed
\* before; it holds what was put, counts it, and finds it under every equal key.
TableHolds ==
    /\ table.root = Canonical({h \in Hashes : chains[h] # <<>>}, 1)
    /\ table.n = FoldFunction(LAMBDA c, s : Len(c) + s, 0, chains)
    /\ \A key \in Keys :
         Get(table.root, 1, key) = LET c == chains[key.hash]
                                       i == Place(c, key)
                                   IN  IF i = 0 THEN None ELSE c[i]
=============================================================================
