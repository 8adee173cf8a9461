------------------------- MODULE MCSortedContainers -------------------------
(* The sorted containers side by side: set, map, multiset and multimap over   *)
(* the tree, the map that is also a list, and the four sorted vectors.  A     *)
(* behaviour uses one kind.                                                   *)
EXTENDS RedBlackTree

CONSTANTS
  Walkers,   \* the programs that erase by range, by key or by a test
  Vectors,   \* the programs on sorted vectors
  Lists,     \* the programs on a list_map, the others being on plain trees
  tree1, tree2

VARIABLES
  kind,                \* which of the containers this behaviour uses
  flat, way, hinted    \* as in SortedVectors; of a tree, flat is what iteration gives

svars == <<wvars, lvars, kind, flat, way, hinted>>

-----------------------------------------------------------------------------
(* The bounds.                                                                *)
TwoTrees == {tree1, tree2}

\* Nine nodes with keys of their own, and six nodes of three keys.
OwnNodes == 1 .. 9
PairNodes == 11 .. 16
AllNodes == OwnNodes \cup PairNodes
Keys == [n \in AllNodes |-> IF n \in OwnNodes THEN n ELSE (n - 9) \div 2]

\* A set of up to nine elements, deep enough for every case of either loop; two
\* trees that share six nodes, with and without equal keys; two that are erased
\* from by range, by key and by a test: a set and a multiset of six; two sorted
\* vectors that share five elements, with and without equal keys; and a list_map of
\* six nodes, two of which have one key.
WalkingPrograms ==
  {[trees |-> {tree1}, nodes |-> 1 .. 6, unique |-> TRUE],
   [trees |-> {tree1}, nodes |-> PairNodes, unique |-> FALSE]}
VectorPrograms == [trees : {TwoTrees}, nodes : {11 .. 15}, unique : BOOLEAN]
ListPrograms == {[trees |-> {tree1}, nodes |-> (1 .. 4) \cup {11}, unique |-> TRUE]}
EightPrograms ==
  {[trees |-> {tree1}, nodes |-> OwnNodes, unique |-> TRUE]}
    \cup [trees : {TwoTrees}, nodes : {PairNodes}, unique : BOOLEAN]
    \cup WalkingPrograms \cup VectorPrograms \cup ListPrograms

-----------------------------------------------------------------------------
Flat == INSTANCE SortedVectors WITH Owners <- Trees, Items <- Nodes

Flats == IF Unique THEN {"vector_set", "vector_map"} ELSE {"vector_multiset", "vector_multimap"}

Start ==
  /\ WInit /\ LInit /\ Flat!FInit
  /\ kind \in IF prog \in Vectors THEN Flats ELSE IF prog \in Lists THEN {"list_map"} ELSE {"rbtree"}
  /\ kind \in {"rbtree", "list_map"} => way = [a \in Trees |-> 1]

\* The operations on a tree.
TreeStep ==
  /\ kind = "rbtree" /\ UNCHANGED <<way, lvars>>
  /\ \/ /\ Resting /\ UNCHANGED <<walk, due>>
        /\ \/ HintedInsertion /\ hinted' = ~Unique
           \/ /\ \E n \in prog.nodes \ Used, a \in prog.trees : Insert(a, n) \/ Subscript(a, n) \/ TryEmplace(a, n)
              /\ hinted' = FALSE
     \/ Turn /\ hinted' = FALSE /\ UNCHANGED <<walk, due>>
     \/ WalkTurn /\ hinted' = FALSE
     \/ /\ Resting /\ hinted' = FALSE
        /\ \/ Change /\ UNCHANGED <<walk, due>>
           \/ /\ prog \in Walkers
              /\ \E a \in prog.trees :
                   \/ EraseIf(a)
                   \/ \E k \in {KeyOf[n] : n \in prog.nodes} :
                        IF Unique THEN EraseUnique(a, k) ELSE EraseEqual(a, k)
                   \/ LET o == InOrder(t, a) \o <<a>> IN
                      \E i, j \in DOMAIN o : i < j /\ EraseRange(a, o[i], o[j])
  /\ flat' = [a \in Trees |-> InOrder(t', a)]

ListStep ==
  /\ kind = "list_map" /\ UNCHANGED <<way, walk, due>>
  /\ ListMapStep
  /\ hinted' = FALSE
  /\ flat' = [a \in Trees |-> InOrder(t', a)]

FlatStep ==
  /\ UNCHANGED <<vars, walk, due, lvars>>
  /\ \/ kind = "vector_set" /\ Flat!Next(prog.nodes)
     \/ kind = "vector_multiset" /\ Flat!MultiNext(prog.nodes)
     \/ kind = "vector_map" /\ Flat!MapNext(prog.nodes)
     \/ kind = "vector_multimap" /\ Flat!MultimapNext(prog.nodes)
     \/ kind \in Flats /\ Flat!Whole(prog.nodes)

Step == UNCHANGED <<prog, kind>> /\ (TreeStep \/ ListStep \/ FlatStep)

SortedSpec == Start /\ [][Step]_svars

-----------------------------------------------------------------------------
(* Properties.                                                                *)

\* In a tree, ++ from any element gives the next and -- from any element or end()
\* the one before, on the links alone; every bound, range and count is that of the
\* keys; and validate() agrees.
TreeLookups(a) ==
  LET o == Append(InOrder(t, a), a)
      at(m) == o[m + 1]
  IN /\ \A i \in 1 .. size[a] : /\ RBTreeIncrement(t, o[i]) = o[i + 1]
                                /\ RBTreeDecrement(t, o[i + 1]) = o[i]
     /\ Validate(t, a)
     /\ \A k \in {KeyOf[n] : n \in prog.nodes} :
          LET less == Cardinality({i \in 1 .. size[a] : KeyOf[o[i]] < k})
              same == Cardinality({i \in 1 .. size[a] : KeyOf[o[i]] = k})
              range == <<at(less), at(less + same)>>
          IN /\ EqualRange(t, a, k) = range
             /\ EqualRangeSmall(t, a, k) = range
             /\ Unique => UniqueRange(t, a, k) = range
             /\ Find(t, a, k) = IF same = 0 THEN a ELSE at(less)
             /\ DoCount(t, a, k) = same

\* While elements are erased one after the other, the iterators of the loop stay on
\* elements of the tree, and between them is exactly what it has still to reach.
ErasesRange ==
  walk # NoWalk =>
    LET o == Append(InOrder(t, walk.tree), walk.tree)
        at(n) == CHOOSE i \in DOMAIN o : o[i] = n
    IN /\ {walk.next, walk.last} \subseteq Members(t, walk.tree) \cup {walk.tree}
       /\ due = {o[i] : i \in at(walk.next) .. at(walk.last) - 1}

\* Walking and searching find what is there, in a tree (red_black_tree.cpp:44-98,
\* red_black_tree.h:1877-2114, set.h:488-522, 690-755) and in a sorted vector,
\* whichever way its comparator goes (vector_set.h:672-830); and the erasure of a
\* range, of a key or of what fails a test reaches just that, through every rotation
\* and every successor that changes places between two of its turns
\* (red_black_tree.h:1800-1842, set.h:530-546, 625-634).  A list_map walks its list
\* in the order of the pushes and finds in its tree just what the list has
\* (list_map.h:680-840).
WalksExact ==
  /\ WTypeOK
  /\ ErasesRange
  /\ CASE kind = "vector_set" -> Flat!Lookups(prog.nodes)
       [] kind = "vector_multiset" -> Flat!MultiLookups(prog.nodes)
       [] kind = "vector_map" -> Flat!MapLookups(prog.nodes)
       [] kind = "vector_multimap" -> Flat!MultimapLookups(prog.nodes)
       [] OTHER -> pc = Idle => \A a \in prog.trees : TreeLookups(a)
  /\ kind = "list_map" => \A a \in prog.trees : ListExact(a)

\* Insertion, erasure and the rebalancing keep the elements where the comparator
\* wants them, equal ones in the order of insertion or where a hint says, and touch
\* no other container, and a comparator goes where its elements go: trees and
\* sorted vectors implement the same container, and rebalancing is invisible
\* (red_black_tree.h:1276-1700, 1800-1842, vector_multiset.h:405-623).
O == INSTANCE OrderedContainer WITH
       Owners <- Trees, Items <- Nodes, unique <- Unique, order <- flat
ImplementsSorted == O!OSpec /\ TreeSpec
=============================================================================
