-------------------------- MODULE OrderedContainer --------------------------
(* What the sorted containers promise (include/EASTL/set.h, map.h,           *)
(* internal/red_black_tree.h): the elements in the order of their keys, equal *)
(* keys only when the container allows them and then in the order of          *)
(* insertion, or next to the hint when that is a legal place.                 *)
EXTENDS Integers, Sequences, SequencesExt

CONSTANTS
  Owners,   \* the containers
  Items,    \* the elements that can be constructed
  KeyOf     \* the key of each

VARIABLES
  order,    \* the elements of each container, in order
  way,      \* its comparator: 1 for ascending keys, -1 for descending
  unique,   \* TRUE for set and map, FALSE for multiset and multimap
  hinted    \* whether the last step may choose among equal keys

Held == UNION {ToSet(order[c]) : c \in Owners}

OInit == /\ order = [c \in Owners |-> <<>>] /\ unique \in BOOLEAN
         /\ way \in [Owners -> {1, -1}] /\ ~hinted

Sorted(s, w) == \A i, j \in 1 .. Len(s) :
  i < j => w * KeyOf[s[i]] < w * KeyOf[s[j]] \/ (~unique /\ KeyOf[s[i]] = KeyOf[s[j]])

\* How many elements of s are not behind the key: where it is inserted.
UpperBound(s, w, k) == Len(SelectSeq(s, LAMBDA x : w * KeyOf[x] <= w * k))

Insert(c, x) ==
  /\ x \notin Held
  /\ unique => \A y \in ToSet(order[c]) : KeyOf[y] # KeyOf[x]
  /\ order' = [order EXCEPT ![c] = InsertAt(@, UpperBound(@, way[c], KeyOf[x]) + 1, x)]
  /\ ~hinted' /\ UNCHANGED way

\* An insertion with a hint: right after position i when that keeps the order.
InsertAfter(c, x, i) ==
  /\ x \notin Held
  /\ order' = [order EXCEPT ![c] = InsertAt(@, i + 1, x)]
  /\ Sorted(order'[c], way[c])
  /\ hinted' /\ UNCHANGED way

\* One element, some that follow each other, or all that there are.
Erase(c, i, j) ==
  /\ order' = [order EXCEPT ![c] = SubSeq(@, 1, i - 1) \o SubSeq(@, j + 1, Len(@))]
  /\ UNCHANGED way

Exchange(c, d) ==
  /\ order' = [order EXCEPT ![c] = order[d], ![d] = order[c]]
  /\ way' = [way EXCEPT ![c] = way[d], ![d] = way[c]]

\* A copy: other elements with the same keys in the same order.
Assign(c, d) ==
  /\ c # d
  /\ order'[c] \in Seq(Items)
  /\ order' = [order EXCEPT ![c] = order'[c]]
  /\ Len(order'[c]) = Len(order[d])
  /\ \A i \in 1 .. Len(order[d]) : KeyOf[order'[c][i]] = KeyOf[order[d][i]]
  /\ \A i, j \in 1 .. Len(order[d]) : order'[c][i] = order'[c][j] => i = j
  /\ \A e \in Owners \ {c} : ToSet(order'[c]) \cap ToSet(order[e]) = {}
  /\ way' = [way EXCEPT ![c] = way[d]]

\* A move: the source is left empty.
Take(c, d) ==
  /\ c # d
  /\ order' = [order EXCEPT ![c] = order[d], ![d] = <<>>]
  /\ way' = [way EXCEPT ![c] = way[d], ![d] = way[c]]

ONext ==
  \E c \in Owners :
    \/ \E i, j \in 1 .. Len(order[c]) : i <= j /\ Erase(c, i, j)
    \/ \E d \in Owners : Exchange(c, d) \/ Assign(c, d) \/ Take(c, d)
    \/ \E x \in Items : \/ Insert(c, x)
                        \/ \E i \in 0 .. Len(order[c]) : InsertAfter(c, x, i)

OSpec == OInit /\ [][ONext /\ UNCHANGED unique]_<<order, way, unique>>
=============================================================================
