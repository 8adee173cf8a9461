------------------------ MODULE UnorderedContainer ------------------------
(* What the hash containers promise (include/EASTL/hash_map.h, hash_set.h):   *)
(* sets or bags of elements by key, and what is left when a call throws.      *)
EXTENDS Integers, FiniteSets

CONSTANTS
  Owners,   \* the containers
  Items,    \* the elements that can be constructed
  KeyOf     \* the key of each

VARIABLES
  elements,   \* the elements of each container
  unique      \* TRUE for hash_map and hash_set, FALSE for the multi variants

Held == UNION {elements[c] : c \in Owners}
KeysOf(S) == {KeyOf[x] : x \in S}
Equal(c, k) == {x \in elements[c] : KeyOf[x] = k}

CInit == elements = [c \in Owners |-> {}] /\ unique \in BOOLEAN

Insert(c, x) ==
  /\ x \notin Held
  /\ unique => KeyOf[x] \notin KeysOf(elements[c])
  /\ elements' = [elements EXCEPT ![c] = @ \cup {x}]

\* Only elements of c change, and none comes: a key, a range of iterators, or
\* the whole container.
Erase(c) ==
  /\ elements'[c] \subseteq elements[c]
  /\ elements' = [elements EXCEPT ![c] = elements'[c]]

Exchange(c, d) == elements' = [elements EXCEPT ![c] = elements[d], ![d] = elements[c]]

Take(c, d) == c # d /\ elements' = [elements EXCEPT ![c] = elements[d], ![d] = {}]

\* A copy has other elements, as many of each key.
Assign(c, d) ==
  /\ c # d
  /\ elements'[c] \in SUBSET (Items \ UNION {elements[e] : e \in Owners \ {c}})
  /\ elements' = [elements EXCEPT ![c] = elements'[c]]
  /\ \A k \in KeysOf(Items) :
       Cardinality(Equal(c, k)') = Cardinality(Equal(d, k))

CNext ==
  \E c \in Owners :
    \/ Erase(c)
    \/ \E x \in Items : Insert(c, x)
    \/ \E d \in Owners : Exchange(c, d) \/ Take(c, d) \/ Assign(c, d)

CSpec == CInit /\ [][CNext /\ UNCHANGED unique]_<<elements, unique>>
=============================================================================
