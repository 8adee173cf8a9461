------------------------------ MODULE LruCache ------------------------------
(* lru_cache (include/EASTL/bonus/lru_cache.h): a list of keys, most recent   *)
(* first, and a map from keys to values and positions in the list, with a     *)
(* callback that creates values, which may use the cache in turn, the key it  *)
(* creates a value for included, and one that deletes them, which may not.    *)
EXTENDS Integers, Sequences, FiniteSets, Functions

CONSTANTS
  Keys, Values,
  ListNodes,    \* the nodes of the list: as many as any capacity
  Capacities,   \* the capacities the program asks for
  MaxDepth      \* bound: how deep creations nest

ASSUME CacheAssumption ==
  /\ MaxDepth \in Nat
  /\ Capacities \subseteq Nat
  /\ \A n \in Capacities : \E S \in SUBSET ListNodes : IsFiniteSet(S) /\ Cardinality(S) = n

VARIABLES
  m_list,      \* a sequence of [node, key]
  m_map,       \* a function from the cached keys to [value, node]
  m_capacity,
  creating,    \* the keys whose create callback is running, innermost last
  owed         \* how many of each value the cache took, less those deleted

cachevars == <<m_list, m_map, m_capacity, creating, owed>>

\* List, map and capacity keep their types, nodes of the list come from the pool
\* of free ones, and callbacks nest no deeper than MaxDepth (lru_cache.h:424-429).
CacheTypeOK ==
  /\ m_list \in Seq([node : ListNodes, key : Keys])
  /\ DOMAIN m_map \subseteq Keys
  /\ \A k \in DOMAIN m_map : m_map[k] \in [value : Values, node : ListNodes]
  /\ m_capacity \in Nat
  /\ creating \in Seq(Keys) /\ Len(creating) <= MaxDepth
  /\ owed \in [Values -> Nat]

CacheInit ==
  /\ m_list = <<>> /\ m_map = <<>>
  /\ m_capacity \in Capacities
  /\ creating = <<>>
  /\ owed = [v \in Values |-> 0]

-----------------------------------------------------------------------------
(* The parts of a call work on a record of the cache: list, map and owed. *)
Cache == [list |-> m_list, map |-> m_map, owed |-> owed]
SetCache(c) == m_list' = c.list /\ m_map' = c.map /\ owed' = c.owed

contains(k) == k \in DOMAIN m_map
At(c, n) == CHOOSE i \in DOMAIN c.list : c.list[i].node = n
Removed(l, i) == SubSeq(l, 1, i - 1) \o SubSeq(l, i + 1, Len(l))
Unlisted(c, n) == [c EXCEPT !.list = Removed(@, At(c, n))]
NewNode(c) == CHOOSE n \in ListNodes : \A i \in DOMAIN c.list : c.list[i].node # n
Given(c, v) == [c EXCEPT !.owed[v] = @ + 1]
Paid(c, v) == [c EXCEPT !.owed[v] = @ - 1]

Front(l, k, n) == <<[node |-> n, key |-> k]>> \o l
Put(m, k, v, n) ==
  [j \in DOMAIN m \cup {k} |-> IF j = k THEN [value |-> v, node |-> n] ELSE m[j]]

map_erase(c, k) ==
  [Paid(c, c.map[k].value) EXCEPT !.map = Restrict(@, DOMAIN @ \ {k})]

\* Mutant: the newest key goes.
erase_newest(c) == map_erase([c EXCEPT !.list = Tail(@)], Head(c.list).key)

erase_oldest(c) ==
  LET n == Len(c.list)
  IN  map_erase([c EXCEPT !.list = Removed(@, n)], c.list[n].key)

make_space(c) == IF Cardinality(DOMAIN c.map) = m_capacity THEN erase_oldest(c) ELSE c

\* erase_oldest while the list is longer than n.
trim(c, n) ==
  LET gone == {c.list[i].key : i \in (n + 1) .. Len(c.list)}
  IN  IF Cardinality(DOMAIN c.map) <= n THEN c
      ELSE [list |-> SubSeq(c.list, 1, n),
            map |-> Restrict(c.map, DOMAIN c.map \ gone),
            owed |-> [v \in Values |->
                        c.owed[v] - Cardinality({k \in gone : c.map[k].value = v})]]

PushFront(c, k, v) ==
  LET n == NewNode(c)
  IN  [list |-> Front(c.list, k, n), map |-> Put(c.map, k, v, n), owed |-> c.owed]

\* The key goes in front, with the value v.
Refresh(c, k, v) == PushFront(Unlisted(c, c.map[k].node), k, v)

\* Mutant: the map keeps the old position.
touchStale(c, k) == [Refresh(c, k, c.map[k].value) EXCEPT !.map = c.map]

touch(c, k) == Refresh(c, k, c.map[k].value)

Inserted(k, v) == Given(PushFront(make_space(Cache), k, v), v)

-----------------------------------------------------------------------------
\* insert and emplace: no change if the key is there.
insert(k, v) ==
  /\ m_capacity > 0
  /\ SetCache(IF contains(k) THEN Cache ELSE Inserted(k, v))
  /\ UNCHANGED <<m_capacity, creating>>

\* assign, and insert_or_assign of a key that is there.
assign(k, v) ==
  /\ contains(k)
  /\ SetCache(Given(Refresh(Paid(Cache, m_map[k].value), k, v), v))
  /\ UNCHANGED <<m_capacity, creating>>

\* get of a key that is there, and touch.
getCached(k) ==
  /\ contains(k)
  /\ SetCache(touch(Cache, k))
  /\ UNCHANGED <<m_capacity, creating>>

\* get of a new key calls the create callback ...
getNew(k) ==
  /\ ~contains(k) /\ Len(creating) < MaxDepth
  /\ m_capacity > 0
  /\ creating' = Append(creating, k)
  /\ UNCHANGED <<m_list, m_map, m_capacity, owed>>

\* Mutant: what get missed before the callback is taken to be missing still.
CreatedUnseen(v) ==
  /\ creating # <<>>
  /\ SetCache(Inserted(creating[Len(creating)], v))
  /\ creating' = SubSeq(creating, 1, Len(creating) - 1)
  /\ UNCHANGED m_capacity

\* ... and inserts what it returns, unless the callback has cached the key in
\* the meantime: then insert refuses the value, which get drops.
Created(v) ==
  /\ creating # <<>>
  /\ LET k == creating[Len(creating)]
     IN  SetCache(IF contains(k) THEN Cache ELSE Inserted(k, v))
  /\ creating' = SubSeq(creating, 1, Len(creating) - 1)
  /\ UNCHANGED m_capacity

erase(k) ==
  /\ contains(k)
  /\ SetCache(map_erase(Unlisted(Cache, m_map[k].node), k))
  /\ UNCHANGED <<m_capacity, creating>>

EraseOldest ==
  /\ m_list # <<>>
  /\ SetCache(erase_oldest(Cache))
  /\ UNCHANGED <<m_capacity, creating>>

\* A cache of capacity zero has no room to make: nothing may be inserted.
resize(n) ==
  /\ n > 0 \/ creating = <<>>
  /\ m_capacity' = n
  /\ SetCache(trim(Cache, n))
  /\ UNCHANGED creating

clear ==
  /\ SetCache(trim(Cache, 0))
  /\ UNCHANGED <<m_capacity, creating>>

reset_lose_memory ==
  /\ m_list' = <<>> /\ m_map' = <<>>
  /\ owed' = [v \in Values |-> 0]
  /\ UNCHANGED <<m_capacity, creating>>

\* ~lru_cache hands every value to the callback; a new cache takes its place.
DestroyCache ==
  /\ creating = <<>>
  /\ m_list' = <<>> /\ m_map' = <<>>
  /\ owed' = [v \in Values |-> owed[v] - Cardinality({k \in DOMAIN m_map : m_map[k].value = v})]
  /\ m_capacity' \in Capacities
  /\ UNCHANGED creating

CacheNext ==
  \/ \E k \in Keys :
       \/ getCached(k) \/ getNew(k) \/ erase(k)
       \/ \E v \in Values : insert(k, v) \/ assign(k, v)
  \/ \E v \in Values : Created(v)
  \/ \E n \in Capacities : resize(n)
  \/ EraseOldest \/ clear \/ reset_lose_memory \/ DestroyCache

CacheSpec == CacheInit /\ [][CacheNext]_cachevars

-----------------------------------------------------------------------------
(* Properties. *)

\* List and map hold the same keys, each position in the map is that of its key
\* in the list, and there are no more of them than the capacity, whatever a
\* create callback did to the cache it was called from (lru_cache.h:142-157,
\* 228-245, 393-422).
ListMatchesMap ==
  /\ CacheTypeOK
  /\ \A k \in DOMAIN m_map : \E i \in DOMAIN m_list : m_list[i] = [node |-> m_map[k].node, key |-> k]
  /\ Len(m_list) = Cardinality(DOMAIN m_map)
  /\ Len(m_list) <= m_capacity

\* Each value the cache took is in it or has been handed to the delete callback,
\* once, whatever a create callback did to the cache it was called from: if it
\* has cached its own key, the value it returns is not taken, so that none is
\* overwritten (lru_cache.h:116-124, 142-157, 228-245, 319-341, 359-398).
DeletedOnce == \A v \in Values :
  owed[v] = Cardinality({k \in DOMAIN m_map : m_map[k].value = v})

\* The cache evicts what was used longest ago, and nothing else, in every order
\* of insertion, touch, assignment and resizing (lru_cache.h:142-157, 275-312,
\* 400-422).
Position(k) == CHOOSE i \in DOMAIN m_list : m_list[i].key = k
ListedKeys == {m_list[i].key : i \in DOMAIN m_list}

LRU == INSTANCE LeastRecentlyUsed WITH
  entry <- [k \in DOMAIN m_map |-> m_map[k].value],
  older <- {x \in ListedKeys \X ListedKeys : Position(x[1]) > Position(x[2])},
  limit <- m_capacity

ImplementsLRU == LRU!LSpec
=============================================================================
