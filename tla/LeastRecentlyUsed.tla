------------------------- MODULE LeastRecentlyUsed -------------------------
(* What a cache of bounded size promises (include/EASTL/bonus/lru_cache.h):   *)
(* it keeps what was used last, with use recorded as an order on the keys.    *)
EXTENDS Naturals, FiniteSets

CONSTANTS Keys, Values, Capacities

VARIABLES
  entry,    \* the cached values, by key
  older,    \* pairs <<j, k>> of keys: j was used before k
  limit

lvars == <<entry, older, limit>>

LInit == entry = <<>> /\ older = {} /\ limit \in Capacities

Cached == DOMAIN entry
Without(R, S) == {x \in R : x[1] \notin S /\ x[2] \notin S}

\* The n keys used longest ago.
Oldest(n) == {k \in Cached : Cardinality({j \in Cached : <<j, k>> \in older}) < n}

\* The keys of S leave, and k is used: it may be new.
Use(k, v, S) ==
  /\ entry' = [j \in (Cached \ S) \cup {k} |-> IF j = k THEN v ELSE entry[j]]
  /\ older' = Without(older, S \cup {k}) \cup ((Cached \ (S \cup {k})) \X {k})

Leave(S) ==
  /\ entry' = [j \in Cached \ S |-> entry[j]]
  /\ older' = Without(older, S)

\* A new key takes the place of the oldest in a full cache, and of no other.
LInsert(k, v) ==
  /\ k \notin Cached
  /\ Use(k, v, IF Cardinality(Cached) = limit THEN Oldest(1) ELSE {})
  /\ UNCHANGED limit

LAssign(k, v) == k \in Cached /\ Use(k, v, {}) /\ UNCHANGED limit
LTouch(k) == k \in Cached /\ Use(k, entry[k], {}) /\ UNCHANGED limit
LErase(k) == k \in Cached /\ Leave({k}) /\ UNCHANGED limit
LEraseOldest == Cached # {} /\ Leave(Oldest(1)) /\ UNCHANGED limit
LClear == Leave(Cached) /\ limit' \in Capacities

LResize(n) ==
  /\ limit' = n
  /\ Leave(Oldest(IF Cardinality(Cached) > n THEN Cardinality(Cached) - n ELSE 0))

LNext ==
  \/ \E k \in Keys : LTouch(k) \/ LErase(k) \/ \E v \in Values : LInsert(k, v) \/ LAssign(k, v)
  \/ \E n \in Capacities : LResize(n)
  \/ LEraseOldest \/ LClear

LSpec == LInit /\ [][LNext]_lvars
=============================================================================
