--------------------------- MODULE SortedVectors ---------------------------
(* The four sorted vectors (include/EASTL/vector_set.h, vector_multiset.h,    *)
(* vector_map.h, vector_multimap.h): what they share, a sequence of elements  *)
(* and a comparator, the searches and what replaces a whole container; then   *)
(* each of them.                                                              *)
EXTENDS Integers, FiniteSets, Sequences, SequencesExt

CONSTANTS Owners, Items, KeyOf   \* as in OrderedContainer

VARIABLES
  flat,   \* the elements of each container
  way,    \* its comparator: 1 for ascending keys, -1 for descending
  hinted  \* whether the last step put an element where a position said, which
          \* matters where keys may be equal (a history)

FInit == flat = [c \in Owners |-> <<>>] /\ way \in [Owners -> {1, -1}] /\ hinted = FALSE

\* The elements that are in no container, of those a program uses.
Unused(items) == items \ UNION {ToSet(flat[c]) : c \in Owners}
KeysOf(items) == {KeyOf[x] : x \in items}

\* The searches are those of algorithm.h, over what the comparator sees.
Itself(x) == x
A == INSTANCE Algorithms WITH KeyOf <- Itself
Rank(c, k) == way[c] * k
Ranks(c) == [i \in DOMAIN flat[c] |-> Rank(c, KeyOf[flat[c][i]])]

End(c) == Len(flat[c]) + 1
Before(c, x, y) == Rank(c, KeyOf[x]) < Rank(c, KeyOf[y])

\* DoLowerBound and DoUpperBound.
LowerBound(c, k) == A!lower_bound(Ranks(c), 1, Len(flat[c]), Rank(c, k))
UpperBound(c, k) == A!upper_bound(Ranks(c), 1, Len(flat[c]), Rank(c, k))

\* base_type::insert and base_type::erase, those of the vector.
Put(c, i, x) == flat' = [flat EXCEPT ![c] = InsertAt(@, i, x)]
Cut(c, i, j) == flat' = [flat EXCEPT ![c] = SubSeq(@, 1, i - 1) \o SubSeq(@, j, Len(@))]

-----------------------------------------------------------------------------
(* Whole containers.                                                          *)

\* clear().
FlatClear(c) == Cut(c, 1, End(c)) /\ UNCHANGED way

\* swap(x): elements and comparators.
FlatSwap(c, d) ==
  /\ flat' = [flat EXCEPT ![c] = flat[d], ![d] = flat[c]]
  /\ way' = [way EXCEPT ![c] = way[d], ![d] = way[c]]

\* operator=(this_type&&): the elements are moved, the comparators exchanged.
FlatMove(c, d) ==
  /\ c # d
  /\ flat' = [flat EXCEPT ![c] = flat[d], ![d] = <<>>]
  /\ way' = [way EXCEPT ![c] = way[d], ![d] = way[c]]

\* operator=(const this_type&): copies of the elements, then of the comparator.
FlatCopy(c, d, free) ==
  /\ c # d
  /\ \E m \in {s \in [DOMAIN flat[d] -> free] :
                 \A i, j \in DOMAIN s : /\ KeyOf[s[i]] = KeyOf[flat[d][i]]
                                        /\ s[i] = s[j] => i = j} :
       flat' = [flat EXCEPT ![c] = m]
  /\ way' = [way EXCEPT ![c] = way[d]]

\* What all four do.
Whole(items) ==
  /\ \E c, d \in Owners : FlatSwap(c, d) \/ FlatMove(c, d) \/ FlatCopy(c, d, Unused(items))
                          \/ FlatClear(c)
  /\ hinted' = FALSE

\* The positions the searches should find, counted.
LookupsExact(c, k, range, found, n) ==
  LET less == Cardinality({i \in DOMAIN flat[c] : Ranks(c)[i] < Rank(c, k)})
      same == Cardinality({i \in DOMAIN flat[c] : KeyOf[flat[c][i]] = k})
  IN  /\ LowerBound(c, k) = less + 1 /\ UpperBound(c, k) = less + same + 1
      /\ range = <<less + 1, less + same + 1>>
      /\ found = IF same = 0 THEN End(c) ELSE less + 1
      /\ n = same

-----------------------------------------------------------------------------
(* vector_set (include/EASTL/vector_set.h). *)

\* insert(value): nothing happens when the lower bound is not greater.
Insert(c, x) ==
  LET i == LowerBound(c, KeyOf[x])
  IN  ~(i # End(c) /\ ~Before(c, x, flat[c][i])) /\ Put(c, i, x)

\* insert(position, value): before the hint when the keys on both sides allow it.
InsertHint(c, i, x) ==
  IF /\ i = End(c) \/ Before(c, x, flat[c][i])
     /\ i = 1 \/ Before(c, flat[c][i - 1], x)
  THEN Put(c, i, x)
  ELSE Insert(c, x)

\* DoEqualRange: at most one element, so one search is enough.
EqualRange(c, k) ==
  LET i == LowerBound(c, k)
  IN  IF i = End(c) \/ Rank(c, k) < Ranks(c)[i] THEN <<i, i>> ELSE <<i, i + 1>>

\* DoFind and find_as.
DoFind(c, k) == LET r == EqualRange(c, k) IN IF r[1] # r[2] THEN r[1] ELSE End(c)

\* DoCount.
DoCount(c, k) == IF DoFind(c, k) # End(c) THEN 1 ELSE 0

\* erase(position), erase(first, last) and clear.
Erase(c, i, j) == Cut(c, i, j)

\* DoErase.
EraseKey(c, k) == DoFind(c, k) # End(c) /\ Erase(c, DoFind(c, k), DoFind(c, k) + 1)

Next(items) ==
  /\ UNCHANGED way
  /\ \E c \in Owners :
    \/ \E x \in Unused(items) : Insert(c, x) /\ hinted' = FALSE
    \/ \E x \in Unused(items), i \in 1 .. End(c) : InsertHint(c, i, x) /\ hinted' = FALSE
    \/ \E i, j \in 1 .. End(c) : i < j /\ Erase(c, i, j) /\ hinted' = FALSE
    \/ \E k \in KeysOf(items) : EraseKey(c, k) /\ hinted' = FALSE

\* Every lookup finds what is there.
Lookups(items) ==
  \A c \in Owners, k \in KeysOf(items) :
    /\ LookupsExact(c, k, EqualRange(c, k), DoFind(c, k), DoCount(c, k))

-----------------------------------------------------------------------------
(* vector_multiset (include/EASTL/vector_multiset.h). *)

\* insert(value): behind the elements it is equal to.
MultiInsert(c, x) == Put(c, UpperBound(c, KeyOf[x]), x)

\* insert(position, value): before the hint when that keeps the order.
MultiInsertHint(c, i, x) ==
  IF /\ i = End(c) \/ ~Before(c, flat[c][i], x)
     /\ i = 1 \/ ~Before(c, x, flat[c][i - 1])
  THEN Put(c, i, x)
  ELSE MultiInsert(c, x)

\* DoEqualRange is that of algorithm.h.
MultiEqualRange(c, k) == A!equal_range(Ranks(c), 1, Len(flat[c]), Rank(c, k))

\* DoEqualRangeSmall: from the lower bound up, while nothing is greater.
MultiEqualRangeSmall(c, k) ==
  LET first == LowerBound(c, k)
      up[i \in 1 .. End(c)] == IF i # End(c) /\ ~(Rank(c, k) < Ranks(c)[i]) THEN up[i + 1] ELSE i
  IN  <<first, up[first]>>

\* DoFind and find_as.
MultiDoFind(c, k) == LET r == MultiEqualRange(c, k) IN IF r[1] # r[2] THEN r[1] ELSE End(c)

\* DoCount.
MultiDoCount(c, k) == MultiEqualRange(c, k)[2] - MultiEqualRange(c, k)[1]

\* erase(position) and erase(first, last).
MultiErase(c, i, j) == Cut(c, i, j)

\* DoErase.
MultiEraseKey(c, k) ==
  LET r == MultiEqualRange(c, k) IN r[1] # r[2] /\ MultiErase(c, r[1], r[2])

MultiNext(items) ==
  /\ UNCHANGED way
  /\ \E c \in Owners :
    \/ \E x \in Unused(items) : MultiInsert(c, x) /\ hinted' = FALSE
    \/ \E x \in Unused(items), i \in 1 .. End(c) : MultiInsertHint(c, i, x) /\ hinted' = TRUE
    \/ \E i, j \in 1 .. End(c) : i < j /\ MultiErase(c, i, j) /\ hinted' = FALSE
    \/ \E k \in KeysOf(items) : MultiEraseKey(c, k) /\ hinted' = FALSE

\* Every lookup finds what is there.
MultiLookups(items) ==
  \A c \in Owners, k \in KeysOf(items) :
    /\ LookupsExact(c, k, MultiEqualRange(c, k), MultiDoFind(c, k), MultiDoCount(c, k))
    /\ MultiEqualRangeSmall(c, k) = MultiEqualRange(c, k)

-----------------------------------------------------------------------------
(* vector_map (include/EASTL/vector_map.h): the elements are pairs, compared by *)
(* their first members. *)

\* insert(value), insert(key) and emplace, for a key that is absent.
MapInsert(c, x) ==
  LET i == LowerBound(c, KeyOf[x])
  IN  ~(i # End(c) /\ ~Before(c, x, flat[c][i])) /\ Put(c, i, x)

\* insert(position, value): before the hint when the keys on both sides allow it.
MapInsertHint(c, i, x) ==
  IF /\ i = End(c) \/ Before(c, x, flat[c][i])
     /\ i = 1 \/ Before(c, flat[c][i - 1], x)
  THEN Put(c, i, x)
  ELSE MapInsert(c, x)

\* DoGetElement, operator[]: a pair with a default value goes where it searched.
GetElement(c, x) ==
  LET i == LowerBound(c, KeyOf[x])
  IN  ~(i # End(c) /\ Ranks(c)[i] <= Rank(c, KeyOf[x])) /\ MapInsertHint(c, i, x)

\* DoEqualRange: at most one element, so one search is enough.
MapEqualRange(c, k) ==
  LET i == LowerBound(c, k)
  IN  IF i = End(c) \/ Rank(c, k) < Ranks(c)[i] THEN <<i, i>> ELSE <<i, i + 1>>

\* DoFind and find_as.
MapDoFind(c, k) == LET r == MapEqualRange(c, k) IN IF r[1] # r[2] THEN r[1] ELSE End(c)

\* DoCount.
MapDoCount(c, k) == IF MapDoFind(c, k) # End(c) THEN 1 ELSE 0

\* at_key: the element, or 0 where the code throws out_of_range.
AtKey(c, k) ==
  LET i == LowerBound(c, k) IN IF i = End(c) \/ Rank(c, k) < Ranks(c)[i] THEN 0 ELSE i

\* erase(position), erase(first, last).
MapErase(c, i, j) == Cut(c, i, j)

\* DoErase.
MapEraseKey(c, k) == MapDoFind(c, k) # End(c) /\ MapErase(c, MapDoFind(c, k), MapDoFind(c, k) + 1)

MapNext(items) ==
  /\ UNCHANGED way
  /\ \E c \in Owners :
    \/ \E x \in Unused(items) : MapInsert(c, x) /\ hinted' = FALSE
    \/ \E x \in Unused(items) : GetElement(c, x) /\ hinted' = FALSE
    \/ \E x \in Unused(items), i \in 1 .. End(c) : MapInsertHint(c, i, x) /\ hinted' = FALSE
    \/ \E i, j \in 1 .. End(c) : i < j /\ MapErase(c, i, j) /\ hinted' = FALSE
    \/ \E k \in KeysOf(items) : MapEraseKey(c, k) /\ hinted' = FALSE

\* Every lookup finds what is there.
MapLookups(items) ==
  \A c \in Owners, k \in KeysOf(items) :
    /\ LookupsExact(c, k, MapEqualRange(c, k), MapDoFind(c, k), MapDoCount(c, k))
    /\ AtKey(c, k) = MapDoFind(c, k) % End(c)

-----------------------------------------------------------------------------
(* vector_multimap (include/EASTL/vector_multimap.h). *)

\* insert(value), insert(key) and emplace.
MultimapInsert(c, x) == Put(c, UpperBound(c, KeyOf[x]), x)

\* insert(position, value): before the hint when that keeps the order.
MultimapInsertHint(c, i, x) ==
  IF /\ i = End(c) \/ ~Before(c, flat[c][i], x)
     /\ i = 1 \/ ~Before(c, x, flat[c][i - 1])
  THEN Put(c, i, x)
  ELSE MultimapInsert(c, x)

\* DoEqualRange is that of algorithm.h.
MultimapEqualRange(c, k) == A!equal_range(Ranks(c), 1, Len(flat[c]), Rank(c, k))

\* DoEqualRangeSmall: from the lower bound up, while nothing is greater.
MultimapEqualRangeSmall(c, k) ==
  LET first == LowerBound(c, k)
      up[i \in 1 .. End(c)] == IF i # End(c) /\ ~(Rank(c, k) < Ranks(c)[i]) THEN up[i + 1] ELSE i
  IN  <<first, up[first]>>

\* DoFind and find_as.
MultimapDoFind(c, k) == LET r == MultimapEqualRange(c, k) IN IF r[1] # r[2] THEN r[1] ELSE End(c)

\* DoCount.
MultimapDoCount(c, k) == MultimapEqualRange(c, k)[2] - MultimapEqualRange(c, k)[1]

\* erase(position) and erase(first, last).
MultimapErase(c, i, j) == Cut(c, i, j)

\* DoErase.
MultimapEraseKey(c, k) ==
  LET r == MultimapEqualRange(c, k) IN r[1] # r[2] /\ MultimapErase(c, r[1], r[2])

MultimapNext(items) ==
  /\ UNCHANGED way
  /\ \E c \in Owners :
    \/ \E x \in Unused(items) : MultimapInsert(c, x) /\ hinted' = FALSE
    \/ \E x \in Unused(items), i \in 1 .. End(c) : MultimapInsertHint(c, i, x) /\ hinted' = TRUE
    \/ \E i, j \in 1 .. End(c) : i < j /\ MultimapErase(c, i, j) /\ hinted' = FALSE
    \/ \E k \in KeysOf(items) : MultimapEraseKey(c, k) /\ hinted' = FALSE

\* Every lookup finds what is there.
MultimapLookups(items) ==
  \A c \in Owners, k \in KeysOf(items) :
    /\ LookupsExact(c, k, MultimapEqualRange(c, k), MultimapDoFind(c, k), MultimapDoCount(c, k))
    /\ MultimapEqualRangeSmall(c, k) = MultimapEqualRange(c, k)
=============================================================================
