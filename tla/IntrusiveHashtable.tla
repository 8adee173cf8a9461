------------------------ MODULE IntrusiveHashtable ------------------------
(* intrusive_hashtable (include/EASTL/internal/intrusive_hashtable.h), behind *)
(* intrusive_hash_map, intrusive_hash_set and the multi variants.  The nodes  *)
(* belong to the caller, the bucket array never grows and its last entry is   *)
(* not null, so iterators live through insertions and erasures.               *)
EXTENDS Integers, Sequences, SequencesExt

CONSTANTS
  Tables,
  Nodes,         \* the caller's nodes, positive numbers
  KeyOf,         \* the key of each
  HashOf,        \* the hash code of each key
  kBucketCount

VARIABLES
  unique,  \* bUniqueKeys
  links,   \* mBucketArray and mnElementCount of each table, mpNext of each node
  cursor   \* an iterator that the caller keeps

ivars == <<links, cursor>>

Null == 0
Stop == -1   \* what the bucket after the last one holds

\* No iterator; one has a table, a node and a bucket, and with it go the elements
\* that have been there since it left begin(), and those it has yet to reach.
NoCursor == [node |-> Null]

ITypeOK ==
  /\ links.array \in [Tables -> [0 .. kBucketCount -> Nodes \cup {Null, Stop}]]
  /\ links.next \in [Nodes -> Nodes \cup {Null}]
  /\ links.count \in [Tables -> Nat]

IInit ==
  /\ links = [array |-> [t \in Tables |-> [b \in 0 .. kBucketCount |-> IF b = kBucketCount THEN Stop ELSE Null]],
              next |-> [n \in Nodes |-> Null],
              count |-> [t \in Tables |-> 0]]
  /\ cursor = NoCursor

-----------------------------------------------------------------------------
(* Iterators: <<mpNode, mpBucket>>. *)
Index(k) == HashOf[k] % kBucketCount
End == <<Stop, kBucketCount>>

IncrementBucket(g, t, b) ==
  LET i == CHOOSE j \in b + 1 .. kBucketCount :
             g.array[t][j] # Null /\ \A o \in b + 1 .. j - 1 : g.array[t][o] = Null
  IN  <<g.array[t][i], i>>

Increment(g, t, p) ==
  IF g.next[p[1]] # Null THEN <<g.next[p[1]], p[2]>> ELSE IncrementBucket(g, t, p[2])

Begin(g, t) ==
  IF g.count[t] = 0 THEN End
  ELSE IF g.array[t][0] # Null THEN <<g.array[t][0], 0>> ELSE IncrementBucket(g, t, 0)

\* The nodes from one iterator up to another; only the nodes are compared.
RECURSIVE Visited(_, _, _, _)
Visited(g, t, p, last) ==
  IF p[1] = last[1] THEN <<>> ELSE <<p[1]>> \o Visited(g, t, Increment(g, t, p), last)

Elements(t) == ToSet(Visited(links, t, Begin(links, t), End))

-----------------------------------------------------------------------------
(* Searches. *)
DoFindNode(g, n, k) ==
  LET f[m \in Nodes \cup {Null}] == IF m = Null \/ KeyOf[m] = k THEN m ELSE f[g.next[m]]
  IN  f[n]

Find(t, k) ==
  LET n == DoFindNode(links, links.array[t][Index(k)], k)
  IN  IF n # Null THEN <<n, Index(k)>> ELSE End

Count(t, k) ==
  LET f[m \in Nodes \cup {Null}] ==
        IF m = Null THEN 0 ELSE f[links.next[m]] + IF KeyOf[m] = k THEN 1 ELSE 0
  IN  f[links.array[t][Index(k)]]

\* The first node with the key, and the first behind it that has another.
EqualRange(t, k) ==
  LET first == Find(t, k)
      f[m \in Nodes \cup {Null}] == IF m = Null \/ KeyOf[m] # k THEN m ELSE f[links.next[m]]
      last == f[links.next[first[1]]]
  IN  IF first = End THEN <<End, End>>
      ELSE <<first, IF last = Null THEN IncrementBucket(links, t, Index(k)) ELSE <<last, Index(k)>>>>

-----------------------------------------------------------------------------
(* What the operations make of the links. *)

\* DoInsertValue: behind a node with the same key, or first in the bucket.
Linked(g, t, x) ==
  LET b == Index(KeyOf[x])
      p == DoFindNode(g, g.array[t][b], KeyOf[x])
      h == [g EXCEPT !.count[t] = @ + 1]
  IN  IF p = Null THEN [h EXCEPT !.next[x] = g.array[t][b], !.array[t][b] = x]
      ELSE [h EXCEPT !.next[x] = g.next[p], !.next[p] = x]

\* erase(i): the bucket or the node before is linked past it; its own link stays.
Erased(g, t, p) ==
  LET x == p[1]
      before[m \in Nodes] == IF g.next[m] = x THEN m ELSE before[g.next[m]]
      first == g.array[t][p[2]]
      h == [g EXCEPT !.count[t] = @ - 1]
  IN  IF first = x THEN [h EXCEPT !.array[t][p[2]] = g.next[x]]
      ELSE [h EXCEPT !.next[before[first]] = g.next[x]]

\* erase(first, last): each erasure gives the iterator that comes next.
RECURSIVE ErasedRange(_, _, _, _)
ErasedRange(g, t, p, last) ==
  IF p[1] = last[1] THEN g
  ELSE ErasedRange(Erased(g, t, p), t, Increment(g, t, p), last)

\* erase(k): first while the key is at the head of the bucket, then behind it.
RECURSIVE DropHeads(_, _, _)
DropHeads(g, t, k) ==
  LET n == g.array[t][Index(k)] IN
  IF n = Null \/ KeyOf[n] # k THEN g
  ELSE DropHeads([g EXCEPT !.array[t][Index(k)] = g.next[n], !.count[t] = @ - 1], t, k)

RECURSIVE DropBehind(_, _, _, _)
DropBehind(g, t, p, k) ==
  LET n == IF p = Null THEN Null ELSE g.next[p] IN
  IF n = Null THEN g
  ELSE IF KeyOf[n] # k THEN DropBehind(g, t, n, k)
  ELSE DropBehind([g EXCEPT !.next[p] = g.next[n], !.count[t] = @ - 1], t, p, k)

ErasedKey(g, t, k) ==
  LET h == DropHeads(g, t, k) IN DropBehind(h, t, h.array[t][Index(k)], k)

Cleared(g, t) ==
  [g EXCEPT !.array[t] = [b \in DOMAIN @ |-> IF b = kBucketCount THEN @[b] ELSE Null],
            !.count[t] = 0]

\* swap(x): bucket by bucket.
Swapped(g, t, u) ==
  LET from(x, y) == [b \in DOMAIN g.array[x] |-> IF b = kBucketCount THEN g.array[x][b] ELSE g.array[y][b]]
  IN  [g EXCEPT !.array[t] = from(t, u), !.array[u] = from(u, t),
                !.count[t] = g.count[u], !.count[u] = g.count[t]]

-----------------------------------------------------------------------------
(* Operations. *)

\* The cursor outlives what does not take its node away.
Cursored(t, gone) ==
  cursor' = IF cursor = NoCursor \/ cursor.table # t THEN cursor
            ELSE IF cursor.node \in gone THEN NoCursor
            ELSE [cursor EXCEPT !.stay = @ \ gone, !.due = @ \ gone]

\* insert(value), of a node that is in no table; a key that is there stays alone.
Insert(t, x) ==
  /\ \A u \in Tables : x \notin Elements(u)
  /\ unique => Find(t, KeyOf[x]) = End
  /\ links' = Linked(links, t, x)
  /\ UNCHANGED cursor

\* erase(first, last); erase(i) when there is one between.
Erase(t, p, last) ==
  /\ links' = ErasedRange(links, t, p, last)
  /\ Cursored(t, ToSet(Visited(links, t, p, last)))

EraseKey(t, k) ==
  /\ Find(t, k) # End
  /\ links' = ErasedKey(links, t, k)
  /\ Cursored(t, {x \in Elements(t) : KeyOf[x] = k})

\* remove(value): the bucket is computed, the rest is erase(i).
RemoveValue(t, x) ==
  /\ links' = Erased(links, t, <<x, Index(KeyOf[x])>>)
  /\ Cursored(t, {x})

Clear(t) == links' = Cleared(links, t) /\ Cursored(t, Elements(t))

\* swap(x), after which an iterator has the bucket of one table and a node of the
\* other.
Swap(t, u) ==
  /\ t # u
  /\ links' = Swapped(links, t, u)
  /\ cursor' = IF cursor # NoCursor /\ cursor.table \in {t, u} THEN NoCursor ELSE cursor

\* A loop that takes its time: begin(), ++, and erase(i) for the node it is at.
Start(t) ==
  /\ cursor = NoCursor
  /\ LET p == Begin(links, t)
     IN  cursor' = [table |-> t, node |-> p[1], bucket |-> p[2], stay |-> Elements(t), due |-> Elements(t)]
  /\ UNCHANGED links

Moved(p) == [cursor EXCEPT !.node = p[1], !.bucket = p[2], !.due = @ \ {cursor.node}]

Advance ==
  /\ cursor # NoCursor
  /\ cursor' = IF cursor.node = Stop THEN NoCursor
               ELSE Moved(Increment(links, cursor.table, <<cursor.node, cursor.bucket>>))
  /\ UNCHANGED links

EraseHere ==
  /\ cursor # NoCursor /\ cursor.node # Stop
  /\ LET t == cursor.table
         p == <<cursor.node, cursor.bucket>>
     IN  /\ links' = Erased(links, t, p)
         /\ cursor' = [Moved(Increment(links, t, p)) EXCEPT !.stay = @ \ {cursor.node}]

INext(items) ==
  /\ UNCHANGED unique
  /\ \/ \E t \in Tables :
          \/ \E x \in items : Insert(t, x)
          \/ LET s == Visited(links, t, Begin(links, t), End) \o <<Stop>>
                 at(x) == IF x = Stop THEN End ELSE <<x, Index(KeyOf[x])>>
             IN  \E i, j \in DOMAIN s : i < j /\ Erase(t, at(s[i]), at(s[j]))
          \/ \E x \in items : EraseKey(t, KeyOf[x])
          \/ \E x \in Elements(t) : RemoveValue(t, x)
          \/ Clear(t) \/ Start(t)
          \/ \E u \in Tables : Swap(t, u)
     \/ Advance \/ EraseHere

-----------------------------------------------------------------------------
\* validate()
Validate(t) == Len(Visited(links, t, Begin(links, t), End)) = links.count[t]

\* Each node is in the bucket of its key in one table, next to those of the same
\* key, and every search finds it.
ITablesExact(items) ==
  /\ ITypeOK
  /\ \A t, u \in Tables : t # u => Elements(t) \cap Elements(u) = {}
  /\ \A t \in Tables :
       LET s == Visited(links, t, Begin(links, t), End) IN
       /\ Validate(t) /\ IsInjective(s)
       /\ \A k \in {KeyOf[x] : x \in items} :
            LET all == SelectSeq(s, LAMBDA x : KeyOf[x] = k)
                r == EqualRange(t, k)
            IN  /\ Visited(links, t, r[1], r[2]) = all
                /\ Count(t, k) = Len(all) /\ (unique => Len(all) <= 1)

\* A loop reaches what was there when it began and has not been erased, each once,
\* whatever is inserted and erased around it meanwhile.
CursorExact ==
  cursor # NoCursor =>
    LET rest == Visited(links, cursor.table, <<cursor.node, cursor.bucket>>, End)
    IN  IsInjective(rest) /\ cursor.due = cursor.stay \cap ToSet(rest)
=============================================================================
