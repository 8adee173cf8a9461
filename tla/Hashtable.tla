----------------------------- MODULE Hashtable -----------------------------
(* The chained hash table behind hash_map, hash_set and the multi variants    *)
(* (include/EASTL/internal/hashtable.h), and what fixed_hash_map and          *)
(* fixed_hash_set make of it with a bucket array inside the container.        *)
(*                                                                            *)
(* A bucket array is a memory of its own, because a table without buckets     *)
(* points at gpEmptyBucketArray, which all tables share: what one table       *)
(* writes there, every other reads.                                           *)
EXTENDS Integers, Sequences, FiniteSets, SequencesExt

CONSTANTS
  Tables,       \* all containers
  Nodes,        \* the nodes that can be allocated, each with its value
  KeyOf,        \* the key of each node's value
  HashOf,       \* the hash code of each key
  HeapArrays,   \* the bucket arrays the allocator can hand out
  EmptyArray,   \* gpEmptyBucketArray, which all tables share
  InitialLoad,  \* the maximum load factor of a new table
  Primes,       \* gPrimeNumberArray, as far as the instance reaches
  MaxLost,      \* bound: how many nodes the calls forget
  Programs      \* what callers do, in each of the programs looked at:
                \*   tables, nodes   those that exist
                \*   unique          TRUE for hash_map and hash_set
                \*   buffer          the bucketCount of a fixed container, else 0
                \*   loads           the maximum load factors they set, as fractions
                \*   counts          what they pass to rehash, reserve, constructors
                \*   ranges          the key ranges they insert
                \*   clears          what they pass to clear(bool)
                \*   throws          which of "alloc" and "hash" may throw

\* A maximum load factor is divided by, so it is positive.
Loads == [p : Nat \ {0}, q : Nat \ {0}]

\* Arrays are told apart by what they are named, and the allocator has one for
\* each table and one to move to.  The table of primes begins with 2, and no
\* container has a buffer that no prime exceeds.  A bucket count that a caller
\* sets is at least 2 (EASTL_ASSERT in hashtable.h:1846).
ASSUME HashtableAssumption ==
  /\ IsFiniteSet(Nodes) /\ IsFiniteSet(Tables) /\ IsFiniteSet(HeapArrays)
  /\ \A x \in Nodes : HashOf[KeyOf[x]] \in Nat
  /\ Cardinality(HeapArrays) > Cardinality(Tables)
  /\ EmptyArray \notin HeapArrays \cup Tables /\ HeapArrays \cap Tables = {}
  /\ IsFiniteSet(Primes) /\ Primes \subseteq Nat \ {0, 1} /\ 2 \in Primes
  /\ InitialLoad \in Loads /\ MaxLost \in Nat
  /\ \A p \in Programs :
       /\ p.tables \subseteq Tables /\ p.nodes \subseteq Nodes
       /\ p.buffer \in Nat \ {1} /\ p.unique \in BOOLEAN
       /\ \E o \in Primes : o > p.buffer
       /\ p.loads \subseteq Loads /\ p.counts \subseteq Nat \ {0, 1}
       /\ p.ranges \subseteq Seq({KeyOf[x] : x \in p.nodes})
       /\ p.throws \subseteq {"alloc", "hash"} /\ p.clears \subseteq BOOLEAN

VARIABLES
  prog,   \* which of the programs this is
  h,      \* the fields of each table
  mem,    \* the contents of each bucket array, without its sentinel
  live,   \* the nodes that are allocated, and that somebody has
  lost,   \* the nodes that a call which threw has forgotten
  work    \* a range insertion in progress: its table and the keys left

vars == <<prog, h, mem, live, lost, work>>

(* prime_rehash_policy (source/hashtable.cpp): which bucket counts a table    *)
(* takes and when it takes a larger one.  A load factor is a fraction p/q, and *)
(* a cast to uint32_t is the floor.  What is beyond the last prime gets that. *)
LowerBound(x) ==
  LET enough == {p \in Primes : p >= x}
  IN  IF enough = {} THEN Max(Primes) ELSE Min(enough)

\* ceilf(nPrime * mfMaxLoadFactor): the element count at which to look again.
Resize(load, n) == (n * load.p + load.q - 1) \div load.q

GetPrevBucketCount(n) == Max({p \in Primes : p <= n})
GetNextBucketCount(n) == LowerBound(n)
GetBucketCount(load, count) == LowerBound((count * load.q) \div load.p)

\* GetRehashRequired: the bucket count to move to, 0 for none, and the new
\* mnNextResize.  A count of 1 is the shared empty array and counts as none.
GetRehashRequired(load, next, n, count, add) ==
  LET need == count + add
      have == IF n = 1 THEN 0 ELSE n
      prime == LowerBound(Max({(need * load.q) \div load.p, 2 * have}))
  IN  IF need <= next THEN [n |-> 0, next |-> next]
      ELSE IF need * load.q > have * load.p
           THEN [n |-> prime, next |-> Resize(load, prime)]
           ELSE [n |-> 0, next |-> Resize(load, have)]

-----------------------------------------------------------------------------
Unique == prog.unique
Fixed == prog.buffer > 0
Buffer(t) == t   \* mBucketBuffer, named by its container
Arrays == HeapArrays \cup {EmptyArray} \cup {Buffer(t) : t \in Tables}
Idle == [table |-> EmptyArray, keys |-> <<>>, ctor |-> FALSE]
Keys == {KeyOf[x] : x \in prog.nodes}

Table(array, n, count, load, next) ==
  [array |-> array, n |-> n, count |-> count, load |-> load, next |-> next]

(* DoFreeNodes leaves the array of n heads, all null. *)
NullHeads(n) == [i \in 1 .. n |-> <<>>]
BucketIndex(k, n) == (HashOf[k] % n) + 1

Chains(t) == mem[h[t].array]
NodesIn(chains) == UNION {ToSet(chains[i]) : i \in DOMAIN chains}
Elements(t) == FlattenSeq(Chains(t))
Holds(t) == NodesIn(Chains(t))
Bucket(t, k) == Chains(t)[BucketIndex(k, h[t].n)]
Find(t, k) == {x \in ToSet(Bucket(t, k)) : KeyOf[x] = k}
Unused == prog.nodes \ (live \cup lost)
FreeNodes(k) == {x \in Unused : KeyOf[x] = k}
KeySeq(t) == [i \in 1 .. Len(Elements(t)) |-> KeyOf[Elements(t)[i]]]

\* Each table names one of the arrays and counts without going below zero, and
\* chains are made of nodes (hashtable.h:928-931).
TypeOK ==
  /\ prog \in Programs
  /\ DOMAIN h = Tables
  /\ \A t \in Tables :
       /\ h[t].array \in Arrays
       /\ {h[t].n, h[t].count, h[t].next} \subseteq Nat
       /\ h[t].load \in prog.loads \cup {InitialLoad}
  /\ mem \in [Arrays -> Seq(Seq(prog.nodes))]
  /\ live \cup lost \subseteq prog.nodes
  /\ work = Idle \/ (work.table \in prog.tables /\ work.keys \in Seq(Keys))

\* The table a default constructor leaves: reset_lose_memory.
EmptyTableOf(load) == Table(EmptyArray, 1, 0, load, 0)
EmptyTable == EmptyTableOf(InitialLoad)

\* fixed_hash_map takes its array of GetPrevBucketCountOnly(bucketCount).
FixedTable(t) ==
  LET n == GetPrevBucketCount(prog.buffer)
  IN  Table(Buffer(t), n, 0, InitialLoad, Resize(InitialLoad, n))

NewTable(t) == IF Fixed THEN FixedTable(t) ELSE EmptyTable

Init ==
  /\ prog \in Programs
  /\ h = [t \in Tables |-> NewTable(t)]
  /\ mem = [a \in Arrays |->
              IF a = EmptyArray THEN <<<<>>>>
              ELSE IF a \in HeapArrays \/ ~Fixed THEN <<>>
              ELSE NullHeads(GetPrevBucketCount(prog.buffer))]
  /\ live = {} /\ lost = {}
  /\ work = Idle

-----------------------------------------------------------------------------
(* Bucket arrays and policy.  A state s of table t is its fields s.r and the  *)
(* memory s.m they point into.                                                *)
StateOf(r, m) == [r |-> r, m |-> m]
State(t) == StateOf(h[t], mem)

Becomes(t, s) == h' = [h EXCEPT ![t] = s.r] /\ mem' = s.m

(* DoFreeBuckets: only an array of the heap goes. *)
Released(m, a) == IF a \in HeapArrays THEN [m EXCEPT ![a] = <<>>] ELSE m

(* DoAllocateBuckets: a fixed container's own array serves what fits it, and  *)
(* the heads are null.                                                        *)
Placed(m, t, n) == IF n <= prog.buffer THEN Buffer(t)
                   ELSE CHOOSE a \in HeapArrays : m[a] = <<>>

\* Those of a sequence that are in S, in their order.
Only(c, S) == FlattenSeq([j \in DOMAIN c |-> IF c[j] \in S THEN <<c[j]>> ELSE <<>>])

\* The nodes of a sequence whose bucket is i of n.
Of(c, n, i) == Only(c, {x \in ToSet(c) : BucketIndex(KeyOf[x], n) = i})

Nodeless(m, a) == [m EXCEPT ![a] = NullHeads(Len(m[a]))]

\* The table r with another array.
Moved(r, a, n) == Table(a, n, r.count, r.load, r.next)

\* Mutant: the old array is not freed.
RehashedOldKept(s, t, n) ==
  LET to == Placed(s.m, t, n)
      nodes == FlattenSeq(s.m[s.r.array])
      chains == [i \in 1 .. n |-> Reverse(Of(nodes, n, i))]
  IN  StateOf(Moved(s.r, to, n), [Nodeless(s.m, s.r.array) EXCEPT ![to] = chains])

\* Mutant: a moved node does not point at the ones before it.
RehashedUnlinked(s, t, n) ==
  LET to == Placed(s.m, t, n)
      nodes == FlattenSeq(s.m[s.r.array])
      last(c) == IF c = <<>> THEN c ELSE <<c[Len(c)]>>
      chains == [i \in 1 .. n |-> last(Of(nodes, n, i))]
  IN  StateOf(Moved(s.r, to, n), [Released(s.m, s.r.array) EXCEPT ![to] = chains])

(* DoRehash: the new array is allocated and cleared, every node goes from the *)
(* front of its old chain to the front of its new one, and the old array is   *)
(* freed.  A fixed container may be handed the very array it is using, and    *)
(* then loses its nodes when the heads are cleared.                           *)
Rehashed(s, t, n) ==
  LET to == Placed(s.m, t, n)
      nodes == FlattenSeq(s.m[s.r.array])
      chains == [i \in 1 .. n |-> Reverse(Of(nodes, n, i))]
      left == Released(Nodeless(s.m, s.r.array), s.r.array)
  IN  StateOf(Moved(s.r, to, n),
           IF to = s.r.array THEN [s.m EXCEPT ![to] = NullHeads(n)] ELSE [left EXCEPT ![to] = chains])

Decision(s, add) == GetRehashRequired(s.r.load, s.r.next, s.r.n, s.r.count, add)

\* mnNextResize is the policy's and changes with the decision, not the rehash.
WithNext(s, next) == StateOf([s.r EXCEPT !.next = next], s.m)
Decided(s, add) == WithNext(s, Decision(s, add).next)

\* Mutant: the decision does not count the last node.
GrownLate(s, t, add) ==
  IF Decision(s, add - 1).n = 0 THEN Decided(s, add - 1)
  ELSE Rehashed(Decided(s, add - 1), t, Decision(s, add - 1).n)

Grown(s, t, add) ==
  IF Decision(s, add).n = 0 THEN Decided(s, add)
  ELSE Rehashed(Decided(s, add), t, Decision(s, add).n)

(* DoFreeNodes does not write to the shared empty array, which it knows by a  *)
(* bucket count below 2.                                                      *)
NodesFreed(s) == IF s.r.n < 2 THEN {} ELSE NodesIn(s.m[s.r.array])
Cleared(s) ==
  StateOf([s.r EXCEPT !.count = 0], IF s.r.n < 2 THEN s.m ELSE Nodeless(s.m, s.r.array))

\* The memory after the destructor.
Destroyed(s) == IF s.r.n > 1 THEN Released(Cleared(s).m, s.r.array) ELSE Cleared(s).m

-----------------------------------------------------------------------------
(* Insertion. *)
Quiet == work = Idle
Enough(keys, free) == \A k \in ToSet(keys) :
  Cardinality({i \in DOMAIN keys : keys[i] = k}) <= Cardinality({x \in free : KeyOf[x] = k})

\* Mutant: in front, whatever is in the chain.
LinkedInFront(c, x) == <<x>> \o c

\* In front of the chain, or after the first equal node.
Linked(c, x) ==
  LET equal == {j \in DOMAIN c : KeyOf[c[j]] = KeyOf[x]}
  IN  IF equal = {} THEN <<x>> \o c ELSE InsertAt(c, Min(equal) + 1, x)

Added(s, x) ==
  LET i == BucketIndex(KeyOf[x], s.r.n)
      c == s.m[s.r.array]
  IN  StateOf([s.r EXCEPT !.count = @ + 1],
           [s.m EXCEPT ![s.r.array] = [c EXCEPT ![i] = Linked(c[i], x)]])

Present(t, k) == Unique /\ Find(t, k) # {}

Put(t, k) ==
  /\ ~Present(t, k) /\ FreeNodes(k) # {}
  /\ LET x == CHOOSE y \in FreeNodes(k) : TRUE
     IN  Becomes(t, Added(Grown(State(t), t, 1), x)) /\ live' = live \cup {x}

\* insert, emplace, operator[], insert_or_assign, with an absent key.
Insert(t, k) == Quiet /\ Put(t, k) /\ UNCHANGED work

(* The array of the rehash that state s decides on, or the node of operator[],*)
(* cannot be allocated: mnNextResize is already the new one.                  *)
DecisionLost(t, s, add) == Becomes(t, Decided(s, add))

\* Multi variants rehash before they allocate the node.
NodeLost(t, add) == ~Unique /\ Becomes(t, Grown(State(t), t, add))

(* The hash function throws while DoRehash moves the nodes of s: it deletes   *)
(* everything and keeps the old array.                                        *)
RehashAbandoned(t, s) ==
  /\ "hash" \in prog.throws /\ s.r.count > 0
  /\ Becomes(t, Cleared(s)) /\ live' = live \ NodesFreed(s)

PutThrows(t, k) ==
  /\ ~Present(t, k)
  /\ \/ /\ "alloc" \in prog.throws
        /\ DecisionLost(t, State(t), 1) \/ NodeLost(t, 1)
        /\ UNCHANGED live
     \/ Decision(State(t), 1).n # 0 /\ RehashAbandoned(t, Decided(State(t), 1))

InsertThrows(t, k) == Quiet /\ PutThrows(t, k) /\ UNCHANGED work

\* The hash or the comparison throws when the node has been made and nothing
\* has it yet.  No catch block frees it.
Forgotten(k) ==
  /\ "hash" \in prog.throws /\ FreeNodes(k) # {} /\ Cardinality(lost) < MaxLost
  /\ lost' = lost \cup {CHOOSE x \in FreeNodes(k) : TRUE}

NodeForgotten(t, k) ==
  /\ Forgotten(k)
  /\ Becomes(t, IF Unique THEN State(t) ELSE Grown(State(t), t, 1))
  /\ UNCHANGED live

\* emplace makes the node to have its key, present or not, and then hashes it.
EmplaceThrows(t, k) == Quiet /\ NodeForgotten(t, k) /\ UNCHANGED work

\* insert(first, last): room for the whole range first, then one by one.
BeginRange(t, s, keys) ==
  /\ Becomes(t, Grown(s, t, Len(keys)))
  /\ work' = IF keys = <<>> THEN Idle ELSE [table |-> t, keys |-> keys, ctor |-> FALSE]

InsertRange(t, keys) ==
  /\ Quiet /\ Enough(keys, Unused)
  /\ BeginRange(t, State(t), keys)
  /\ UNCHANGED live

InsertRangeThrows(t, keys) ==
  /\ Quiet
  /\ \/ "alloc" \in prog.throws /\ DecisionLost(t, State(t), Len(keys)) /\ UNCHANGED live
     \/ /\ Decision(State(t), Len(keys)).n # 0
        /\ RehashAbandoned(t, Decided(State(t), Len(keys)))
  /\ UNCHANGED work

RestOfRange == IF Len(work.keys) = 1 THEN Idle ELSE [work EXCEPT !.keys = Tail(@)]

InsertNext ==
  /\ work # Idle
  /\ LET k == Head(work.keys)
     IN  \/ Put(work.table, k)
         \/ Present(work.table, k) /\ UNCHANGED <<h, mem, live>>
  /\ work' = RestOfRange

\* Multi variants compare the key when the node has been made.
Compares(t, k) ==
  LET s == Grown(State(t), t, 1)
  IN  ~Unique /\ s.m[s.r.array][BucketIndex(k, s.r.n)] # <<>>

\* The next insertion throws: what was inserted stays.
InsertNextThrows ==
  /\ work # Idle /\ ~work.ctor /\ prog.throws # {}
  /\ LET t == work.table
         k == Head(work.keys)
     IN  \/ UNCHANGED <<h, mem, live, lost>>
         \/ PutThrows(t, k) /\ UNCHANGED lost
         \/ Compares(t, k) /\ NodeForgotten(t, k)
  /\ work' = Idle

\* In a constructor what was inserted is freed, and the table modelled is then
\* the next one constructed.
RangeConstructThrows ==
  /\ work # Idle /\ work.ctor /\ prog.throws # {}
  /\ LET t == work.table
         k == Head(work.keys)
     IN  /\ Becomes(t, StateOf(EmptyTable, Destroyed(State(t))))
         /\ live' = live \ NodesFreed(State(t))
         /\ UNCHANGED lost \/ (Compares(t, k) /\ Forgotten(k))
  /\ work' = Idle

-----------------------------------------------------------------------------

Without(s, S) ==
  LET c == s.m[s.r.array]
      kept(i) == Only(c[i], ToSet(c[i]) \ S)
  IN  StateOf([s.r EXCEPT !.count = @ - Cardinality(S)],
           [s.m EXCEPT ![s.r.array] = [i \in DOMAIN c |-> kept(i)]])

EraseNodes(t, S) == Becomes(t, Without(State(t), S)) /\ live' = live \ S /\ UNCHANGED work

\* erase(first, last), and with i = j erase of one iterator.
Erase(t, i, j) == Quiet /\ EraseNodes(t, {Elements(t)[m] : m \in i .. j})

\* erase_if: one erase after the other, each giving the iterator to go on from.
EraseIf(t, keys) == Quiet /\ EraseNodes(t, {x \in Holds(t) : KeyOf[x] \in keys})

\* The nodes erase(key) takes: the first run of equal keys in the bucket.
FirstRun(c, k) ==
  LET equal == {j \in DOMAIN c : KeyOf[c[j]] = k}
  IN  {c[j] : j \in {i \in equal : Min(equal) .. i \subseteq equal}}

DoErase(t, k) == Quiet /\ EraseNodes(t, FirstRun(Bucket(t, k), k))

Clear(t) ==
  /\ Quiet
  /\ Becomes(t, Cleared(State(t))) /\ live' = live \ NodesFreed(State(t))
  /\ UNCHANGED work

\* The fields that reset_lose_memory gives a table or a fixed table.
Reset(t) == Table(NewTable(t).array, NewTable(t).n, 0, h[t].load, 0)

(* clear(bool).  The fixed containers go back to their own array either way.  *)
ClearBuckets(t, free) ==
  LET s == Cleared(State(t))
      kept == IF Fixed THEN StateOf([s.r EXCEPT !.array = Buffer(t)], s.m) ELSE s
  IN  /\ Quiet
      /\ Becomes(t, IF free THEN StateOf(Reset(t), Destroyed(State(t))) ELSE kept)
      /\ live' = live \ NodesFreed(State(t))
      /\ UNCHANGED work

-----------------------------------------------------------------------------
(* Bucket counts chosen by the caller. *)
rehash(t, n) ==
  /\ Quiet
  /\ \/ Becomes(t, Rehashed(State(t), t, n)) /\ UNCHANGED live
     \/ RehashAbandoned(t, State(t))
  /\ UNCHANGED work

\* GetBucketCount has set mnNextResize before the rehash.
reserve(t, count) ==
  LET n == GetBucketCount(h[t].load, count)
      s == WithNext(State(t), Resize(h[t].load, n))
  IN  /\ Quiet
      /\ \/ Becomes(t, Rehashed(s, t, n)) /\ UNCHANGED live
         \/ RehashAbandoned(t, s)
         \/ "alloc" \in prog.throws /\ Becomes(t, s) /\ UNCHANGED live
      /\ UNCHANGED work

\* set_max_load_factor: a new policy, whose mnNextResize is 0.
set_max_load_factor(t, load) ==
  LET n == GetBucketCount(load, h[t].count)
      s == StateOf(Table(h[t].array, h[t].n, h[t].count, load, 0), mem)
  IN  /\ Quiet
      /\ \/ n <= h[t].n /\ Becomes(t, s) /\ UNCHANGED live
         \/ n > h[t].n /\ Becomes(t, Rehashed(s, t, n)) /\ UNCHANGED live
         \/ n > h[t].n /\ RehashAbandoned(t, s)
         \/ "alloc" \in prog.throws /\ n > h[t].n /\ Becomes(t, s) /\ UNCHANGED live
      /\ UNCHANGED work

-----------------------------------------------------------------------------
(* Whole containers.  A constructor is modelled with the destruction of what  *)
(* the table was before.  The fixed containers move and swap by copying.      *)
swap(t, u) ==
  /\ Quiet /\ ~Fixed
  /\ h' = [h EXCEPT ![t] = h[u], ![u] = h[t]]
  /\ UNCHANGED <<mem, live, work>>

MoveAssign(t, u) ==
  /\ Quiet /\ ~Fixed /\ t # u
  /\ h' = [h EXCEPT ![t] = h[u], ![u] = Cleared(State(t)).r]
  /\ mem' = Cleared(State(t)).m /\ live' = live \ NodesFreed(State(t))
  /\ UNCHANGED work

MoveConstruct(t, u) ==
  /\ Quiet /\ ~Fixed /\ t # u
  /\ h' = [h EXCEPT ![t] = h[u], ![u] = EmptyTableOf(h[u].load)]
  /\ mem' = Destroyed(State(t)) /\ live' = live \ NodesFreed(State(t))
  /\ UNCHANGED work

\* hashtable(const this_type&): chain by chain, in the same order.
CopyConstruct(t, u) ==
  LET free == Unused \cup NodesFreed(State(t))
      copies == {f \in [Holds(u) -> free] :
                   \A x, y \in DOMAIN f : KeyOf[f[x]] = KeyOf[x] /\ (f[x] = f[y] => x = y)}
      f == CHOOSE g \in copies : TRUE
      m == Destroyed(State(t))
      to == Placed(m, t, h[u].n)
      chain(c) == [j \in DOMAIN c |-> f[c[j]]]
  IN  /\ Quiet /\ ~Fixed /\ t # u /\ copies # {}
      /\ IF h[u].count = 0
         THEN Becomes(t, StateOf(EmptyTableOf(h[u].load), m))
         ELSE Becomes(t, StateOf(Moved(h[u], to, h[u].n),
                              [m EXCEPT ![to] = [i \in 1 .. h[u].n |-> chain(Chains(u)[i])]]))
      /\ live' = (live \ NodesFreed(State(t)))
                   \cup (IF h[u].count = 0 THEN {} ELSE {f[x] : x \in Holds(u)})
      /\ UNCHANGED work

\* operator=(initializer_list).
AssignList(t, keys) ==
  /\ Quiet /\ Enough(keys, Unused \cup NodesFreed(State(t)))
  /\ BeginRange(t, Cleared(State(t)), keys)
  /\ live' = live \ NodesFreed(State(t))

\* operator=(const this_type&): clear, then the range of the other's elements.
CopyAssign(t, u) ==
  /\ Quiet /\ t # u
  /\ Enough(KeySeq(u), Unused \cup NodesFreed(State(t)))
  /\ BeginRange(t, Cleared(State(t)), KeySeq(u))
  /\ live' = live \ NodesFreed(State(t))

\* hashtable(nBucketCount, ...), and for a fixed container its one constructor.
Construct(t, n) ==
  LET m == Destroyed(State(t))
      p == GetNextBucketCount(n)
      to == Placed(m, t, p)
  IN  /\ Quiet /\ ~Fixed
      /\ Becomes(t, IF n < 2 THEN StateOf(EmptyTable, m)
                    ELSE StateOf(Table(to, p, 0, InitialLoad, Resize(InitialLoad, p)),
                              [m EXCEPT ![to] = NullHeads(p)]))
      /\ live' = live \ NodesFreed(State(t))
      /\ UNCHANGED work

\* hashtable(first, last, nBucketCount, ...): its own way to the bucket count.
RangeConstruct(t, keys, n) ==
  LET m == Destroyed(State(t))
      c == IF n < 2 THEN GetBucketCount(InitialLoad, Len(keys)) ELSE n
      to == Placed(m, t, c)
  IN  /\ Quiet /\ ~Fixed
      /\ Enough(keys, Unused \cup NodesFreed(State(t)))
      /\ Becomes(t, StateOf(Table(to, c, 0, InitialLoad, IF n < 2 THEN Resize(InitialLoad, c) ELSE 0),
                         [m EXCEPT ![to] = NullHeads(c)]))
      /\ live' = live \ NodesFreed(State(t))
      /\ work' = IF keys = <<>> THEN Idle ELSE [table |-> t, keys |-> keys, ctor |-> TRUE]

-----------------------------------------------------------------------------
\* A call, or a turn of one, that forgets no node.
Call ==
  \/ InsertNext
  \/ \E t \in prog.tables :
       \/ \E k \in Keys : Insert(t, k) \/ InsertThrows(t, k) \/ DoErase(t, k)
       \/ \E keys \in prog.ranges : InsertRange(t, keys) \/ InsertRangeThrows(t, keys) \/ AssignList(t, keys)
       \/ \E keys \in prog.ranges, n \in {0} \cup prog.counts : RangeConstruct(t, keys, n)
       \/ \E i \in 1 .. Len(Elements(t)) : \E j \in i .. Len(Elements(t)) : Erase(t, i, j)
       \/ EraseIf(t, {k \in Keys : HashOf[k] % 2 = 0})
       \/ Clear(t)
       \/ \E free \in prog.clears : ClearBuckets(t, free)
       \/ \E n \in prog.counts : rehash(t, n) \/ reserve(t, n)
       \/ \E n \in {0} \cup prog.counts : Construct(t, n)
       \/ \E load \in prog.loads : set_max_load_factor(t, load)
       \/ \E u \in prog.tables : \/ swap(t, u) \/ MoveAssign(t, u) \/ MoveConstruct(t, u)
                                 \/ CopyConstruct(t, u) \/ CopyAssign(t, u)

Next ==
  /\ UNCHANGED prog
  /\ \/ Call /\ UNCHANGED lost
     \/ \E t \in prog.tables, k \in Keys : EmplaceThrows(t, k)
     \/ InsertNextThrows \/ RangeConstructThrows

Spec == Init /\ [][Next]_vars

-----------------------------------------------------------------------------
(* Iterators and searches.  An iterator is <<bucket, place in its chain>>, and *)
(* end() the sentinel after the last bucket.                                   *)
End(t) == <<h[t].n + 1, 0>>

\* increment_bucket: the first node of a later bucket.
NextBucket(t, i) ==
  LET later == {j \in i + 1 .. h[t].n : Chains(t)[j] # <<>>}
  IN  IF later = {} THEN End(t) ELSE <<Min(later), 1>>

\* increment
After(t, p) == IF p[2] < Len(Chains(t)[p[1]]) THEN <<p[1], p[2] + 1>> ELSE NextBucket(t, p[1])

begin(t) == IF h[t].count = 0 THEN End(t) ELSE NextBucket(t, 0)

\* The nodes from first up to last, as a loop visits them.
Visited(t, first, last) ==
  LET from[p \in Nat \X Nat] ==
        IF p = last \/ p = End(t) THEN <<>>
        ELSE <<Chains(t)[p[1]][p[2]]>> \o from[After(t, p)]
  IN  from[first]

\* find(k), find_as, and find_by_hash(k, c): the first of the bucket that has the key.
FindFirst(t, k) ==
  LET i == BucketIndex(k, h[t].n)
      equal == {j \in DOMAIN Chains(t)[i] : KeyOf[Chains(t)[i][j]] = k}
  IN  IF equal = {} THEN End(t) ELSE <<i, Min(equal)>>

\* find_by_hash(c), of a table that keeps the hash codes in its nodes.
FindByHash(t, c) ==
  LET i == (c % h[t].n) + 1
      equal == {j \in DOMAIN Chains(t)[i] : HashOf[KeyOf[Chains(t)[i][j]]] = c}
  IN  IF equal = {} THEN End(t) ELSE <<i, Min(equal)>>

\* find_range_by_hash: the whole bucket.
RangeByHash(t, c) ==
  LET i == (c % h[t].n) + 1
  IN  IF Chains(t)[i] = <<>> THEN <<End(t), End(t)>> ELSE <<<<i, 1>>, NextBucket(t, i)>>

DoCount(t, k) == Cardinality({j \in DOMAIN Bucket(t, k) : KeyOf[Bucket(t, k)[j]] = k})

\* From the first equal node to the first after it that differs.
DoEqualRange(t, k) ==
  LET first == FindFirst(t, k)
      c == Chains(t)[first[1]]
      others == {j \in first[2] + 1 .. Len(c) : KeyOf[c[j]] # k}
  IN  IF first = End(t) THEN <<first, first>>
      ELSE <<first, IF others = {} THEN NextBucket(t, first[1]) ELSE <<first[1], Min(others)>>>>

\* operator== of hash_set and hash_map, and of the multi variants, which compare
\* one range of equal keys after the other.
RangesAgree(t, u, first) ==
  LET agree[p \in Nat \X Nat] ==
        \/ p = End(t)
        \/ LET k == KeyOf[Chains(t)[p[1]][p[2]]]
               a == DoEqualRange(t, k)
               b == DoEqualRange(u, k)
           IN  /\ Len(Visited(t, a[1], a[2])) = Len(Visited(u, b[1], b[2]))
               /\ agree[a[2]]
  IN  agree[first]
FoundInOther(t, u) == \A x \in Holds(t) : FindFirst(u, KeyOf[x]) # End(u)
Equals(t, u) ==
  h[t].count = h[u].count /\ IF Unique THEN FoundInOther(t, u) ELSE RangesAgree(t, u, begin(t))

validate(t) ==
  /\ mem[EmptyArray] = <<<<>>>> /\ h[t].n # 0
  /\ IF h[t].array = EmptyArray THEN h[t].count = 0 /\ h[t].n = 1 ELSE h[t].n >= 2
  /\ Len(Visited(t, begin(t), End(t))) = h[t].count

\* What validate_iterator tells of an iterator: none, end, or valid.
validate_iterator(t, p) ==
  IF \E i \in 1 .. h[t].n : p[1] = i /\ p[2] \in DOMAIN Chains(t)[i] THEN "valid"
  ELSE IF p = End(t) THEN "end" ELSE "none"

-----------------------------------------------------------------------------
(* Properties. *)

\* The shared empty array is never written: it stands for every table without
\* buckets, of every thread (hashtable.cpp:24, EASTL_ASSERT in
\* hashtable.h:2229).
EmptyArrayUntouched ==
  /\ mem[EmptyArray] = <<<<>>>>
  /\ \A t \in Tables : (h[t].array = EmptyArray) = (h[t].n < 2)

\* mnElementCount nodes are in the chains, and as many chains as mnBucketCount.
CountExact == \A t \in Tables :
  h[t].count = Len(Elements(t)) /\ h[t].n = Len(Chains(t))

\* Every node is in the bucket where a search for its key begins.
InRightBucket == \A t \in Tables : \A i \in DOMAIN Chains(t) :
  \A x \in ToSet(Chains(t)[i]) : BucketIndex(KeyOf[x], h[t].n) = i

\* Equal keys are neighbours in their chain; unique tables have none.
EqualTogether == \A t \in Tables : \A i \in DOMAIN Chains(t) :
  LET c == Chains(t)[i]
  IN  \A j, m \in DOMAIN c : (j < m /\ KeyOf[c[j]] = KeyOf[c[m]]) =>
        ~Unique /\ \A o \in j .. m : KeyOf[c[o]] = KeyOf[c[j]]

\* Every search finds what is there: equal_range and count all nodes of the key,
\* and find the first of them; find_by_hash(c) a node of that hash code if there
\* is one, find_range_by_hash(c) all of them.
SearchesRight == \A t \in prog.tables :
  LET e == Elements(t)
  IN  \A k \in Keys :
        LET all == SelectSeq(e, LAMBDA x : KeyOf[x] = k)
            with == {x \in ToSet(e) : HashOf[KeyOf[x]] = HashOf[k]}
            range == DoEqualRange(t, k)
            bucket == RangeByHash(t, HashOf[k])
        IN  /\ Visited(t, range[1], range[2]) = all
            /\ DoCount(t, k) = Len(all)
            /\ FindFirst(t, k) = range[1]
            /\ validate_iterator(t, range[1]) = IF all = <<>> THEN "end" ELSE "valid"
            /\ with \subseteq ToSet(Visited(t, bucket[1], bucket[2]))
            /\ (FindByHash(t, HashOf[k]) = End(t)) = (with = {})

\* Two tables are equal when they have as many of each key, whatever the order
\* and the bucket counts in which they came to them.
EqualityRight == \A t, u \in prog.tables : t # u =>
  Equals(t, u) = \A k \in Keys : DoCount(t, k) = DoCount(u, k)

\* What TablesExact of MCHashtable says of these tables.
ChainsExact ==
  /\ TypeOK /\ CountExact /\ InRightBucket /\ EqualTogether
  /\ SearchesRight /\ EqualityRight
  /\ \A t \in prog.tables : validate(t)

\* Every allocated node is in one table and every array of the heap is one
\* table's, whatever was swapped and wherever an allocation, the hash or a
\* comparison threw (hashtable.h:1568-1573, 1622-1627, 2232-2243, 3103-3114).
\* The exception are the nodes that emplace, or an insertion into a multi
\* table, has made when the hash or the comparison throws (2262-2266,
\* 2299-2312, 2472): they are lost, and no table has them.
NothingLost ==
  /\ live = UNION {Holds(t) : t \in Tables} /\ lost \cap live = {}
  /\ \A a \in HeapArrays : mem[a] # <<>> => \E t \in Tables : h[t].array = a
  /\ \A t, u \in Tables : t # u =>
       /\ Holds(t) \cap Holds(u) = {}
       /\ h[t].array = h[u].array => h[t].array = EmptyArray

\* No table is beyond its maximum load factor, "the load factor beyond which we
\* rebuild the container with a new bucket count" (hashtable.h:491), as long as
\* the caller leaves the bucket count to the policy and nothing throws.
LeftToPolicy == prog.counts = {} /\ prog.throws = {}
LoadBounded == LeftToPolicy => \A t \in Tables :
  h[t].n > 1 => h[t].count <= Resize(h[t].load, h[t].n)
=============================================================================
