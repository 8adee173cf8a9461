# A formal model of EASTL

This directory holds TLA+ models of EASTL. TLC checks each on small instances;
for `SharedPtr`, `AtomicSharedPtr`, `FixedPool`, `SafePtr`, `LruCache`,
`Hashtable` and `RedBlackTree` TLAPS proves the results for every size. The models began with
what depends on the order in which things happen: reference counts shared
between threads, links that a container repairs while it is being used,
callbacks that come back into the object that called them. They now cover most
containers, the algorithms, and `eastl::atomic`.

Everything is translated from `include/EASTL` and `source`. Paths below are
relative to the repository, or to `include/EASTL`; module names are files of this directory.

Contents: [1 inventory](#1-the-system) · [2 modules](#2-modules-and-the-code-they-model) ·
[3 runs](#3-what-is-checked) · [4 proofs](#4-what-is-proved) ·
[5 disagreements](#5-where-code-and-documentation-disagree) ·
[6 limits](#6-what-is-not-modelled) · [7 plan](#7-plan)

## 1. The system

EASTL is a header library. It starts no threads and keeps no files; its state
lives in the objects a program creates. Threads meet only in `eastl::atomic`, in
`ref_count_sp`, whose counters are atomic, and in the `atomic_*` functions on
`shared_ptr`, which take a global mutex. Everything else is sequential, and what is
hard there is a long sequence of legal calls, an argument that lies within the
container, a callback, or an exception halfway.

### Components that are modelled

| Component | State | Operations | What makes it correct |
|---|---|---|---|
| `shared_ptr`, `weak_ptr`, `enable_shared_from_this` (`shared_ptr.h`, `weak_ptr.h`, `internal/enable_shared.h`) | per block `mRefCount`, `mWeakRefCount`; per variable a block pointer | construct, copy, move, reset, swap, `lock`, `shared_from_this`, destroy | both counts exact under all interleavings; a value dies once, when its last owner goes; the block is freed once, after everyone; `lock` never revives |
| `atomic_load/store/exchange/compare_exchange` (`shared_ptr.h`, `source/thread_support.cpp`) | shared `shared_ptr` variables, one mutex | the four functions, deleters that call them | no copy of a variable that is being assigned; compare and replace are one step; the mutex is always released |
| `atomic` (`atomic.h`, `internal/atomic/`) | a value; what the compiler and the processor have not yet executed | every member and free function, fences, for six builds | each operation is whole; the documented orders hold on what it compiles to |
| `fixed_pool`, `fixed_pool_with_overflow` (`internal/fixed_pool.h`, `source/fixed_pool.cpp`) | free list inside the free nodes, first fresh node, size and peak | `init`, `allocate`, `deallocate`, `reset`, `can_allocate` | nothing lost, nothing handed out twice, the count is right |
| `rbtree` behind `set`, `map`, `multiset`, `multimap` (`internal/red_black_tree.h`, `source/red_black_tree.cpp`) | nodes with parent, two kids, colour; anchor; size | searches, insert with and without hint, erase of elements, ranges, keys, by a test, clear, copy, move, swap, iterate | links agree both ways, red-black rules, order, equal keys in order of insertion |
| `list_map` (`bonus/list_map.h`) | the tree, and `mpNext`, `mpPrev` through its nodes | push at either end, erase, clear, searches, iterate | list and tree have the same elements, the list in the order of the pushes |
| `vector_set`, `vector_multiset`, `vector_map`, `vector_multimap` | a sorted sequence and a comparator with a state | the same as of a tree | the promise of the trees, with a comparator that goes where its elements go |
| `hashtable` behind `hash_map`, `hash_set`, … and `fixed_hash_*` (`internal/hashtable.h`, `source/hashtable.cpp`) | bucket array, chains, count, growth policy | insert, erase, find, clear, rehash, reserve, load factor, copy, move, swap | each element in its bucket, equal ones together, shared empty array never written, exceptions lose nothing more than they may |
| `intrusive_hashtable`, `_hash_map`, `_hash_set` (`internal/intrusive_hashtable.h`) | a fixed bucket array and links in the caller's nodes; iterators | insert, erase, remove, clear, swap, searches | the same container; iterators survive the insertion and erasure of other nodes |
| `vector`, `deque` (`vector.h`, `deque.h`) | elements in raw memory; for `deque` subarrays behind a pointer array | every insertion, erasure, assignment, change of capacity, move, swap | exactly the places between begin and end hold an element, also after an exception that the code undoes (section 5 has those it does not); arguments from within are inserted with the value they had |
| `list`, `slist`, `intrusive_list`, `intrusive_sdlist` | nodes, links, cached size | insertion, erasure, splice, merge, sort, reverse, unique, remove, swap | links agree both ways, sizes are right, nodes are never lost |
| `basic_string`, `string_view` (`string.h`, `string_view.h`) | a short layout whose size field is also the terminator, a heap layout | every change, with ranges of the string itself; searches and comparisons | contents, size and terminator after every change; searches right at every position |
| `ring_buffer` (`bonus/ring_buffer.h`) | a container that goes round, with an unused place | push, pop, insert, erase, capacity | the last `capacity` elements in order |
| `bitvector`, `bitset` | words of bits and, for `bitvector`, how many of the last are not used | every change and search | a sequence, or a set, of bits, unused bits never seen |
| `optional`, `variant`, `expected`, `any`, `function` | a tag and an object in a buffer or behind a pointer | assignment, emplace, reset, swap | the tag says what is there, also after an exception |
| `safe_ptr`, `safe_object` (`safe_ptr.h`) | per object the head of a list threaded through its pointers | construct, assign, reset, destroy; object death | the list is exactly the pointers to the object; death nulls exactly those |
| `linked_ptr`, `linked_array` (`linked_ptr.h`, `linked_array.h`) | per pointer a value, previous and next of a ring | construct, copy, assign, reset, `detach`, `force_delete`, destroy | the ring is exactly the owners; the object lives as long as one exists |
| `unique_ptr`, `scoped_ptr`, `shared_array`, `intrusive_ptr` | a pointer, with a deleter or a count | all of them, with destructors that come back | an object goes exactly with its last owner, to its own heap |
| `lru_cache` (`bonus/lru_cache.h`) | list of keys by recency, map with positions in it, capacity | insert, assign, get, touch, erase, resize, clear, create and delete callbacks | list and map agree, values deleted once, the victim is the oldest |
| heaps, `priority_queue`, sorts (`heap.h`, `priority_queue.h`, `sort.h`, `bonus/sort_extra.h`) | a sequence | every one | sorted, stable where said, a heap again after any change |
| algorithms, `numeric.h`, `memory.h`'s `align` | a range or two | the searches, removals, permutations, rotations, set operations, sums | each against its definition |

### How they interact

- The node containers (`rbtree`, `hashtable`, lists) take their memory one node
  at a time from an allocator; in the `fixed_` variants that is a
  `fixed_node_allocator`, a `fixed_pool` with an overflow allocator.
  `NodeAllocator` is the promise between the two: a block handed out
  is not in use. Each container model draws its nodes from a set of free ones, which is
  that promise.
- `vector`, `deque`, `string` and `ring_buffer` lay out their elements themselves with
  the helpers of `memory.h` and `algorithm.h`; `Elements` has those, and knows
  when a construction, an assignment or a destruction meets what it should not.
- `vector_set` and its relatives stand on `vector`, `ring_buffer` and `bitvector`
  on a container of their own, `priority_queue` on `heap.h`. The module below is
  checked by itself, and the one above uses what it promises, a sequence.
- `list_map` keeps its list beside the tree: both are in `RedBlackTree`,
  and a push is an insertion into the tree, its rebalancing turns, and the links.
- `hashtable` asks `prime_rehash_policy` how many buckets to take; both are in
  `Hashtable`.
- `weak_ptr` uses the second counter of the `ref_count_sp` that `shared_ptr`
  owns; `enable_shared_from_this` keeps a `weak_ptr` inside the value. All are
  in `SharedPtr`. That the counters' instructions are atomic and ordered is what
  `Atomic` shows of `eastl::atomic`.
- `lru_cache` calls the user's create callback in the middle of `get`, and the
  callback may use the cache; the delete callback runs in the middle of
  eviction and replacement.
- A destructor or a deleter is user code that runs inside a release: it may
  destroy further pointers (`LinkedPtr`, `OwningPtr`), or call
  an atomic function (`AtomicSharedPtr`).

### Hard behaviours

`PROJECT.json` lists each with its line and the properties about it. In short:

- *Threads*: addref, lock and release are two atomic operations each, with a
  window between them (`shared_ptr.h:157-202`); compare-exchange destroys the old value under
  the mutex (1322); a 128-bit loop starts from a value read in two halves
  (`arch_x86.h:114`); on ARM only the barrier behind a load keeps two reads in order
  (`arch_arm_load.h:121`).
- *Exceptions*: an element throws while an insertion moves the array
  (`vector.h:1960`); the growth decision of a hash table is recorded before the allocation
  it decides on (`hashtable.h:2215`); a hash throws in the middle of a rehash (3104);
  the error of an `expected` throws when its value is gone (`expected.h:333`).
- *Arguments from within*: the element or range inserted is about to move
  (`vector.h:1918`, `deque.h:1850`, `string.h:2233`).
- *Callbacks*: the create callback of a cache (`lru_cache.h:241`), the deleter of a pointer.
- *Long histories*: the free list lives in memory that its owners write
  (`fixed_pool.h:454`); the pointer array of a deque is recentred (`deque.h:790`);
  the erase loop of the tree works on a place that may have no node
  (`red_black_tree.cpp:401`); empty hash tables share one array (`hashtable.h:2229`).
- *Boundaries*: the terminator that is also the size (`string.h:2152`), a ring
  that shrinks while it wraps (`ring_buffer.h:1100`), splices next to the place
  they go to (`intrusive_list.h:936`), the last bits of a word (`bitset.h:1706`), the
  element that fills the gap in a heap (`heap.h:506`).

### Components that are not modelled

`stack` and `queue` forward; `array`, `span`, `tuple`, `pair` compute from their
arguments; the `unordered_` names and `string_map` rename or adapt; `tuple_vector`
is the growth of `vector` once per array; `fixed_map` and `fixed_set` are
`RedBlackTree` on `FixedPool` with no state of their own; `segmented_vector`
does not do what it says (section 5); `chrono`, `random`, iterators, type traits and
configuration have no protocol. `PROJECT.json` gives each its reason.

## 2. Modules and the code they model

The convention is the same throughout. A module named for a component has its
fields as variables and one action per operation, a second one where the
code calls out or another thread can come between. A module of promises says what the
callers rely on, with none of the mechanism, and the component is shown to
implement it by a refinement mapping. An `MC` module gives constants values, and
puts small components side by side, of which a behaviour uses one. A definition whose comment begins with
"Mutant:" stands just before the definition it distorts; it is a plausible bug, used to see that a
property notices.

| Promise | Component | Instance | Proofs |
|---|---|---|---|
| `Ownership` | `SharedPtr` | itself | `SharedPtrProofs` |
| – | `AtomicSharedPtr` | `MCAtomics` | `AtomicSharedPtrProofs` |
| the memory model in `Atomic` | `Atomic` | `MCAtomics` | – |
| `NodeAllocator` | `FixedPool` | `MCOwners` | `OwnersProofs` |
| `LeastRecentlyUsed` | `LruCache` | `MCOwners` | `OwnersProofs` |
| – | `SafePtr` | `MCOwners` | `OwnersProofs` |
| – | `LinkedPtr`, `OwningPtr` | `MCOwners` | – |
| `OrderedContainer` | `RedBlackTree`, which has `list_map` too, and `SortedVectors` | `MCSortedContainers` | `RedBlackTreeLinks`, `RedBlackTreeProofs`, about the trees |
| `UnorderedContainer` | `Hashtable` | `MCHashtable` | `HashtableProofs` |
| `UnorderedContainer` | `IntrusiveHashtable` | `MCHashtable` | – |
| `Sequence`, which `Calls` speaks to | `Vector`, `Deque`, `Holders` over `Elements`; `List`, `SList`, `IntrusiveList` over `Links`; `String`, `RingBuffer`, `BitVector` | `MCSequences` | – |
| reference definitions in the instance | `Algorithms`, `Sorting`, `Bitset`, `StringSearch` | `MCAlgorithms` | – |

### SharedPtr

Each atomic operation on `mRefCount` or `mWeakRefCount` is a step. Every way of
assigning to a `shared_ptr` builds a temporary, swaps, and destroys the
temporary; the temporary of thread `t` is `sp[t]`, so that the pointer variables are
`Shared \cup Threads`. `pc[t]` is where the thread stands: between the two
increments of `addref` (`addref_weak`), in the loop of `lock` with the count it
has loaded in `seen[t]`, before the swap, before the release, and at each stage of
destroying the value and freeing the block (`blk[t]`).

| Action | Code |
|---|---|
| `CopyAssign`, `AddrefWeak` | copy constructor and `addref`: `fetch_add` twice |
| `MoveAssign`, `Reset`, `Swap`, `SwapShared` | `operator=(&&)`, `reset`, the temporary's `swap` |
| `Make` | `alloc_internal`, `allocate_shared`, `do_enable_shared_from_this` |
| `LockLoad`, `LockTakes`, `LockRetries` | `ref_count_sp::lock`: load, `compare_exchange_weak` that succeeds or fails |
| `Release`, `FreeValue`, `WeakRelease`, `FreeRefCount` | `release` and `weak_release` |
| `WeakAssign`, `WeakAddref`, `WeakReset`, `WeakMove`, `SwapWeak` | `weak_ptr` |

`MayRead` and `MayWrite` are the caller's side of the contract in
`shared_ptr.h:16-26`: threads may share an object but not race on a variable. A
block freed can be handed out again, so a stale pointer would reach another
object's counters. Atomic operations are indivisible and in one global order here.
The code asks for less: its increments are relaxed, and its decrements are releases with
an acquire fence before the value or the block goes (`shared_ptr.h:154-196`). That this is enough for what the last
owner does is a litmus program of `Atomic`, the release sequence of `ref_count_sp`.

### AtomicSharedPtr

Here threads do race on the variables, so a copy is two steps: read the
pointers, then addref. A function is the sequence of its steps in `todo[t]`;
the branches of compare-exchange and a deleter put further steps in front of
what is left. `mutex` has an owner, a depth and its kind: EASTL's own recursive mutex, or the
`std::mutex` of builds with `EASTL_CPP11_MUTEX_ENABLED` (`thread_support.h:22-28, 97-98`), which a thread
that has it waits for in vain. `Recursive` is the set of the kinds that behaviours may begin with.
A block is given up once nobody holds it, and only the strong count is kept:
`SharedPtr` has the weak one.

### Atomic

Three layers. The first translates each call into what it compiles to: the
member or free function, the macro it selects by width and order, and for MSVC
on x86, x64, ARM32 and ARM64 and GCC on x64 and ARM64 the instructions,
compiler barriers and fences of `internal/atomic`. The second is a machine that runs
one such program per thread: `window[t]` has the instructions not yet executed, and
`MayPass` says which of them may be executed before those in front: what the compiler may
move, a load before a store on x86, anything that does not depend on it on ARM. The third is the
C++ memory model that `atomic.h` documents, as relations on the finished execution: happens-before,
reads-from, modification order, the total order of the sequentially consistent
operations. `NotImplemented` marks what does not compile; such a build has no
behaviour for the program. Assumed of the machine: one memory that all processors see alike, an
interlocked instruction is one step, the `__atomic` builtins of GCC do what they say, and a thread fence of
GCC on ARM is a full one.

### FixedPool

Nodes are `1 .. N` and 0 is the null pointer. `link[n]` is the first word of node
`n`; `Use` lets the owner of a node write anything there. `fresh` is
`mpNext`, the first node never handed out. `Overflow` holds the blocks of the overflow
allocator, which may refuse at any time. Counters are words modulo `Word`.

### RedBlackTree

A tree is named by its anchor, the node inside the container. Rotation, insertion and
erasure take a side as a parameter where the code has two mirrored branches.
`Insert`, `InsertHint` and `Erase` do everything up to the rebalancing loop; one
turn of the loop is one action (`InsertTurn`, `EraseTurn`) with `pc` holding the
loop's variables, so that the invariants also speak of the tree in the middle.
The loops that erase a range, equal keys or what fails a test keep their
iterators in `walk`, and erase one element per `WalkTurn`; `due` remembers what they have
still to reach. No other operation starts before a loop is done: the code is sequential.

The last part, `list_map`, adds the links of the list to the same nodes. `coming` is the node that
the tree has been given and the list has not: between the two the tree
rebalances, turn by turn. `line` is a history, the order of the pushes.

### SortedVectors

`flat[c]` is the sequence of the vector beneath, and `way[c]` the comparator,
which may be ascending or descending and is exchanged or copied as the code
does. Plain names are those of `vector_set`; `vector_multiset`, `vector_map` and `vector_multimap`
have names that begin with `Multi`, `Map` and `Multimap`. The definitions resemble each other because the
headers do; they differ in what a hint may do and in `operator[]`. Searches are the
`lower_bound` and `upper_bound` of `Algorithms`, which is where they are checked.
The order is all of the state here; construction of the elements is in `Vector`.

### Hashtable

Bucket arrays are memories of their own (`mem`), since all empty tables point
at `gpEmptyBucketArray`. A table is a record of its array, bucket count, element count,
load factor and next size to look at. Load factors are fractions. A call that
can be interrupted by an exception has an action for each place where that happens: when a node or
an array cannot be allocated, in the middle of a rehash, between the node and its place in a chain (`EmplaceThrows`), and
between two elements of a range (`InsertNextThrows`, and `RangeConstructThrows` of a constructor).
`work` holds the range insertion that is in progress. An assignment that is interrupted is a `Clear` and the insertion of a
range that is, and a copy constructor that is interrupted leaves no object, which is `Construct` of an empty one in its place.
The field `throws` of a program says which of the allocator and the hash function (with the comparison) may fail. `lost` has the nodes that
an exception leaves to nobody (section 5); `MaxLost`, a bound, is how many.
The searches walk the chains as the code does and are compared with the keys that are there.
An operation is a function of the state of one table, its fields and the memories (`StateOf`), so that
`Rehashed`, `Decided` and `Added` are put together as the code's calls are. A rehash deals the nodes of the old chains,
in the order of iteration, to the new ones (`Of`), each at the front.

### IntrusiveHashtable

`links` has the bucket array, the count and the nodes' `mpNext`; the entry behind the
last bucket is `Stop`, the pointer that ends every iteration. `cursor` is an
iterator the caller keeps while other nodes are inserted and erased, with the
elements it has yet to reach. A kept iterator has a node and a bucket pointer, and
after `swap` these belong to two tables: the cursor ends there, as the code gives no promise.

### Sequence and the modules under it

`Sequence` says what each call makes of the elements. A component tells it in `call` what was
asked for and what was returned (`Calls`), and its elements are mapped to `seq`.

- `Elements` is raw memory, in which each place holds a value, `Moved`, `Raw`
  or `NoMemory`, and a `fuse` that makes the n-th copy or allocation throw. A construction over
  an element, or a use of what is not there, sets `fault`. An operation of
  `Vector`, `Deque` or `Holders` is the sequence of such steps that the code
  makes, with its `catch` blocks, in one action: no other call can see the middle,
  and the exception shows what the middle was. In `Vector` the fuse of each call burns at any step that the code can undo
  (`AnyStep`, `EmplaceUndone`, `InsertUndone`, `ResizeUndone`, `AssignUndone`): all of an insertion of one element that grows, all of a
  range's, and of several copies all but the last move. Each of these limits is as far as `StorageExact` and `ImplementsSequence` hold; section 5 tells what
  happens one step further.
- `Vector` has a buffer and `mpEnd`; insertion chooses among the in-place,
  reallocating, one-element and many-element paths as the code does. `Deque` numbers
  its places through the pointer array, so that recentring it is a change of all the
  numbers.
- `Holders` has a tag and a memory for each holder; types that move or do not, and
  copies that throw, are members of its programs. It is the build that
  `CMakeLists.txt:94` makes, without the changes of `EA_DEPRECATIONS_FOR_2025_APRIL`.
- `Links` has the functions of `ListNodeBase` as assignments in their
  order, so that a splice of a node next to itself does what the code does. `List` and
  `SList` add the allocation and the cached size; `IntrusiveList` is both
  `intrusive_list` and `intrusive_sdlist`, whose back pointers lead to the pointer that leads to a node.
- `String` has the two layouts with each place of the buffer, and the allocation of every call but `append_sprintf`
  may throw: the state says what of the call is left behind (`Ends`); `RingBuffer` the
  places of its container and two positions; `BitVector` words of two bits.

### Algorithms, Sorting, Bitset, StringSearch

Functions of a sequence, written as the loops of the code with positions for
iterators. The limits below which a sort changes to another are constants, and
low in the instance. A quick sort is modelled with its pivot copied and with
its pivot a reference into the range. `tim_sort` reports the largest part of its buffer that it used.
`StringSearch` has sizes of four bits, so that `position + n` wraps as `size_t` does, and `Bitset`
of five (`SizeBits`), so that a size may be negative for the comparison of `operator<<=`.

### SafePtr, LinkedPtr, OwningPtr

The first two thread a list through the pointers. `SafePtr` has the singly linked list
with its head in the object; what a walk along it reaches (`Listed`) is the least set that has the
head and is closed under `mpNext`. And `LinkedPtr` the doubly linked ring of owners.
In `LinkedPtr` each object may hold a `linked_ptr`, so a reset can delete
a chain of objects; `Reset` and `Delete` are recursive as the destructors are. `OwningPtr` is the
four kinds without such a list; its objects may hold a pointer of the same kind and
have a destructor that resets one of the program's.

### LruCache

The list is a sequence of nodes with identities, because the map stores
positions (iterators): a position kept too long would name a node that was
freed and taken again. `getNew` enters the create callback, during which every
operation is enabled, of the key that is being created too, to `MaxDepth` calls; `Created` is the return from it, and
inserts only if the callback has not put that key there. `owed[v]` counts the values that the cache has taken and not yet handed to the
delete callback; a value that `insert` refuses stays the caller's.

### Programs

Several modules carry a variable `prog`, chosen at the start and
never changed, that says which containers, elements and operations a behaviour may use.
One run then covers several instances: one that is deep with one container, one
that is broad with two, and each shape. The instance modules use the same device to choose a
component: `which` in `MCOwners`, `kind` in `MCSortedContainers`, `prog.kind` in
`MCSequences`, `intrusive` in `MCHashtable`, and a program `Idle` in `MCAtomics`.

## 3. What is checked

Distinct states are in brackets. Between them the passing runs take every action
and every disjunct of the next-state relations.

**shared_ptr** (121 563, up to symmetry). Three threads, three `shared_ptr`s,
two `weak_ptr`s, two blocks whose values know themselves. Three threads are
enough for a copy, a lock and a last release to overlap on one block; two
blocks let one be reused while the other is being released.
`RefCountExact`, `WeakCountExact`: at every step each counter is the number of
parties entitled to it, including threads between two increments.
`NoUseAfterFree`: whoever reaches a block finds it there. `FreedByOne`: one
thread destroys, one thread frees, and nobody else refers to it then.
`ExpiredForGood`: no lock revives a value. `SharedFromThisSucceeds`.

**shared_ptr_live** (10 585). Two threads, without symmetry, because liveness is
not preserved by it. `NoLeak`: an abandoned block is freed. `ImplementsOwnership`:
the counted pointers, with their fairness, implement `Ownership` with its own.

**atomics** (239 138). Of the mutex: two threads, one cell, two objects, one of which has a
deleter that loads, with a mutex of either kind. `CountExact`, `NeverRevived` (no reference is taken to an
object whose last one is gone), `ReplacesCompared` (the value replaced is the one
compared), `LockReleased` (whoever has the mutex gives it up, through all deleters; of a `std::mutex` that holds up to the deleter that
waits for itself, which the run std_mutex shows). Of `eastl::atomic`: the
litmus programs (publishing by seven ways and looking by nine, release sequences, among
them the one of `ref_count_sp`, store buffering, independent reads, causality,
coherence) and each operation against others on its location, with 32, 64 and
128 bits, on every build. `OperationsWhole`: each takes effect once, as a whole.
`Coherent`: what happens before is never read, overwritten or written after.
`SequentiallyConsistent`: one order on which all threads agree. Two to four threads of one
to three calls are what the classic tests need; a value of four bits has two halves to tear.

**owners** (59 418, up to symmetry). Eight components, one at a time. A pool of three nodes and two overflow
blocks, which gives every order of a free list, including one returned in the
middle: `PoolExact` (the chain through the free nodes has each of them once, the count
is that of the blocks outstanding, `can_allocate` is right), `ImplementsAllocator`. Three
`linked_ptr`s and three objects that hold one each, so that chains and cycles of
two and three occur, and two roots of each of the other owners: `OwnedExactly`.
Three `safe_ptr`s and two objects: `EnlistedExactly`, `NulledWithItsObject`. Three
keys, two values, capacities 0 to 3, callbacks two deep, which is one key more
than a cache of two and a callback inside a callback: `ListMatchesMap`, `DeletedOnce`, `ImplementsLRU`.

**rbtree** (108 487). Every history of a set of up to nine elements; of two
trees on six nodes of three keys, as sets and as multisets; of a set and a multiset of
six that are erased from by ranges, keys and tests; of a `list_map` on five
nodes, two of which have one key; of two sorted vectors of each kind that
share five elements. Nine elements reach
every branch of the erase loop and more than one turn of it. `LinksExact`,
`Balanced` (in a loop only the rule that is being repaired is broken, at the
place the loop looks at), `LoopsClimb` (each turn comes nearer
to the root, so both loops end), `WalksExact` (iteration and every search find
what is there; a loop that erases reaches exactly the range it was given, through all rebalancing; the list of
a `list_map` is the order of its pushes), `ImplementsSorted` (all of them implement `OrderedContainer`, and the trees do nothing but steps of `TreeSpec`, which the proofs are about).

**hashtable** (84 258). One table, of unique or of equal keys, with collisions, caller-set
bucket counts and load factors, and a hash and a comparison that throw; two sets, and two
multisets whose hash throws, that are copied, moved and swapped; a set that grows under the policy;
two fixed tables that overflow to an allocator that may fail; two intrusive sets and two intrusive
multisets with a kept iterator. `TablesExact` (every chain, count and search, and the kept iterator),
`NothingLost` (every node is in one table, no array leaks, none is shared, and the node that an exception leaves to nobody is in no table), `LoadBounded`, `ImplementsContainer`. The primes
are the first ten of the code's table, more than six elements need.

**sequences** (22 356, by a view). Vectors of up to three elements, and five of one value, with and without a move
constructor, throwing at every step that is undone, and with arguments from within; deques of up to four elements in subarrays of two
behind at most eight pointers; lists of up to five nodes, four when there are two; strings of up to five characters with
a short capacity of three; ring buffers of capacity up to three; bit vectors of up to six bits in words of two; and the
five holders. `StorageExact`: every place between begin and end holds an element
and no other place does, no step was undefined, no terminator is missing.
`LinksExact`, `ImplementsSequence`. Each bound admits growth twice, both halves of a
middle insertion, and a call at a full and at an empty container. The view leaves
out the last call and which nodes a list is made of; neither changes what may follow, as
free nodes are alike.

**algorithms** (9 841). Every sequence of up to eight elements with three keys, each cut in two at
every place: a few more than any window the loops look through, with
equal elements that can be told apart. `SortsRight`: sorted, stable where said, and the
unchecked insertion sort never leaves its range. `HeapsRight`: a heap after every removal and change, and
queues give up their greatest first. `AlgorithmsRight`: each search, removal, permutation, rotation and set operation against a
definition by positions; strings up to six; midpoints of three bits, `align` in
an address space of four. `BitsRight`: sets of up to eight bits in words of two and of four, so of one, two and more words.

Four runs are expected to fail; see [5](#5-where-code-and-documentation-disagree).

### Fairness

`SharedPtr` and `AtomicSharedPtr` assume weak fairness of each thread's own next
step: a thread in the middle of a call is scheduled again. Nothing obliges a
program to make a call. `LockRetries` is a step as good as `LockTakes`, so a
spurious failure may recur for ever; no property asks `lock` to return. In
`AtomicSharedPtr` a thread waiting for the mutex is not fairly served either:
`LockReleased` asks only that the owner gets rid of it. `Ownership` asks for weak
fairness of `Destroy` and `Reclaim`, which `SharedPtr` provides. The other
modules state safety only; that the tree's loops end is the
action property `LoopsClimb`.

### What the caller is taken to do

`SharedPtr`: the contract above. `Atomic`: where two accesses to plain data race,
nothing is promised. `LinkedPtr`: an object's destructor destroys its
own members and nothing else. `OwningPtr`: a `unique_ptr` is moved to one whose deleter returns objects to
the same heap, and a `scoped_ptr` is not reset from the destructor of what it
owns (section 5). `LruCache`: the delete callback does not use the
cache, and nothing is inserted at capacity zero. `Hashtable`: a program that
sets the load factor or the bucket count by hand does so within what the loads
and counts of `prog` say; fixed tables are not rehashed by hand and are
always cleared together with their buckets. `IntrusiveHashtable`: a node is inserted when it is in no table, and
removed from the one it is in. `Sequence` modules: iterators are of the container and in order; calls that
section 5 tells are broken are not made. What happens beyond is told there.

## 4. What is proved

TLAPS checks these for any number of threads, pointers, blocks and nodes. The
theorems that matter most:

### SharedPtrProofs

From `SharedPtrAssumption`: the sets are disjoint, `NULL` is in none of them,
and pointers are finitely many. `RefCountExact` alone is not inductive: to know
that a release of the last owner leaves a block nobody reaches, one has to know
what every thread in the middle of a call has in hand. `IInv` adds

- `Shape`: what each of `sp`, `blk`, `dst`, `src` holds at each `pc`;
- `Exclusive`: the contract, while calls are in progress;
- `Sources`: the variable a call reads keeps its block between the two
  increments, which is what keeps the first one from reaching a freed block;
- `Unowned`, `Dying`, `Destroying`, `Freeing`: a block's counts agree with the
  stage of its life and with the thread that is ending it;
- `LastSteps`: no two threads are at the same last step of a block.

One lemma per action shows that it keeps `IInv`; the counting lemmas at the
front (`CountJoins`, `CountLeaves`, `CountHandsOver`, …) say how the two
cardinalities move when one holder changes.

| Theorem | Establishes |
|---|---|
| `TypeCorrect` | `TypeOK` |
| `CountsExact`, `WeakCountsExact` | `RefCountExact`, `WeakCountExact` |
| `MemorySafe` | `NoUseAfterFree` |
| `FreedOnce` | `FreedByOne` |
| `SharedFromThisOk` | `SharedFromThisSucceeds` |
| `NoResurrection` | `ExpiredForGood`, an action property |
| `Refinement` | `SafeSpec` implements `Ownership`'s safety part: an increment of a copy, the successful compare-exchange of a lock, a swap and the two last steps map to steps of `Ownership`, all else to stutters |

### OwnersProofs: FixedPool

From `FixedPoolAssumption`: at least one node, overflow blocks apart from the
buffer, and a counter wide enough for all of them. `PoolInv` is
`TypeOK /\ FreeListExact /\ CurrentExact`. `FreeListExact` is stated by the
existence of a function that enumerates the chain, so that the proof of
each action gives the new enumeration: without its first element for
`AllocateLink`, with one put in front for `Deallocate`, unchanged for `Use`,
since the owner's node is not in it.

| Theorem | Establishes |
|---|---|
| `PoolTypeCorrect` | `TypeOK` |
| `FreeListCorrect`, `CounterCorrect`, `CanAllocateCorrect` | `FreeListExact`, `CurrentExact`, `CanAllocateExact` |
| `PoolCorrect` | `PoolExact`, the three together |
| `PoolRefinement` | `Spec` implements `NodeAllocator` |

### AtomicSharedPtrProofs

From `AtomicAssumption`: finitely many blocks, and `NULL` is no block and no thread. What a thread holds is not in the state: it follows from what is left of its call. `IInv` is `TypeOK`,
`MutexFree`, and for each thread `Placed`: there are a place in one of the bodies (`Body`) and a place in a deleter
in front of it such that `todo[t]` is the rest from there. The place tells whether the thread owns the mutex and how
deep (`Depth`), which of its registers own something (`Used`), which were read and not yet counted (`BorrowedAt`), and what a branch
has found out. For each block `Counted` says that its count is the number of variables and of such registers that own it.
A step of a thread moves it to the next place; all other threads keep theirs, because only the owner of the mutex
reads or writes a variable. The mutex may be of either kind: a thread that waits for itself takes no further step.

| Theorem | Establishes |
|---|---|
| `TypeCorrect` | `TypeOK` |
| `CountsExact` | `CountExact` |
| `NotRevived` | `NeverRevived` |
| `ReplacesWhatItCompared` | `ReplacesCompared` |

### OwnersProofs: SafePtr

From the assumption that `NULL` is no pointer and no object. `EnlistedExactly` alone does not say that
unlinking leaves a list: a pointer whose predecessor is itself would be lost. `SafeInv` adds `Linear`: no pointer leads back to the head and no two lead
to the same. `Least` and `ItselfClosed` are what is needed of a walk as a least closed set, `SameWalk`
says that it depends on the links it follows only, and one lemma for each of putting in front and taking out
says what the new walk reaches.

| Theorem | Establishes |
|---|---|
| `ListsExact` | `EnlistedExactly` |
| `NullsItsPointers` | `NulledWithItsObject`, an action property |

### OwnersProofs: LruCache

From `CacheAssumption`: capacities and the depth of callbacks are natural numbers, and there are as many list
nodes as any capacity. `CacheInv` is `Sound` (the list has each key of the map once, at the node the map says, and no node
twice), `Owing` (what is owed of a value is how often the map has it), the capacity, and `Nested`: there are no more create callbacks
running than `MaxDepth`, and while one runs the capacity is not zero. The callback may do anything to the cache, the creation and insertion of its own key
included, so nothing else is known on return from it. The calls are put together from three parts, taking a key out, putting one
in front and cutting off the end, with a lemma each for `CacheInv` and for the order of use.

| Theorem | Establishes |
|---|---|
| `ListAndMapAgree` | `ListMatchesMap` |
| `ValuesDeletedOnce` | `DeletedOnce` |
| `EvictsTheOldest` | `CacheSpec` implements `LeastRecentlyUsed`; the order of the list is the order of use, and the steps of a callback are steps of the promise |

### HashtableProofs

From `HashtableAssumption`: finitely many nodes, tables and arrays, one array more than there are tables, hash values
that are natural numbers, a table of primes that begins with 2 and has one larger than a fixed buffer,
and positive load factors. The theorems hold for all programs that are `Careful`: the allocator throws for fixed containers only,
and these are neither rehashed by hand nor cleared without their buckets. Without the first, `EmptyArrayUntouched` is
false, which the run hashtable_throws_empty shows; without the second, section 5 tells what is lost. The hash function and the comparison may throw
in every program: in the middle of any rehash, when a node has been made, and between two elements of a range.

`IInv` has `Good`, of the tables, the arrays and the allocated nodes together, and `Working`, of the call under way. In `Good`, every table
is `Sized` (its array is the shared one exactly when it has no buckets; a fixed one has its own array, or a
larger one from the heap), `Chained` (each node in the bucket of its key, as many as the count says) and `Asked` (with no buckets, the
policy is asked before the first insertion: `next = 0`, which is what the exception in the
run breaks); no two tables have a node or an array of the heap in common, and no array of the heap is without its table.
That an insertion never writes to the shared array needs `Asked` and the arithmetic of the policy together.

Each operation takes a `Valid` state of one table, the fields and the memories with all other tables as they were, to another `Valid` state, and says which nodes
that holds: one lemma for each of `Rehashed`, `Decided`, `Grown`, `Added`, `Without`, `Cleared`, `Destroyed`. `Installs`
puts such a state back. `swap` and the moves permute the tables. One lemma per action gives `Kept`, which is
`IInv'` and a step of `UnorderedContainer` with `Holds` for its elements, so that the invariant and the refinement have one proof. The nodes that an
exception leaves to nobody are apart from all this: `Losses` says that they stay out of the allocated ones, and with `IInv` gives `NothingLost`.

`LoadBounded` needs a second invariant, `LInv`: each load factor is one that was set, and in programs that leave the bucket count to the policy
a table with buckets is within its load factor (`Bounded`), now and when it will next be looked at. It holds for programs that are also `Provided`: there is a prime
for all nodes at each factor, and a factor that is set is at most 1 or no less than the ones before. The policy rounds down the
quotient of elements and load factor, which loses nothing only then (section 5).

| Theorem | Establishes |
|---|---|
| `NothingIsLost` | `NothingLost` |
| `BucketsRight` | `InRightBucket`, a part of `TablesExact` |
| `SharedArrayUntouched` | `EmptyArrayUntouched`, of careful programs |
| `ImplementsContainer` | `Spec` implements `UnorderedContainer` |
| `TypeCorrect` | `TypeOK` |
| `LoadIsBounded` | `LoadBounded`, of programs that are `Careful` and `Provided` |

### RedBlackTreeLinks and RedBlackTreeProofs

From `TreeAssumption`: nodes and anchors are different, `NULL` is neither, nodes are finitely many and have
keys. The theorems are about `TreeSpec`, in which any number of trees share the nodes, and a step is
any call with any element for an argument, any hint, or a turn of a rebalancing loop. What the containers of the run do to their trees,
their loops over ranges, keys and tests and the lists beside them included, are steps of `TreeSpec`: TLC checks that
as a conjunct of `ImplementsSorted`.

`LinksExact` and `Balanced` are not inductive. The invariant `TreeInv` is that the trees are `Sound` for some values of
what the code does not have:

- `Shape`: each node has a position in its tree, and the subtree below it an interval of them, which a kid on one side fills
  up to the node's own. That says what `InOrder`, which follows links, returns, and the interval of a kid is smaller than
  its parent's, which is why every walk ends. `Arrives`, `RankFalls` and `SegmentSplits` get rid of the recursion once.
- `Even`: each node has a black height, which its two kids and its colour add up to; one place may be one short.
- `Calm`: no red node is below a red one, except where the loop in progress stands.
- `Fits`: that place, the one that is short, and the loop's variables agree: after an insertion only the node itself may
  be wrong, after an erasure its place is short, and the place is on a side of a node even when no node is at it.

What changes links has a lemma for what each link is afterwards, which gives the new positions, and another for the heights: linking a node in (`Attach`),
a rotation, which keeps every position, taking out a node with one kid or none, or with two, when the next element takes its place,
`clear`, `swap`, which renames the two anchors in all links (`Relabels`), and the copy of a tree. Each turn of a loop moves the exception of `Even` or
`Calm` up two levels or one, or removes it: the cases of the code are lemmas of their own (`SiblingBlack`, `EraseBorrows`, `OuterRed`, `EraseRotates`,
`Straightened`). The two sides are proved together, since the model has them as a parameter.

| Theorem | Establishes |
|---|---|
| `TreesSound` | `TreeInv`, the invariant |
| `TreesTypeCorrect` | `TypeOK` |
| `TreesLinksExact` | `LinksExact`, at every turn of a loop |
| `TreesAreBalanced` | `Balanced`: at every turn only the rule that is being repaired is broken, and only where the loop stands |

### Only model-checked

`NoLeak`, `LockReleased` and the fairness half of `ImplementsOwnership` are
liveness, which needs `ENABLED`. `Links`, `Algorithms`, `Sorting`, `LinkedPtr` and `OwningPtr` have
recursive operators, which the provers cannot use, and so what is built on them stays with TLC, and `Atomic` has
the bit operations. The library's induction theorems take a predicate as a parameter, which the provers
cannot instantiate; `LeastOf` states induction as a least element of a set of numbers, which they can
use, and with it `HashtableProofs` shows what `FlattenSeq` returns, and `RedBlackTreeLinks` what a walk along links reaches. `TablesExact` and `ImplementsContainer` of
`MCHashtable` speak of the intrusive tables and of the searches as well, so that they are checked by TLC, and the theorems are about
the parts that `Hashtable` has. Of the trees, that a loop climbs (`LoopsClimb`), what searches and iterators return (`WalksExact`) and the order of the keys
(`ImplementsSorted`) stay with TLC. The sequences, the algorithms and the intrusive tables are without proofs.

## 5. Where code and documentation disagree

Four disagreements have a run, which TLC finishes with a counterexample.

1. **hashtable_throws_empty** (`hashtable.h:2215, 2704, 3079`). The policy's
   `mnNextResize` is raised before the node or the array is allocated. If that
   throws on an empty table, the next insertion believes no rehash is
   due and links its node into the array shared by all empty tables, which
   the code asserts is never modified (2229, 3123).
2. **search_n_past_last** (`algorithm.h:3085`). With random access iterators,
   `search_n` reduces what is left by less than it advances, and so reads, and
   finds, elements behind `last`; 3108 says it returns `last` then.
3. **string_capacity** (`string.h:1410`). A heap string that has become short, asked for
   a capacity between its size and that of the short layout, gets the capacity
   as its size; 605 says the size changes only when the capacity is less.
4. **std_mutex** (`shared_ptr.h:1322, 1326`). `atomic_compare_exchange_strong` assigns under the mutex, and so destroys the
   old value there; `atomic_store` and `atomic_exchange` take care to destroy
   outside. With `std::mutex` (`thread_support.h:22-28, 97-98`) a deleter that loads any `shared_ptr` atomically
   waits for itself, where 1311-1314 says that the function assigns and returns. `LockReleased` allows for such a thread.

Others were met while reading and modelling. The models leave out the calls
that lead to them, and they are told here without a run.

*Smart pointers and caches*

- `shared_ptr.h:898`: `equivalent_ownership` compares blocks only, so that
  compare-exchange succeeds on an alias; line 1311 asks for equal pointers too.
- `shared_ptr.h:357-361` forbids two threads to use separate `shared_ptr`s that own
  the same pointer; lines 16-26 allow it. The model follows the latter, and the code,
  whose counters are atomic.
- `linked_ptr.h:151`: `operator=` deletes what it owned alone before it links to
  its argument. In `p = p->next` the argument goes with it and `p` is left with a deleted object (163-164).
- `safe_ptr.h:320`: a pointer that was reset keeps its `mpNext`, so `unique()`
  may be false for an empty one, against line 68. Line 42 says
  `has_unique_reference` is true for "at most one reference"; with none, 335
  returns false. A `safe_object` can be copied, and the compiler's copy takes
  the list head along (56, 98-100); the model has no copied objects.
- `unique_ptr.h:44-47` says that deletion uses the heap the object came from; move
  assignment (170-175) resets first and then takes the other's deleter, which is
  right only if the resets are alike.
- `scoped_ptr.h:109-117`: the deleter runs while `mpValue` still has the old value, and
  a destructor that resets the same pointer deletes twice. `shared_array.h:130-147`: the comment says
  the array is deleted when its count cannot be allocated; it leaks.
- `bonus/lru_cache.h:155`: `insert` and `emplace` of a key that is there do not
  touch it; line 68 says all accesses do. At 149, an allocation of the map that throws leaves a
  key in the list alone; at 418 a cache of capacity zero evicts from an empty list. When a create callback has cached the key that it creates,
  the `insert` of `get` (241) returns false (144-156), which `get` does not look at: the value of the callback goes without the delete
  callback. The model takes that step (`Created`) and counts such a value as never taken.

*Hash tables and pools*

- `hashtable.h:2262-2266, 2299-2312, 2472`: `emplace`, and insertion into a multi table, make the node before they hash or compare its key, outside any
  `try`: if that throws, the node and its element are lost, while the code catches an exception of the rehash that follows
  (2232-2243). `NothingLost` excepts these nodes, which are in `lost`.
- `hashtable.h:3069`: `rehash(n)` leaves the threshold of the old count in place,
  so that a table can exceed its load factor afterwards (491 says otherwise);
  `LoadBounded` is checked for programs that do not do this.
- `hashtable.cpp:132`: `GetBucketCount` rounds down before it looks for a prime;
  the comment at 127 asks for enough buckets. Five elements under a load factor of 4 that is then set
  to 2 stay in two buckets. `LoadIsBounded` is proved for programs that do not lower a factor
  above 1 so (`Provided`).
- `fixed_pool.h:1052`: a fixed hash table that rehashes within its own buffer is
  handed the array it is using, and loses its elements when that is cleared;
  `clear(false)` of one that has overflowed returns to its own array and keeps the
  bucket count of the large one (`fixed_hash_map.h:501`); `fixed_pool.h:1056-1060` frees overflow arrays without counting.
- `fixed_pool.h:634, 640, 660, 711`: constructors of `fixed_node_allocator` pass
  the size of the nodes where `reset` passes that of the buffer, so that a
  misaligned buffer yields one node less at first than after a reset.
- `intrusive_hashtable.h:1023-1028`: the global `swap` takes constant references and
  cannot compile. `operator==` compares in the order of iteration, so equal
  multisets filled in other orders are unequal.
- `red_black_tree.h:2154-2289`: when the constructor of a value throws, the handlers
  call `DoFreeNode` (2146), which destroys that value; lists and hash tables only
  free the memory. At 1406, `emplace` makes the node before it searches, and a comparison that throws leaks it.

*Sequences*

- `vector.h:1761, 1837`: insertion of several copies of an element of the vector itself
  that grows reads it after it has moved; the tests insert from within only as ranges (`TestVector.cpp:979`). `push_back` moves `mpEnd`
  before it constructs (1076, 1086, 1097), so that a constructor that throws leaves
  one element too many, against `doc/Maintenance.md:135`, which asks for a valid state.
- `vector.h:1761-1770`: the handler of an insertion of n copies that grows does not know of them when the elements
  behind throw in their turn (1763): the n copies are never destroyed. That of a range (1689-1695) does. `resize` upwards fills its new buffer behind the
  `try` block (1849), and `DoGrow`, `set_capacity`, `DoRealloc` and `DoAssign` have none: the buffer leaks. Where elements have moved away before a copy throws,
  the handlers leave moved-from elements. In place, `DoInsertValue` and `DoInsertValues` (1731-1741) leave elements behind
  `mpEnd`, or a destroyed place before it, and assignments are done by half.
- `deque.h:1848, 1885`: `emplace_front` and `emplace_back` move the iterator before
  they construct. An insertion in the middle that throws leaks; `erase(it, it)` (2014) and
  the insertion of no copies (2629) move elements onto themselves.
- `list.h:1546-1563`: `splice` of a range of the list itself to the end of that range
  loses the range (386 and 493 allow it). `slist.h:1388-1396`: `splice_after(position, x, i)`
  moves all that follows `i` and counts one, and `validate()` (1732) fails then.
  `list.h:1428`, `slist.h:1225`, `vector.h:2126`: `remove` with an element of the container compares with what it has destroyed.
- `bonus/intrusive_sdlist.h:533-546`: `swap` of lists with nodes writes the back
  pointers the wrong way round; the model swaps empty lists. `pop_front` of the
  only element (325), `insert` at `end()` (486) and `erase` of the last (499) write through a null pointer,
  though 133, 188 and 189 allow them; `reverse` (134) has no body; `operator=` (353) does not clear the
  list as 166 says. All functions of `intrusive_slist.h` (221) are still to do.
- `bonus/ring_buffer.h:1318-1338`: `insert` at the end of a full buffer shifts every element and
  loses the last; 163 says insertion works anywhere, and `TestRingBuffer.cpp:276-327` looks at sizes only.
  At 1423, erasing a range of reverse iterators erases the range one place before. The same line is in `string.h:2390`,
  `intrusive_list.h:898`, `set.h:484` and `686`, `red_black_tree.h:1863`,
  `vector_set.h:668`, `vector_multiset.h:622`, `vector_map.h:738`, `vector_multimap.h:703`;
  `vector.h:1366`, `deque.h:2068` and `bitvector.h:1333` are right. The models have no range where the line is wrong.
- `bitvector.h:855-862`: `set_capacity` to fewer words leaves the count of unused
  bits, so that a size of 70 becomes 6; `TestBitVector.cpp:445-447` looks at the capacity only.
  `resize(n)` and `push_back()` show what the unused bits were. After a move, `bitvector`
  has no words but a count of unused bits.
- `bitset.h:1361-1389`: of two words, a shift by exactly their width shifts by
  the width of a word, though the comments (1359, 1378) say it is avoided. The guard of
  `operator<<=` (1707) compares signed: a size of half the range or more passes it, and the
  words are shifted by more than their width; `operator>>=` (1725) compares unsigned.
- `string.h:2293`: insertion of a range of the string itself may shrink the heap buffer
  to fewer characters than the short layout has, and `set_capacity` (1401-1420) copies past it then.
  `string.h:2570`: the growth asked for by an overlapping `replace` wraps when the
  capacity is enough, which throws `length_error` if that option is on (3298).
  `append_sprintf` leaves the string resized when the format fails (1812-1847), and when its allocation
  at 1821 throws, a heap string whose terminating 0 the first attempt has overwritten (1811): the model has no such throw.
- `segmented_vector.h`: `PushBack(n, v)` adds segments without linking them;
  popping the last element follows a null pointer; `erase_unsorted` of the last
  element returns an iterator to what was destroyed.

*Holders of one object*

- The constructors set the tag before they construct (`optional.h:155-185`,
  `variant.h:543-580`, `expected.h:241-265, 369-527`), and when that throws the destructor of the base
  destroys what is not there. `variant` uses a destroyed object when it is assigned to or swapped with
  itself (582-672, 945-1006), in the default build.
- `internal/function_detail.h:550-556`: assignment of a functor destroys the old one first and
  keeps its manager when the new one throws; `any.h:82-88` leaks when the construction throws.

*Algorithms*

- `algorithm.h:2016-2080`: `lexicographical_compare` of characters says that an
  empty range is not less than any other; the comment (2106) says a prefix is less.
- `algorithm.h:1708`: `find_last_not_of` with a predicate inverts its last test (compare 1685).
- `algorithm.h:2996`: `search` with a predicate advances past the end when the pattern is longer.
- `sort.h:1659`: `radix_sort` of an empty range reads its first element.
- `priority_queue.h:325-397`: a comparison that throws empties the whole queue;
  `change` and `remove` have no handler.
- `memory.h`'s `align` wraps to address zero for a buffer that ends at the top of memory.
- `internal/char_traits.h:365`: the comment says the end, the code returns the
  beginning, for an empty pattern; no caller.

*Atomics*

- `arch_arm_load.h:60` defines `EASTL_ARCH_ATOMIC_LOAD_64` for ARM32 under MSVC by a
  name that does not exist, so that 64-bit loads do not compile there.
- `arch_x86_load.h:72-78`: compilers before VS 2019 read 64 bits on 32-bit x86 as a plain volatile; the models are of the later ones.

## 6. What is not modelled

- *Smart pointers*: casts, comparison, hashing and streaming, which only read; weak
  memory orders in `SharedPtr` (`Atomic` has them); allocation failure and
  re-entering delete callbacks in `LruCache`; copies of a `safe_object`.
- *Atomics*: `load_cond`, `signal_fence`, `compiler_barrier`, `cpu_pause`, which promise nothing
  between threads, and `is_lock_free`; memory that different processors see in different orders.
- *Trees and tables*: exceptions of a comparison in trees, and of an element's copy in both; node
  extraction and heterogeneous lookup; nodes that the caller allocates; a
  tree's comparator with a state (the sorted vectors have one); the byte layout
  and alignment of a fixed pool. The sorted vectors' `push_back_unsorted` leaves the order to the caller;
  their range insertion is one insertion after the other.
- *Sequences*: unequal allocators, `reset_lose_memory`, the overflow of
  `fixed_vector` and `fixed_string`; exceptions of a copy in lists; the
  conversions between encodings; constructors of a new holder that throw, `visit`, `expected<void, E>`.
- *Algorithms*: what visits each element once, floating-point numbers, comparisons that throw.

Element values are abstracted to keys and identities throughout.

`PROJECT.json` lists forty hazards. These are real as well and not among them, either because
a property of a neighbouring one would notice, or because they are beyond what the
callers are taken to do: `shared_ptr.h:194`, `red_black_tree.cpp:77`, `fixed_pool.h:472`, `list.h:1622`,
`vector_multiset.h:419`, `deque.h:1895`, `sort.h:783`, `compiler_msvc_sub_fetch.h:18` (covered);
`red_black_tree.h:1406`, `hashtable.h:3069`, `fixed_hash_map.h:501`, `linked_ptr.h:204`,
`lru_cache.h:149`, `338`, `402`, `418`, `unique_ptr.h:172`, `scoped_ptr.h:114` (told in section 5).

## 7. Plan

The modules were written in this order, the first by what threads share:
`Ownership`, `SharedPtr` and its proofs; `NodeAllocator`, `FixedPool` and its
proofs; `OrderedContainer`, `RedBlackTree`; `UnorderedContainer`, `Hashtable`;
`AtomicSharedPtr`, `SafePtr`, `LinkedPtr`, `LruCache`; `Sequence` with
`Vector`, `Deque` and the lists; the algorithms, sorts and bit sets; `String`; `Holders`; `RingBuffer`,
`BitVector`; `SortedVectors`; `OwningPtr`; `Atomic`; `list_map`, `IntrusiveHashtable`; then the proofs of
`AtomicSharedPtr`, `SafePtr`, `LruCache`, `Hashtable` and `RedBlackTree`.

What is left to model: `fixed_vector` and `fixed_string` over an overflow allocator, unequal allocators in
the sequences, exceptions of comparisons in trees and heaps, `expected<void, E>`.

Runs are to stay at a few nodes more than the smallest instance where each
branch is taken twice.

Proofs that would come next: in `RedBlackTree` that keys are in order along the positions of `Shape`, and with it the refinement of
`OrderedContainer` and the searches; in `LinkedPtr` the ring, with the walk as a least closed set as in `SafePtr`, once the
deletions of a chain are no longer recursive operators; in `IntrusiveHashtable` that
`cursor` stays on an element; in `Hashtable` that equal keys are neighbours in their chain, and with it
that the searches are right; `RingBuffer`'s refinement of a bounded sequence.
