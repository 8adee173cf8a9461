---------------------------- MODULE OwnersProofs ----------------------------
(* Proofs about what owns memory or values in one thread: the fixed pool,     *)
(* safe_ptr and lru_cache, each for every value of its constants.  The three  *)
(* are independent, and so are their invariants: PoolInv, SafeInv, CacheInv.  *)
EXTENDS FixedPool, SafePtr, LruCache, FiniteSetTheorems, SequenceTheorems, TLAPS

-----------------------------------------------------------------------------
(* The fixed pool: for a pool of any size with any overflow allocator, the    *)
(* free list threaded through the free nodes is exact, so that no block is    *)
(* handed out twice.                                                          *)

PoolInv == TypeOK /\ FreeListExact /\ CurrentExact

\* Sets of blocks are finite and fit the counter.
LEMMA BlocksFit ==
  ASSUME NEW S, S \subseteq Nodes \cup Overflow
  PROVE  IsFiniteSet(S) /\ Cardinality(S) \in Nat /\ Cardinality(S) < Word
<1>1. IsFiniteSet(Nodes) /\ Cardinality(Nodes) = N
  BY FixedPoolAssumption, FS_Interval DEF Nodes
<1>2. IsFiniteSet(Nodes \cup Overflow) /\ Nodes \cap Overflow = {}
  <2>1. Nodes \subseteq 0 .. N + 1
    BY FixedPoolAssumption DEF Nodes
  <2> QED
    BY <1>1, <2>1, FixedPoolAssumption, FS_Union
<1>3. Cardinality(Nodes \cup Overflow)
        = Cardinality(Nodes) + Cardinality(Overflow) - Cardinality(Nodes \cap Overflow)
  BY <1>1, FixedPoolAssumption, FS_Union
<1>4. Cardinality(Nodes \cap Overflow) = 0
  BY <1>2, FS_EmptySet
<1>5. Cardinality(Overflow) \in Nat
  BY FixedPoolAssumption, FS_CardinalityType
<1>6. IsFiniteSet(S) /\ Cardinality(S) <= Cardinality(Nodes \cup Overflow)
  BY <1>2, FS_Subset
<1>7. Cardinality(S) \in Nat
  BY <1>6, FS_CardinalityType
<1> QED
  BY <1>1, <1>3, <1>4, <1>5, <1>6, <1>7, FixedPoolAssumption

\* A block that was free and is handed out counts one more.
LEMMA CountsUp ==
  ASSUME TypeOK, CurrentExact, NEW p \in Nodes \cup Overflow, p \notin out, out' = out \cup {p}, CountUp
  PROVE  /\ CurrentExact' /\ current' \in 0 .. Word - 1 /\ peak' \in 0 .. Word - 1
         /\ current' = current + 1
<1>1. Cardinality(out') = Cardinality(out) + 1 /\ Cardinality(out) \in Nat
  BY BlocksFit, FS_AddElement DEF TypeOK
<1>2. Cardinality(out') < Word
  BY BlocksFit DEF TypeOK
<1>3. current + 1 \in 0 .. Word - 1
  BY <1>1, <1>2, FixedPoolAssumption DEF CurrentExact
<1>4. current' = current + 1
  BY <1>3, FixedPoolAssumption DEF CountUp
<1> QED
  BY <1>1, <1>3, <1>4 DEF CurrentExact, CountUp, TypeOK

\* A block that is given back counts one less, never below zero.
LEMMA CountsDown ==
  ASSUME TypeOK, CurrentExact, NEW p \in out, out' = out \ {p}, CountDown
  PROVE  /\ CurrentExact' /\ current' \in 0 .. Word - 1 /\ peak' \in 0 .. Word - 1
         /\ current' = current - 1
<1>1. Cardinality(out') = Cardinality(out) - 1 /\ Cardinality(out) \in Nat /\ Cardinality(out') \in Nat
  <2>1. Cardinality(out') = Cardinality(out) - 1
    BY BlocksFit, FS_RemoveElement DEF TypeOK
  <2>2. Cardinality(out) \in Nat /\ Cardinality(out') \in Nat
    BY BlocksFit DEF TypeOK
  <2> QED
    BY <2>1, <2>2
<1>2. current - 1 \in 0 .. Word - 1
  BY <1>1, FixedPoolAssumption DEF CurrentExact, TypeOK
<1>3. current' = current - 1
  BY <1>2, FixedPoolAssumption DEF CountDown
<1> QED
  BY <1>1, <1>2, <1>3 DEF CurrentExact, CountDown, TypeOK

\* The first free node, when there is one, was given back and is not in use.
LEMMA HeadFree ==
  ASSUME TypeOK, FreeListExact, head # 0
  PROVE  head \in Nodes /\ head \notin out /\ head < fresh
<1>1. PICK k \in 0 .. N : \E f \in [1 .. k -> Nodes] : Chain(k, f)
  BY DEF FreeListExact
<1>2. PICK f \in [1 .. k -> Nodes] : Chain(k, f)
  BY <1>1
<1>3. k # 0 /\ 1 \in 1 .. k /\ head = f[1]
  BY <1>2 DEF Chain
<1>4. f[1] \in Nodes
  BY <1>3
<1> QED
  BY <1>2, <1>3, <1>4 DEF Chain

\* A node never handed out is not in use.
LEMMA FreshFree ==
  ASSUME TypeOK, FreeListExact, fresh # N + 1
  PROVE  fresh \in Nodes /\ fresh \notin out
BY FixedPoolAssumption DEF TypeOK, FreeListExact, Nodes

\* The chain loses its first node when that is handed out.
LEMMA AllocateLinkKeeps == PoolInv /\ AllocateLink => PoolInv'
<1> SUFFICES ASSUME PoolInv, AllocateLink PROVE PoolInv'
  OBVIOUS
<1> USE DEF PoolInv
<1>1. head \in Nodes /\ head \notin out /\ head < fresh
  BY HeadFree DEF AllocateLink
<1>2. CurrentExact' /\ current' \in 0 .. Word - 1 /\ peak' \in 0 .. Word - 1
  BY <1>1, CountsUp DEF AllocateLink
<1>3. TypeOK'
  BY <1>1, <1>2 DEF AllocateLink, TypeOK
<1>4. FreeListExact'
  <2>1. PICK k \in 0 .. N : \E f \in [1 .. k -> Nodes] : Chain(k, f)
    BY DEF FreeListExact
  <2>2. PICK f \in [1 .. k -> Nodes] : Chain(k, f)
    BY <2>1
  <2>3. k >= 1 /\ head = f[1]
    BY <2>2, FixedPoolAssumption DEF Chain, AllocateLink
  <2> DEFINE g == [i \in 1 .. k - 1 |-> f[i + 1]]
  <2>4. k - 1 \in 0 .. N /\ g \in [1 .. k - 1 -> Nodes]
    BY <2>3, FixedPoolAssumption
  <2>5. head' = IF k - 1 = 0 THEN 0 ELSE g[1]
    BY <2>2, <2>3, FixedPoolAssumption DEF Chain, AllocateLink
  <2>6. \A i \in 1 .. k - 1 : link'[g[i]] = IF i = k - 1 THEN 0 ELSE g[i + 1]
    BY <2>2, <2>3, FixedPoolAssumption DEF Chain, AllocateLink
  <2>7. \A i, j \in 1 .. k - 1 : g[i] = g[j] => i = j
    BY <2>2, <2>3, FixedPoolAssumption DEF Chain
  <2>8. ASSUME NEW p \in Nodes PROVE p < fresh' /\ p \notin out' <=> \E i \in 1 .. k - 1 : g[i] = p
    <3>1. ASSUME p < fresh', p \notin out' PROVE \E i \in 1 .. k - 1 : g[i] = p
      <4>1. PICK i \in 1 .. k : f[i] = p
        BY <2>2, <3>1 DEF Chain, AllocateLink
      <4>2. i - 1 \in 1 .. k - 1 /\ g[i - 1] = p
        BY <2>3, <3>1, <4>1, FixedPoolAssumption DEF AllocateLink
      <4> QED
        BY <4>2
    <3>2. ASSUME NEW i \in 1 .. k - 1, g[i] = p PROVE p < fresh' /\ p \notin out'
      <4>1. i + 1 \in 1 .. k /\ f[i + 1] = p /\ i + 1 # 1 /\ 1 \in 1 .. k
        BY <2>3, <3>2, FixedPoolAssumption
      <4>2. p # head
        BY <2>2, <2>3, <4>1 DEF Chain
      <4> QED
        BY <2>2, <4>1, <4>2 DEF Chain, AllocateLink
    <3> QED
      BY <3>1, <3>2
  <2>9. Chain(k - 1, g)'
    BY <2>5, <2>6, <2>7, <2>8, SMTT(30), ZenonT(30) DEF Chain
  <2>10. (out \cap Nodes \subseteq 1 .. fresh - 1)'
    BY <1>1, FixedPoolAssumption DEF FreeListExact, AllocateLink, TypeOK, Nodes
  <2> HIDE DEF g
  <2> QED
    BY <2>4, <2>9, <2>10 DEF FreeListExact
<1> QED
  BY <1>2, <1>3, <1>4

\* The rest of the buffer loses its first node when that is handed out.
LEMMA AllocateFreshKeeps == PoolInv /\ AllocateFresh => PoolInv'
<1> SUFFICES ASSUME PoolInv, AllocateFresh PROVE PoolInv'
  OBVIOUS
<1> USE DEF PoolInv
<1>1. fresh \in Nodes /\ fresh \notin out
  BY FreshFree DEF AllocateFresh
<1>2. CurrentExact' /\ current' \in 0 .. Word - 1 /\ peak' \in 0 .. Word - 1
  BY <1>1, CountsUp DEF AllocateFresh
<1>3. TypeOK'
  BY <1>1, <1>2, FixedPoolAssumption DEF AllocateFresh, TypeOK, Nodes
<1>4. FreeListExact'
  <2>1. PICK k \in 0 .. N : \E f \in [1 .. k -> Nodes] : Chain(k, f)
    BY DEF FreeListExact
  <2>2. PICK f \in [1 .. k -> Nodes] : Chain(k, f)
    BY <2>1
  <2>3. Chain(k, f)'
    BY <1>1, <2>2, FixedPoolAssumption DEF Chain, AllocateFresh, TypeOK, Nodes
  <2>4. (out \cap Nodes \subseteq 1 .. fresh - 1)'
    BY <1>1, FixedPoolAssumption DEF FreeListExact, AllocateFresh, TypeOK, Nodes
  <2> QED
    BY <2>3, <2>4 DEF FreeListExact
<1> QED
  BY <1>2, <1>3, <1>4

\* The overflow allocator's blocks are none of the buffer's.
LEMMA AllocateOverflowKeeps ==
  ASSUME PoolInv, NEW p \in Overflow, AllocateOverflow(p)
  PROVE  PoolInv'
<1> USE DEF PoolInv
<1>1. p \notin Nodes
  BY FixedPoolAssumption DEF Nodes
<1>2. CurrentExact' /\ current' \in 0 .. Word - 1 /\ peak' \in 0 .. Word - 1
  BY CountsUp DEF AllocateOverflow
<1>3. TypeOK'
  BY <1>2 DEF AllocateOverflow, TypeOK
<1>4. FreeListExact'
  <2>1. PICK k \in 0 .. N : \E f \in [1 .. k -> Nodes] : Chain(k, f)
    BY DEF FreeListExact
  <2>2. PICK f \in [1 .. k -> Nodes] : Chain(k, f)
    BY <2>1
  <2>3. Chain(k, f)'
    BY <1>1, <2>2 DEF Chain, AllocateOverflow
  <2>4. (out \cap Nodes \subseteq 1 .. fresh - 1)'
    BY <1>1 DEF FreeListExact, AllocateOverflow
  <2> QED
    BY <2>3, <2>4 DEF FreeListExact
<1> QED
  BY <1>2, <1>3, <1>4

\* A node given back becomes the first of the chain.
LEMMA DeallocateKeeps ==
  ASSUME PoolInv, NEW p \in Nodes \cup Overflow, Deallocate(p)
  PROVE  PoolInv'
<1> USE DEF PoolInv
<1>1. p \in out /\ (p \in Nodes => p < fresh)
  BY FixedPoolAssumption DEF Deallocate, FreeListExact, TypeOK, Nodes
<1>2. CurrentExact' /\ current' \in 0 .. Word - 1 /\ peak' \in 0 .. Word - 1
  BY <1>1, CountsDown DEF Deallocate
<1>3. TypeOK'
  <2>1. head \in 0 .. N /\ link \in [Nodes -> 0 .. N] /\ fresh \in 1 .. N + 1 /\ out \subseteq Nodes \cup Overflow
    BY DEF TypeOK
  <2>2. fresh' = fresh /\ out' = out \ {p}
    BY DEF Deallocate
  <2>3. head' \in 0 .. N
    BY <2>1, FixedPoolAssumption DEF Deallocate, Nodes
  <2>4. link' \in [Nodes -> 0 .. N]
    BY <2>1 DEF Deallocate
  <2> QED
    BY <1>2, <2>1, <2>2, <2>3, <2>4 DEF TypeOK
<1>4. (out \cap Nodes \subseteq 1 .. fresh - 1)'
  BY DEF FreeListExact, Deallocate
<1>5. PICK k \in 0 .. N : \E f \in [1 .. k -> Nodes] : Chain(k, f)
  BY DEF FreeListExact
<1>6. PICK f \in [1 .. k -> Nodes] : Chain(k, f)
  BY <1>5
<1>7. CASE p \in Overflow /\ p \notin Nodes
  <2>1. Chain(k, f)'
    BY <1>6, <1>7 DEF Chain, Deallocate
  <2> QED
    BY <1>2, <1>3, <1>4, <2>1 DEF FreeListExact
<1>8. CASE p \in Nodes
  <2> DEFINE g == [i \in 1 .. k + 1 |-> IF i = 1 THEN p ELSE f[i - 1]]
  <2>1. \A i \in 1 .. k : f[i] # p
    BY <1>1, <1>6, <1>8 DEF Chain
  <2>2. g \in [1 .. k + 1 -> Nodes]
    BY <1>8, FixedPoolAssumption
  <2>3. head' = g[1] /\ k + 1 # 0
    BY <1>8, FixedPoolAssumption DEF Deallocate
  <2>4. \A i \in 1 .. k + 1 : link'[g[i]] = IF i = k + 1 THEN 0 ELSE g[i + 1]
    <3> SUFFICES ASSUME NEW i \in 1 .. k + 1
                 PROVE  link'[g[i]] = IF i = k + 1 THEN 0 ELSE g[i + 1]
      OBVIOUS
    <3>1. CASE i = 1
      BY <1>6, <1>8, <3>1, FixedPoolAssumption DEF Chain, Deallocate, TypeOK
    <3>2. CASE i # 1
      <4>1. i - 1 \in 1 .. k /\ g[i] = f[i - 1] /\ f[i - 1] \in Nodes /\ f[i - 1] # p
        BY <2>1, <3>2, FixedPoolAssumption
      <4>2. link'[f[i - 1]] = link[f[i - 1]]
        BY <1>8, <4>1 DEF Deallocate, TypeOK
      <4>3. link[f[i - 1]] = IF i - 1 = k THEN 0 ELSE f[(i - 1) + 1]
        BY <1>6, <4>1 DEF Chain
      <4>4. i # k + 1 => g[i + 1] = f[(i - 1) + 1]
        BY <3>2, FixedPoolAssumption
      <4> QED
        BY <4>1, <4>2, <4>3, <4>4, FixedPoolAssumption
    <3> QED
      BY <3>1, <3>2
  <2>5. \A i, j \in 1 .. k + 1 : g[i] = g[j] => i = j
    BY <1>6, <2>1, FixedPoolAssumption DEF Chain
  <2>6. ASSUME NEW q \in Nodes PROVE q < fresh' /\ q \notin out' <=> \E i \in 1 .. k + 1 : g[i] = q
    <3>1. CASE q = p
      <4>1. 1 \in 1 .. k + 1 /\ g[1] = q
        BY <3>1, FixedPoolAssumption
      <4> QED
        BY <1>1, <1>8, <3>1, <4>1 DEF Deallocate
    <3>2. CASE q # p
      <4>1. q < fresh' /\ q \notin out' <=> \E i \in 1 .. k : f[i] = q
        BY <1>6, <3>2 DEF Chain, Deallocate
      <4>2. ASSUME NEW i \in 1 .. k, f[i] = q PROVE \E j \in 1 .. k + 1 : g[j] = q
        <5>1. i + 1 \in 1 .. k + 1 /\ g[i + 1] = q
          BY <4>2, FixedPoolAssumption
        <5> QED
          BY <5>1
      <4>3. ASSUME NEW j \in 1 .. k + 1, g[j] = q PROVE \E i \in 1 .. k : f[i] = q
        <5>1. j - 1 \in 1 .. k /\ f[j - 1] = q
          BY <3>2, <4>3, FixedPoolAssumption
        <5> QED
          BY <5>1
      <4> QED
        BY <4>1, <4>2, <4>3
    <3> QED
      BY <3>1, <3>2
  <2>7. Chain(k + 1, g)'
    BY <2>3, <2>4, <2>5, <2>6 DEF Chain
  <2>8. k + 1 \in 0 .. N
    <3>1. g \in Injection(1 .. k + 1, Nodes)
      BY <2>2, <2>5, SMTT(30), ZenonT(30) DEF Injection, IsInjective
    <3>2. IsFiniteSet(Nodes) /\ Cardinality(Nodes) = N
      BY FixedPoolAssumption, FS_Interval DEF Nodes
    <3>3. Cardinality(1 .. k + 1) = k + 1
      BY FixedPoolAssumption, FS_Interval
    <3>4. Cardinality(1 .. k + 1) <= Cardinality(Nodes)
      <4> HIDE DEF g
      <4> QED
        BY <3>1, <3>2, FS_Injection
    <3> QED
      BY <3>2, <3>3, <3>4, FixedPoolAssumption
  <2> HIDE DEF g
  <2> QED
    BY <1>2, <1>3, <1>4, <2>2, <2>7, <2>8 DEF FreeListExact
<1> QED
  BY <1>7, <1>8

\* Writing into a node in use touches no free node.
LEMMA UseKeeps ==
  ASSUME PoolInv, NEW p \in Nodes, NEW x \in 0 .. N, Use(p, x)
  PROVE  PoolInv'
<1> USE DEF PoolInv
<1>1. TypeOK' /\ CurrentExact'
  BY DEF Use, TypeOK, CurrentExact
<1>2. FreeListExact'
  <2>1. PICK k \in 0 .. N : \E f \in [1 .. k -> Nodes] : Chain(k, f)
    BY DEF FreeListExact
  <2>2. PICK f \in [1 .. k -> Nodes] : Chain(k, f)
    BY <2>1
  <2>3. \A i \in 1 .. k : f[i] # p
    BY <2>2 DEF Chain, Use
  <2>4. Chain(k, f)'
    BY <2>2, <2>3 DEF Chain, Use, TypeOK
  <2> QED
    BY <2>4 DEF FreeListExact, Use
<1> QED
  BY <1>1, <1>2

\* The empty chain lists the free nodes of a pool that has handed out none.
LEMMA NothingFree ==
  ASSUME head = 0, fresh = 1, out = {}
  PROVE  FreeListExact
<1> DEFINE f == [i \in 1 .. 0 |-> 0]
<1>1. f \in [1 .. 0 -> Nodes] /\ 0 \in 0 .. N
  BY FixedPoolAssumption
<1>2. Chain(0, f)
  BY DEF Chain, Nodes
<1> QED
  BY <1>1, <1>2 DEF FreeListExact

\* The pool starts with nothing handed out.
LEMMA PoolInitOk == Init => PoolInv
<1> SUFFICES ASSUME Init PROVE PoolInv
  OBVIOUS
<1>1. TypeOK
  BY FixedPoolAssumption, FS_CardinalityType DEF Init, TypeOK
<1>2. CurrentExact
  BY FS_EmptySet DEF Init, CurrentExact
<1>3. FreeListExact
  BY NothingFree DEF Init
<1> QED
  BY <1>1, <1>2, <1>3 DEF PoolInv

\* A reset puts it back there.
LEMMA ResetKeeps == PoolInv /\ Reset => PoolInv'
<1> SUFFICES ASSUME PoolInv, Reset PROVE PoolInv'
  OBVIOUS
<1>1. TypeOK'
  BY FixedPoolAssumption, FS_CardinalityType DEF PoolInv, Reset, TypeOK
<1>2. CurrentExact'
  BY FS_EmptySet DEF Reset, CurrentExact
<1>3. FreeListExact'
  <2> DEFINE f == [i \in 1 .. 0 |-> 0]
  <2>1. f \in [1 .. 0 -> Nodes] /\ 0 \in 0 .. N
    BY FixedPoolAssumption
  <2>2. Chain(0, f)'
    BY DEF Chain, Nodes, Reset
  <2> QED
    BY <2>1, <2>2 DEF FreeListExact, Reset
<1> QED
  BY <1>1, <1>2, <1>3 DEF PoolInv

\* No operation of the pool breaks the invariant.
LEMMA PoolNextOk == PoolInv /\ [Next]_pvars => PoolInv'
<1> SUFFICES ASSUME PoolInv, [Next]_pvars PROVE PoolInv'
  OBVIOUS
<1>1. CASE UNCHANGED pvars
  <2>1. TypeOK'
    BY <1>1 DEF pvars, PoolInv, TypeOK
  <2>2. FreeListExact'
    <3>1. \A k, f : Chain(k, f) => Chain(k, f)'
      BY <1>1 DEF pvars, Chain
    <3> QED
      BY <1>1, <3>1 DEF pvars, PoolInv, FreeListExact
  <2>3. CurrentExact'
    BY <1>1 DEF pvars, PoolInv, CurrentExact
  <2> QED
    BY <2>1, <2>2, <2>3 DEF PoolInv
<1>2. CASE Next
  BY <1>2, AllocateLinkKeeps, AllocateFreshKeeps, AllocateOverflowKeeps, DeallocateKeeps, UseKeeps,
    ResetKeeps DEF Next
<1> QED
  BY <1>1, <1>2

\* The inductive invariant, for every pool.
THEOREM PoolInvariant == Spec => []PoolInv
BY PoolInitOk, PoolNextOk, PTL DEF Spec

\* The types, among them that the counters stay in range.
THEOREM PoolTypeCorrect == Spec => []TypeOK
<1>1. PoolInv => TypeOK
  BY DEF PoolInv
<1> QED
  BY <1>1, PoolInvariant, PTL

\* The list threaded through the free nodes has each of them exactly once.
THEOREM FreeListCorrect == Spec => []FreeListExact
<1>1. PoolInv => FreeListExact
  BY DEF PoolInv
<1> QED
  BY <1>1, PoolInvariant, PTL

\* The counter is the number of blocks outstanding.
THEOREM CounterCorrect == Spec => []CurrentExact
<1>1. PoolInv => CurrentExact
  BY DEF PoolInv
<1> QED
  BY <1>1, PoolInvariant, PTL

\* can_allocate() is exact.
THEOREM CanAllocateCorrect == Spec => []CanAllocateExact
<1>1. PoolInv => CanAllocateExact
  <2> SUFFICES ASSUME PoolInv PROVE CanAllocateExact
    OBVIOUS
  <2> USE DEF PoolInv
  <2>1. ASSUME head # 0 PROVE ~(Nodes \subseteq out)
    BY <2>1, HeadFree
  <2>2. ASSUME fresh # N + 1 PROVE ~(Nodes \subseteq out)
    BY <2>2, FreshFree
  <2>3. ASSUME head = 0, fresh = N + 1, NEW p \in Nodes, p \notin out PROVE FALSE
    <3>1. PICK k \in 0 .. N : \E f \in [1 .. k -> Nodes] : Chain(k, f)
      BY DEF FreeListExact
    <3>2. PICK f \in [1 .. k -> Nodes] : Chain(k, f)
      BY <3>1
    <3>3. PICK i \in 1 .. k : f[i] = p
      BY <2>3, <3>2, FixedPoolAssumption DEF Chain, Nodes
    <3>4. k # 0 /\ 1 \in 1 .. k
      BY <3>3
    <3> QED
      BY <2>3, <3>2, <3>4 DEF Chain, Nodes
  <2> QED
    BY <2>1, <2>2, <2>3 DEF CanAllocateExact, CanAllocate
<1> QED
  BY <1>1, PoolInvariant, PTL

\* The free list, the counter and can_allocate are exact, for every pool.
THEOREM PoolCorrect == Spec => []PoolExact
<1>1. FreeListExact /\ CurrentExact /\ CanAllocateExact => PoolExact
  BY DEF PoolExact
<1> QED
  BY <1>1, FreeListCorrect, CounterCorrect, CanAllocateCorrect, PTL

\* Every block the pool hands out was free: it implements NodeAllocator.
THEOREM PoolRefinement == Spec => ImplementsAllocator
<1>1. Init => A!AInit
  BY DEF Init, A!AInit
<1>2. PoolInv /\ [Next]_pvars => [A!ANext]_A!avars
  <2> SUFFICES ASSUME PoolInv, [Next]_pvars PROVE [A!ANext]_A!avars
    OBVIOUS
  <2> USE DEF PoolInv
  <2>1. CASE AllocateLink
    <3>1. A!Grant(head) /\ head \in Nodes
      BY <2>1, HeadFree, CountsUp DEF AllocateLink, A!Grant
    <3> QED
      BY <3>1 DEF A!ANext
  <2>2. CASE AllocateFresh
    <3>1. A!Grant(fresh) /\ fresh \in Nodes
      BY <2>2, FreshFree, CountsUp DEF AllocateFresh, A!Grant
    <3> QED
      BY <3>1 DEF A!ANext
  <2>3. ASSUME NEW p \in Overflow, AllocateOverflow(p) PROVE A!ANext
    <3>1. A!Grant(p)
      BY <2>3, CountsUp DEF AllocateOverflow, A!Grant
    <3> QED
      BY <3>1 DEF A!ANext
  <2>4. ASSUME NEW p \in Nodes \cup Overflow, Deallocate(p) PROVE A!ANext
    <3>1. A!Return(p)
      BY <2>4, CountsDown DEF Deallocate, A!Return
    <3> QED
      BY <3>1 DEF A!ANext
  <2>5. CASE Reset
    BY <2>5 DEF Reset, A!ANext, A!Lose
  <2>6. ASSUME NEW p \in Nodes, NEW x \in 0 .. N, Use(p, x) PROVE UNCHANGED A!avars
    BY <2>6 DEF Use, A!avars
  <2>7. CASE UNCHANGED pvars
    BY <2>7 DEF pvars, A!avars
  <2> QED
    BY <2>1, <2>2, <2>3, <2>4, <2>5, <2>6, <2>7 DEF Next
<1> QED
  BY <1>1, <1>2, PoolInvariant, PTL DEF Spec, ImplementsAllocator, A!ASpec

-----------------------------------------------------------------------------
(* SafePtr, for any objects and any number of pointers.                       *)
(*                                                                            *)
(* That a list holds the pointers to its object and no other is not enough to *)
(* go on: unlinking a pointer must not make its predecessor its own successor, *)
(* so the invariant also says that a list of an object that exists meets      *)
(* nothing twice.                                                             *)

-----------------------------------------------------------------------------
(* Walks: Walked is the least set that contains the front and is closed.       *)

Closed(S, front, next) ==
  front \in S \cup {NULL} /\ \A q \in S : next[q] \in S \cup {NULL}

\* No pointer leads back to the front, and no two to the same pointer.
Linear(front, next) ==
  /\ \A q \in Walked(front, next) : next[q] # NULL => next[q] # front
  /\ \A q, r \in Walked(front, next) : next[q] = next[r] /\ next[q] # NULL => q = r

LEMMA Least ==
  ASSUME NEW front, NEW next, NEW S \in SUBSET SafePtrs, Closed(S, front, next)
  PROVE  Walked(front, next) \subseteq S
  BY DEF Walked, Closed

LEMMA ItselfClosed ==
  ASSUME NEW front \in SafePtrs \cup {NULL}, NEW next \in [SafePtrs -> SafePtrs \cup {NULL}]
  PROVE  Closed(Walked(front, next), front, next) /\ Walked(front, next) \subseteq SafePtrs
  <1> DEFINE W == Walked(front, next)
  <1>1. W \subseteq SafePtrs
    BY DEF Walked
  <1>2. ASSUME NEW S \in SUBSET SafePtrs, Closed(S, front, next), front # NULL
        PROVE  front \in S
    BY <1>2 DEF Closed
  <1>3. front \in W \cup {NULL}
    BY <1>2 DEF Walked, Closed
  <1>4. ASSUME NEW q \in W, next[q] # NULL
        PROVE  next[q] \in W
    <2>1. q \in SafePtrs /\ next[q] \in SafePtrs
      BY <1>1, <1>4
    <2>2. ASSUME NEW S \in SUBSET SafePtrs, Closed(S, front, next)
          PROVE  next[q] \in S
      <3>1. q \in S
        BY <2>2, Least
      <3>2. QED
        BY <1>4, <2>2, <3>1 DEF Closed
    <2>3. QED
      BY <2>1, <2>2 DEF Walked, Closed
  <1>5. QED
    BY <1>1, <1>3, <1>4 DEF Closed

\* A walk depends on nothing but its front and the links it follows.
LEMMA SameWalk ==
  ASSUME NEW front \in SafePtrs \cup {NULL},
         NEW next \in [SafePtrs -> SafePtrs \cup {NULL}], NEW nexu \in [SafePtrs -> SafePtrs \cup {NULL}],
         \A q \in Walked(front, next) : nexu[q] = next[q]
  PROVE  /\ Walked(front, nexu) = Walked(front, next)
         /\ Linear(front, next) => Linear(front, nexu)
  <1> DEFINE W == Walked(front, next)
             V == Walked(front, nexu)
  <1>1. Closed(W, front, next) /\ W \subseteq SafePtrs /\ Closed(V, front, nexu) /\ V \subseteq SafePtrs
    BY ItselfClosed
  <1>2. Closed(W, front, nexu)
    BY <1>1 DEF Closed
  <1>3. V \subseteq W
    BY <1>1, <1>2, Least
  <1>4. Closed(V, front, next)
    BY <1>1, <1>3 DEF Closed
  <1>5. W \subseteq V
    BY <1>1, <1>4, Least
  <1>6. V = W
    BY <1>3, <1>5
  <1>7. QED
    BY <1>6 DEF Linear

\* add puts p in front.
LEMMA AddWalk ==
  ASSUME NEW front \in SafePtrs \cup {NULL}, NEW next \in [SafePtrs -> SafePtrs \cup {NULL}],
         NEW p \in SafePtrs, p \notin Walked(front, next), Linear(front, next),
         NEW nexu, nexu = [next EXCEPT ![p] = front]
  PROVE  Walked(p, nexu) = Walked(front, next) \cup {p} /\ Linear(p, nexu) /\ front # p
  <1> DEFINE W == Walked(front, next)
             V == Walked(p, nexu)
  <1>1. nexu \in [SafePtrs -> SafePtrs \cup {NULL}]
    OBVIOUS
  <1>2. /\ front \in W \cup {NULL} /\ (\A q \in W : next[q] \in W \cup {NULL}) /\ W \subseteq SafePtrs
        /\ p \in V \cup {NULL} /\ (\A q \in V : nexu[q] \in V \cup {NULL}) /\ V \subseteq SafePtrs
    BY <1>1, ItselfClosed DEF Closed
  <1>3. nexu[p] = front /\ \A q \in W : nexu[q] = next[q]
    BY <1>2
  <1>4. Closed(W \cup {p}, p, nexu)
    BY <1>2, <1>3 DEF Closed
  <1>5. V \subseteq W \cup {p}
    <2>1. W \cup {p} \in SUBSET SafePtrs
      BY <1>2
    <2>2. QED
      BY <1>4, <2>1, Least
  <1>6. Closed(W \cap V, front, next)
    BY <1>2, <1>3, NoNull DEF Closed
  <1>7. W \subseteq W \cap V
    BY <1>2, <1>6, Least
  <1>8. V = W \cup {p}
    <2>1. p # NULL
      BY NoNull
    <2>2. p \in V
      BY <1>2, <2>1
    <2>3. QED
      BY <1>5, <1>7, <2>2
  <1>9. front # p
    BY <1>2, NoNull
  <1>10. Linear(p, nexu)
    <2>1. \A q \in W \cup {p} : nexu[q] # NULL => nexu[q] # p
      BY <1>2, <1>3, <1>9
    <2>2. \A q \in W \cup {p}, r \in W \cup {p} : nexu[q] = nexu[r] /\ nexu[q] # NULL => q = r
      BY <1>3 DEF Linear
    <2>3. QED
      BY <1>8, <2>1, <2>2 DEF Linear
  <1>11. QED
    BY <1>8, <1>9, <1>10

\* remove takes p, wherever it is, out of the list and leaves the others in.
LEMMA RemoveWalk ==
  ASSUME NEW front \in SafePtrs \cup {NULL}, NEW next \in [SafePtrs -> SafePtrs \cup {NULL}],
         \A q \in SafePtrs : next[q] # q, Linear(front, next),
         NEW p \in Walked(front, next),
         NEW haad, haad = IF front = p THEN next[p] ELSE front,
         NEW nexu, nexu = [q \in SafePtrs |-> IF front # p /\ q \in Walked(front, next) /\ next[q] = p
                                          THEN next[p] ELSE next[q]]
  PROVE  /\ haad \in SafePtrs \cup {NULL} /\ nexu \in [SafePtrs -> SafePtrs \cup {NULL}]
         /\ \A q \in SafePtrs : nexu[q] # q
         /\ \A q \in SafePtrs \ Walked(front, next) : nexu[q] = next[q]
         /\ Walked(haad, nexu) = Walked(front, next) \ {p}
         /\ Linear(haad, nexu)
  <1> DEFINE W == Walked(front, next)
             V == Walked(haad, nexu)
  <1>1. W \subseteq SafePtrs /\ front \in W \cup {NULL} /\ \A q \in W : next[q] \in W \cup {NULL}
    BY ItselfClosed DEF Closed
  <1>2. haad \in SafePtrs \cup {NULL} /\ nexu \in [SafePtrs -> SafePtrs \cup {NULL}]
    BY <1>1
  <1>3. \A q \in SafePtrs \ W : nexu[q] = next[q]
    BY <1>1
  <1>4. \A q \in W : nexu[q] = IF front # p /\ next[q] = p THEN next[p] ELSE next[q]
    BY <1>1
  <1>5. /\ \A q \in W : next[q] # NULL => next[q] # front
        /\ \A q, r \in W : next[q] = next[r] /\ next[q] # NULL => q = r
    BY DEF Linear
  <1> HIDE DEF W
  \* Two pointers that led to each other could not be reached from the front.
  <1>6. ASSUME NEW q \in W, next[q] = p
        PROVE  next[p] # q
    <2> SUFFICES ASSUME next[p] = q
                 PROVE  FALSE
      OBVIOUS
    <2>1. p # NULL /\ q # NULL /\ p \in W
      BY <1>1, NoNull DEF W
    <2>2. Closed(W \ {p, q}, front, next)
      BY <1>1, <1>5, <1>6, <2>1 DEF Closed
    <2>3. W \subseteq W \ {p, q}
      BY <1>1, <2>2, Least DEF W
    <2>4. QED
      BY <2>1, <2>3
  <1>7. \A q \in SafePtrs : nexu[q] # q
    BY <1>1, <1>3, <1>4, <1>6
  <1>8. p \in W /\ p \in SafePtrs /\ p # NULL /\ next[p] # p
    BY <1>1, NoNull DEF W
  <1>9. /\ haad \in V \cup {NULL} /\ (\A q \in V : nexu[q] \in V \cup {NULL}) /\ V \subseteq SafePtrs
    BY <1>2, ItselfClosed DEF Closed
  <1>10. V \subseteq W \ {p}
    <2>1. haad \in (W \ {p}) \cup {NULL}
      BY <1>1, <1>8
    <2>2. \A q \in W \ {p} : nexu[q] \in (W \ {p}) \cup {NULL}
      BY <1>1, <1>4, <1>5, <1>8
    <2>3. Closed(W \ {p}, haad, nexu) /\ W \ {p} \in SUBSET SafePtrs
      BY <1>1, <2>1, <2>2 DEF Closed
    <2>4. QED
      BY <2>3, Least
  <1>11. W \subseteq V \cup {p}
    <2> DEFINE S == IF front = p \/ \E q \in V : next[q] = p THEN V \cup {p} ELSE V
    <2>1. front \in S \cup {NULL}
      BY <1>9
    <2>2. ASSUME NEW q \in S
          PROVE  next[q] \in S \cup {NULL}
      <3>1. CASE q \in V /\ next[q] = p
        BY <3>1
      <3>2. CASE q \in V /\ next[q] # p
        <4>1. nexu[q] = next[q]
          BY <1>4, <1>10, <3>2
        <4>2. QED
          BY <1>9, <3>2, <4>1
      <3>3. CASE q = p /\ q \notin V
        <4>1. CASE front = p
          BY <1>9, <3>3, <4>1
        <4>2. CASE front # p
          <5>1. PICK r \in V : next[r] = p
            BY <2>2, <3>3, <4>2
          <5>2. nexu[r] = next[p]
            BY <1>4, <1>10, <4>2, <5>1
          <5>3. QED
            BY <1>9, <3>3, <5>1, <5>2, SMTT(30), ZenonT(30)
        <4>3. QED
          BY <4>1, <4>2
      <3>4. QED
        BY <2>2, <3>1, <3>2, <3>3
    <2>3. S \subseteq SafePtrs /\ Closed(S, front, next)
      BY <1>8, <1>9, <2>1, <2>2 DEF Closed
    <2>4. W \subseteq S
      BY <2>3, Least DEF W
    <2>5. QED
      BY <2>4
  <1>12. V = W \ {p}
    BY <1>10, <1>11
  <1>13. Linear(haad, nexu)
    <2>1. \A q \in W \ {p} : nexu[q] # NULL => nexu[q] # haad
      BY <1>1, <1>4, <1>5, <1>8
    <2>2. \A q \in W \ {p}, r \in W \ {p} : nexu[q] = nexu[r] /\ nexu[q] # NULL => q = r
      BY <1>1, <1>4, <1>5, <1>8
    <2>3. QED
      BY <1>12, <2>1, <2>2 DEF Linear
  <1>14. QED
    BY <1>2, <1>3, <1>7, <1>12, <1>13 DEF W

-----------------------------------------------------------------------------
(* The lists of all objects at once: al exist, mk have been made and point to *)
(* obj, and the links are front and next.                                      *)

LinkTypes(front, next) ==
  /\ front \in [Objects -> SafePtrs \cup {NULL}]
  /\ next \in [SafePtrs -> SafePtrs \cup {NULL}] /\ \A q \in SafePtrs : next[q] # q

Enlisted(al, mk, obj, front, next) ==
  \A o \in al : Walked(front[o], next) = {p \in mk : obj[p] = o} /\ Linear(front[o], next)

SafeInv ==
  /\ SafeTypeOK
  /\ \A p \in made : mpObject[p] \in alive \cup {NULL}
  /\ Enlisted(alive, made, mpObject, mpSafePtrList, mpNext)

LEMMA Remove ==
  ASSUME SafeInv, NEW p \in made, NEW l, l = remove(Links, mpObject[p], p)
  PROVE  LinkTypes(l.head, l.next) /\ Enlisted(alive, made \ {p}, mpObject, l.head, l.next)
  <1> DEFINE o == mpObject[p]
  <1>1. /\ LinkTypes(mpSafePtrList, mpNext) /\ o \in alive \cup {NULL} /\ p \in SafePtrs
        /\ alive \subseteq Objects /\ made \subseteq SafePtrs
        /\ \A u \in alive : Walked(mpSafePtrList[u], mpNext) = {q \in made : mpObject[q] = u}
        /\ \A u \in alive : Linear(mpSafePtrList[u], mpNext)
    BY DEF SafeInv, SafeTypeOK, LinkTypes, Enlisted
  <1>2. CASE o = NULL
    <2>1. l.head = mpSafePtrList /\ l.next = mpNext
      BY <1>2 DEF remove, Links
    <2>2. \A u \in alive : {q \in made : mpObject[q] = u} = {q \in made \ {p} : mpObject[q] = u}
      BY <1>1, <1>2, NoNull
    <2>3. QED
      BY <1>1, <2>1, <2>2 DEF Enlisted
  <1>3. CASE o \in alive
    <2>1. o \in Objects /\ o # NULL
      BY <1>1, <1>3, NoNull
    <2> DEFINE h == mpSafePtrList[o]
               haad == IF h = p THEN mpNext[p] ELSE h
               nexu == [q \in SafePtrs |-> IF h # p /\ q \in Walked(h, mpNext) /\ mpNext[q] = p
                                        THEN mpNext[p] ELSE mpNext[q]]
    <2>2. l.head = [mpSafePtrList EXCEPT ![o] = haad] /\ l.next = nexu
      <3>1. CASE h = p
        <4>1. nexu = mpNext
          BY <1>1, <3>1 DEF LinkTypes
        <4>2. QED
          BY <2>1, <3>1, <4>1 DEF remove, Links
      <3>2. CASE h # p
        <4>1. l = [Links EXCEPT !.next = nexu]
          BY <2>1, <3>2 DEF remove, Links, Listed
        <4>2. QED
          BY <1>1, <2>1, <3>2, <4>1 DEF Links, LinkTypes
      <3>3. QED
        BY <3>1, <3>2
    <2>3. p \in Walked(h, mpNext) /\ h \in SafePtrs \cup {NULL} /\ Linear(h, mpNext)
      BY <1>1, <1>3, <2>1 DEF LinkTypes
    <2>4. /\ haad \in SafePtrs \cup {NULL} /\ nexu \in [SafePtrs -> SafePtrs \cup {NULL}]
          /\ \A q \in SafePtrs : nexu[q] # q
          /\ \A q \in SafePtrs \ Walked(h, mpNext) : nexu[q] = mpNext[q]
          /\ Walked(haad, nexu) = Walked(h, mpNext) \ {p}
          /\ Linear(haad, nexu)
      <3>1. mpNext \in [SafePtrs -> SafePtrs \cup {NULL}] /\ \A q \in SafePtrs : mpNext[q] # q
        BY <1>1 DEF LinkTypes
      <3>2. QED
        BY <2>3, <3>1, RemoveWalk
    <2> HIDE DEF haad, nexu
    <2>8. l.head[o] = haad
      BY <1>1, <2>1, <2>2 DEF LinkTypes
    <2>5. LinkTypes(l.head, l.next)
      BY <1>1, <2>1, <2>2, <2>4 DEF LinkTypes
    <2>6. ASSUME NEW u \in alive
          PROVE  /\ Walked(l.head[u], l.next) = {q \in made \ {p} : mpObject[q] = u}
                 /\ Linear(l.head[u], l.next)
      <3>1. CASE u = o
        <4>1. {q \in made \ {p} : mpObject[q] = o} = {q \in made : mpObject[q] = o} \ {p}
          OBVIOUS
        <4>2. QED
          BY <1>1, <1>3, <2>2, <2>4, <2>8, <3>1, <4>1
      <3>2. CASE u # o
        <4>1. l.head[u] = mpSafePtrList[u] /\ mpSafePtrList[u] \in SafePtrs \cup {NULL}
          BY <1>1, <2>1, <2>2, <3>2 DEF LinkTypes
        <4>2. \A q \in Walked(mpSafePtrList[u], mpNext) : l.next[q] = mpNext[q]
          BY <1>1, <1>3, <2>2, <2>4, <3>2
        <4>3. /\ Walked(mpSafePtrList[u], l.next) = Walked(mpSafePtrList[u], mpNext)
              /\ Linear(mpSafePtrList[u], l.next)
          BY <1>1, <2>2, <2>4, <4>1, <4>2, SameWalk DEF LinkTypes
        <4>4. QED
          BY <1>1, <3>2, <4>1, <4>3
      <3>3. QED
        BY <3>1, <3>2
    <2>7. QED
      BY <2>5, <2>6 DEF Enlisted
  <1>4. QED
    BY <1>1, <1>2, <1>3

LEMMA Add ==
  ASSUME NEW al \in SUBSET Objects, NEW mk \in SUBSET SafePtrs,
         NEW obj \in [SafePtrs -> Objects \cup {NULL}], NEW front, NEW next, LinkTypes(front, next),
         Enlisted(al, mk, obj, front, next),
         NEW p \in SafePtrs \ mk, NEW o \in al \cup {NULL},
         NEW l, l = add([head |-> front, next |-> next], o, p)
  PROVE  /\ LinkTypes(l.head, l.next)
         /\ Enlisted(al, mk \cup {p}, [obj EXCEPT ![p] = o], l.head, l.next)
  <1> DEFINE obk == [obj EXCEPT ![p] = o]
  <1>1. /\ \A u \in al : Walked(front[u], next) = {q \in mk : obj[q] = u}
        /\ \A u \in al : Linear(front[u], next)
        /\ \A u \in al : front[u] \in SafePtrs \cup {NULL}
        /\ next \in [SafePtrs -> SafePtrs \cup {NULL}] /\ \A q \in SafePtrs : next[q] # q
    BY DEF Enlisted, LinkTypes
  <1>2. \A u \in al \ {o} : {q \in mk \cup {p} : obk[q] = u} = {q \in mk : obj[q] = u}
    OBVIOUS
  <1>3. CASE o = NULL
    <2>1. l.head = front /\ l.next = next /\ o \notin al
      BY <1>3, NoNull DEF add
    <2>2. QED
      BY <1>1, <1>2, <2>1 DEF Enlisted
  <1>4. CASE o \in al
    <2>1. l.head = [front EXCEPT ![o] = p] /\ l.next = [next EXCEPT ![p] = front[o]]
      BY <1>4, NoNull DEF add
    <2>2. p \notin Walked(front[o], next)
      BY <1>1, <1>4
    <2>3. /\ Walked(p, l.next) = Walked(front[o], next) \cup {p}
          /\ Linear(p, l.next) /\ front[o] # p
      <3>1. /\ front[o] \in SafePtrs \cup {NULL} /\ Linear(front[o], next) /\ p \in SafePtrs
            /\ l.next = [next EXCEPT ![p] = front[o]]
        BY <1>1, <1>4, <2>1
      <3>2. QED
        BY <1>1, <2>2, <3>1, AddWalk, ZenonT(60), SMTT(30)
    <2>4. LinkTypes(l.head, l.next)
      <3>1. [front EXCEPT ![o] = p] \in [Objects -> SafePtrs \cup {NULL}]
        BY DEF LinkTypes
      <3>2. front[o] \in SafePtrs \cup {NULL}
        BY <1>1, <1>4
      <3>3. /\ [next EXCEPT ![p] = front[o]] \in [SafePtrs -> SafePtrs \cup {NULL}]
            /\ \A q \in SafePtrs : [next EXCEPT ![p] = front[o]][q] # q
        BY <1>1, <2>3, <3>2
      <3>4. QED
        BY <2>1, <3>1, <3>3 DEF LinkTypes
    <2>5. ASSUME NEW u \in al
          PROVE  /\ Walked(l.head[u], l.next) = {q \in mk \cup {p} : obk[q] = u}
                 /\ Linear(l.head[u], l.next)
      <3>1. CASE u = o
        <4>1. l.head[u] = p
          BY <2>1, <3>1 DEF LinkTypes
        <4>2. {q \in mk \cup {p} : obk[q] = o} = {q \in mk : obj[q] = o} \cup {p}
          OBVIOUS
        <4>3. QED
          BY <1>1, <1>4, <2>3, <3>1, <4>1, <4>2
      <3>2. CASE u # o
        <4>1. l.head[u] = front[u]
          BY <2>1, <3>2 DEF LinkTypes
        <4>2. \A q \in Walked(front[u], next) : l.next[q] = next[q]
          <5>1. Walked(front[u], next) \subseteq SafePtrs \ {p}
            BY <1>1
          <5>2. QED
            BY <1>1, <2>1, <5>1
        <4>3. Walked(front[u], l.next) = Walked(front[u], next) /\ Linear(front[u], l.next)
          BY <1>1, <2>4, <4>2, SameWalk DEF LinkTypes
        <4>4. QED
          BY <1>1, <1>2, <3>2, <4>1, <4>3
      <3>3. QED
        BY <3>1, <3>2
    <2>6. QED
      BY <2>4, <2>5 DEF Enlisted
  <1>5. QED
    BY <1>3, <1>4

\* A walk that ends leaves the other lists as they were.
LEMMA NullWalk ==
  ASSUME SafeInv, NEW o \in alive, NullListed(o)
  PROVE  /\ mpNext' \in [SafePtrs -> SafePtrs \cup {NULL}] /\ \A q \in SafePtrs : mpNext'[q] # q
         /\ mpObject' \in [SafePtrs -> Objects \cup {NULL}]
         /\ \A p \in made : mpObject'[p] = IF mpObject[p] = o THEN NULL ELSE mpObject[p]
         /\ \A u \in alive \ {o} : /\ Walked(mpSafePtrList[u], mpNext') = {p \in made : mpObject'[p] = u}
                                   /\ Linear(mpSafePtrList[u], mpNext')
  <1>1. /\ SafeTypeOK /\ made \subseteq SafePtrs /\ o \in Objects
        /\ \A u \in alive : Walked(mpSafePtrList[u], mpNext) = {q \in made : mpObject[q] = u}
        /\ \A u \in alive : Linear(mpSafePtrList[u], mpNext)
    BY DEF SafeInv, SafeTypeOK, Enlisted
  <1>2. /\ mpObject' = [p \in SafePtrs |-> IF p \in Listed(o) THEN NULL ELSE mpObject[p]]
        /\ mpNext' = [p \in SafePtrs |-> IF p \in Listed(o) THEN NULL ELSE mpNext[p]]
        /\ Listed(o) = {q \in made : mpObject[q] = o}
    BY <1>1 DEF NullListed, Listed
  <1>3. mpNext' \in [SafePtrs -> SafePtrs \cup {NULL}] /\ \A q \in SafePtrs : mpNext'[q] # q
    BY <1>1, <1>2, NoNull DEF SafeTypeOK
  <1>4. mpObject' \in [SafePtrs -> Objects \cup {NULL}]
    BY <1>1, <1>2 DEF SafeTypeOK
  <1>5. \A p \in made : mpObject'[p] = IF mpObject[p] = o THEN NULL ELSE mpObject[p]
    BY <1>1, <1>2
  <1>6. ASSUME NEW u \in alive \ {o}
        PROVE  /\ Walked(mpSafePtrList[u], mpNext') = {p \in made : mpObject'[p] = u}
               /\ Linear(mpSafePtrList[u], mpNext')
    <2>1. \A q \in Walked(mpSafePtrList[u], mpNext) : mpNext'[q] = mpNext[q]
      BY <1>1, <1>2
    <2>2. mpSafePtrList[u] \in SafePtrs \cup {NULL} /\ mpNext \in [SafePtrs -> SafePtrs \cup {NULL}]
      BY <1>1 DEF SafeTypeOK
    <2>3. /\ Walked(mpSafePtrList[u], mpNext') = Walked(mpSafePtrList[u], mpNext)
          /\ Linear(mpSafePtrList[u], mpNext')
      BY <1>1, <1>3, <2>1, <2>2, SameWalk
    <2>4. u # NULL
      BY <1>1, NoNull DEF SafeTypeOK
    <2>5. {p \in made : mpObject'[p] = u} = {p \in made : mpObject[p] = u}
      BY <1>5, <2>4
    <2>6. QED
      BY <1>1, <2>3, <2>5
  <1>7. QED
    BY <1>3, <1>4, <1>5, <1>6

-----------------------------------------------------------------------------
(* The invariant.                                                             *)

LEMMA SafeInitOk ==
  ASSUME SafeInit
  PROVE  SafeInv
  BY NoNull DEF SafeInit, SafeInv, SafeTypeOK, Enlisted

LEMMA ObjectStep ==
  ASSUME SafeInv, NEW o \in Objects, Construct(o) \/ Destroy(o) \/ clear_references(o)
  PROVE  SafeInv'
  <1>1. /\ SafeTypeOK /\ made \subseteq SafePtrs /\ \A p \in made : mpObject[p] \in alive \cup {NULL}
        /\ \A u \in alive : Walked(mpSafePtrList[u], mpNext) = {q \in made : mpObject[q] = u}
        /\ \A u \in alive : Linear(mpSafePtrList[u], mpNext)
    BY DEF SafeInv, SafeTypeOK, Enlisted
  \* The empty list.
  <1>2. ASSUME NEW next
        PROVE  Walked(NULL, next) = {} /\ Linear(NULL, next)
    <2>1. Closed({}, NULL, next)
      BY DEF Closed
    <2>2. Walked(NULL, next) = {}
      BY <2>1, Least
    <2>3. QED
      BY <2>2 DEF Linear
  <1>3. CASE Construct(o)
    <2>1. /\ o \notin alive /\ alive' = alive \cup {o} /\ UNCHANGED <<made, mpObject, mpNext>>
          /\ mpSafePtrList' = [mpSafePtrList EXCEPT ![o] = NULL]
      BY <1>3 DEF Construct
    <2>2. SafeTypeOK'
      BY <1>1, <2>1 DEF SafeTypeOK
    <2>3. {p \in made : mpObject[p] = o} = {}
      BY <1>1, <2>1, NoNull
    <2>4. ASSUME NEW u \in alive'
          PROVE  /\ Walked(mpSafePtrList'[u], mpNext') = {q \in made' : mpObject'[q] = u}
                 /\ Linear(mpSafePtrList'[u], mpNext')
      <3>1. CASE u = o
        BY <1>1, <1>2, <2>1, <2>3, <3>1 DEF SafeTypeOK
      <3>2. CASE u # o
        BY <1>1, <2>1, <3>2 DEF SafeTypeOK
      <3>3. QED
        BY <3>1, <3>2
    <2>5. QED
      BY <1>1, <2>1, <2>2, <2>4 DEF SafeInv, Enlisted
  <1>4. CASE Destroy(o)
    <2>1. o \in alive /\ alive' = alive \ {o} /\ NullListed(o) /\ UNCHANGED <<made, mpSafePtrList>>
      BY <1>4 DEF Destroy
    <2>2. /\ mpNext' \in [SafePtrs -> SafePtrs \cup {NULL}] /\ \A q \in SafePtrs : mpNext'[q] # q
          /\ mpObject' \in [SafePtrs -> Objects \cup {NULL}]
          /\ \A p \in made : mpObject'[p] = IF mpObject[p] = o THEN NULL ELSE mpObject[p]
          /\ \A u \in alive \ {o} : /\ Walked(mpSafePtrList[u], mpNext') = {p \in made : mpObject'[p] = u}
                                    /\ Linear(mpSafePtrList[u], mpNext')
      BY <2>1, NullWalk
    <2>3. SafeTypeOK'
      BY <1>1, <2>1, <2>2 DEF SafeTypeOK
    <2>4. Enlisted(alive', made', mpObject', mpSafePtrList', mpNext')
      BY <2>1, <2>2 DEF Enlisted
    <2>5. \A p \in made' : mpObject'[p] \in alive' \cup {NULL}
      BY <1>1, <2>1, <2>2
    <2>6. QED
      BY <2>3, <2>4, <2>5 DEF SafeInv
  <1>5. CASE clear_references(o)
    <2>1. /\ o \in alive /\ NullListed(o) /\ UNCHANGED <<alive, made>>
          /\ mpSafePtrList' = [mpSafePtrList EXCEPT ![o] = NULL]
      BY <1>5 DEF clear_references
    <2>2. /\ mpNext' \in [SafePtrs -> SafePtrs \cup {NULL}] /\ \A q \in SafePtrs : mpNext'[q] # q
          /\ mpObject' \in [SafePtrs -> Objects \cup {NULL}]
          /\ \A p \in made : mpObject'[p] = IF mpObject[p] = o THEN NULL ELSE mpObject[p]
          /\ \A u \in alive \ {o} : /\ Walked(mpSafePtrList[u], mpNext') = {p \in made : mpObject'[p] = u}
                                    /\ Linear(mpSafePtrList[u], mpNext')
      BY <2>1, NullWalk
    <2>3. SafeTypeOK'
      BY <1>1, <2>1, <2>2 DEF SafeTypeOK
    <2>4. ASSUME NEW u \in alive'
          PROVE  /\ Walked(mpSafePtrList'[u], mpNext') = {q \in made' : mpObject'[q] = u}
                 /\ Linear(mpSafePtrList'[u], mpNext')
      <3>1. CASE u = o
        <4>1. mpSafePtrList'[u] = NULL /\ {q \in made' : mpObject'[q] = u} = {}
          BY <1>1, <2>1, <2>2, <3>1, NoNull DEF SafeTypeOK
        <4>2. QED
          BY <1>2, <4>1
      <3>2. CASE u # o
        BY <1>1, <2>1, <2>2, <3>2 DEF SafeTypeOK
      <3>3. QED
        BY <3>1, <3>2
    <2>5. Enlisted(alive', made', mpObject', mpSafePtrList', mpNext')
      BY <2>4 DEF Enlisted
    <2>6. \A p \in made' : mpObject'[p] \in alive' \cup {NULL}
      BY <1>1, <2>1, <2>2
    <2>7. QED
      BY <2>3, <2>5, <2>6 DEF SafeInv
  <1>6. QED
    BY <1>3, <1>4, <1>5

LEMMA PtrStep ==
  ASSUME SafeInv, NEW p \in SafePtrs,
         DestroyPtr(p) \/ \E o \in Objects \cup {NULL} : ConstructPtr(p, o) \/ reset(p, o)
  PROVE  SafeInv'
  <1>1. /\ SafeTypeOK /\ made \subseteq SafePtrs /\ alive \subseteq Objects
        /\ \A q \in made : mpObject[q] \in alive \cup {NULL}
        /\ Enlisted(alive, made, mpObject, mpSafePtrList, mpNext) /\ LinkTypes(mpSafePtrList, mpNext)
        /\ mpObject \in [SafePtrs -> Objects \cup {NULL}]
    BY DEF SafeInv, SafeTypeOK, LinkTypes
  <1>2. CASE DestroyPtr(p)
    <2>1. PICK l : l = remove(Links, mpObject[p], p)
      OBVIOUS
    <2>2. /\ p \in made /\ made' = made \ {p} /\ UNCHANGED <<alive, mpObject>>
          /\ mpSafePtrList' = l.head /\ mpNext' = l.next
      BY <1>2, <2>1 DEF DestroyPtr, SetLinks
    <2>3. LinkTypes(l.head, l.next) /\ Enlisted(alive, made \ {p}, mpObject, l.head, l.next)
      BY <2>1, <2>2, Remove
    <2>4. QED
      BY <1>1, <2>2, <2>3 DEF SafeInv, SafeTypeOK, LinkTypes
  <1>3. ASSUME NEW o \in Objects \cup {NULL}, ConstructPtr(p, o)
        PROVE  SafeInv'
    <2> DEFINE next == [mpNext EXCEPT ![p] = NULL]
    <2>1. PICK l : l = add([head |-> mpSafePtrList, next |-> next], o, p)
      OBVIOUS
    <2>2. /\ p \notin made /\ o \in alive \cup {NULL} /\ made' = made \cup {p} /\ UNCHANGED alive
          /\ mpObject' = [mpObject EXCEPT ![p] = o]
          /\ mpSafePtrList' = l.head /\ mpNext' = l.next
      BY <1>3, <2>1 DEF ConstructPtr, SetLinks, Links
    <2>3. LinkTypes(mpSafePtrList, next)
      BY <1>1, NoNull DEF LinkTypes
    <2>4. Enlisted(alive, made, mpObject, mpSafePtrList, next)
      <3> SUFFICES ASSUME NEW u \in alive
                   PROVE  /\ Walked(mpSafePtrList[u], next) = {q \in made : mpObject[q] = u}
                          /\ Linear(mpSafePtrList[u], next)
        BY DEF Enlisted
      <3>1. /\ Walked(mpSafePtrList[u], mpNext) = {q \in made : mpObject[q] = u}
            /\ Linear(mpSafePtrList[u], mpNext) /\ mpSafePtrList[u] \in SafePtrs \cup {NULL}
        BY <1>1 DEF Enlisted, LinkTypes
      <3>2. \A q \in Walked(mpSafePtrList[u], mpNext) : next[q] = mpNext[q]
        BY <1>1, <2>2, <3>1 DEF LinkTypes
      <3>3. QED
        BY <1>1, <2>3, <3>1, <3>2, SameWalk DEF LinkTypes
    <2> HIDE DEF next
    <2>5. /\ LinkTypes(l.head, l.next)
          /\ Enlisted(alive, made \cup {p}, [mpObject EXCEPT ![p] = o], l.head, l.next)
      BY <1>1, <2>1, <2>2, <2>3, <2>4, Add
    <2>6. QED
      BY <1>1, <2>2, <2>5 DEF SafeInv, SafeTypeOK, LinkTypes
  <1>4. ASSUME NEW o \in Objects \cup {NULL}, reset(p, o)
        PROVE  SafeInv'
    <2>1. PICK k : k = remove(Links, mpObject[p], p)
      OBVIOUS
    <2>2. PICK l : l = add(k, o, p)
      OBVIOUS
    <2>3. /\ p \in made /\ o \in alive \cup {NULL} /\ UNCHANGED <<alive, made>>
          /\ mpObject' = [mpObject EXCEPT ![p] = o]
          /\ mpSafePtrList' = l.head /\ mpNext' = l.next
      BY <1>4, <2>1, <2>2 DEF reset, SetLinks
    <2>4. LinkTypes(k.head, k.next) /\ Enlisted(alive, made \ {p}, mpObject, k.head, k.next)
      BY <2>1, <2>3, Remove
    <2>5. k = [head |-> k.head, next |-> k.next]
      <3>1. Links \in [head : {mpSafePtrList}, next : {mpNext}]
        BY DEF Links
      <3>2. QED
        BY <2>1, <3>1 DEF remove, Links
    <2>6. /\ LinkTypes(l.head, l.next)
          /\ Enlisted(alive, (made \ {p}) \cup {p}, [mpObject EXCEPT ![p] = o], l.head, l.next)
      <3>1. made \ {p} \in SUBSET SafePtrs /\ p \in SafePtrs \ (made \ {p})
        BY <1>1
      <3>2. l = add([head |-> k.head, next |-> k.next], o, p)
        BY <2>2, <2>5
      <3>3. QED
        BY <1>1, <2>3, <2>4, <3>1, <3>2, Add, ZenonT(60), SMTT(30)
    <2>7. (made \ {p}) \cup {p} = made
      BY <2>3
    <2>8. QED
      BY <1>1, <2>3, <2>6, <2>7 DEF SafeInv, SafeTypeOK, LinkTypes
  <1>5. QED
    BY <1>2, <1>3, <1>4

LEMMA SafeInductive == SafeSpec => []SafeInv
  <1>1. SafeInit => SafeInv
    BY SafeInitOk
  <1>2. SafeInv /\ [SafeNext]_safevars => SafeInv'
    <2>1. SafeInv /\ SafeNext => SafeInv'
      BY ObjectStep, PtrStep DEF SafeNext
    <2>2. SafeInv /\ UNCHANGED safevars => SafeInv'
      BY DEF safevars, SafeInv, SafeTypeOK
    <2>3. QED
      BY <2>1, <2>2
  <1>3. QED
    BY <1>1, <1>2, PTL DEF SafeSpec

\* In whatever order pointers and objects are made, moved and destroyed, an
\* object's list holds the pointers to it and no other, and no safe_ptr points
\* to an object that is gone.
THEOREM ListsExact == SafeSpec => []EnlistedExactly
  <1>1. SafeInv => EnlistedExactly
    BY DEF SafeInv, EnlistedExactly, Enlisted, Listed, PointersTo
  <1>2. QED
    BY <1>1, SafeInductive, PTL

\* The end of an object sets the pointers to it to NULL and changes no other.
THEOREM NullsItsPointers == SafeSpec => NulledWithItsObject
  <1>1. ASSUME SafeInv, NEW o \in Objects, Destroy(o)
        PROVE  \A p \in made : mpObject'[p] = IF mpObject[p] = o THEN NULL ELSE mpObject[p]
    BY <1>1, NullWalk DEF Destroy
  <1>2. SafeInv /\ [SafeNext]_safevars =>
          [\A o \in Objects : Destroy(o) =>
             \A p \in made : mpObject'[p] = IF mpObject[p] = o THEN NULL ELSE mpObject[p]]_safevars
    BY <1>1
  <1>3. QED
    BY <1>2, SafeInductive, PTL DEF SafeSpec, NulledWithItsObject

-----------------------------------------------------------------------------
(* lru_cache: its list and its map agree, every value it took is in it or     *)
(* deleted once, and what leaves it is what was used least recently, whatever *)
(* a create callback does to the cache it is called from.                     *)
(* The parts of a call take a key out, put one in front or cut the end off:   *)
(* one lemma each says what that does to the invariant, another what it does  *)
(* to the order of use.                                                       *)

Item == [node : ListNodes, key : Keys]
Valued(m, v) == {k \in DOMAIN m : m[k].value = v}

\* The list l has each key of the map m once, at the node the map says.
Sound(l, m) ==
  /\ l \in Seq(Item)
  /\ DOMAIN m \subseteq Keys
  /\ \A k \in DOMAIN m : m[k] \in [value : Values, node : ListNodes]
  /\ \A i \in 1 .. Len(l) : l[i].key \in DOMAIN m /\ m[l[i].key].node = l[i].node
  /\ \A k \in DOMAIN m : \E i \in 1 .. Len(l) : l[i].key = k
  /\ \A i, j \in 1 .. Len(l) : l[i].key = l[j].key => i = j
  /\ \A i, j \in 1 .. Len(l) : l[i].node = l[j].node => i = j

\* The values owed are those in the map.
Owing(m, w) ==
  /\ w \in [Values -> Nat]
  /\ \A v \in Values : w[v] = Cardinality(Valued(m, v))

\* Creations nest no deeper than allowed, and while one runs there is room for a key.
Nested(q, n) == q \in Seq(Keys) /\ Len(q) <= MaxDepth /\ (q # <<>> => n > 0)

CacheInv ==
  /\ Sound(m_list, m_map)
  /\ Owing(m_map, owed)
  /\ m_capacity \in Capacities
  /\ Len(m_list) <= m_capacity
  /\ Nested(creating, m_capacity)

LEMMA CacheFacts ==
  ASSUME CacheInv
  PROVE  /\ Sound(m_list, m_map) /\ Owing(m_map, owed) /\ m_list \in Seq(Item)
         /\ Len(m_list) \in Nat /\ m_capacity \in Capacities /\ m_capacity \in Nat
         /\ Len(m_list) <= m_capacity
  <1>1. Capacities \subseteq Nat
    BY CacheAssumption
  <1>2. m_list \in Seq(Item) /\ Len(m_list) \in Nat
    BY DEF CacheInv, Sound
  <1>3. QED
    BY <1>1, <1>2 DEF CacheInv

-----------------------------------------------------------------------------
(* Counting. *)

LEMMA IntervalSize ==
  ASSUME NEW n \in Nat
  PROVE  IsFiniteSet(1 .. n) /\ Cardinality(1 .. n) = n
  BY FS_Interval

\* There are as many keys in the map as in the list.
LEMMA SoundSize ==
  ASSUME NEW l, NEW m, Sound(l, m)
  PROVE  /\ IsFiniteSet(DOMAIN m)
         /\ Cardinality(DOMAIN m) = Len(l)
         /\ Len(l) \in Nat
  <1>1. Len(l) \in Nat
    BY DEF Sound
  <1> DEFINE f == [i \in 1 .. Len(l) |-> l[i].key]
  <1>2. f \in Bijection(1 .. Len(l), DOMAIN m)
    <2>1. f \in [1 .. Len(l) -> DOMAIN m]
      BY DEF Sound
    <2>2. \A k \in DOMAIN m : \E i \in 1 .. Len(l) : f[i] = k
      BY DEF Sound
    <2>3. \A i, j \in 1 .. Len(l) : f[i] = f[j] => i = j
      BY DEF Sound
    <2>4. QED
      BY <2>1, <2>2, <2>3 DEF Bijection, Injection, Surjection, IsInjective
  <1>3. ExistsBijection(1 .. Len(l), DOMAIN m)
    BY <1>2 DEF ExistsBijection
  <1>4. IsFiniteSet(1 .. Len(l)) /\ Cardinality(1 .. Len(l)) = Len(l)
    BY <1>1, IntervalSize
  <1>5. QED
    BY <1>1, <1>3, <1>4, FS_Bijection

\* A cache that is not full leaves a node free.
LEMMA FreeNode ==
  ASSUME NEW l \in Seq(Item), NEW n \in Nat, Len(l) < n,
         NEW S \in SUBSET ListNodes, IsFiniteSet(S), Cardinality(S) = n
  PROVE  \E x \in ListNodes : \A i \in 1 .. Len(l) : l[i].node # x
  <1> DEFINE T == {l[i].node : i \in 1 .. Len(l)}
  <1> DEFINE f == [i \in 1 .. Len(l) |-> l[i].node]
  <1>1. f \in Surjection(1 .. Len(l), T)
    BY DEF Surjection
  <1>2. Len(l) \in Nat /\ IsFiniteSet(1 .. Len(l)) /\ Cardinality(1 .. Len(l)) = Len(l)
    <2>1. Len(l) \in Nat
      OBVIOUS
    <2>2. IsFiniteSet(1 .. Len(l)) /\ Cardinality(1 .. Len(l)) = Len(l)
      BY <2>1, IntervalSize
    <2>3. QED
      BY <2>1, <2>2
  <1> HIDE DEF f
  <1>3. IsFiniteSet(T) /\ Cardinality(T) <= Len(l)
    <2> HIDE DEF T
    <2>1. IsFiniteSet(T) /\ Cardinality(T) <= Cardinality(1 .. Len(l))
      BY <1>1, <1>2, FS_Surjection
    <2>2. QED
      BY <2>1, <1>2
  <1>4. ASSUME S \subseteq T
        PROVE  FALSE
    <2> HIDE DEF T
    <2>1. Cardinality(S) <= Cardinality(T)
      BY <1>3, <1>4, FS_Subset
    <2>2. Cardinality(T) \in Nat
      BY <1>3, FS_CardinalityType
    <2>3. QED
      BY <2>1, <2>2, <1>2, <1>3
  <1>5. QED
    BY <1>4

-----------------------------------------------------------------------------
(* The parts of a call. *)

Plus(w, v) == [w EXCEPT ![v] = @ + 1]
Minus(w, v) == [w EXCEPT ![v] = @ - 1]
Reckoned(m, w, S) == [v \in Values |-> w[v] - Cardinality({k \in S : m[k].value = v})]

\* The place a place of the shortened list has in the old one.
Old(i, j) == IF j < i THEN j ELSE j + 1

LEMMA RemovedIs ==
  ASSUME NEW l \in Seq(Item), NEW i \in 1 .. Len(l)
  PROVE  /\ Removed(l, i) \in Seq(Item)
         /\ Len(Removed(l, i)) = Len(l) - 1
         /\ \A j \in 1 .. Len(l) - 1 : Old(i, j) \in 1 .. Len(l) /\ Removed(l, i)[j] = l[Old(i, j)]
  <1> DEFINE a == SubSeq(l, 1, i - 1)
  <1> DEFINE b == SubSeq(l, i + 1, Len(l))
  <1>1. Len(l) \in Nat
    OBVIOUS
  <1>2. a \in Seq(Item) /\ Len(a) = i - 1 /\ \A j \in 1 .. i - 1 : a[j] = l[j]
    BY <1>1
  <1>3. b \in Seq(Item) /\ Len(b) = Len(l) - i /\ \A j \in 1 .. Len(l) - i : b[j] = l[i + j]
    BY <1>1
  <1> HIDE DEF a, b
  <1>4. a \o b \in Seq(Item) /\ Len(a \o b) = Len(l) - 1
    <2>1. a \o b \in Seq(Item)
      BY <1>2, <1>3
    <2>2. Len(a \o b) = Len(a) + Len(b)
      BY <1>2, <1>3, ConcatProperties
    <2>3. (i - 1) + (Len(l) - i) = Len(l) - 1
      BY <1>1
    <2>4. QED
      BY <2>1, <2>2, <2>3, <1>2, <1>3
  <1>5. ASSUME NEW j \in 1 .. Len(l) - 1
        PROVE  Old(i, j) \in 1 .. Len(l) /\ (a \o b)[j] = l[Old(i, j)]
    <2>1. CASE j < i
      BY <2>1, <1>1, <1>2, <1>3 DEF Old
    <2>2. CASE ~(j < i)
      <3>1. (a \o b)[j] = b[j - (i - 1)]
        BY <2>2, <1>1, <1>2, <1>3
      <3>2. j - (i - 1) \in 1 .. Len(l) - i /\ i + (j - (i - 1)) = j + 1
        BY <2>2, <1>1
      <3>3. QED
        BY <3>1, <3>2, <2>2, <1>1, <1>3 DEF Old
    <2>3. QED
      BY <2>1, <2>2
  <1>6. QED
    BY <1>4, <1>5 DEF Removed, a, b

\* One key less is one of its value less.
LEMMA DropCounts ==
  ASSUME NEW m, IsFiniteSet(DOMAIN m), NEW w, Owing(m, w),
         NEW k \in DOMAIN m, m[k].value \in Values,
         NEW m2, DOMAIN m2 = DOMAIN m \ {k}, \A j \in DOMAIN m2 : m2[j] = m[j]
  PROVE  Owing(m2, Minus(w, m[k].value))
  <1> DEFINE u == m[k].value
  <1> SUFFICES ASSUME NEW v \in Values
               PROVE  /\ Minus(w, u)[v] \in Nat
                      /\ Minus(w, u)[v] = Cardinality(Valued(m2, v))
    BY DEF Owing, Minus
  <1>1. IsFiniteSet(Valued(m, v))
    BY FS_Subset DEF Valued
  <1>2. Valued(m2, v) = Valued(m, v) \ {k} /\ (k \in Valued(m, v) <=> v = u)
    BY DEF Valued
  <1>3. Cardinality(Valued(m2, v)) = IF v = u THEN Cardinality(Valued(m, v)) - 1 ELSE Cardinality(Valued(m, v))
    BY <1>1, <1>2, FS_RemoveElement
  <1>4. IsFiniteSet(Valued(m2, v))
    BY <1>1, <1>2, FS_Subset
  <1>5. Cardinality(Valued(m2, v)) \in Nat
    BY <1>4, FS_CardinalityType
  <1>6. w[v] = Cardinality(Valued(m, v)) /\ w \in [Values -> Nat]
    BY DEF Owing
  <1>7. QED
    BY <1>3, <1>5, <1>6 DEF Minus

\* A key more is one of its value more.
LEMMA PutCounts ==
  ASSUME NEW m, IsFiniteSet(DOMAIN m), NEW w, Owing(m, w), NEW k, k \notin DOMAIN m,
         NEW u \in Values,
         NEW m2, DOMAIN m2 = DOMAIN m \cup {k}, m2[k].value = u, \A j \in DOMAIN m : m2[j] = m[j]
  PROVE  Owing(m2, Plus(w, u))
  <1> SUFFICES ASSUME NEW v \in Values
               PROVE  /\ Plus(w, u)[v] \in Nat
                      /\ Plus(w, u)[v] = Cardinality(Valued(m2, v))
    BY DEF Owing, Plus
  <1>1. IsFiniteSet(Valued(m, v)) /\ k \notin Valued(m, v)
    BY FS_Subset DEF Valued
  <1>2. Valued(m2, v) = IF v = u THEN Valued(m, v) \cup {k} ELSE Valued(m, v)
    BY DEF Valued
  <1>3. Cardinality(Valued(m2, v)) = IF v = u THEN Cardinality(Valued(m, v)) + 1 ELSE Cardinality(Valued(m, v))
    BY <1>1, <1>2, FS_AddElement
  <1>4. w[v] = Cardinality(Valued(m, v)) /\ w[v] \in Nat /\ w \in [Values -> Nat]
    BY DEF Owing
  <1>5. QED
    BY <1>3, <1>4 DEF Plus

\* A key is taken out of list and map, and its value is handed over.
LEMMA TakeOut ==
  ASSUME NEW l, NEW m, NEW w, Sound(l, m), Owing(m, w), NEW i \in 1 .. Len(l), NEW k, k = l[i].key,
         NEW m2, DOMAIN m2 = DOMAIN m \ {k}, \A j \in DOMAIN m2 : m2[j] = m[j]
  PROVE  /\ k \in DOMAIN m
         /\ Sound(Removed(l, i), m2)
         /\ Owing(m2, Minus(w, m[k].value))
  <1>1. l \in Seq(Item) /\ k \in DOMAIN m /\ m[k].value \in Values
    BY DEF Sound
  <1>2. PICK r : r = Removed(l, i)
    OBVIOUS
  <1>3. /\ r \in Seq(Item)
        /\ Len(r) = Len(l) - 1
        /\ \A j \in 1 .. Len(r) : Old(i, j) \in 1 .. Len(l) /\ r[j] = l[Old(i, j)]
    BY <1>1, <1>2, RemovedIs
  <1>4. Len(l) \in Nat /\ i \in Nat
    BY <1>1
  <1>5. \A j \in 1 .. Len(r) : Old(i, j) # i
    BY <1>4 DEF Old
  <1>6. \A g, h \in 1 .. Len(r) : Old(i, g) = Old(i, h) => g = h
    BY <1>3, <1>4 DEF Old
  <1>7. \A h \in 1 .. Len(l) : h # i => \E j \in 1 .. Len(r) : Old(i, j) = h
    <2> TAKE h \in 1 .. Len(l)
    <2> HAVE h # i
    <2>1. CASE h < i
      BY <2>1, <1>3, <1>4 DEF Old
    <2>2. CASE h > i
      <3>1. h - 1 \in 1 .. Len(r) /\ Old(i, h - 1) = h
        BY <2>2, <1>3, <1>4 DEF Old
      <3>2. QED
        BY <3>1
    <2>3. QED
      BY <2>1, <2>2, <1>4
  <1>8. Sound(r, m2)
    <2>1. DOMAIN m2 \subseteq Keys /\ \A j \in DOMAIN m2 : m2[j] \in [value : Values, node : ListNodes]
      BY DEF Sound
    <2>2. ASSUME NEW j \in 1 .. Len(r)
          PROVE  r[j].key \in DOMAIN m2 /\ m2[r[j].key].node = r[j].node
      <3>1. r[j] = l[Old(i, j)] /\ Old(i, j) \in 1 .. Len(l) /\ Old(i, j) # i
        BY <1>3, <1>5
      <3>2. r[j].key \in DOMAIN m /\ m[r[j].key].node = r[j].node /\ r[j].key # k
        BY <3>1 DEF Sound
      <3>3. QED
        BY <3>2
    <2>3. ASSUME NEW q \in DOMAIN m2
          PROVE  \E j \in 1 .. Len(r) : r[j].key = q
      <3>1. PICK h \in 1 .. Len(l) : l[h].key = q
        BY DEF Sound
      <3>2. h # i
        BY <3>1
      <3>3. QED
        BY <3>1, <3>2, <1>7, <1>3
    <2>4. ASSUME NEW g \in 1 .. Len(r), NEW h \in 1 .. Len(r),
                 r[g].key = r[h].key \/ r[g].node = r[h].node
          PROVE  g = h
      <3>1. Old(i, g) \in 1 .. Len(l) /\ r[g] = l[Old(i, g)]
        BY <1>3
      <3>2. Old(i, h) \in 1 .. Len(l) /\ r[h] = l[Old(i, h)]
        BY <1>3
      <3>3. \A a, z \in 1 .. Len(l) : l[a].key = l[z].key \/ l[a].node = l[z].node => a = z
        BY ZenonT(30), SMTT(30) DEF Sound
      <3>4. Old(i, g) = Old(i, h)
        BY <2>4, <3>1, <3>2, <3>3, ZenonT(30), SMTT(30)
      <3>5. QED
        BY <3>4, <1>6
    <2>5. QED
      BY <1>3, <2>1, <2>2, <2>3, <2>4 DEF Sound
  <1>9. Owing(m2, Minus(w, m[k].value))
    BY <1>1, SoundSize, DropCounts
  <1>10. QED
    BY <1>1, <1>2, <1>8, <1>9

IsEntry(e, v, x) == e \in [value : {v}, node : {x}] /\ e.value = v /\ e.node = x

\* A key is put in front of the list, at a free node, and into the map.
LEMMA PutIn ==
  ASSUME NEW l, NEW m, NEW w, Sound(l, m), Owing(m, w),
         NEW k \in Keys, k \notin DOMAIN m, NEW v \in Values, NEW x \in ListNodes,
         \A i \in 1 .. Len(l) : l[i].node # x,
         NEW m2, DOMAIN m2 = DOMAIN m \cup {k}, IsEntry(m2[k], v, x),
         \A j \in DOMAIN m : m2[j] = m[j]
  PROVE  /\ Sound(Front(l, k, x), m2)
         /\ Owing(m2, Plus(w, v))
  <1>1. l \in Seq(Item) /\ Len(l) \in Nat
    BY DEF Sound
  <1>2. PICK y : y = [node |-> x, key |-> k]
    OBVIOUS
  <1>3. y \in Item /\ y.key = k /\ y.node = x
    BY <1>2 DEF Item
  <1>4. PICK r : r = <<y>> \o l
    OBVIOUS
  <1>5. /\ r \in Seq(Item) /\ Len(r) = Len(l) + 1
        /\ r[1] = y
        /\ \A j \in 1 .. Len(r) : j # 1 => j - 1 \in 1 .. Len(l) /\ r[j] = l[j - 1]
        /\ \A j \in 1 .. Len(l) : j + 1 \in 1 .. Len(r) /\ r[j + 1] = l[j]
    BY <1>1, <1>3, <1>4
  <1>6. Sound(r, m2)
    <2>1. DOMAIN m2 \subseteq Keys /\ \A j \in DOMAIN m2 : m2[j] \in [value : Values, node : ListNodes]
      BY DEF Sound, IsEntry
    <2>2. \A j \in 1 .. Len(r) : r[j].key \in DOMAIN m2 /\ m2[r[j].key].node = r[j].node
      <3> TAKE j \in 1 .. Len(r)
      <3>1. CASE j = 1
        BY <3>1, <1>3, <1>5 DEF IsEntry
      <3>2. CASE j # 1
        <4>1. j - 1 \in 1 .. Len(l) /\ r[j] = l[j - 1]
          BY <3>2, <1>5
        <4>2. r[j].key \in DOMAIN m /\ m[r[j].key].node = r[j].node
          BY <4>1 DEF Sound
        <4>3. QED
          BY <4>2
      <3>3. QED
        BY <3>1, <3>2
    <2>3. \A q \in DOMAIN m2 : \E j \in 1 .. Len(r) : r[j].key = q
      <3> TAKE q \in DOMAIN m2
      <3>1. CASE q = k
        BY <3>1, <1>1, <1>3, <1>5
      <3>2. CASE q # k
        <4>1. PICK i \in 1 .. Len(l) : l[i].key = q
          BY <3>2 DEF Sound
        <4>2. QED
          BY <4>1, <1>5
      <3>3. QED
        BY <3>1, <3>2
    <2>4. ASSUME NEW j \in 1 .. Len(r), j # 1
          PROVE  r[j].key # k /\ r[j].node # x
      <3>1. j - 1 \in 1 .. Len(l) /\ r[j] = l[j - 1]
        BY <2>4, <1>5
      <3>2. QED
        BY <3>1 DEF Sound
    <2>5. \A i, j \in 1 .. Len(r) : r[i].key = r[j].key \/ r[i].node = r[j].node => i = j
      <3> TAKE i, j \in 1 .. Len(r)
      <3> HAVE r[i].key = r[j].key \/ r[i].node = r[j].node
      <3>1. CASE i = 1 \/ j = 1
        BY <3>1, <2>4, <1>3, <1>5
      <3>2. CASE i # 1 /\ j # 1
        <4>1. i - 1 \in 1 .. Len(l) /\ r[i] = l[i - 1]
          BY <3>2, <1>5
        <4>2. j - 1 \in 1 .. Len(l) /\ r[j] = l[j - 1]
          BY <3>2, <1>5
        <4>3. i - 1 = j - 1
          <5>1. PICK g \in 1 .. Len(l) : g = i - 1
            BY <4>1
          <5>2. PICK h \in 1 .. Len(l) : h = j - 1
            BY <4>2
          <5>3. l[g].key = l[h].key \/ l[g].node = l[h].node
            BY <4>1, <4>2, <5>1, <5>2
          <5>4. g = h
            BY <5>3 DEF Sound
          <5>5. QED
            BY <5>1, <5>2, <5>4
        <4>4. i \in Int /\ j \in Int
          OBVIOUS
        <4>5. QED
          BY <4>3, <4>4
      <3>3. QED
        BY <3>1, <3>2
    <2>6. QED
      BY <1>5, <2>1, <2>2, <2>3, <2>5 DEF Sound
  <1>7. m2[k].value = v
    BY DEF IsEntry
  <1>8. Owing(m2, Plus(w, v))
    <2>1. IsFiniteSet(DOMAIN m)
      BY SoundSize
    <2>2. QED
      BY <2>1, <1>7, PutCounts
  <1>9. QED
    BY <1>2, <1>4, <1>6, <1>8 DEF Front

\* The end of the list is cut off, and the values of its keys are handed over.
LEMMA CutOff ==
  ASSUME NEW l, NEW m, NEW w, Sound(l, m), Owing(m, w), NEW n \in 0 .. Len(l),
         NEW gone, gone = {l[i].key : i \in (n + 1) .. Len(l)},
         NEW m2, DOMAIN m2 = DOMAIN m \ gone, \A k \in DOMAIN m2 : m2[k] = m[k]
  PROVE  /\ gone \subseteq DOMAIN m
         /\ Sound(SubSeq(l, 1, n), m2)
         /\ Owing(m2, Reckoned(m, w, gone))
  <1>1. l \in Seq(Item) /\ Len(l) \in Nat /\ n \in Nat
    BY DEF Sound
  <1>2. gone \subseteq DOMAIN m
    BY <1>1 DEF Sound
  <1>3. PICK r : r = SubSeq(l, 1, n)
    OBVIOUS
  <1>4. r \in Seq(Item) /\ Len(r) = n /\ \A j \in 1 .. n : j \in 1 .. Len(l) /\ r[j] = l[j]
    BY <1>1, <1>3
  <1>5. Sound(r, m2)
    <2>1. DOMAIN m2 \subseteq Keys /\ \A j \in DOMAIN m2 : m2[j] \in [value : Values, node : ListNodes]
      BY DEF Sound
    <2>2. ASSUME NEW j \in 1 .. Len(r)
          PROVE  r[j].key \in DOMAIN m2 /\ m2[r[j].key].node = r[j].node
      <3>1. j \in 1 .. Len(l) /\ r[j] = l[j] /\ \A h \in (n + 1) .. Len(l) : h \in 1 .. Len(l) /\ h # j
        BY <1>1, <1>4
      <3>2. r[j].key \in DOMAIN m /\ m[r[j].key].node = r[j].node
        BY <3>1 DEF Sound
      <3>3. r[j].key \notin gone
        <4>1. SUFFICES ASSUME r[j].key \in gone
                       PROVE  FALSE
          OBVIOUS
        <4>2. PICK h \in (n + 1) .. Len(l) : l[h].key = l[j].key
          BY <4>1, <3>1
        <4>3. h \in 1 .. Len(l) /\ h # j
          BY <3>1
        <4>4. QED
          BY <4>2, <4>3, <3>1 DEF Sound
      <3>4. QED
        BY <3>2, <3>3
    <2>3. ASSUME NEW q \in DOMAIN m2
          PROVE  \E j \in 1 .. Len(r) : r[j].key = q
      <3>1. PICK h \in 1 .. Len(l) : l[h].key = q
        BY DEF Sound
      <3>2. h \notin (n + 1) .. Len(l)
        BY <3>1
      <3>3. h \in 1 .. n
        BY <3>2, <1>1
      <3>4. QED
        BY <3>1, <3>3, <1>4
    <2>4. ASSUME NEW g \in 1 .. Len(r), NEW h \in 1 .. Len(r),
                 r[g].key = r[h].key \/ r[g].node = r[h].node
          PROVE  g = h
      <3>1. g \in 1 .. Len(l) /\ r[g] = l[g] /\ h \in 1 .. Len(l) /\ r[h] = l[h]
        BY <1>4
      <3>2. QED
        BY <2>4, <3>1 DEF Sound
    <2>5. QED
      BY <1>4, <2>1, <2>2, <2>3, <2>4 DEF Sound
  <1>6. ASSUME NEW v \in Values
        PROVE  /\ Reckoned(m, w, gone)[v] \in Nat
               /\ Reckoned(m, w, gone)[v] = Cardinality(Valued(m2, v))
    <2>1. IsFiniteSet(DOMAIN m)
      BY SoundSize
    <2>2. IsFiniteSet(Valued(m, v)) /\ IsFiniteSet(Valued(m2, v))
      <3>1. Valued(m, v) \in SUBSET DOMAIN m /\ Valued(m2, v) \in SUBSET DOMAIN m
        BY DEF Valued
      <3>2. QED
        BY <2>1, <3>1, FS_Subset
    <2>3. PICK g : g = {k \in gone : m[k].value = v}
      OBVIOUS
    <2>4. Valued(m2, v) = Valued(m, v) \ g /\ Valued(m, v) \cap g = g
      BY <1>2, <2>3 DEF Valued
    <2>5. Cardinality(Valued(m2, v)) = Cardinality(Valued(m, v)) - Cardinality(g)
      BY <2>2, <2>4, FS_Difference
    <2>6. w[v] = Cardinality(Valued(m, v))
      BY DEF Owing
    <2>7. Cardinality(Valued(m2, v)) \in Nat
      BY <2>2, FS_CardinalityType
    <2>8. Reckoned(m, w, gone)[v] = w[v] - Cardinality(g)
      BY <2>3 DEF Reckoned
    <2>9. QED
      BY <2>5, <2>6, <2>7, <2>8
  <1>7. Owing(m2, Reckoned(m, w, gone))
    <2>1. Reckoned(m, w, gone) \in [Values -> Nat]
      BY <1>6 DEF Reckoned
    <2>2. QED
      BY <2>1, <1>6 DEF Owing
  <1>8. QED
    BY <1>2, <1>3, <1>5, <1>7

\* An empty cache owes nothing.
LEMMA EmptySound ==
  /\ Sound(<<>>, <<>>)
  /\ Owing(<<>>, [v \in Values |-> 0])
  <1>1. Sound(<<>>, <<>>)
    BY DEF Sound
  <1>2. \A v \in Values : Valued(<<>>, v) = {}
    BY DEF Valued
  <1>3. QED
    BY <1>1, <1>2, FS_EmptySet DEF Owing

-----------------------------------------------------------------------------
(* What the parts make of a cache of list l, map m and debts w. *)

Record(l, m, w) == [list |-> l, map |-> m, owed |-> w]
Less(m, k) == Restrict(m, DOMAIN m \ {k})
Free(l, x) == x \in ListNodes /\ \A i \in 1 .. Len(l) : l[i].node # x

LEMMA Fields ==
  ASSUME NEW l, NEW m, NEW w
  PROVE  Record(l, m, w).list = l /\ Record(l, m, w).map = m /\ Record(l, m, w).owed = w
  BY DEF Record

LEMMA WithList ==
  ASSUME NEW l, NEW m, NEW w, NEW x
  PROVE  [Record(l, m, w) EXCEPT !.list = x] = Record(x, m, w)
  BY DEF Record

LEMMA WithMap ==
  ASSUME NEW l, NEW m, NEW w, NEW x
  PROVE  [Record(l, m, w) EXCEPT !.map = x] = Record(l, x, w)
  BY DEF Record

LEMMA PaidIs ==
  ASSUME NEW l, NEW m, NEW w, NEW v
  PROVE  Paid(Record(l, m, w), v) = Record(l, m, Minus(w, v))
  BY DEF Record, Paid, Minus

LEMMA UnlistedIs ==
  ASSUME NEW l, NEW m, NEW w, Sound(l, m), NEW i \in 1 .. Len(l)
  PROVE  Unlisted(Record(l, m, w), l[i].node) = Record(Removed(l, i), m, w)
  <1>1. l \in Seq(Item) /\ DOMAIN l = 1 .. Len(l)
    BY DEF Sound
  <1>2. \A j \in 1 .. Len(l) : l[j].node = l[i].node <=> j = i
    BY DEF Sound
  <1>3. At(Record(l, m, w), l[i].node) = i
    BY <1>1, <1>2 DEF At, Record
  <1>4. QED
    BY <1>3 DEF Unlisted, Record

LEMMA EraseIs ==
  ASSUME NEW l, NEW m, NEW w, NEW k
  PROVE  map_erase(Record(l, m, w), k) = Record(l, Less(m, k), Minus(w, m[k].value))
  <1>1. Paid(Record(l, m, w), Record(l, m, w).map[k].value) = Record(l, m, Minus(w, m[k].value))
    BY Fields, PaidIs
  <1>2. QED
    BY <1>1 DEF map_erase, Less, Record

LEMMA EraseOldestIs ==
  ASSUME NEW l \in Seq(Item), l # <<>>, NEW m, NEW w, NEW k, k = l[Len(l)].key
  PROVE  /\ Len(l) \in 1 .. Len(l)
         /\ erase_oldest(Record(l, m, w)) = Record(Removed(l, Len(l)), Less(m, k), Minus(w, m[k].value))
  <1>1. Len(l) \in 1 .. Len(l)
    OBVIOUS
  <1>2. erase_oldest(Record(l, m, w)) = map_erase(Record(Removed(l, Len(l)), m, w), k)
    BY DEF erase_oldest, Record
  <1>3. QED
    BY <1>1, <1>2, EraseIs

LEMMA PushFrontIs ==
  ASSUME NEW l \in Seq(Item), NEW m, NEW w, NEW k, NEW v,
         \E x \in ListNodes : Free(l, x)
  PROVE  \E x \in ListNodes :
           Free(l, x) /\ PushFront(Record(l, m, w), k, v) = Record(Front(l, k, x), Put(m, k, v, x), w)
  <1>1. PICK x : x = NewNode(Record(l, m, w))
    OBVIOUS
  <1>2. DOMAIN l = 1 .. Len(l) /\ Record(l, m, w).list = l
    BY DEF Record
  <1>3. Free(l, x)
    BY <1>1, <1>2 DEF NewNode, Free
  <1>4. PushFront(Record(l, m, w), k, v) = Record(Front(l, k, x), Put(m, k, v, x), w)
    BY <1>1, Fields DEF PushFront, Record
  <1>5. QED
    BY <1>3, <1>4 DEF Free

-----------------------------------------------------------------------------
(* The calls. *)

LEMMA GivenIs ==
  ASSUME NEW l, NEW m, NEW w, NEW v
  PROVE  Given(Record(l, m, w), v) = Record(l, m, Plus(w, v))
  BY DEF Record, Given, Plus

LEMMA Sets ==
  ASSUME NEW l, NEW m, NEW w, SetCache(Record(l, m, w))
  PROVE  m_list' = l /\ m_map' = m /\ owed' = w
  BY Fields DEF SetCache

LEMMA Room ==
  ASSUME NEW l \in Seq(Item), NEW n \in Capacities, Len(l) < n
  PROVE  \E x \in ListNodes : Free(l, x)
  <1>1. n \in Nat /\ \E S \in SUBSET ListNodes : IsFiniteSet(S) /\ Cardinality(S) = n
    BY CacheAssumption
  <1>2. \E x \in ListNodes : \A i \in 1 .. Len(l) : l[i].node # x
    BY <1>1, FreeNode
  <1>3. QED
    BY <1>2 DEF Free

\* make_space leaves a cache with room: what it was, or that without its last key.
Spared(l, m) ==
  \/ Len(m_list) < m_capacity /\ l = m_list /\ m = m_map
  \/ /\ Len(m_list) = m_capacity
     /\ l = Removed(m_list, Len(m_list))
     /\ m = Less(m_map, m_list[Len(m_list)].key)

LEMMA LessIs ==
  ASSUME NEW m, NEW k
  PROVE  DOMAIN Less(m, k) = DOMAIN m \ {k} /\ \A j \in DOMAIN Less(m, k) : Less(m, k)[j] = m[j]
  BY DEF Less, Restrict

LEMMA MakeSpaceIs ==
  ASSUME CacheInv, m_capacity > 0
  PROVE  \E l, m, w :
           /\ make_space(Cache) = Record(l, m, w)
           /\ Spared(l, m) /\ Sound(l, m) /\ Owing(m, w)
           /\ Len(l) < m_capacity
           /\ DOMAIN m \subseteq DOMAIN m_map
  <1>1. Cache = Record(m_list, m_map, owed)
    BY DEF Cache, Record
  <1>2. Sound(m_list, m_map) /\ Owing(m_map, owed) /\ m_capacity \in Nat /\ Len(m_list) <= m_capacity
    BY CacheFacts
  <1>3. Cardinality(DOMAIN m_map) = Len(m_list) /\ Len(m_list) \in Nat /\ m_list \in Seq(Item)
    BY <1>2, SoundSize DEF Sound
  <1>4. make_space(Cache) = IF Len(m_list) = m_capacity THEN erase_oldest(Cache) ELSE Cache
    BY <1>1, <1>3, Fields DEF make_space
  <1>5. CASE Len(m_list) # m_capacity
    BY <1>1, <1>2, <1>3, <1>4, <1>5 DEF Spared
  <1>6. CASE Len(m_list) = m_capacity
    <2>1. PICK k : k = m_list[Len(m_list)].key
      OBVIOUS
    <2>2. PICK u : u = Minus(owed, m_map[k].value)
      OBVIOUS
    <2>3. m_list # <<>>
      BY <1>3, <1>6
    <2>4. /\ Len(m_list) \in 1 .. Len(m_list)
          /\ make_space(Cache) = Record(Removed(m_list, Len(m_list)), Less(m_map, k), u)
      <3>1. erase_oldest(Record(m_list, m_map, owed)) = Record(Removed(m_list, Len(m_list)), Less(m_map, k), u)
        BY <1>3, <2>1, <2>2, <2>3, EraseOldestIs
      <3>2. QED
        BY <1>1, <1>3, <1>4, <1>6, <2>3, <3>1
    <2>5. PICK i \in 1 .. Len(m_list) : i = Len(m_list)
      BY <2>4
    <2>6. Sound(Removed(m_list, i), Less(m_map, k)) /\ Owing(Less(m_map, k), u)
      <3>1. PICK m2 : m2 = Less(m_map, k)
        OBVIOUS
      <3>2. DOMAIN m2 = DOMAIN m_map \ {k} /\ \A j \in DOMAIN m2 : m2[j] = m_map[j]
        BY <3>1, LessIs
      <3>3. QED
        BY <1>2, <2>1, <2>2, <2>5, <3>1, <3>2, TakeOut, SMTT(30), ZenonT(30)
    <2>7. Len(Removed(m_list, i)) = Len(m_list) - 1
      BY <1>3, RemovedIs
    <2>8. Spared(Removed(m_list, i), Less(m_map, k))
      BY <1>6, <2>1, <2>5 DEF Spared
    <2>9. DOMAIN Less(m_map, k) \subseteq DOMAIN m_map
      BY LessIs
    <2>10. QED
      BY <1>3, <1>6, <2>4, <2>5, <2>6, <2>7, <2>8, <2>9
  <1>7. QED
    BY <1>5, <1>6

\* What insertion makes of the cache.
LEMMA InsertedIs ==
  ASSUME CacheInv, m_capacity > 0, NEW k \in Keys, k \notin DOMAIN m_map, NEW v \in Values
  PROVE  \E l, m, x, w :
           /\ Inserted(k, v) = Record(Front(l, k, x), Put(m, k, v, x), w)
           /\ Spared(l, m) /\ Sound(l, m) /\ DOMAIN m \subseteq DOMAIN m_map /\ Free(l, x)
           /\ Len(Front(l, k, x)) <= m_capacity
           /\ Sound(Front(l, k, x), Put(m, k, v, x))
           /\ Owing(Put(m, k, v, x), w)
  <1>1. PICK l, m, w : /\ make_space(Cache) = Record(l, m, w)
                       /\ Spared(l, m) /\ Sound(l, m) /\ Owing(m, w)
                       /\ Len(l) < m_capacity
                       /\ DOMAIN m \subseteq DOMAIN m_map
    BY MakeSpaceIs
  <1>2. m_capacity \in Capacities /\ m_capacity \in Nat /\ l \in Seq(Item)
    BY <1>1, CacheFacts DEF Sound
  <1>3. \E x \in ListNodes : Free(l, x)
    BY <1>1, <1>2, Room
  <1>4. PICK x \in ListNodes :
          Free(l, x) /\ PushFront(Record(l, m, w), k, v) = Record(Front(l, k, x), Put(m, k, v, x), w)
    BY <1>2, <1>3, PushFrontIs
  <1>5. PICK u : u = Plus(w, v)
    OBVIOUS
  <1>6. Inserted(k, v) = Record(Front(l, k, x), Put(m, k, v, x), u)
    <2>1. Given(Record(Front(l, k, x), Put(m, k, v, x), w), v) = Record(Front(l, k, x), Put(m, k, v, x), u)
      BY <1>5, GivenIs
    <2>2. QED
      BY <1>1, <1>4, <2>1 DEF Inserted
  <1>7. Sound(Front(l, k, x), Put(m, k, v, x)) /\ Owing(Put(m, k, v, x), u)
    <2>1. PICK m2 : m2 = Put(m, k, v, x)
      OBVIOUS
    <2>2. k \notin DOMAIN m /\ \A i \in 1 .. Len(l) : l[i].node # x
      BY <1>1, <1>4 DEF Free
    <2>3. /\ DOMAIN m2 = DOMAIN m \cup {k} /\ IsEntry(m2[k], v, x)
          /\ \A j \in DOMAIN m \ {k} : m2[j] = m[j]
      BY <2>1 DEF Put, IsEntry
    <2>4. \A j \in DOMAIN m : m2[j] = m[j]
      BY <2>2, <2>3
    <2>5. QED
      BY <1>1, <1>5, <2>1, <2>2, <2>3, <2>4, PutIn
  <1>8. Len(Front(l, k, x)) <= m_capacity
    <2>1. Len(Front(l, k, x)) = Len(l) + 1
      BY <1>2 DEF Front
    <2>2. QED
      BY <1>1, <1>2, <2>1
  <1>9. QED
    BY <1>1, <1>4, <1>6, <1>7, <1>8

\* What touch and assign make of it.
LEMMA RefreshIs ==
  ASSUME CacheInv, NEW k \in DOMAIN m_map, NEW v \in Values, NEW w
  PROVE  \E i \in 1 .. Len(m_list), x \in ListNodes :
           /\ m_list[i].key = k
           /\ Refresh(Record(m_list, m_map, w), k, v)
                = Record(Front(Removed(m_list, i), k, x), Put(m_map, k, v, x), w)
           /\ Free(Removed(m_list, i), x)
           /\ Len(Front(Removed(m_list, i), k, x)) = Len(m_list)
           /\ Sound(Front(Removed(m_list, i), k, x), Put(m_map, k, v, x))
           /\ Owing(Put(m_map, k, v, x), Plus(Minus(owed, m_map[k].value), v))
  <1>1. /\ Sound(m_list, m_map) /\ Owing(m_map, owed)
        /\ m_capacity \in Capacities /\ m_capacity \in Nat /\ Len(m_list) <= m_capacity
        /\ m_list \in Seq(Item) /\ Len(m_list) \in Nat
    BY CacheFacts
  <1>2. PICK i \in 1 .. Len(m_list) : m_list[i].key = k
    BY <1>1 DEF Sound
  <1>3. m_list[i].node = m_map[k].node /\ k \in Keys
    BY <1>1, <1>2 DEF Sound
  <1>4. PICK l : l = Removed(m_list, i)
    OBVIOUS
  <1>5. l \in Seq(Item) /\ Len(l) = Len(m_list) - 1
    BY <1>1, <1>4, RemovedIs
  <1>6. Unlisted(Record(m_list, m_map, w), m_map[k].node) = Record(l, m_map, w)
    BY <1>1, <1>3, <1>4, UnlistedIs
  <1>7. \E x \in ListNodes : Free(l, x)
    BY <1>1, <1>5, Room
  <1>8. PICK x \in ListNodes :
          Free(l, x) /\ PushFront(Record(l, m_map, w), k, v) = Record(Front(l, k, x), Put(m_map, k, v, x), w)
    BY <1>5, <1>7, PushFrontIs
  <1>9. Refresh(Record(m_list, m_map, w), k, v) = Record(Front(l, k, x), Put(m_map, k, v, x), w)
    BY <1>6, <1>8, Fields DEF Refresh
  <1>10. PICK d : d = Minus(owed, m_map[k].value)
    OBVIOUS
  <1>11. PICK m1 : m1 = Less(m_map, k)
    OBVIOUS
  <1>12. DOMAIN m1 = DOMAIN m_map \ {k} /\ \A j \in DOMAIN m1 : m1[j] = m_map[j]
    BY <1>11, LessIs
  <1>13. Sound(l, m1) /\ Owing(m1, d)
    BY <1>1, <1>2, <1>4, <1>10, <1>12, TakeOut
  <1>14. PICK m2 : m2 = Put(m_map, k, v, x)
    OBVIOUS
  <1>15. /\ DOMAIN m2 = DOMAIN m1 \cup {k} /\ IsEntry(m2[k], v, x)
         /\ \A j \in DOMAIN m1 : m2[j] = m1[j]
    <2>1. /\ DOMAIN m2 = DOMAIN m_map \cup {k} /\ IsEntry(m2[k], v, x)
          /\ \A j \in DOMAIN m_map \ {k} : m2[j] = m_map[j]
      BY <1>14 DEF Put, IsEntry
    <2>2. QED
      BY <1>12, <2>1
  <1>16. Sound(Front(l, k, x), m2) /\ Owing(m2, Plus(d, v))
    <2>1. k \notin DOMAIN m1 /\ \A j \in 1 .. Len(l) : l[j].node # x
      BY <1>8, <1>12 DEF Free
    <2>2. QED
      BY <1>3, <1>13, <1>15, <2>1, PutIn
  <1>17. Len(Front(l, k, x)) = Len(m_list)
    BY <1>1, <1>5 DEF Front
  <1>18. QED
    BY <1>2, <1>4, <1>8, <1>9, <1>10, <1>14, <1>16, <1>17

-----------------------------------------------------------------------------
(* The invariant. *)

\* What a call has to leave behind.
LEMMA Step ==
  ASSUME CacheInv, NEW l, NEW m, NEW w, SetCache(Record(l, m, w)), Sound(l, m), Owing(m, w),
         m_capacity' \in Capacities, Len(l) <= m_capacity', Nested(creating', m_capacity')
  PROVE  CacheInv'
  <1>1. m_list' = l /\ m_map' = m /\ owed' = w
    BY Sets
  <1>2. QED
    BY <1>1 DEF CacheInv

\* What insert and the end of a creation share: a key that is missing goes in front.
LEMMA TakenStep ==
  ASSUME CacheInv, NEW k \in Keys, NEW v \in Values, m_capacity > 0,
         SetCache(IF contains(k) THEN Cache ELSE Inserted(k, v)),
         UNCHANGED m_capacity, Nested(creating', m_capacity)
  PROVE  CacheInv'
  <1>1. CASE contains(k)
    <2>1. SetCache(Record(m_list, m_map, owed))
      BY <1>1 DEF Cache, Record
    <2>2. QED
      BY <2>1, Step DEF CacheInv
  <1>2. CASE ~contains(k)
    <2>1. k \notin DOMAIN m_map /\ SetCache(Inserted(k, v))
      BY <1>2 DEF contains
    <2>2. PICK l, m, x, w :
           /\ Inserted(k, v) = Record(Front(l, k, x), Put(m, k, v, x), w)
           /\ DOMAIN m \subseteq DOMAIN m_map
           /\ Len(Front(l, k, x)) <= m_capacity
           /\ Sound(Front(l, k, x), Put(m, k, v, x))
           /\ Owing(Put(m, k, v, x), w)
      BY <2>1, InsertedIs
    <2>3. QED
      BY <2>1, <2>2, Step DEF CacheInv
  <1>3. QED
    BY <1>1, <1>2

LEMMA InsertStep ==
  ASSUME CacheInv, NEW k \in Keys, NEW v \in Values, insert(k, v)
  PROVE  CacheInv'
  BY TakenStep DEF insert, CacheInv

\* What assign and touch share: k goes in front, and its old value leaves the debts for v.
LEMMA RefreshStep ==
  ASSUME CacheInv, NEW k \in DOMAIN m_map, NEW v \in Values, NEW w,
         SetCache(Record(Refresh(Record(m_list, m_map, w), k, v).list,
                         Refresh(Record(m_list, m_map, w), k, v).map,
                         Plus(Minus(owed, m_map[k].value), v))),
         UNCHANGED <<m_capacity, creating>>
  PROVE  CacheInv'
  <1>1. PICK i \in 1 .. Len(m_list), x \in ListNodes :
          /\ Refresh(Record(m_list, m_map, w), k, v)
                = Record(Front(Removed(m_list, i), k, x), Put(m_map, k, v, x), w)
          /\ Len(Front(Removed(m_list, i), k, x)) = Len(m_list)
          /\ Sound(Front(Removed(m_list, i), k, x), Put(m_map, k, v, x))
          /\ Owing(Put(m_map, k, v, x), Plus(Minus(owed, m_map[k].value), v))
    BY RefreshIs
  <1>2. SetCache(Record(Front(Removed(m_list, i), k, x), Put(m_map, k, v, x),
                        Plus(Minus(owed, m_map[k].value), v)))
    BY <1>1, Fields
  <1>3. QED
    BY <1>1, <1>2, Step DEF CacheInv

LEMMA PlusMinus ==
  ASSUME NEW w \in [Values -> Nat], NEW v \in Values
  PROVE  Plus(Minus(w, v), v) = w
  <1>1. PICK d : d = Minus(w, v)
    OBVIOUS
  <1>2. d = [u \in Values |-> IF u = v THEN w[v] - 1 ELSE w[u]]
    BY <1>1 DEF Minus
  <1>3. Plus(d, v) = [u \in Values |-> IF u = v THEN d[v] + 1 ELSE d[u]]
    BY <1>2 DEF Plus
  <1>4. (w[v] - 1) + 1 = w[v]
    OBVIOUS
  <1>5. \A u \in Values : Plus(d, v)[u] = w[u]
    BY <1>2, <1>3, <1>4
  <1>6. QED
    BY <1>1, <1>3, <1>5

LEMMA KnownValue ==
  ASSUME CacheInv, NEW k \in DOMAIN m_map
  PROVE  k \in Keys /\ m_map[k].value \in Values /\ owed \in [Values -> Nat]
  BY DEF CacheInv, Sound, Owing

LEMMA AssignStep ==
  ASSUME CacheInv, NEW k \in Keys, NEW v \in Values, assign(k, v)
  PROVE  CacheInv'
  <1>1. k \in DOMAIN m_map /\ UNCHANGED <<m_capacity, creating>>
    BY DEF assign, contains
  <1>2. PICK w : w = Minus(owed, m_map[k].value)
    OBVIOUS
  <1>3. Paid(Cache, m_map[k].value) = Record(m_list, m_map, w)
    BY <1>2, PaidIs DEF Cache, Record
  <1>4. SetCache(Given(Refresh(Record(m_list, m_map, w), k, v), v))
    BY <1>3 DEF assign
  <1>5. PICK i \in 1 .. Len(m_list), x \in ListNodes :
          Refresh(Record(m_list, m_map, w), k, v)
            = Record(Front(Removed(m_list, i), k, x), Put(m_map, k, v, x), w)
    BY <1>1, RefreshIs
  <1>6. SetCache(Record(Front(Removed(m_list, i), k, x), Put(m_map, k, v, x), Plus(w, v)))
    BY <1>4, <1>5, GivenIs
  <1>7. QED
    BY <1>1, <1>2, <1>5, <1>6, RefreshStep, Fields

LEMMA TouchStep ==
  ASSUME CacheInv, NEW k \in Keys, getCached(k)
  PROVE  CacheInv'
  <1>1. k \in DOMAIN m_map /\ UNCHANGED <<m_capacity, creating>>
    BY DEF getCached, contains
  <1>2. PICK v \in Values : v = m_map[k].value
    BY <1>1, KnownValue
  <1>3. Cache = Record(m_list, m_map, owed) /\ Cache.map = m_map
    BY DEF Cache, Record
  <1>4. SetCache(Refresh(Record(m_list, m_map, owed), k, v))
    BY <1>2, <1>3 DEF getCached, touch
  <1>5. PICK i \in 1 .. Len(m_list), x \in ListNodes :
          Refresh(Record(m_list, m_map, owed), k, v)
            = Record(Front(Removed(m_list, i), k, x), Put(m_map, k, v, x), owed)
    BY <1>1, RefreshIs
  <1>6. Plus(Minus(owed, m_map[k].value), v) = owed
    BY <1>1, <1>2, KnownValue, PlusMinus
  <1>7. SetCache(Record(Front(Removed(m_list, i), k, x), Put(m_map, k, v, x), owed))
    BY <1>4, <1>5
  <1>8. QED
    BY <1>1, <1>5, <1>6, <1>7, RefreshStep, Fields

LEMMA CreateStep ==
  ASSUME CacheInv, NEW k \in Keys, getNew(k)
  PROVE  CacheInv'
  <1>1. /\ Len(creating) < MaxDepth /\ m_capacity > 0 /\ creating' = Append(creating, k)
        /\ UNCHANGED <<m_list, m_map, m_capacity, owed>>
    BY DEF getNew
  <1>2. creating \in Seq(Keys) /\ MaxDepth \in Nat
    BY CacheAssumption DEF CacheInv, Nested
  <1>3. creating' \in Seq(Keys) /\ Len(creating') <= MaxDepth
    BY <1>1, <1>2
  <1>4. QED
    BY <1>1, <1>3 DEF CacheInv, Nested

\* A creation that runs is of a key, in a cache with room for it, and leaves the others.
LEMMA Creations ==
  ASSUME Nested(creating, m_capacity), creating # <<>>
  PROVE  /\ m_capacity > 0 /\ creating[Len(creating)] \in Keys
         /\ Nested(SubSeq(creating, 1, Len(creating) - 1), m_capacity)
  <1>1. creating \in Seq(Keys) /\ Len(creating) \in Nat /\ Len(creating) \in 1 .. Len(creating)
    BY DEF Nested
  <1>2. PICK n \in Nat : n = Len(creating) - 1
    BY <1>1
  <1>3. \A i \in 1 .. n : creating[i] \in Keys
    BY <1>1, <1>2
  <1>4. SubSeq(creating, 1, n) \in Seq(Keys) /\ Len(SubSeq(creating, 1, n)) = n
    BY <1>3, SubSeqProperties
  <1>5. PICK q : q = SubSeq(creating, 1, n)
    OBVIOUS
  <1>6. Nested(q, m_capacity)
    BY <1>1, <1>2, <1>4, <1>5, CacheAssumption DEF Nested
  <1>7. QED
    BY <1>1, <1>2, <1>5, <1>6 DEF Nested

LEMMA CreatedStep ==
  ASSUME CacheInv, NEW v \in Values, Created(v)
  PROVE  CacheInv'
  <1>1. creating # <<>> /\ Nested(creating, m_capacity)
    BY DEF Created, CacheInv
  <1>2. PICK k \in Keys : k = creating[Len(creating)]
    BY <1>1, Creations
  <1>3. /\ SetCache(IF contains(k) THEN Cache ELSE Inserted(k, v)) /\ UNCHANGED m_capacity
        /\ creating' = SubSeq(creating, 1, Len(creating) - 1)
    BY <1>2 DEF Created
  <1>4. Nested(creating', m_capacity) /\ m_capacity > 0
    BY <1>1, <1>3, Creations
  <1>5. QED
    BY <1>3, <1>4, TakenStep

LEMMA EraseStep ==
  ASSUME CacheInv, NEW k \in Keys, erase(k)
  PROVE  CacheInv'
  <1>1. k \in DOMAIN m_map /\ UNCHANGED <<m_capacity, creating>>
    BY DEF erase, contains
  <1>2. /\ Sound(m_list, m_map) /\ Owing(m_map, owed) /\ m_list \in Seq(Item)
        /\ Len(m_list) \in Nat /\ m_capacity \in Nat /\ Len(m_list) <= m_capacity
    BY CacheFacts
  <1>3. PICK i \in 1 .. Len(m_list) : m_list[i].key = k /\ m_list[i].node = m_map[k].node
    <2>1. /\ \A j \in 1 .. Len(m_list) : m_map[m_list[j].key].node = m_list[j].node
          /\ \A q \in DOMAIN m_map : \E j \in 1 .. Len(m_list) : m_list[j].key = q
      BY <1>2, ZenonT(30), SMTT(30) DEF Sound
    <2>2. QED
      BY <1>1, <2>1, ZenonT(30), SMTT(30)
  <1>4. Unlisted(Cache, m_map[k].node) = Record(Removed(m_list, i), m_map, owed)
    <2>1. Cache = Record(m_list, m_map, owed)
      BY DEF Cache, Record
    <2>2. QED
      BY <1>2, <1>3, <2>1, UnlistedIs
  <1>5. PICK m2 : m2 = Less(m_map, k)
    OBVIOUS
  <1>6. SetCache(Record(Removed(m_list, i), m2, Minus(owed, m_map[k].value)))
    BY <1>4, <1>5, EraseIs DEF erase
  <1>7. DOMAIN m2 = DOMAIN m_map \ {k} /\ \A j \in DOMAIN m2 : m2[j] = m_map[j]
    BY <1>5, LessIs
  <1>8. Sound(Removed(m_list, i), m2) /\ Owing(m2, Minus(owed, m_map[k].value))
    BY <1>2, <1>3, <1>7, TakeOut
  <1>9. Len(Removed(m_list, i)) <= m_capacity
    BY <1>2, RemovedIs
  <1>10. QED
    BY <1>1, <1>6, <1>8, <1>9, Step DEF CacheInv

LEMMA EraseOldestStep ==
  ASSUME CacheInv, EraseOldest
  PROVE  CacheInv'
  <1>1. m_list # <<>> /\ SetCache(erase_oldest(Cache)) /\ UNCHANGED <<m_capacity, creating>>
    BY DEF EraseOldest
  <1>2. /\ Sound(m_list, m_map) /\ Owing(m_map, owed) /\ m_list \in Seq(Item)
        /\ Len(m_list) \in Nat /\ m_capacity \in Nat /\ Len(m_list) <= m_capacity
    BY CacheFacts
  <1>3. PICK k : k = m_list[Len(m_list)].key
    OBVIOUS
  <1>4. PICK m2 : m2 = Less(m_map, k)
    OBVIOUS
  <1>5. Cache = Record(m_list, m_map, owed)
    BY DEF Cache, Record
  <1>6. /\ Len(m_list) \in 1 .. Len(m_list)
        /\ SetCache(Record(Removed(m_list, Len(m_list)), m2, Minus(owed, m_map[k].value)))
    BY <1>1, <1>2, <1>3, <1>4, <1>5, EraseOldestIs
  <1>7. PICK i \in 1 .. Len(m_list) : i = Len(m_list)
    BY <1>6
  <1>8. DOMAIN m2 = DOMAIN m_map \ {k} /\ \A j \in DOMAIN m2 : m2[j] = m_map[j]
    BY <1>4, LessIs
  <1>9. Sound(Removed(m_list, i), m2) /\ Owing(m2, Minus(owed, m_map[k].value))
    BY <1>2, <1>3, <1>7, <1>8, TakeOut
  <1>10. Len(Removed(m_list, i)) <= m_capacity
    BY <1>2, RemovedIs
  <1>11. QED
    BY <1>1, <1>6, <1>7, <1>9, <1>10, Step DEF CacheInv

\* What trimming makes of the cache: its first n keys, or all of them.
Trimmed(n, l, m) ==
  \/ Len(m_list) <= n /\ l = m_list /\ m = m_map
  \/ /\ Len(m_list) > n
     /\ l = SubSeq(m_list, 1, n)
     /\ m = Restrict(m_map, DOMAIN m_map \ {m_list[i].key : i \in (n + 1) .. Len(m_list)})

LEMMA TrimIs ==
  ASSUME CacheInv, NEW n \in Nat
  PROVE  \E l, m, w :
           /\ trim(Cache, n) = Record(l, m, w)
           /\ Trimmed(n, l, m) /\ Sound(l, m) /\ Owing(m, w)
           /\ Len(l) <= n /\ Len(l) <= Len(m_list)
           /\ DOMAIN m \subseteq DOMAIN m_map
  <1>1. Cache = Record(m_list, m_map, owed)
    BY DEF Cache, Record
  <1>2. Sound(m_list, m_map) /\ Owing(m_map, owed) /\ m_list \in Seq(Item) /\ Len(m_list) \in Nat
    BY DEF CacheInv, Sound
  <1>3. Cardinality(DOMAIN m_map) = Len(m_list)
    BY <1>2, SoundSize
  <1>4. CASE Len(m_list) <= n
    <2>1. trim(Cache, n) = Cache
      BY <1>1, <1>3, <1>4, Fields DEF trim
    <2>2. QED
      BY <1>1, <1>2, <1>4, <2>1 DEF Trimmed
  <1>5. CASE ~(Len(m_list) <= n)
    <2>1. PICK gone : gone = {m_list[i].key : i \in (n + 1) .. Len(m_list)}
      OBVIOUS
    <2>2. PICK m : m = Restrict(m_map, DOMAIN m_map \ gone)
      OBVIOUS
    <2>3. DOMAIN m = DOMAIN m_map \ gone /\ \A k \in DOMAIN m : m[k] = m_map[k]
      BY <2>2 DEF Restrict
    <2>4. n \in 0 .. Len(m_list)
      BY <1>2, <1>5
    <2>5. Sound(SubSeq(m_list, 1, n), m) /\ Owing(m, Reckoned(m_map, owed, gone))
      BY <1>2, <2>1, <2>3, <2>4, CutOff
    <2>6. trim(Cache, n) = Record(SubSeq(m_list, 1, n), m, Reckoned(m_map, owed, gone))
      BY <1>1, <1>3, <1>5, <2>1, <2>2, Fields DEF trim, Record, Reckoned
    <2>7. Len(SubSeq(m_list, 1, n)) = n /\ n <= Len(m_list)
      BY <1>2, <2>4
    <2>8. Trimmed(n, SubSeq(m_list, 1, n), m)
      BY <1>2, <1>5, <2>1, <2>2 DEF Trimmed
    <2>9. PICK l : l = SubSeq(m_list, 1, n)
      OBVIOUS
    <2>10. Len(l) <= n /\ Len(l) <= Len(m_list) /\ DOMAIN m \subseteq DOMAIN m_map
      BY <2>3, <2>7, <2>9
    <2>11. QED
      BY <2>5, <2>6, <2>8, <2>9, <2>10
  <1>6. QED
    BY <1>4, <1>5

LEMMA ResizeStep ==
  ASSUME CacheInv, NEW n \in Capacities, resize(n)
  PROVE  CacheInv'
  <1>1. (n > 0 \/ creating = <<>>) /\ m_capacity' = n /\ SetCache(trim(Cache, n)) /\ UNCHANGED creating
    BY DEF resize
  <1>2. PICK l, m, w :
          /\ trim(Cache, n) = Record(l, m, w)
          /\ Sound(l, m) /\ Owing(m, w)
          /\ Len(l) <= n
          /\ DOMAIN m \subseteq DOMAIN m_map
    BY CacheAssumption, TrimIs
  <1>3. Nested(creating, n)
    BY <1>1 DEF CacheInv, Nested
  <1>4. QED
    BY <1>1, <1>2, <1>3, Step

LEMMA ClearStep ==
  ASSUME CacheInv, clear
  PROVE  CacheInv'
  <1>1. SetCache(trim(Cache, 0)) /\ UNCHANGED <<m_capacity, creating>>
    BY DEF clear
  <1>2. PICK l, m, w :
          /\ trim(Cache, 0) = Record(l, m, w)
          /\ Sound(l, m) /\ Owing(m, w)
          /\ Len(l) <= Len(m_list)
          /\ DOMAIN m \subseteq DOMAIN m_map
    BY TrimIs
  <1>3. Len(l) <= m_capacity
    BY <1>2, CacheAssumption DEF CacheInv, Sound
  <1>4. QED
    BY <1>1, <1>2, <1>3, Step DEF CacheInv

\* Forgetting or destroying leaves an empty cache.
LEMMA EmptiedStep ==
  ASSUME CacheInv, m_list' = <<>>, m_map' = <<>>, owed' = [v \in Values |-> 0],
         m_capacity' \in Capacities, UNCHANGED creating, creating # <<>> => m_capacity' > 0
  PROVE  CacheInv'
  <1>1. Nested(creating', m_capacity')
    BY DEF CacheInv, Nested
  <1>2. Sound(m_list', m_map') /\ Owing(m_map', owed')
    BY EmptySound
  <1>3. Len(m_list') <= m_capacity'
    BY CacheAssumption
  <1>4. QED
    BY <1>1, <1>2, <1>3 DEF CacheInv

LEMMA ForgetStep ==
  ASSUME CacheInv, reset_lose_memory
  PROVE  CacheInv'
  BY EmptiedStep DEF reset_lose_memory, CacheInv, Nested

LEMMA DestroyStep ==
  ASSUME CacheInv, DestroyCache
  PROVE  CacheInv'
  <1>1. owed' = [v \in Values |-> 0]
    <2>1. \A v \in Values : owed[v] \in Nat /\ owed[v] = Cardinality({k \in DOMAIN m_map : m_map[k].value = v})
      BY DEF CacheInv, Owing, Valued
    <2>2. QED
      BY <2>1 DEF DestroyCache
  <1>2. QED
    BY <1>1, EmptiedStep DEF DestroyCache

LEMMA CacheInductive == CacheSpec => []CacheInv
  <1>1. CacheInit => CacheInv
    <2> SUFFICES ASSUME CacheInit
                 PROVE  CacheInv
      OBVIOUS
    <2>1. Sound(m_list, m_map) /\ Owing(m_map, owed)
      BY EmptySound DEF CacheInit
    <2>2. QED
      BY <2>1, CacheAssumption DEF CacheInit, CacheInv, Nested
  <1>2. CacheInv /\ CacheNext => CacheInv'
    BY InsertStep, AssignStep, TouchStep, CreateStep, CreatedStep, EraseStep, EraseOldestStep,
       ResizeStep, ClearStep, ForgetStep, DestroyStep DEF CacheNext
  <1>3. CacheInv /\ UNCHANGED cachevars => CacheInv'
    BY DEF cachevars, CacheInv
  <1>4. QED
    BY <1>1, <1>2, <1>3, PTL DEF CacheSpec

\* List and map hold the same keys, at the positions the map says, and no more
\* of them than the capacity, whatever a create callback did to the cache.
THEOREM ListAndMapAgree == CacheSpec => []ListMatchesMap
  <1>1. CacheInv => ListMatchesMap
    <2> SUFFICES ASSUME CacheInv
                 PROVE  ListMatchesMap
      OBVIOUS
    <2>1. Sound(m_list, m_map) /\ Owing(m_map, owed) /\ m_capacity \in Nat
      BY CacheFacts
    <2>2. CacheTypeOK
      BY <2>1 DEF CacheInv, Sound, Owing, Nested, Item, CacheTypeOK
    <2>3. \A k \in DOMAIN m_map : \E i \in DOMAIN m_list : m_list[i] = [node |-> m_map[k].node, key |-> k]
      <3> TAKE k \in DOMAIN m_map
      <3>1. PICK i \in 1 .. Len(m_list) : m_list[i].key = k /\ m_list[i].node = m_map[k].node
        BY <2>1 DEF Sound
      <3>2. i \in DOMAIN m_list /\ m_list[i] \in Item
        BY <2>1 DEF Sound
      <3>3. QED
        BY <3>1, <3>2 DEF Item
    <2>4. QED
      BY <2>1, <2>2, <2>3, SoundSize DEF ListMatchesMap, CacheInv
  <1>2. QED
    BY <1>1, CacheInductive, PTL

\* A value the cache took is in it, or was handed to the delete callback, and
\* once, also when a create callback has cached the key it creates a value for:
\* what is owed of a value is how often the map holds it.
THEOREM ValuesDeletedOnce == CacheSpec => []DeletedOnce
  <1>1. CacheInv => DeletedOnce
    BY DEF CacheInv, Owing, Valued, DeletedOnce
  <1>2. QED
    BY <1>1, CacheInductive, PTL

-----------------------------------------------------------------------------
(* The order of use: a key is older than those in front of it.                *)

Ent(m) == [k \in DOMAIN m |-> m[k].value]
Pos(l, k) == CHOOSE i \in DOMAIN l : l[i].key = k
KeysOf(l) == {l[i].key : i \in DOMAIN l}
Order(l) == {x \in KeysOf(l) \X KeysOf(l) : Pos(l, x[1]) > Pos(l, x[2])}
Thin(l, S) == {x \in Order(l) : x[1] \notin S /\ x[2] \notin S}

LEMMA PosIs ==
  ASSUME NEW l, NEW m, Sound(l, m)
  PROVE  /\ KeysOf(l) = DOMAIN m
         /\ \A i \in 1 .. Len(l) : Pos(l, l[i].key) = i
         /\ \A k \in DOMAIN m : Pos(l, k) \in 1 .. Len(l) /\ l[Pos(l, k)].key = k
  <1>1. DOMAIN l = 1 .. Len(l)
    BY DEF Sound
  <1>2. KeysOf(l) = DOMAIN m
    <2>1. \A i \in 1 .. Len(l) : l[i].key \in DOMAIN m
      BY DEF Sound
    <2>2. \A k \in DOMAIN m : \E i \in 1 .. Len(l) : l[i].key = k
      BY DEF Sound
    <2>3. QED
      BY <1>1, <2>1, <2>2 DEF KeysOf
  <1>3. ASSUME NEW i \in 1 .. Len(l)
        PROVE  Pos(l, l[i].key) = i
    <2>1. \A j \in 1 .. Len(l) : l[j].key = l[i].key <=> j = i
      BY DEF Sound
    <2>2. QED
      BY <1>1, <2>1 DEF Pos
  <1>4. ASSUME NEW k \in DOMAIN m
        PROVE  Pos(l, k) \in 1 .. Len(l) /\ l[Pos(l, k)].key = k
    <2>1. PICK i \in 1 .. Len(l) : l[i].key = k
      BY DEF Sound
    <2>2. QED
      BY <2>1, <1>3
  <1>5. QED
    BY <1>2, <1>3, <1>4

\* Keys leave and the others keep their order.
LEMMA Thinned ==
  ASSUME NEW l, NEW m, NEW r, NEW m2, NEW S, Sound(l, m), Sound(r, m2), DOMAIN m2 = DOMAIN m \ S,
         \A j, k \in DOMAIN m2 : Pos(r, j) > Pos(r, k) <=> Pos(l, j) > Pos(l, k)
  PROVE  Order(r) = Thin(l, S)
  <1>1. KeysOf(r) = DOMAIN m2 /\ KeysOf(l) = DOMAIN m
    BY PosIs
  <1>2. QED
    BY <1>1 DEF Order, Thin

LEMMA RemovedOrder ==
  ASSUME NEW l, NEW m, Sound(l, m), NEW i \in 1 .. Len(l), NEW m2, DOMAIN m2 = DOMAIN m \ {l[i].key},
         Sound(Removed(l, i), m2)
  PROVE  Order(Removed(l, i)) = Thin(l, {l[i].key})
  <1>1. PICK r : r = Removed(l, i)
    OBVIOUS
  <1>2. Len(l) \in Nat /\ Len(r) = Len(l) - 1
        /\ \A j \in 1 .. Len(r) : Old(i, j) \in 1 .. Len(l) /\ r[j] = l[Old(i, j)]
    <2>1. l \in Seq(Item) /\ Len(l) \in Nat
      BY DEF Sound
    <2>2. QED
      BY <1>1, <2>1, RemovedIs
  <1>3. ASSUME NEW k \in DOMAIN m2
        PROVE  Pos(r, k) \in 1 .. Len(r) /\ Pos(l, k) = Old(i, Pos(r, k))
    <2>1. Pos(r, k) \in 1 .. Len(r) /\ r[Pos(r, k)].key = k
      BY <1>1, PosIs
    <2>2. PICK h \in 1 .. Len(l) : h = Old(i, Pos(r, k)) /\ l[h].key = k
      BY <1>2, <2>1
    <2>3. Pos(l, k) = h
      BY <2>2, PosIs
    <2>4. QED
      BY <2>1, <2>2, <2>3
  <1>4. ASSUME NEW j \in DOMAIN m2, NEW k \in DOMAIN m2
        PROVE  Pos(r, j) > Pos(r, k) <=> Pos(l, j) > Pos(l, k)
    BY <1>2, <1>3 DEF Old
  <1>5. QED
    BY <1>1, <1>4, Thinned

LEMMA CutOrder ==
  ASSUME NEW l, NEW m, Sound(l, m), NEW n \in 0 .. Len(l), NEW m2, NEW gone,
         DOMAIN m2 = DOMAIN m \ gone, Sound(SubSeq(l, 1, n), m2)
  PROVE  Order(SubSeq(l, 1, n)) = Thin(l, gone)
  <1>1. PICK r : r = SubSeq(l, 1, n)
    OBVIOUS
  <1>2. /\ l \in Seq(Item) /\ Len(l) \in Nat /\ n \in Nat
        /\ Len(r) = n /\ \A j \in 1 .. n : j \in 1 .. Len(l) /\ r[j] = l[j]
    BY <1>1 DEF Sound
  <1>3. ASSUME NEW k \in DOMAIN m2
        PROVE  Pos(l, k) = Pos(r, k)
    <2>1. Pos(r, k) \in 1 .. Len(r) /\ r[Pos(r, k)].key = k
      BY <1>1, PosIs
    <2>2. PICK h \in 1 .. Len(l) : h = Pos(r, k) /\ l[h].key = k
      BY <1>2, <2>1
    <2>3. QED
      BY <2>2, PosIs
  <1>4. QED
    BY <1>1, <1>3, Thinned

\* The keys of S come before k.
Before(S, k) == S \X {k}

LEMMA BeforeIs ==
  ASSUME NEW S, NEW k, NEW z
  PROVE  z \in Before(S, k) <=> \E j \in S : z = <<j, k>>
  BY DEF Before

LEMMA FrontOrder ==
  ASSUME NEW l, NEW m, Sound(l, m), NEW k, k \notin DOMAIN m, NEW x, NEW m2,
         DOMAIN m2 = DOMAIN m \cup {k}, Sound(Front(l, k, x), m2)
  PROVE  Order(Front(l, k, x)) = Order(l) \cup Before(DOMAIN m, k)
  <1>1. PICK r : r = Front(l, k, x)
    OBVIOUS
  <1>2. PICK y : y = [node |-> x, key |-> k]
    OBVIOUS
  <1>3. /\ l \in Seq(Item) /\ Len(l) \in Nat
        /\ r = <<y>> \o l /\ y.key = k
    BY <1>1, <1>2 DEF Sound, Front
  <1>4. /\ Len(r) = Len(l) + 1 /\ r[1] = y
        /\ \A j \in 1 .. Len(l) : j + 1 \in 1 .. Len(r) /\ r[j + 1] = l[j]
    BY <1>3
  <1>5. Pos(r, k) = 1
    <2>1. PICK h \in 1 .. Len(r) : h = 1 /\ r[h].key = k
      BY <1>3, <1>4
    <2>2. QED
      BY <1>1, <2>1, PosIs
  <1>6. ASSUME NEW q \in DOMAIN m
        PROVE  Pos(l, q) \in 1 .. Len(l) /\ Pos(r, q) = Pos(l, q) + 1
    <2>1. Pos(l, q) \in 1 .. Len(l) /\ l[Pos(l, q)].key = q
      BY PosIs
    <2>2. PICK h \in 1 .. Len(r) : h = Pos(l, q) + 1 /\ r[h].key = q
      BY <1>4, <2>1
    <2>3. Pos(r, q) = h
      BY <1>1, <2>2, PosIs
    <2>4. QED
      BY <2>1, <2>2, <2>3
  <1>7. KeysOf(r) = DOMAIN m \cup {k} /\ KeysOf(l) = DOMAIN m
    BY <1>1, PosIs
  <1>8. ASSUME NEW j \in DOMAIN m \cup {k}, NEW q \in DOMAIN m \cup {k}
        PROVE  Pos(r, j) > Pos(r, q)
                 <=> j \in DOMAIN m /\ (q = k \/ (q \in DOMAIN m /\ Pos(l, j) > Pos(l, q)))
    <2>1. CASE j = k
      <3>1. \A h \in DOMAIN m : ~(1 > Pos(r, h))
        BY <1>3, <1>6
      <3>2. QED
        BY <2>1, <3>1, <1>5
    <2>2. CASE j # k /\ q = k
      BY <2>2, <1>3, <1>5, <1>6
    <2>3. CASE j # k /\ q # k
      BY <2>3, <1>3, <1>6
    <2>4. QED
      BY <2>1, <2>2, <2>3
  <1>9. \A z : z \in Order(r) <=> z \in Order(l) \cup Before(DOMAIN m, k)
    <2> TAKE z
    <2>1. z \in Order(r) <=> \E j, q \in DOMAIN m \cup {k} : z = <<j, q>> /\ Pos(r, j) > Pos(r, q)
      BY <1>7 DEF Order
    <2>2. z \in Order(l) <=> \E j, q \in DOMAIN m : z = <<j, q>> /\ Pos(l, j) > Pos(l, q)
      BY <1>7 DEF Order
    <2>3. z \in Before(DOMAIN m, k) <=> \E j \in DOMAIN m : z = <<j, k>>
      BY BeforeIs
    <2>4. QED
      BY <2>1, <2>2, <2>3, <1>8
  <1>10. QED
    BY <1>1, <1>9

-----------------------------------------------------------------------------
(* The refinement.                                                            *)

\* The n keys that are oldest are the last n of the list.
OldestOf(l, m, n) == {k \in DOMAIN m : Cardinality({j \in DOMAIN m : <<j, k>> \in Order(l)}) < n}

LEMMA OldestIs ==
  ASSUME NEW l, NEW m, Sound(l, m), NEW n \in Nat, NEW h, h = Len(l) - n
  PROVE  OldestOf(l, m, n) = {l[i].key : i \in {g \in 1 .. Len(l) : g > h}}
  <1>1. Len(l) \in Nat
    BY DEF Sound
  <1>2. KeysOf(l) = DOMAIN m
    BY PosIs
  <1>3. ASSUME NEW i \in 1 .. Len(l)
        PROVE  Cardinality({j \in DOMAIN m : <<j, l[i].key>> \in Order(l)}) = Len(l) - i
    <2>1. PICK T : T = {j \in DOMAIN m : <<j, l[i].key>> \in Order(l)}
      OBVIOUS
    <2>2. Pos(l, l[i].key) = i /\ l[i].key \in DOMAIN m
      BY PosIs DEF Sound
    <2>3. \A j \in DOMAIN m : j \in T <=> Pos(l, j) > i
      BY <1>2, <2>1, <2>2 DEF Order
    <2> DEFINE f == [a \in 1 .. Len(l) - i |-> l[i + a].key]
    <2>4. \A a \in 1 .. Len(l) - i : i + a \in 1 .. Len(l)
      BY <1>1
    <2>5. f \in [1 .. Len(l) - i -> T]
      <3> SUFFICES ASSUME NEW a \in 1 .. Len(l) - i
                   PROVE  l[i + a].key \in T
        OBVIOUS
      <3>1. PICK b \in 1 .. Len(l) : b = i + a
        BY <2>4
      <3>2. Pos(l, l[b].key) = b /\ l[b].key \in DOMAIN m
        BY PosIs DEF Sound
      <3>3. b > i
        BY <1>1, <3>1
      <3>4. QED
        BY <2>3, <3>1, <3>2, <3>3
    <2>6. \A k \in T : \E a \in 1 .. Len(l) - i : f[a] = k
      <3> TAKE k \in T
      <3>1. k \in DOMAIN m /\ Pos(l, k) > i
        BY <2>1, <2>3
      <3>2. Pos(l, k) \in 1 .. Len(l) /\ l[Pos(l, k)].key = k
        BY <3>1, PosIs
      <3>3. PICK a \in 1 .. Len(l) - i : i + a = Pos(l, k)
        <4>1. Pos(l, k) - i \in 1 .. Len(l) - i /\ i + (Pos(l, k) - i) = Pos(l, k)
          BY <1>1, <3>1, <3>2
        <4>2. QED
          BY <4>1
      <3>4. QED
        BY <3>2, <3>3
    <2>7. \A a, b \in 1 .. Len(l) - i : f[a] = f[b] => a = b
      <3> TAKE a, b \in 1 .. Len(l) - i
      <3> HAVE f[a] = f[b]
      <3>1. PICK c \in 1 .. Len(l) : c = i + a
        BY <2>4
      <3>2. PICK d \in 1 .. Len(l) : d = i + b
        BY <2>4
      <3>3. l[c].key = l[d].key
        BY <3>1, <3>2
      <3>4. c = d
        BY <3>3 DEF Sound
      <3>5. QED
        BY <3>1, <3>2, <3>4, <1>1
    <2>8. f \in Bijection(1 .. Len(l) - i, T)
      BY <2>5, <2>6, <2>7 DEF Bijection, Injection, Surjection, IsInjective
    <2>9. Len(l) - i \in Nat
      BY <1>1
    <2> HIDE DEF f
    <2>10. ExistsBijection(1 .. Len(l) - i, T)
      BY <2>8 DEF ExistsBijection
    <2>11. PICK c \in Nat : c = Len(l) - i
      BY <2>9
    <2>12. Cardinality(T) = c
      BY <2>10, <2>11, IntervalSize, FS_Bijection
    <2>13. QED
      BY <2>1, <2>11, <2>12
  <1>4. \A k \in DOMAIN m : \E i \in 1 .. Len(l) : l[i].key = k
    BY DEF Sound
  <1>5. \A i \in 1 .. Len(l) : l[i].key \in DOMAIN m
    BY DEF Sound
  <1>6. \A i \in 1 .. Len(l) : l[i].key \in OldestOf(l, m, n) <=> i > h
    <2> TAKE i \in 1 .. Len(l)
    <2>1. l[i].key \in OldestOf(l, m, n) <=> Len(l) - i < n
      BY <1>3, <1>5 DEF OldestOf
    <2>2. Len(l) - i < n <=> i > h
      BY <1>1
    <2>3. QED
      BY <2>1, <2>2
  <1>7. OldestOf(l, m, n) \subseteq DOMAIN m
    BY DEF OldestOf
  <1>8. QED
    BY <1>4, <1>5, <1>6, <1>7

\* The state of LeastRecentlyUsed that a cache maps to.
LEMMA Mapped ==
  /\ {x \in ListedKeys \X ListedKeys : Position(x[1]) > Position(x[2])} = Order(m_list)
  /\ ({x \in ListedKeys \X ListedKeys : Position(x[1]) > Position(x[2])})' = Order(m_list')
  /\ [k \in DOMAIN m_map |-> m_map[k].value] = Ent(m_map)
  /\ [k \in DOMAIN m_map' |-> m_map'[k].value] = Ent(m_map')
  BY DEF ListedKeys, Position, Order, KeysOf, Pos, Ent

LEMMA EntIs ==
  ASSUME NEW m
  PROVE  DOMAIN Ent(m) = DOMAIN m /\ \A k \in DOMAIN m : Ent(m)[k] = m[k].value
  BY DEF Ent

\* A use, a departure and the oldest keys, on the fields of the cache.
LEMMA UseIs ==
  ASSUME NEW k, NEW v, NEW S,
         Ent(m_map') = [j \in (DOMAIN m_map \ S) \cup {k} |-> IF j = k THEN v ELSE m_map[j].value],
         Order(m_list') = Thin(m_list, S \cup {k}) \cup Before(DOMAIN m_map \ (S \cup {k}), k)
  PROVE  LRU!Use(k, v, S)
  <1>1. Ent(m_map') = [j \in (DOMAIN m_map \ S) \cup {k} |-> IF j = k THEN v ELSE Ent(m_map)[j]]
    BY EntIs
  <1>2. QED
    BY <1>1, Mapped, EntIs DEF LRU!Use, LRU!Cached, LRU!Without, Thin, Before

LEMMA LeaveIs ==
  ASSUME NEW S, Ent(m_map') = [j \in DOMAIN m_map \ S |-> m_map[j].value],
         Order(m_list') = Thin(m_list, S)
  PROVE  LRU!Leave(S)
  <1>1. Ent(m_map') = [j \in DOMAIN m_map \ S |-> Ent(m_map)[j]]
    BY EntIs
  <1>2. QED
    BY <1>1, Mapped, EntIs DEF LRU!Leave, LRU!Cached, LRU!Without, Thin

\* The instance counts with an operator of its own.
LEMMA SameSize ==
  ASSUME NEW S
  PROVE  LRU!Cardinality(S) = Cardinality(S)
  BY DEF LRU!Cardinality, Cardinality

LEMMA OldestMapped ==
  ASSUME NEW n
  PROVE  LRU!Oldest(n) = OldestOf(m_list, m_map, n) /\ LRU!Cached = DOMAIN m_map
  <1>1. LRU!Cached = DOMAIN m_map
    BY DEF LRU!Cached
  <1>2. LRU!Oldest(n) = OldestOf(m_list, m_map, n)
    BY <1>1, Mapped, SameSize DEF LRU!Oldest, OldestOf
  <1>3. QED
    BY <1>1, <1>2

\* The keys of S leave, and k is in front of those that stay.
LEMMA Arrives ==
  ASSUME NEW l, NEW m, NEW S, NEW k, NEW v, NEW x, Sound(l, m),
         DOMAIN m = DOMAIN m_map \ (S \cup {k}), \A j \in DOMAIN m : m[j] = m_map[j],
         Order(l) = Thin(m_list, S \cup {k}),
         Sound(Front(l, k, x), Put(m, k, v, x)),
         m_list' = Front(l, k, x), m_map' = Put(m, k, v, x)
  PROVE  LRU!Use(k, v, S)
  <1>1. PICK m2 : m2 = Put(m, k, v, x)
    OBVIOUS
  <1>2. /\ DOMAIN m2 = DOMAIN m \cup {k} /\ m2[k].value = v
        /\ \A j \in DOMAIN m \ {k} : m2[j] = m[j]
    BY <1>1 DEF Put
  <1>3. DOMAIN m2 = (DOMAIN m_map \ S) \cup {k} /\ k \notin DOMAIN m
    BY <1>2
  <1>4. Ent(m2) = [j \in (DOMAIN m_map \ S) \cup {k} |-> IF j = k THEN v ELSE m_map[j].value]
    BY <1>2, <1>3 DEF Ent
  <1>5. Order(m_list') = Thin(m_list, S \cup {k}) \cup Before(DOMAIN m_map \ (S \cup {k}), k)
    <2>1. Order(Front(l, k, x)) = Order(l) \cup Before(DOMAIN m, k)
      BY <1>1, <1>2, <1>3, FrontOrder
    <2>2. QED
      BY <2>1
  <1>6. m_map' = m2
    BY <1>1
  <1>7. QED
    BY <1>4, <1>5, <1>6, UseIs

\* The keys of S leave, and no other.
LEMMA Departs ==
  ASSUME NEW m2, NEW S, m_map' = m2, DOMAIN m2 = DOMAIN m_map \ S,
         \A j \in DOMAIN m2 : m2[j] = m_map[j], Order(m_list') = Thin(m_list, S)
  PROVE  LRU!Leave(S)
  <1>1. Ent(m2) = [j \in DOMAIN m_map \ S |-> m_map[j].value]
    BY DEF Ent
  <1>2. QED
    BY <1>1, LeaveIs

\* A key that is not cached is nobody's predecessor.
LEMMA ThinNew ==
  ASSUME NEW l, NEW m, Sound(l, m), NEW k, k \notin DOMAIN m, NEW S
  PROVE  Thin(l, S \cup {k}) = Thin(l, S)
  <1>1. KeysOf(l) = DOMAIN m
    BY PosIs
  <1>2. QED
    BY <1>1 DEF Thin, Order

LEMMA ThinNone ==
  ASSUME NEW l
  PROVE  Thin(l, {}) = Order(l)
  BY DEF Thin, Order

\* The last key of the list is the oldest.
LEMMA LastIsOldest ==
  ASSUME NEW l, NEW m, Sound(l, m), l # <<>>
  PROVE  OldestOf(l, m, 1) = {l[Len(l)].key}
  <1>1. l \in Seq(Item) /\ Len(l) \in Nat /\ Len(l) \in 1 .. Len(l)
    BY DEF Sound
  <1>2. PICK h : h = Len(l) - 1
    OBVIOUS
  <1>3. OldestOf(l, m, 1) = {l[i].key : i \in {g \in 1 .. Len(l) : g > h}}
    BY <1>2, OldestIs
  <1>4. {g \in 1 .. Len(l) : g > h} = {Len(l)}
    BY <1>1, <1>2
  <1>5. QED
    BY <1>3, <1>4

\* Without a key: the others keep their places.
LEMMA WithoutLast ==
  ASSUME NEW l, NEW m, Sound(l, m), NEW i \in 1 .. Len(l), NEW k, k = l[i].key,
         Sound(Removed(l, i), Less(m, k))
  PROVE  Order(Removed(l, i)) = Thin(l, {k})
  <1>1. PICK m2 : m2 = Less(m, k)
    OBVIOUS
  <1>2. DOMAIN m2 = DOMAIN m \ {l[i].key}
    BY <1>1, LessIs
  <1>3. QED
    BY <1>1, <1>2, RemovedOrder

\* A key that is new takes the place of the oldest, if the cache is full.
LEMMA ArrivalIsInsert ==
  ASSUME CacheInv, m_capacity > 0, NEW k \in Keys, k \notin DOMAIN m_map, NEW v \in Values,
         SetCache(Inserted(k, v)), UNCHANGED m_capacity
  PROVE  LRU!LInsert(k, v)
  <1>1. PICK l, m, x, w :
          /\ Inserted(k, v) = Record(Front(l, k, x), Put(m, k, v, x), w)
          /\ Spared(l, m) /\ Sound(l, m) /\ DOMAIN m \subseteq DOMAIN m_map
          /\ Sound(Front(l, k, x), Put(m, k, v, x))
    BY InsertedIs
  <1>2. m_list' = Front(l, k, x) /\ m_map' = Put(m, k, v, x)
    BY <1>1, Sets
  <1>3. /\ Sound(m_list, m_map) /\ m_list \in Seq(Item) /\ m_capacity \in Nat
        /\ Len(m_list) \in Nat
    BY CacheFacts
  <1>4. Cardinality(DOMAIN m_map) = Len(m_list)
    BY <1>3, SoundSize
  <1>5. PICK S : S = IF Len(m_list) = m_capacity THEN OldestOf(m_list, m_map, 1) ELSE {}
    OBVIOUS
  <1>6. /\ DOMAIN m = DOMAIN m_map \ S
        /\ \A j \in DOMAIN m : m[j] = m_map[j]
        /\ Order(l) = Thin(m_list, S)
    <2>1. CASE Len(m_list) < m_capacity
      <3>1. l = m_list /\ m = m_map /\ S = {}
        BY <2>1, <1>1, <1>3, <1>5 DEF Spared
      <3>2. QED
        BY <3>1, ThinNone
    <2>2. CASE ~(Len(m_list) < m_capacity)
      <3>1. PICK e : e = m_list[Len(m_list)].key
        OBVIOUS
      <3>2. /\ Len(m_list) = m_capacity
            /\ l = Removed(m_list, Len(m_list))
            /\ m = Less(m_map, e)
        BY <2>2, <1>1, <3>1 DEF Spared
      <3>3. m_list # <<>> /\ Len(m_list) \in 1 .. Len(m_list)
        BY <3>2, <1>3
      <3>4. S = {e}
        BY <3>1, <3>2, <3>3, <1>3, <1>5, LastIsOldest
      <3>5. DOMAIN m = DOMAIN m_map \ {e} /\ \A j \in DOMAIN m : m[j] = m_map[j]
        BY <3>2, LessIs
      <3>6. PICK i \in 1 .. Len(m_list) : i = Len(m_list)
        BY <3>3
      <3>7. Order(l) = Thin(m_list, {e})
        BY <3>1, <3>2, <3>6, <1>1, <1>3, WithoutLast
      <3>8. QED
        BY <3>4, <3>5, <3>7
    <2>3. QED
      BY <2>1, <2>2
  <1>7. DOMAIN m = DOMAIN m_map \ (S \cup {k}) /\ Order(l) = Thin(m_list, S \cup {k})
    <2>1. Thin(m_list, S \cup {k}) = Thin(m_list, S)
      BY <1>3, ThinNew
    <2>2. QED
      BY <2>1, <1>6
  <1>8. LRU!Use(k, v, S)
    BY <1>1, <1>2, <1>6, <1>7, Arrives
  <1>9. S = IF LRU!Cardinality(LRU!Cached) = m_capacity THEN LRU!Oldest(1) ELSE {}
    <2>1. LRU!Oldest(1) = OldestOf(m_list, m_map, 1) /\ LRU!Cached = DOMAIN m_map
      BY OldestMapped
    <2>2. QED
      BY <2>1, <1>4, <1>5, SameSize
  <1>10. k \notin LRU!Cached
    BY OldestMapped
  <1>11. UNCHANGED m_capacity
    OBVIOUS
  <1>12. QED
    BY <1>8, <1>9, <1>10, <1>11, SameSize DEF LRU!LInsert, LRU!Use

\* A key that is there comes to the front.
LEMMA RefreshIsUse ==
  ASSUME CacheInv, NEW k \in DOMAIN m_map, NEW v \in Values, NEW w, NEW u, NEW c,
         c = Refresh(Record(m_list, m_map, w), k, v),
         SetCache(Record(c.list, c.map, u))
  PROVE  LRU!Use(k, v, {})
  <1>1. PICK i \in 1 .. Len(m_list), x \in ListNodes :
          /\ m_list[i].key = k
          /\ c = Record(Front(Removed(m_list, i), k, x), Put(m_map, k, v, x), w)
          /\ Sound(Front(Removed(m_list, i), k, x), Put(m_map, k, v, x))
    BY RefreshIs
  <1>2. m_list' = Front(Removed(m_list, i), k, x) /\ m_map' = Put(m_map, k, v, x)
    BY <1>1, Sets, Fields
  <1>3. Sound(m_list, m_map) /\ Owing(m_map, owed)
    BY DEF CacheInv
  <1>4. PICK m : m = Less(m_map, k)
    OBVIOUS
  <1>5. DOMAIN m = DOMAIN m_map \ {k} /\ \A j \in DOMAIN m : m[j] = m_map[j]
    BY <1>4, LessIs
  <1>6. Put(m, k, v, x) = Put(m_map, k, v, x)
    <2>1. DOMAIN m \cup {k} = DOMAIN m_map \cup {k}
      BY <1>5
    <2>2. QED
      BY <2>1, <1>5 DEF Put
  <1>7. Sound(Removed(m_list, i), m)
    BY <1>1, <1>3, <1>5, TakeOut
  <1>8. Order(Removed(m_list, i)) = Thin(m_list, {k})
    BY <1>1, <1>3, <1>4, <1>7, WithoutLast
  <1>9. PICK S : S = {} /\ S \cup {k} = {k}
    OBVIOUS
  <1>10. LRU!Use(k, v, S)
    BY <1>1, <1>2, <1>5, <1>6, <1>7, <1>8, <1>9, Arrives
  <1>11. QED
    BY <1>9, <1>10

LEMMA TouchMapped ==
  ASSUME CacheInv, NEW k \in Keys, getCached(k)
  PROVE  LRU!LTouch(k)
  <1>1. k \in DOMAIN m_map /\ UNCHANGED m_capacity
    BY DEF getCached, contains
  <1>2. PICK v \in Values : v = m_map[k].value
    BY <1>1, KnownValue
  <1>3. Cache = Record(m_list, m_map, owed) /\ Cache.map = m_map
    BY DEF Cache, Record
  <1>4. PICK c : c = Refresh(Record(m_list, m_map, owed), k, v)
    OBVIOUS
  <1>5. SetCache(c)
    BY <1>2, <1>3, <1>4 DEF getCached, touch
  <1>6. SetCache(Record(c.list, c.map, c.owed))
    BY <1>5, Fields DEF SetCache
  <1>7. LRU!Use(k, v, {})
    BY <1>1, <1>4, <1>6, RefreshIsUse
  <1>8. k \in LRU!Cached
    BY <1>1, OldestMapped
  <1>9. v = [j \in DOMAIN m_map |-> m_map[j].value][k]
    BY <1>1, <1>2
  <1>10. QED
    BY <1>1, <1>7, <1>8, <1>9 DEF LRU!LTouch

LEMMA AssignMapped ==
  ASSUME CacheInv, NEW k \in Keys, NEW v \in Values, assign(k, v)
  PROVE  LRU!LAssign(k, v)
  <1>1. k \in DOMAIN m_map /\ UNCHANGED m_capacity
    BY DEF assign, contains
  <1>2. PICK w : w = Minus(owed, m_map[k].value)
    OBVIOUS
  <1>3. Paid(Cache, m_map[k].value) = Record(m_list, m_map, w)
    BY <1>2, PaidIs DEF Cache, Record
  <1>4. PICK c : c = Refresh(Record(m_list, m_map, w), k, v)
    OBVIOUS
  <1>5. SetCache(Given(c, v))
    BY <1>3, <1>4 DEF assign
  <1>6. PICK l, m : c = Record(l, m, w)
    BY <1>1, <1>4, RefreshIs
  <1>7. SetCache(Record(c.list, c.map, Plus(w, v)))
    BY <1>5, <1>6, GivenIs, Fields
  <1>8. LRU!Use(k, v, {})
    BY <1>1, <1>4, <1>7, RefreshIsUse
  <1>9. k \in LRU!Cached
    BY <1>1, OldestMapped
  <1>10. QED
    BY <1>1, <1>8, <1>9 DEF LRU!LAssign

\* Whatever takes a key inserts it, or changes nothing if it is cached.
LEMMA TakenMapped ==
  ASSUME CacheInv, NEW k \in Keys, NEW v \in Values, m_capacity > 0,
         SetCache(IF contains(k) THEN Cache ELSE Inserted(k, v)), UNCHANGED m_capacity
  PROVE  LRU!LInsert(k, v) \/ UNCHANGED <<m_list, m_map, m_capacity>>
  <1>1. CASE contains(k)
    <2>1. SetCache(Record(m_list, m_map, owed))
      BY <1>1 DEF Cache, Record
    <2>2. QED
      BY <2>1, Sets
  <1>2. CASE ~contains(k)
    <2>1. k \notin DOMAIN m_map /\ SetCache(Inserted(k, v))
      BY <1>2 DEF contains
    <2>2. QED
      BY <2>1, ArrivalIsInsert
  <1>3. QED
    BY <1>1, <1>2

LEMMA InsertMapped ==
  ASSUME CacheInv, NEW k \in Keys, NEW v \in Values, insert(k, v)
  PROVE  LRU!LInsert(k, v) \/ UNCHANGED <<m_list, m_map, m_capacity>>
  BY TakenMapped DEF insert

LEMMA CreatedMapped ==
  ASSUME CacheInv, NEW v \in Values, Created(v)
  PROVE  (\E k \in Keys : LRU!LInsert(k, v)) \/ UNCHANGED <<m_list, m_map, m_capacity>>
  <1>1. creating # <<>> /\ Nested(creating, m_capacity)
    BY DEF Created, CacheInv
  <1>2. PICK k \in Keys : k = creating[Len(creating)]
    BY <1>1, Creations
  <1>3. SetCache(IF contains(k) THEN Cache ELSE Inserted(k, v)) /\ UNCHANGED m_capacity
    BY <1>2 DEF Created
  <1>4. QED
    BY <1>1, <1>2, <1>3, Creations, TakenMapped

\* The key at place i of the list leaves.
LEMMA OneLeaves ==
  ASSUME CacheInv, NEW i \in 1 .. Len(m_list), NEW k, k = m_list[i].key, NEW w,
         SetCache(Record(Removed(m_list, i), Less(m_map, k), w))
  PROVE  LRU!Leave({k})
  <1>1. PICK m2 : m2 = Less(m_map, k)
    OBVIOUS
  <1>2. DOMAIN m2 = DOMAIN m_map \ {k} /\ \A j \in DOMAIN m2 : m2[j] = m_map[j]
    BY <1>1, LessIs
  <1>3. Sound(m_list, m_map) /\ Owing(m_map, owed)
    BY DEF CacheInv
  <1>4. Sound(Removed(m_list, i), m2)
    BY <1>2, <1>3, TakeOut
  <1>5. Order(Removed(m_list, i)) = Thin(m_list, {k})
    BY <1>1, <1>3, <1>4, WithoutLast
  <1>6. m_list' = Removed(m_list, i) /\ m_map' = m2
    BY <1>1, Sets
  <1>7. PICK S : S = {k}
    OBVIOUS
  <1>8. LRU!Leave(S)
    BY <1>2, <1>5, <1>6, <1>7, Departs
  <1>9. QED
    BY <1>7, <1>8

LEMMA EraseMapped ==
  ASSUME CacheInv, NEW k \in Keys, erase(k)
  PROVE  LRU!LErase(k)
  <1>1. k \in DOMAIN m_map /\ UNCHANGED m_capacity /\ Sound(m_list, m_map)
    BY DEF erase, contains, CacheInv
  <1>2. PICK i \in 1 .. Len(m_list) : m_list[i].key = k /\ m_list[i].node = m_map[k].node
    BY <1>1 DEF Sound
  <1>3. Cache = Record(m_list, m_map, owed)
    BY DEF Cache, Record
  <1>4. Unlisted(Cache, m_map[k].node) = Record(Removed(m_list, i), m_map, owed)
    BY <1>1, <1>2, <1>3, UnlistedIs
  <1>5. SetCache(Record(Removed(m_list, i), Less(m_map, k), Minus(owed, m_map[k].value)))
    BY <1>4, EraseIs DEF erase
  <1>6. LRU!Leave({k})
    BY <1>2, <1>5, OneLeaves
  <1>7. k \in LRU!Cached
    BY <1>1, OldestMapped
  <1>8. QED
    BY <1>1, <1>6, <1>7 DEF LRU!LErase

LEMMA EraseOldestMapped ==
  ASSUME CacheInv, EraseOldest
  PROVE  LRU!LEraseOldest
  <1>1. m_list # <<>> /\ SetCache(erase_oldest(Cache)) /\ UNCHANGED m_capacity
    BY DEF EraseOldest
  <1>2. Sound(m_list, m_map) /\ m_list \in Seq(Item)
    BY DEF CacheInv, Sound
  <1>3. PICK k : k = m_list[Len(m_list)].key
    OBVIOUS
  <1>4. Cache = Record(m_list, m_map, owed)
    BY DEF Cache, Record
  <1>5. /\ Len(m_list) \in 1 .. Len(m_list)
        /\ SetCache(Record(Removed(m_list, Len(m_list)), Less(m_map, k), Minus(owed, m_map[k].value)))
    BY <1>1, <1>2, <1>3, <1>4, EraseOldestIs
  <1>6. LRU!Leave({k})
    BY <1>3, <1>5, OneLeaves
  <1>7. LRU!Oldest(1) = {k}
    BY <1>1, <1>2, <1>3, LastIsOldest, OldestMapped
  <1>8. LRU!Cached # {}
    BY <1>2, <1>5, OldestMapped, SMTT(30), ZenonT(30) DEF Sound
  <1>9. QED
    BY <1>1, <1>6, <1>7, <1>8 DEF LRU!LEraseOldest, LRU!Leave

\* All but the newest n keys leave.
LEMMA TrimMapped ==
  ASSUME CacheInv, NEW n \in Nat, SetCache(trim(Cache, n))
  PROVE  LRU!Leave(LRU!Oldest(IF LRU!Cardinality(LRU!Cached) > n THEN LRU!Cardinality(LRU!Cached) - n ELSE 0))
  <1>1. PICK l, m, w :
          /\ trim(Cache, n) = Record(l, m, w)
          /\ Trimmed(n, l, m) /\ Sound(l, m)
    BY TrimIs
  <1>2. m_list' = l /\ m_map' = m
    BY <1>1, Sets
  <1>3. Sound(m_list, m_map) /\ m_list \in Seq(Item) /\ Len(m_list) \in Nat
    BY DEF CacheInv, Sound
  <1>4. LRU!Cardinality(LRU!Cached) = Len(m_list)
    BY <1>3, SoundSize, OldestMapped, SameSize
  <1>5. PICK r : r = IF Len(m_list) > n THEN Len(m_list) - n ELSE 0
    OBVIOUS
  <1>6. r \in Nat
    BY <1>3, <1>5
  <1>7. PICK h : h = Len(m_list) - r
    OBVIOUS
  <1>8. PICK S : S = OldestOf(m_list, m_map, r)
    OBVIOUS
  <1>9. S = {m_list[i].key : i \in {g \in 1 .. Len(m_list) : g > h}}
    BY <1>3, <1>6, <1>7, <1>8, OldestIs
  <1>10. /\ DOMAIN m = DOMAIN m_map \ S
         /\ \A j \in DOMAIN m : m[j] = m_map[j]
         /\ Order(l) = Thin(m_list, S)
    <2>1. CASE Len(m_list) <= n
      <3>1. l = m_list /\ m = m_map
        BY <2>1, <1>1, <1>3 DEF Trimmed
      <3>2. {g \in 1 .. Len(m_list) : g > h} = {}
        BY <2>1, <1>3, <1>5, <1>7
      <3>3. S = {}
        BY <3>2, <1>9
      <3>4. QED
        BY <3>1, <3>3, ThinNone
    <2>2. CASE Len(m_list) > n
      <3>1. /\ l = SubSeq(m_list, 1, n)
            /\ m = Restrict(m_map, DOMAIN m_map \ {m_list[i].key : i \in (n + 1) .. Len(m_list)})
        BY <2>2, <1>1, <1>3 DEF Trimmed
      <3>2. {g \in 1 .. Len(m_list) : g > h} = (n + 1) .. Len(m_list)
        BY <2>2, <1>3, <1>5, <1>7
      <3>3. m = Restrict(m_map, DOMAIN m_map \ S)
        BY <3>1, <3>2, <1>9
      <3>4. DOMAIN m = DOMAIN m_map \ S /\ \A j \in DOMAIN m : m[j] = m_map[j]
        BY <3>3 DEF Restrict
      <3>5. n \in 0 .. Len(m_list)
        BY <2>2, <1>3
      <3>6. Order(l) = Thin(m_list, S)
        BY <3>1, <3>4, <3>5, <1>1, <1>3, CutOrder
      <3>7. QED
        BY <3>4, <3>6
    <2>3. QED
      BY <2>1, <2>2, <1>3
  <1>11. LRU!Leave(S)
    BY <1>2, <1>10, Departs
  <1>12. LRU!Oldest(r) = S
    BY <1>8, OldestMapped
  <1>13. QED
    BY <1>4, <1>5, <1>11, <1>12 DEF LRU!Leave

LEMMA ResizeMapped ==
  ASSUME CacheInv, NEW n \in Capacities, resize(n)
  PROVE  LRU!LResize(n)
  <1>1. SetCache(trim(Cache, n)) /\ m_capacity' = n /\ n \in Nat
    BY CacheAssumption DEF resize
  <1>2. LRU!Leave(LRU!Oldest(IF LRU!Cardinality(LRU!Cached) > n THEN LRU!Cardinality(LRU!Cached) - n ELSE 0))
    BY <1>1, TrimMapped
  <1>3. QED
    BY <1>1, <1>2 DEF LRU!LResize

\* An emptied cache.
LEMMA EmptiedMapped ==
  ASSUME CacheInv, m_list' = <<>>, m_map' = <<>>, m_capacity' \in Capacities
  PROVE  LRU!LClear
  <1>1. PICK m2 : m2 = <<>> /\ DOMAIN m2 = {}
    OBVIOUS
  <1>2. PICK S : S = DOMAIN m_map
    OBVIOUS
  <1>3. Sound(m_list, m_map)
    BY DEF CacheInv
  <1>4. Order(<<>>) = Thin(m_list, S)
    <2>1. KeysOf(m_list) = S
      BY <1>2, <1>3, PosIs
    <2>2. KeysOf(<<>>) = {}
      BY DEF KeysOf
    <2>3. QED
      BY <2>1, <2>2 DEF Order, Thin
  <1>5. LRU!Leave(S)
    BY <1>1, <1>2, <1>4, Departs
  <1>6. QED
    BY <1>2, <1>5, OldestMapped DEF LRU!LClear, LRU!Leave

LEMMA EmptyIsEmpty ==
  ASSUME NEW l, NEW m, Sound(l, m), Len(l) <= 0
  PROVE  l = <<>> /\ m = <<>>
  <1>1. l = <<>>
    BY DEF Sound
  <1>2. DOMAIN m = {}
    <2>1. \A k \in DOMAIN m : \E i \in 1 .. Len(l) : l[i].key = k
      BY DEF Sound
    <2>2. QED
      BY <1>1, <2>1
  <1>3. QED
    BY <1>1, <1>2

LEMMA ClearMapped ==
  ASSUME CacheInv, clear
  PROVE  LRU!LClear
  <1>1. SetCache(trim(Cache, 0)) /\ UNCHANGED m_capacity
    BY DEF clear
  <1>2. PICK l, m, w :
          /\ trim(Cache, 0) = Record(l, m, w)
          /\ Sound(l, m) /\ Len(l) <= 0
    BY TrimIs
  <1>3. l = <<>> /\ m = <<>>
    BY <1>2, EmptyIsEmpty
  <1>4. QED
    BY <1>1, <1>2, <1>3, Sets, EmptiedMapped DEF CacheInv

\* What leaves the cache is what was used longest ago, in every order of
\* insertion, touch, assignment, erasure and resizing: the cache implements
\* LeastRecentlyUsed, with the order of its list for the order of use.
THEOREM EvictsTheOldest == CacheSpec => ImplementsLRU
  <1>1. CacheInit => LRU!LInit
    BY DEF CacheInit, LRU!LInit, ListedKeys
  <1>2. CacheInv /\ [CacheNext]_cachevars => [LRU!LNext]_LRU!lvars
    <2> SUFFICES ASSUME CacheInv, [CacheNext]_cachevars
                 PROVE  LRU!LNext \/ UNCHANGED LRU!lvars
      OBVIOUS
    <2>1. CASE UNCHANGED <<m_list, m_map, m_capacity>>
      BY <2>1 DEF LRU!lvars, ListedKeys, Position
    <2>2. CASE \E k \in Keys : getCached(k)
      BY <2>2, TouchMapped DEF LRU!LNext
    <2>3. CASE \E k \in Keys : getNew(k)
      BY <2>3, <2>1 DEF getNew
    <2>4. CASE \E k \in Keys : erase(k)
      BY <2>4, EraseMapped DEF LRU!LNext
    <2>5. CASE \E k \in Keys, v \in Values : insert(k, v)
      BY <2>5, <2>1, InsertMapped DEF LRU!LNext
    <2>6. CASE \E k \in Keys, v \in Values : assign(k, v)
      BY <2>6, AssignMapped DEF LRU!LNext
    <2>7. CASE \E v \in Values : Created(v)
      BY <2>7, <2>1, CreatedMapped DEF LRU!LNext
    <2>8. CASE \E n \in Capacities : resize(n)
      BY <2>8, ResizeMapped DEF LRU!LNext
    <2>9. CASE EraseOldest
      BY <2>9, EraseOldestMapped DEF LRU!LNext
    <2>10. CASE clear
      BY <2>10, ClearMapped DEF LRU!LNext
    <2>11. CASE reset_lose_memory
      BY <2>11, EmptiedMapped DEF LRU!LNext, reset_lose_memory, CacheInv
    <2>12. CASE DestroyCache
      BY <2>12, EmptiedMapped DEF LRU!LNext, DestroyCache
    <2>13. CASE UNCHANGED cachevars
      BY <2>13, <2>1 DEF cachevars
    <2>14. QED
      BY <2>2, <2>3, <2>4, <2>5, <2>6, <2>7, <2>8, <2>9, <2>10, <2>11, <2>12, <2>13 DEF CacheNext
  <1>3. QED
    BY <1>1, <1>2, CacheInductive, PTL DEF CacheSpec, ImplementsLRU, LRU!LSpec

=============================================================================
