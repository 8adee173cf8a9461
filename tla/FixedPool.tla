----------------------------- MODULE FixedPool -----------------------------
(* eastl::fixed_pool and eastl::fixed_pool_with_overflow, the pool behind the *)
(* fixed_node_allocator of the fixed_ containers                              *)
(* (include/EASTL/internal/fixed_pool.h, source/fixed_pool.cpp).              *)
(*                                                                            *)
(* The nodes of the buffer are 1..N, and 0 is the null pointer.  A free node  *)
(* keeps the link to the next free one in its own memory; the owner of a node *)
(* that is in use overwrites that memory.  Overflow are the blocks of the     *)
(* overflow allocator, which may refuse; without any, this is fixed_pool.     *)
EXTENDS Integers, FiniteSets

CONSTANTS
  N,         \* nodes in the buffer
  Overflow,  \* blocks of the overflow allocator
  Word       \* mnCurrentSize and mnPeakSize are counted modulo Word (2^32)

ASSUME FixedPoolAssumption ==
  /\ N \in Nat \ {0}
  /\ IsFiniteSet(Overflow)
  /\ Overflow \cap (0 .. N + 1) = {}
  /\ Word \in Nat
  /\ N + Cardinality(Overflow) < Word

VARIABLES
  head,     \* mpHead: the first free node that was in use before
  link,     \* what the first word of each node holds
  fresh,    \* mpNext: the first node never handed out (N + 1: mpCapacity)
  out,      \* the blocks the owner of the pool holds
  current,  \* mnCurrentSize
  peak      \* mnPeakSize

pvars == <<head, link, fresh, out, current, peak>>

Nodes == 1 .. N

\* The free list and the fresh part stay inside the buffer, and nothing is handed
\* out that is neither of the buffer nor of the overflow allocator
\* (fixed_pool.h:213-221).
TypeOK ==
  /\ head \in 0 .. N
  /\ link \in [Nodes -> 0 .. N]
  /\ fresh \in 1 .. N + 1
  /\ out \subseteq Nodes \cup Overflow
  /\ current \in 0 .. Word - 1
  /\ peak \in 0 .. Word - 1

\* fixed_pool_base::init; the buffer may hold anything.
Init ==
  /\ head = 0
  /\ link \in [Nodes -> 0 .. N]
  /\ fresh = 1
  /\ out = {}
  /\ current = 0
  /\ peak = 0

\* if(++mnCurrentSize > mnPeakSize) mnPeakSize = mnCurrentSize;
CountUp ==
  LET c == IF current = Word - 1 THEN 0 ELSE current + 1
  IN /\ current' = c
     /\ peak' = IF c > peak THEN c ELSE peak

\* --mnCurrentSize;
CountDown ==
  /\ current' = IF current = 0 THEN Word - 1 ELSE current - 1
  /\ UNCHANGED peak

\* Mutant: the free list is not advanced past the node it hands out.
AllocateLinkStays ==
  /\ head # 0
  /\ UNCHANGED <<head, link, fresh>>
  /\ out' = out \cup {head}
  /\ CountUp

\* allocate() from the free list.
AllocateLink ==
  /\ head # 0
  /\ head' = link[head]
  /\ out' = out \cup {head}
  /\ CountUp
  /\ UNCHANGED <<link, fresh>>

\* allocate() from the part of the buffer not used yet.
AllocateFresh ==
  /\ head = 0
  /\ fresh # N + 1
  /\ fresh' = fresh + 1
  /\ out' = out \cup {fresh}
  /\ CountUp
  /\ UNCHANGED <<head, link>>

\* allocate() from the overflow allocator; a refusal, or no overflow allocator,
\* returns NULL and changes nothing.
AllocateOverflow(p) ==
  /\ head = 0 /\ fresh = N + 1
  /\ p \notin out
  /\ out' = out \cup {p}
  /\ CountUp
  /\ UNCHANGED <<head, link, fresh>>

\* Mutant: the buffer's range check is off by one at its end.
DeallocateBoundary(p) ==
  /\ p \in out
  /\ out' = out \ {p}
  /\ CountDown
  /\ IF p \in 1 .. N - 1
     THEN link' = [link EXCEPT ![p] = head] /\ head' = p
     ELSE UNCHANGED <<head, link>>
  /\ UNCHANGED fresh

\* deallocate(p): back to the free list, or to the overflow allocator when p is
\* outside [mpPoolBegin, mpCapacity).
Deallocate(p) ==
  /\ p \in out
  /\ out' = out \ {p}
  /\ CountDown
  /\ IF p \in Nodes
     THEN link' = [link EXCEPT ![p] = head] /\ head' = p
     ELSE UNCHANGED <<head, link>>
  /\ UNCHANGED fresh

\* The owner writes its own data over the link of a node it holds.
Use(p, x) ==
  /\ p \in out \cap Nodes
  /\ link' = [link EXCEPT ![p] = x]
  /\ UNCHANGED <<head, fresh, out, current, peak>>

\* reset(pNodeBuffer), for reset_lose_memory.
Reset ==
  /\ head' = 0
  /\ fresh' = 1
  /\ out' = {}
  /\ current' = 0
  /\ peak' = 0
  /\ UNCHANGED link

Next ==
  \/ AllocateLink
  \/ AllocateFresh
  \/ \E p \in Overflow : AllocateOverflow(p)
  \/ \E p \in Nodes \cup Overflow : Deallocate(p)
  \/ \E p \in Nodes, x \in 0 .. N : Use(p, x)
  \/ Reset

Spec == Init /\ [][Next]_pvars

-----------------------------------------------------------------------------
(* Properties.                                                                *)

\* f lists the free nodes in the order in which their links chain them.
Chain(k, f) ==
  /\ head = IF k = 0 THEN 0 ELSE f[1]
  /\ \A i \in 1 .. k : link[f[i]] = IF i = k THEN 0 ELSE f[i + 1]
  /\ \A i, j \in 1 .. k : f[i] = f[j] => i = j
  /\ \A p \in Nodes : p < fresh /\ p \notin out <=> \E i \in 1 .. k : f[i] = p

\* The links kept inside the free nodes form a list without cycle that has each
\* node given back exactly once and no other: no node is lost and none can be
\* handed out twice, whatever owners write into the nodes they hold
\* (fixed_pool.h:292-348, 451-535).
FreeListExact ==
  /\ out \cap Nodes \subseteq 1 .. fresh - 1
  /\ \E k \in 0 .. N : \E f \in [1 .. k -> Nodes] : Chain(k, f)

\* mnCurrentSize, an unsigned counter, is the number of blocks outstanding and
\* never wraps, whichever of pool and overflow allocator served and took back
\* each block (fixed_pool.h:476-478, 522-535).
CurrentExact == current = Cardinality(out)

\* The pool says it can allocate exactly while a node of the buffer is free,
\* after any mixture of nodes given back and nodes never used
\* (fixed_pool.h:195-204).
CanAllocate == head # 0 \/ fresh # N + 1
CanAllocateExact == CanAllocate <=> ~(Nodes \subseteq out)

\* The three together: what the free list, the counter and can_allocate say of
\* the pool is one and the same (fixed_pool.h:195-204, 292-348, 451-535).
PoolExact == FreeListExact /\ CurrentExact /\ CanAllocateExact

\* Every block handed out was free, and is counted: the pool implements
\* NodeAllocator (fixed_pool.h:451-482, 522-535).
A == INSTANCE NodeAllocator WITH Memory <- Nodes \cup Overflow, held <- current
ImplementsAllocator == A!ASpec
=============================================================================
