------------------------------ MODULE MCOwners ------------------------------
(* Small instances of what owns memory or an object in one thread:            *)
(* FixedPool; LinkedPtr and SafePtr, which thread a list through the pointers *)
(* instead; OwningPtr, which owns alone or counts; and LruCache, which keeps *)
(* a list beside its map.  A behaviour uses one of them, which is chosen at   *)
(* its beginning.                                                             *)
EXTENDS FixedPool, SafePtr, LruCache, TLC

CONSTANTS r1, r2, r3, o1, o2, o3, p1, p2, b1, b2

VARIABLES
  which,
  mpValue, ringPrev, ringNext, linked, kept, raw,
  pointee, mDeleter, mpRefCount, counts, hook, ptrs, owned, plain, misused

linkedVars == <<mpValue, ringPrev, ringNext, linked, kept, raw>>
owningVars == <<pointee, mDeleter, mpRefCount, counts, hook, ptrs, owned, plain, misused>>

ThreeRoots == {r1, r2, r3}
ThreeObjects == {o1, o2, o3}
TwoObjects == {o1, o2}
TwoOverflow == {b1, b2}

Linked == INSTANCE LinkedPtr WITH
            Roots <- ThreeRoots, Objects <- ThreeObjects, Holders <- ThreeObjects,
            mpPrev <- ringPrev, mpNext <- ringNext, made <- linked, alive <- kept

\* The third object comes from another heap, and its destructor may reset a root.
Owning == INSTANCE OwningPtr WITH
            Roots <- {p1, p2}, Objects <- ThreeObjects, Holders <- TwoObjects, Resetting <- {o3},
            Heaps <- {1, 2}, HeapOf <- [o \in ThreeObjects |-> IF o = o3 THEN 2 ELSE 1], Counts <- 1 .. 5,
            kind <- which, mpValue <- pointee, count <- counts, made <- ptrs, alive <- owned, raw <- plain

\* SafePtr has two of the objects, so the third stands apart.
Symmetry == Permutations(ThreeRoots) \cup Permutations(TwoObjects) \cup Permutations({p1, p2})

\* The one that is used begins in any of its initial states.
Start ==
  /\ Init /\ Linked!Init /\ SafeInit /\ CacheInit /\ Owning!Init
  /\ which \in {"fixed_pool", "linked_ptr", "safe_ptr", "lru_cache"} \cup Owning!Kinds
  /\ which # "fixed_pool" => link = [p \in Nodes |-> 0]
  /\ which # "lru_cache" => m_capacity = 0

Step ==
  /\ UNCHANGED which
  /\ \/ which = "fixed_pool" /\ Next /\ UNCHANGED <<linkedVars, safevars, cachevars, owningVars>>
     \/ which = "linked_ptr" /\ Linked!Next /\ UNCHANGED <<pvars, safevars, cachevars, owningVars>>
     \/ which = "safe_ptr" /\ SafeNext /\ UNCHANGED <<pvars, linkedVars, cachevars, owningVars>>
     \/ which = "lru_cache" /\ CacheNext /\ UNCHANGED <<pvars, linkedVars, safevars, owningVars>>
     \/ which \in Owning!Kinds /\ Owning!Next /\ UNCHANGED <<pvars, linkedVars, safevars, cachevars>>

OwnersSpec == Start /\ [][Step]_<<which, pvars, linkedVars, safevars, cachevars, owningVars>>

\* The properties of linked_ptr, as LinkedPtr states them: the rings are whole,
\* and an object exists exactly as long as a ring owns it.  The latter is also
\* that of the pointers that own alone or count, as OwningPtr states it.
OwnedExactly ==
  /\ Linked!RingsExact /\ Linked!OwnedExactly
  /\ which \in Owning!Kinds => Owning!OwnedExactly
==============================================================================
