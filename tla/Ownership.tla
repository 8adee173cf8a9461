----------------------------- MODULE Ownership -----------------------------
(* What eastl::shared_ptr and eastl::weak_ptr promise, with no counter in     *)
(* sight (include/EASTL/shared_ptr.h:16-26, 350-367).                         *)
(* Holders are the shared_ptr variables of the program, Observers its         *)
(* weak_ptr variables and Objects the owned values together with their        *)
(* ref_count_sp block.  Every operation is a single step; what happens to an  *)
(* object nobody holds any more (Destroy) and to a block nobody refers to any *)
(* more (Reclaim) are steps of their own, taken some time later.              *)
CONSTANTS Holders, Observers, Objects, NULL

VARIABLES
  strong,    \* the object each holder owns, or NULL
  observed,  \* the object each observer watches, or NULL
  live,      \* the objects constructed and not yet destroyed
  present    \* the objects whose block has not been given back

ovars == <<strong, observed, live, present>>

OInit ==
  /\ strong = [h \in Holders |-> NULL]
  /\ observed = [w \in Observers |-> NULL]
  /\ live = {}
  /\ present = {}

Owned(o) == \E h \in Holders : strong[h] = o
Watched(o) == \E w \in Observers : observed[w] = o

\* A new object, owned by a holder that was empty.
Create(h, o) ==
  /\ strong[h] = NULL
  /\ o \notin present
  /\ strong' = [strong EXCEPT ![h] = o]
  /\ live' = live \cup {o}
  /\ present' = present \cup {o}
  /\ UNCHANGED observed

\* h comes to own what g owns.
Share(h, g) ==
  /\ strong[h] = NULL
  /\ strong' = [strong EXCEPT ![h] = strong[g]]
  /\ UNCHANGED <<observed, live, present>>

\* A swap; a move is a swap with an empty holder.
Exchange(h, g) ==
  /\ strong' = [strong EXCEPT ![h] = strong[g], ![g] = strong[h]]
  /\ UNCHANGED <<observed, live, present>>

Drop(h) ==
  /\ strong' = [strong EXCEPT ![h] = NULL]
  /\ UNCHANGED <<observed, live, present>>

\* An observer is promoted: only while somebody still owns the object.
Lock(h, w) ==
  /\ strong[h] = NULL
  /\ Owned(observed[w])
  /\ strong' = [strong EXCEPT ![h] = observed[w]]
  /\ UNCHANGED <<observed, live, present>>

\* An observer starts to watch an object somebody owns or watches.
Observe(w, o) ==
  /\ Owned(o) \/ Watched(o)
  /\ observed' = [observed EXCEPT ![w] = o]
  /\ UNCHANGED <<strong, live, present>>

Forget(w) ==
  /\ observed' = [observed EXCEPT ![w] = NULL]
  /\ UNCHANGED <<strong, live, present>>

\* weak_ptr's move and swap.
PassOn(w, v) ==
  /\ \/ observed' = [observed EXCEPT ![w] = observed[v], ![v] = NULL]
     \/ observed' = [observed EXCEPT ![w] = observed[v], ![v] = observed[w]]
  /\ UNCHANGED <<strong, live, present>>

\* The value dies, once, when its last owner is gone.
Destroy(o) ==
  /\ o \in live
  /\ ~Owned(o)
  /\ live' = live \ {o}
  /\ UNCHANGED <<strong, observed, present>>

\* The block goes back to the allocator when nobody can refer to it.
Reclaim(o) ==
  /\ o \in present \ live
  /\ ~Owned(o)
  /\ ~Watched(o)
  /\ present' = present \ {o}
  /\ UNCHANGED <<strong, observed, live>>

ONext ==
  \/ \E h \in Holders : Drop(h) \/ \E o \in Objects : Create(h, o)
  \/ \E h, g \in Holders : Share(h, g) \/ Exchange(h, g)
  \/ \E h \in Holders, w \in Observers : Lock(h, w)
  \/ \E w \in Observers : Forget(w) \/ \E o \in Objects : Observe(w, o)
  \/ \E w, v \in Observers : PassOn(w, v)
  \/ \E o \in Objects : Destroy(o) \/ Reclaim(o)

OSafeSpec == OInit /\ [][ONext]_ovars

\* What nobody owns is destroyed, and what nobody refers to is given back.
OSpec ==
  /\ OSafeSpec
  /\ \A o \in Objects : WF_ovars(Destroy(o)) /\ WF_ovars(Reclaim(o))
=============================================================================
