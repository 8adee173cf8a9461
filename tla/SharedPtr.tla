----------------------------- MODULE SharedPtr -----------------------------
(* eastl::shared_ptr and eastl::weak_ptr under concurrent use                 *)
(* (include/EASTL/shared_ptr.h and internal/enable_shared.h), at the grain of *)
(* the atomic operations on the two counters of a ref_count_sp.               *)
(*                                                                            *)
(* Shared and Weak are the program's shared_ptr and weak_ptr variables; the   *)
(* name of a thread also names the temporary shared_ptr that thread has in    *)
(* flight (every assignment, reset and atomic function builds one).  Blocks   *)
(* are ref_count_sp objects with the value they own; the allocator hands a    *)
(* freed block out again.  SelfWeak are the blocks whose value derives from   *)
(* enable_shared_from_this and so holds a weak_ptr to its own block.          *)
(*                                                                            *)
(* The documented contract (shared_ptr.h:16-26) lets threads share an object  *)
(* but not race on one shared_ptr variable: a call neither writes a variable  *)
(* another call is reading or writing, nor reads one another call is writing. *)
EXTENDS Integers, FiniteSets, TLC

CONSTANTS Threads, Shared, Weak, Blocks, SelfWeak, NULL

ASSUME SharedPtrAssumption ==
  /\ IsFiniteSet(Threads) /\ IsFiniteSet(Shared) /\ IsFiniteSet(Weak) /\ IsFiniteSet(Blocks)
  /\ Threads \cap Shared = {} /\ Threads \cap Weak = {} /\ Threads \cap Blocks = {}
  /\ Shared \cap Weak = {} /\ Shared \cap Blocks = {} /\ Weak \cap Blocks = {}
  /\ SelfWeak \subseteq Blocks
  /\ NULL \notin Threads \cup Shared \cup Weak \cup Blocks

VARIABLES
  sp,    \* mpRefCount of every shared_ptr, temporaries included
  wp,    \* mpRefCount of every weak_ptr
  ref,   \* mRefCount of every block
  weak,  \* mWeakRefCount of every block
  life,  \* "free": not allocated; "live": value constructed; "dead": value freed
  pc,    \* where each thread is inside a call ("idle": between calls)
  dst,   \* the variable the call in progress writes, or NULL
  src,   \* the variable the call in progress reads, or NULL
  blk,   \* the block the call in progress is releasing, or NULL
  seen   \* refCountTemp of ref_count_sp::lock

vars == <<sp, wp, ref, weak, life, pc, dst, src, blk, seen>>

Strong == Shared \cup Threads
PtrOf(S) == S \cup {NULL}

\* Pointers lead to blocks, and no count goes below zero, whichever thread
\* releases (shared_ptr.h:124-125, 378-379).
TypeOK ==
  /\ sp \in [Strong -> PtrOf(Blocks)]
  /\ wp \in [Weak -> PtrOf(Blocks)]
  /\ ref \in [Blocks -> Nat]
  /\ weak \in [Blocks -> Nat]
  /\ life \in [Blocks -> {"free", "live", "dead"}]
  /\ pc \in [Threads -> {"idle", "addref_weak", "lock", "swap", "release", "free_value",
                         "weak_release", "free_ref_count_sp", "weak_addref"}]
  /\ dst \in [Threads -> PtrOf(Shared \cup Weak)]
  /\ src \in [Threads -> PtrOf(Shared \cup Weak)]
  /\ blk \in [Threads -> PtrOf(Blocks)]
  /\ seen \in [Threads -> Nat]

Init ==
  /\ sp = [h \in Strong |-> NULL]
  /\ wp = [w \in Weak |-> NULL]
  /\ ref = [b \in Blocks |-> 0]
  /\ weak = [b \in Blocks |-> 0]
  /\ life = [b \in Blocks |-> "free"]
  /\ pc = [t \in Threads |-> "idle"]
  /\ dst = [t \in Threads |-> NULL]
  /\ src = [t \in Threads |-> NULL]
  /\ blk = [t \in Threads |-> NULL]
  /\ seen = [t \in Threads |-> 0]

-----------------------------------------------------------------------------
(* The caller's side of the contract.                                         *)
MayRead(h) == \A u \in Threads : dst[u] # h
MayWrite(h) == \A u \in Threads : dst[u] # h /\ src[u] # h

\* The block that h, a shared_ptr or a weak_ptr, refers to.
Target(h) == IF h \in Shared THEN sp[h] ELSE wp[h]

SelfToken(b) == IF b \in SelfWeak THEN 1 ELSE 0

-----------------------------------------------------------------------------
(* shared_ptr: every way to give a variable a new value builds a temporary,   *)
(* swaps it with the variable and lets the temporary's destructor release the *)
(* old value.  d is the variable.                                             *)

\* Mutant: the copy constructor forgets addref.
CopyAssignUncounted(t, d, g) ==
  /\ pc[t] = "idle" /\ d # g /\ MayWrite(d) /\ MayRead(g)
  /\ sp' = [sp EXCEPT ![t] = sp[g]]
  /\ dst' = [dst EXCEPT ![t] = d]
  /\ pc' = [pc EXCEPT ![t] = "swap"]
  /\ UNCHANGED <<wp, ref, weak, life, src, blk, seen>>

\* d = g: the copy constructor's addref, first half (mRefCount.fetch_add).
\* d = g and the converting form, which does nothing when both already own the
\* same block, differ only in a step that leaves every count as it was.
CopyAssign(t, d, g) ==
  /\ pc[t] = "idle"
  /\ d # g
  /\ MayWrite(d) /\ MayRead(g)
  /\ sp' = [sp EXCEPT ![t] = sp[g]]
  /\ dst' = [dst EXCEPT ![t] = d]
  /\ IF sp[g] = NULL
     THEN /\ pc' = [pc EXCEPT ![t] = "swap"]
          /\ UNCHANGED <<ref, src>>
     ELSE /\ pc' = [pc EXCEPT ![t] = "addref_weak"]
          /\ src' = [src EXCEPT ![t] = g]
          /\ ref' = [ref EXCEPT ![sp[g]] = @ + 1]
  /\ UNCHANGED <<wp, weak, life, blk, seen>>

\* Mutant: the owner takes no weak count of its own.
AddrefWeakLost(t) ==
  /\ pc[t] = "addref_weak"
  /\ pc' = [pc EXCEPT ![t] = "swap"]
  /\ src' = [src EXCEPT ![t] = NULL]
  /\ UNCHANGED <<sp, wp, ref, weak, life, dst, blk, seen>>

\* The second half of addref() and of lock() (mWeakRefCount.fetch_add).
AddrefWeak(t) ==
  /\ pc[t] = "addref_weak"
  /\ weak' = [weak EXCEPT ![sp[t]] = @ + 1]
  /\ pc' = [pc EXCEPT ![t] = "swap"]
  /\ src' = [src EXCEPT ![t] = NULL]
  /\ UNCHANGED <<sp, wp, ref, life, dst, blk, seen>>

\* Mutant: the source of the move keeps its pointer.
MoveAssignKeepsSource(t, d, g) ==
  /\ pc[t] = "idle" /\ d # g /\ MayWrite(d) /\ MayWrite(g)
  /\ sp' = [sp EXCEPT ![t] = sp[g]]
  /\ dst' = [dst EXCEPT ![t] = d]
  /\ pc' = [pc EXCEPT ![t] = "swap"]
  /\ UNCHANGED <<wp, ref, weak, life, src, blk, seen>>

\* d = move(g).
MoveAssign(t, d, g) ==
  /\ pc[t] = "idle"
  /\ d # g
  /\ MayWrite(d) /\ MayWrite(g)
  /\ sp' = [sp EXCEPT ![t] = sp[g], ![g] = NULL]
  /\ dst' = [dst EXCEPT ![t] = d]
  /\ pc' = [pc EXCEPT ![t] = "swap"]
  /\ UNCHANGED <<wp, ref, weak, life, src, blk, seen>>

\* d.reset(new T), d = make_shared<T>(): alloc_internal or allocate_shared,
\* whose counters start at 1 and 1, then do_enable_shared_from_this, which
\* nobody else can observe yet.
Make(t, d, b) ==
  /\ pc[t] = "idle"
  /\ MayWrite(d)
  /\ life[b] = "free"
  /\ life' = [life EXCEPT ![b] = "live"]
  /\ ref' = [ref EXCEPT ![b] = 1]
  /\ weak' = [weak EXCEPT ![b] = 1 + SelfToken(b)]
  /\ sp' = [sp EXCEPT ![t] = b]
  /\ dst' = [dst EXCEPT ![t] = d]
  /\ pc' = [pc EXCEPT ![t] = "swap"]
  /\ UNCHANGED <<wp, src, blk, seen>>

\* d.reset(), d's destructor, and d.reset(p) when no block can be allocated
\* (EASTL_EXCEPTIONS_ENABLED = 0): the temporary is empty.
Reset(t, d) ==
  /\ pc[t] = "idle"
  /\ MayWrite(d)
  /\ dst' = [dst EXCEPT ![t] = d]
  /\ pc' = [pc EXCEPT ![t] = "swap"]
  /\ UNCHANGED <<sp, wp, ref, weak, life, src, blk, seen>>

\* Mutant: lock does not stop at a count of zero.
LockLoadZero(t, d, w) ==
  /\ pc[t] = "idle" /\ MayWrite(d) /\ MayRead(w)
  /\ w \in Shared => sp[w] \in SelfWeak
  /\ dst' = [dst EXCEPT ![t] = d]
  /\ IF Target(w) = NULL
     THEN /\ pc' = [pc EXCEPT ![t] = "swap"]
          /\ UNCHANGED <<src, seen>>
     ELSE /\ pc' = [pc EXCEPT ![t] = "lock"]
          /\ src' = [src EXCEPT ![t] = w]
          /\ seen' = [seen EXCEPT ![t] = ref[Target(w)]]
  /\ UNCHANGED <<sp, wp, ref, weak, life, blk>>

\* d = w.lock() for a weak_ptr w, and d = w->shared_from_this() for a shared_ptr
\* w whose value has a weak_ptr to itself: the load before the loop of
\* ref_count_sp::lock.
LockLoad(t, d, w) ==
  /\ pc[t] = "idle"
  /\ MayWrite(d) /\ MayRead(w)
  /\ w \in Shared => sp[w] \in SelfWeak
  /\ dst' = [dst EXCEPT ![t] = d]
  /\ IF Target(w) = NULL \/ ref[Target(w)] = 0
     THEN /\ pc' = [pc EXCEPT ![t] = "swap"]
          /\ UNCHANGED <<src, seen>>
     ELSE /\ pc' = [pc EXCEPT ![t] = "lock"]
          /\ src' = [src EXCEPT ![t] = w]
          /\ seen' = [seen EXCEPT ![t] = ref[Target(w)]]
  /\ UNCHANGED <<sp, wp, ref, weak, life, blk>>

\* Mutant: a load and a store instead of compare_exchange.
LockTakesStale(t) ==
  /\ pc[t] = "lock"
  /\ ref' = [ref EXCEPT ![Target(src[t])] = seen[t] + 1]
  /\ sp' = [sp EXCEPT ![t] = Target(src[t])]
  /\ pc' = [pc EXCEPT ![t] = "addref_weak"]
  /\ seen' = [seen EXCEPT ![t] = 0]
  /\ UNCHANGED <<wp, weak, life, dst, src, blk>>

\* compare_exchange_weak succeeds.
LockTakes(t) ==
  /\ pc[t] = "lock"
  /\ ref[Target(src[t])] = seen[t]
  /\ ref' = [ref EXCEPT ![Target(src[t])] = seen[t] + 1]
  /\ sp' = [sp EXCEPT ![t] = Target(src[t])]
  /\ pc' = [pc EXCEPT ![t] = "addref_weak"]
  /\ seen' = [seen EXCEPT ![t] = 0]
  /\ UNCHANGED <<wp, weak, life, dst, src, blk>>

\* compare_exchange_weak fails, spuriously or not, and reloads refCountTemp.
LockRetries(t) ==
  /\ pc[t] = "lock"
  /\ IF ref[Target(src[t])] = 0
     THEN /\ pc' = [pc EXCEPT ![t] = "swap"]
          /\ src' = [src EXCEPT ![t] = NULL]
          /\ seen' = [seen EXCEPT ![t] = 0]
     ELSE /\ seen' = [seen EXCEPT ![t] = ref[Target(src[t])]]
          /\ UNCHANGED <<pc, src>>
  /\ UNCHANGED <<sp, wp, ref, weak, life, dst, blk>>

\* temporary.swap(d); an empty temporary has nothing to release.
Swap(t) ==
  /\ pc[t] = "swap"
  /\ sp' = [sp EXCEPT ![t] = sp[dst[t]], ![dst[t]] = sp[t]]
  /\ dst' = [dst EXCEPT ![t] = NULL]
  /\ pc' = [pc EXCEPT ![t] = IF sp[dst[t]] = NULL THEN "idle" ELSE "release"]
  /\ UNCHANGED <<wp, ref, weak, life, src, blk, seen>>

\* g.swap(h) as a call of its own.
SwapShared(t, g, h) ==
  /\ pc[t] = "idle"
  /\ MayWrite(g) /\ MayWrite(h)
  /\ sp' = [sp EXCEPT ![g] = sp[h], ![h] = sp[g]]
  /\ UNCHANGED <<wp, ref, weak, life, pc, dst, src, blk, seen>>

\* Mutant: release takes the count before the decrement for the one after it.
ReleaseOffByOne(t) ==
  /\ pc[t] = "release"
  /\ ref' = [ref EXCEPT ![sp[t]] = @ - 1]
  /\ blk' = [blk EXCEPT ![t] = sp[t]]
  /\ sp' = [sp EXCEPT ![t] = NULL]
  /\ pc' = [pc EXCEPT ![t] = IF ref[sp[t]] = 2 THEN "free_value" ELSE "weak_release"]
  /\ UNCHANGED <<wp, weak, life, dst, src, seen>>

\* ref_count_sp::release: mRefCount.fetch_sub.
Release(t) ==
  /\ pc[t] = "release"
  /\ ref' = [ref EXCEPT ![sp[t]] = @ - 1]
  /\ blk' = [blk EXCEPT ![t] = sp[t]]
  /\ sp' = [sp EXCEPT ![t] = NULL]
  /\ pc' = [pc EXCEPT ![t] = IF ref[sp[t]] = 1 THEN "free_value" ELSE "weak_release"]
  /\ UNCHANGED <<wp, weak, life, dst, src, seen>>

\* free_value: the deleter or the destructor, which also ends the value's
\* weak_ptr to its own block; were that the last weak count, its weak_release
\* would free the block under the value's feet.
FreeValue(t) ==
  /\ pc[t] = "free_value"
  /\ weak' = [weak EXCEPT ![blk[t]] = @ - SelfToken(blk[t])]
  /\ life' = [life EXCEPT ![blk[t]] =
                IF weak[blk[t]] = 1 /\ blk[t] \in SelfWeak THEN "free" ELSE "dead"]
  /\ pc' = [pc EXCEPT ![t] = "weak_release"]
  /\ UNCHANGED <<sp, wp, ref, dst, src, blk, seen>>

\* Mutant: weak_release waits for a count of zero before the decrement.
WeakReleaseNeverLast(t) ==
  /\ pc[t] = "weak_release"
  /\ weak' = [weak EXCEPT ![blk[t]] = @ - 1]
  /\ pc' = [pc EXCEPT ![t] = IF src[t] = NULL THEN "idle" ELSE "weak_addref"]
  /\ blk' = [blk EXCEPT ![t] = NULL]
  /\ UNCHANGED <<sp, wp, ref, life, dst, src, seen>>

\* ref_count_sp::weak_release: mWeakRefCount.fetch_sub.
WeakRelease(t) ==
  /\ pc[t] = "weak_release"
  /\ weak' = [weak EXCEPT ![blk[t]] = @ - 1]
  /\ IF weak[blk[t]] = 1
     THEN /\ pc' = [pc EXCEPT ![t] = "free_ref_count_sp"]
          /\ UNCHANGED blk
     ELSE /\ pc' = [pc EXCEPT ![t] = IF src[t] = NULL THEN "idle" ELSE "weak_addref"]
          /\ blk' = [blk EXCEPT ![t] = NULL]
  /\ UNCHANGED <<sp, wp, ref, life, dst, src, seen>>

FreeRefCount(t) ==
  /\ pc[t] = "free_ref_count_sp"
  /\ life' = [life EXCEPT ![blk[t]] = "free"]
  /\ blk' = [blk EXCEPT ![t] = NULL]
  /\ pc' = [pc EXCEPT ![t] = IF src[t] = NULL THEN "idle" ELSE "weak_addref"]
  /\ UNCHANGED <<sp, wp, ref, weak, dst, src, seen>>

-----------------------------------------------------------------------------
(* weak_ptr.  A call hands the count of the variable it overwrites to the     *)
(* thread, which then releases it.                                            *)

\* w = g, for a shared_ptr or weak_ptr g: nothing when both refer to the same
\* block, else weak_release the old block and then weak_addref the new one.
WeakAssign(t, w, g) ==
  /\ pc[t] = "idle"
  /\ MayWrite(w) /\ MayRead(g)
  /\ Target(g) # NULL /\ Target(g) # wp[w]
  /\ wp' = [wp EXCEPT ![w] = NULL]
  /\ src' = [src EXCEPT ![t] = g]
  /\ dst' = [dst EXCEPT ![t] = w]
  /\ blk' = [blk EXCEPT ![t] = wp[w]]
  /\ pc' = [pc EXCEPT ![t] = IF wp[w] = NULL THEN "weak_addref" ELSE "weak_release"]
  /\ UNCHANGED <<sp, ref, weak, life, seen>>

WeakAddref(t) ==
  /\ pc[t] = "weak_addref"
  /\ wp' = [wp EXCEPT ![dst[t]] = Target(src[t])]
  /\ weak' = [weak EXCEPT ![Target(src[t])] = @ + 1]
  /\ src' = [src EXCEPT ![t] = NULL]
  /\ dst' = [dst EXCEPT ![t] = NULL]
  /\ pc' = [pc EXCEPT ![t] = "idle"]
  /\ UNCHANGED <<sp, ref, life, blk, seen>>

\* w.reset(), w's destructor, and w = g when g is empty.
WeakReset(t, w) ==
  /\ pc[t] = "idle"
  /\ MayWrite(w)
  /\ wp[w] # NULL
  /\ wp' = [wp EXCEPT ![w] = NULL]
  /\ blk' = [blk EXCEPT ![t] = wp[w]]
  /\ pc' = [pc EXCEPT ![t] = "weak_release"]
  /\ UNCHANGED <<sp, ref, weak, life, dst, src, seen>>

\* w = move(v): weak_ptr(move(v)).swap(*this), whose temporary then dies.
WeakMove(t, w, v) ==
  /\ pc[t] = "idle"
  /\ w # v
  /\ MayWrite(w) /\ MayWrite(v)
  /\ wp' = [wp EXCEPT ![w] = wp[v], ![v] = NULL]
  /\ blk' = [blk EXCEPT ![t] = wp[w]]
  /\ pc' = [pc EXCEPT ![t] = IF wp[w] = NULL THEN "idle" ELSE "weak_release"]
  /\ UNCHANGED <<sp, ref, weak, life, dst, src, seen>>

\* w.swap(v).
SwapWeak(t, w, v) ==
  /\ pc[t] = "idle"
  /\ MayWrite(w) /\ MayWrite(v)
  /\ wp' = [wp EXCEPT ![w] = wp[v], ![v] = wp[w]]
  /\ UNCHANGED <<sp, ref, weak, life, pc, dst, src, blk, seen>>

-----------------------------------------------------------------------------
\* The calls a thread may start.
Call(t) ==
  \/ \E d, g \in Shared : CopyAssign(t, d, g) \/ MoveAssign(t, d, g) \/ SwapShared(t, d, g)
  \/ \E d \in Shared : Reset(t, d) \/ \E b \in Blocks : Make(t, d, b)
  \/ \E d \in Shared, w \in Shared \cup Weak : LockLoad(t, d, w)
  \/ \E w \in Weak, g \in Shared \cup Weak : WeakAssign(t, w, g)
  \/ \E w \in Weak : WeakReset(t, w)
  \/ \E w, v \in Weak : WeakMove(t, w, v) \/ SwapWeak(t, w, v)

\* The next step of a call in progress.
Step(t) ==
  \/ AddrefWeak(t) \/ LockTakes(t) \/ LockRetries(t) \/ Swap(t) \/ Release(t) \/ FreeValue(t)
  \/ WeakRelease(t) \/ FreeRefCount(t) \/ WeakAddref(t)

Next == \E t \in Threads : Call(t) \/ Step(t)

SafeSpec == Init /\ [][Next]_vars

\* A thread inside a call is scheduled again; nobody has to start a call.
Spec == SafeSpec /\ \A t \in Threads : WF_vars(Step(t))

-----------------------------------------------------------------------------
(* Properties.                                                                *)

StrongHolders(b) == {h \in Strong : sp[h] = b}

\* The weak count a thread accounts for while it is inside a call: the one its
\* temporary owns, once the second increment is done, or the one it gives back.
ThreadHolds(t, b) ==
  IF pc[t] \in {"free_value", "weak_release"} THEN blk[t] = b
  ELSE sp[t] = b /\ pc[t] # "addref_weak"

\* The parties that each account for one weak count: shared_ptrs and weak_ptrs,
\* threads inside a call, and a live value that watches itself.
WeakTokens(b) ==
  {g \in Shared : sp[g] = b} \cup {w \in Weak : wp[w] = b}
    \cup {t \in Threads : ThreadHolds(t, b)}
    \cup {x \in {b} \cap SelfWeak : life[x] = "live"}

\* mRefCount is the number of shared_ptrs, temporaries included, that own the
\* block: no interleaving of the two-step addref, lock and release loses or
\* invents an owner (shared_ptr.h:157-202).
RefCountExact == \A b \in Blocks : ref[b] = Cardinality(StrongHolders(b))

\* mWeakRefCount, which addref, lock and release update in a second atomic
\* step, is the number of parties entitled to a weak count (shared_ptr.h:157-198).
WeakCountExact == \A b \in Blocks : weak[b] = Cardinality(WeakTokens(b))

\* Whoever can reach a block finds it allocated, and a shared_ptr finds its
\* value alive: also between the two increments of a copy or of a lock
\* (shared_ptr.h:483-489, 1524-1533).
NoUseAfterFree ==
  /\ \A h \in Strong : sp[h] # NULL => life[sp[h]] = "live"
  /\ \A w \in Weak : wp[w] # NULL => life[wp[w]] # "free"
  /\ \A t \in Threads : blk[t] # NULL => life[blk[t]] # "free"

\* One thread destroys a value and one thread frees a block, and the latter is
\* then the only party that still refers to it (shared_ptr.h:163-188).
FreedByOne ==
  \A t \in Threads :
    /\ pc[t] = "free_value" =>
         /\ StrongHolders(blk[t]) = {}
         /\ life[blk[t]] = "live"
         /\ \A u \in Threads \ {t} : pc[u] = "free_value" => blk[u] # blk[t]
    /\ pc[t] = "free_ref_count_sp" =>
         /\ life[blk[t]] = "dead"
         /\ WeakTokens(blk[t]) = {}
         /\ \A u \in Threads \ {t} : blk[u] # blk[t]

\* shared_from_this through a shared_ptr that owns the value never comes back
\* empty, whatever the other owners do meanwhile (enable_shared.h:42-46).
SharedFromThisSucceeds ==
  \A t \in Threads :
    pc[t] = "lock" /\ src[t] \in Shared => ref[sp[src[t]]] > 0

\* A value whose last owner let go is never owned again: lock() cannot
\* resurrect it, however its load and compare_exchange interleave with the
\* last release (shared_ptr.h:190-202).
ExpiredForGood ==
  [][\A b \in Blocks : life[b] # "free" /\ ref[b] = 0 => ref'[b] = 0]_vars

\* A block nobody refers to, except the thread that is releasing it.
Abandoned(b) ==
  /\ life[b] # "free"
  /\ \A h \in Shared : sp[h] # b
  /\ \A w \in Weak : wp[w] # b
  /\ \A t \in Threads : sp[t] = b => pc[t] = "release"

\* No leak: an abandoned block is given back to the allocator, whichever thread
\* does it (shared_ptr.h:163-188).
NoLeak == \A b \in Blocks : Abandoned(b) ~> life[b] = "free"

\* Counters, threads in mid-call and deferred destruction are invisible: the
\* counted pointers implement plain ownership.
O == INSTANCE Ownership WITH
       Holders <- Strong, Observers <- Weak, Objects <- Blocks,
       strong <- sp, observed <- wp,
       live <- {b \in Blocks : life[b] = "live"},
       present <- {b \in Blocks : life[b] # "free"}
ImplementsOwnership == O!OSpec

\* For TLC: no action and no property tells threads or pointers apart, nor blocks
\* where SelfWeak is all of them or none.
Symmetry ==
  Permutations(Threads) \cup Permutations(Shared) \cup Permutations(Weak) \cup Permutations(Blocks)
=============================================================================
