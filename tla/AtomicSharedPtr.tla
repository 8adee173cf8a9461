-------------------------- MODULE AtomicSharedPtr --------------------------
(* atomic_load, atomic_store, atomic_exchange and atomic_compare_exchange_*   *)
(* of shared_ptr variables that threads share (include/EASTL/shared_ptr.h),   *)
(* under the one mutex of source/thread_support.cpp.                          *)
(*                                                                            *)
(* Copying a shared_ptr is two steps, reading its pointers and addref, so     *)
(* that a copy of a variable another thread assigns can go wrong.  A call is  *)
(* the sequence of its steps, todo; a deleter that itself loads a shared_ptr  *)
(* runs in front of what its caller has left to do.                           *)
EXTENDS Integers, Sequences, FiniteSets

CONSTANTS
  Threads,
  Cells,      \* the shared_ptr variables accessed by the atomic functions
  Blocks,     \* the ref_count_sp blocks
  Values,     \* the pointers a shared_ptr can have besides: aliases
  NULL,
  Loaders,    \* the blocks whose deleter calls atomic_load
  Recursive   \* whether the mutex may be locked twice by its owner: EASTL's own
              \* may, the std::mutex taken where EA_HAVE_CPP11_MUTEX is set may not

ASSUME AtomicAssumption ==
  /\ IsFiniteSet(Blocks) /\ NULL \notin Blocks /\ NULL \notin Threads
  /\ Loaders \subseteq Blocks /\ Recursive \subseteq BOOLEAN

VARIABLES
  cell,    \* the shared_ptr variables
  reg,     \* the shared_ptrs local to each thread and its calls
  count,   \* mRefCount of each block
  alive,   \* the blocks whose object has not been destroyed
  mutex,   \* gSharedPtrMutex: its owner, how often it is locked, and its kind
  todo     \* what is left of the call each thread is in

vars == <<cell, reg, count, alive, mutex, todo>>

\* mine: the caller's shared_ptr, which receives results and is the condition
\* of a compare; arg: the by-value argument; tmp: the temporary of a copy or an
\* assignment; del: the result of a load in a deleter.
Regs == {"mine", "arg", "tmp", "del"}
Refs == [block : Blocks, value : Values] \cup {[block |-> NULL, value |-> NULL]}
Empty == [block |-> NULL, value |-> NULL]

Steps ==
  [op : {"lock", "unlock"}]
    \cup [op : {"addref", "release"}, r : Regs]
    \cup [op : {"read", "swap"}, c : Cells, r : Regs]
    \cup [op : {"copy", "exchange"}, from : Regs, r : Regs]
    \cup [op : {"compare"}, c : Cells]
    \cup [op : {"assign"}, c : Cells]

\* Pointers lead to blocks, no count goes below zero, and the mutex is one
\* thread's or nobody's (shared_ptr.h:124, 378-379, thread_support.h:96-121).
TypeOK ==
  /\ cell \in [Cells -> Refs]
  /\ reg \in [Threads -> [Regs -> Refs]]
  /\ count \in [Blocks -> Nat]
  /\ alive \subseteq Blocks
  /\ mutex \in [owner : Threads \cup {NULL}, depth : Nat, recursive : Recursive]
  /\ todo \in [Threads -> Seq(Steps)]

Init ==
  /\ cell = [c \in Cells |-> Empty]
  /\ reg = [t \in Threads |-> [r \in Regs |-> Empty]]
  /\ count = [b \in Blocks |-> 0]
  /\ alive = {}
  /\ mutex \in [owner : {NULL}, depth : {0}, recursive : Recursive]
  /\ todo = [t \in Threads |-> <<>>]

-----------------------------------------------------------------------------
(* The functions. *)
Lock == [op |-> "lock"]
Unlock == [op |-> "unlock"]
AddRef(r) == [op |-> "addref", r |-> r]
Release(r) == [op |-> "release", r |-> r]
Read(c, r) == [op |-> "read", c |-> c, r |-> r]
Swap(c, r) == [op |-> "swap", c |-> c, r |-> r]
Copy(q, r) == [op |-> "copy", from |-> q, r |-> r]
Exchange(q, r) == [op |-> "exchange", from |-> q, r |-> r]
Compare(c) == [op |-> "compare", c |-> c]
Assign(c) == [op |-> "assign", c |-> c]

\* Mutant: without the mutex.
atomic_loadUnlocked(c) ==
  <<Read(c, "tmp"), AddRef("tmp"), Exchange("tmp", "mine"), Release("tmp")>>

\* The caller assigns the result to its shared_ptr.
atomic_load(c) ==
  <<Lock, Read(c, "tmp"), AddRef("tmp"), Unlock, Exchange("tmp", "mine"), Release("tmp")>>

\* The argument, now the old value, is destroyed after the mutex is released.
atomic_store(c) == <<Lock, Swap(c, "arg"), Unlock, Release("arg")>>

atomic_exchange(c) ==
  <<Lock, Swap(c, "arg"), Unlock, Exchange("arg", "mine"), Release("arg")>>

\* Mutant: the compare is outside the mutex.
atomic_compare_exchange_Early(c) == <<Lock, Unlock, Compare(c)>>

atomic_compare_exchange_strong(c) == <<Lock, Compare(c)>>

\* Mutant: the new value is not counted.
SuccessSteals(c) ==
  <<Copy("arg", "tmp"), Assign(c), Release("tmp"), Unlock, Release("arg")>>

\* *pSharedPtr = sharedPtrNew: copy, swap, and the old value goes under the lock.
Success(c) ==
  <<Copy("arg", "tmp"), AddRef("tmp"), Assign(c), Release("tmp"), Unlock, Release("arg")>>

\* Mutant: failure returns with the mutex locked.
FailureLocked(c) ==
  <<Read(c, "tmp"), AddRef("tmp"), Exchange("tmp", "mine"), Release("tmp"), Release("arg")>>

\* *pSharedPtrCondition = *pSharedPtr.
Failure(c) ==
  <<Read(c, "tmp"), AddRef("tmp"), Exchange("tmp", "mine"), Release("tmp"), Unlock,
    Release("arg")>>

\* A deleter that loads some cell and drops the result.
Deleter(c) == <<Lock, Read(c, "del"), AddRef("del"), Unlock, Release("del")>>

-----------------------------------------------------------------------------
(* One step of thread t. *)
Doing(t, op) == todo[t] # <<>> /\ Head(todo[t]).op = op
Rest(t) == todo' = [todo EXCEPT ![t] = Tail(@)]

DoLock(t) ==
  /\ Doing(t, "lock")
  /\ mutex.owner = NULL \/ (mutex.recursive /\ mutex.owner = t)
  /\ mutex' = [mutex EXCEPT !.owner = t, !.depth = @ + 1]
  /\ Rest(t) /\ UNCHANGED <<cell, reg, count, alive>>

DoUnlock(t) ==
  /\ Doing(t, "unlock")
  /\ mutex' = [mutex EXCEPT !.owner = IF mutex.depth = 1 THEN NULL ELSE t, !.depth = @ - 1]
  /\ Rest(t) /\ UNCHANGED <<cell, reg, count, alive>>

\* shared_ptr(const shared_ptr&): the pointers first.
DoRead(t) ==
  /\ Doing(t, "read") \/ Doing(t, "copy")
  /\ LET s == Head(todo[t])
     IN  reg' = [reg EXCEPT ![t][s.r] =
                   IF s.op = "read" THEN cell[s.c] ELSE reg[t][s.from]]
  /\ Rest(t) /\ UNCHANGED <<cell, count, alive, mutex>>

DoAddRef(t) ==
  /\ Doing(t, "addref")
  /\ LET b == reg[t][Head(todo[t]).r].block
     IN  count' = IF b = NULL THEN count ELSE [count EXCEPT ![b] = @ + 1]
  /\ Rest(t) /\ UNCHANGED <<cell, reg, alive, mutex>>

\* shared_ptr::swap of a cell, also as the second half of an assignment.
DoSwap(t) ==
  /\ Doing(t, "swap") \/ Doing(t, "assign")
  /\ LET s == Head(todo[t])
         r == IF s.op = "swap" THEN s.r ELSE "tmp"
     IN  /\ cell' = [cell EXCEPT ![s.c] = reg[t][r]]
         /\ reg' = [reg EXCEPT ![t][r] = cell[s.c]]
  /\ Rest(t) /\ UNCHANGED <<count, alive, mutex>>

DoExchange(t) ==
  /\ Doing(t, "exchange")
  /\ LET s == Head(todo[t])
     IN  reg' = [reg EXCEPT ![t][s.from] = reg[t][s.r], ![t][s.r] = reg[t][s.from]]
  /\ Rest(t) /\ UNCHANGED <<cell, count, alive, mutex>>

\* equivalent_ownership compares the blocks.
equivalent_ownership(p, q) == p.block = q.block

DoCompare(t) ==
  /\ Doing(t, "compare")
  /\ LET c == Head(todo[t]).c
     IN  todo' = [todo EXCEPT ![t] = Tail(@) \o
                    IF equivalent_ownership(cell[c], reg[t]["mine"])
                    THEN Success(c) ELSE Failure(c)]
  /\ UNCHANGED <<cell, reg, count, alive, mutex>>

\* The last release destroys the object, and its deleter may load.
DoRelease(t) ==
  /\ Doing(t, "release")
  /\ LET r == Head(todo[t]).r
         b == reg[t][r].block
         last == b # NULL /\ count[b] = 1
     IN  /\ reg' = [reg EXCEPT ![t][r] = Empty]
         /\ count' = IF b = NULL THEN count ELSE [count EXCEPT ![b] = @ - 1]
         /\ alive' = IF last THEN alive \ {b} ELSE alive
         /\ IF last /\ b \in Loaders
            THEN \E c \in Cells : todo' = [todo EXCEPT ![t] = Deleter(c) \o Tail(@)]
            ELSE Rest(t)
  /\ UNCHANGED <<cell, mutex>>

-----------------------------------------------------------------------------
(* The threads' calls.  An argument is a shared_ptr to a new object, an alias *)
(* of the caller's own, or an empty one.                                      *)
Call(t, steps) ==
  /\ todo[t] = <<>>
  /\ todo' = [todo EXCEPT ![t] = steps]

CallLoad(t, c) == Call(t, atomic_load(c)) /\ UNCHANGED <<cell, reg, count, alive, mutex>>

Drop(t) ==
  /\ reg[t]["mine"] # Empty
  /\ Call(t, <<Release("mine")>>) /\ UNCHANGED <<cell, reg, count, alive, mutex>>

CallWith(t, c, f) ==
  /\ Call(t, CASE f = "store" -> atomic_store(c)
               [] f = "exchange" -> atomic_exchange(c)
               [] f = "compare" -> atomic_compare_exchange_strong(c))
  /\ UNCHANGED <<cell, mutex>>

Functions == {"store", "exchange", "compare"}

CallNew(t, c, f, b, v) ==
  /\ b \notin alive /\ count[b] = 0
  /\ reg' = [reg EXCEPT ![t]["arg"] = [block |-> b, value |-> v]]
  /\ count' = [count EXCEPT ![b] = 1]
  /\ alive' = alive \cup {b}
  /\ CallWith(t, c, f)

CallAlias(t, c, f, v) ==
  /\ reg[t]["mine"] # Empty
  /\ reg' = [reg EXCEPT ![t]["arg"] = [block |-> reg[t]["mine"].block, value |-> v]]
  /\ count' = [count EXCEPT ![reg[t]["mine"].block] = @ + 1]
  /\ UNCHANGED alive
  /\ CallWith(t, c, f)

CallEmpty(t, c, f) == CallWith(t, c, f) /\ UNCHANGED <<reg, count, alive>>

Step(t) ==
  \/ DoLock(t) \/ DoUnlock(t) \/ DoRead(t) \/ DoAddRef(t) \/ DoSwap(t)
  \/ DoExchange(t) \/ DoCompare(t) \/ DoRelease(t)

Start(t) ==
  \/ Drop(t)
  \/ \E c \in Cells :
       \/ CallLoad(t, c)
       \/ \E f \in Functions :
            \/ CallEmpty(t, c, f)
            \/ \E v \in Values : CallAlias(t, c, f, v) \/ \E b \in Blocks : CallNew(t, c, f, b, v)

Next == \E t \in Threads : Step(t) \/ Start(t)

\* A thread that can run runs; the scheduler owes no more than that.
Fairness == \A t \in Threads : WF_vars(Step(t))

Spec == Init /\ [][Next]_vars /\ Fairness

-----------------------------------------------------------------------------
(* Properties. *)

\* A register that has been read and whose addref is still to come.
Borrowed(t, r) == todo[t] # <<>> /\ Head(todo[t]) = AddRef(r)

\* A reference count (shared_ptr.h:144-167) is the number of shared_ptrs that own the block, cells and
\* locals, in every interleaving; an object is destroyed when it reaches zero.
CountExact == \A b \in Blocks :
  /\ count[b] = Cardinality({c \in Cells : cell[c].block = b})
                  + Cardinality({x \in Threads \X Regs :
                      reg[x[1]][x[2]].block = b /\ ~Borrowed(x[1], x[2])})
  /\ b \in alive <=> count[b] > 0

\* No thread takes a reference (shared_ptr.h:483-489) of an object that is being destroyed: between
\* reading a cell and addref, nobody else drops the last one.
NeverRevived == \A t \in Threads, r \in Regs :
  (Borrowed(t, r) /\ reg[t][r].block # NULL) => reg[t][r].block \in alive

\* What a compare-exchange replaces is what it compared (shared_ptr.h:1315-1331).
ReplacesCompared == \A t \in Threads : Doing(t, "assign") =>
  cell[Head(todo[t]).c].block = reg[t]["mine"].block

\* A thread about to lock a std::mutex that it has locked.
WaitsForItself(t) == Doing(t, "lock") /\ mutex.owner = t /\ ~mutex.recursive

\* Whoever locks EASTL's mutex unlocks it, deleters that lock it again included
\* (thread_support.cpp:57, 72-90); of a std::mutex that holds up to the first
\* such deleter run under it (shared_ptr.h:1322, 1326), which waits for itself.
LockReleased == \A t \in Threads : mutex.owner = t ~> (mutex.owner # t \/ WaitsForItself(t))

\* What the comment on compare_exchange says (shared_ptr.h:1311-1314), that it
\* assigns and returns: no thread waits for a mutex that it holds.  With std::mutex
\* (thread_support.h:22-28, 97-98) one does: the assignment at 1322 destroys the
\* old object under the mutex, and its deleter may load a shared_ptr.
NeverWaitsForItself == \A t \in Threads : ~WaitsForItself(t)
=============================================================================
