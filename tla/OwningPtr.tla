------------------------------ MODULE OwningPtr ------------------------------
(* The smart pointers without a ring or a control block: unique_ptr and       *)
(* scoped_ptr own alone, shared_array counts beside its array, intrusive_ptr  *)
(* in its object.  The pointers of a behaviour are all of one kind, the arrays *)
(* of unique_ptr and scoped_array being as their pointers to one object.  An  *)
(* object may hold such a pointer, and its destructor may reset another.      *)
EXTENDS Naturals, FiniteSets

CONSTANTS
  Roots,       \* pointer variables of the program
  Objects,
  Holders,     \* the objects that hold a pointer, which goes by the object's name
  Resetting,   \* those whose destructor may reset one of the roots
  Heaps,       \* where objects come from, as the deleters of unique_ptr know
  HeapOf,      \* that of each object
  Counts,      \* a bound: on the counts there are at a time, which are numbers
  NULL

Ptrs == Roots \cup Holders
Kinds == {"unique_ptr", "scoped_ptr", "shared_array", "intrusive_ptr"}

VARIABLES
  kind,
  mpValue,      \* of each pointer
  mDeleter,     \* unique_ptr: the heap its deleter gives an object back to
  mpRefCount,   \* shared_array: its count
  count,        \* the counts, 0 when there is none; for intrusive_ptr of the objects
  hook,         \* the root that an object's destructor resets, or NULL
  made, alive,
  raw,          \* the objects whose plain pointer, or one reference, the program owns
  misused       \* something was deleted twice, or given to another heap

vars == <<kind, mpValue, mDeleter, mpRefCount, count, hook, made, alive, raw, misused>>

Init ==
  /\ mpValue = [p \in Ptrs |-> NULL]
  /\ mDeleter = [p \in Ptrs |-> CHOOSE h \in Heaps : TRUE]
  /\ mpRefCount = [p \in Ptrs |-> NULL]
  /\ count = [c \in Counts \cup Objects |-> 0]
  /\ hook = [o \in Objects |-> NULL]
  /\ made = {} /\ alive = {} /\ raw = {} /\ misused = FALSE

-----------------------------------------------------------------------------
(* The state as a record, for functions that call each other. *)
State == [value |-> mpValue, deleter |-> mDeleter, ref |-> mpRefCount, count |-> count,
          made |-> made, alive |-> alive, misused |-> misused]

SetState(s) ==
  /\ mpValue' = s.value /\ mDeleter' = s.deleter /\ mpRefCount' = s.ref /\ count' = s.count
  /\ made' = s.made /\ alive' = s.alive /\ misused' = s.misused

RECURSIVE Delete(_, _)

\* unique_ptr: the pointer has its new value before the old object goes.
unique_reset(s, p, v) ==
  LET first == s.value[p]
      t == [s EXCEPT !.value[p] = v,
                     !.misused = @ \/ (first # NULL /\ s.deleter[p] # HeapOf[first])]
  IN  IF v = first THEN s ELSE Delete(t, first)

\* scoped_ptr: it has it afterwards.
scoped_reset(s, p, v) ==
  IF v = s.value[p] THEN s ELSE [Delete(s, s.value[p]) EXCEPT !.value[p] = v]

\* shared_array: the last owner frees the count, and then the array.
DropShare(s, ref, array) ==
  LET t == [s EXCEPT !.count[ref] = @ - 1]
  IN  IF t.count[ref] = 0 THEN Delete(t, array) ELSE t

\* A temporary takes the new array, the two are swapped, and it goes with the old.
ReplaceShare(s, p, ref, array) ==
  DropShare([s EXCEPT !.value[p] = array, !.ref[p] = ref, !.count[ref] = @ + 1], s.ref[p], s.value[p])

\* The count beside an array goes by the array's name.
NewCount(s, v) == IF v = NULL THEN CHOOSE c \in Counts : s.count[c] = 0 ELSE v

shared_reset(s, p, v) == IF v = s.value[p] THEN s ELSE ReplaceShare(s, p, NewCount(s, v), v)

\* intrusive_ptr: the object counts, and deletes itself.
AddRef(s, o) == IF o = NULL THEN s ELSE [s EXCEPT !.count[o] = @ + 1]
ReleaseRef(s, o) ==
  IF o = NULL THEN s
  ELSE LET t == [s EXCEPT !.count[o] = @ - 1] IN IF t.count[o] = 0 THEN Delete(t, o) ELSE t

\* The new object is counted before the old one is let go.
intrusive_assign(s, p, v) ==
  IF v = s.value[p] THEN s ELSE ReleaseRef([AddRef(s, v) EXCEPT !.value[p] = v], s.value[p])

\* attach, without counting, and reset with NULL.
attach(s, p, v) == ReleaseRef([s EXCEPT !.value[p] = v], s.value[p])

ResetToNull(s, p) ==
  CASE kind = "unique_ptr" -> unique_reset(s, p, NULL)
    [] kind = "scoped_ptr" -> scoped_reset(s, p, NULL)
    [] kind = "shared_array" -> shared_reset(s, p, NULL)
    [] kind = "intrusive_ptr" -> attach(s, p, NULL)

\* The destructors of the four.
EndPtr(s, p) ==
  LET t == [s EXCEPT !.made = @ \ {p}]
  IN  CASE kind = "unique_ptr" -> unique_reset(t, p, NULL)
        [] kind = "scoped_ptr" -> Delete(t, t.value[p])
        [] kind = "shared_array" -> DropShare(t, t.ref[p], t.value[p])
        [] kind = "intrusive_ptr" -> ReleaseRef(t, t.value[p])

\* An object's destructor, and the end of the pointer that it holds.
Delete(s, o) ==
  IF o = NULL THEN s
  ELSE IF o \notin s.alive THEN [s EXCEPT !.misused = TRUE]
  ELSE LET gone == [s EXCEPT !.alive = @ \ {o}]
           t == IF hook[o] \in gone.made THEN ResetToNull(gone, hook[o]) ELSE gone
       IN  IF o \in Holders THEN EndPtr(t, o) ELSE t

-----------------------------------------------------------------------------
\* The pointers the program can name: its own, and those of objects it reaches.
Reachable ==
  LET R[n \in Nat] ==
        IF n = 0 THEN (made \cap Roots) \cup (raw \cap Holders)
        ELSE R[n - 1] \cup ({mpValue[p] : p \in R[n - 1]} \cap Holders)
  IN  R[Cardinality(Objects)]

\* What the program may give to a pointer: what it owns.  The deleter of a
\* unique_ptr is the caller's choice, and he chooses the right one.
Given(p, v) ==
  /\ v \in raw \cup {NULL}
  /\ kind = "unique_ptr" /\ v # NULL => mDeleter[p] = HeapOf[v]

\* new: the pointer the object holds is empty; an object that counts begins with
\* the program's reference.
New(o, h) ==
  /\ o \notin alive /\ h \in Roots \cup {NULL}
  /\ h # NULL => o \in Resetting /\ kind # "scoped_ptr"
  /\ alive' = alive \cup {o} /\ raw' = raw \cup {o} /\ hook' = [hook EXCEPT ![o] = h]
  /\ made' = made \cup ({o} \cap Holders)
  /\ mpValue' = [p \in Ptrs |-> IF p = o THEN NULL ELSE mpValue[p]]
  /\ LET ref == NewCount(State, NULL)
     IN  IF kind = "shared_array" /\ o \in Holders
         THEN mpRefCount' = [mpRefCount EXCEPT ![o] = ref] /\ count' = [count EXCEPT ![ref] = 1]
         ELSE /\ count' = [count EXCEPT ![o] = IF kind = "intrusive_ptr" THEN 1 ELSE 0]
              /\ UNCHANGED mpRefCount
  /\ UNCHANGED <<kind, mDeleter, misused>>

\* A constructor from a plain pointer; intrusive_ptr may take the program's
\* reference over, or add its own.
ConstructFrom(p, v, add) ==
  /\ p \in Roots \ made
  /\ add => kind = "intrusive_ptr" /\ v # NULL
  /\ v \in IF add THEN alive ELSE raw \cup {NULL}
  /\ LET s == [State EXCEPT !.value[p] = v, !.made = @ \cup {p}]
         ref == NewCount(s, v)
     IN  CASE kind = "unique_ptr" ->
                \E h \in Heaps : (v # NULL => h = HeapOf[v]) /\ SetState([s EXCEPT !.deleter[p] = h])
           [] kind = "scoped_ptr" -> SetState(s)
           [] kind = "shared_array" -> SetState([s EXCEPT !.ref[p] = ref, !.count[ref] = 1])
           [] kind = "intrusive_ptr" -> SetState(IF add THEN AddRef(s, v) ELSE s)
  /\ raw' = IF add THEN raw ELSE raw \ {v}
  /\ UNCHANGED <<kind, hook>>

ConstructCopy(p, q) ==
  /\ p \in Roots \ made /\ q \in Reachable /\ kind \in {"shared_array", "intrusive_ptr"}
  /\ LET s == [State EXCEPT !.value[p] = mpValue[q], !.made = @ \cup {p}]
     IN  SetState(IF kind = "intrusive_ptr" THEN AddRef(s, mpValue[q])
                  ELSE [s EXCEPT !.ref[p] = mpRefCount[q], !.count[mpRefCount[q]] = @ + 1])
  /\ UNCHANGED <<kind, hook, raw>>

ConstructMove(p, q) ==
  /\ p \in Roots \ made /\ q \in Reachable /\ kind \in {"unique_ptr", "intrusive_ptr"}
  /\ SetState([State EXCEPT !.value = [@ EXCEPT ![p] = mpValue[q], ![q] = NULL],
                            !.deleter[p] = mDeleter[q], !.made = @ \cup {p}])
  /\ UNCHANGED <<kind, hook, raw>>

Destruct(p) ==
  /\ p \in made \cap Roots
  /\ SetState([EndPtr(State, p) EXCEPT !.value[p] = NULL])
  /\ UNCHANGED <<kind, hook, raw>>

-----------------------------------------------------------------------------
(* Assignments.  In those of a pointer's own, p and q may be the same. *)
ResetTo(p, v) ==
  /\ p \in Reachable /\ Given(p, v)
  /\ CASE kind = "unique_ptr" -> SetState(unique_reset(State, p, v))
       [] kind = "scoped_ptr" -> SetState(scoped_reset(State, p, v))
       [] kind = "shared_array" -> SetState(shared_reset(State, p, v))
       [] kind = "intrusive_ptr" -> SetState(attach(State, p, v))
  /\ raw' = raw \ {v}
  /\ UNCHANGED <<kind, hook>>

\* intrusive_ptr: operator= with a plain pointer, to whatever exists.
AssignPointer(p, v) ==
  /\ kind = "intrusive_ptr" /\ p \in Reachable /\ v \in alive \cup {NULL}
  /\ SetState(intrusive_assign(State, p, v))
  /\ UNCHANGED <<kind, hook, raw>>

\* Copy assignment; that of a shared_array compares the arrays.
AssignCopy(p, q) ==
  /\ p \in Reachable /\ q \in Reachable /\ kind \in {"shared_array", "intrusive_ptr"}
  /\ SetState(IF kind = "intrusive_ptr" THEN intrusive_assign(State, p, mpValue[q])
              ELSE IF mpValue[p] = mpValue[q] THEN State
              ELSE ReplaceShare(State, p, mpRefCount[q], mpValue[q]))
  /\ UNCHANGED <<kind, hook, raw>>

\* Move assignment of unique_ptr: the other's deleter comes after the old object
\* went, unless deleters are all alike.  So neither pointer may go with it, nor
\* may it use the one assigned to.
AssignMove(p, q) ==
  /\ kind = "unique_ptr" /\ p \in Reachable /\ q \in Reachable
  /\ LET s == unique_reset([State EXCEPT !.value[q] = NULL], p, mpValue[q])
         gone == alive \ s.alive
     IN  /\ mDeleter[p] # mDeleter[q] => {p, q} \cap gone = {} /\ \A o \in gone : hook[o] # p
         /\ SetState([s EXCEPT !.deleter[p] = mDeleter[q]])
  /\ UNCHANGED <<kind, hook, raw>>

\* swap, and the move assignment of intrusive_ptr.
swap(p, q) ==
  /\ p \in Reachable /\ q \in Reachable
  /\ LET Both(f) == [f EXCEPT ![p] = f[q], ![q] = f[p]]
     IN  SetState([State EXCEPT !.value = Both(@), !.deleter = Both(@), !.ref = Both(@)])
  /\ UNCHANGED <<kind, hook, raw>>

\* release or detach: the program owns the plain pointer, or the reference.
detach(p) ==
  /\ p \in Reachable /\ kind # "shared_array" /\ mpValue[p] \notin raw \cup {NULL}
  /\ mpValue' = [mpValue EXCEPT ![p] = NULL]
  /\ raw' = raw \cup {mpValue[p]}
  /\ UNCHANGED <<kind, hook, mDeleter, mpRefCount, count, made, alive, misused>>

\* The program gives back the reference it has.
ReleaseByHand(o) ==
  /\ kind = "intrusive_ptr" /\ o \in raw
  /\ SetState(ReleaseRef(State, o))
  /\ raw' = raw \ {o}
  /\ UNCHANGED <<kind, hook>>

Next ==
  \/ \E o \in Objects : ReleaseByHand(o) \/ \E h \in Roots \cup {NULL} : New(o, h)
  \/ \E p \in Ptrs : Destruct(p) \/ detach(p)
  \/ \E p \in Ptrs, v \in Objects \cup {NULL} :
       ResetTo(p, v) \/ AssignPointer(p, v) \/ \E add \in BOOLEAN : ConstructFrom(p, v, add)
  \/ \E p, q \in Ptrs :
       ConstructCopy(p, q) \/ ConstructMove(p, q) \/ AssignCopy(p, q) \/ AssignMove(p, q) \/ swap(p, q)

-----------------------------------------------------------------------------
(* Properties. *)
Owners(o) == {p \in made : mpValue[p] = o}
Sharing(c) == {p \in made : mpRefCount[p] = c}

\* An object exists as long as a pointer or the program owns it, and no longer,
\* and nothing is deleted twice or by another heap's deleter, whatever a
\* destructor resets meanwhile (unique_ptr.h:226-235, shared_array.h:167-216,
\* intrusive_ptr.h:186-246).  Alone means alone, and counts are exact.
OwnedExactly ==
  /\ ~misused
  /\ alive = ({mpValue[p] : p \in made} \ {NULL}) \cup raw
  /\ kind \in {"unique_ptr", "scoped_ptr"} => \A o \in alive : Cardinality(Owners(o)) + Cardinality({o} \cap raw) = 1
  /\ kind = "intrusive_ptr" => \A o \in alive : count[o] = Cardinality(Owners(o)) + Cardinality({o} \cap raw)
  /\ kind = "shared_array" =>
       /\ \A c \in Counts \cup Objects : count[c] = Cardinality(Sharing(c))
       /\ \A p \in made : mpValue[p] # NULL => Sharing(mpRefCount[p]) = Owners(mpValue[p]) /\ mpValue[p] \notin raw
=============================================================================
