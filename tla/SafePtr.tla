------------------------------ MODULE SafePtr ------------------------------
(* safe_ptr and safe_object (include/EASTL/safe_ptr.h): an object keeps a     *)
(* singly linked list of the pointers to it, threaded through the pointers,   *)
(* and sets them to NULL when it is destroyed.  Single-threaded.              *)
CONSTANTS
  Objects,   \* objects of classes derived from safe_object
  SafePtrs,  \* safe_ptr variables
  NULL       \* none of them

ASSUME NoNull == NULL \notin Objects /\ NULL \notin SafePtrs

VARIABLES
  alive,           \* the objects that exist
  made,            \* the safe_ptrs that exist
  mpSafePtrList,   \* the head of each object's list
  mpObject,        \* what each safe_ptr points to
  mpNext           \* its successor in that object's list

safevars == <<alive, made, mpSafePtrList, mpObject, mpNext>>

\* Lists lead to pointers and pointers to objects, and no pointer follows itself
\* (safe_ptr.h:60, 87-92).
SafeTypeOK ==
  /\ alive \subseteq Objects /\ made \subseteq SafePtrs
  /\ mpSafePtrList \in [Objects -> SafePtrs \cup {NULL}]
  /\ mpObject \in [SafePtrs -> Objects \cup {NULL}]
  /\ mpNext \in [SafePtrs -> SafePtrs \cup {NULL}] /\ \A p \in SafePtrs : mpNext[p] # p

SafeInit ==
  /\ alive = {} /\ made = {}
  /\ mpSafePtrList = [o \in Objects |-> NULL]
  /\ mpObject = [p \in SafePtrs |-> NULL]
  /\ mpNext = [p \in SafePtrs |-> NULL]

-----------------------------------------------------------------------------
\* The pointers a walk meets that begins at head and follows next: those in
\* every set that the walk cannot leave.
Walked(head, next) ==
  {p \in SafePtrs : \A S \in SUBSET SafePtrs :
     head \in S \cup {NULL} /\ (\A q \in S : next[q] \in S \cup {NULL}) => p \in S}

Listed(o) == Walked(mpSafePtrList[o], mpNext)

\* What remove and add leave of the two kinds of link; l is [head, next].
Links == [head |-> mpSafePtrList, next |-> mpNext]

\* Mutant: only the head is ever unlinked.
removeHeadOnly(l, o, p) ==
  IF o = NULL THEN l
  ELSE IF l.head[o] = p THEN [l EXCEPT !.head[o] = l.next[p]] ELSE l

remove(l, o, p) ==
  IF o = NULL THEN l
  ELSE IF l.head[o] = p THEN [l EXCEPT !.head[o] = l.next[p]]
  ELSE [l EXCEPT !.next = [q \in SafePtrs |->
          IF q \in Listed(o) /\ l.next[q] = p THEN l.next[p] ELSE l.next[q]]]

add(l, o, p) ==
  IF o = NULL THEN l ELSE [head |-> [l.head EXCEPT ![o] = p], next |-> [l.next EXCEPT ![p] = l.head[o]]]

SetLinks(l) == mpSafePtrList' = l.head /\ mpNext' = l.next

-----------------------------------------------------------------------------
(* safe_object *)
Construct(o) ==
  /\ o \notin alive
  /\ alive' = alive \cup {o}
  /\ mpSafePtrList' = [mpSafePtrList EXCEPT ![o] = NULL]
  /\ UNCHANGED <<made, mpObject, mpNext>>

\* Everything on the list is set to NULL.
NullListed(o) ==
  /\ mpObject' = [p \in SafePtrs |-> IF p \in Listed(o) THEN NULL ELSE mpObject[p]]
  /\ mpNext' = [p \in SafePtrs |-> IF p \in Listed(o) THEN NULL ELSE mpNext[p]]

Destroy(o) ==
  /\ o \in alive
  /\ alive' = alive \ {o}
  /\ NullListed(o)
  /\ UNCHANGED <<made, mpSafePtrList>>

clear_references(o) ==
  /\ o \in alive
  /\ NullListed(o)
  /\ mpSafePtrList' = [mpSafePtrList EXCEPT ![o] = NULL]
  /\ UNCHANGED <<alive, made>>

-----------------------------------------------------------------------------
(* safe_ptr.  o may be NULL. *)

\* From a naked pointer, or a copy of another safe_ptr to o.
ConstructPtr(p, o) ==
  /\ p \notin made /\ o \in alive \cup {NULL}
  /\ made' = made \cup {p}
  /\ mpObject' = [mpObject EXCEPT ![p] = o]
  /\ SetLinks(add([Links EXCEPT !.next[p] = NULL], o, p))
  /\ UNCHANGED alive

DestroyPtr(p) ==
  /\ p \in made
  /\ made' = made \ {p}
  /\ SetLinks(remove(Links, mpObject[p], p))
  /\ UNCHANGED <<alive, mpObject>>

\* Mutant: the pointer stays on its old list.
resetUnlisted(p, o) ==
  /\ p \in made /\ o \in alive \cup {NULL} /\ o # mpObject[p]
  /\ mpObject' = [mpObject EXCEPT ![p] = o]
  /\ SetLinks(add(Links, o, p))
  /\ UNCHANGED <<alive, made>>

\* reset, reset(pNewObject) and both assignments.
reset(p, o) ==
  /\ p \in made /\ o \in alive \cup {NULL} /\ o # mpObject[p]
  /\ mpObject' = [mpObject EXCEPT ![p] = o]
  /\ SetLinks(add(remove(Links, mpObject[p], p), o, p))
  /\ UNCHANGED <<alive, made>>

SafeNext ==
  \/ \E o \in Objects : Construct(o) \/ Destroy(o) \/ clear_references(o)
  \/ \E p \in SafePtrs : DestroyPtr(p) \/ \E o \in Objects \cup {NULL} : ConstructPtr(p, o) \/ reset(p, o)

SafeSpec == SafeInit /\ [][SafeNext]_safevars

-----------------------------------------------------------------------------
(* Properties. *)
PointersTo(o) == {p \in made : mpObject[p] = o}

\* Nothing dangles: what a safe_ptr points to exists, and the list of an object
\* holds the existing pointers to it and no other, whatever order they were
\* made, moved and destroyed in (safe_ptr.h:206-245, 287-315).
EnlistedExactly ==
  /\ SafeTypeOK
  /\ \A p \in made : mpObject[p] \in alive \cup {NULL}
  /\ \A o \in alive : Listed(o) = PointersTo(o)

\* The end of an object changes the pointers to that object and no others
\* (safe_ptr.h:98-100, 206-217).
NulledWithItsObject ==
  [][\A o \in Objects : Destroy(o) =>
       \A p \in made : mpObject'[p] = IF mpObject[p] = o THEN NULL ELSE mpObject[p]]_safevars
=============================================================================
