----------------------------- MODULE LinkedPtr -----------------------------
(* linked_ptr (include/EASTL/linked_ptr.h): the owners of an object form a    *)
(* ring; leaving a ring of one deletes the object.  Objects may themselves    *)
(* hold a linked_ptr, which goes with them.  Single-threaded.  linked_array   *)
(* has the same operations on arrays.                                         *)
EXTENDS Naturals, FiniteSets

CONSTANTS
  Roots,    \* linked_ptr variables of the program
  Objects,
  Holders,  \* the objects that hold a linked_ptr, which goes by the object's name
  NULL

Ptrs == Roots \cup Holders

VARIABLES
  mpValue, mpPrev, mpNext,   \* of each linked_ptr
  made,                      \* the linked_ptrs that exist
  alive,                     \* the objects that exist
  raw                        \* the objects whose plain pointer the program owns

vars == <<mpValue, mpPrev, mpNext, made, alive, raw>>

\* Rings lead to pointers and values to objects, and the pointer an object holds
\* exists as long as the object (linked_ptr.h:32-33, 67).
TypeOK ==
  /\ mpValue \in [Ptrs -> Objects \cup {NULL}]
  /\ mpPrev \in [Ptrs -> Ptrs] /\ mpNext \in [Ptrs -> Ptrs]
  /\ made \subseteq Ptrs /\ made \cap Holders = alive \cap Holders
  /\ raw \subseteq alive /\ alive \subseteq Objects

Init ==
  /\ mpValue = [p \in Ptrs |-> NULL]
  /\ mpPrev = [p \in Ptrs |-> p] /\ mpNext = [p \in Ptrs |-> p]
  /\ made = {} /\ alive = {} /\ raw = {}

-----------------------------------------------------------------------------
(* The state as a record, for functions that call each other. *)
State == [value |-> mpValue, prev |-> mpPrev, next |-> mpNext, made |-> made, alive |-> alive]

SetState(s) ==
  /\ mpValue' = s.value /\ mpPrev' = s.prev /\ mpNext' = s.next
  /\ made' = s.made /\ alive' = s.alive

unique(s, p) == s.next[p] = p

unlink(s, p) ==
  [s EXCEPT !.next = [s.next EXCEPT ![s.prev[p]] = s.next[p], ![p] = p],
            !.prev = [s.prev EXCEPT ![s.next[p]] = s.prev[p], ![p] = p]]

link(s, p, q) ==
  [s EXCEPT !.next = [s.next EXCEPT ![p] = s.next[q], ![q] = p],
            !.prev = [s.prev EXCEPT ![s.next[q]] = p, ![p] = q]]

RECURSIVE Reset(_, _, _)

\* Deleting an object ends the linked_ptr it holds.
Delete(s, o) ==
  IF o = NULL THEN s
  ELSE LET t == IF o \in Holders THEN Reset(s, o, NULL) ELSE s
       IN  [t EXCEPT !.made = @ \ {o}, !.alive = @ \ {o}]

\* Mutant: an owner always only leaves its ring.
ResetUnlinks(s, p, v) == IF v = s.value[p] THEN s ELSE [unlink(s, p) EXCEPT !.value[p] = v]

\* reset: leave the ring, or delete as its only member, then take v.
Reset(s, p, v) ==
  IF v = s.value[p] THEN s
  ELSE [(IF unique(s, p) THEN Delete(s, s.value[p]) ELSE unlink(s, p)) EXCEPT !.value[p] = v]

-----------------------------------------------------------------------------
\* The pointers the program can name: its own, and those of objects it reaches.
Reachable ==
  LET R[n \in Nat] ==
        IF n = 0 THEN (made \cap Roots) \cup (raw \cap Holders)
        ELSE R[n - 1] \cup ({mpValue[p] : p \in R[n - 1]} \cap Holders)
  IN  R[Cardinality(Objects)]

Ring(p) ==
  LET R[n \in Nat] == IF n = 0 THEN {p} ELSE R[n - 1] \cup {mpNext[q] : q \in R[n - 1]}
  IN  R[Cardinality(Ptrs)]

\* new: the program owns the plain pointer, the linked_ptr inside is NULL.
New(o) ==
  /\ o \notin alive
  /\ alive' = alive \cup {o} /\ raw' = raw \cup {o}
  /\ made' = made \cup ({o} \cap Holders)
  /\ UNCHANGED <<mpValue, mpPrev, mpNext>>

\* linked_ptr(pValue) gives away the plain pointer; v = NULL is linked_ptr().
ConstructFrom(p, v) ==
  /\ p \in Roots \ made /\ v \in raw \cup {NULL}
  /\ mpValue' = [mpValue EXCEPT ![p] = v]
  /\ made' = made \cup {p} /\ raw' = raw \ {v}
  /\ UNCHANGED <<mpPrev, mpNext, alive>>

ConstructCopy(p, q) ==
  /\ p \in Roots \ made /\ q \in Reachable
  /\ LET s == [State EXCEPT !.value[p] = mpValue[q], !.made = @ \cup {p}]
     IN  SetState(IF mpValue[q] = NULL THEN s ELSE link(s, p, q))
  /\ UNCHANGED raw

Destruct(p) ==
  /\ p \in made \cap Roots
  /\ LET s == Reset(State, p, NULL) IN SetState([s EXCEPT !.made = @ \ {p}])
  /\ UNCHANGED raw

\* operator=(pValue), reset(pValue) and reset().
ResetTo(p, v) ==
  /\ p \in Reachable /\ v \in raw \cup {NULL}
  /\ SetState(Reset(State, p, v))
  /\ raw' = raw \ {v}

\* What assigning to p destroys.
Doomed(p) == IF unique(State, p) /\ mpValue[p] # NULL THEN alive \ Delete(State, mpValue[p]).alive ELSE {}

\* operator= between linked_ptrs.  When the value is read a second time its
\* owner may be gone; its destructor left NULL there.
AssignFrom(p, q) ==
  /\ p \in Reachable /\ q \in Reachable
  /\ IF mpValue[q] = mpValue[p] THEN SetState(State)
     ELSE LET s == Reset(State, p, mpValue[q])
          IN  SetState(IF s.value[q] = NULL THEN s ELSE link(s, p, q))
  /\ UNCHANGED raw

\* q does not go away with what p owns.
AssignApart(p, q) == p \in Reachable /\ q \notin Doomed(p) /\ AssignFrom(p, q)

Detached(p) ==
  [State EXCEPT !.value = [q \in Ptrs |-> IF q \in Ring(p) THEN NULL ELSE mpValue[q]],
                !.next = [q \in Ptrs |-> IF q \in Ring(p) THEN q ELSE mpNext[q]],
                !.prev = [q \in Ptrs |-> IF q \in Ring(p) THEN q ELSE mpPrev[q]]]

\* detach: the program owns the plain pointer again.
detach(p) ==
  /\ p \in Reachable
  /\ SetState(Detached(p))
  /\ raw' = raw \cup ({mpValue[p]} \ {NULL})

force_delete(p) ==
  /\ p \in Reachable
  /\ SetState(Delete(Detached(p), mpValue[p]))
  /\ UNCHANGED raw

Next ==
  \/ \E o \in Objects : New(o)
  \/ \E p \in Ptrs : Destruct(p) \/ detach(p) \/ force_delete(p) \/ \E q \in Ptrs : ConstructCopy(p, q)
  \/ \E p \in Ptrs, v \in Objects \cup {NULL} : ConstructFrom(p, v) \/ ResetTo(p, v)
  \/ \E p, q \in Ptrs : AssignApart(p, q)

Spec == Init /\ [][Next]_vars

-----------------------------------------------------------------------------
(* Properties. *)

\* The owners of an object are the members of one ring, linked both ways, and
\* a NULL pointer is alone: so use_count, unique and detach are right
\* (linked_ptr.h:69-77, 206-211, 281-345).
RingsExact == TypeOK /\ \A p \in made :
  /\ mpPrev[mpNext[p]] = p
  /\ Ring(p) = IF mpValue[p] = NULL THEN {p} ELSE {q \in made : mpValue[q] = mpValue[p]}

\* An object exists as long as a linked_ptr or the program owns it, no longer,
\* chains of objects that own each other included (linked_ptr.h:196-214).
OwnedExactly ==
  /\ alive = ({mpValue[p] : p \in made} \ {NULL}) \cup raw
  /\ \A p \in made : mpValue[p] \notin raw
=============================================================================
