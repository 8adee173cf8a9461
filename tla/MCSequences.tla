----------------------------- MODULE MCSequences -----------------------------
(* The sequence containers, each against the same Sequence.  A behaviour is a  *)
(* program on containers of one kind, which prog.kind names.                  *)
EXTENDS Integers, FiniteSets, Sequences, SequencesExt, TLC

CONSTANTS Raw, Moved, NoMemory, c1, c2

VARIABLES prog, obj, fault, call

vars == <<prog, obj, fault, call>>

\* The second digit of an element tells it from others that compare equal.
Key(x) == x \div 10

-----------------------------------------------------------------------------
(* The bounds.  Two containers where a call takes two; elements with and       *)
(* without a move constructor; exceptions and arguments from within where the *)
(* code allows them.                                                          *)
VectorPrograms ==
  {[kind |-> "vector", objs |-> {c1}, values |-> {10, 11, 20}, size |-> 3, range |-> 2, moves |-> b,
    throws |-> TRUE,
    aliases |-> {"emplace_back", "push_back", "emplace", "insert_in_place"}] : b \in BOOLEAN}
  \cup
  {[kind |-> "vector", objs |-> {c1, c2}, values |-> {10, 20}, size |-> 3, range |-> 1, moves |-> TRUE,
    throws |-> FALSE, aliases |-> {}],
   [kind |-> "vector", objs |-> {c1}, values |-> {10}, size |-> 5, range |-> 1, moves |-> TRUE,
    throws |-> FALSE, aliases |-> {}]}

DequePrograms ==
  {[kind |-> "deque", objs |-> {c1}, values |-> {10, 20}, size |-> 4, range |-> 2, moves |-> b,
    throws |-> IF b THEN {} ELSE {"emplace_full", "insert_end", "construct"},
    aliases |-> {"emplace", "insert"}] : b \in BOOLEAN}
  \cup
  {[kind |-> "deque", objs |-> {c1, c2}, values |-> {10}, size |-> 2, range |-> 1, moves |-> TRUE,
    throws |-> {}, aliases |-> {}]}

ListPrograms ==
  {[kind |-> "list", objs |-> {c1}, values |-> {10, 11, 20, 30}, nodes |-> 5, range |-> 1, at_last |-> FALSE],
   [kind |-> "list", objs |-> {c1, c2}, values |-> {10, 11, 20}, nodes |-> 4, range |-> 2, at_last |-> FALSE]}

SListPrograms ==
  {[kind |-> "slist", objs |-> {c1}, values |-> {10, 11, 20, 30}, nodes |-> 5, range |-> 1, rests |-> FALSE],
   [kind |-> "slist", objs |-> {c1, c2}, values |-> {10, 11, 20}, nodes |-> 4, range |-> 2, rests |-> FALSE]}

IntrusivePrograms ==
  {[kind |-> "intrusive_list", objs |-> {c1}, values |-> {10, 11, 20, 30}, nodes |-> 5],
   [kind |-> "intrusive_list", objs |-> {c1, c2}, values |-> {10, 11, 20}, nodes |-> 4],
   [kind |-> "intrusive_sdlist", objs |-> {c1}, values |-> {10, 20}, nodes |-> 5],
   [kind |-> "intrusive_sdlist", objs |-> {c1, c2}, values |-> {10, 20}, nodes |-> 4]}

StringPrograms ==
  {[kind |-> "string", objs |-> {c1}, values |-> {10, 20}, size |-> IF b THEN 4 ELSE 5,
    capacity |-> IF b THEN 8 ELSE 10, range |-> 2, throws |-> ~b,
    length_errors |-> b, spare |-> FALSE] : b \in BOOLEAN}
  \cup
  {[kind |-> "string", objs |-> {c1, c2}, values |-> {10}, size |-> 5, capacity |-> 8, range |-> 1, throws |-> FALSE,
    length_errors |-> FALSE, spare |-> FALSE]}

RingPrograms ==
  {[kind |-> "ring_buffer", objs |-> {c1}, values |-> {10, 20}, capacity |-> 3, range |-> 2],
   [kind |-> "ring_buffer", objs |-> {c1, c2}, values |-> {10}, capacity |-> 2, range |-> 1]}

BitPrograms ==
  {[kind |-> "bitvector", objs |-> {c1}, size |-> 6, range |-> 3],
   [kind |-> "bitvector", objs |-> {c1, c2}, size |-> 3, range |-> 2]}

HolderPrograms ==
  LET P(k, v, m, t) == [kind |-> k, objs |-> {c1, c2}, values |-> v, moves |-> m, throws |-> t]
      both == {10, 11, 20, 21}
  IN  {P("optional", {10, 11}, m, {1}) : m \in {{}, {1}}}
        \cup {P("variant", both, m, {1, 2}) : m \in {{1}, {1, 2}}}
        \cup {P("expected", both, m, {1, 2}) : m \in {{1}, {2}, {1, 2}}}
        \cup {P("any", both, m, {1}) : m \in {{1}, {1, 2}}}
        \cup {P("function", both, {1, 2}, {})}

Vectors == INSTANCE Vector WITH Programs <- VectorPrograms
Deques == INSTANCE Deque
            WITH Programs <- DequePrograms, SubarraySize <- 2, MinPtrArraySize <- 3, MaxPtrArraySize <- 8
Lists == INSTANCE List WITH Programs <- ListPrograms, KeyOf <- Key
SLists == INSTANCE SList WITH Programs <- SListPrograms, KeyOf <- Key
Intrusive == INSTANCE IntrusiveList WITH Programs <- IntrusivePrograms, KeyOf <- Key
Strings == INSTANCE String WITH Programs <- StringPrograms, SSO_CAPACITY <- 3, kBufferSize <- 2
Rings == INSTANCE RingBuffer WITH Programs <- RingPrograms
Bits == INSTANCE BitVector WITH Programs <- BitPrograms, kBitCount <- 2
HeldObjects == INSTANCE Holders WITH Programs <- HolderPrograms

Is(kind) == prog.kind = kind
IsIntrusive == Is("intrusive_list") \/ Is("intrusive_sdlist")
IsHolder == \E k \in {"optional", "variant", "expected", "any", "function"} : Is(k)

Init ==
  \/ Vectors!Init
  \/ Deques!Init
  \/ Lists!Init /\ fault = FALSE
  \/ SLists!Init /\ fault = FALSE
  \/ Intrusive!Init /\ fault = FALSE
  \/ Strings!Init
  \/ Rings!Init /\ fault = FALSE
  \/ Bits!Init /\ fault = FALSE
  \/ HeldObjects!Init

Next ==
  \/ Is("vector") /\ Vectors!Next
  \/ Is("deque") /\ Deques!Next
  \/ Is("list") /\ Lists!Next /\ UNCHANGED fault
  \/ Is("slist") /\ SLists!Next /\ UNCHANGED fault
  \/ IsIntrusive /\ Intrusive!Next /\ UNCHANGED fault
  \/ Is("string") /\ Strings!Next
  \/ Is("ring_buffer") /\ Rings!Next /\ UNCHANGED fault
  \/ Is("bitvector") /\ Bits!Next /\ UNCHANGED fault
  \/ IsHolder /\ HeldObjects!Next

Spec == Init /\ [][Next]_vars

Spares ==
  INSTANCE String
    WITH SSO_CAPACITY <- 3, kBufferSize <- 2,
         Programs <- {[kind |-> "string", objs |-> {c1}, values |-> {10, 20}, size |-> 4, capacity |-> 8,
                       range |-> 2, throws |-> FALSE, length_errors |-> FALSE, spare |-> TRUE]}

\* A string is also asked for a capacity between its size and SSO_CAPACITY.
SpareSpec == Spares!Init /\ [][Spares!Next]_vars

-----------------------------------------------------------------------------
Contents(c) ==
  CASE Is("vector") -> Vectors!Contents(c)
    [] Is("deque") -> Deques!Contents(c)
    [] Is("list") -> Lists!Contents(c)
    [] Is("slist") -> SLists!Contents(c)
    [] IsIntrusive -> Intrusive!Contents(c)
    [] Is("string") -> Strings!Contents(c)
    [] Is("ring_buffer") -> Rings!Contents(c)
    [] Is("bitvector") -> Bits!Contents(c)
    [] IsHolder -> HeldObjects!Contents(c)

Promised ==
  INSTANCE Sequence
    WITH Containers <- {c1, c2}, KeyOf <- Key,
         seq <- [c \in {c1, c2} |-> IF c \in prog.objs THEN Contents(c) ELSE <<>>]

\* Every call leaves the elements that the containers promise, in their order,
\* and returns an iterator to the right one, whatever the layout was: with the
\* buffer full or not (vector.h:1909-2030), whichever half of a deque moves
\* (deque.h:1973-2659), and wherever the nodes of a list come from.
ImplementsSequence == Promised!SSpec

\* In a vector and in a deque (see there) exactly the places between begin and
\* end hold an element, and no step on the way was undefined.
StorageExact ==
  /\ Is("vector") => Vectors!StorageExact
  /\ Is("deque") => Deques!StorageExact
  /\ Is("string") => Strings!StorageExact
  /\ Is("ring_buffer") => Rings!StorageExact
  /\ Is("bitvector") => Bits!StorageExact
  /\ IsHolder => HeldObjects!StorageExact

\* In a list, slist, intrusive_list and _sdlist (see there) the links agree, and every
\* node is in one list, once, and counted.
LinksExact ==
  /\ Is("list") => Lists!LinksExact
  /\ Is("slist") => SLists!LinksExact
  /\ IsIntrusive => Intrusive!LinksExact

\* What the comment on set_capacity says, string.h:605: the size changes only when
\* the capacity asked for is less.  A heap string that becomes a short one gets
\* the capacity as its size (string.h:1401-1420).
CapacityKeepsContents == [][call'.op = "none" => \A c \in prog.objs : Contents(c) = Contents(c)']_vars

\* States that differ only in the last call, or in which nodes the elements of a
\* list are in, have the same future.
View ==
  <<prog, fault,
    IF prog.kind \in {"list", "slist", "intrusive_list", "intrusive_sdlist"}
    THEN [c \in prog.objs |-> Contents(c)] ELSE obj,
    LinksExact>>
=============================================================================
