------------------------------ MODULE Sequence ------------------------------
(* What the sequence containers promise (vector.h, deque.h, list.h, slist.h,  *)
(* string.h and their fixed_ and intrusive relatives): the elements after a   *)
(* call are a function of those before and of the arguments, and the iterator *)
(* returned is where the call says.  Positions count from 0.                  *)
EXTENDS Integers, FiniteSets, Sequences, SequencesExt

CONSTANTS
  Containers,
  KeyOf(_)     \* what ==, < and a predicate see of an element

VARIABLES
  seq,    \* the elements of each container
  call    \* the call made last: its op, arguments and result

\* Empty, or with the elements they are constructed with.
SInit ==
  \/ call = [op |-> "none"] /\ seq = [c \in Containers |-> <<>>]
  \/ call.op = "construct" /\ \A c \in Containers : seq[c] \in {<<>>, call.values}

Cut(s, i, j) == SubSeq(s, 1, i) \o SubSeq(s, j + 1, Len(s))
Put(s, i, t) == SubSeq(s, 1, i) \o t \o SubSeq(s, i + 1, Len(s))
Sorted(s) == \A i \in 1 .. Len(s) - 1 : KeyOf(s[i]) <= KeyOf(s[i + 1])
WithKey(s, k) == SelectSeq(s, LAMBDA x : KeyOf(x) = k)

\* s with its elements in the order of their keys, equal ones as they were.
InOrder(s, t) == Sorted(t) /\ \A x \in ToSet(s) : WithKey(s, KeyOf(x)) = WithKey(t, KeyOf(x))

\* The same elements, in any order.
Alike(s, t) == \A x \in ToSet(s) \cup ToSet(t) : SelectSeq(s, LAMBDA y : y = x) = SelectSeq(t, LAMBDA y : y = x)

\* The call that is being made, on its container.
Becomes(s) == seq' = [seq EXCEPT ![call'.of] = s]
OnItself(op) == call'.op = op /\ call'.of \in Containers

Insert ==
  /\ OnItself("insert")
  /\ Becomes(Put(seq[call'.of], call'.at, call'.values))
  /\ call'.result = call'.at

Erase ==
  /\ OnItself("erase")
  /\ Becomes(Cut(seq[call'.of], call'.at, call'.to))
  /\ call'.result = call'.at

Replace ==
  /\ OnItself("replace")
  /\ Becomes(Put(Cut(seq[call'.of], call'.at, call'.to), call'.at, call'.values))

\* The last element takes the place of the one erased.
EraseUnsorted ==
  /\ OnItself("erase_unsorted")
  /\ LET s == seq[call'.of] IN Becomes(Front([s EXCEPT ![call'.at + 1] = Last(s)]))
  /\ call'.result = call'.at

Assign == OnItself("assign") /\ Becomes(call'.values)

Swap ==
  /\ OnItself("swap")
  /\ seq' = [seq EXCEPT ![call'.of] = seq[call'.with], ![call'.with] = seq[call'.of]]

\* Of a move only the target is promised.
Take ==
  /\ OnItself("take") /\ call'.with # call'.of
  /\ seq' = [seq EXCEPT ![call'.of] = seq[call'.with], ![call'.with] = seq'[call'.with]]

\* The elements from..to of another container, or of the same one.
Splice ==
  /\ OnItself("splice")
  /\ LET c == call'.of  d == call'.with
         moved == SubSeq(seq[d], call'.from + 1, call'.to)
     IN  IF c # d
         THEN seq' = [seq EXCEPT ![c] = Put(@, call'.at, moved), ![d] = Cut(@, call'.from, call'.to)]
         ELSE Becomes(Put(Cut(seq[c], call'.from, call'.to),
                          IF call'.at <= call'.from THEN call'.at ELSE call'.at - Len(moved), moved))

\* Both were sorted, and so is the result, this one's elements before equal ones.
Merge ==
  /\ OnItself("merge") /\ call'.with # call'.of
  /\ LET c == call'.of  d == call'.with
     IN  /\ Sorted(seq[c]) /\ Sorted(seq[d]) => InOrder(seq[c] \o seq[d], seq'[c])
         /\ ToSet(seq'[c]) = ToSet(seq[c]) \cup ToSet(seq[d])
         /\ seq' = [seq EXCEPT ![c] = seq'[c], ![d] = <<>>]

Sort ==
  /\ OnItself("sort")
  /\ InOrder(seq[call'.of], seq'[call'.of])
  /\ Becomes(seq'[call'.of])

\* Equal elements come in any order.
SortUnstable ==
  /\ OnItself("sort_unstable")
  /\ Sorted(seq'[call'.of]) /\ Alike(seq[call'.of], seq'[call'.of])
  /\ Becomes(seq'[call'.of])

Reversed == OnItself("reverse") /\ Becomes(Reverse(seq[call'.of]))

\* The elements that a value is compared with, or a predicate holds of.
Stay(s) == SelectSeq(s, LAMBDA x : x \notin call'.gone)

RemoveAll == OnItself("remove") /\ Becomes(Stay(seq[call'.of]))

RemoveUnsorted ==
  /\ OnItself("remove_unsorted")
  /\ Alike(Stay(seq[call'.of]), seq'[call'.of])
  /\ Becomes(seq'[call'.of])

Unique ==
  /\ OnItself("unique")
  /\ LET s == seq[call'.of]
         first == {i \in 1 .. Len(s) : i = 1 \/ KeyOf(s[i]) # KeyOf(s[i - 1])}
     IN  Becomes([i \in 1 .. Cardinality(first) |->
                    s[CHOOSE j \in first : Cardinality({h \in first : h <= j}) = i]])

\* A call that throws, or that only concerns the memory, changes no element.
Nothing == call'.op = "none" /\ UNCHANGED seq

SNext ==
  Insert \/ Erase \/ Replace \/ EraseUnsorted \/ Assign \/ Swap \/ Take \/ Splice \/ Merge
    \/ Sort \/ SortUnstable \/ Reversed \/ RemoveAll \/ RemoveUnsorted \/ Unique \/ Nothing

SSpec == SInit /\ [][SNext]_<<seq, call>>
=============================================================================
