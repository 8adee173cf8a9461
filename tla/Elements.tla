------------------------------ MODULE Elements ------------------------------
(* Elements in raw memory (include/EASTL/memory.h, algorithm.h): what the     *)
(* containers that lay out their elements themselves build on.                *)
(*                                                                            *)
(* A memory m has in m.slot what each address holds: the value of an element, *)
(* Moved for an element whose value was moved away, Raw where there is no     *)
(* element, NoMemory where nothing is allocated.  Elements for which m.moves  *)
(* is FALSE have no move constructor, so that a move copies.  Copies and      *)
(* allocations may throw: the m.fuse-th from now does, and none when m.fuse is *)
(* 0; m.threw says that one did, and then nothing more happens but what the   *)
(* catch blocks do.  m.fault says that a step was undefined: a second         *)
(* construction, or the use or the end of an element that is not there.       *)
(*                                                                            *)
(* A call has its argument at LValue or RValue, or several at Args; a local   *)
(* variable at Temp or Saved; and the memory it allocates at New.             *)
EXTENDS Integers, FiniteSets, Sequences, SequencesExt, TLC

CONSTANTS Raw, Moved, NoMemory

LValue == 100  RValue == 101  Temp == 102  Saved == 103  Args == 110  New == 200

Arguments(vals) ==
  [i \in Args .. Args + Len(vals) - 1 |-> vals[i - Args + 1]]
    @@ [i \in {LValue, RValue} |-> IF vals = <<>> THEN Raw ELSE vals[1]]
    @@ [i \in {Temp, Saved} |-> Raw]

\* k steps in order, until one throws.
Steps(m, k, Do(_, _)) ==
  FoldLeft(LAMBDA x, i : IF x.threw THEN x ELSE Do(x, i), m, [i \in 1 .. k |-> i - 1])

MayThrow(m) ==
  IF m.threw THEN m
  ELSE [m EXCEPT !.threw = m.fuse = 1, !.fuse = IF @ = 0 THEN 0 ELSE @ - 1]

LOCAL Element(v) == v \notin {Raw, NoMemory}
LOCAL Put(m, a, v, ok) == [m EXCEPT !.slot[a] = v, !.fault = @ \/ ~ok \/ ~Element(v)]
LOCAL Gone(m, a) == IF m.slot[a] = NoMemory THEN NoMemory ELSE Raw

\* The placement new of a copy, and a copy assignment.
Copy(m, a, from) ==
  LET c == MayThrow(m) IN IF c.threw THEN c ELSE Put(c, a, m.slot[from], m.slot[a] = Raw)
CopyAssign(m, a, from) ==
  LET c == MayThrow(m) IN IF c.threw THEN c ELSE Put(c, a, m.slot[from], Element(m.slot[a]))

\* The same from eastl::move(x), which leaves x without its value, unless it is
\* assigned to itself: deque does that (deque.h:2014, 2629), and the types of
\* EASTL check for it.
Move(m, a, from) ==
  IF m.threw \/ ~m.moves THEN Copy(m, a, from)
  ELSE [Put(m, a, m.slot[from], m.slot[a] = Raw) EXCEPT !.slot[from] = Moved]
MoveAssign(m, a, from) ==
  IF m.threw \/ ~m.moves \/ a = from THEN CopyAssign(m, a, from)
  ELSE [Put(m, a, m.slot[from], Element(m.slot[a])) EXCEPT !.slot[from] = Moved]

\* The construction of an element from args...
Construct(m, a, arg) == IF arg = RValue THEN Move(m, a, arg) ELSE Copy(m, a, arg)

\* Destructors run on the way out of an exception too.
Destroy(m, a) == [m EXCEPT !.slot[a] = Gone(m, a), !.fault = @ \/ ~Element(m.slot[a])]
Destruct(m, first, last) ==
  [m EXCEPT !.slot = [a \in DOMAIN @ |-> IF first <= a /\ a < last THEN Gone(m, a) ELSE @[a]],
            !.fault = @ \/ \E a \in first .. last - 1 : ~Element(m.slot[a])]
EndLocal(m, a) == IF m.slot[a] = Raw THEN m ELSE Destroy(m, a)

\* The catch of the uninitialized_ functions: what they built so far is destroyed.
Unwound(m, x, k, dest) ==
  LET built == Cardinality({i \in 0 .. k - 1 : x.slot[dest + i] # Raw /\ m.slot[dest + i] = Raw})
  IN  IF m.threw \/ ~x.threw THEN x ELSE Destruct(x, dest, dest + built)

uninitialized_copy(m, first, last, dest) ==
  Unwound(m, Steps(m, last - first, LAMBDA x, i : Copy(x, dest + i, first + i)), last - first, dest)

\* Also uninitialized_move_if_noexcept: a move constructor does not throw here.
uninitialized_move(m, first, last, dest) ==
  Unwound(m, Steps(m, last - first, LAMBDA x, i : Move(x, dest + i, first + i)), last - first, dest)

uninitialized_fill_n(m, dest, n, from) ==
  Unwound(m, Steps(m, n, LAMBDA x, i : Copy(x, dest + i, from)), n, dest)

\* uninitialized_copy_copy, _move_fill and _fill_move: two of these, and when the
\* second throws the k elements of the first are destroyed.
Both(x, y, k, dest) == IF x.threw \/ ~y.threw THEN y ELSE Destruct(y, dest, dest + k)

\* Mutant: from the front, over what is still to be moved.
move_backward_forwards(m, first, last, end) ==
  Steps(m, last - first, LAMBDA x, i : MoveAssign(x, end - (last - first) + i, first + i))

move_backward(m, first, last, end) ==
  Steps(m, last - first, LAMBDA x, i : MoveAssign(x, end - 1 - i, last - 1 - i))

move(m, first, last, dest) ==
  Steps(m, last - first, LAMBDA x, i : MoveAssign(x, dest + i, first + i))

copy(m, first, last, dest) ==
  Steps(m, last - first, LAMBDA x, i : CopyAssign(x, dest + i, first + i))

copy_backward(m, first, last, end) ==
  Steps(m, last - first, LAMBDA x, i : CopyAssign(x, end - 1 - i, last - 1 - i))

fill(m, first, last, from) ==
  Steps(m, last - first, LAMBDA x, i : CopyAssign(x, first + i, from))
=============================================================================
