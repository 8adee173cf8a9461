------------------------------- MODULE Vector -------------------------------
(* vector (include/EASTL/vector.h): elements in [mpBegin, mpEnd) of a buffer, *)
(* that are moved up, moved down, or moved to a larger buffer, at the grain of *)
(* the construction, assignment and destruction of one element.               *)
(*                                                                            *)
(* obj[c] is a vector: mem, what each slot of its buffer holds, and end, the  *)
(* offset of mpEnd.  A call works on a memory (see Elements) with the buffer  *)
(* at 0, of m.cap slots, and the one it allocates at New, of m.new.           *)
EXTENDS Elements, Calls

CONSTANT
  Programs   \* what a behaviour may do: objs, the vectors; values, what is
             \* inserted; size, the bound on elements and on reserve's argument;
             \* range, on the arguments of one call; moves, whether elements have
             \* a move constructor; throws, whether copies and allocations may
             \* throw; aliases, the calls that take an element of the vector itself

VARIABLES
  prog,    \* the program: a member of Programs
  obj,
  fault,   \* a step was undefined, or something was left behind
  call     \* the last call and its result, as in Sequence

vars == <<prog, obj, fault, call>>

Init ==
  /\ prog \in Programs
  /\ obj = [c \in prog.objs |-> [mem |-> <<>>, end |-> 0]]
  /\ fault = FALSE
  /\ call = Quiet

size(c) == obj[c].end
Contents(c) == SubSeq(obj[c].mem, 1, size(c))

-----------------------------------------------------------------------------
(* The memory a call works on. *)
Frame(c, vals, f) ==
  [slot |-> [i \in 0 .. Len(obj[c].mem) - 1 |-> obj[c].mem[i + 1]] @@ Arguments(vals),
   end |-> obj[c].end, cap |-> Len(obj[c].mem), new |-> 0,
   moves |-> prog.moves, fuse |-> f, threw |-> FALSE, fault |-> FALSE]

Allocate(m, n) ==
  LET a == MayThrow(m)
  IN  IF a.threw THEN a
      ELSE [a EXCEPT !.new = n, !.slot = [i \in New .. New + n - 1 |-> Raw] @@ @]

\* DoFree takes the memory back whatever is in it.
FreeNew(m) ==
  [m EXCEPT !.new = 0, !.fault = @ \/ \E i \in 0 .. m.new - 1 : m.slot[New + i] # Raw]

\* Destroys and frees the old buffer, and takes the new one with n elements.
Adopt(m, n) ==
  IF m.threw THEN m
  ELSE LET d == Destruct(m, 0, m.end)
       IN  [d EXCEPT !.fault = @ \/ \E i \in 0 .. d.cap - 1 : d.slot[i] # Raw,
                     !.end = n, !.cap = d.new, !.new = 0,
                     !.slot = [i \in 0 .. d.new - 1 |-> d.slot[New + i]] @@ @]

Advance(m, n) == IF m.threw THEN m ELSE [m EXCEPT !.end = @ + n]

GetNewCapacity(n) == IF n > 0 THEN 2 * n ELSE 1
Larger(m, n) == IF GetNewCapacity(m.end) > m.end + n THEN GetNewCapacity(m.end) ELSE m.end + n

\* The call returns, or an exception leaves it.
Finish(c, m, done) ==
  /\ m.end <= prog.size
  /\ obj' = [obj EXCEPT ![c] = [mem |-> [i \in 1 .. m.cap |-> m.slot[i - 1]], end |-> m.end]]
  /\ fault' = (fault \/ m.fault \/ m.new # 0 \/ m.slot[Temp] # Raw)
  /\ call' = IF m.threw THEN Quiet ELSE done
  /\ UNCHANGED prog

-----------------------------------------------------------------------------
(* Insertion of one element. *)

\* The new element first, because args... may refer to one of the old.
DoInsertValueEnd(m, arg) ==
  LET w == Construct(Allocate(m, GetNewCapacity(m.end)), New + m.end, arg)
      x == uninitialized_move(w, 0, m.end, New)
  IN  IF w.threw THEN FreeNew(w)
      ELSE IF x.threw THEN FreeNew(Destroy(x, New + m.end))
      ELSE Adopt(x, m.end + 1)

DoInsertValueInPlace(m, pos, arg) ==
  LET e == m.end
      v == Construct(m, Temp, arg)
      b == move_backward(Move(v, e, e - 1), pos, e - 1, e)
      x == IF b.threw THEN b ELSE Move(Destruct(b, pos, pos + 1), pos, Temp)
  IN  Advance(EndLocal(x, Temp), 1)

\* pNewEnd tells the catch block which of the three steps threw.
DoInsertValue(m, pos, arg) ==
  IF m.end # m.cap THEN DoInsertValueInPlace(m, pos, arg)
  ELSE LET v == Construct(Allocate(m, GetNewCapacity(m.end)), New + pos, arg)
           x == uninitialized_move(v, 0, pos, New)
           y == uninitialized_move(x, pos, m.end, New + pos + 1)
       IN  IF v.threw THEN FreeNew(v)
           ELSE IF x.threw THEN FreeNew(Destroy(x, New + pos))
           ELSE IF y.threw THEN FreeNew(Destruct(y, New, New + pos + 1))
           ELSE Adopt(y, m.end + 1)

emplace_back(m, arg) ==
  IF m.end < m.cap THEN Advance(Construct(m, m.end, arg), 1) ELSE DoInsertValueEnd(m, arg)

\* Here mpEnd moves before the element is made.
push_back(m, arg) ==
  IF m.end < m.cap THEN Construct([m EXCEPT !.end = @ + 1], m.end, arg) ELSE DoInsertValueEnd(m, arg)

\* emplace(position, args...), insert(position, value).
emplace(m, pos, arg) ==
  IF m.end = m.cap \/ pos # m.end THEN DoInsertValue(m, pos, arg)
  ELSE Advance(Construct(m, m.end, arg), 1)

-----------------------------------------------------------------------------
(* Insertion of several: copies of the value at arg, or the range at Args. *)

\* Room for n in the buffer: the elements behind move up, over the end and within.
InsertInPlace(m, pos, n, arg, one) ==
  LET e == m.end
      extra == e - pos
      Make(x, a, i, k) == IF one THEN uninitialized_fill_n(x, a, k, Temp)
                          ELSE uninitialized_copy(x, Args + i, Args + i + k, a)
      v == IF one THEN Copy(m, Temp, arg) ELSE m
      x == IF n < extra
           THEN LET b == move_backward(uninitialized_move(v, e - n, e, e), pos, e - n, e)
                IN  IF one THEN fill(b, pos, pos + n, Temp) ELSE copy(b, Args, Args + n, pos)
           ELSE LET b == uninitialized_move(Make(v, e, extra, n - extra), pos, e, e + n - extra)
                IN  IF one THEN fill(b, pos, e, Temp)
                    ELSE copy_backward(b, Args, Args + extra, pos + extra)
  IN  Advance(EndLocal(x, Temp), n)

\* Mutant: a copied range is not counted in.
NewEndBeforeRange(pos, n, filled, one) == New + pos

\* What the catch block destroys is before pNewEnd, which a range is counted in as
\* soon as it is copied, and a fill only with the elements behind it.
NewEnd(pos, n, filled, one) == New + pos + IF filled.threw \/ one THEN 0 ELSE n

\* The elements before, the new ones and the elements behind.
InsertByGrowing(m, pos, n, arg, one) ==
  LET v == uninitialized_move(Allocate(m, Larger(m, n)), 0, pos, New)
      x == IF one THEN uninitialized_fill_n(v, New + pos, n, arg)
           ELSE uninitialized_copy(v, Args, Args + n, New + pos)
      y == uninitialized_move(x, pos, m.end, New + pos + n)
  IN  IF v.threw THEN FreeNew(v)
      ELSE IF y.threw
           THEN FreeNew(Destruct(y, New, NewEnd(pos, n, x, one)))
      ELSE Adopt(y, m.end + n)

Insert(m, pos, n, arg, one) ==
  IF n > m.cap - m.end THEN InsertByGrowing(m, pos, n, arg, one)
  ELSE IF n = 0 THEN m ELSE InsertInPlace(m, pos, n, arg, one)

\* resize up: the fill is behind the try block.
DoInsertValuesEnd(m, n, arg) ==
  IF n > m.cap - m.end
  THEN LET w == uninitialized_move(Allocate(m, Larger(m, n)), 0, m.end, New)
       IN  IF w.threw THEN FreeNew(w)
           ELSE Adopt(uninitialized_fill_n(w, New + m.end, n, arg), m.end + n)
  ELSE Advance(uninitialized_fill_n(m, m.end, n, arg), n)

-----------------------------------------------------------------------------
(* Erasure, assignment, capacity. *)
Shrink(m, n) == IF m.threw THEN m ELSE [Destruct(m, n, m.end) EXCEPT !.end = n]

\* Also erase(position), and the reverse iterators' erase.
Erase(m, first, last) ==
  IF first = last THEN m ELSE Shrink(move(m, last, m.end, first), m.end - (last - first))

EraseUnsorted(m, pos) == Shrink(MoveAssign(m, pos, m.end - 1), m.end - 1)

\* remove_if moves what is kept to the front; erase and erase_if of the values in gone.
EraseIf(m, gone) ==
  LET Keep(x, i) ==
        IF x.m.slot[i] \in gone THEN x
        ELSE [m |-> IF x.at = i THEN x.m ELSE MoveAssign(x.m, x.at, i), at |-> x.at + 1]
      x == FoldLeft(Keep, [m |-> m, at |-> 0], [i \in 1 .. m.end |-> i - 1])
  IN  Erase(x.m, x.at, m.end)

\* From both ends of [first, last): the last element that stays fills the first
\* place of one that goes.
RECURSIVE FillGaps(_, _, _, _)
FillGaps(m, first, last, gone) ==
  LET going == {i \in first .. last - 1 : m.slot[i] \in gone}
      i == IF going = {} THEN last ELSE Min(going)
      staying == {j \in i .. last - 1 : m.slot[j] \notin gone}
  IN  IF staying = {} THEN Shrink(m, i)
      ELSE FillGaps(MoveAssign(m, i, Max(staying)), i + 1, Max(staying), gone)

\* DoGrow and set_capacity above the size: no try block.
Reallocate(m, n) == Adopt(uninitialized_move(Allocate(m, n), 0, m.end, New), m.end)

reserve(m, n) == IF n > m.cap THEN Reallocate(m, n) ELSE m

\* shrink_to_fit moves the elements to a temporary of their size and swaps.
shrink_to_fit(m) == Reallocate(m, m.end)

set_capacity(m, n) ==
  IF n > m.end THEN Reallocate(m, n)
  ELSE shrink_to_fit(IF n < m.end THEN Shrink(m, n) ELSE m)

\* DoAssignValues: into a temporary, whose base takes its memory back; the elements
\* past n go by erase(mpBegin + n, mpEnd).
AssignValues(m, n, arg) ==
  IF n > m.cap
  THEN LET x == uninitialized_fill_n(Allocate(m, n), New, n, arg)
       IN  IF x.threw THEN FreeNew(x) ELSE Adopt(x, n)
  ELSE IF n > m.end
  THEN Advance(uninitialized_fill_n(fill(m, 0, m.end, arg), m.end, n - m.end, arg), n - m.end)
  ELSE Erase(fill(m, 0, n, arg), n, m.end)

\* DoAssignFromIterator for random access, by copying.
AssignRange(m, n) ==
  IF n > m.cap THEN Adopt(uninitialized_copy(Allocate(m, n), Args, Args + n, New), n)
  ELSE IF n <= m.end THEN Shrink(copy(m, Args, Args + n, 0), n)
  ELSE Advance(uninitialized_copy(copy(m, Args, Args + m.end, 0), Args + m.end, Args + n, m.end), n - m.end)

\* From input iterators, of which the number is not known, one by one.
InsertInput(m, pos, n) == Steps(m, n, LAMBDA x, i : emplace(x, pos + i, Args + i))
AssignInput(m, n) ==
  LET k == IF n < m.end THEN n ELSE m.end
      x == copy(m, Args, Args + k, 0)
  IN  IF k = n THEN Erase(x, n, m.end)
      ELSE Steps(x, n - k, LAMBDA y, i : emplace(y, m.end + i, Args + k + i))

-----------------------------------------------------------------------------
(* The calls.  A call that may throw does so up to its k-th allocation or copy *)
(* (moves that copy among them), where k is how far it can be undone: it leaves *)
(* the vector as it was.  Past that the code leaks or half assigns: the moves  *)
(* behind n new elements (vector.h:1763) and behind those made in place, the   *)
(* fill of resize (1849), copies after elements have moved away, push_back     *)
(* (1076) and assignments in place.                                           *)
Fuses(k) == IF prog.throws THEN 0 .. k ELSE {0}
Sources(op, c) == {LValue, RValue} \cup IF op \in prog.aliases THEN 0 .. size(c) - 1 ELSE {}

Room(c) == Len(obj[c].mem) - size(c)
Moves(n) == IF prog.moves THEN 0 ELSE n   \* how many copies n moves are

AnyStep(c) == 2 + size(c)
EmplaceUndone(c, p) == IF Room(c) = 0 \/ p = size(c) THEN AnyStep(c) ELSE 1 + Moves(1)
InsertUndone(c, p, n, one) ==
  LET behind == size(c) - p
  IN  IF n <= Room(c)
      THEN (IF one THEN 1 ELSE 0) + (IF n < behind THEN Moves(n) ELSE n - behind)
      ELSE 1 + Moves(p) + (IF prog.moves /\ p > 0 THEN 0 ELSE n) + (IF one THEN 0 ELSE Moves(behind))
ResizeUndone(c, n) == IF n <= Room(c) THEN n ELSE 1 + Moves(size(c))
AssignUndone(c, n, one) == IF n <= Len(obj[c].mem) THEN 0 ELSE 1 + IF one THEN n ELSE 0

InsertOne(c, x) ==
  \/ \E f \in Fuses(AnyStep(c)), a \in Sources("emplace_back", c) :
       LET m == Frame(c, <<x>>, f)
       IN  Finish(c, emplace_back(m, a), Inserted(c, size(c), <<m.slot[a]>>))
  \/ \E f \in Fuses(IF Room(c) = 0 THEN AnyStep(c) ELSE 0), a \in Sources("push_back", c) :
       LET m == Frame(c, <<x>>, f)
       IN  Finish(c, push_back(m, a), Inserted(c, size(c), <<m.slot[a]>>))
  \/ \E p \in 0 .. size(c) : \E f \in Fuses(EmplaceUndone(c, p)), a \in Sources("emplace", c) :
       LET m == Frame(c, <<x>>, f)
       IN  Finish(c, emplace(m, p, a), Inserted(c, p, <<m.slot[a]>>))

\* insert(position, n, value), resize(n, value), resize(n).
InsertCopies(c, x) ==
  \E n \in 0 .. prog.size - size(c) :
    \E a \in Sources(IF n > Room(c) THEN "insert_growing" ELSE "insert_in_place", c) \ {RValue} :
      LET vals == [i \in 1 .. n |-> Frame(c, <<x>>, 0).slot[a]]
      IN  \/ \E p \in 0 .. size(c) : \E f \in Fuses(InsertUndone(c, p, n, TRUE)) :
               Finish(c, Insert(Frame(c, <<x>>, f), p, n, a, TRUE), Inserted(c, p, vals))
          \/ \E f \in Fuses(ResizeUndone(c, n)) :
               Finish(c, DoInsertValuesEnd(Frame(c, <<x>>, f), n, a), Inserted(c, size(c), vals))

InsertRange(c, vals) ==
  \E p \in 0 .. size(c) :
    \/ \E f \in Fuses(InsertUndone(c, p, Len(vals), FALSE)) :
         Finish(c, Insert(Frame(c, vals, f), p, Len(vals), Args, FALSE), Inserted(c, p, vals))
    \/ Finish(c, InsertInput(Frame(c, vals, 0), p, Len(vals)), Inserted(c, p, vals))

EraseRange(c) ==
  \E i \in 0 .. size(c) : \E j \in i .. size(c) :
    Finish(c, Erase(Frame(c, <<Raw>>, 0), i, j), Erased(c, i, j))

EraseOne(c) ==
  \E i \in 0 .. size(c) - 1 :
    Finish(c, EraseUnsorted(Frame(c, <<Raw>>, 0), i), ErasedUnsorted(c, i))

EraseValues(c) ==
  \E gone \in SUBSET prog.values :
    LET m == Frame(c, <<Raw>>, 0)
    IN  \/ Finish(c, EraseIf(m, gone), Removed(c, gone))
        \/ Finish(c, FillGaps(m, 0, m.end, gone), RemovedUnsorted(c, gone))

\* resize(n) downwards, pop_back, clear.
Truncate(c) ==
  \E n \in 0 .. size(c) : Finish(c, Shrink(Frame(c, <<Raw>>, 0), n), Erased(c, n, size(c)))

ChangeCapacity(c) ==
  \E n \in 0 .. prog.size :
    \/ \E f \in Fuses(1) : Finish(c, reserve(Frame(c, <<Raw>>, f), n), Quiet)
    \/ Finish(c, set_capacity(Frame(c, <<Raw>>, 0), n),
              IF n < size(c) THEN Erased(c, n, size(c)) ELSE Quiet)

Assign(c, vals) ==
  \/ \E f \in Fuses(AssignUndone(c, Len(vals), FALSE)) :
       Finish(c, AssignRange(Frame(c, vals, f), Len(vals)), Assigned(c, vals))
  \/ Finish(c, AssignInput(Frame(c, vals, 0), Len(vals)), Assigned(c, vals))
  \/ /\ vals # <<>> /\ \A i \in DOMAIN vals : vals[i] = vals[1]
     /\ \E f \in Fuses(AssignUndone(c, Len(vals), TRUE)) :
          Finish(c, AssignValues(Frame(c, vals, f), Len(vals), LValue), Assigned(c, vals))

\* operator=(const this_type&): self assignment changes nothing.
CopyFrom(c, d) == IF c = d THEN UNCHANGED vars ELSE Assign(c, Contents(d))

Swap(c, d) ==
  /\ obj' = [obj EXCEPT ![c] = obj[d], ![d] = obj[c]]
  /\ call' = Swapped(c, d)
  /\ UNCHANGED <<prog, fault>>

\* operator=(this_type&&): DoClearCapacity, then swap.
MoveFrom(c, d) ==
  /\ c # d
  /\ obj' = [obj EXCEPT ![c] = obj[d], ![d] = [mem |-> <<>>, end |-> 0]]
  /\ fault' = (fault \/ Shrink(Frame(c, <<Raw>>, 0), 0).fault)
  /\ call' = Taken(c, d)
  /\ UNCHANGED prog

Next ==
  \E c \in prog.objs :
    \/ \E x \in prog.values : InsertOne(c, x) \/ InsertCopies(c, x)
    \/ \E vals \in BoundedSeq(prog.values, prog.range) : InsertRange(c, vals) \/ Assign(c, vals)
    \/ EraseRange(c) \/ EraseOne(c) \/ EraseValues(c) \/ Truncate(c) \/ ChangeCapacity(c)
    \/ \E d \in prog.objs : CopyFrom(c, d) \/ Swap(c, d) \/ MoveFrom(c, d)

Spec == Init /\ [][Next]_vars

-----------------------------------------------------------------------------
\* In every vector there is an element, with its value, in each slot before
\* mpEnd and in no other, and no step on the way was undefined or left something
\* behind: with elements that move and ones that copy, arguments from within, and
\* exceptions of every step the code can undo (see Fuses), in each catch block of
\* an insertion among others (vector.h:1691, 1765, 1839, 1958, 1997, 2008).
StorageExact ==
  /\ ~fault
  /\ \A c \in prog.objs : \A i \in DOMAIN obj[c].mem :
       IF i <= obj[c].end THEN obj[c].mem[i] \in prog.values ELSE obj[c].mem[i] = Raw
=============================================================================
