------------------------------- MODULE Deque -------------------------------
(* deque (include/EASTL/deque.h): subarrays of elements behind an array of     *)
(* pointers to them, which moves its pointers about, or to a larger array,     *)
(* whenever one end of it is reached.                                          *)
(*                                                                            *)
(* An iterator is a number: p * SubarraySize + i is place i of the subarray    *)
(* that entry p of mpPtrArray points to.  obj[c] is a deque: mem, what is at   *)
(* each place, NoMemory where the pointer is not in use; begin and end, the    *)
(* iterators mItBegin and mItEnd.  A call works on a memory (see Elements)     *)
(* whose pointer array, of m.ptrs entries, starts at 0; m.arg is its argument, *)
(* or the first of a range.                                                   *)
EXTENDS Elements, Calls

CONSTANTS
  SubarraySize,
  MinPtrArraySize,
  MaxPtrArraySize,  \* bound: on the pointer array
  Programs          \* as for Vector

VARIABLES
  prog, obj,
  fault,   \* a step was undefined, or something was left behind
  call     \* the last call and its result, as in Sequence

vars == <<prog, obj, fault, call>>

SubOf(i) == i \div SubarraySize
Places(p, q) == p * SubarraySize .. q * SubarraySize - 1
Larger(a, b) == IF a > b THEN a ELSE b

\* The constructor's DoInit(n): how many pointers, and the first one in use.
InitSize(n) == Larger(MinPtrArraySize, SubOf(n) + 3)
InitStart(n) == (InitSize(n) - SubOf(n) - 1) \div 2
NoElements ==
  [mem |-> [i \in 1 .. InitSize(0) * SubarraySize |->
              IF SubOf(i - 1) = InitStart(0) THEN Raw ELSE NoMemory],
   begin |-> InitStart(0) * SubarraySize, end |-> InitStart(0) * SubarraySize]

Init ==
  /\ prog \in Programs
  /\ obj = [c \in prog.objs |-> NoElements]
  /\ fault = FALSE
  /\ call = Quiet

size(c) == obj[c].end - obj[c].begin
Contents(c) == SubSeq(obj[c].mem, obj[c].begin + 1, obj[c].end)

-----------------------------------------------------------------------------
(* The memory a call works on.  arg is LValue, RValue, Args or the index of an *)
(* element.                                                                   *)
Frame(c, vals, arg, f) ==
  [slot |-> [i \in 0 .. Len(obj[c].mem) - 1 |-> obj[c].mem[i + 1]] @@ Arguments(vals),
   begin |-> obj[c].begin, end |-> obj[c].end, ptrs |-> Len(obj[c].mem) \div SubarraySize,
   arg |-> IF arg < LValue THEN obj[c].begin + arg ELSE arg,
   moves |-> prog.moves, fuse |-> f, threw |-> FALSE, fault |-> FALSE]

Finish(c, m, done) ==
  /\ m.end - m.begin <= prog.size /\ m.ptrs <= MaxPtrArraySize
  /\ obj' = [obj EXCEPT ![c] = [mem |-> [i \in 1 .. m.ptrs * SubarraySize |-> m.slot[i - 1]],
                                begin |-> m.begin, end |-> m.end]]
  /\ fault' = (fault \/ m.fault \/ m.slot[Temp] # Raw \/ m.slot[Saved] # Raw)
  /\ call' = IF m.threw THEN Quiet ELSE done
  /\ UNCHANGED prog

AllocateSubarray(m, p) ==
  LET a == MayThrow(m)
  IN  IF a.threw THEN a
      ELSE [a EXCEPT !.slot = [i \in DOMAIN @ |-> IF SubOf(i) = p THEN Raw ELSE @[i]],
                     !.fault = @ \/ \E i \in Places(p, p + 1) : m.slot[i] # NoMemory]

\* The subarrays of the pointers p to q-1, of which none holds an element.
FreeSubarrays(m, p, q) ==
  [m EXCEPT !.slot = [i \in DOMAIN @ |-> IF p <= SubOf(i) /\ SubOf(i) < q THEN NoMemory ELSE @[i]],
            !.fault = @ \/ \E i \in Places(p, q) : m.slot[i] # Raw]

-----------------------------------------------------------------------------
(* The array of pointers. *)

\* The used pointers now start at entry start of an array of n.
MovePtrs(m, n, start) ==
  LET first == SubOf(m.begin)  last == SubOf(m.end)
      by == (start - first) * SubarraySize
      used == Places(start, start + last - first + 1)
  IN  [m EXCEPT
         !.slot = [i \in 0 .. n * SubarraySize - 1 |-> IF i \in used THEN @[i - by] ELSE NoMemory] @@ @,
         !.ptrs = n, !.begin = @ + by, !.end = @ + by,
         !.arg = IF @ < LValue THEN @ + by ELSE @,
         !.fault = @ \/ start < 0 \/ start + last - first >= n]

\* Room for add pointers more at one side: from the other, or in a larger array.
DoReallocPtrArray(m, add, side) ==
  LET front == SubOf(m.begin)
      back == m.ptrs - SubOf(m.end) - 1
      a == MayThrow(m)
  IN  IF m.threw THEN m
      ELSE IF side = "back" /\ add <= front
      THEN MovePtrs(m, m.ptrs, front - Larger(add, front \div 2))
      ELSE IF side = "front" /\ add <= back
      THEN MovePtrs(m, m.ptrs, front + Larger(add, back \div 2))
      ELSE IF a.threw THEN a
      ELSE MovePtrs(a, m.ptrs + Larger(m.ptrs, add) + 2, front + IF side = "front" THEN add ELSE 0)

\* The pointer of the i-th subarray to be added at a side.
Beyond(r, side, i) == IF side = "front" THEN SubOf(r.begin) - i - 1 ELSE SubOf(r.end) + i + 1

\* When an allocation throws, what the loop has allocated is freed.
Undone(r, a, more, side) ==
  LET made == Cardinality({i \in 0 .. more - 1 : a.slot[SubarraySize * Beyond(r, side, i)] # NoMemory})
  IN  IF r.threw \/ ~a.threw THEN a
      ELSE IF side = "front" THEN FreeSubarrays(a, SubOf(a.begin) - made, SubOf(a.begin))
      ELSE FreeSubarrays(a, SubOf(a.end) + 1, SubOf(a.end) + 1 + made)

AllocateSubarrays(r, more, side) ==
  Undone(r, Steps(r, more, LAMBDA x, i : AllocateSubarray(x, Beyond(r, side, i))), more, side)

\* Places for n more at one side.
DoReallocSubarray(m, n, side) ==
  LET spare == IF side = "front" THEN m.begin % SubarraySize
               ELSE SubarraySize - 1 - (m.end % SubarraySize)
      more == IF spare < n THEN (n - spare + SubarraySize - 1) \div SubarraySize ELSE 0
      ptrs == IF side = "front" THEN SubOf(m.begin) ELSE m.ptrs - SubOf(m.end) - 1
  IN  AllocateSubarrays(IF more > ptrs THEN DoReallocPtrArray(m, more - ptrs, side) ELSE m, more, side)

-----------------------------------------------------------------------------
(* One element: args are a value to copy, or one to move from. *)
Make(m, a, from, moves) == IF moves THEN Move(m, a, from) ELSE Copy(m, a, from)

\* From Temp to a subarray that has been allocated for it.
PutFront(a) ==
  LET x == Move(a, a.begin - 1, Temp)
  IN  IF a.threw THEN a
      ELSE IF x.threw THEN FreeSubarrays(x, SubOf(x.begin) - 1, SubOf(x.begin))
      ELSE [x EXCEPT !.begin = @ - 1]
PutBack(a) ==
  LET x == Move(a, a.end, Temp)
  IN  IF a.threw THEN a
      ELSE IF x.threw THEN FreeSubarrays(x, SubOf(x.end) + 1, SubOf(x.end) + 2)
      ELSE [x EXCEPT !.end = @ + 1]

AllocateFront(r) == AllocateSubarray(r, SubOf(r.begin) - 1)
AllocateBack(r) == AllocateSubarray(r, SubOf(r.end) + 1)
RoomInFront(v) == AllocateFront(IF SubOf(v.begin) = 0 THEN DoReallocPtrArray(v, 1, "front") ELSE v)
RoomAtBack(v) == AllocateBack(IF SubOf(v.end) + 1 >= v.ptrs THEN DoReallocPtrArray(v, 1, "back") ELSE v)

emplace_front(m, from, moves) ==
  IF m.begin % SubarraySize # 0 THEN Make([m EXCEPT !.begin = @ - 1], m.begin - 1, from, moves)
  ELSE EndLocal(PutFront(RoomInFront(Make(m, Temp, from, moves))), Temp)

\* The last place of a subarray is only filled with the next one at hand.
emplace_back(m, from, moves) ==
  IF (m.end + 1) % SubarraySize # 0 THEN Make([m EXCEPT !.end = @ + 1], m.end, from, moves)
  ELSE EndLocal(PutBack(RoomAtBack(Make(m, Temp, from, moves))), Temp)

\* With a copy of the first, or last, element before it, the elements before, or
\* behind, place i move by one.
MoveFront(m, i) == MoveAssign(move(m, m.begin + 2, m.begin + i + 1, m.begin + 1), m.begin + i, Saved)
MoveBack(m, i) ==
  MoveAssign(move_backward(m, m.begin + i, m.end - 2, m.end - 1), m.begin + i, Saved)

EmplaceWithin(s, i) ==
  IF s.threw THEN s
  ELSE IF i < (s.end - s.begin) \div 2 THEN MoveFront(emplace_front(s, s.begin, TRUE), i)
  ELSE MoveBack(emplace_back(s, s.end - 1, TRUE), i)

\* push_back, push_front, insert(position, value): the nearer half moves by one.
emplace(m, i, from, moves) ==
  IF i = m.end - m.begin THEN emplace_back(m, from, moves)
  ELSE IF i = 0 THEN emplace_front(m, from, moves)
  ELSE EndLocal(EmplaceWithin(Make(m, Saved, from, moves), i), Saved)

pop_front(m) ==
  LET d == [Destroy(m, m.begin) EXCEPT !.begin = @ + 1]
  IN  IF d.begin % SubarraySize # 0 THEN d
      ELSE FreeSubarrays(d, SubOf(m.begin), SubOf(d.begin))

pop_back(m) ==
  LET f == IF m.end % SubarraySize # 0 THEN m ELSE FreeSubarrays(m, SubOf(m.end), SubOf(m.end) + 1)
  IN  Destroy([f EXCEPT !.end = @ - 1], m.end - 1)

-----------------------------------------------------------------------------
(* n elements at index i: copies of the argument (one), or the range that      *)
(* starts with it.  At the places a to b-1 Fresh constructs them, from element *)
(* j on, and Over assigns them.                                                *)
Fresh(one, x, a, b, j) ==
  IF one THEN uninitialized_fill_n(x, a, b - a, x.arg) ELSE uninitialized_copy(x, x.arg + j, x.arg + j + b - a, a)
Over(one, x, a, b, j) ==
  IF one THEN fill(x, a, b, x.arg) ELSE copy(x, x.arg + j, x.arg + j + b - a, a)

\* A range is copied into place, and elements are copied to make room for it,
\* because it may be one of this deque.
Relocate(one, x, first, last, dest) ==
  IF one THEN uninitialized_move(x, first, last, dest) ELSE uninitialized_copy(x, first, last, dest)

\* The elements that move into places that hold some.
Shift(one, x, first, last, dest) == IF one THEN move(x, first, last, dest) ELSE copy(x, first, last, dest)
ShiftBack(one, x, first, last, end) ==
  IF one THEN move_backward(x, first, last, end) ELSE copy_backward(x, first, last, end)

\* The catch block frees the subarrays p to q-1 that were added.
Extended(x, p, q, begin, end) ==
  IF x.threw THEN FreeSubarrays(x, p, q) ELSE [x EXCEPT !.begin = begin, !.end = end]

InsertFront(r, i, n, one) ==
  LET b == r.begin  p == b + i  nb == b - n
      moved == Relocate(one, r, b, p, nb)
      x == IF i >= n THEN Over(one, Shift(one, Relocate(one, r, b, b + n, nb), b + n, p, b), p - n, p, 0)
           ELSE Over(one, Both(moved, Fresh(one, moved, nb + i, b, 0), i, nb), b, p, n - i)
  IN  IF r.threw THEN r ELSE Extended(x, SubOf(nb), SubOf(b), nb, r.end)

InsertBack(r, i, n, one) ==
  LET e == r.end  p == r.begin + i  pushed == e - p
      made == Fresh(one, r, e, p + n, pushed)
      x == IF pushed > n
           THEN Over(one, ShiftBack(one, Relocate(one, r, e - n, e, e), p, e - n, e), p, p + n, 0)
           ELSE Over(one, Both(made, Relocate(one, made, p, e, p + n), n - pushed, e), p, e, 0)
  IN  IF r.threw THEN r ELSE Extended(x, SubOf(e) + 1, SubOf(e + n) + 1, r.begin, e + n)

InsertNearer(s, i, n, one) ==
  LET k == s.end - s.begin IN
  IF s.threw THEN s
  ELSE IF i = 0 \/ (i # k /\ i < k \div 2) THEN InsertFront(DoReallocSubarray(s, n, "front"), i, n, one)
  ELSE InsertBack(DoReallocSubarray(s, n, "back"), i, n, one)

\* DoInsertValues and DoInsertFromIterator.  Only in the middle is the value
\* saved first: at the ends no element moves.
InsertSeveral(m, i, n, one) ==
  EndLocal(InsertNearer(IF one /\ i \notin {0, m.end - m.begin} THEN [Copy(m, Saved, m.arg) EXCEPT !.arg = Saved]
                    ELSE m, i, n, one), Saved)

-----------------------------------------------------------------------------
(* Erasure, assignment, capacity. *)

\* Every subarray but the first is freed.
clear(m) ==
  [FreeSubarrays(Destruct(m, m.begin, m.end), SubOf(m.begin) + 1, SubOf(m.end) + 1) EXCEPT !.end = m.begin]

EraseOne(m, i) ==
  LET p == m.begin + i
  IN  IF i < (m.end - m.begin) \div 2
      THEN LET x == move_backward(m, m.begin, p, p + 1) IN IF x.threw THEN x ELSE pop_front(x)
      ELSE LET x == move(m, p + 1, m.end, p) IN IF x.threw THEN x ELSE pop_back(x)

\* The shorter rest moves, and the subarrays it leaves behind are freed.
Erase(m, i, j) ==
  LET b == m.begin  e == m.end  n == j - i
      front == LET x == move_backward(m, b, b + i, b + j)
               IN  IF x.threw THEN x
                   ELSE [FreeSubarrays(Destruct(x, b, b + n), SubOf(b), SubOf(b + n)) EXCEPT !.begin = b + n]
      back == LET x == move(m, b + j, e, b + i)
              IN  IF x.threw THEN x
                  ELSE [FreeSubarrays(Destruct(x, e - n, e), SubOf(e - n) + 1, SubOf(e) + 1) EXCEPT !.end = e - n]
  IN  IF n = e - b THEN clear(m) ELSE IF i < (e - b - n) \div 2 THEN front ELSE back

\* DoAssign and DoAssignValues, which erases before it fills.
AssignMore(x, n0, n, one) ==
  IF x.threw THEN x ELSE InsertSeveral([x EXCEPT !.arg = IF one THEN @ ELSE @ + n0], n0, n - n0, one)
FillAll(x) == Over(TRUE, x, x.begin, x.end, 0)
CutOff(x, n, n0) == IF x.threw THEN x ELSE Erase(x, n, n0)

Assign(m, n, one) ==
  LET b == m.begin  n0 == m.end - b
  IN  IF n > n0 THEN AssignMore(Over(one, m, b, m.end, 0), n0, n, one)
      ELSE IF one THEN FillAll(Erase(m, n, n0))
      ELSE CutOff(Over(FALSE, m, b, b + n, 0), n, n0)

\* The old elements and subarrays go, and the n elements from b on are the deque.
Rebuilt(x, n, b) ==
  IF x.threw THEN x
  ELSE [FreeSubarrays(Destruct(x, x.begin, x.end), SubOf(x.begin), SubOf(x.end) + 1) EXCEPT
          !.slot = [i \in Places(0, InitSize(n)) |-> x.slot[New + i]] @@ @,
          !.ptrs = InitSize(n), !.begin = b - New, !.end = b - New + n]

Fill(v, n, b, from, moves) ==
  Unwound(v, Steps(v, n, LAMBDA y, i : Make(y, b + i, from + i, moves)), n, b)

\* A new deque with n elements, made of those at from on, takes the place of this
\* one, which is destroyed.
Rebuild(m, n, from, moves) ==
  LET first == SubOf(New) + InitStart(n)  b == SubarraySize * first
      w == [m EXCEPT !.slot = [i \in Places(SubOf(New), SubOf(New) + InitSize(n)) |->
                                 IF first <= SubOf(i) /\ SubOf(i) <= first + SubOf(n) THEN Raw ELSE NoMemory] @@ @]
  IN  Rebuilt(Fill(MayThrow(w), n, b, from, moves), n, b)

\* The constructors and the destructor.
Construction(m, n) == Rebuild(m, n, Args, FALSE)

\* A deque of move iterators, and swap.
shrink_to_fit(m) == Rebuild(m, m.end - m.begin, m.begin, TRUE)

-----------------------------------------------------------------------------
(* The calls.  prog says which may throw and which take an element of the     *)
(* deque itself as their argument. *)
Fuses(op) == IF op \in prog.throws THEN 0 .. prog.size + 4 ELSE {0}
Sources(op, c) == {LValue, RValue} \cup IF op \in prog.aliases THEN 0 .. size(c) - 1 ELSE {}

\* An exception from a construction in place, at an end, leaves that place
\* inside the deque without an element, so it is not among the throwing calls.
InsertOne(c, x) ==
  \E i \in 0 .. size(c), a \in Sources("emplace", c) :
    LET full == IF i = size(c) THEN (obj[c].end + 1) % SubarraySize = 0
                ELSE i = 0 /\ obj[c].begin % SubarraySize = 0
    IN  \E f \in Fuses(IF full THEN "emplace_full" ELSE "emplace") :
          LET m == Frame(c, <<x>>, a, f)
          IN  Finish(c, emplace(m, i, m.arg, m.arg = RValue), Inserted(c, i, <<m.slot[m.arg]>>))

\* insert(position, n, value) and resize upwards.
InsertCopies(c, x) ==
  \E i \in 0 .. size(c), n \in 0 .. prog.range, a \in Sources("insert", c) \ {RValue} :
    \E f \in Fuses(IF i \in {0, size(c)} THEN "insert_end" ELSE "insert") :
      LET m == Frame(c, <<x>>, a, f)
      IN  Finish(c, InsertSeveral(m, i, n, TRUE), Inserted(c, i, [j \in 1 .. n |-> m.slot[m.arg]]))

InsertRange(c, vals) ==
  \E i \in 0 .. size(c) : \E f \in Fuses(IF i \in {0, size(c)} THEN "insert_end" ELSE "insert") :
    Finish(c, InsertSeveral(Frame(c, vals, Args, f), i, Len(vals), FALSE), Inserted(c, i, vals))

EraseAt(c) == \E i \in 0 .. size(c) - 1 : Finish(c, EraseOne(Frame(c, <<>>, Args, 0), i), Erased(c, i, i + 1))

\* Also resize downwards.
EraseRange(c) ==
  \E i \in 0 .. size(c) : \E j \in i .. size(c) :
    Finish(c, Erase(Frame(c, <<>>, Args, 0), i, j), Erased(c, i, j))

Pop(c) ==
  /\ size(c) > 0
  /\ \/ Finish(c, pop_front(Frame(c, <<>>, Args, 0)), Erased(c, 0, 1))
     \/ Finish(c, pop_back(Frame(c, <<>>, Args, 0)), Erased(c, size(c) - 1, size(c)))

\* Assignments, and a deque that ends where another begins.
AssignAll(c, vals) ==
  \/ Finish(c, Assign(Frame(c, vals, Args, 0), Len(vals), FALSE), Assigned(c, vals))
  \/ /\ vals # <<>> /\ \A i \in DOMAIN vals : vals[i] = vals[1]
     /\ Finish(c, Assign(Frame(c, vals, LValue, 0), Len(vals), TRUE), Assigned(c, vals))
  \/ \E f \in Fuses("construct") :
       Finish(c, Construction(Frame(c, vals, Args, f), Len(vals)), Assigned(c, vals))

\* set_capacity(n) below the size is resize(n), but 0 is a new deque.
ChangeCapacity(c) ==
  \/ Finish(c, shrink_to_fit(Frame(c, <<>>, Args, 0)), Quiet)
  \/ Finish(c, Construction(Frame(c, <<>>, Args, 0), 0), Erased(c, 0, size(c)))

Swap(c, d) ==
  /\ obj' = [obj EXCEPT ![c] = obj[d], ![d] = obj[c]]
  /\ call' = Swapped(c, d)
  /\ UNCHANGED <<prog, fault>>

\* operator=(this_type&&) swaps with a new deque, then with the source.
MoveFrom(c, d) ==
  /\ c # d
  /\ obj' = [obj EXCEPT ![c] = obj[d], ![d] = NoElements]
  /\ fault' = (fault \/ clear(Frame(c, <<>>, Args, 0)).fault)
  /\ call' = Taken(c, d)
  /\ UNCHANGED prog

Next ==
  \E c \in prog.objs :
    \/ \E x \in prog.values : InsertOne(c, x) \/ InsertCopies(c, x)
    \/ \E vals \in BoundedSeq(prog.values, prog.range) : InsertRange(c, vals) \/ AssignAll(c, vals)
    \/ EraseAt(c) \/ EraseRange(c) \/ Pop(c) \/ ChangeCapacity(c)
    \/ \E d \in prog.objs : Swap(c, d) \/ MoveFrom(c, d) \/ (c # d /\ AssignAll(c, Contents(d)))

Spec == Init /\ [][Next]_vars

-----------------------------------------------------------------------------
\* The subarrays from that of begin() to that of end() are allocated and no
\* other, there is an element, with its value, at each place between the two and
\* at no other, and no step on the way was undefined: while the pointers are
\* recentred or reallocated, with arguments from within, and with exceptions
\* where the code catches them (deque.h:684-831, 1843-1916, 2374-2659).
StorageExact ==
  /\ ~fault
  /\ \A c \in prog.objs :
       LET d == obj[c]
           Used(i) == SubOf(d.begin) <= SubOf(i) /\ SubOf(i) <= SubOf(d.end)
       IN  \A i \in 0 .. Len(d.mem) - 1 :
             IF d.begin <= i /\ i < d.end THEN d.mem[i + 1] \in prog.values
             ELSE d.mem[i + 1] = IF Used(i) THEN Raw ELSE NoMemory
=============================================================================
