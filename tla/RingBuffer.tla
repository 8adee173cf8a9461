----------------------------- MODULE RingBuffer -----------------------------
(* ring_buffer (include/EASTL/bonus/ring_buffer.h): a bounded sequence that    *)
(* goes round a container it never lets grow by itself.  A new element at one *)
(* end of a full buffer takes the place of the one at the other.              *)
(*                                                                            *)
(* obj[b] is a ring_buffer: c, its container, whose places all hold a value;   *)
(* begin and end, two places in it, counted from 0, of which that at end is   *)
(* not used; size.                                                            *)
EXTENDS Integers, FiniteSets, Sequences, SequencesExt, Calls

CONSTANTS
  Programs   \* what a behaviour may do: kind, "ring_buffer"; objs; values, to
             \* insert; capacity, the largest to ask for; range, the most in one
             \* call

VARIABLES
  prog,    \* the program: a member of Programs
  obj,
  call     \* the last call and its result, as in Sequence

vars == <<prog, obj, call>>

\* A default constructed element, in the places that were never assigned.
Default == 0

\* ring_buffer(cap).
Empty(cap) == [c |-> [i \in 1 .. cap + 1 |-> Default], begin |-> 0, end |-> 0, size |-> 0]

Init ==
  /\ prog \in Programs
  /\ obj \in [prog.objs -> {Empty(n) : n \in 0 .. prog.capacity}]
  /\ call = Quiet

-----------------------------------------------------------------------------
(* The places, and the iterators, which go round.                             *)
Capacity(r) == Len(r.c) - 1
After(r, p) == IF p + 1 = Len(r.c) THEN 0 ELSE p + 1
Before(r, p) == (IF p = 0 THEN Len(r.c) ELSE p) - 1
Advance(r, p, n) == LET d == Len(r.c) - p IN IF n < d THEN p + n ELSE n - d

\* operator-, which counts the steps from p to q.
Distance(r, p, q) == (q - p) % Len(r.c)

full(r) == After(r, r.end) = r.begin
Elements(r) == [i \in 1 .. Distance(r, r.begin, r.end) |-> r.c[Advance(r, r.begin, i - 1) + 1]]
Contents(b) == Elements(obj[b])

Assign(r, p, x) == [r EXCEPT !.c[p + 1] = x]

\* eastl::copy and copy_backward.
CopyTo(r, p, q, dest) ==
  FoldLeft(LAMBDA x, i : Assign(x, Advance(r, dest, i), x.c[Advance(r, p, i) + 1]),
           r, [i \in 1 .. Distance(r, p, q) |-> i - 1])

CopyBackward(r, p, q, dest) ==
  LET n == Distance(r, p, q)
  IN  FoldRight(LAMBDA i, x : Assign(x, Advance(r, Advance(r, dest, Len(r.c) - n), i), x.c[Advance(r, p, i) + 1]),
                [i \in 1 .. n |-> i - 1], r)

\* The end goes one place on, and the begin before it.
PushedBack(r) ==
  LET e == After(r, r.end)
  IN  IF e = r.begin THEN [r EXCEPT !.end = e, !.begin = After(r, e)]
      ELSE [r EXCEPT !.end = e, !.size = @ + 1]

PushedFront(r) ==
  LET b == Before(r, r.begin)
  IN  IF b = r.end THEN [r EXCEPT !.begin = b, !.end = Before(r, b)]
      ELSE [r EXCEPT !.begin = b, !.size = @ + 1]

PushBack(r, x) == PushedBack(Assign(r, r.end, x))
PushFront(r, x) == LET y == PushedFront(r) IN Assign(y, y.begin, x)
PopBack(r) == [r EXCEPT !.end = Before(r, @), !.size = @ - 1]
PopFront(r) == [r EXCEPT !.begin = After(r, @), !.size = @ - 1]

clear(r) == [r EXCEPT !.begin = 0, !.end = 0, !.size = 0]
Assigning(r, vals) == FoldLeft(PushBack, clear(r), vals)

\* A container of n + 1 places takes over what is between p and the end.
Regrown(r, n, p, size) ==
  LET k == Distance(r, p, r.end)
  IN  [c |-> [i \in 1 .. n + 1 |-> IF i <= k THEN r.c[Advance(r, p, i - 1) + 1] ELSE Default],
       begin |-> 0, end |-> size, size |-> size]

\* In a full buffer the last element goes.
InsertAtPlace(r, p, x) ==
  LET y == IF full(r) THEN r ELSE PushedBack(r)
      last == IF full(r) THEN Before(r, r.end) ELSE r.end
  IN  Assign(CopyBackward(y, p, last, y.end), p, x)

EraseRange(r, p, q) ==
  LET d == Distance(r, p, q)
  IN  FoldLeft(LAMBDA x, i : PopBack(x), CopyTo(r, q, r.end, p), [i \in 1 .. d |-> i])

-----------------------------------------------------------------------------
(* The calls.                                                                 *)
Set(b, r, done) == obj' = [obj EXCEPT ![b] = r] /\ call' = done /\ UNCHANGED prog

\* What a buffer without room keeps of s: its first or its last elements.
FirstOf(s, n) == SubSeq(s, 1, IF Len(s) < n THEN Len(s) ELSE n)
LastOf(s, n) == SubSeq(s, IF Len(s) < n THEN 1 ELSE Len(s) - n + 1, Len(s))

push_back(b, x) ==
  Set(b, PushBack(obj[b], x), Assigned(b, LastOf(Append(Contents(b), x), Capacity(obj[b]))))

push_front(b, x) ==
  Set(b, PushFront(obj[b], x), Assigned(b, FirstOf(<<x>> \o Contents(b), Capacity(obj[b]))))

\* Without a value: the new element is what its place held.
push(b) ==
  LET r == obj[b]  back == PushedBack(r)  front == PushedFront(r)
  IN  /\ Capacity(r) > 0
      /\ \/ Set(b, back, Assigned(b, LastOf(Append(Contents(b), r.c[r.end + 1]), Capacity(r))))
         \/ Set(b, front, Assigned(b, FirstOf(<<r.c[front.begin + 1]>> \o Contents(b), Capacity(r))))

pop(b) ==
  LET r == obj[b]
  IN  /\ r.begin # r.end
      /\ \/ Set(b, PopBack(r), Erased(b, r.size - 1, r.size))
         \/ Set(b, PopFront(r), Erased(b, 0, 1))

resize(b, n) ==
  LET r == obj[b]
      new == IF n > Capacity(r) THEN Regrown(r, n, r.begin, n)
             ELSE [r EXCEPT !.size = n, !.end = Advance(r, r.begin, n)]
  IN  Set(b, new, IF n <= r.size THEN Erased(b, n, r.size)
                  ELSE Inserted(b, r.size, SubSeq(Elements(new), r.size + 1, n)))

\* The last elements stay.
set_capacity(b, n) ==
  LET r == obj[b]
      kept == IF n < r.size THEN n ELSE r.size
  IN  Set(b, IF n = Capacity(r) THEN r ELSE Regrown(r, n, Advance(r, r.begin, r.size - kept), kept),
          Erased(b, 0, r.size - kept))

reserve(b, n) ==
  LET r == obj[b] IN n > Capacity(r) /\ Set(b, Regrown(r, n, r.begin, r.size), Quiet)

\* Not at the end of a full buffer: it has no element there, and copy_backward
\* would go round (see README).
insert(b, i, x) ==
  LET r == obj[b]  p == Advance(r, r.begin, i)  new == InsertAtPlace(r, p, x)
  IN  /\ i < Capacity(r)
      /\ Set(b, new, IF full(r) THEN Assigned(b, FirstOf(InsertAt(Contents(b), i + 1, x), Capacity(r)))
                     ELSE [Inserted(b, i, <<x>>) EXCEPT !.result = Distance(new, new.begin, p)])

\* n times at the same place.
insert_n(b, i, n, x) ==
  LET r == obj[b]  p == Advance(r, r.begin, i)
  IN  /\ i < Capacity(r)
      /\ Set(b, FoldLeft(LAMBDA y, j : InsertAtPlace(y, p, x), r, [j \in 1 .. n |-> j]),
             Assigned(b, FirstOf(SubSeq(Contents(b), 1, i) \o [j \in 1 .. n |-> x] \o SubSeq(Contents(b), i + 1, r.size),
                                 Capacity(r))))

\* One place further each time.
insert_range(b, i, vals) ==
  LET r == obj[b]
  IN  /\ i + Len(vals) <= Capacity(r)
      /\ Set(b, FoldLeft(LAMBDA y, j : InsertAtPlace(y, Advance(r, r.begin, i + j - 1), vals[j]), r, [j \in 1 .. Len(vals) |-> j]),
             Assigned(b, FirstOf(SubSeq(Contents(b), 1, i) \o vals \o SubSeq(Contents(b), i + 1, r.size), Capacity(r))))

\* One element, or a range; also of one reverse iterator (a range of them: see README).
erase(b, i, j) ==
  LET r == obj[b]
      Place(k) == Advance(r, r.begin, k)
      new == EraseRange(r, Place(i), Place(j))
  IN  Set(b, new, [Erased(b, i, j) EXCEPT !.result = Distance(new, new.begin, Place(i))])

assign(b, vals) == Set(b, Assigning(obj[b], vals), Assigned(b, LastOf(vals, Capacity(obj[b]))))

\* A new one, with the elements of an initializer list or the container it is to use.
construct(b, vals) ==
  \/ Set(b, Assigning(Empty(Len(vals)), vals), Assigned(b, vals))
  \/ Set(b, [Empty(0) EXCEPT !.c = IF vals = <<>> THEN @ ELSE vals], Assigned(b, <<>>))

\* = of another and the copy constructor; those that move swap.
copy(b, d) == b # d /\ Set(b, obj[d], Assigned(b, Contents(d)))

swap(b, d) ==
  /\ obj' = [obj EXCEPT ![b] = obj[d], ![d] = obj[b]]
  /\ call' = Swapped(b, d)
  /\ UNCHANGED prog

move_construct(b, d) ==
  /\ b # d
  /\ obj' = [obj EXCEPT ![b] = obj[d], ![d] = Empty(0)]
  /\ call' = Taken(b, d)
  /\ UNCHANGED prog

Next ==
  \E b \in prog.objs :
    LET lists == UNION {[1 .. n -> prog.values] : n \in 0 .. prog.range}
    IN  \/ \E x \in prog.values : push_back(b, x) \/ push_front(b, x)
        \/ push(b) \/ pop(b)
        \/ \E n \in 0 .. prog.capacity : resize(b, n) \/ set_capacity(b, n) \/ reserve(b, n)
        \/ \E i \in 0 .. obj[b].size :
             \/ \E x \in prog.values : insert(b, i, x) \/ \E n \in 0 .. prog.range : insert_n(b, i, n, x)
             \/ \E vals \in lists : insert_range(b, i, vals)
             \/ \E j \in i .. obj[b].size : erase(b, i, j)
        \/ \E vals \in lists : assign(b, vals) \/ construct(b, vals)
        \/ Set(b, clear(obj[b]), Assigned(b, <<>>))
        \/ \E d \in prog.objs : copy(b, d) \/ swap(b, d) \/ move_construct(b, d)

-----------------------------------------------------------------------------
\* The places and the count of elements agree, as validate says, whatever wrapped
\* around (bonus/ring_buffer.h:1454-1478).
StorageExact ==
  \A b \in prog.objs :
    LET r == obj[b]
    IN  /\ Len(r.c) >= 1 /\ r.size <= Capacity(r)
        /\ {r.begin, r.end} \subseteq 0 .. Capacity(r)
        /\ Distance(r, r.begin, r.end) = r.size
=============================================================================
