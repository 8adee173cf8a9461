------------------------------- MODULE Sorting -------------------------------
(* The sorts (include/EASTL/sort.h, bonus/sort_extra.h), and the heap         *)
(* algorithms (heap.h) on which some of them are built, as functions of a     *)
(* sequence.  The limits below which they change to an insertion sort are     *)
(* constants, so that short sequences reach every part.                       *)
EXTENDS Algorithms

CONSTANTS
  InsertionSortLimit,   \* 16: merge_sort
  QuickSortLimit,       \* 28 or 16: kQuickSortLimit
  NthElementLimit,      \* 5: nth_element
  KeyBits, DigitBits,   \* of a radix_type, and of a digit of it
  RunBits               \* 6: tim_sort makes runs of 2^5 to 2^6 elements when there are more

\* The heap is in s from position first on; in it positions count from 0, as in
\* the code.  v goes to position, or up from there, but not above topPosition.
RECURSIVE promote_heap(_, _, _, _, _)
promote_heap(s, first, topPosition, position, v) ==
  LET parent == (position - 1) \div 2
  IN  IF position > topPosition /\ Less(s[first + parent], v)
      THEN promote_heap([s EXCEPT ![first + position] = s[first + parent]], first, topPosition, parent, v)
      ELSE [s EXCEPT ![first + position] = v]

\* The vacancy at position goes down to a leaf, along the larger children, and v
\* up from there.
RECURSIVE adjust_heap(_, _, _, _, _, _)
adjust_heap(s, first, topPosition, heapSize, position, v) ==
  LET right == 2 * position + 2
      child == IF Less(s[first + right], s[first + right - 1]) THEN right - 1 ELSE right
  IN  IF right < heapSize
      THEN adjust_heap([s EXCEPT ![first + position] = s[first + child]], first, topPosition, heapSize, child, v)
      ELSE IF right = heapSize
      THEN promote_heap([s EXCEPT ![first + position] = s[first + right - 1]], first, topPosition, right - 1, v)
      ELSE promote_heap(s, first, topPosition, position, v)

push_heap(s, first, size) == promote_heap(s, first, 0, size - 1, s[first + size - 1])

\* The top goes to the back.
pop_heap(s, first, size) ==
  LET bottom == first + size - 1
  IN  adjust_heap([s EXCEPT ![bottom] = s[first]], first, 0, size - 1, 0, s[bottom])

\* From the last parent up.
make_heap(s, first, size) ==
  FoldLeft(LAMBDA x, p : adjust_heap(x, first, p, size, p, x[first + p]), s,
           IF size < 2 THEN <<>> ELSE Downto((size - 2) \div 2, 0))

sort_heap(s, first, size) == FoldLeft(LAMBDA x, n : pop_heap(x, first, n), s, Downto(size, 2))

\* Mutant: the value from the bottom only goes down.
remove_heap_down(s, first, heapSize, position) ==
  LET bottom == first + heapSize - 1
  IN  adjust_heap([s EXCEPT ![bottom] = s[first + position]], first, position, heapSize - 1, position, s[bottom])

\* The element at position goes to the back.
remove_heap(s, first, heapSize, position) ==
  LET bottom == first + heapSize - 1
  IN  adjust_heap([s EXCEPT ![bottom] = s[first + position]], first, 0, heapSize - 1, position, s[bottom])

\* The element at position has a new value.
change_heap(s, first, heapSize, position) ==
  push_heap(remove_heap(s, first, heapSize, position), first, heapSize)

\* The position of the first element that is above its parent.
is_heap_until(s, first, size) ==
  LET wrong == {p \in 1 .. size - 1 : Less(s[first + (p - 1) \div 2], s[first + p])}
  IN  IF wrong = {} THEN size ELSE CHOOSE p \in wrong : \A q \in wrong : p <= q

is_heap(s, first, size) == is_heap_until(s, first, size) = size

-----------------------------------------------------------------------------
(* priority_queue keeps a heap in a container c of its own. *)
priority_queue(x) == make_heap(x, 1, Len(x))
push(c, value) == push_heap(Append(c, value), 1, Len(c) + 1)
top(c) == c[1]
pop(c) == Front(pop_heap(c, 1, Len(c)))
change(c, n) == change_heap(c, 1, Len(c), n)
remove(c, n) == Front(remove_heap(c, 1, Len(c), n))

-----------------------------------------------------------------------------

\* The place of v in a sorted range that ends before i.
RECURSIVE Place(_, _, _, _)
Place(s, first, i, v) == IF i > first /\ Less(v, s[i - 1]) THEN Place(s, first, i - 1, v) ELSE i

insertion_sort_already_started(s, first, last, start) ==
  FoldLeft(LAMBDA x, i : Inserted(x, Place(x, first, i, x[i]), i), s, Upto(start, last - 1))

insertion_sort(s, first, last) == insertion_sort_already_started(s, first, last, first + 1)

\* Only quick_sort's elements need no check for first.  Outcome <<>> stands for a
\* read before the sequence.
insertion_sort_simple(s, first, last) ==
  FoldLeft(LAMBDA x, i :
             IF x = <<>> THEN x
             ELSE LET p == SelectLastInSubSeq(x, 1, i - 1, LAMBDA e : ~Less(x[i], e))
                  IN  IF p = 0 THEN <<>> ELSE Inserted(x, p + 1, i),
           s, Upto(first, last - 1))

RECURSIVE SpacesBelow(_, _)
SpacesBelow(h, n) == IF h >= n THEN <<>> ELSE SpacesBelow(3 * h + 1, n) \o <<h>>

\* The element at i sinks among those nSpace, 2 nSpace... before it.
RECURSIVE SinkBy(_, _, _)
SinkBy(s, nSpace, i) ==
  IF i > nSpace /\ Less(s[i], s[i - nSpace])
  THEN SinkBy(Swapped(s, i, i - nSpace), nSpace, i - nSpace) ELSE s

shell_sort(s) ==
  FoldLeft(LAMBDA x, h :
             FoldLeft(LAMBDA y, i :
                        FoldLeft(LAMBDA z, k : SinkBy(z, h, i + k * h), y, Upto(1, (Len(s) - i) \div h)),
                      x, Upto(1, h)),
           s, SpacesBelow(1, Len(s)))

heap_sort(s) == sort_heap(make_heap(s, 1, Len(s)), 1, Len(s))

-----------------------------------------------------------------------------
(* merge_sort: the range s and the buffer b; inBuffer says where the result   *)
(* of the last step is. *)

\* Mutant: of two equal elements the second range's goes first.
RECURSIVE merge_second_first(_, _)
merge_second_first(a, b) ==
  IF a = <<>> THEN b ELSE IF b = <<>> THEN a
  ELSE IF ~Less(Head(a), Head(b)) THEN <<Head(b)>> \o merge_second_first(a, Tail(b))
  ELSE <<Head(a)>> \o merge_second_first(Tail(a), b)

RECURSIVE merge(_, _)
merge(a, b) ==
  IF a = <<>> THEN b ELSE IF b = <<>> THEN a
  ELSE IF Less(Head(b), Head(a)) THEN <<Head(b)>> \o merge(a, Tail(b))
  ELSE <<Head(a)>> \o merge(Tail(a), b)

is_sorted_until(s, first, last) ==
  LET wrong == {i \in first + 1 .. last - 1 : Less(s[i], s[i - 1])}
  IN  IF wrong = {} THEN last ELSE CHOOSE i \in wrong : \A j \in wrong : i <= j

\* What is merged into the range is copied to the buffer first, if not there.
merge_halves(m, first, mid, last, leftInBuffer) ==
  LET left == SubSeq(IF leftInBuffer THEN m.b ELSE m.s, first, mid - 1)
      right == SubSeq(IF m.inBuffer THEN m.b ELSE m.s, mid, last - 1)
      merged == merge(left, right)
  IN  IF ~leftInBuffer /\ ~m.inBuffer
      THEN [m EXCEPT !.b = Written(@, first, merged), !.inBuffer = TRUE]
      ELSE [s |-> Written(m.s, first, merged), b |-> Written(m.b, first, left \o right), inBuffer |-> FALSE]

\* known elements from first on are sorted, if it is at least 1.
RECURSIVE sort_impl(_, _, _, _)
sort_impl(m, first, last, known) ==
  LET n == last - first
      mid == first + n \div 2
      sorted == IF known < 1 THEN is_sorted_until(m.s, first, last) - first ELSE known
      InRange(x) == [x EXCEPT !.inBuffer = FALSE]
      left == IF sorted < n \div 2 THEN sort_impl(m, first, mid, sorted) ELSE InRange(m)
      right == sort_impl(left, mid, last, sorted - n \div 2)
  IN  IF sorted >= n THEN InRange(m)
      ELSE IF n <= InsertionSortLimit
      THEN InRange([m EXCEPT !.s = insertion_sort_already_started(@, first, last, first + sorted)])
      ELSE merge_halves(right, first, mid, last, left.inBuffer)

\* Also merge_sort_buffer and stable_sort.
merge_sort(s) ==
  LET m == sort_impl([s |-> s, b |-> s, inBuffer |-> FALSE], 1, Len(s) + 1, 0)
  IN  IF Len(s) <= 1 THEN s ELSE IF m.inBuffer THEN m.b ELSE m.s

-----------------------------------------------------------------------------
(* Partitions by the set P of what belongs first: the sequence, and where its  *)
(* second part begins. *)
partition(s, P) ==
  LET begin == FirstAt(s, 1, Len(s) + 1, LAMBDA e : e \notin P)
      Step(x, i) == IF x.s[i] \in P THEN [s |-> Swapped(x.s, x.at, i), at |-> x.at + 1] ELSE x
  IN  FoldLeft(Step, [s |-> s, at |-> begin], Upto(begin + 1, Len(s)))

\* The elements of the second part wait in a buffer.
stable_partition(s, P) ==
  LET first == FirstAt(s, 1, Len(s) + 1, LAMBDA e : e \notin P)
      Step(x, i) == IF s[i] \in P THEN [x EXCEPT !.s[x.at] = s[i], !.at = @ + 1]
                    ELSE [x EXCEPT !.buffer = Append(@, s[i])]
      x == FoldLeft(Step, [s |-> s, at |-> first, buffer |-> <<>>], Upto(first, Len(s)))
  IN  [s |-> Written(x.s, x.at, x.buffer), at |-> x.at]

-----------------------------------------------------------------------------
(* quick_sort. *)
RECURSIVE Log2(_)
Log2(n) == IF n <= 1 THEN n - 1 ELSE 1 + Log2(n \div 2)

\* The position of the element between the other two.
median(s, a, b, c) ==
  IF Less(s[a], s[b])
  THEN IF Less(s[b], s[c]) THEN b ELSE IF Less(s[a], s[c]) THEN c ELSE a
  ELSE IF Less(s[a], s[c]) THEN a ELSE IF Less(s[b], s[c]) THEN c ELSE b

\* The pivot is a copy, or, for elements that can only be moved, wherever the
\* swaps put what is at its position.  at is 0 when a search runs out of s.
RECURSIVE get_partition(_, _, _, _)
get_partition(s, first, last, pivot) ==
  LET v == IF pivot.copied THEN pivot.value ELSE s[pivot.at]
      i == SelectInSubSeq(s, first, Len(s), LAMBDA e : ~Less(e, v))
      j == SelectLastInSubSeq(s, 1, last - 1, LAMBDA e : ~Less(v, e))
  IN  IF i = 0 \/ j = 0 THEN [s |-> <<>>, at |-> 0]
      ELSE IF i >= j THEN [s |-> s, at |-> i]
      ELSE get_partition(Swapped(s, i, j), i + 1, j, pivot)

partial_sort(s, first, middle, last) ==
  LET Step(x, i) ==
        IF Less(x[i], x[first])
        THEN adjust_heap([x EXCEPT ![i] = x[first]], first, 0, middle - first, 0, x[i]) ELSE x
  IN  sort_heap(FoldLeft(Step, make_heap(s, first, middle - first), Upto(middle, last - 1)),
                first, middle - first)

RECURSIVE nth_element(_, _, _, _)
nth_element(s, first, nth, last) ==
  LET mid == s[median(s, first, first + (last - first) \div 2, last - 1)]
      p == get_partition(s, first, last, [copied |-> TRUE, value |-> mid])
  IN  IF last - first <= NthElementLimit THEN insertion_sort(s, first, last)
      ELSE IF p.at <= nth THEN nth_element(p.s, p.at, nth, last)
      ELSE nth_element(p.s, first, nth, p.at)

\* Pieces of at most QuickSortLimit are left unsorted, and a heap sort ends the
\* recursion.
RECURSIVE quick_sort_impl(_, _, _, _, _)
quick_sort_impl(s, first, last, count, copied) ==
  LET at == median(s, first, first + (last - first) \div 2, last - 1)
      p == get_partition(s, first, last, [copied |-> copied, value |-> s[at], at |-> at])
  IN  IF s = <<>> THEN s
      ELSE IF last - first > QuickSortLimit /\ count > 0
      THEN quick_sort_impl(quick_sort_impl(p.s, p.at, last, count - 1, copied), first, p.at, count - 1, copied)
      ELSE IF count = 0 THEN partial_sort(s, first, last, last) ELSE s

\* Also sort.
quick_sort(s, copied) ==
  LET n == Len(s)
      q == quick_sort_impl(s, 1, n + 1, 2 * Log2(n), copied)
  IN  IF n = 0 THEN s
      ELSE IF n > QuickSortLimit
      THEN insertion_sort_simple(insertion_sort(q, 1, QuickSortLimit + 1), QuickSortLimit + 1, n + 1)
      ELSE insertion_sort(q, 1, n + 1)

-----------------------------------------------------------------------------
(* radix_sort: buckets of the elements with the same digit, kept in order.    *)
Digit(x, j) == (KeyOf(x) \div 2^j) % 2^DigitBits
Histogram(s, j) == [d \in 0 .. 2^DigitBits - 1 |-> Cardinality({i \in DOMAIN s : Digit(s[i], j) = d})]

\* x.size are the bucket sizes, counted for this pass while the last one moved
\* the elements, unless that was not needed, and then x.count asks for it here.
RadixPass(x, j) ==
  LET size == IF x.count THEN Histogram(x.s, j) ELSE x.size
      Before(d) == FoldSet(LAMBDA e, k : k + size[e], 0, 0 .. d - 1)
      position == [i \in DOMAIN x.s |->
                     Before(Digit(x.s[i], j)) + Cardinality({h \in 1 .. i : Digit(x.s[h], j) = Digit(x.s[i], j)})]
  IN  IF size[Digit(x.s[1], j)] = Len(x.s) THEN [x EXCEPT !.count = TRUE]
      ELSE [s |-> FoldLeft(LAMBDA t, i : [t EXCEPT ![position[i]] = x.s[i]], x.s, Upto(1, Len(x.s))),
            size |-> IF j + DigitBits >= KeyBits THEN size ELSE Histogram(x.s, j + DigitBits),
            count |-> FALSE]

\* The range must not be empty.
radix_sort(s) ==
  FoldLeft(LAMBDA x, k : RadixPass(x, k * DigitBits), [s |-> s, size |-> <<>>, count |-> TRUE],
           Upto(0, (KeyBits - 1) \div DigitBits)).s

-----------------------------------------------------------------------------
(* tim_sort (include/EASTL/sort.h): ascending runs are found or made, kept on *)
(* a stack, and merged so that their lengths stay balanced.  t has the range  *)
(* s, run_stack, records of start and length, curr, where the next run        *)
(* begins, and buffer, the most elements that were in pBuffer at a time.      *)
reverse_elements(s, first, last) == Written(s, first, Reverse(SubSeq(s, first, last)))

\* A run never takes in the last element of the range, unless it begins there
\* or just before.  The length, and the sequence with a descending run reversed.
tim_sort_count_run(s, start) ==
  LET size == Len(s)
      falls == Less(s[start + 1], s[start])
      end == FirstAt([i \in DOMAIN s |-> i], start + 2, size, LAMBDA i : Less(s[i], s[i - 1]) # falls)
      curr == IF start + 2 > size THEN start + 2 ELSE end
  IN  IF start >= size THEN [s |-> s, len |-> 1]
      ELSE [s |-> IF falls THEN reverse_elements(s, start, curr - 1) ELSE s, len |-> curr - start]

RECURSIVE BitLength(_)
BitLength(n) == IF n = 0 THEN 0 ELSE 1 + BitLength(n \div 2)

\* The topmost bits of size, and one more if others are set.
timsort_compute_minrun(size) ==
  LET shift == IF BitLength(size) > RunBits THEN BitLength(size) - RunBits ELSE 0
  IN  size \div 2^shift + IF size % 2^shift # 0 THEN 1 ELSE 0

RECURSIVE MergeBack(_, _)
MergeBack(a, b) ==
  IF a = <<>> THEN b ELSE IF b = <<>> THEN a
  ELSE IF Less(Last(b), Last(a)) THEN Append(MergeBack(Front(a), b), Last(a))
  ELSE Append(MergeBack(a, Front(b)), Last(b))

\* Merges the runs k and k + 1 of the stack: the shorter is copied to the
\* buffer, and the merge begins at its end of the range.
tim_sort_merge(t, k) ==
  LET A == t.run_stack[k].length
      B == t.run_stack[k + 1].length
      curr == t.run_stack[k].start
      a == SubSeq(t.s, curr, curr + A - 1)
      b == SubSeq(t.s, curr + A, curr + A + B - 1)
      need == IF A < B THEN A ELSE B
  IN  [t EXCEPT !.s = Written(@, curr, IF A < B THEN merge(a, b) ELSE MergeBack(a, b)),
                !.buffer = IF need > @ THEN need ELSE @,
                !.run_stack = RemoveAt([@ EXCEPT ![k].length = A + B], k + 1)]

\* Whether the runs at the right must be merged.
timsort_check_invariant(t) ==
  LET n == Len(t.run_stack)
      Length(k) == t.run_stack[k].length
  IN  \/ n > 2 /\ (Length(n - 2) <= Length(n - 1) + Length(n) \/ Length(n - 1) <= Length(n))
      \/ n = 2 /\ Length(1) <= Length(2)

RECURSIVE tim_sort_collapse(_)
tim_sort_collapse(t) ==
  LET n == Len(t.run_stack)
      Length(k) == t.run_stack[k].length
  IN  IF n <= 1 THEN t
      ELSE IF n = 2
      THEN IF Length(1) + Length(2) = Len(t.s) \/ Length(1) <= Length(2) THEN tim_sort_merge(t, 1) ELSE t
      ELSE IF Length(n - 2) <= Length(n - 1) + Length(n)
      THEN tim_sort_collapse(tim_sort_merge(t, IF Length(n - 2) < Length(n) THEN n - 2 ELSE n - 1))
      ELSE IF Length(n - 1) <= Length(n) THEN tim_sort_collapse(tim_sort_merge(t, n - 1))
      ELSE t

RECURSIVE MergeAll(_)
MergeAll(t) == IF Len(t.run_stack) > 1 THEN MergeAll(tim_sort_merge(t, Len(t.run_stack) - 1)) ELSE t

\* A run shorter than minrun is made longer by an insertion sort.
tim_sort_add_run(t, minrun) ==
  LET left == Len(t.s) + 1 - t.curr
      found == tim_sort_count_run(t.s, t.curr)
      run == IF minrun > left THEN left ELSE minrun
      len == IF run > found.len THEN run ELSE found.len
      s == IF run > found.len
           THEN insertion_sort_already_started(found.s, t.curr, t.curr + run, t.curr + found.len)
           ELSE found.s
      x == [t EXCEPT !.s = s, !.curr = @ + len,
                     !.run_stack = Append(@, [start |-> t.curr, length |-> len])]
  IN  IF x.curr > Len(s) THEN MergeAll(x) ELSE x

RECURSIVE AddRuns(_, _, _)
AddRuns(t, minrun, k) ==
  IF t.curr > Len(t.s) THEN t
  ELSE IF k > 0 THEN AddRuns(tim_sort_add_run(t, minrun), minrun, k - 1)
  ELSE IF timsort_check_invariant(t) THEN AddRuns(tim_sort_collapse(t), minrun, 0)
  ELSE AddRuns(tim_sort_add_run(t, minrun), minrun, 0)

\* The first three runs are added without a look at the lengths.
tim_sort(s) ==
  LET t == [s |-> s, run_stack |-> <<>>, curr |-> 1, buffer |-> 0]
  IN  IF s = <<>> THEN t
      ELSE IF Len(s) < 2^RunBits
      THEN [t EXCEPT !.s = insertion_sort_already_started(s, 1, Len(s) + 1, 2)]
      ELSE AddRuns(t, timsort_compute_minrun(Len(s)), 3)
=============================================================================
