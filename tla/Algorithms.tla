----------------------------- MODULE Algorithms -----------------------------
(* The algorithms of include/EASTL/algorithm.h that walk a range, or two, in   *)
(* more than one way at a time, the simple sorts, and numeric.h.  A range is a sequence;  *)
(* positions count from 1, and last is one more than the length.  The          *)
(* overloads with a comparison or a predicate are the same walk as those       *)
(* without, unless one is named.                                               *)
EXTENDS Integers, FiniteSets, Sequences, SequencesExt

CONSTANT KeyOf(_)   \* what the comparison sees of an element

Less(a, b) == KeyOf(a) < KeyOf(b)

Upto(i, j) == [k \in 1 .. j - i + 1 |-> i + k - 1]
Downto(i, j) == [k \in 1 .. i - j + 1 |-> i - k + 1]

Swapped(s, i, j) == [s EXCEPT ![i] = s[j], ![j] = s[i]]

\* t over the positions of s from first on.
Written(s, first, t) == SubSeq(s, 1, first - 1) \o t \o SubSeq(s, first + Len(t), Len(s))

\* The element at i goes to position at, and those from there on move up by one.
Inserted(s, at, i) ==
  SubSeq(s, 1, at - 1) \o <<s[i]>> \o SubSeq(s, at, i - 1) \o SubSeq(s, i + 1, Len(s))

\* The first position of a range whose element passes a test, or last.
FirstAt(s, first, last, Test(_)) ==
  LET i == SelectInSubSeq(s, first, last - 1, Test) IN IF i = 0 THEN last ELSE i

Same(a, b) == KeyOf(a) = KeyOf(b)
IsOneOf(x, b) == \E i \in DOMAIN b : Same(x, b[i])
Find(s, first, v) == FirstAt(s, first, Len(s) + 1, LAMBDA x : Same(x, v))

-----------------------------------------------------------------------------
(* The least, the greatest, and where two ranges differ. *)
min_element(s) == FoldLeft(LAMBDA m, i : IF Less(s[i], s[m]) THEN i ELSE m, 1, Upto(2, Len(s)))
max_element(s) == FoldLeft(LAMBDA m, i : IF Less(s[m], s[i]) THEN i ELSE m, 1, Upto(2, Len(s)))

\* Two elements at a time, with three comparisons: the first of the least, the
\* last of the greatest.
minmax_element(s) ==
  LET Low(m, i) == IF Less(s[i], s[m.low]) THEN [m EXCEPT !.low = i] ELSE m
      High(m, i) == IF ~Less(s[i], s[m.high]) THEN [m EXCEPT !.high = i] ELSE m
      Step(m, k) ==
        LET i == 2 * k + 1
        IN  IF i = Len(s) THEN IF Less(s[i], s[m.low]) THEN Low(m, i) ELSE High(m, i)
            ELSE IF Less(s[i + 1], s[i]) THEN High(Low(m, i + 1), i) ELSE High(Low(m, i), i + 1)
      start == IF Len(s) < 2 THEN [low |-> 1, high |-> 1]
               ELSE IF Less(s[2], s[1]) THEN [low |-> 2, high |-> 1] ELSE [low |-> 1, high |-> 2]
  IN  FoldLeft(Step, start, Upto(1, (Len(s) - 1) \div 2))

\* The first position where a and b differ.
mismatch(a, b) == FirstAt(Upto(1, Len(a)), 1, Len(a) + 1, LAMBDA i : ~Same(a[i], b[i]))

RECURSIVE lexicographical_compare(_, _)
lexicographical_compare(a, b) ==
  IF a = <<>> \/ b = <<>> THEN a = <<>> /\ b # <<>>
  ELSE \/ Less(Head(a), Head(b))
       \/ ~Less(Head(b), Head(a)) /\ lexicographical_compare(Tail(a), Tail(b))

\* Of characters, which are compared as memory, but not if there are none.
lexicographical_compare_char(a, b) ==
  LET n == IF Len(a) < Len(b) THEN Len(a) ELSE Len(b)
      i == FirstAt(Upto(1, n), 1, n + 1, LAMBDA k : ~Same(a[k], b[k]))
  IN  n # 0 /\ IF i <= n THEN Less(a[i], b[i]) ELSE Len(a) < Len(b)

\* 1 for greater, 0 for equal and -1 for less.
RECURSIVE lexicographical_compare_three_way(_, _)
lexicographical_compare_three_way(a, b) ==
  IF a = <<>> \/ b = <<>> THEN IF a # <<>> THEN 1 ELSE IF b # <<>> THEN -1 ELSE 0
  ELSE IF Less(Head(a), Head(b)) THEN -1
  ELSE IF Less(Head(b), Head(a)) THEN 1
  ELSE lexicographical_compare_three_way(Tail(a), Tail(b))

identical(a, b) ==
  LET i == FirstAt(Upto(1, Len(a)), 1, Len(a) + 1, LAMBDA k : k > Len(b) \/ ~Same(a[k], b[k]))
  IN  i > Len(a) /\ i > Len(b)

\* The second range has as many elements, or more.
equal(a, b) == FirstAt(Upto(1, Len(a)), 1, Len(a) + 1, LAMBDA k : ~Same(a[k], b[k])) > Len(a)

count_if(s, P) == FoldLeft(LAMBDA n, x : IF x \in P THEN n + 1 ELSE n, 0, s)

-----------------------------------------------------------------------------
(* Binary searches in [first, first + n): P has the elements that pass the test. *)
RECURSIVE partition_point(_, _, _, _)
partition_point(s, first, n, P) ==
  LET half == n \div 2
  IN  IF n = 0 THEN first
      ELSE IF s[first + half] \in P THEN partition_point(s, first + half + 1, n - (half + 1), P)
      ELSE partition_point(s, first, half, P)

\* The first test that fails ends the one part, the next that passes the whole.
is_partitioned(s, P) ==
  LET end == FirstAt(s, 1, Len(s) + 1, LAMBDA x : x \notin P)
  IN  FirstAt(s, end, Len(s) + 1, LAMBDA x : x \in P) > Len(s)

\* The loop is the same, with a test of its own.
lower_bound(s, first, n, v) == partition_point(s, first, n, {x \in Range(s) : Less(x, v)})
upper_bound(s, first, n, v) == partition_point(s, first, n, {x \in Range(s) : ~Less(v, x)})

RECURSIVE equal_range(_, _, _, _)
equal_range(s, first, n, v) ==
  LET i == first + n \div 2
  IN  IF n = 0 THEN <<first, first>>
      ELSE IF Less(s[i], v) THEN equal_range(s, i + 1, n - (n \div 2 + 1), v)
      ELSE IF Less(v, s[i]) THEN equal_range(s, first, n \div 2, v)
      ELSE <<lower_bound(s, first, i - first, v), upper_bound(s, i + 1, first + n - (i + 1), v)>>

binary_search_i(s, v) ==
  LET i == lower_bound(s, 1, Len(s), v)
  IN  IF i <= Len(s) /\ ~Less(v, s[i]) THEN i ELSE Len(s) + 1

-----------------------------------------------------------------------------
(* Elements are moved to the front of the range: the sequence and its new end. *)
Keep(x, e) == [s |-> [x.s EXCEPT ![x.end] = e], end |-> x.end + 1]

remove_if(s, P) ==
  LET first == FirstAt(s, 1, Len(s) + 1, LAMBDA x : x \in P)
      Step(x, i) == IF x.s[i] \in P THEN x ELSE Keep(x, x.s[i])
  IN  FoldLeft(Step, [s |-> s, end |-> first], Upto(first + 1, Len(s)))

copy_if(s, P) == SelectSeq(s, LAMBDA x : x \in P)
remove_copy_if(s, P) == SelectSeq(s, LAMBDA x : x \notin P)

\* Each element that goes is given to a function before others come in its place.
apply_and_remove_if(s, P) ==
  LET first == FirstAt(s, 1, Len(s) + 1, LAMBDA x : x \in P)
      Step(x, i) ==
        IF x.s[i] \in P THEN [x EXCEPT !.applied = Append(@, x.s[i])]
        ELSE [x EXCEPT !.s = [@ EXCEPT ![x.end] = x.s[i]], !.end = @ + 1]
  IN  IF first > Len(s) THEN [s |-> s, end |-> first, applied |-> <<>>]
      ELSE FoldLeft(Step, [s |-> s, end |-> first, applied |-> <<s[first]>>], Upto(first + 1, Len(s)))

replace_if(s, P, v) == FoldLeft(LAMBDA x, i : IF x[i] \in P THEN [x EXCEPT ![i] = v] ELSE x, s, Upto(1, Len(s)))

adjacent_find(s) ==
  LET i == FirstAt(Upto(1, Len(s)), 1, Len(s), LAMBDA i : Same(s[i], s[i + 1]))
  IN  IF i >= Len(s) THEN Len(s) + 1 ELSE i

\* Each element is compared with the last one kept.
unique(s) ==
  LET first == adjacent_find(s)
      Step(x, i) == IF Same(x.s[x.end - 1], x.s[i]) THEN x ELSE Keep(x, x.s[i])
  IN  IF first > Len(s) THEN [s |-> s, end |-> first]
      ELSE FoldLeft(Step, [s |-> s, end |-> first + 1], Upto(first + 1, Len(s)))

RECURSIVE reverse(_, _, _)
reverse(s, first, last) ==
  IF first < last - 1 THEN reverse(Swapped(s, first, last - 1), first + 1, last - 1) ELSE s

-----------------------------------------------------------------------------
(* Searches. *)
find_first_of(a, b) == FirstAt(a, 1, Len(a) + 1, LAMBDA x : IsOneOf(x, b))
find_first_not_of(a, b) == FirstAt(a, 1, Len(a) + 1, LAMBDA x : Find(b, 1, x) > Len(b))

\* The walk down stops at the first element without a test, which comes after it.
find_last(a, b, P) ==
  LET i == SelectLastInSubSeq(a, 2, Len(a), LAMBDA x : x \in P)
  IN  IF a = <<>> \/ b = <<>> THEN Len(a) + 1
      ELSE IF i # 0 THEN i ELSE IF a[1] \in P THEN 1 ELSE Len(a) + 1

find_last_of(a, b) == find_last(a, b, {x \in Range(a) : Find(b, 1, x) <= Len(b)})
find_last_not_of(a, b) == find_last(a, b, {x \in Range(a) : Find(b, 1, x) > Len(b)})

\* Mutant: after a mismatch the search goes on behind it.
RECURSIVE search_skipping(_, _, _)
search_skipping(a, first, b) ==
  LET i == Find(a, first, b[1])
      k == FirstAt(Upto(1, Len(b)), 2, Len(b) + 1, LAMBDA j : i + j - 1 > Len(a) \/ ~Same(a[i + j - 1], b[j]))
  IN  IF b = <<>> THEN first
      ELSE IF Len(b) = 1 \/ i > Len(a) THEN i
      ELSE IF k > Len(b) THEN i
      ELSE IF i + k - 1 > Len(a) THEN Len(a) + 1
      ELSE search_skipping(a, i + k - 1, b)

\* From first on: the first element of b is looked for, and the others behind it.
RECURSIVE search(_, _, _)
search(a, first, b) ==
  LET i == Find(a, first, b[1])
      k == FirstAt(Upto(1, Len(b)), 2, Len(b) + 1, LAMBDA j : i + j - 1 > Len(a) \/ ~Same(a[i + j - 1], b[j]))
  IN  IF b = <<>> THEN first
      ELSE IF Len(b) = 1 \/ i > Len(a) THEN i
      ELSE IF k > Len(b) THEN i
      ELSE IF i + k - 1 > Len(a) THEN Len(a) + 1
      ELSE search(a, i + 1, b)

\* The overload with a predicate compares the whole at each place, while what is
\* left of a is long enough.
RECURSIVE SearchWhole(_, _, _)
SearchWhole(a, first, b) ==
  IF Len(a) - first + 1 < Len(b) THEN Len(a) + 1
  ELSE IF equal(b, SubSeq(a, first, Len(a))) THEN first
  ELSE SearchWhole(a, first + 1, b)

search_if(a, b) == IF b = <<>> THEN 1 ELSE SearchWhole(a, 1, b)

RECURSIVE FindEndFrom(_, _, _, _)
FindEndFrom(a, first, b, result) ==
  LET next == search(a, first, b)
  IN  IF next <= Len(a) THEN FindEndFrom(a, next + 1, b, next) ELSE result

\* For forward, and for bidirectional iterators, which search the reversed ranges.
find_end_forward(a, b) == IF b = <<>> THEN Len(a) + 1 ELSE FindEndFrom(a, 1, b, Len(a) + 1)
find_end(a, b) ==
  LET base == Len(a) + 2 - search(Reverse(a), 1, Reverse(b))
  IN  IF base # 1 THEN base - Len(b) ELSE Len(a) + 1

\* After a mismatch, from behind it.
RECURSIVE search_n_forward(_, _, _, _)
search_n_forward(s, first, count, v) ==
  LET i == FirstAt(s, first, first + count, LAMBDA x : ~Same(x, v))
  IN  IF count <= 0 THEN first
      ELSE IF first + count > Len(s) + 1 THEN Len(s) + 1
      ELSE IF i = first + count THEN first
      ELSE search_n_forward(s, i + 1, count, v)

\* For random access iterators, in the first size elements of s; what follows
\* them is what lies behind last.  lookAhead is the last place of a candidate;
\* tailSize is taken to be the number of elements behind it.
RECURSIVE SearchAhead(_, _, _, _, _)
SearchAhead(s, size, count, v, at) ==
  LET skip == count - 1
      tail == at.tailSize - count
      Is(i) == i <= Len(s) /\ Same(s[i], v)
      Run(d, most) ==   \* the matches next to lookAhead, in the direction d
        CHOOSE k \in 0 .. most : (k = most \/ ~Is(at.lookAhead + d * (k + 1)))
                                  /\ \A j \in 1 .. k : Is(at.lookAhead + d * j)
      back == Run(-1, skip)
      remainder == skip - back
      ahead == Run(1, remainder)
  IN  IF at.tailSize < count THEN size + 1
      ELSE IF ~Is(at.lookAhead)
      THEN SearchAhead(s, size, count, v, [lookAhead |-> at.lookAhead + count, tailSize |-> tail])
      ELSE IF back = skip THEN at.lookAhead - skip
      ELSE IF remainder > tail THEN size + 1
      ELSE IF ahead = remainder THEN at.lookAhead - back
      ELSE SearchAhead(s, size, count, v,
                       [lookAhead |-> at.lookAhead + ahead + 1 + count, tailSize |-> tail - ahead])

search_n(s, size, count, v) ==
  IF count <= 0 THEN 1
  ELSE IF count = 1 THEN FirstAt(s, 1, size + 1, LAMBDA x : Same(x, v))
  ELSE SearchAhead(s, size, count, v, [lookAhead |-> count, tailSize |-> size])

-----------------------------------------------------------------------------
(* Two sorted ranges.  While neither has come to its end, the walk along both   *)
(* takes the lesser of their next elements, or both if they are equal, and     *)
(* then what is left of either.  Each function copies only some of them: those *)
(* in the first, in the second or in both. *)
RECURSIVE Walk(_, _, _)
Walk(a, b, copied) ==
  LET Copy(from, t) == IF from \in copied THEN t ELSE <<>>
  IN  IF a = <<>> \/ b = <<>> THEN Copy("first", a) \o Copy("second", b)
      ELSE IF Less(Head(a), Head(b)) THEN Copy("first", <<Head(a)>>) \o Walk(Tail(a), b, copied)
      ELSE IF Less(Head(b), Head(a)) THEN Copy("second", <<Head(b)>>) \o Walk(a, Tail(b), copied)
      ELSE Copy("both", <<Head(a)>>) \o Walk(Tail(a), Tail(b), copied)

set_difference(a, b) == Walk(a, b, {"first"})
set_symmetric_difference(a, b) == Walk(a, b, {"first", "second"})
set_intersection(a, b) == Walk(a, b, {"both"})
set_union(a, b) == Walk(a, b, {"first", "second", "both"})

\* In one walk; also set_difference_2, for the first two.
set_decomposition(a, b) == <<Walk(a, b, {"first"}), Walk(a, b, {"second"}), Walk(a, b, {"both"})>>

RECURSIVE includes(_, _)
includes(a, b) ==
  \/ b = <<>>
  \/ /\ a # <<>> /\ ~Less(Head(b), Head(a))
     /\ includes(Tail(a), IF Less(Head(a), Head(b)) THEN b ELSE Tail(b))

-----------------------------------------------------------------------------
(* Permutations and rotations. *)

\* The element at i changes places with the one at chosen[i], one of the first i.
\* random_shuffle draws alike.
shuffle(s, chosen) == FoldLeft(LAMBDA x, i : Swapped(x, i, chosen[i]), s, Upto(2, Len(s)))

\* What the ranges begin with alike is left out; each element is counted where
\* it comes first.
is_permutation(a, b) ==
  LET first == mismatch(a, b)
      Count(s, from, v) == Cardinality({j \in from .. Len(a) : Same(s[j], v)})
  IN  \A i \in first .. Len(a) :
        (\A j \in first .. i - 1 : ~Same(a[j], a[i]))
          => Count(b, first, a[i]) # 0 /\ Count(b, first, a[i]) = Count(a, i, a[i])

\* The sequence, and whether it was not the last one in the order.
next_permutation(s) ==
  LET i == SelectLastInSubSeq(Upto(1, Len(s)), 1, Len(s) - 1, LAMBDA k : Less(s[k], s[k + 1]))
      j == SelectLastInSubSeq(s, 1, Len(s), LAMBDA x : Less(s[i], x))
  IN  IF Len(s) <= 1 THEN [s |-> s, more |-> FALSE]
      ELSE IF i = 0 THEN [s |-> reverse(s, 1, Len(s) + 1), more |-> FALSE]
      ELSE [s |-> reverse(Swapped(s, i, j), i + 1, Len(s) + 1), more |-> TRUE]

\* The sequence and the iterator returned.  x.result is 0 until current has
\* reached last once.
RECURSIVE RotateFrom(_, _, _, _, _)
RotateFrom(s, first, middle, current, result) ==
  LET t == Swapped(s, first, current)
      last == Len(s) + 1
      m == IF first + 1 = middle THEN current + 1 ELSE middle
      done == IF result = 0 /\ current + 1 = last THEN first + 1 ELSE result
      c == IF current + 1 = last /\ (result = 0 \/ first + 1 # middle) THEN m ELSE current + 1
  IN  IF done # 0 /\ c = last THEN [s |-> t, at |-> done]
      ELSE RotateFrom(t, first + 1, m, c, done)

rotate_general_impl(s, middle) == RotateFrom(s, 1, middle, middle, 0)

move_rotate_left_by_one(s) == [s |-> Append(Tail(s), s[1]), at |-> Len(s)]
move_rotate_right_by_one(s) == [s |-> <<Last(s)>> \o Front(s), at |-> 2]

RECURSIVE greatest_common_divisor(_, _)
greatest_common_divisor(x, y) == IF x % y = 0 THEN y ELSE greatest_common_divisor(y, x % y)

\* An element's place takes the one m1 further on, round and round.
RECURSIVE Juggle(_, _, _, _, _)
Juggle(s, p1, p2, p, m1) ==
  LET d == Len(s) + 1 - p2
      t == [s EXCEPT ![p1] = s[p2]]
      next == IF m1 < d THEN p2 + m1 ELSE 1 + (m1 - d)
  IN  IF next = p THEN [s |-> t, at |-> p2] ELSE Juggle(t, p2, next, p, m1)

rotate_juggling(s, middle) ==
  LET m1 == middle - 1
      m2 == Len(s) + 1 - middle
      Cycle(x, p) == LET y == Juggle(x, p, p + m1, p, m1) IN [y.s EXCEPT ![y.at] = x[p]]
  IN  [s |-> FoldLeft(Cycle, s, Downto(greatest_common_divisor(m1, m2), 1)), at |-> 1 + m2]

\* For each category of iterators, and for elements that are copied as memory.
rotate_impl(s, middle, category, trivial) ==
  IF trivial /\ middle = 2 THEN move_rotate_left_by_one(s)
  ELSE IF trivial /\ category # "forward" /\ middle = Len(s) THEN move_rotate_right_by_one(s)
  ELSE IF category = "random_access" /\ ~(trivial /\ Len(s) < 32) THEN rotate_juggling(s, middle)
  ELSE rotate_general_impl(s, middle)

rotate(s, middle, category, trivial) ==
  IF middle = 1 THEN [s |-> s, at |-> Len(s) + 1]
  ELSE IF middle = Len(s) + 1 THEN [s |-> s, at |-> 1]
  ELSE rotate_impl(s, middle, category, trivial)

-----------------------------------------------------------------------------
(* The sorts for small ranges and for forward iterators (include/EASTL/sort.h, *)
(* bonus/sort_extra.h). *)

\* A pass over the pairs of neighbours at the distance d in [first, last].
\* x.swapped is the position of the last exchange, or 0.
SwapPass(s, first, last, d) ==
  LET Step(x, i) ==
        IF Less(x.s[i + d], x.s[i]) THEN [s |-> Swapped(x.s, i, i + d), swapped |-> i] ELSE x
  IN  FoldLeft(Step, [s |-> s, swapped |-> 0], Upto(first, last - d))

RECURSIVE CombPasses(_, _, _)
CombPasses(s, nSpace, swapped) ==
  LET h == (nSpace * 10 + 3) \div 13
      d == IF h \in {9, 10} THEN 11 ELSE h
      x == SwapPass(s, 1, Len(s), d)
  IN  IF nSpace > 1 \/ swapped THEN CombPasses(x.s, d, x.swapped # 0) ELSE s

comb_sort(s) == CombPasses(s, Len(s), FALSE)

\* For forward iterators.
bubble_sort_forward(s) == FoldLeft(LAMBDA x, last : SwapPass(x, 1, last, 1).s, s, Downto(Len(s), 1))

\* Nothing behind the last exchange needs another pass.
RECURSIVE bubble_sort(_, _)
bubble_sort(s, last) ==
  LET x == SwapPass(s, 1, last, 1)
  IN  IF last <= 1 THEN s ELSE bubble_sort(x.s, IF x.swapped = 0 THEN 1 ELSE x.swapped)

selection_sort(s) ==
  LET Least(x, i) ==
        FoldLeft(LAMBDA m, k : IF Less(x[k], x[m]) THEN k ELSE m, i, Upto(i + 1, Len(x)))
  IN  FoldLeft(LAMBDA x, i : Swapped(x, i, Least(x, i)), s, Upto(1, Len(s)))

\* Passes up and down; what lies outside the last exchanges is in its place.
RECURSIVE shaker_sort(_, _, _)
shaker_sort(s, first, last) ==
  LET up == SwapPass(s, first, last, 1)
      top == IF up.swapped = 0 THEN first ELSE up.swapped
      Step(x, i) ==
        IF Less(x.s[i], x.s[i - 1]) THEN [s |-> Swapped(x.s, i - 1, i), swapped |-> i] ELSE x
      down == FoldLeft(Step, [s |-> up.s, swapped |-> top], Downto(top, first + 1))
  IN  IF first >= last THEN s
      ELSE IF top = first THEN up.s
      ELSE shaker_sort(down.s, down.swapped, top)

\* The buckets are one after the other; the hash is the key.
bucket_sort(s, buckets) ==
  FoldLeft(LAMBDA x, b : x \o SelectSeq(s, LAMBDA e : KeyOf(e) = b), <<>>, Upto(0, buckets - 1))

-----------------------------------------------------------------------------
(* Numbers (include/EASTL/numeric.h), and align (memory.h).  The ranges are    *)
(* overwritten by their results, which the functions allow. *)
accumulate(s, init) == FoldLeft(LAMBDA sum, x : sum + x, init, s)
inner_product(a, b, init) == FoldLeft(LAMBDA sum, i : sum + a[i] * b[i], init, Upto(1, Len(a)))
iota(n, value) ==
  FoldLeft(LAMBDA x, i : [s |-> Append(x.s, x.value), value |-> x.value + 1],
           [s |-> <<>>, value |-> value], Upto(1, n)).s

partial_sum(s) ==
  LET Step(x, i) == LET v == x.value + x.s[i] IN [s |-> [x.s EXCEPT ![i] = v], value |-> v]
  IN  IF s = <<>> THEN s ELSE FoldLeft(Step, [s |-> s, value |-> s[1]], Upto(2, Len(s))).s

adjacent_difference(s) ==
  LET Step(x, i) == [s |-> [x.s EXCEPT ![i] = @ - x.value], value |-> x.s[i]]
  IN  IF s = <<>> THEN s ELSE FoldLeft(Step, [s |-> s, value |-> s[1]], Upto(2, Len(s))).s

\* Integers of so many bits.  The difference is one of unsigned integers, also of
\* two of different sign, and half of it is either way of the first.
midpoint(lhs, rhs, bits, signed) ==
  LET Wrapped(x) == x % (2 ^ bits)
      half == IF lhs > rhs THEN Wrapped(Wrapped(lhs) - Wrapped(rhs)) \div 2
              ELSE Wrapped(Wrapped(rhs) - Wrapped(lhs)) \div 2
      sum == lhs + (IF lhs > rhs THEN -1 ELSE 1) * half
  IN  IF signed THEN sum ELSE Wrapped(sum)

\* The sizes, and the address, have so many bits; -1 is a null pointer.
align(alignment, size, ptr, space, bits) ==
  LET past == (ptr + (alignment - 1)) % (2 ^ bits)
      aligned == past - (past % alignment)
      offset == (aligned - ptr) % (2 ^ bits)
  IN  IF space >= size /\ (space - size) % (2 ^ bits) >= offset
      THEN [result |-> aligned, ptr |-> aligned, space |-> space - offset]
      ELSE [result |-> -1, ptr |-> ptr, space |-> space]

\* What it returns, and what it stores for the next call.
align_advance(alignment, size, ptr, space, bits) ==
  LET a == align(alignment, size, ptr, space, bits)
  IN  IF a.result = -1 THEN a ELSE [a EXCEPT !.ptr = @ + size, !.space = @ - size]
=============================================================================
