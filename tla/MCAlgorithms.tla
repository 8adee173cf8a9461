---------------------------- MODULE MCAlgorithms ----------------------------
(* The algorithms on every short sequence.  A behaviour makes a sequence one   *)
(* element at a time, and each state is an input: the properties compare what *)
(* the code computes from it with what that should be.                        *)
EXTENDS Algorithms

CONSTANTS MaxLength, Keys   \* bounds: on the sequence and on its keys

VARIABLE input

\* An element is its key and, behind it, its place in the input.
Key(x) == x \div 10
Size == Len(input)
End == Size + 1

Init == input = <<>>
Next == Size < MaxLength /\ \E k \in Keys : input' = Append(input, 10 * k + Size + 1)
Spec == Init /\ [][Next]_input

\* The limits are low, so that the short sequences pass them.
Sorts == INSTANCE Sorting WITH
  InsertionSortLimit <- 2, QuickSortLimit <- 2, NthElementLimit <- 2, KeyBits <- 2, DigitBits <- 1, RunBits <- 1
Twos == INSTANCE Bitset WITH kBitsPerWord <- 2, SizeBits <- 5
Fours == INSTANCE Bitset WITH kBitsPerWord <- 4, SizeBits <- 5

\* Characters: 1 is the upper case of 2.  A size has four bits.
Lower(x) == IF Key(x) = 1 THEN x + 10 ELSE x
Texts == INSTANCE StringSearch WITH SizeBits <- 4, tolower <- Lower

-----------------------------------------------------------------------------
(* What the results should be. *)
First(S, none) == IF S = {} THEN none ELSE CHOOSE i \in S : \A j \in S : i <= j
Final(S, none) == IF S = {} THEN none ELSE CHOOSE i \in S : \A j \in S : i >= j

InOrder(s) == \A i \in 1 .. Len(s) - 1 : ~Less(s[i + 1], s[i])
Permutes(t) == Len(t) = Size /\ ToSet(t) = ToSet(input)
StablySorted == SortSeq(input, LAMBDA a, b : a < b)
SortedByKey(t) == Permutes(t) /\ InOrder(t)
Amount(s, k) == Cardinality({i \in DOMAIN s : KeyOf(s[i]) = k})
Subsequence(t, s) == \A i \in DOMAIN t : t[i] \in ToSet(s) /\ (i > 1 => t[i - 1] < t[i])

\* What holds of every way to cut the input in two.
OfTwo(P(_, _)) == \A k \in 0 .. Size : P(SubSeq(input, 1, k), SubSeq(input, k + 1, Size))

-----------------------------------------------------------------------------
SelectsNth(k) ==
  LET t == Sorts!nth_element(input, 1, k, End)
  IN  Permutes(t) /\ \A i \in 1 .. Size : ~(i < k /\ Less(t[k], t[i])) /\ ~(i > k /\ Less(t[i], t[k]))

SortsFirst(k) ==
  LET t == Sorts!partial_sort(input, 1, k + 1, End)
  IN  Permutes(t) /\ \A i \in 1 .. k : Same(t[i], StablySorted[i])

Partitions(k) ==
  LET Low == {x \in Range(input) : KeyOf(x) < k}
      low == SelectSeq(input, LAMBDA x : x \in Low)
      p == Sorts!partition(input, Low)
  IN  /\ Permutes(p.s) /\ p.at = Len(low) + 1 /\ is_partitioned(p.s, Low)
      /\ is_partitioned(input, Low) = (Sorts!partition(input, Low).s = input)
      /\ \A i \in DOMAIN p.s : p.s[i] \in Low <=> i < p.at
      /\ Sorts!stable_partition(input, Low) =
           [s |-> low \o SelectSeq(input, LAMBDA x : x \notin Low), at |-> Len(low) + 1]

\* Every sort of EASTL sorts every sequence, and those that are said to be stable
\* leave equal elements as they were; the unchecked insertion sort that ends a
\* quick_sort never reads before the range (sort.h:827-870, 1061-1100), also
\* when the pivot is a reference into a range whose elements move
\* (sort.h:783-818); tim_sort never needs more than half of the range as its
\* buffer (sort.h:1525-1531).
SortsRight ==
  /\ StablySorted = Sorts!insertion_sort(input, 1, End)
  /\ StablySorted = Sorts!merge_sort(input)
  /\ StablySorted = bubble_sort(input, Size)
  /\ StablySorted = bubble_sort_forward(input)
  /\ StablySorted = shaker_sort(input, 1, Size)
  /\ StablySorted = bucket_sort(input, Cardinality(Keys))
  /\ Size > 0 => StablySorted = Sorts!radix_sort(input)
  /\ LET t == Sorts!tim_sort(input) IN t.s = StablySorted /\ 2 * t.buffer <= Size
  /\ SortedByKey(Sorts!shell_sort(input))
  /\ SortedByKey(Sorts!heap_sort(input))
  /\ \A copied \in BOOLEAN : SortedByKey(Sorts!quick_sort(input, copied))
  /\ SortedByKey(comb_sort(input))
  /\ SortedByKey(selection_sort(input))
  /\ \A k \in 1 .. Size : SelectsNth(k)
  /\ \A k \in 0 .. Size : SortsFirst(k)
  /\ \A k \in Keys : Partitions(k)

\* The elements of a queue in the order in which they come out of it.
RECURSIVE Popped(_)
Popped(c) == IF c = <<>> THEN <<>> ELSE <<Sorts!top(c)>> \o Popped(Sorts!pop(c))

\* The greatest comes first, and each element once, whatever was put into the
\* queue one by one, and also when one of them was changed or removed.
Queues(c) ==
  LET out == Popped(c) IN Len(out) = Len(c) /\ ToSet(out) = ToSet(c) /\ InOrder(Reverse(out))

\* A heap is one again after each of its elements was removed, or was given any
\* other key: the element that fills the gap may belong above it (heap.h:500-579,
\* priority_queue.h:325-435).
HeapsRight ==
  LET h == Sorts!priority_queue(input)
      pushed == FoldLeft(LAMBDA c, x : Sorts!push(c, x), <<>>, input)
  IN
  /\ Permutes(h) /\ Sorts!is_heap(h, 1, Size)
  /\ Permutes(pushed) /\ Sorts!is_heap(pushed, 1, Size) /\ Queues(h) /\ Queues(pushed)
  /\ \A p \in 0 .. Size - 1 :
       LET r == Sorts!remove(h, p)
       IN  /\ ToSet(r) = ToSet(input) \ {h[p + 1]} /\ Sorts!is_heap(r, 1, Size - 1)
           /\ \A k \in Keys :
                LET g == [h EXCEPT ![p + 1] = 10 * k]
                    c == Sorts!change(g, p)
                IN  Sorts!is_heap(c, 1, Size) /\ ToSet(c) = ToSet(g)

-----------------------------------------------------------------------------
Extremes ==
  LET most == {i \in 1 .. Size : \A j \in 1 .. Size : ~Less(input[i], input[j])}
      least == {i \in 1 .. Size : \A j \in 1 .. Size : ~Less(input[j], input[i])}
  IN  Size > 0 =>
        /\ min_element(input) = First(least, 0)
        /\ max_element(input) = First(most, 0)
        /\ minmax_element(input) = [low |-> First(least, 0), high |-> Final(most, 0)]

Bounds(v) ==
  LET low == First({i \in 1 .. Size : ~Less(input[i], v)}, End)
      up == First({i \in 1 .. Size : Less(v, input[i])}, End)
  IN  InOrder(input) =>
        /\ lower_bound(input, 1, Size, v) = low
        /\ upper_bound(input, 1, Size, v) = up
        /\ equal_range(input, 1, Size, v) = <<low, up>>
        /\ binary_search_i(input, v) = IF low = up THEN End ELSE low

Lexicographical(a, b) ==
  lexicographical_compare(a, b) =
    \E i \in 1 .. Len(b) :
      /\ i <= Len(a) + 1 /\ \A j \in 1 .. i - 1 : Same(a[j], b[j])
      /\ i <= Len(a) => Less(a[i], b[i])

Compares(a, b) ==
  /\ lexicographical_compare_three_way(a, b) =
       IF lexicographical_compare(a, b) THEN -1 ELSE IF lexicographical_compare(b, a) THEN 1 ELSE 0
  /\ identical(a, b) = (lexicographical_compare_three_way(a, b) = 0)
  /\ Len(a) <= Len(b) => equal(a, b) = identical(a, SubSeq(b, 1, Len(a)))
  /\ a # <<>> => lexicographical_compare_char(a, b) = lexicographical_compare(a, b)

\* Every order comes from one way to choose, so that each is as likely; a bound
\* on the ranges that are shuffled.
LongestShuffle == 5
Shuffles ==
  LET ways == {c \in [2 .. Size -> 1 .. Size] : \A i \in 2 .. Size : c[i] <= i}
      orders == {shuffle(input, c) : c \in ways}
  IN  Size \in 2 .. LongestShuffle =>
        Cardinality(orders) = Cardinality(ways) /\ \A t \in orders : Permutes(t)

Removals ==
  /\ \A k \in Keys :
       LET Is == {x \in Range(input) : KeyOf(x) = k}
           r == remove_if(input, Is)
           a == apply_and_remove_if(input, Is)
           others == SelectSeq(input, LAMBDA x : x \notin Is)
       IN  /\ SubSeq(r.s, 1, r.end - 1) = others
           /\ SubSeq(a.s, 1, a.end - 1) = others /\ a.applied = copy_if(input, Is)
           /\ remove_copy_if(input, Is) = others /\ count_if(input, Is) = Size - Len(others)
           /\ replace_if(input, Is, 0) = [i \in 1 .. Size |-> IF input[i] \in Is THEN 0 ELSE input[i]]
  /\ LET u == unique(input)
         heads == {i \in 1 .. Size : i = 1 \/ ~Same(input[i - 1], input[i])}
     IN  SubSeq(u.s, 1, u.end - 1) = SelectSeq(input, LAMBDA x : x % 10 \in heads)

FindsAny(a, b) ==
  LET in == {i \in DOMAIN a : IsOneOf(a[i], b)}
      out == DOMAIN a \ in
  IN  /\ find_first_of(a, b) = First(in, Len(a) + 1)
      /\ find_first_not_of(a, b) = First(out, Len(a) + 1)
      /\ find_last_of(a, b) = Final(in, Len(a) + 1)
      /\ b # <<>> => find_last_not_of(a, b) = Final(out, Len(a) + 1)

Occurrences(a, b) == {i \in 1 .. Len(a) - Len(b) + 1 : \A j \in DOMAIN b : Same(a[i + j - 1], b[j])}

FindsWhole(a, b) ==
  /\ search(a, 1, b) = First(Occurrences(a, b), Len(a) + 1)
  /\ search_if(a, b) = First(Occurrences(a, b), Len(a) + 1)
  /\ b # <<>> => find_end_forward(a, b) = Final(Occurrences(a, b), Len(a) + 1)
  /\ b # <<>> => find_end(a, b) = Final(Occurrences(a, b), Len(a) + 1)

\* The first run of count elements like v.
RunOf(s, count, v) == First(Occurrences(s, [j \in 1 .. count |-> v]), Len(s) + 1)

OrderedSets(a, b) ==
  LET both == set_intersection(a, b)
      either == set_union(a, b)
      one == set_difference(a, b)
      onlyOne == set_symmetric_difference(a, b)
      More(x, y) == IF x > y THEN x - y ELSE 0
  IN  InOrder(a) /\ InOrder(b) =>
        /\ Subsequence(both, a) /\ Subsequence(one, a) /\ InOrder(either) /\ InOrder(onlyOne)
        /\ \A k \in Keys :
             LET x == Amount(a, k)  y == Amount(b, k)
             IN  /\ Amount(one, k) = More(x, y)
                 /\ Amount(both, k) = x - More(x, y)
                 /\ Amount(either, k) = y + More(x, y)
                 /\ Amount(onlyOne, k) = More(x, y) + More(y, x)
        /\ set_decomposition(a, b) = <<one, set_difference(b, a), both>>
        /\ includes(a, b) = \A k \in Keys : Amount(a, k) >= Amount(b, k)

Permuted(a, b) ==
  Len(a) = Len(b) => is_permutation(a, b) = \A k \in Keys : Amount(a, k) = Amount(b, k)

\* The next one differs from its input at i, where it has the least larger key
\* that there is behind i, and is in order from there.
NextPermutation ==
  LET p == next_permutation(input)
      i == First({j \in 1 .. Size : ~Same(p.s[j], input[j])}, 0)
  IN  /\ Permutes(p.s)
      /\ IF p.more
         THEN /\ Less(input[i], p.s[i]) /\ InOrder(SubSeq(p.s, i + 1, Size))
              /\ \A j \in i + 1 .. Size : Less(input[i], input[j]) => ~Less(input[j], p.s[i])
         ELSE InOrder(p.s) /\ InOrder(Reverse(input))

Rotations(middle) ==
  \A category \in {"forward", "bidirectional", "random_access"}, trivial \in BOOLEAN :
    rotate(input, middle, category, trivial) =
      [s |-> SubSeq(input, middle, Size) \o SubSeq(input, 1, middle - 1), at |-> End + 1 - middle]

\* A string and what is looked for in it, from or up to every position there is,
\* which is a bound on the strings: longer ones have the same cases.
LongestText == 6
SearchPositions(a) == 0 .. Len(a) + 1 \cup {Texts!npos - 1, Texts!npos}

Foremost(S, position) == First({i \in S : i >= position}, Texts!npos)
Hindmost(S, position) == Final({i \in S : i <= position}, Texts!npos)

FindsText(a, b) ==
  LET whole == {i - 1 : i \in Occurrences(a, b)}
      in == {i - 1 : i \in {j \in DOMAIN a : IsOneOf(a[j], b)}}
      out == {i - 1 : i \in DOMAIN a} \ in
  IN  \A position \in SearchPositions(a) :
        /\ Texts!find(a, b, position) = Foremost(whole, position)
        /\ Texts!rfind(a, b, position) = Hindmost(whole, position)
        /\ Texts!find_first_of(a, b, position) = Foremost(in, position)
        /\ Texts!find_last_of(a, b, position) = Hindmost(in, position)
        /\ Texts!find_first_not_of(a, b, position) = Foremost(out, position)
        /\ Texts!find_last_not_of(a, b, position) = Hindmost(out, position)
        /\ Len(b) = 1 =>
             /\ Texts!find_char(a, b[1], position) = Foremost(in, position)
             /\ Texts!view_find_char(a, b[1], position) = Foremost(in, position)
             /\ Texts!rfind_char(a, b[1], position) = Hindmost(in, position)

Keyed(s) == [i \in DOMAIN s |-> Key(s[i])]
Before(s, t) == \E i \in 1 .. Len(t) :
  i <= Len(s) + 1 /\ SubSeq(s, 1, i - 1) = SubSeq(t, 1, i - 1) /\ (i <= Len(s) => s[i] < t[i])
Ordered(s, t) == IF Before(s, t) THEN -1 ELSE IF Before(t, s) THEN 1 ELSE 0

ComparesText(a, b) ==
  LET lower(s) == Keyed([i \in DOMAIN s |-> Lower(s[i])])
  IN  /\ Texts!compare(a, b) = Ordered(Keyed(a), Keyed(b))
      /\ Texts!comparei(a, b) = Ordered(lower(a), lower(b))
      /\ Texts!view_equal(a, b) = (Keyed(a) = Keyed(b))
      /\ Texts!starts_with(a, b) = (0 \in {i - 1 : i \in Occurrences(a, b)})
      /\ Texts!ends_with(a, b) = (Len(a) - Len(b) + 1 \in Occurrences(a, b))
      /\ \A position \in 0 .. Len(a), n \in {0, 1, Texts!npos} :
           LET rest == SubSeq(a, position + 1, Len(a))
               part == IF n < Len(rest) THEN SubSeq(rest, 1, n) ELSE rest
           IN  /\ Texts!compare_parts(a, position, n, b, 0, Texts!npos) = Ordered(Keyed(part), Keyed(b))
               /\ Texts!substr(a, position, n) = part
               /\ Texts!erase(a, position, n) = SubSeq(a, 1, position) \o SubSeq(rest, Len(part) + 1, Len(rest))
               /\ Texts!copy(a, input, n, position) = part \o SubSeq(input, Len(part) + 1, Size)

\* What is left after a trim is the least part of the string that has all of its
\* characters that are not to be trimmed.
TrimsText(a, b) ==
  LET out == {i \in DOMAIN a : ~IsOneOf(a[i], b)}
  IN  /\ Texts!ltrim(a, b) = SubSeq(a, First(out, Len(a) + 1), Len(a))
      /\ Texts!rtrim(a, b) = SubSeq(a, 1, Final(out, 0))
      /\ Texts!trim(a, b) = SubSeq(a, First(out, Len(a) + 1), Final(out, 0))

CutsText(n) ==
  /\ Texts!left(input, n) \o Texts!remove_prefix(input, n) = input
  /\ Texts!remove_suffix(input, n) \o Texts!right(input, n) = input
  /\ Texts!substr(input, End + n, 0) = Texts!OutOfRange

\* Sums and differences undo one another, in place too.
Sums ==
  LET keys == Keyed(input)
  IN  /\ partial_sum(keys) = [i \in 1 .. Size |-> accumulate(SubSeq(keys, 1, i), 0)]
      /\ adjacent_difference(partial_sum(keys)) = keys
      /\ partial_sum(adjacent_difference(keys)) = keys
      /\ adjacent_difference(iota(Size, 5)) = [i \in 1 .. Size |-> IF i = 1 THEN 5 ELSE 1]
      /\ inner_product(keys, keys, 7) = 7 + Amount(input, 1) + 4 * Amount(input, 2)

\* Of every two integers of so many bits, with a sign and without.
Midway(bits) ==
  \A signed \in BOOLEAN :
    LET values == IF signed THEN -(2 ^ (bits - 1)) .. 2 ^ (bits - 1) - 1 ELSE 0 .. 2 ^ bits - 1
    IN  \A a, b \in values :
          midpoint(a, b, bits, signed) = IF a < b THEN a + (b - a) \div 2 ELSE a - (a - b) \div 2

\* Of every buffer in an address space of so many bits, and every size, which
\* may be more than the buffer has: what is left of it begins behind the storage.
Aligns(bits) ==
  LET top == 2 ^ bits
  IN  \A ptr \in 0 .. top - 1 : \A space \in 0 .. top - 1 - ptr, size \in 0 .. top - 1, k \in 0 .. bits - 1 :
        LET places == {p \in ptr .. ptr + space - size : p % (2 ^ k) = 0}
            a == align_advance(2 ^ k, size, ptr, space, bits)
        IN  IF places = {} THEN a = [result |-> -1, ptr |-> ptr, space |-> space]
            ELSE LET p == First(places, -1)
                 IN  a = [result |-> p, ptr |-> p + size, space |-> ptr + space - (p + size)]

\* The searches find the first, or the last, of overlapping matches, also after a
\* match that broke off (algorithm.h:2887-3044, 3297-3441); the walks that compare
\* with an element they have moved or kept still see the right one
\* (algorithm.h:2607-2664, 3232-3286); the walks along two sorted ranges count
\* equal elements as often as both have them (algorithm.h:3460-3902); and
\* permutations and rotations of every kind of iterator end with each element in
\* its place (algorithm.h:3906-4042, 4084-4320).  Strings are searched, compared,
\* cut and trimmed as they should be from every position, those behind the end
\* and npos among them, where the sums wrap (string.h:2643-2941, 3062-3104).
\* Midpoints of integers do not overflow (numeric.h:292-303), and storage is found
\* in a buffer exactly when it fits, whatever size is asked for (memory.h:1031-1085).
AlgorithmsRight ==
  /\ Extremes /\ Removals /\ NextPermutation
  /\ reverse(input, 1, End) = Reverse(input)
  /\ OfTwo(Lexicographical) /\ OfTwo(Compares) /\ Shuffles
  /\ OfTwo(FindsAny) /\ OfTwo(FindsWhole) /\ OfTwo(OrderedSets) /\ OfTwo(Permuted)
  /\ \A k \in Keys : Bounds(10 * k)
  /\ \A count \in 0 .. 4 : search_n_forward(input, 1, count, 10) = RunOf(input, count, 10)
  /\ \A middle \in 1 .. End : Rotations(middle)
  /\ Sums /\ (Size = 0 => Midway(3) /\ Aligns(4))
  /\ Size <= LongestText =>
       /\ OfTwo(FindsText) /\ OfTwo(ComparesText) /\ OfTwo(TrimsText)
       /\ \A n \in 0 .. Size : CutsText(n)

-----------------------------------------------------------------------------
(* A bitset has as many bits as the input has elements. *)
BitsWhere(P(_)) == {i - 1 : i \in {j \in 1 .. Size : P(KeyOf(input[j]))}}

\* Every operation on a bitset does with its words what it should with the set of
\* its bits, and leaves the bits of the last word that are not used off, whatever
\* words it has, with none left over or some (bitset.h:916-1162, 1357-1583,
\* 1704-1808).
BitsRight ==
  LET A == BitsWhere(LAMBDA k : k # 0)  B == BitsWhere(LAMBDA k : k # 1)
  IN  Twos!ActsOnBits(Size, A, B) /\ Fours!ActsOnBits(Size, A, B)

\* "Returns last if no such iterator is found." (algorithm.h:3102-3108): search_n
\* finds a run in the range, and there is none behind its end.
SearchNRight ==
  \A n \in 0 .. Size, count \in 0 .. 4 :
    search_n(input, n, count, 10) = RunOf(SubSeq(input, 1, n), count, 10)
=============================================================================
