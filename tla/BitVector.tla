------------------------------ MODULE BitVector ------------------------------
(* bitvector (include/EASTL/bitvector.h): bits packed into the words of a      *)
(* container, with a count of those of the last word that are not used.       *)
(*                                                                            *)
(* obj[b] is a bitvector: words, each the set of its bits that are on, and    *)
(* free.  Bits that are not used keep what they were.  An iterator is a word, *)
(* counted from 0, and a bit of it.                                           *)
EXTENDS Integers, FiniteSets, Sequences, SequencesExt, Calls

CONSTANTS
  kBitCount,
  Programs   \* what a behaviour may do: kind, "bitvector"; objs; size, the most
             \* bits; range, the most in one call

VARIABLES
  prog,    \* the program: a member of Programs
  obj,
  call     \* the last call and its result, as in Sequence

vars == <<prog, obj, call>>

AllBits == 0 .. kBitCount - 1
Sizes == 2^16   \* of size_type: bits are counted modulo this

Filled(x) == IF x = 1 THEN AllBits ELSE {}
WordsFor(n) == (n + kBitCount - 1) \div kBitCount

\* bitvector(n, value).
Constructing(n, x) ==
  LET free == kBitCount - (n % kBitCount)
  IN  [words |-> [i \in 1 .. WordsFor(n) |-> Filled(x)], free |-> IF free = kBitCount THEN 0 ELSE free]

Init == prog \in Programs /\ obj = [b \in prog.objs |-> Constructing(0, 0)] /\ call = Quiet

-----------------------------------------------------------------------------
(* The iterators.                                                             *)
After(p) ==
  IF p.bit + 1 = kBitCount THEN [word |-> p.word + 1, bit |-> 0] ELSE [p EXCEPT !.bit = @ + 1]
Before(p) ==
  IF p.bit = 0 THEN [word |-> p.word - 1, bit |-> kBitCount - 1] ELSE [p EXCEPT !.bit = @ - 1]

\* operator+=: backwards, the words are counted from the far end of this one.
Plus(p, n) ==
  LET m == n + p.bit
      backwards == kBitCount - 1 - m
  IN  IF m >= 0 THEN [word |-> p.word + m \div kBitCount, bit |-> m % kBitCount]
      ELSE [word |-> p.word - backwards \div kBitCount, bit |-> (kBitCount - 1) - (backwards % kBitCount)]

Minus(p, q) == (p.word - q.word) * kBitCount + p.bit - q.bit
NotAfter(p, q) == p.word < q.word \/ (p.word = q.word /\ p.bit <= q.bit)

begin == [word |-> 0, bit |-> 0]
end(v) == Plus([word |-> Len(v.words), bit |-> 0], -v.free)
size(v) == Len(v.words) * kBitCount - v.free

Get(v, p) == IF p.bit \in v.words[p.word + 1] THEN 1 ELSE 0

\* A write outside the words is undefined: free is then more than it may be.
Put(v, p, x) ==
  IF p.word + 1 \notin DOMAIN v.words THEN [v EXCEPT !.free = kBitCount]
  ELSE [v EXCEPT !.words[p.word + 1] = IF x = 1 THEN @ \cup {p.bit} ELSE @ \ {p.bit}]

\* What validate_iterator says: of end() behind a full word it reads a bit that is
\* not there, and may say anything.
ValidateIterator(v, p) ==
  LET k == Len(v.words)
  IN  CASE p.word < 0 -> {"none"}
        [] v.free = 0 /\ p.word = k -> {"valid", "none"}
        [] v.free # 0 /\ p.word = k - 1 /\ p.bit >= kBitCount - v.free ->
             {IF p.bit = kBitCount - v.free THEN "valid" ELSE "none"}
        [] OTHER -> {IF p.word < k THEN "dereferenceable" ELSE "none"}

Contents(b) == LET v == obj[b] IN [i \in 1 .. size(v) |-> Get(v, Plus(begin, i - 1))]

-----------------------------------------------------------------------------
(* The functions the calls are made of.                                       *)
MoveBits(v, start, last, dest) ==
  LET k == Minus(last, start)
      Up(x, i) == [v |-> Put(x.v, x.to, Get(x.v, x.from)), from |-> After(x.from), to |-> After(x.to)]
      Down(x, i) ==
        [v |-> Put(x.v, Before(x.to), Get(x.v, Before(x.from))), from |-> Before(x.from), to |-> Before(x.to)]
  IN  IF NotAfter(dest, start)
      THEN FoldLeft(Up, [v |-> v, from |-> start, to |-> dest], [i \in 1 .. k |-> i]).v
      ELSE FoldLeft(Down, [v |-> v, from |-> last, to |-> Plus(dest, k)], [i \in 1 .. k |-> i]).v

\* A new word is 0; a bit that was not used is whatever it was.
PushBack(v) ==
  IF v.free = 0 THEN [words |-> Append(v.words, {}), free |-> kBitCount - 1] ELSE [v EXCEPT !.free = @ - 1]
PushBackValue(v, x) == LET y == PushBack(v) IN Put(y, Before(end(y)), x)

PopBack(v) ==
  IF v.free + 1 = kBitCount THEN [words |-> Front(v.words), free |-> 0] ELSE [v EXCEPT !.free = @ + 1]

Resized(v, n, word) ==
  [words |-> SubSeq(v.words \o [i \in 1 .. WordsFor(n) |-> word], 1, WordsFor(n)),
   free |-> WordsFor(n) * kBitCount - n]

\* The last word is filled bit by bit, and the others as words.  When n is less than
\* the size, newbits wraps, and never reaches 0.
ResizedValue(v, n, x) ==
  LET s == size(v)
      y == IF n < s THEN Resized(v, n, {}) ELSE v
      newbits == (n - s) % Sizes
      k == IF y.free < newbits THEN y.free ELSE newbits
      z == FoldLeft(LAMBDA u, i : PushBackValue(u, x), y, [i \in 1 .. k |-> i])
  IN  IF newbits = k THEN z ELSE Resized(z, n, Filled(x))

Inserting(v, i, x) ==
  LET y == PushBack(v)
      p == Plus(begin, i)
  IN  Put(MoveBits(y, p, Before(end(y)), After(p)), p, x)

InsertingMany(v, i, n, x) ==
  LET y == Resized(v, size(v) + n, {})
      p == Plus(begin, i)
      to == Plus(p, n)
  IN  FoldLeft(LAMBDA u, k : Put(u, Plus(p, k - 1), x), MoveBits(y, p, Plus(end(y), -n), to),
               [k \in 1 .. n |-> k])

Erasing(v, i, j) ==
  LET p == Plus(begin, i)
      q == Plus(begin, j)
  IN  IF p = q THEN v ELSE Resized(MoveBits(v, q, end(v), p), size(v) - Minus(q, p), {})

Assigning(vals) == FoldLeft(PushBackValue, Constructing(0, 0), vals)

\* Some bit, and every bit, is on: the last word under a mask.
Mask(v) == IF v.free = 0 THEN AllBits ELSE 0 .. kBitCount - v.free - 1
any(v) ==
  LET k == Len(v.words)
  IN  k > 0 /\ ((\E i \in 1 .. k - 1 : v.words[i] # {}) \/ v.words[k] \cap Mask(v) # {})
all(v) ==
  LET k == Len(v.words)
  IN  k > 0 => (\A i \in 1 .. k - 1 : v.words[i] = AllBits) /\ Mask(v) \subseteq v.words[k]

-----------------------------------------------------------------------------
(* The calls.  A bitvector that was moved from has no words, and keeps free    *)
(* (the move is the compiler's): until a call sets both it cannot be used.    *)
Usable(b) == obj[b].words # <<>> \/ obj[b].free = 0

Set(b, v, done) ==
  /\ size(v) <= prog.size
  /\ obj' = [obj EXCEPT ![b] = v] /\ call' = done /\ UNCHANGED prog

\* The bits behind what there was.
Added(b, v) ==
  LET s == size(obj[b]) IN Inserted(b, s, [i \in 1 .. size(v) - s |-> Get(v, Plus(begin, s + i - 1))])

push_back(b) ==
  \/ LET v == PushBack(obj[b]) IN Set(b, v, Added(b, v))
  \/ \E x \in {0, 1} : Set(b, PushBackValue(obj[b], x), Inserted(b, size(obj[b]), <<x>>))

pop_back(b) == size(obj[b]) > 0 /\ Set(b, PopBack(obj[b]), Erased(b, size(obj[b]) - 1, size(obj[b])))

resize(b, n) ==
  LET v == obj[b]  s == size(v)
      Done(w) == IF n < s THEN Erased(b, n, s) ELSE w
  IN  \/ Set(b, Resized(v, n, {}), Done(Added(b, Resized(v, n, {}))))
      \/ \E x \in {0, 1} :
           Set(b, ResizedValue(v, n, x), Done(Inserted(b, s, [i \in 1 .. n - s |-> x])))

set(b, n, x) ==
  LET v == obj[b]
      y == IF n >= size(v) THEN Resized(v, n + 1, {}) ELSE v
      new == Added(b, y).values
  IN  Set(b, Put(y, Plus(begin, n), x),
          IF n < size(v) THEN Replaced(b, n, n + 1, <<x>>)
          ELSE Inserted(b, size(v), [new EXCEPT ![Len(new)] = x]))

\* Never below the words there are: the count of unused bits would be wrong.
set_capacity(b) == Set(b, obj[b], Quiet)

insert(b, i, x) == Set(b, Inserting(obj[b], i, x), Inserted(b, i, <<x>>))
insert_n(b, i, n, x) ==
  Set(b, InsertingMany(obj[b], i, n, x), [Inserted(b, i, [k \in 1 .. n |-> x]) EXCEPT !.result = i])

\* One bit, a range, or what two reverse iterators enclose.
erase(b, i, j) == Set(b, Erasing(obj[b], i, j), Erased(b, i, j))

assign(b, vals) == Set(b, Assigning(vals), Assigned(b, vals))
construct(b, n, x) == Set(b, Constructing(n, x), Assigned(b, [i \in 1 .. n |-> x]))
clear(b) == Set(b, Constructing(0, 0), Assigned(b, <<>>))
copy(b, d) == Usable(d) /\ Set(b, obj[d], Assigned(b, Contents(d)))

swap(b, d) ==
  /\ obj' = [obj EXCEPT ![b] = obj[d], ![d] = obj[b]]
  /\ call' = Swapped(b, d)
  /\ UNCHANGED prog

move(b, d) ==
  /\ b # d /\ Usable(d)
  /\ obj' = [obj EXCEPT ![b] = obj[d], ![d].words = <<>>]
  /\ call' = Taken(b, d)
  /\ UNCHANGED prog

Next ==
  \E b \in prog.objs :
    \/ /\ Usable(b)
       /\ \/ push_back(b) \/ pop_back(b) \/ set_capacity(b)
          \/ \E n \in 0 .. prog.size : resize(b, n)
          \/ \E n \in 0 .. prog.size - 1, x \in {0, 1} : set(b, n, x)
          \/ \E i \in 0 .. size(obj[b]), x \in {0, 1} :
               insert(b, i, x) \/ \E n \in 0 .. prog.range : insert_n(b, i, n, x)
          \/ \E i \in 0 .. size(obj[b]) : \E j \in i .. size(obj[b]) : erase(b, i, j)
    \/ \E n \in 0 .. prog.range : \E vals \in [1 .. n -> {0, 1}] : assign(b, vals)
    \/ \E n \in 0 .. prog.range, x \in {0, 1} : construct(b, n, x)
    \/ clear(b)
    \/ \E d \in prog.objs : copy(b, d) \/ swap(b, d) \/ move(b, d)

-----------------------------------------------------------------------------
\* The iterators of begin and end enclose all the bits, in steps of any length and
\* both ways (bitvector.h:471-500), and any and all see no bit that is not used
\* (bitvector.h:1408-1438), which may be on.
StorageExact ==
  \A b \in prog.objs :
    Usable(b) =>
      LET v == obj[b]  s == Contents(b)
      IN  /\ v.free \in AllBits /\ size(v) >= 0
          /\ Minus(end(v), begin) = size(v)
          /\ \A i, j \in 0 .. size(v) :
               /\ Plus(Plus(begin, i), j - i) = Plus(begin, j)
               /\ Minus(Plus(begin, j), Plus(begin, i)) = j - i
               /\ NotAfter(Plus(begin, i), Plus(begin, j)) = (i <= j)
          /\ \A i \in 1 .. size(v) : Before(Plus(begin, i)) = Plus(begin, i - 1) /\ After(Plus(begin, i - 1)) = Plus(begin, i)
          /\ \A i \in 0 .. size(v) - 1 : ValidateIterator(v, Plus(begin, i)) = {"dereferenceable"}
          /\ "valid" \in ValidateIterator(v, end(v))
          /\ ValidateIterator(v, Before(begin)) = {"none"} /\ "none" \in ValidateIterator(v, After(end(v)))
          /\ any(v) = (1 \in Range(s))
          /\ all(v) = (0 \notin Range(s))
=============================================================================
