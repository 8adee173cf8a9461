------------------------------- MODULE Bitset -------------------------------
(* bitset (include/EASTL/bitset.h).  A word is the set of the bits that are on *)
(* in it, and a bitset of N bits is the sequence of its words: NW of them, as *)
(* few as N needs, and one when N is 0.  What the classes for one word and    *)
(* for two do otherwise than the general one is named.                        *)
EXTENDS Integers, FiniteSets, Sequences, SequencesExt

CONSTANTS kBitsPerWord, SizeBits   \* the width of a word, and of a size

AllBits == 0 .. kBitsPerWord - 1
NoBits(w) == [i \in DOMAIN w |-> {}]

\* A shift by the width of a word is undefined: the bit -1 marks its result.
Undefined == {-1}
Left(x, n) == IF n >= kBitsPerWord THEN Undefined ELSE {b + n : b \in x} \cap AllBits
Right(x, n) == IF n >= kBitsPerWord THEN Undefined ELSE {b - n : b \in x} \cap AllBits

InOrder(w, up, Do(_, _)) ==
  LET k == Len(w)
  IN  FoldLeft(LAMBDA v, i : [v EXCEPT ![i] = Do(v, i)], w, [i \in 1 .. k |-> IF up THEN i ELSE k + 1 - i])

\* Mutant: the words are moved in the order in which they overwrite each other.
ShiftLeftUp(w, n) ==
  LET k == n \div kBitsPerWord
      r == n % kBitsPerWord
      v == InOrder(w, TRUE, LAMBDA x, i : IF k < i THEN x[i - k] ELSE {})
      Carry(x, i) == IF i = 1 THEN {} ELSE Right(x[i - 1], kBitsPerWord - r)
  IN  IF r = 0 THEN v ELSE InOrder(v, FALSE, LAMBDA x, i : Left(x[i], r) \cup Carry(x, i))

\* In place: whole words first, then the bits between neighbours.
ShiftLeft(w, n) ==
  LET k == n \div kBitsPerWord
      r == n % kBitsPerWord
      v == InOrder(w, FALSE, LAMBDA x, i : IF k < i THEN x[i - k] ELSE {})
      Carry(x, i) == IF i = 1 THEN {} ELSE Right(x[i - 1], kBitsPerWord - r)
  IN  IF r = 0 THEN v ELSE InOrder(v, FALSE, LAMBDA x, i : Left(x[i], r) \cup Carry(x, i))

ShiftRight(w, n) ==
  LET k == n \div kBitsPerWord
      r == n % kBitsPerWord
      v == InOrder(w, TRUE, LAMBDA x, i : IF i + k <= Len(w) THEN x[i + k] ELSE {})
      Carry(x, i) == IF i = Len(w) THEN {} ELSE Left(x[i + 1], kBitsPerWord - r)
  IN  IF r = 0 THEN v ELSE InOrder(v, TRUE, LAMBDA x, i : Right(x[i], r) \cup Carry(x, i))

\* The class for one word shifts it by all of n.
ShiftLeftOne(w, n) == <<Left(w[1], n)>>
ShiftRightOne(w, n) == <<Right(w[1], n)>>

\* The class for two words: after a whole word was moved, n may be 0.
ShiftLeftTwo(w, n) ==
  LET v == IF n >= kBitsPerWord THEN <<{}, w[1]>> ELSE w
      r == IF n >= kBitsPerWord THEN n - kBitsPerWord ELSE n
  IN  IF n = 0 THEN w ELSE <<Left(v[1], r), Left(v[2], r) \cup Right(v[1], kBitsPerWord - r)>>

ShiftRightTwo(w, n) ==
  LET v == IF n >= kBitsPerWord THEN <<w[2], {}>> ELSE w
      r == IF n >= kBitsPerWord THEN n - kBitsPerWord ELSE n
  IN  IF n = 0 THEN w ELSE <<Right(v[1], r) \cup Left(v[2], kBitsPerWord - r), Right(v[2], r)>>

-----------------------------------------------------------------------------
(* The first and the last bit of a word, by halves; kBitsPerWord if none is on. *)
RECURSIVE FirstFrom(_, _)
FirstFrom(x, half) ==
  LET low == x \cap (0 .. half - 1)
  IN  IF half = 1 THEN IF 0 \in x THEN 0 ELSE 1
      ELSE IF low = {} THEN half + FirstFrom(Right(x, half), half \div 2)
      ELSE FirstFrom(x, half \div 2)

GetFirstBit(x) == IF x = {} THEN kBitsPerWord ELSE FirstFrom(x, kBitsPerWord \div 2)

RECURSIVE LastFrom(_, _)
LastFrom(x, half) ==
  IF half = 0 THEN 0
  ELSE IF \E b \in x : b >= half THEN half + LastFrom(Right(x, half), half \div 2)
  ELSE LastFrom(x, half \div 2)

GetLastBit(x) == IF x = {} THEN kBitsPerWord ELSE LastFrom(x, kBitsPerWord \div 2)

\* The first word from an index on, and the last one down from it, with a bit on.
FirstIn(w, index) ==
  LET i == SelectInSubSeq(w, index, Len(w), LAMBDA x : GetFirstBit(x) # kBitsPerWord)
  IN  IF i = 0 THEN Len(w) * kBitsPerWord ELSE (i - 1) * kBitsPerWord + GetFirstBit(w[i])
LastIn(w, index) ==
  LET i == SelectLastInSubSeq(w, 1, index, LAMBDA x : GetLastBit(x) # kBitsPerWord)
  IN  IF i = 0 THEN Len(w) * kBitsPerWord ELSE (i - 1) * kBitsPerWord + GetLastBit(w[i])

DoFindFirst(w) == FirstIn(w, 1)
DoFindLast(w) == LastIn(w, Len(w))

\* The bits up to last_find are masked off in its word.
DoFindNext(w, last_find) ==
  LET index == (last_find + 1) \div kBitsPerWord + 1
      mask == {b \in AllBits : b >= (last_find + 1) % kBitsPerWord}
  IN  IF index > Len(w) THEN Len(w) * kBitsPerWord ELSE FirstIn([w EXCEPT ![index] = @ \cap mask], index)

\* Of a last_find up to the end of the last word.  From there the general class
\* reads a word that is not there, and masks off all of it; the classes for one
\* word and for two look for a last_find at the end of a word in that word.
DoFindPrev(w, last_find) ==
  LET index == last_find \div kBitsPerWord + 1
      mask == {b \in AllBits : b < last_find % kBitsPerWord}
  IN  IF last_find = 0 THEN Len(w) * kBitsPerWord
      ELSE IF index > Len(w) THEN LastIn(w, Len(w))
      ELSE LastIn([w EXCEPT ![index] = @ \cap mask], index)

-----------------------------------------------------------------------------
(* bitset<N>: what it adds. *)
BITSET_WORD_COUNT(n) == IF n = 0 THEN 1 ELSE (n - 1) \div kBitsPerWord + 1

\* The bits of the last word that are not used are turned off.
ClearHigh(w, n) ==
  IF n % kBitsPerWord = 0 /\ n # 0 THEN w
  ELSE [w EXCEPT ![Len(w)] = @ \cap (0 .. (n % kBitsPerWord) - 1)]

operator_and(v, w) == [i \in DOMAIN v |-> v[i] \cap w[i]]
operator_or(v, w) == [i \in DOMAIN v |-> v[i] \cup w[i]]
operator_xor(v, w) == [i \in DOMAIN v |-> (v[i] \cup w[i]) \ (v[i] \cap w[i])]

\* Only the shift to the left compares its sizes as integers with a sign.
Signed(size) == IF size >= 2 ^ (SizeBits - 1) THEN size - 2 ^ SizeBits ELSE size
OfClass(w, one, two, many) == IF Len(w) = 1 THEN one ELSE IF Len(w) = 2 THEN two ELSE many

operator_left(w, n, by) ==
  IF Signed(by) < Signed(n)
  THEN ClearHigh(OfClass(w, ShiftLeftOne(w, by), ShiftLeftTwo(w, by), ShiftLeft(w, by)), n)
  ELSE NoBits(w)
operator_right(w, n, by) ==
  IF by < n THEN OfClass(w, ShiftRightOne(w, by), ShiftRightTwo(w, by), ShiftRight(w, by)) ELSE NoBits(w)

set_all(w, n) == ClearHigh([i \in DOMAIN w |-> AllBits], n)
flip_all(w, n) == ClearHigh([i \in DOMAIN w |-> AllBits \ w[i]], n)

\* Of one bit; each throws if there is no such bit.
OutOfRange == "out_of_range"
Of(i) == i \div kBitsPerWord + 1
Bit(i) == {i % kBitsPerWord}
set(w, n, i, value) ==
  IF i < n THEN [w EXCEPT ![Of(i)] = IF value THEN @ \cup Bit(i) ELSE @ \ Bit(i)] ELSE OutOfRange
reset(w, n, i) == IF i < n THEN [w EXCEPT ![Of(i)] = @ \ Bit(i)] ELSE OutOfRange
flip(w, n, i) == IF i < n THEN [w EXCEPT ![Of(i)] = (@ \cup Bit(i)) \ (@ \cap Bit(i))] ELSE OutOfRange
test(w, n, i) == IF i < n THEN Bit(i) \subseteq w[Of(i)] ELSE OutOfRange

any(w) == \E i \in DOMAIN w : w[i] # {}
count(w) == FoldLeft(LAMBDA k, x : k + Cardinality(x), 0, w)
all(w, n) == count(w) = n

\* A search that finds nothing returns the number of bits in all the words.
Clamp(i, n) == IF i < n THEN i ELSE n
find_first(w, n) == Clamp(DoFindFirst(w), n)
find_last(w, n) == Clamp(DoFindLast(w), n)
find_next(w, n, i) == Clamp(DoFindNext(w, i), n)
find_prev(w, n, i) == Clamp(DoFindPrev(w, i), n)

\* From an unsigned integer of so many bits, the set of those that are on.
from_unsigned_integral(n, value, bits) ==
  LET copied == value \cap (0 .. Clamp(bits, BITSET_WORD_COUNT(n) * kBitsPerWord) - 1)
      InWord(i) == {b \in AllBits : (i - 1) * kBitsPerWord + b \in copied}
  IN  IF n = 0 THEN <<{}>> ELSE ClearHigh([i \in 1 .. BITSET_WORD_COUNT(n) |-> InWord(i)], n)

\* To one: the integer, and whether the rest was dropped, which throws.
to_unsigned_integral(w, n, bits) ==
  LET words == IF bits < kBitsPerWord THEN 1 ELSE Clamp(bits \div kBitsPerWord, Len(w))
      value == UNION {{(i - 1) * kBitsPerWord + b : b \in w[i]} : i \in 1 .. words}
  IN  IF n = 0 THEN [value |-> {}, overflow |-> FALSE]
      ELSE [value |-> value \cap (0 .. bits - 1),
            overflow |-> value \cap (0 .. bits - 1) # value \/ \E i \in words + 1 .. Len(w) : w[i] # {}]

-----------------------------------------------------------------------------
\* Each operation on a bitset of n bits, A, and another, B, against the same on
\* sets.  Left out are two shifts by the width of a word or more, which are
\* undefined: of two words by the width of one, although a comment has it avoided
\* (bitset.h:1359, 1378), and of one word or two to the left by a size that is
\* negative as an integer with a sign, which the guard lets pass (bitset.h:1707).
ActsOnBits(n, A, B) ==
  LET Bits == 0 .. n - 1
      Word(S, k) == {b \in AllBits : (k - 1) * kBitsPerWord + b \in S}
      Words(S) == [k \in 1 .. BITSET_WORD_COUNT(n) |-> Word(S, k)]
      Low(S) == IF S = {} THEN n ELSE Min(S)
      High(S) == IF S = {} THEN n ELSE Max(S)
      w == Words(A)
  IN  /\ operator_and(w, Words(B)) = Words(A \cap B)
      /\ operator_or(w, Words(B)) = Words(A \cup B)
      /\ operator_xor(w, Words(B)) = Words((A \cup B) \ (A \cap B))
      /\ set_all(w, n) = Words(Bits) /\ flip_all(w, n) = Words(Bits \ A)
      /\ any(w) = (A # {}) /\ count(w) = Cardinality(A) /\ all(w, n) = (A = Bits)
      /\ find_first(w, n) = Low(A) /\ find_last(w, n) = High(A) /\ find_prev(w, n, n) = High(A)
      /\ \A by \in 0 .. n + 1 \cup {2 ^ SizeBits - 1} : (Len(w) = 2 => by # kBitsPerWord) =>
           /\ Signed(by) >= 0 \/ Len(w) > 2 => operator_left(w, n, by) = Words({i + by : i \in A} \cap Bits)
           /\ operator_right(w, n, by) = Words({i - by : i \in A} \cap Bits)
      /\ \A i \in Bits :
           /\ find_next(w, n, i) = Low({j \in A : j > i})
           /\ find_prev(w, n, i) = High({j \in A : j < i})
           /\ set(w, n, i, TRUE) = Words(A \cup {i})
           /\ set(w, n, i, FALSE) = Words(A \ {i}) /\ reset(w, n, i) = Words(A \ {i})
           /\ test(w, n, i) = (i \in A)
           /\ flip(w, n, i) = set(w, n, i, i \notin A)
      /\ OutOfRange = set(w, n, n, TRUE) /\ OutOfRange = flip(w, n, n)
      /\ \A bits \in {2, 4, 8} :
           LET value == {b \in 0 .. bits - 1 : b \in A \cup {n, n + 1}}
               back == to_unsigned_integral(w, n, bits)
           IN  /\ from_unsigned_integral(n, value, bits) = Words(A \cap (0 .. bits - 1))
               /\ back = [value |-> A \cap (0 .. bits - 1), overflow |-> \E i \in A : i >= bits]
=============================================================================
