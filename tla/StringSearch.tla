---------------------------- MODULE StringSearch ----------------------------
(* What basic_string (string.h) and basic_string_view (string_view.h) compute  *)
(* from their characters without changing them, the trims, and the loops on   *)
(* characters they share (internal/char_traits.h).  A string is a sequence; a *)
(* position counts from 0, as in the code, an iterator from 1.                 *)
EXTENDS Integers, FiniteSets, Sequences, SequencesExt

CONSTANTS
  KeyOf(_),      \* what a comparison sees of a character
  SizeBits,      \* the width of size_type
  tolower(_)     \* the C library's lower case of a character

Algo == INSTANCE Algorithms

npos == 2 ^ SizeBits - 1
Wrapped(n) == n % 2 ^ SizeBits
Same(a, b) == KeyOf(a) = KeyOf(b)

\* An iterator as a position, but npos for the one that stands for none.
Position(i, none) == IF i = none THEN npos ELSE i - 1
OneOf(x, p) == \E j \in DOMAIN p : Same(x, p[j])

-----------------------------------------------------------------------------
(* The loops.  The backward ones return the iterator behind what they found,  *)
(* or the first one.                                                          *)
CharTypeStringFindFirstOf(s, first, p) == Algo!FirstAt(s, first, Len(s) + 1, LAMBDA x : OneOf(x, p))
CharTypeStringFindFirstNotOf(s, first, p) == Algo!FirstAt(s, first, Len(s) + 1, LAMBDA x : ~OneOf(x, p))
CharTypeStringRFindFirstOf(s, rbegin, p) ==
  1 + SelectLastInSubSeq(s, 1, rbegin - 1, LAMBDA x : OneOf(x, p))
CharTypeStringRFindFirstNotOf(s, rbegin, p) ==
  1 + SelectLastInSubSeq(s, 1, rbegin - 1, LAMBDA x : ~OneOf(x, p))
CharTypeStringRFind(s, rbegin, c) ==
  1 + SelectLastInSubSeq(s, 1, rbegin - 1, LAMBDA x : Same(x, c))

\* The last c before end, or end.
CharTypeStringFindEnd(s, end, c) ==
  LET i == SelectLastInSubSeq(s, 1, end - 1, LAMBDA x : Same(x, c)) IN IF i = 0 THEN end ELSE i

\* The candidates, from the last to the first: each has the first character of p.
RECURSIVE Candidate(_, _, _, _)
Candidate(s, end, searchEnd, p) ==
  LET i == CharTypeStringFindEnd(s, searchEnd, p[1])
  IN  IF i = searchEnd THEN end
      ELSE IF \A j \in DOMAIN p : Same(s[i + j - 1], p[j]) THEN i
      ELSE Candidate(s, end, i, p)

\* The last p before end, or end.
CharTypeStringRSearch(s, end, p) ==
  IF end = 1 \/ p = <<>> THEN 1
  ELSE IF Len(p) = 1 THEN CharTypeStringFindEnd(s, end, p[1])
  ELSE IF Len(p) > end - 1 THEN end
  ELSE Candidate(s, end, end - Len(p) + 1, p)

-----------------------------------------------------------------------------
(* Searches: from position on, or, for those that go back, up to it.  The      *)
(* overload for a character is the one for a string of one character unless   *)
(* it has an operator of its own.                                             *)

\* The first conjunct keeps the sum from wrapping: a search that begins behind
\* the end does not meet it.
find(s, p, position) ==
  LET n == Len(p)
      at == position + Algo!search(SubSeq(s, position + 1, Len(s)), 1, p)
  IN  IF npos - n >= position /\ Wrapped(position + n) <= Len(s) /\ (at # Len(s) + 1 \/ n = 0)
      THEN at - 1 ELSE npos

find_char(s, c, position) ==
  IF position < Len(s) THEN Position(Algo!Find(s, position + 1, c), Len(s) + 1) ELSE npos

rfind(s, p, position) ==
  LET n == Len(p)
      end == Min({Len(s) - n, position}) + n + 1
  IN  IF n > Len(s) THEN npos
      ELSE IF n = 0 THEN Min({Len(s), position})
      ELSE Position(CharTypeStringRSearch(s, end, p), end)

\* Where those that look for one character and go back begin.
RBegin(s, position) == Min({Len(s) - 1, position}) + 2

rfind_char(s, c, position) ==
  IF s = <<>> THEN npos ELSE Position(CharTypeStringRFind(s, RBegin(s, position), c) - 1, 0)

find_first_of(s, p, position) ==
  IF position < Len(s) THEN Position(CharTypeStringFindFirstOf(s, position + 1, p), Len(s) + 1) ELSE npos

find_last_of(s, p, position) ==
  IF s = <<>> THEN npos ELSE Position(CharTypeStringRFindFirstOf(s, RBegin(s, position), p) - 1, 0)

find_first_not_of(s, p, position) ==
  IF position <= Len(s) THEN Position(CharTypeStringFindFirstNotOf(s, position + 1, p), Len(s) + 1) ELSE npos

find_last_not_of(s, p, position) ==
  IF s = <<>> THEN npos ELSE Position(CharTypeStringRFindFirstNotOf(s, RBegin(s, position), p) - 1, 0)

-----------------------------------------------------------------------------
(* Parts.  A position behind the end throws. *)
OutOfRange == "out_of_range"

\* min_alt(n, size - position) characters from position on.
Part(s, position, n) == SubSeq(s, position + 1, position + Min({n, Len(s) - position}))

substr(s, position, n) == IF position > Len(s) THEN OutOfRange ELSE Part(s, position, n)
left(s, n) == IF n < Len(s) THEN substr(s, 0, n) ELSE s
right(s, n) == IF n < Len(s) THEN substr(s, Len(s) - n, n) ELSE s

\* The first characters of p become those from position on.
copy(s, p, n, position) ==
  IF position > Len(s) THEN OutOfRange
  ELSE LET t == Part(s, position, n) IN t \o SubSeq(p, Len(t) + 1, Len(p))

erase(s, position, n) ==
  IF position > Len(s) THEN OutOfRange
  ELSE SubSeq(s, 1, position) \o SubSeq(s, position + Min({n, Len(s) - position}) + 1, Len(s))

\* Of the characters of p.  Where none is left, npos + 1 is 0.
ltrim(s, p) == erase(s, 0, find_first_not_of(s, p, 0))
rtrim(s, p) == erase(s, Wrapped(find_last_not_of(s, p, npos) + 1), npos)
trim(s, p) == rtrim(ltrim(s, p), p)

-----------------------------------------------------------------------------
(* Comparisons: -1, 0 or 1. *)
Sign(x, y) == IF x < y THEN -1 ELSE IF x > y THEN 1 ELSE 0

Compare(a, b, n) ==
  LET i == Algo!FirstAt(Algo!Upto(1, n), 1, n + 1, LAMBDA j : ~Same(a[j], b[j]))
  IN  IF i > n THEN 0 ELSE IF Algo!Less(a[i], b[i]) THEN -1 ELSE 1

compare(a, b) ==
  LET cmp == Compare(a, b, Min({Len(a), Len(b)})) IN IF cmp # 0 THEN cmp ELSE Sign(Len(a), Len(b))

\* The overloads for parts, of one string or of both.
compare_parts(a, pos1, n1, b, pos2, n2) ==
  IF pos1 > Len(a) \/ pos2 > Len(b) THEN OutOfRange ELSE compare(Part(a, pos1, n1), Part(b, pos2, n2))

make_lower(s) == [i \in DOMAIN s |-> tolower(s[i])]
CompareI(a, b, n) == Compare(make_lower(a), make_lower(b), n)
comparei(a, b) ==
  LET cmp == CompareI(a, b, Min({Len(a), Len(b)})) IN IF cmp # 0 THEN cmp ELSE Sign(Len(a), Len(b))

-----------------------------------------------------------------------------
(* What a string_view does in another way: it looks for a character as for a   *)
(* view of one, and compares parts by way of substr.                          *)
view_find_char(s, c, pos) == find(s, <<c>>, pos)
view_compare(s, pos1, count1, x) ==
  IF pos1 > Len(s) THEN OutOfRange ELSE compare(substr(s, pos1, count1), x)
remove_prefix(s, n) == SubSeq(s, n + 1, Len(s))
remove_suffix(s, n) == SubSeq(s, 1, Len(s) - n)
view_equal(s, x) == Len(s) = Len(x) /\ compare(s, x) = 0
starts_with(s, x) == Len(s) >= Len(x) /\ view_compare(s, 0, Len(x), x) = 0
ends_with(s, x) == Len(s) >= Len(x) /\ view_compare(s, Len(s) - Len(x), npos, x) = 0
=============================================================================
