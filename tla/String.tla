------------------------------- MODULE String -------------------------------
(* basic_string (include/EASTL/string.h): a short string lies in the object   *)
(* itself, a longer one on the heap, with a 0 behind its last character.      *)
(*                                                                            *)
(* obj[c] is a layout: heap, at, what each place of its buffer holds, and     *)
(* size, the mnSize of a heap layout.  The last place of the buffer of a short *)
(* string is also its size field: it has how many characters there still is   *)
(* room for, so that the terminating 0 of a full one and its 0 are the same.   *)
(* A call works on a layout with fuse, threw and fault (see Elements).        *)
EXTENDS Integers, FiniteSets, Sequences, SequencesExt, Calls

CONSTANTS
  Raw,           \* what was never written, or is behind the terminating 0
  SSO_CAPACITY,
  kBufferSize,   \* of append_convert
  Programs       \* what a behaviour may do: objs, the strings; values, the
                 \* characters; size, the bound on the size and on what is asked
                 \* for; capacity, on what the string takes;
                 \* range, on the arguments of one call; throws, whether an
                 \* allocation may; length_errors, EASTL_STRING_OPT_LENGTH_ERRORS;
                 \* spare, whether a heap string is asked for a capacity that a
                 \* short one has but that is not its size

VARIABLES
  prog, obj, fault,
  call   \* the last call and its result, as in Sequence

vars == <<prog, obj, fault, call>>

Nul == 0
Times(n, x) == [i \in 1 .. n |-> x]

-----------------------------------------------------------------------------
(* The two layouts. *)
Short(t) ==
  [heap |-> FALSE, size |-> 0,
   at |-> [i \in 0 .. SSO_CAPACITY |->
             IF i < Len(t) THEN t[i + 1] ELSE IF i = SSO_CAPACITY THEN SSO_CAPACITY - Len(t)
             ELSE IF i = Len(t) THEN Nul ELSE Raw]]
Long(n, t) ==
  [heap |-> TRUE, size |-> Len(t),
   at |-> [i \in 0 .. n |-> IF i < Len(t) THEN t[i + 1] ELSE IF i = Len(t) THEN Nul ELSE Raw]]

GetSize(s) == IF s.heap THEN s.size ELSE SSO_CAPACITY - s.at[SSO_CAPACITY]
Capacity(s) == Cardinality(DOMAIN s.at) - 1
SetSize(s, n) == IF s.heap THEN [s EXCEPT !.size = n] ELSE [s EXCEPT !.at[SSO_CAPACITY] = SSO_CAPACITY - n]

\* The characters in [i, j), and t written to i on, as by memmove.
Read(s, i, j) == [k \in 1 .. j - i |-> IF i + k - 1 \in DOMAIN s.at THEN s.at[i + k - 1] ELSE Raw]
Write(s, i, t) ==
  [s EXCEPT !.at = [k \in DOMAIN @ |-> IF i <= k /\ k < i + Len(t) THEN t[k - i + 1] ELSE @[k]],
            !.fault = @ \/ i + Len(t) - 1 > Capacity(s) \/ Raw \in ToSet(t)]

Init ==
  /\ prog \in Programs
  /\ obj = [c \in prog.objs |-> Short(<<>>)]
  /\ fault = FALSE
  /\ call = Quiet

size(c) == GetSize(obj[c])
Contents(c) == Read(obj[c], 0, size(c))

\* A range argument: of the string itself, or from elsewhere.
Own(i, j) == [self |-> TRUE, from |-> i, n |-> j - i, vals |-> <<>>]
Other(t) == [self |-> FALSE, from |-> 0, n |-> Len(t), vals |-> t]
Part(x, a, b) == IF x.self THEN Own(x.from + a, x.from + b) ELSE Other(SubSeq(x.vals, a + 1, b))
Chars(s, x) == IF x.self THEN Read(s, x.from, x.from + x.n) ELSE x.vals

Frame(c, f) ==
  [heap |-> obj[c].heap, at |-> obj[c].at, size |-> obj[c].size, fuse |-> f, threw |-> FALSE, fault |-> FALSE]
Become(s, l) == [s EXCEPT !.heap = l.heap, !.at = l.at, !.size = l.size]

-----------------------------------------------------------------------------
(* Capacity. *)

\* A buffer for n characters, with t in it, takes the place of the present one.
Reallocated(s, n, t) ==
  IF s.threw \/ s.fuse = 1 THEN [s EXCEPT !.threw = TRUE, !.fuse = 0]
  ELSE [Become(s, Long(n, t)) EXCEPT !.fault = @ \/ Raw \in ToSet(t)]

\* The difference in the argument is not signed: when negative it is more than
\* max_size, and added to the capacity it is the size again.
Grown(s, n, t) ==
  LET more == n - Capacity(s)
  IN  IF more < 0 /\ prog.length_errors THEN [s EXCEPT !.threw = TRUE]
      ELSE Reallocated(s, Max({Capacity(s) + more, 2 * Capacity(s)}), t)

\* To a short layout n characters are copied, whatever the size is.
set_capacity(s, n) ==
  LET t == IF n < GetSize(s) THEN Write(SetSize(s, n), n, <<Nul>>) ELSE s
      k == Capacity(t)
  IN  IF ~(n < k /\ t.heap) /\ n <= k THEN t
      ELSE IF n = 0 THEN Become(t, Short(<<>>))
      ELSE IF n <= SSO_CAPACITY THEN Become(t, Short(Read(t, 0, n)))
      ELSE Reallocated(t, n, Read(t, 0, GetSize(t)))

reserve(s, n) == LET k == Max({n, GetSize(s)}) IN IF k > Capacity(s) THEN set_capacity(s, k) ELSE s

\* AllocateSelf(n), RangeInitialize and SizeInitialize.
Initialized(t) == IF Len(t) > SSO_CAPACITY THEN Long(Len(t), t) ELSE Short(t)

clear(s) == Write(SetSize(s, 0), 0, <<Nul>>)

-----------------------------------------------------------------------------
(* Characters at the end. *)
append_n(s, n, c) ==
  LET k == GetSize(s)
      r == IF k + n > Capacity(s) THEN reserve(s, Max({k + n, 2 * Capacity(s)})) ELSE s
  IN  IF n = 0 \/ r.threw THEN r ELSE SetSize(Write(r, GetSize(r), Append(Times(n, c), Nul)), k + n)

append(s, x) ==
  LET k == GetSize(s)  t == Chars(s, x)
  IN  IF x.n = 0 \/ s.threw THEN s
      ELSE IF k + x.n > Capacity(s) THEN Grown(s, k + x.n, Read(s, 0, k) \o t)
      ELSE SetSize(Write(s, k, Append(t, Nul)), k + x.n)

\* Through a buffer on the stack.
append_convert(s, t) ==
  LET pieces == (Len(t) + kBufferSize - 1) \div kBufferSize
      Piece(i) == SubSeq(t, (i - 1) * kBufferSize + 1, Min({i * kBufferSize, Len(t)}))
  IN  FoldLeft(LAMBDA r, i : append(r, Other(Piece(i))), s, [i \in 1 .. pieces |-> i])

pop_back(s) == SetSize(Write(s, GetSize(s) - 1, <<Nul>>), GetSize(s) - 1)

\* The rest of the string and its 0 are moved down.
erase(s, i, j) ==
  IF i = j THEN s ELSE SetSize(Write(s, i, Read(s, j, GetSize(s) + 1)), GetSize(s) - (j - i))

resize(s, n, c) == IF n < GetSize(s) THEN erase(s, n, GetSize(s)) ELSE append_n(s, n - GetSize(s), c)

\* vsnprintf: at most n - 1 characters and a 0.  It returns how many there are to
\* write, or, as vswprintf does, a negative number when they are too many.
Vsnprintf(s, i, n, t) == Write(s, i, Append(SubSeq(t, 1, Min({n - 1, Len(t)})), Nul))
Fails(t, n, wide) == wide /\ Len(t) >= n

\* Larger and larger sizes are tried, until the text fits.
RECURSIVE Retried(_, _, _, _)
Retried(s, first, n, t) ==
  LET r == resize(s, n, Nul)
      k == n - first
      p == Vsnprintf(r, first, k + 1, t)
  IN  IF Fails(t, k + 1, TRUE) THEN Retried(p, first, 2 * n, t)
      ELSE IF Len(t) = k THEN Vsnprintf(resize(p, n + 1, Nul), first, k + 2, t)
      ELSE p

append_sprintf_va_list(s, t, wide) ==
  LET first == GetSize(s)
      room == Capacity(s) - first
      p == Vsnprintf(s, first, room + 1, t)
      r == IF Fails(t, room + 1, wide) THEN Retried(p, first, Max({SSO_CAPACITY - 1, 2 * first}), t)
           ELSE IF Len(t) > room THEN Vsnprintf(resize(p, first + Len(t), Nul), first, Len(t) + 1, t)
           ELSE p
  IN  SetSize(r, first + Len(t))

\* Where the length can be asked for first.
append_sprintf_measured(s, t) ==
  LET first == GetSize(s)
      r == IF t = <<>> THEN s ELSE Vsnprintf(resize(s, first + Len(t), Nul), first, Len(t) + 1, t)
  IN  SetSize(r, first + Len(t))

-----------------------------------------------------------------------------
(* Characters within. *)

\* The last write of the string's end may be to the size field: the size is kept.
InsertInPlace(s, p, t) ==
  LET k == GetSize(s)  n == Len(t)  after == k - p
      x == SetSize(Write(s, k + 1, Read(s, k - n + 1, k + 1)), k + n)
      y == Write(s, k + 1, SubSeq(t, after + 2, n))
      z == SetSize(y, GetSize(y) + (n - after))
      saved == GetSize(z)
      w == SetSize(Write(z, saved, Read(z, p, k + 1)), saved + after)
  IN  IF after >= n THEN Write(Write(x, p + n, Read(x, p, p + after - n + 1)), p, t)
      ELSE Write(w, p, SubSeq(t, 1, after + 1))

InsertOther(s, p, t) ==
  LET k == GetSize(s) IN
  IF t = <<>> THEN s
  ELSE IF Capacity(s) - k >= Len(t) THEN InsertInPlace(s, p, t)
  ELSE Grown(s, k + Len(t), Read(s, 0, p) \o t \o Read(s, p, k))

\* Of a range of its own a short string makes a copy; a heap string reallocates,
\* and to exactly its new size when there was room.
insert(s, p, x) ==
  LET k == GetSize(s)  t == Chars(s, x)
  IN  IF ~x.self \/ ~s.heap \/ x.n = 0 \/ Capacity(s) - k < x.n THEN InsertOther(s, p, t)
      ELSE Reallocated(s, k + x.n, Read(s, 0, p) \o t \o Read(s, p, k))

\* One character, not at the end: the memmove leaves the 0 behind.
InsertInternal(s, p, c) ==
  LET k == GetSize(s)
      x == Write(s, p + 1, Read(s, p, k))
  IN  IF k + 1 <= Capacity(s) THEN SetSize(Write(Write(x, GetSize(x) + 1, <<Nul>>), p, <<c>>), k + 1)
      ELSE Grown(s, k + 1, Read(s, 0, p) \o <<c>> \o Read(s, p, k))

insert_c(s, p, c) == IF p = GetSize(s) THEN append_n(s, 1, c) ELSE InsertInternal(s, p, c)

\* [i, j) by n times c.
replace_n(s, i, j, n, c) ==
  IF j - i >= n THEN erase(Write(s, i, Times(n, c)), i + n, j)
  ELSE InsertOther(Write(s, i, Times(j - i, c)), j, Times(n - (j - i), c))

\* The range is not within what it replaces.
Apart(i, j, x) == ~x.self \/ x.from > j \/ x.from + x.n <= i

\* By a range: an expanding one from within that overlaps what it replaces is put
\* together in new memory; else its first part is copied and its rest inserted.
replace(s, i, j, x) ==
  LET k == GetSize(s)
      First(n) == Write(s, i, Chars(s, Part(x, 0, n)))
  IN  IF j - i >= x.n THEN erase(First(x.n), i + x.n, j)
      ELSE IF Apart(i, j, x) THEN insert(First(j - i), j, Part(x, j - i, x.n))
      ELSE Grown(s, k + x.n - (j - i), Read(s, 0, i) \o Chars(s, x) \o Read(s, j, k))

assign_n(s, n, c) ==
  LET k == GetSize(s) IN
  IF n <= k THEN erase(Write(s, 0, Times(n, c)), n, k) ELSE append_n(Write(s, 0, Times(k, c)), n - k, c)

assign(s, x) ==
  LET k == GetSize(s)
      First(n) == Write(s, 0, Chars(s, Part(x, 0, n)))
  IN  IF x.n <= k THEN erase(First(x.n), x.n, k) ELSE append(First(k), Part(x, k, x.n))

\* erase and erase_if of the values in gone: remove_if, then erase.
erase_if(s, gone) ==
  LET k == GetSize(s)  t == SelectSeq(Read(s, 0, k), LAMBDA x : x \notin gone)
  IN  erase(Write(s, 0, t), Len(t), k)

-----------------------------------------------------------------------------
(* The calls. *)
Trimmed(s) == [s EXCEPT !.at = [i \in DOMAIN @ |-> IF i > GetSize(s) /\ (s.heap \/ i < SSO_CAPACITY) THEN Raw ELSE @[i]]]

\* What the call has done, or has left behind when an allocation throws.
Ends(c, s, done, left) ==
  /\ GetSize(s) <= prog.size /\ Capacity(s) <= prog.capacity
  /\ obj' = [obj EXCEPT ![c] = Trimmed([heap |-> s.heap, at |-> s.at, size |-> s.size])]
  /\ fault' = (fault \/ s.fault)
  /\ call' = IF s.threw THEN left ELSE done
  /\ UNCHANGED prog

Finish(c, s, done) == Ends(c, s, done, Quiet)

Fuses == IF prog.throws THEN {0, 1} ELSE {0}
Ranges(c) ==
  {Other(t) : t \in BoundedSeq(prog.values, prog.range)}
    \cup {Own(r[1], r[2]) : r \in {q \in (0 .. size(c)) \X (0 .. size(c)) : q[1] < q[2]}}

\* A heap layout keeps more room than a short one has.
Keeps(x, c) ==
  prog.spare \/ ~obj[c].heap \/ ~x.self \/ size(c) + x.n > SSO_CAPACITY \/ Capacity(obj[c]) - size(c) < x.n

InsertChars(c) ==
  \E f \in Fuses, p \in 0 .. size(c), x \in prog.values :
    LET s == Frame(c, f) IN
    \/ Finish(c, insert_c(s, p, x), Inserted(c, p, <<x>>))
    \/ \E n \in 0 .. prog.size - size(c) :
         \/ Finish(c, InsertOther(s, p, Times(n, x)), Inserted(c, p, Times(n, x)))
         \/ p = size(c) /\ Finish(c, append_n(s, n, x), Inserted(c, p, Times(n, x)))

InsertRange(c) ==
  \E f \in Fuses, p \in 0 .. size(c), x \in Ranges(c) :
    LET s == Frame(c, f)  t == Chars(s, x) IN
    \/ Keeps(x, c) /\ Finish(c, insert(s, p, x), Inserted(c, p, t))
    \/ p = size(c) /\ Finish(c, append(s, x), Inserted(c, p, t))

\* Text that is converted or formatted: the pieces before an allocation that throws
\* are there.
AppendText(c) ==
  \E t \in BoundedSeq(prog.values, prog.range + 1), f \in Fuses :
    LET k == size(c)  s == Frame(c, 0)  done == Inserted(c, k, t)
        r == append_convert(Frame(c, f), t)
    IN
    \/ Ends(c, r, done, Inserted(c, k, SubSeq(t, 1, GetSize(r) - k)))
    \/ \E wide \in BOOLEAN : Finish(c, append_sprintf_va_list(s, t, wide), done)
    \/ Finish(c, append_sprintf_measured(s, t), done)

EraseChars(c) ==
  LET s == Frame(c, 0)  k == size(c) IN
  \/ \E i \in 0 .. k : \E j \in i .. k : Finish(c, erase(s, i, j), Erased(c, i, j))
  \/ k > 0 /\ Finish(c, pop_back(s), Erased(c, k - 1, k))
  \/ Finish(c, clear(s), Erased(c, 0, k))
  \/ \E gone \in SUBSET prog.values : Finish(c, erase_if(s, gone), Removed(c, gone))
  \/ \E n \in 0 .. k : Finish(c, resize(s, n, Nul), Erased(c, n, k))

\* The characters in gone at both ends.
Trim(c, gone) ==
  LET s == Frame(c, 0)  k == size(c)
      i == SelectInSeq(Contents(c), LAMBDA x : x \notin gone)
      j == SelectLastInSeq(Contents(c), LAMBDA x : x \notin gone)
  IN  \/ Finish(c, erase(s, 0, IF i = 0 THEN k ELSE i - 1), Erased(c, 0, IF i = 0 THEN k ELSE i - 1))
      \/ Finish(c, erase(s, j, k), Erased(c, j, k))

\* The characters that have the place of others are written before the rest finds none.
Replace(c) ==
  \E f \in Fuses, i \in 0 .. size(c) : \E j \in i .. size(c) :
    LET s == Frame(c, f) IN
    \/ \E x \in Ranges(c) :
         LET t == Chars(s, x) IN
         /\ x.n <= j - i \/ Keeps(Part(x, j - i, x.n), c)
         /\ Ends(c, replace(s, i, j, x), Replaced(c, i, j, t),
                 IF Apart(i, j, x) THEN Replaced(c, i, j, SubSeq(t, 1, j - i)) ELSE Quiet)
    \/ \E x \in prog.values, n \in 0 .. prog.range :
         Ends(c, replace_n(s, i, j, n, x), Replaced(c, i, j, Times(n, x)), Replaced(c, i, j, Times(j - i, x)))

Assign(c) ==
  \E f \in Fuses :
    LET s == Frame(c, f)  k == size(c) IN
    \/ \E x \in Ranges(c) :
         LET t == Chars(s, x) IN Ends(c, assign(s, x), Assigned(c, t), Assigned(c, SubSeq(t, 1, k)))
    \/ \E x \in prog.values, n \in 0 .. prog.size :
         Ends(c, assign_n(s, n, x), Assigned(c, Times(n, x)), Assigned(c, Times(k, x)))
    \/ \E t \in BoundedSeq(prog.values, prog.range) :
         LET r == append_convert(clear(s), t) IN Ends(c, r, Assigned(c, t), Assigned(c, SubSeq(t, 1, GetSize(r))))

ChangeCapacity(c) ==
  \E n \in 0 .. prog.size, f \in Fuses :
    LET s == Frame(c, f)  done == IF n < size(c) THEN Erased(c, n, size(c)) ELSE Quiet IN
    \/ Finish(c, reserve(s, n), Quiet)
    \/ /\ prog.spare \/ ~obj[c].heap \/ n <= size(c) \/ n > SSO_CAPACITY
       /\ Ends(c, set_capacity(s, n), done, done)

\* detach: the caller has the buffer, or a copy of a short one.
Detach(c) == Finish(c, Become(Frame(c, 0), Short(<<>>)), Erased(c, 0, size(c)))

\* A new string from a range, which takes the place of this one: also substr,
\* left and right of itself.
Construct(c) ==
  \E x \in Ranges(c) :
    Finish(c, Become(Frame(c, 0), Initialized(Chars(obj[c], x))), Assigned(c, Chars(obj[c], x)))

\* operator+: room for both, then two appends.
Concatenate(c, d) ==
  LET t == Contents(c) \o Contents(d)
      r == Become(Frame(c, 0), IF Len(t) > SSO_CAPACITY THEN Long(Len(t), <<>>) ELSE Short(<<>>))
  IN  Finish(c, append(append(r, Other(Contents(c))), Other(Contents(d))), Assigned(c, t))

\* operator=: the string itself is not copied.
CopyFrom(c, d) ==
  \/ c = d /\ UNCHANGED vars
  \/ \E f \in Fuses :
       LET t == Contents(d) IN
       /\ c # d
       /\ Ends(c, assign(Frame(c, f), Other(t)), Assigned(c, t), Assigned(c, SubSeq(t, 1, size(c))))

\* swap, operator=(&&), assign(&&): the layouts are exchanged.
Swap(c, d) ==
  /\ obj' = [obj EXCEPT ![c] = obj[d], ![d] = obj[c]]
  /\ call' = Swapped(c, d)
  /\ UNCHANGED <<prog, fault>>

\* The constructor from a string that is moved.
MoveFrom(c, d) ==
  /\ c # d
  /\ obj' = [obj EXCEPT ![c] = obj[d], ![d] = Short(<<>>)]
  /\ call' = Taken(c, d)
  /\ UNCHANGED <<prog, fault>>

Next ==
  \E c \in prog.objs :
    \/ InsertChars(c) \/ InsertRange(c) \/ AppendText(c) \/ EraseChars(c) \/ Replace(c) \/ Assign(c)
    \/ ChangeCapacity(c) \/ Detach(c) \/ Construct(c)
    \/ \E gone \in SUBSET prog.values : Trim(c, gone)
    \/ \E d \in prog.objs : Concatenate(c, d) \/ CopyFrom(c, d) \/ Swap(c, d) \/ MoveFrom(c, d)

Spec == Init /\ [][Next]_vars

-----------------------------------------------------------------------------
\* In every string the characters of its size are followed by a 0 within the
\* buffer, also when that 0 is the size field of a full short string, and no
\* step wrote behind the buffer or kept a character that nothing had written,
\* whether the argument came from the string itself or not (string.h:2127-2312,
\* 2537-2590).
StorageExact ==
  /\ ~fault
  /\ \A c \in prog.objs :
       /\ size(c) \in 0 .. Capacity(obj[c]) /\ (~obj[c].heap => Capacity(obj[c]) = SSO_CAPACITY)
       /\ ToSet(Contents(c)) \subseteq prog.values
       /\ size(c) <= Capacity(obj[c]) => obj[c].at[size(c)] = Nul
=============================================================================
