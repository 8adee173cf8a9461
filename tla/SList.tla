-------------------------------- MODULE SList --------------------------------
(* slist (include/EASTL/slist.h): nodes in a chain from the anchor that the    *)
(* list object holds to NULL, and the cached mSize.  To reach the node before  *)
(* a position the chain is walked.                                             *)
(*                                                                            *)
(* obj is the heap of all the lists of a program (see Links), without prev,    *)
(* with the mSize of each in obj.size; a list is its own anchor, and NULL is 0. *)
EXTENDS Links, Calls

CONSTANT
  Programs   \* objs, the lists; values, what is inserted; nodes, how many there
             \* are: an allocation throws when none is left; range, the bound on
             \* the arguments of one call; rests, whether splice_after(position,
             \* x, i) is called with more, or less, than one element behind i

VARIABLES
  prog, obj,
  call   \* the last call and its result, as in Sequence

vars == <<prog, obj, call>>

Null == 0

Init ==
  /\ prog \in Programs
  /\ obj = [next |-> [n \in (1 .. prog.nodes) \cup prog.objs |-> Null],
            val |-> [n \in 1 .. prog.nodes |-> Raw],
            size |-> [c \in prog.objs |-> 0]]
  /\ call = Quiet

Nodes(h, c) == Chain(h.next, h.next[c], Null)
Contents(c) == ValuesOf(obj, Nodes(obj, c))
size(c) == obj.size[c]

\* The iterator at a position, NULL at the end, and before_begin() at -1.
Place(h, c, i) == IF i = -1 THEN c ELSE IF i = Len(Nodes(h, c)) THEN Null ELSE Nodes(h, c)[i + 1]

-----------------------------------------------------------------------------
(* The SListNode functions. *)
GetPrevious(h, from, n) == LET s == Chain(h.next, from, n) IN s[Len(s)]

\* What follows beforeFirst, up to beforeLast, goes after this.
SpliceAfter(h, this, beforeFirst, beforeLast) ==
  IF this \in {beforeFirst, beforeLast} THEN h
  ELSE [h EXCEPT !.next = [@ EXCEPT ![beforeFirst] = h.next[beforeLast],
                                    ![this] = h.next[beforeFirst],
                                    ![beforeLast] = h.next[this]]]

\* All that follows base goes after this.
SpliceRest(h, this, base) ==
  LET beforeLast == GetPrevious(h, base, Null)
  IN  IF beforeLast = base THEN h
      ELSE [h EXCEPT !.next = [@ EXCEPT ![this] = h.next[base], ![base] = Null, ![beforeLast] = h.next[this]]]

\* It is given the first node, which becomes the last.
Reversed(h, c) ==
  LET s == Nodes(h, c)
      After(i) == IF i = 1 THEN Null ELSE s[i - 1]
  IN  IF s = <<>> THEN h
      ELSE [h EXCEPT !.next = [n \in DOMAIN @ |-> IF n = c THEN s[Len(s)]
                                                   ELSE IF n \in ToSet(s) THEN After(CHOOSE i \in DOMAIN s : s[i] = n)
                                                   ELSE @[n]]]

-----------------------------------------------------------------------------
(* Nodes made and destroyed. *)
Free(h) == {n \in DOMAIN h.val : h.val[n] = Raw}

\* x.at is the node last inserted.
InsertAllAfter(h, c, prev, vals) ==
  LET Step(x, v) ==
        LET n == CHOOSE n \in Free(x.h) : TRUE
        IN  IF Free(x.h) = {} THEN x
            ELSE [at |-> n, h |-> [x.h EXCEPT !.val[n] = v, !.size[c] = @ + 1,
                                              !.next = [@ EXCEPT ![n] = x.h.next[x.at], ![x.at] = n]]]
  IN  FoldLeft(Step, [h |-> h, at |-> prev], vals)

EraseAfter(h, c, prev) ==
  LET n == h.next[prev]
  IN  [h EXCEPT !.next[prev] = h.next[n], !.val[n] = Raw, !.size[c] = @ - 1]

EraseUpTo(h, c, prev, last) ==
  LET gone == Chain(h.next, h.next[prev], last)
  IN  [h EXCEPT !.next[prev] = last, !.size[c] = @ - Len(gone),
                !.val = [n \in DOMAIN @ |-> IF n \in ToSet(gone) THEN Raw ELSE @[n]]]

\* DoAssign and DoAssignValues.
AssignAll(h, c, vals) ==
  LET s == Nodes(h, c)
      k == IF Len(s) < Len(vals) THEN Len(s) ELSE Len(vals)
      g == FoldLeft(LAMBDA x, i : [x EXCEPT !.val[s[i]] = vals[i]], h, [i \in 1 .. k |-> i])
      prev == IF k = 0 THEN c ELSE s[k]
  IN  IF k = Len(vals) THEN EraseUpTo(g, c, prev, Null)
      ELSE InsertAllAfter(g, c, prev, SubSeq(vals, k + 1, Len(vals))).h

\* remove and remove_if; x.at is the last node kept.
remove_if(h, c, key) ==
  LET Step(x, n) == IF KeyOf(x.h.val[n]) = key THEN [x EXCEPT !.h = EraseAfter(@, c, x.at)]
                    ELSE [x EXCEPT !.at = n]
  IN  FoldLeft(Step, [h |-> h, at |-> c], Nodes(h, c)).h

unique(h, c) ==
  LET s == Nodes(h, c)
      Step(x, n) == IF KeyOf(x.h.val[x.at]) = KeyOf(x.h.val[n]) THEN [x EXCEPT !.h = EraseAfter(@, c, x.at)]
                    ELSE [x EXCEPT !.at = n]
  IN  IF s = <<>> THEN h ELSE FoldLeft(Step, [h |-> h, at |-> s[1]], Tail(s)).h

\* The values are sorted, not the nodes.
Sorts == INSTANCE Algorithms
sort(h, c) ==
  LET s == Nodes(h, c)
      t == Sorts!comb_sort(ValuesOf(h, s))
  IN  FoldLeft(LAMBDA x, i : [x EXCEPT !.val[s[i]] = t[i]], h, [i \in DOMAIN s |-> i])

-----------------------------------------------------------------------------
(* The calls. *)
Finish(h, done) == obj' = h /\ call' = done /\ UNCHANGED prog
Counted(h, c, d, n) == [h EXCEPT !.size = [@ EXCEPT ![c] = @ + n, ![d] = @ - n]]

\* push_front, emplace_after, insert, which looks for the node before the
\* position, and insert_after, of one element or several.
Insert(c, vals) ==
  \E i \in 0 .. size(c) :
    LET prev == GetPrevious(obj, c, Place(obj, c, i))
        h == InsertAllAfter(obj, c, prev, vals).h
        k == Cardinality(Free(obj)) - Cardinality(Free(h))
    IN  Finish(h, Inserted(c, i, SubSeq(vals, 1, k)))

\* pop_front, erase and erase_after, of one element or several, resize
\* downwards and clear.
EraseOne(c) ==
  \E i \in 0 .. size(c) - 1 :
    Finish(EraseAfter(obj, c, GetPrevious(obj, c, Place(obj, c, i))), Erased(c, i, i + 1))

EraseRange(c) ==
  \E i \in 0 .. size(c) : \E j \in i .. size(c) :
    Finish(EraseUpTo(obj, c, GetPrevious(obj, c, Place(obj, c, i)), Place(obj, c, j)), Erased(c, i, j))

Assign(c, vals) ==
  LET h == AssignAll(obj, c, vals) IN Finish(h, Assigned(c, SubSeq(vals, 1, h.size[c])))

swap(h, c, d) ==
  [h EXCEPT !.next = [@ EXCEPT ![c] = h.next[d], ![d] = h.next[c]],
            !.size = [@ EXCEPT ![c] = h.size[d], ![d] = h.size[c]]]

Swap(c, d) == c # d /\ Finish(swap(obj, c, d), Swapped(c, d))
MoveFrom(c, d) == c # d /\ Finish(swap(EraseUpTo(obj, c, c, Null), c, d), Taken(c, d))

Spliced(c, at, d, from, to) ==
  [op |-> "splice", of |-> c, at |-> at, with |-> d, from |-> from, to |-> to]

\* splice, before a position, of a whole list, of one element and of a range.
Splice(c, d) ==
  \E p \in 0 .. size(c) :
    LET this == GetPrevious(obj, c, Place(obj, c, p))
        Prior(n) == GetPrevious(obj, d, n)
    IN  \/ /\ c # d
           /\ Finish(Counted(IF size(d) = 0 THEN obj ELSE SpliceAfter(obj, this, d, Prior(Null)), c, d, size(d)),
                     Spliced(c, p, d, 0, size(d)))
        \/ \E i \in 0 .. size(d) - 1 :
             Finish(Counted(SpliceAfter(obj, this, Prior(Place(obj, d, i)), Place(obj, d, i)), c, d, 1),
                    Spliced(c, p, d, i, i + 1))
        \/ \E i \in 0 .. size(d) : \E j \in i + 1 .. size(d) :
             /\ c = d => p \notin i .. j - 1
             /\ Finish(Counted(SpliceAfter(obj, this, Prior(Place(obj, d, i)),
                                           GetPrevious(obj, Place(obj, d, i), Place(obj, d, j))), c, d, j - i),
                       Spliced(c, p, d, i, j))

\* splice_after, of a whole list, of what follows i, and of what follows first,
\* with last.
SpliceBehind(c, d) ==
  \E p \in -1 .. size(c) - 1 :
    LET this == Place(obj, c, p) IN
    \/ /\ c # d
       /\ Finish(Counted(SpliceRest(obj, this, d), c, d, size(d)), Spliced(c, p + 1, d, 0, size(d)))
    \/ /\ c # d
       /\ \E i \in -1 .. size(d) - 1 :
            /\ i = size(d) - 2 \/ prog.rests
            /\ Finish(Counted(SpliceRest(obj, this, Place(obj, d, i)), c, d, 1),
                      Spliced(c, p + 1, d, i + 1, size(d)))
    \/ \E i \in -1 .. size(d) - 1 : \E j \in i + 1 .. size(d) - 1 :
         /\ c = d => p \notin i + 1 .. j - 1
         /\ Finish(Counted(SpliceAfter(obj, this, Place(obj, d, i), Place(obj, d, j)), c, d, j - i),
                   Spliced(c, p + 1, d, i + 1, j + 1))

Sort(c) == Finish(sort(obj, c), [op |-> "sort_unstable", of |-> c])
Reversal(c) == Finish(Reversed(obj, c), [op |-> "reverse", of |-> c])
Unique(c) == Finish(unique(obj, c), [op |-> "unique", of |-> c])

\* The value given to remove is not one of the list.
RemoveEqual(c) ==
  \E v \in prog.values :
    Finish(remove_if(obj, c, KeyOf(v)), Removed(c, {x \in prog.values : KeyOf(x) = KeyOf(v)}))

Next ==
  \E c \in prog.objs :
    \/ \E vals \in BoundedSeq(prog.values, prog.range) : Insert(c, vals) \/ Assign(c, vals)
    \/ EraseOne(c) \/ EraseRange(c) \/ Sort(c) \/ Reversal(c) \/ Unique(c) \/ RemoveEqual(c)
    \/ \E d \in prog.objs :
         \/ Splice(c, d) \/ SpliceBehind(c, d) \/ Swap(c, d) \/ MoveFrom(c, d)
         \/ (c # d /\ Assign(c, Contents(d)))

Spec == Init /\ [][Next]_vars

-----------------------------------------------------------------------------
\* The chains end, share no node, and hold every node that was made and not
\* destroyed; and mSize counts them (validate(), slist.h:1724-1740).
LinksExact ==
  LET Total(k, c) == k + Len(Nodes(obj, c))
      nodes == UNION {ToSet(Nodes(obj, c)) : c \in prog.objs}
  IN  /\ \A c \in prog.objs : obj.size[c] = Len(Nodes(obj, c))
      /\ nodes = DOMAIN obj.val \ Free(obj)
      /\ Cardinality(nodes) = FoldSet(LAMBDA c, k : Total(k, c), 0, prog.objs)
=============================================================================
