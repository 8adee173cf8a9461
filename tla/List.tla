-------------------------------- MODULE List --------------------------------
(* list (include/EASTL/list.h): nodes in a ring with the anchor that the list  *)
(* object holds, and the cached mSize.                                         *)
(*                                                                            *)
(* obj is the heap of all the lists of a program (see Links), with the mSize   *)
(* of each in obj.size; nodes are numbered, and a list is its own anchor.  An  *)
(* allocation throws when no node is left: what was inserted before stays.     *)
EXTENDS Links, Calls

CONSTANT
  Programs   \* what a behaviour may do: objs, the lists; values, what is
             \* inserted; nodes, how many there are; range, the bound on the
             \* arguments of one call; at_last, whether a list splices a range of
             \* its own before the end of that range

VARIABLES
  prog, obj,
  call   \* the last call and its result, as in Sequence

vars == <<prog, obj, call>>

Init ==
  /\ prog \in Programs
  /\ obj = [next |-> [n \in (1 .. prog.nodes) \cup prog.objs |-> n],
            prev |-> [n \in (1 .. prog.nodes) \cup prog.objs |-> n],
            val |-> [n \in 1 .. prog.nodes |-> Raw],
            size |-> [c \in prog.objs |-> 0]]
  /\ call = Quiet

Contents(c) == ValuesOf(obj, Ring(obj, c))
size(c) == obj.size[c]

-----------------------------------------------------------------------------
(* Nodes made and destroyed. *)
Free(h) == {n \in DOMAIN h.val : h.val[n] = Raw}

DoInsertValue(h, c, pos, v) ==
  LET n == CHOOSE n \in Free(h) : TRUE
  IN  IF Free(h) = {} THEN h
      ELSE Before([h EXCEPT !.val[n] = v, !.size[c] = @ + 1], n, pos)

\* DoInsert and DoInsertValues.
InsertAll(h, c, pos, vals) == FoldLeft(LAMBDA g, v : DoInsertValue(g, c, pos, v), h, vals)

DoErase(h, c, n) == [Unlink(h, n) EXCEPT !.val[n] = Raw, !.size[c] = @ - 1]
EraseAll(h, c, nodes) == FoldLeft(LAMBDA g, n : DoErase(g, c, n), h, nodes)

clear(h, c) ==
  LET nodes == ToSet(Ring(h, c))
  IN  [h EXCEPT !.val = [n \in DOMAIN @ |-> IF n \in nodes THEN Raw ELSE @[n]],
                !.next[c] = c, !.prev[c] = c, !.size[c] = 0]

\* DoAssign and DoAssignValues: over the elements there are, then erasing or
\* inserting the rest.
AssignAll(h, c, vals) ==
  LET ring == Ring(h, c)
      k == IF Len(ring) < Len(vals) THEN Len(ring) ELSE Len(vals)
      g == FoldLeft(LAMBDA x, i : [x EXCEPT !.val[ring[i]] = vals[i]], h, [i \in 1 .. k |-> i])
  IN  IF k = Len(vals) THEN EraseAll(g, c, SubSeq(ring, k + 1, Len(ring)))
      ELSE InsertAll(g, c, c, SubSeq(vals, k + 1, Len(vals)))

-----------------------------------------------------------------------------
(* Nodes moved. *)

\* Mutant: the size stays with the list the elements were in.
SpliceUncounted(h, c, pos, d, first, last) ==
  IF first = last THEN h ELSE SpliceBefore(h, pos, first, last)

Splice(h, c, pos, d, first, last) ==
  LET n == Len(Chain(h.next, first, last))
  IN  IF n = 0 THEN h
      ELSE [SpliceBefore(h, pos, first, last) EXCEPT
              !.size = [@ EXCEPT ![c] = @ + n, ![d] = @ - n]]

\* splice(position, x, i) checks that i is not where it should go.
SpliceOne(h, c, pos, d, i) ==
  IF pos \in {i, h.next[i]} THEN h
  ELSE [SpliceBefore(h, pos, i, h.next[i]) EXCEPT !.size = [@ EXCEPT ![c] = @ + 1, ![d] = @ - 1]]

\* The rest of a merge, from first in c and firstX in d.
RECURSIVE MergeFrom(_, _, _, _, _)
MergeFrom(h, c, d, first, firstX) ==
  IF firstX = d THEN h
  ELSE IF first = c THEN Splice(h, c, c, d, firstX, d)
  ELSE IF Less(h, firstX, first)
  THEN MergeFrom(Splice(h, c, first, d, firstX, h.next[firstX]), c, d, first, h.next[firstX])
  ELSE MergeFrom(h, c, d, h.next[first], firstX)

remove_if(h, c, key) == EraseAll(h, c, SelectSeq(Ring(h, c), LAMBDA n : KeyOf(h.val[n]) = key))

\* x.at is the last element kept.
unique(h, c) ==
  LET ring == Ring(h, c)
      Step(x, n) == IF KeyOf(x.h.val[x.at]) = KeyOf(x.h.val[n]) THEN [x EXCEPT !.h = DoErase(@, c, n)]
                    ELSE [x EXCEPT !.at = n]
  IN  IF ring = <<>> THEN h ELSE FoldLeft(Step, [h |-> h, at |-> ring[1]], Tail(ring)).h

-----------------------------------------------------------------------------
(* DoSort: of n nodes from i1 to before end2; it returns the first.           *)

\* The nodes from first on that are less than i, put before it; ix is next.
CutLess(h, first, end, i) ==
  LET nodes == Chain(h.next, h.next[first], end)
      stop == {k \in DOMAIN nodes : ~Less(h, nodes[k], i)}
      ix == IF stop = {} THEN end ELSE nodes[Min(stop)]
      final == h.prev[ix]
  IN  [ix |-> ix, h |-> InsertRange(RemoveRange(h, first, final), i, first, final)]

RECURSIVE MergeHalves(_, _, _, _, _)
MergeHalves(h, i1, end1, i2, end2) ==
  IF i1 = end1 \/ i2 = end2 THEN h
  ELSE IF ~Less(h, i2, i1) THEN MergeHalves(h, h.next[i1], end1, i2, end2)
  ELSE LET x == CutLess(h, i2, end2, i1)
       IN  MergeHalves(x.h, x.h.next[i1], IF end1 = i2 THEN x.ix ELSE end1, x.ix, end2)

MoveBefore(h, n, p) == Before(Unlink(h, n), n, p)

SortTwo(h, i1, end2) ==
  LET e == h.prev[end2]
  IN  IF Less(h, e, i1) THEN [h |-> MoveBefore(h, e, i1), first |-> e] ELSE [h |-> h, first |-> i1]

\* Three by insertion.
SortThree(h, i1, end2) ==
  LET m == h.next[i1]  z == h.next[m]
      lower == IF Less(h, m, i1) THEN m ELSE i1
      lowest == IF Less(h, z, lower) THEN z ELSE lower
      g == IF lowest = i1 THEN h ELSE MoveBefore(h, lowest, i1)
      second == IF lowest = i1 THEN m ELSE i1
      e == g.prev[end2]
  IN  [h |-> IF Less(g, e, second) THEN MoveBefore(g, e, second) ELSE g, first |-> lowest]

RECURSIVE DoSort(_, _, _, _)
DoSort(h, i1, end2, n) ==
  LET end1 == Chain(h.next, i1, end2)[(n \div 2) + 1]
      a == DoSort(h, i1, end1, n \div 2)
      b == DoSort(a.h, end1, end2, n - n \div 2)
      x == CutLess(b.h, b.first, end2, a.first)
  IN  IF n < 2 THEN [h |-> h, first |-> i1]
      ELSE IF n = 2 THEN SortTwo(h, i1, end2)
      ELSE IF n = 3 THEN SortThree(h, i1, end2)
      ELSE IF Less(b.h, b.first, a.first)
      THEN [first |-> b.first, h |-> MergeHalves(x.h, x.h.next[a.first], x.ix, x.ix, end2)]
      ELSE [first |-> a.first, h |-> MergeHalves(b.h, b.h.next[a.first], b.first, b.first, end2)]

-----------------------------------------------------------------------------
(* The calls. *)
Finish(h, done) == obj' = h /\ call' = done /\ UNCHANGED prog

\* Where an iterator is in a list.
Position(h, c, it) == Len(Chain(h.next, h.next[c], it))

\* emplace, insert and push_, one element or several; what was inserted before
\* an allocation threw.  They return the iterator after the one that was before
\* position.
Insert(c, vals) ==
  \E i \in 0 .. size(c) :
    LET pos == At(obj, c, i)
        h == InsertAll(obj, c, pos, vals)
        k == Cardinality(Free(obj)) - Cardinality(Free(h))
    IN  Finish(h, [Inserted(c, i, SubSeq(vals, 1, k)) EXCEPT
                     !.result = Position(h, c, h.next[obj.prev[pos]])])

\* erase and pop_, and resize downwards.
Erase(c) ==
  \E i \in 0 .. size(c) : \E j \in i .. size(c) :
    LET last == At(obj, c, j)
        h == EraseAll(obj, c, Chain(obj.next, At(obj, c, i), last))
    IN  Finish(h, [Erased(c, i, j) EXCEPT !.result = Position(h, c, last)])

Clear(c) == Finish(clear(obj, c), Erased(c, 0, size(c)))

\* assign, and operator= of another list.
Assign(c, vals) ==
  LET h == AssignAll(obj, c, vals)
  IN  Finish(h, Assigned(c, SubSeq(vals, 1, h.size[c])))

swap(h, c, d) ==
  [SwapAnchors(h, c, d) EXCEPT !.size = [@ EXCEPT ![c] = h.size[d], ![d] = h.size[c]]]

Swap(c, d) == c # d /\ Finish(swap(obj, c, d), Swapped(c, d))
MoveFrom(c, d) == c # d /\ Finish(swap(clear(obj, c), c, d), Taken(c, d))

Spliced(c, at, d, from, to) ==
  [op |-> "splice", of |-> c, at |-> at, with |-> d, from |-> from, to |-> to]

\* splice of a whole list, of one element and of a range.
SpliceAll(c, d) ==
  /\ c # d
  /\ \E p \in 0 .. size(c) :
       Finish(Splice(obj, c, At(obj, c, p), d, obj.next[d], d), Spliced(c, p, d, 0, size(d)))

SpliceElement(c, d) ==
  \E p \in 0 .. size(c), i \in 0 .. size(d) - 1 :
    Finish(SpliceOne(obj, c, At(obj, c, p), d, At(obj, d, i)), Spliced(c, p, d, i, i + 1))

\* The position is not within the range.
SpliceRange(c, d) ==
  \E p \in 0 .. size(c), i \in 0 .. size(d) : \E j \in i .. size(d) :
    /\ c = d => p \notin i .. j - 1 /\ (p = j => i = j \/ prog.at_last)
    /\ Finish(Splice(obj, c, At(obj, c, p), d, At(obj, d, i), At(obj, d, j)), Spliced(c, p, d, i, j))

Merge(c, d) ==
  /\ c # d
  /\ Finish(MergeFrom(obj, c, d, obj.next[c], obj.next[d]), [op |-> "merge", of |-> c, with |-> d])

Sort(c) == Finish(DoSort(obj, obj.next[c], c, size(c)).h, [op |-> "sort", of |-> c])
Reversal(c) == Finish(ReverseRing(obj, c), [op |-> "reverse", of |-> c])
Unique(c) == Finish(unique(obj, c), [op |-> "unique", of |-> c])

\* remove and remove_if; the value given to remove is not one of the list.
RemoveEqual(c) ==
  \E v \in prog.values :
    Finish(remove_if(obj, c, KeyOf(v)), Removed(c, {x \in prog.values : KeyOf(x) = KeyOf(v)}))

Next ==
  \E c \in prog.objs :
    \/ \E vals \in BoundedSeq(prog.values, prog.range) : Insert(c, vals) \/ Assign(c, vals)
    \/ Erase(c) \/ Clear(c) \/ Sort(c) \/ Reversal(c) \/ Unique(c) \/ RemoveEqual(c)
    \/ \E d \in prog.objs :
         \/ SpliceElement(c, d) \/ SpliceRange(c, d) \/ SpliceAll(c, d) \/ Merge(c, d)
         \/ Swap(c, d) \/ MoveFrom(c, d) \/ (c # d /\ Assign(c, Contents(d)))

Spec == Init /\ [][Next]_vars

-----------------------------------------------------------------------------
\* Every node that was made and not destroyed is in the ring of one list, once,
\* with links that agree both ways, and mSize counts the ring (validate(),
\* list.h:2031-2046): whatever was spliced, merged, sorted or swapped before.
LinksExact ==
  /\ RingsExact(obj, prog.objs)
  /\ \A c \in prog.objs : obj.size[c] = Len(Ring(obj, c))
=============================================================================
