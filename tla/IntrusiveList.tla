---------------------------- MODULE IntrusiveList ----------------------------
(* intrusive_list (include/EASTL/intrusive_list.h, source/intrusive_list.cpp): *)
(* the nodes are the user's, the list has nothing but its anchor.              *)
(* intrusive_sdlist (bonus/intrusive_sdlist.h) has a pointer for an anchor, its *)
(* last node leads nowhere, and h.prev has of a node whose mpNext leads to it:  *)
(* a node's or the list's.                                                     *)
(*                                                                            *)
(* obj is the heap of all the lists of a program (see Links).  A node that is  *)
(* in no list is Raw, and has the value it is given when it is inserted.       *)
EXTENDS Links, Calls, TLC

CONSTANT Programs   \* kind; objs, the lists; values; nodes, how many there are

VARIABLES
  prog, obj,
  call   \* the last call and its result, as in Sequence

vars == <<prog, obj, call>>

Null == 0   \* no node
IsSD == prog.kind = "intrusive_sdlist"

Init ==
  /\ prog \in Programs
  /\ LET linked == (1 .. prog.nodes) \cup prog.objs
     IN  obj = [next |-> [n \in linked |-> IF IsSD THEN Null ELSE n],
                prev |-> [n \in linked |-> IF IsSD THEN Null ELSE n],
                val |-> [n \in 1 .. prog.nodes |-> Raw]]
  /\ call = Quiet

\* From begin() to end(): of an intrusive_list the anchor, else a null pointer.
Nodes(c) == IF IsSD THEN Chain(obj.next, obj.next[c], Null) ELSE Ring(obj, c)
Contents(c) == ValuesOf(obj, Nodes(c))
size(c) == Len(Nodes(c))

-----------------------------------------------------------------------------
push_front(h, c, x) ==
  LET front == h.next[c]
  IN  [h EXCEPT !.next = [@ EXCEPT ![x] = front, ![c] = x], !.prev = [@ EXCEPT ![x] = c, ![front] = x]]

push_back(h, c, x) ==
  LET back == h.prev[c]
  IN  [h EXCEPT !.prev = [@ EXCEPT ![x] = back, ![c] = x], !.next = [@ EXCEPT ![x] = c, ![back] = x]]

insert(h, pos, x) ==
  LET prev == h.prev[pos]
  IN  [h EXCEPT !.next = [@ EXCEPT ![prev] = x, ![x] = pos], !.prev = [@ EXCEPT ![pos] = x, ![x] = prev]]

\* pop_front, pop_back, erase(pos) and remove(x); the node is in no list then.
Leave(h, n) == [Unlink(h, n) EXCEPT !.val[n] = Raw]

erase(h, first, last) ==
  LET gone == ToSet(Chain(h.next, first, last))
  IN  [h EXCEPT !.next[h.prev[first]] = last, !.prev[last] = h.prev[first],
                !.val = [n \in DOMAIN @ |-> IF n \in gone THEN Raw ELSE @[n]]]

\* splice(pos, x) and splice(pos, list, i), when i may already be where it goes.
SpliceElement(h, pos, x) == IF pos = x THEN h ELSE insert(Unlink(h, x), pos, x)

\* The whole of d before pos.
SpliceAll(h, pos, d) ==
  LET prev == h.prev[pos]  front == h.next[d]  back == h.prev[d]
  IN  IF front = d THEN h
      ELSE [h EXCEPT !.next = [@ EXCEPT ![prev] = front, ![back] = pos, ![d] = d],
                     !.prev = [@ EXCEPT ![front] = prev, ![pos] = back, ![d] = d]]

\* A range is taken out before its new neighbours are looked up.
SpliceRange(h, pos, first, last) ==
  LET final == h.prev[last]
  IN  IF first = last THEN h ELSE InsertRange(RemoveRange(h, first, final), pos, first, final)

\* The rest of a merge, from first in c and firstX in d.
RECURSIVE MergeFrom(_, _, _, _, _)
MergeFrom(h, c, d, first, firstX) ==
  IF firstX = d THEN h
  ELSE IF first = c THEN SpliceRange(h, c, firstX, d)
  ELSE IF Less(h, firstX, first)
  THEN MergeFrom(SpliceRange(h, first, firstX, h.next[firstX]), c, d, first, h.next[firstX])
  ELSE MergeFrom(h, c, d, h.next[first], firstX)

merge(h, c, d) == MergeFrom(h, c, d, h.next[c], h.next[d])

\* x.at is the last element kept.
unique(h, c) ==
  LET ring == Ring(h, c)
      Step(x, n) == IF KeyOf(x.h.val[x.at]) = KeyOf(x.h.val[n]) THEN [x EXCEPT !.h = Leave(@, n)]
                    ELSE [x EXCEPT !.at = n]
  IN  IF ring = <<>> THEN h ELSE FoldLeft(Step, [h |-> h, at |-> ring[1]], Tail(ring)).h

\* The halves go to two local lists, whose anchors are numbered from k, are
\* sorted, and come back merged.
RECURSIVE SortFrom(_, _, _)
SortFrom(h, c, k) ==
  LET left == -2 * k  right == -2 * k - 1
      locals == [a \in {left, right} |-> a]
      mid == At(h, c, Len(Ring(h, c)) \div 2)
      split == SpliceRange([h EXCEPT !.next = locals @@ @, !.prev = locals @@ @], left, h.next[c], mid)
      halves == SpliceAll(split, right, c)
      sorted == SortFrom(SortFrom(halves, left, 2 * k), right, 2 * k + 1)
  IN  IF h.next[c] = c \/ h.next[c] = h.prev[c] THEN h
      ELSE merge(SpliceAll(sorted, sorted.next[c], left), c, right)

sort(h, c) ==
  LET s == SortFrom(h, c, 1)
  IN  [s EXCEPT !.next = [n \in DOMAIN h.next |-> @[n]], !.prev = [n \in DOMAIN h.prev |-> @[n]]]

-----------------------------------------------------------------------------
(* The calls. *)
Finish(h, done) == obj' = h /\ call' = done /\ UNCHANGED prog

\* A node that is in no list.
Free(x) == obj.val[x] = Raw /\ \A y \in 1 .. x - 1 : obj.val[y] # Raw

Insert(c, v) ==
  \E x \in 1 .. prog.nodes :
    /\ Free(x)
    /\ LET h == [obj EXCEPT !.val[x] = v]
       IN  \/ Finish(push_front(h, c, x), Inserted(c, 0, <<v>>))
           \/ Finish(push_back(h, c, x), Inserted(c, size(c), <<v>>))
           \/ \E i \in 0 .. size(c) : Finish(insert(h, At(h, c, i), x), Inserted(c, i, <<v>>))

\* pop_front, pop_back, erase and remove.
EraseOne(c) ==
  \E i \in 0 .. size(c) - 1 : Finish(Leave(obj, At(obj, c, i)), Erased(c, i, i + 1))

\* Also clear().
EraseRange(c) ==
  \E i \in 0 .. size(c) : \E j \in i .. size(c) :
    Finish(erase(obj, At(obj, c, i), At(obj, c, j)), Erased(c, i, j))

Swap(c, d) == c # d /\ Finish(SwapAnchors(obj, c, d), Swapped(c, d))

Spliced(c, at, d, from, to) ==
  [op |-> "splice", of |-> c, at |-> at, with |-> d, from |-> from, to |-> to]

Splice(c, d) ==
  \E p \in 0 .. size(c) :
    LET pos == At(obj, c, p)
    IN  \/ c # d /\ Finish(SpliceAll(obj, pos, d), Spliced(c, p, d, 0, size(d)))
        \/ \E i \in 0 .. size(d) - 1 :
             Finish(SpliceElement(obj, pos, At(obj, d, i)), Spliced(c, p, d, i, i + 1))
        \/ \E i \in 0 .. size(d) : \E j \in i .. size(d) :
             /\ c = d => p \notin i .. j - 1
             /\ Finish(SpliceRange(obj, pos, At(obj, d, i), At(obj, d, j)), Spliced(c, p, d, i, j))

Merge(c, d) == c # d /\ Finish(merge(obj, c, d), [op |-> "merge", of |-> c, with |-> d])
Sort(c) == Finish(sort(obj, c), [op |-> "sort", of |-> c])
Reversal(c) == Finish(ReverseRing(obj, c), [op |-> "reverse", of |-> c])
Unique(c) == Finish(unique(obj, c), [op |-> "unique", of |-> c])

-----------------------------------------------------------------------------
(* intrusive_sdlist.  What is written through a null pointer is the caller's   *)
(* to avoid: pop_front of the only element, insert at end() and erase of the   *)
(* last element (intrusive_sdlist.h:293, 489, 500).                            *)
sd_push_front(h, c, x) ==
  LET front == h.next[c]
  IN  [h EXCEPT !.next = [@ EXCEPT ![x] = front, ![c] = x],
                !.prev = [n \in DOMAIN @ |-> IF n = x THEN c ELSE IF n = front THEN x ELSE @[n]]]

sd_push_back(h, c, x) ==
  LET ring == Nodes(c)  last == IF ring = <<>> THEN c ELSE Last(ring)
  IN  [h EXCEPT !.next = [@ EXCEPT ![last] = x, ![x] = Null], !.prev[x] = last]

sd_pop_front(h, c) ==
  LET second == h.next[h.next[c]]
  IN  [h EXCEPT !.next[c] = second, !.prev[second] = c, !.val[h.next[c]] = Raw]

sd_pop_back(h, c) ==
  LET back == Last(Nodes(c)) IN [h EXCEPT !.next[h.prev[back]] = Null, !.val[back] = Raw]

sd_insert(h, pos, x) ==
  LET prev == h.prev[pos]
  IN  [h EXCEPT !.prev = [@ EXCEPT ![x] = prev, ![pos] = x], !.next = [@ EXCEPT ![x] = pos, ![prev] = x]]

\* Also erase(pos): a node needs no list to leave it.
sd_remove(h, x) ==
  [h EXCEPT !.next[h.prev[x]] = h.next[x],
            !.prev = [n \in DOMAIN @ |-> IF n = h.next[x] THEN h.prev[x] ELSE @[n]],
            !.val[x] = Raw]

sd_erase(h, c, i, j) ==
  LET ring == Nodes(c)
      last == IF j = Len(ring) THEN Null ELSE ring[j + 1]
      prev == h.prev[ring[i + 1]]
  IN  IF i = Len(ring) THEN h
      ELSE [h EXCEPT !.next[prev] = last,
                     !.prev = [n \in DOMAIN @ |-> IF n = last THEN prev ELSE @[n]],
                     !.val = [n \in DOMAIN @ |-> IF n \in {ring[k] : k \in i + 1 .. j} THEN Raw ELSE @[n]]]

\* The first node of each list is told that it is where it was.
sd_swap(h, c, d) ==
  [h EXCEPT !.next = [@ EXCEPT ![c] = h.next[d], ![d] = h.next[c]],
            !.prev = [n \in DOMAIN @ |-> IF n = h.next[c] THEN c ELSE IF n = h.next[d] THEN d ELSE @[n]]]

SDInsert(c, v) ==
  \E x \in 1 .. prog.nodes :
    /\ Free(x)
    /\ LET h == [obj EXCEPT !.val[x] = v]
       IN  \/ Finish(sd_push_front(h, c, x), Inserted(c, 0, <<v>>))
           \/ Finish(sd_push_back(h, c, x), Inserted(c, size(c), <<v>>))
           \/ \E i \in 1 .. size(c) : Finish(sd_insert(h, Nodes(c)[i], x), Inserted(c, i - 1, <<v>>))

\* erase returns the iterator it was given, to an element that is gone.
SDEraseOne(c) ==
  \/ size(c) > 1 /\ Finish(sd_pop_front(obj, c), Replaced(c, 0, 1, <<>>))
  \/ size(c) > 0 /\ Finish(sd_pop_back(obj, c), Replaced(c, size(c) - 1, size(c), <<>>))
  \/ \E i \in 1 .. size(c) : Finish(sd_remove(obj, Nodes(c)[i]), Replaced(c, i - 1, i, <<>>))

SDEraseRange(c) ==
  \E i \in 0 .. size(c) : \E j \in i .. size(c) : Finish(sd_erase(obj, c, i, j), Erased(c, i, j))

SDClear(c) ==
  Finish([obj EXCEPT !.next[c] = Null,
                     !.val = [n \in DOMAIN @ |-> IF n \in ToSet(Nodes(c)) THEN Raw ELSE @[n]]],
         Assigned(c, <<>>))

\* Of lists with elements the links are not put right (intrusive_sdlist.h:541).
SDSwap(c, d) ==
  /\ c # d /\ size(c) = 0 /\ size(d) = 0
  /\ Finish(sd_swap(obj, c, d), Swapped(c, d))

-----------------------------------------------------------------------------
ListNext ==
  \E c \in prog.objs :
    \/ \E v \in prog.values : Insert(c, v)
    \/ EraseOne(c) \/ EraseRange(c) \/ Sort(c) \/ Reversal(c) \/ Unique(c)
    \/ \E d \in prog.objs : Swap(c, d) \/ Splice(c, d) \/ Merge(c, d)

SDListNext ==
  \E c \in prog.objs :
    \/ \E v \in prog.values : SDInsert(c, v)
    \/ SDEraseOne(c) \/ SDEraseRange(c) \/ SDClear(c)
    \/ \E d \in prog.objs : SDSwap(c, d)

Next == IF IsSD THEN SDListNext ELSE ListNext

Spec == Init /\ [][Next]_vars

-----------------------------------------------------------------------------
\* Every node is in at most one list, once, and the links of the lists agree
\* both ways (validate(), intrusive_list.cpp:29-68), also where a node is spliced
\* before itself or its successor and a range before its own end.  In an
\* intrusive_sdlist each node knows whose mpNext leads to it: without that,
\* remove (intrusive_sdlist.h:525) cuts another list.
LinksExact ==
  IF IsSD
  THEN /\ \A c \in prog.objs : \A i \in 1 .. size(c) : obj.prev[Nodes(c)[i]] = (<<c>> \o Nodes(c))[i]
       /\ UNION {ToSet(Nodes(c)) : c \in prog.objs} = {n \in DOMAIN obj.val : obj.val[n] # Raw}
       /\ \A c, d \in prog.objs : c # d => ToSet(Nodes(c)) \cap ToSet(Nodes(d)) = {}
  ELSE RingsExact(obj, prog.objs)
=============================================================================
