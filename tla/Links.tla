------------------------------- MODULE Links -------------------------------
(* Nodes that are linked, for list, intrusive_list and slist.  A heap h has   *)
(* h.next and h.prev, which map nodes, and the anchors of lists, to their     *)
(* neighbours, and h.val, what each node holds: a value, or Raw for a node    *)
(* that is not allocated.                                                     *)
EXTENDS Integers, FiniteSets, Sequences, SequencesExt

CONSTANTS Raw, KeyOf(_)

Less(h, a, b) == KeyOf(h.val[a]) < KeyOf(h.val[b])

\* The nodes from one to before another, as far as the links lead.
RECURSIVE Walk(_, _, _, _)
Walk(next, from, to, k) ==
  IF k = 0 \/ from = to THEN <<>> ELSE <<from>> \o Walk(next, next[from], to, k - 1)
Chain(next, from, to) == Walk(next, from, to, Cardinality(DOMAIN next))

Ring(h, c) == Chain(h.next, h.next[c], c)
ValuesOf(h, nodes) == [i \in DOMAIN nodes |-> h.val[nodes[i]]]

\* The iterator at a position: a node, or the anchor at the end.
At(h, c, i) == LET r == Ring(h, c) IN IF i < Len(r) THEN r[i + 1] ELSE c

-----------------------------------------------------------------------------
(* ListNodeBase: the assignments of each function, in their order. *)
Before(h, n, p) ==
  [h EXCEPT !.next = [@ EXCEPT ![n] = p, ![h.prev[p]] = n], !.prev = [@ EXCEPT ![n] = h.prev[p], ![p] = n]]

Unlink(h, n) ==
  [h EXCEPT !.prev = [@ EXCEPT ![h.next[n]] = h.prev[n]], !.next = [@ EXCEPT ![h.prev[n]] = h.next[n]]]

\* [first, last) goes before this; last must not be this.
SpliceBefore(h, this, first, last) ==
  [h EXCEPT
     !.next = [@ EXCEPT ![h.prev[last]] = this, ![h.prev[first]] = last, ![h.prev[this]] = first],
     !.prev = [@ EXCEPT ![this] = h.prev[last], ![last] = h.prev[first], ![first] = h.prev[this]]]

\* [first, final], which is in no list, goes before this.
InsertRange(h, this, first, final) ==
  [h EXCEPT !.next = [@ EXCEPT ![h.prev[this]] = first, ![final] = this],
            !.prev = [@ EXCEPT ![first] = h.prev[this], ![this] = final]]

RemoveRange(h, first, final) ==
  [h EXCEPT !.prev = [@ EXCEPT ![h.next[final]] = h.prev[first]],
            !.next = [@ EXCEPT ![h.prev[first]] = h.next[final]]]

ReverseRing(h, this) ==
  LET ring == {this} \cup ToSet(Ring(h, this))
  IN  [h EXCEPT !.next = [n \in DOMAIN @ |-> IF n \in ring THEN h.prev[n] ELSE @[n]],
                !.prev = [n \in DOMAIN @ |-> IF n \in ring THEN h.next[n] ELSE @[n]]]

\* The anchors are exchanged, and their neighbours put right; an empty list was
\* linked to itself and now is to the other.
SwapAnchors(h, a, b) ==
  LET x == [h EXCEPT !.next = [@ EXCEPT ![a] = h.next[b], ![b] = h.next[a]],
                     !.prev = [@ EXCEPT ![a] = h.prev[b], ![b] = h.prev[a]]]
      Fix(y, c, other) ==
        IF y.next[c] = other
        THEN [y EXCEPT !.next = [@ EXCEPT ![c] = c], !.prev = [@ EXCEPT ![c] = c]]
        ELSE [y EXCEPT !.prev = [@ EXCEPT ![y.next[c]] = c], !.next = [@ EXCEPT ![y.prev[c]] = c]]
  IN  Fix(Fix(x, a, b), b, a)

\* The rings of the anchors hold each allocated node once and no other, and the
\* links agree both ways.
RingsExact(h, anchors) ==
  LET rings == {Ring(h, c) : c \in anchors}
      nodes == {n \in DOMAIN h.val : h.val[n] # Raw}
  IN  /\ \A c \in anchors : \A n \in {c} \cup ToSet(Ring(h, c)) : h.prev[h.next[n]] = n
      /\ UNION {ToSet(r) : r \in rings} = nodes
      /\ FoldSet(LAMBDA c, k : k + Len(Ring(h, c)), 0, anchors) = Cardinality(nodes)
=============================================================================
