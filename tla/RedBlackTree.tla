---------------------------- MODULE RedBlackTree ----------------------------
(* The red-black tree behind set, map, multiset and multimap                  *)
(* (include/EASTL/internal/red_black_tree.h, source/red_black_tree.cpp):      *)
(* search, insertion with and without a hint, erasure, both rebalancing       *)
(* loops, iteration, copy and swap, at the grain of one turn of a loop.       *)
(*                                                                            *)
(* A tree is named by its anchor, the node inside the container whose parent  *)
(* is the root, whose left kid is the first element and whose right kid the   *)
(* last.  The two sides are mirror images in the code, and a parameter here.  *)
EXTENDS Integers, FiniteSets, Sequences

CONSTANTS
  Nodes,    \* the nodes that can be allocated, each with its value
  KeyOf,    \* the key of each node's value
  Trees,    \* the anchors
  Programs, \* the trees, the nodes and the kind of container of each program
  NULL

ASSUME TreeAssumption ==
  /\ IsFiniteSet(Nodes) /\ NULL \notin Nodes \cup Trees
  /\ Nodes \cap Trees = {}
  /\ KeyOf \in [Nodes -> Int]
  /\ Programs \subseteq [trees : SUBSET Trees, nodes : SUBSET Nodes, unique : BOOLEAN]

VARIABLES
  prog,   \* which of the programs this is
  t,      \* the links and colours of all nodes and anchors
  size,   \* mnSize of each tree
  pc      \* the rebalancing loop in progress, if any

vars == <<prog, t, size, pc>>

Side == {"left", "right"}
Other(s) == IF s = "left" THEN "right" ELSE "left"
Color == {"red", "black"}
Links == Nodes \cup Trees

\* TRUE for set and map, FALSE for multiset and multimap.
Unique == prog.unique

Idle == [op |-> "idle"]

\* Links lead to nodes and anchors only, sizes do not go below zero, and a loop
\* stands on a node of a tree (red_black_tree.h:96-105, 468-469).
TypeOK ==
  /\ prog \in Programs
  /\ t \in [kid : [Side -> [Links -> Links \cup {NULL}]],
            parent : [Links -> Links \cup {NULL}],
            color : [Links -> Color]]
  /\ size \in [Trees -> Nat]
  /\ \/ pc = Idle
     \/ pc \in [op : {"insert"}, tree : Trees, node : Nodes]
     \/ pc \in [op : {"erase"}, tree : Trees, child : Nodes \cup {NULL}, up : Links]

\* reset_lose_memory of every tree.
Init ==
  /\ prog \in Programs
  /\ t = [kid |-> [s \in Side |-> [n \in Links |-> IF n \in Trees THEN n ELSE NULL]],
          parent |-> [n \in Links |-> NULL],
          color |-> [n \in Links |-> IF n \in Trees THEN "red" ELSE "black"]]
  /\ size = [a \in Trees |-> 0]
  /\ pc = Idle

Root(u, a) == u.parent[a]
Red(u, n) == n # NULL /\ u.color[n] = "red"
SideOf(u, n) == IF u.kid["left"][u.parent[n]] = n THEN "left" ELSE "right"
SetKid(u, s, n, m) == [u EXCEPT !.kid[s][n] = m]
SetParent(u, n, p) == IF n = NULL THEN u ELSE [u EXCEPT !.parent[n] = p]
Paint(u, n, c) == IF n = NULL THEN u ELSE [u EXCEPT !.color[n] = c]

\* The farthest node on one side below n: RBTreeGetMinChild, RBTreeGetMaxChild.
Farthest(u, n, s) ==
  LET f[m \in Nodes] == IF u.kid[s][m] = NULL THEN m ELSE f[u.kid[s][m]]
  IN  f[n]

\* The nodes of the subtree at n in order.
Below(u, n) ==
  LET f[m \in Nodes \cup {NULL}] ==
        IF m = NULL THEN <<>> ELSE f[u.kid["left"][m]] \o <<m>> \o f[u.kid["right"][m]]
  IN  f[n]

InOrder(u, a) == Below(u, Root(u, a))
Members(u, a) == LET o == InOrder(u, a) IN {o[i] : i \in DOMAIN o}
Used == UNION {Members(t, a) : a \in Trees}

\* The loops of RBTreeIncrement and RBTreeDecrement that climb while the node
\* is the kid on side s of its parent: the last pNode and pNodeTemp.
Climb(u, n, s) ==
  LET f[m \in Links] == LET p == u.parent[m]
                        IN  IF m = u.kid[s][p] THEN f[p] ELSE [node |-> m, temp |-> p]
  IN  f[n]

RBTreeIncrement(u, n) ==
  IF u.kid["right"][n] # NULL
  THEN Farthest(u, u.kid["right"][n], "left")
  ELSE LET c == Climb(u, n, "right")
       IN  IF u.kid["right"][c.node] # c.temp THEN c.temp ELSE c.node

RBTreeDecrement(u, n) ==
  IF u.parent[u.parent[n]] = n /\ Red(u, n) THEN u.kid["right"][n]
  ELSE IF u.kid["left"][n] # NULL THEN Farthest(u, u.kid["left"][n], "right")
  ELSE Climb(u, n, "left").temp

-----------------------------------------------------------------------------
(* Rotation and insertion.                                                    *)

\* n becomes the kid of its kid up on side s, and up takes n's parent.
Swing(u, n, up, s) ==
  LET mid == u.kid[s][up]
      v == SetParent(SetKid(u, Other(s), n, mid), mid, n)
  IN SetParent(SetKid(SetParent(v, up, u.parent[n]), s, up, n), n, up)

\* RBTreeRotateLeft and RBTreeRotateRight: n goes down on side s, and its kid on
\* the other side takes its place.
Rotate(u, a, n, s) ==
  LET up == u.kid[Other(s)][n]
  IN IF n = Root(u, a) THEN SetParent(Swing(u, n, up, s), a, up)
     ELSE SetKid(Swing(u, n, up, s), SideOf(u, n), u.parent[n], up)

\* Mutant: the last element is not updated.
AttachKeepsEnd(u, a, n, p, s) ==
  LET v == SetParent(Paint(SetKid(SetKid(u, "left", n, NULL), "right", n, NULL), n, "red"), n, p)
      w == SetKid(v, s, p, n)
  IN IF p = a THEN SetKid(SetParent(w, a, n), "right", a, n) ELSE w

\* RBTreeInsert before its loop: n becomes the kid of p on side s.
Attach(u, a, n, p, s) ==
  LET v == SetParent(Paint(SetKid(SetKid(u, "left", n, NULL), "right", n, NULL), n, "red"), n, p)
      w == SetKid(v, s, p, n)
  IN IF p = a THEN SetKid(SetParent(w, a, n), "right", a, n)
     ELSE IF p = v.kid[s][a] THEN SetKid(w, s, a, n)
     ELSE w

\* Where DoGetKeyInsertionPositionUniqueKeys and ...NonuniqueKeys get to: the
\* last node seen, and whether the search wanted to go left of it.
Descend(u, a, k) ==
  LET f[m \in Nodes] ==
        LET s == IF k < KeyOf[m] THEN "left" ELSE "right"
        IN  IF u.kid[s][m] = NULL THEN [node |-> m, less |-> s = "left"] ELSE f[u.kid[s][m]]
  IN  IF Root(u, a) = NULL THEN [node |-> a, less |-> TRUE] ELSE f[Root(u, a)]

\* canInsert of DoGetKeyInsertionPositionUniqueKeys; always TRUE for the others.
MayInsert(u, a, k) ==
  LET d == Descend(u, a, k)
      lower == IF d.less THEN RBTreeDecrement(u, d.node) ELSE d.node
  IN ~Unique \/ (d.less /\ d.node = u.kid["left"][a]) \/ KeyOf[lower] < k

\* DoInsertValueImpl chooses the side and calls RBTreeInsert.
InsertAt(a, n, p, forceLeft) ==
  LET s == IF forceLeft \/ p = a \/ KeyOf[n] < KeyOf[p] THEN "left" ELSE "right"
  IN /\ t' = Attach(t, a, n, p, s)
     /\ size' = [size EXCEPT ![a] = @ + 1]
     /\ pc' = [op |-> "insert", tree |-> a, node |-> n]

\* DoInsertValue; a value whose key is present is constructed and destroyed.
Insert(a, n) ==
  /\ pc = Idle
  /\ MayInsert(t, a, KeyOf[n]) = TRUE
  /\ InsertAt(a, n, Descend(t, a, KeyOf[n]).node, FALSE)

\* The tests of DoGetKeyInsertionPosition...Hint: does k fit right after node n?
FitsAfter(n, k) == IF Unique THEN KeyOf[n] < k ELSE KeyOf[n] <= k

\* Mutant: the element after the hint is not compared.
FitsBetweenUnchecked(n, next, k) == FitsAfter(n, k)
FitsBetween(n, next, k) == FitsAfter(n, k) /\ (IF Unique THEN k < KeyOf[next] ELSE k <= KeyOf[next])

\* DoInsertValueHint: next to the hint when the key fits there, behind the last
\* element when the hint is that or end(), and like DoInsertValue otherwise.
InsertHint(a, n, h) ==
  /\ pc = Idle
  /\ LET last == t.kid["right"][a]
         next == RBTreeIncrement(t, h)
     IN IF h \notin {last, a} /\ FitsBetween(h, next, KeyOf[n])
        THEN LET right == t.kid["right"][h] # NULL
             IN  InsertAt(a, n, IF right THEN next ELSE h, right)
        ELSE IF h \in {last, a} /\ size[a] # 0 /\ FitsAfter(last, KeyOf[n])
        THEN InsertAt(a, n, last, FALSE)
        ELSE Insert(a, n)

\* Mutant: the parent is taken for its own sibling.
UncleIsParent(u, p) == u.kid[SideOf(u, p)][u.parent[p]]

\* The sibling of p, which the code reads as the other kid of p's parent.
Uncle(u, p) == u.kid[Other(SideOf(u, p))][u.parent[p]]

\* Mutant: the loop does not move up after recolouring.
ClimbNowhere(u, n) == n

\* Where the loop goes on after recolouring.
ClimbTo(u, n) == u.parent[u.parent[n]]

\* One turn of the loop of RBTreeInsert, or its end.
InsertTurn ==
  /\ pc.op = "insert"
  /\ LET n == pc.node
         p == t.parent[n]
         g == t.parent[p]
         s == SideOf(t, p)
     IN IF n # Root(t, pc.tree) /\ Red(t, p)
        THEN IF Red(t, Uncle(t, p))
             THEN /\ t' = Paint(Paint(Paint(t, p, "black"), Uncle(t, p), "black"), g, "red")
                  /\ pc' = [pc EXCEPT !.node = ClimbTo(t, n)]
             ELSE LET inner == n = t.kid[Other(s)][p]
                      v == IF inner THEN Rotate(t, pc.tree, p, s) ELSE t
                      m == IF inner THEN p ELSE n
                  IN /\ t' = Rotate(Paint(Paint(v, v.parent[m], "black"), g, "red"),
                                    pc.tree, g, Other(s))
                     /\ pc' = [pc EXCEPT !.node = m]
        ELSE t' = Paint(t, Root(t, pc.tree), "black") /\ pc' = Idle
  /\ UNCHANGED size

-----------------------------------------------------------------------------
(* Erasure.                                                                   *)

\* Puts m where n hangs below its parent, or at the root.
Replace(u, a, n, m) ==
  IF n = Root(u, a) THEN SetParent(u, a, m) ELSE SetKid(u, SideOf(u, n), u.parent[n], m)

\* Mutant: erasing the first element leaves begin() on it.
DetachLeafKeepsEnds(u, a, n) ==
  LET child == IF u.kid["left"][n] = NULL THEN u.kid["right"][n] ELSE u.kid["left"][n]
  IN Replace(SetParent(u, child, u.parent[n]), a, n, child)

\* RBTreeErase of a node with at most one kid: the kid takes its place, and the
\* anchor's first and last element move when n was one of them.
DetachLeaf(u, a, n) ==
  LET child == IF u.kid["left"][n] = NULL THEN u.kid["right"][n] ELSE u.kid["left"][n]
      v == Replace(SetParent(u, child, u.parent[n]), a, n, child)
      ends == {s \in Side : n = v.kid[s][a]}
      end(s) == IF u.kid[Other(s)][n] # NULL /\ child # NULL
                THEN Farthest(v, child, s) ELSE u.parent[n]
  IN [v EXCEPT !.kid = [s \in Side |-> IF s \in ends THEN [v.kid[s] EXCEPT ![a] = end(s)]
                                       ELSE v.kid[s]]]

\* RBTreeErase of a node with two kids: its successor m takes its place and its
\* colour, and n gets the colour of m.
DetachInner(u, a, n) ==
  LET m == Farthest(u, u.kid["right"][n], "left")
      child == u.kid["right"][m]
      l == u.kid["left"][n]
      r == u.kid["right"][n]
      v == SetKid(SetParent(u, l, m), "left", m, l)
      w == IF m = r THEN v
           ELSE SetParent(SetKid(SetKid(SetParent(v, child, u.parent[m]), "left", u.parent[m], child),
                                 "right", m, r), r, m)
      x == SetParent(Replace(w, a, n, m), m, u.parent[n])
  IN Paint(Paint(x, m, u.color[n]), n, u.color[m])

\* What DoFreeNode leaves of a node.
Free(u, n) ==
  Paint(SetParent(SetKid(SetKid(u, "left", n, NULL), "right", n, NULL), n, NULL), n, "black")

\* erase(position), up to the loop of RBTreeErase: the node is unlinked, and when
\* it was black the paths through the place it leaves are one black short.
Erase(a, n) ==
  /\ pc = Idle
  /\ LET one == t.kid["left"][n] = NULL \/ t.kid["right"][n] = NULL
         m == Farthest(t, t.kid["right"][n], "left")
         child == IF one THEN IF t.kid["left"][n] = NULL THEN t.kid["right"][n]
                                                         ELSE t.kid["left"][n]
                  ELSE t.kid["right"][m]
         up == IF one THEN t.parent[n] ELSE IF m = t.kid["right"][n] THEN m ELSE t.parent[m]
         v == IF one THEN DetachLeaf(t, a, n) ELSE DetachInner(t, a, n)
     IN /\ t' = Free(v, n)
        /\ pc' = IF v.color[n] = "black"
                 THEN [op |-> "erase", tree |-> a, child |-> child, up |-> up]
                 ELSE Idle
  /\ size' = [size EXCEPT ![a] = @ - 1]

\* When the loop of RBTreeErase ends.
EraseDone(a, c) == c = Root(t, a) \/ Red(t, c)

\* One turn of the loop of RBTreeErase, or its end: the place below pc.up on the
\* side of pc.child is one black short.
EraseTurn ==
  /\ pc.op = "erase"
  /\ LET a == pc.tree
         c == pc.child
         p == pc.up
         s == IF c = t.kid["left"][p] THEN "left" ELSE "right"
         o == Other(s)
         red == Red(t, t.kid[o][p])
         \* the sibling is made black
         u == IF red THEN Rotate(Paint(Paint(t, t.kid[o][p], "black"), p, "red"), a, p, s) ELSE t
         w == u.kid[o][p]
         \* the sibling's outer kid is made red
         v == IF Red(u, u.kid[o][w]) THEN u
              ELSE Rotate(Paint(Paint(u, u.kid[s][w], "black"), w, "red"), a, w, o)
         x == v.kid[o][p]
     IN IF EraseDone(a, c)
        THEN t' = Paint(t, c, "black") /\ pc' = Idle
        ELSE IF ~Red(u, u.kid["left"][w]) /\ ~Red(u, u.kid["right"][w])
        THEN /\ t' = Paint(u, w, "red")
             /\ pc' = [pc EXCEPT !.child = p, !.up = u.parent[p]]
        ELSE /\ t' = LET y == Paint(Paint(v, x, v.color[p]), p, "black")
                     IN  Paint(Rotate(Paint(y, y.kid[o][x], "black"), a, p, s), c, "black")
             /\ pc' = Idle
  /\ UNCHANGED size

-----------------------------------------------------------------------------
(* Operations on whole trees.                                                 *)

\* What clear() leaves of the tree at a: its nodes freed, the anchor reset.
Cleared(u, a) ==
  LET gone == Members(u, a)
  IN [kid |-> [s \in Side |-> [n \in Links |-> IF n = a THEN a
                                               ELSE IF n \in gone THEN NULL ELSE u.kid[s][n]]],
      parent |-> [n \in Links |-> IF n \in gone \cup {a} THEN NULL ELSE u.parent[n]],
      color |-> [n \in Links |-> IF n \in gone THEN "black" ELSE u.color[n]]]

Clear(a) ==
  /\ pc = Idle
  /\ t' = Cleared(t, a)
  /\ size' = [size EXCEPT ![a] = 0]
  /\ UNCHANGED pc

\* Mutant: the root still has the other anchor for its parent.
AdoptKeepsParent(v, u, a, b) ==
  LET r == Root(u, b) IN
  [v EXCEPT !.parent[a] = r, !.kid["left"][a] = IF r = NULL THEN a ELSE u.kid["left"][b],
            !.kid["right"][a] = IF r = NULL THEN a ELSE u.kid["right"][b]]

\* v, in which the anchor a has taken over the tree that b has in u.
Adopt(v, u, a, b) ==
  LET r == Root(u, b)
      end(s) == IF r = NULL THEN a ELSE u.kid[s][b]
  IN SetParent(SetKid(SetKid(SetParent(v, a, r), "left", a, end("left")), "right", a, end("right")), r, a)

\* swap(x), all its cases.
Swap(a, b) ==
  /\ pc = Idle
  /\ t' = Adopt(Adopt(t, t, a, b), t, b, a)
  /\ size' = [size EXCEPT ![a] = size[b], ![b] = size[a]]
  /\ UNCHANGED pc

\* operator=(this_type&&): clear(), then swap().
MoveAssign(a, b) ==
  /\ pc = Idle /\ a # b
  /\ LET u == Cleared(t, a) IN t' = Adopt(Adopt(u, u, a, b), u, b, a)
  /\ size' = [size EXCEPT ![a] = size[b], ![b] = 0]
  /\ UNCHANGED pc

\* The nodes that DoCopySubtree creates for those of s: new ones, same values.
Copies(s, free) ==
  {m \in [s -> free] : /\ \A x \in s : KeyOf[m[x]] = KeyOf[x]
                       /\ \A x, y \in s : m[x] = m[y] => x = y}

\* u, in which the tree at a has become a copy of the one at b: m[x] that of x.
CopyTree(u, a, b, m) ==
  LET to(x) == IF x = b THEN a ELSE IF x \in DOMAIN m THEN m[x] ELSE x
      new == {m[x] : x \in DOMAIN m} \cup {a}
      from(y) == IF y = a THEN b ELSE CHOOSE x \in DOMAIN m : m[x] = y
  IN [kid |-> [d \in Side |-> [y \in Links |-> IF y \in new THEN to(u.kid[d][from(y)]) ELSE u.kid[d][y]]],
      parent |-> [y \in Links |-> IF y \in new THEN to(u.parent[from(y)]) ELSE u.parent[y]],
      color |-> [y \in Links |-> IF y \in new THEN u.color[from(y)] ELSE u.color[y]]]

\* operator=(const this_type&): clear(), then a copy of the tree, node by node.
CopyAssign(a, b) ==
  /\ pc = Idle /\ a # b
  /\ \E m \in Copies(Members(t, b), prog.nodes \ (Used \ Members(t, a))) :
       t' = CopyTree(Cleared(t, a), a, b, m)
  /\ size' = [size EXCEPT ![a] = size[b]]
  /\ UNCHANGED pc

-----------------------------------------------------------------------------
(* What a tree does with any element or position for an argument, one step of *)
(* a loop at a time; the containers choose the arguments.                     *)
HintedInsertion ==
  \E a \in prog.trees, n \in prog.nodes \ Used : \E h \in Members(t, a) \cup {a} : InsertHint(a, n, h)

Turn == InsertTurn \/ EraseTurn

Change ==
  \/ \E a \in prog.trees : Clear(a) \/ \E n \in Members(t, a) : Erase(a, n)
  \/ \E a, b \in prog.trees : Swap(a, b) \/ MoveAssign(a, b) \/ CopyAssign(a, b)

TreeNext ==
  /\ UNCHANGED prog
  /\ \/ \E a \in prog.trees, n \in prog.nodes \ Used : Insert(a, n)
     \/ HintedInsertion \/ Turn \/ Change

TreeSpec == Init /\ [][TreeNext]_vars

-----------------------------------------------------------------------------
(* Properties.                                                                *)

\* Every node hangs below the parent it names, the anchor is its own tree's only
\* parent of the root, the ends it names are the first and the last element, and
\* the size is the number of nodes: at every turn of either loop
\* (red_black_tree.cpp:130-181, 204-222, 318-396).
LinksExact ==
  /\ TypeOK
  /\ \A a \in Trees :
       LET o == InOrder(t, a) IN
       /\ size[a] = Len(o)
       /\ t.color[a] = "red"
       /\ IF o = <<>> THEN t.kid["left"][a] = a /\ t.kid["right"][a] = a
          ELSE /\ t.kid["left"][a] = o[1] /\ t.kid["right"][a] = o[Len(o)]
               /\ t.parent[Root(t, a)] = a
       /\ \A b \in Trees \ {a} : Members(t, a) \cap Members(t, b) = {}
  /\ \A n \in Used, s \in Side : t.kid[s][n] # NULL => t.parent[t.kid[s][n]] = n

\* The black nodes from n down to a leaf, when all paths have the same number;
\* the place that an erasure has left one short counts one more.  -1 when not.
Owed(n, s) == pc.op = "erase" /\ pc.up = n /\ pc.child = t.kid[s][n]
              /\ (s = "left" \/ t.kid["left"][n] # pc.child)
BlackHeight(a) ==
  LET f[n \in Nodes \cup {NULL}] ==
        IF n = NULL THEN 0
        ELSE LET l == f[t.kid["left"][n]] + IF Owed(n, "left") THEN 1 ELSE 0
                 r == f[t.kid["right"][n]] + IF Owed(n, "right") THEN 1 ELSE 0
             IN IF l # r THEN -1000 ELSE l + IF t.color[n] = "black" THEN 1 ELSE 0
  IN f[Root(t, a)]

\* The red-black rules hold between operations, and in a loop only the rule it
\* is about to repair is broken, at the one place it looks at: a red node below
\* a red one at pc.node, or one black too few at pc.child, which may be red
\* (red_black_tree.cpp:225-284, 399-488).
Balanced ==
  /\ \A a \in Trees : BlackHeight(a) >= 0
  /\ \A n \in Used : Red(t, n) /\ Red(t, t.parent[n]) =>
       \/ t.parent[n] \in Trees /\ pc.op # "idle" /\ pc.tree = t.parent[n]
       \/ pc.op = "insert" /\ pc.node = n
       \/ pc.op = "erase" /\ pc.child \in {n, t.parent[n]}
  /\ pc = Idle => \A a \in Trees : ~Red(t, Root(t, a))

\* Both rebalancing loops end: each turn looks at a place nearer to the root than
\* the one before, or at a red one that the next turn only has to paint
\* (red_black_tree.cpp:225-281, 401-484).
Depth(u, n) ==
  LET f[m \in Links] == IF m \in Trees THEN 0 ELSE 1 + f[u.parent[m]]
  IN  f[n]
LoopsClimb ==
  [][/\ pc.op = "insert" /\ pc' # Idle => Depth(t', pc'.node) < Depth(t, pc.node)
     /\ pc.op = "erase" /\ pc' # Idle => \/ Depth(t', pc'.up) < Depth(t, pc.up)
                                         \/ Red(t', pc'.child)]_vars

-----------------------------------------------------------------------------
(* What red_black_tree.h, set.h and map.h build on the tree: the searches, and *)
(* the operations that walk from element to element and erase on the way.     *)
VARIABLES
  walk,   \* the iterators of an erasure that is under way, if any
  due     \* the elements it has still to reach (a history of what it was given)

wvars == <<vars, walk, due>>

NoWalk == [op |-> "none"]

WTypeOK ==
  /\ TypeOK
  /\ due \subseteq Nodes
  /\ \/ walk = NoWalk
     \/ walk \in [op : {"range", "if"}, tree : Trees, next : Links, last : Links]

WInit == Init /\ walk = NoWalk /\ due = {}

-----------------------------------------------------------------------------
(* Searches: each goes down from the root and remembers the last node from    *)
(* which it went left.                                                        *)

\* DoLowerBound.
LowerBound(u, a, k) ==
  LET f[m \in Nodes \cup {NULL}, end \in Links] ==
        IF m = NULL THEN end
        ELSE IF KeyOf[m] < k THEN f[u.kid["right"][m], end] ELSE f[u.kid["left"][m], m]
  IN  f[Root(u, a), a]

\* DoUpperBound.
UpperBound(u, a, k) ==
  LET f[m \in Nodes \cup {NULL}, end \in Links] ==
        IF m = NULL THEN end
        ELSE IF k < KeyOf[m] THEN f[u.kid["left"][m], m] ELSE f[u.kid["right"][m], end]
  IN  f[Root(u, a), a]

\* DoFind and find_as: the first element that is not less, if it is not greater.
Find(u, a, k) ==
  LET n == LowerBound(u, a, k) IN IF n # a /\ ~(k < KeyOf[n]) THEN n ELSE a

\* set::DoEqualRange, which takes one step where a multiset searches twice.
UniqueRange(u, a, k) ==
  LET n == LowerBound(u, a, k)
  IN  IF n = a \/ k < KeyOf[n] THEN <<n, n>> ELSE <<n, RBTreeIncrement(u, n)>>

\* multiset::DoEqualRange.
EqualRange(u, a, k) == <<LowerBound(u, a, k), UpperBound(u, a, k)>>

\* multiset::DoEqualRangeSmall: from the lower bound up, while nothing is greater.
EqualRangeSmall(u, a, k) ==
  LET f[n \in Links] == IF n # a /\ ~(k < KeyOf[n]) THEN f[RBTreeIncrement(u, n)] ELSE n
      n0 == LowerBound(u, a, k)
  IN  <<n0, f[n0]>>

\* The elements from one position up to another.
Span(u, a, first, last) ==
  LET f[n \in Links] == IF n = last THEN <<>> ELSE <<n>> \o f[RBTreeIncrement(u, n)]
  IN  f[first]

\* multiset::DoCount, the length of the range.
DoCount(u, a, k) == LET r == EqualRange(u, a, k) IN Len(Span(u, a, r[1], r[2]))

\* validate(): what the tree itself checks of its ends, colours, order and size.
BlackCount(u, a, n) ==
  LET f[m \in Links] == IF m = a THEN 0
                        ELSE f[u.parent[m]] + (IF u.color[m] = "black" THEN 1 ELSE 0)
  IN  f[n]
Validate(u, a) ==
  LET o == Span(u, a, u.kid["left"][a], a)
      l(n) == u.kid["left"][n]
      r(n) == u.kid["right"][n]
  IN  IF size[a] = 0 THEN l(a) = a /\ r(a) = a
      ELSE /\ l(a) = Farthest(u, Root(u, a), "left") /\ r(a) = Farthest(u, Root(u, a), "right")
           /\ Len(o) = size[a]
           /\ \A i \in DOMAIN o :
                /\ Red(u, o[i]) => ~Red(u, l(o[i])) /\ ~Red(u, r(o[i]))
                /\ r(o[i]) # NULL => ~(KeyOf[r(o[i])] < KeyOf[o[i]])
                /\ l(o[i]) # NULL => ~(KeyOf[o[i]] < KeyOf[l(o[i])])
                /\ l(o[i]) = NULL /\ r(o[i]) = NULL =>
                     BlackCount(u, a, o[i]) = BlackCount(u, a, l(a))

-----------------------------------------------------------------------------
(* Erasure of a range, of a key and by a predicate.                           *)

Resting == pc = Idle /\ walk = NoWalk

\* erase(first, last): everything is cleared, anything less is erased one by one.
EraseRange(a, first, last) ==
  IF first = t.kid["left"][a] /\ last = a THEN Clear(a) /\ UNCHANGED <<walk, due>>
  ELSE /\ walk' = [op |-> "range", tree |-> a, next |-> first, last |-> last]
       /\ due' = LET s == Span(t, a, first, last) IN {s[i] : i \in DOMAIN s}
       /\ UNCHANGED <<t, size, pc>>

\* set::DoErase(k).
EraseUnique(a, k) ==
  /\ Find(t, a, k) # a
  /\ Erase(a, Find(t, a, k))
  /\ UNCHANGED <<walk, due>>

\* multiset::DoErase(k).
EraseEqual(a, k) ==
  LET r == EqualRange(t, a, k) IN r[1] # r[2] /\ EraseRange(a, r[1], r[2])

\* erase_if(c, predicate), which may keep any element.
EraseIf(a) ==
  /\ walk' = [op |-> "if", tree |-> a, next |-> t.kid["left"][a], last |-> a]
  /\ due' = Members(t, a)
  /\ UNCHANGED <<t, size, pc>>

\* Mutant: the loop goes on where the element before the erased one was.
EraseAndReturn(a, n) == Erase(a, n) /\ walk' = [walk EXCEPT !.next = RBTreeDecrement(t, n)]

\* erase(position), which moves on before the node is erased and returns where.
EraseAndMove(a, n) == Erase(a, n) /\ walk' = [walk EXCEPT !.next = RBTreeIncrement(t, n)]

\* One turn of the loop of erase(first, last) or erase_if, or its end.
WalkTurn ==
  /\ pc = Idle /\ walk # NoWalk
  /\ IF walk.next = walk.last
     THEN walk' = NoWalk /\ UNCHANGED <<t, size, pc, due>>
     ELSE /\ due' = due \ {walk.next}
          /\ \/ EraseAndMove(walk.tree, walk.next)
             \/ /\ walk.op = "if"
                /\ walk' = [walk EXCEPT !.next = RBTreeIncrement(t, walk.next)]
                /\ UNCHANGED <<t, size, pc>>

\* map::operator[] and insert_or_assign when the key is absent: an insertion with
\* the lower bound for a hint, which the tree takes for the element before.
Subscript(a, n) ==
  LET low == LowerBound(t, a, KeyOf[n])
  IN  ~(low # a /\ KeyOf[low] <= KeyOf[n]) /\ InsertHint(a, n, low)

\* try_emplace constructs the node once it has found that the key is absent.
TryEmplace(a, n) ==
  MayInsert(t, a, KeyOf[n]) = TRUE /\ InsertAt(a, n, Descend(t, a, KeyOf[n]).node, FALSE)

-----------------------------------------------------------------------------
(* list_map (include/EASTL/bonus/list_map.h): a map whose elements are also   *)
(* linked in the order in which they were pushed.  The nodes are those of the *)
(* tree, and each operation works on the two structures one after the other.  *)

VARIABLES
  links,   \* mpNext and mpPrev of the nodes, and of mNode, which an anchor stands for
  coming,  \* the node that the tree has been given and the list has not
  line     \* the elements in the order of the pushes (a history)

lvars == <<links, coming, line>>

Nobody == [at |-> "none"]

LInit ==
  /\ links = [next |-> [n \in Links |-> IF n \in Trees THEN n ELSE NULL],
              prev |-> [n \in Links |-> IF n \in Trees THEN n ELSE NULL]]
  /\ coming = Nobody
  /\ line = [a \in Trees |-> <<>>]

\* list_map_data: a node starts, and after DoFreeNode ends, without neighbours.
Apart(h, gone) ==
  [next |-> [n \in Links |-> IF n \in gone THEN NULL ELSE h.next[n]],
   prev |-> [n \in Links |-> IF n \in gone THEN NULL ELSE h.prev[n]]]

\* push_front and push_back: the tree is asked first, and refuses a key it has.
Push(a, n, end) ==
  /\ Resting /\ coming = Nobody
  /\ Insert(a, n)
  /\ coming' = [at |-> end, tree |-> a, node |-> n]
  /\ UNCHANGED <<links, line>>

\* The second half of push_front.
LinkFront(h, a, n) ==
  [next |-> [h.next EXCEPT ![n] = h.next[a], ![a] = n],
   prev |-> [h.prev EXCEPT ![n] = a, ![h.next[a]] = n]]

\* The second half of push_back.
LinkBack(h, a, n) ==
  [prev |-> [h.prev EXCEPT ![n] = h.prev[a], ![a] = n],
   next |-> [h.next EXCEPT ![n] = a, ![h.prev[a]] = n]]

Join ==
  /\ pc = Idle /\ coming # Nobody
  /\ LET a == coming.tree
         n == coming.node
     IN  IF coming.at = "front"
         THEN links' = LinkFront(links, a, n) /\ line' = [line EXCEPT ![a] = <<n>> \o @]
         ELSE links' = LinkBack(links, a, n) /\ line' = [line EXCEPT ![a] = Append(@, n)]
  /\ coming' = Nobody
  /\ UNCHANGED vars

\* The neighbours of n are linked to each other.
Unlink(h, n) ==
  [prev |-> [h.prev EXCEPT ![h.next[n]] = h.prev[n]],
   next |-> [h.next EXCEPT ![h.prev[n]] = h.next[n]]]

\* erase(key): off the list, then off the tree.
EraseKey(a, k) ==
  LET n == Find(t, a, k) IN
  /\ Resting /\ coming = Nobody
  /\ n # a
  /\ links' = Apart(Unlink(links, n), {n})
  /\ Erase(a, n)
  /\ UNCHANGED coming

\* pop_front and pop_back: the key is read in the node that is to go.
PopFront(a) == /\ size[a] # 0 /\ EraseKey(a, KeyOf[links.next[a]])
               /\ line' = [line EXCEPT ![a] = Tail(@)]
PopBack(a) == /\ size[a] # 0 /\ EraseKey(a, KeyOf[links.prev[a]])
              /\ line' = [line EXCEPT ![a] = SubSeq(@, 1, Len(@) - 1)]

\* erase(position): the iterator is moved on, then the key is looked up again.
EraseAt(a, n) == /\ EraseKey(a, KeyOf[n])
                 /\ line' = [line EXCEPT ![a] = SelectSeq(@, LAMBDA m : m # n)]

\* clear(): the tree's, then mNode is alone.
ClearBoth(a) ==
  /\ Resting /\ coming = Nobody
  /\ Clear(a)
  /\ links' = LET h == Apart(links, Members(t, a))
              IN  [next |-> [h.next EXCEPT ![a] = a], prev |-> [h.prev EXCEPT ![a] = a]]
  /\ line' = [line EXCEPT ![a] = <<>>]
  /\ UNCHANGED coming

ListMapStep ==
  \/ \E a \in prog.trees, n \in prog.nodes \ Used, end \in {"front", "back"} : Push(a, n, end)
  \/ Join
  \/ \E a \in prog.trees : \/ PopFront(a) \/ PopBack(a) \/ ClearBoth(a)
                           \/ \E n \in Members(t, a) : EraseAt(a, n)
  \/ Turn /\ UNCHANGED lvars

-----------------------------------------------------------------------------
\* The elements from one end to the other, as far as the links lead.
Along(step, a) ==
  LET from[n \in Links \cup {NULL}, k \in 0 .. Cardinality(Nodes)] ==
        IF n \in {a, NULL} \/ k = 0 THEN <<>> ELSE <<n>> \o from[step[n], k - 1]
  IN  from[step[a], Cardinality(Nodes)]

\* validate(): the tree's, and both ways along the list everything is in the tree.
ListValidate(a) ==
  /\ Validate(t, a)
  /\ \A step \in {links.next, links.prev} :
       LET s == Along(step, a)
       IN  Len(s) = size[a] /\ \A i \in DOMAIN s : Find(t, a, KeyOf[s[i]]) # a

\* Between two operations, and while the tree is rebalanced after one, the list
\* has the elements in their order, both ways.
ListExact(a) ==
  LET s == line[a]
      new == IF coming # Nobody /\ coming.tree = a THEN {coming.node} ELSE {}
  IN  /\ Along(links.next, a) = s
      /\ Along(links.prev, a) = [i \in DOMAIN s |-> s[Len(s) + 1 - i]]
      /\ links.prev[links.next[a]] = a /\ links.next[links.prev[a]] = a
      /\ Members(t, a) = new \cup {s[i] : i \in DOMAIN s}
      /\ pc = Idle /\ coming = Nobody => ListValidate(a)
=============================================================================
