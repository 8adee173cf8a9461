------------------------ MODULE RedBlackTreeProofs -------------------------
(* The trees are linked, sized and balanced as they should be at every step   *)
(* of any program (RedBlackTreeLinks has what its links mean).                *)
(*                                                                            *)
(* Balance alone is not inductive: between two turns of a loop one node may   *)
(* be red below a red one, or one place be one black node short.  So the      *)
(* invariant gives each node its black height, says which place is short and  *)
(* ties it to where the loop stands.  A lemma for each turn moves that place  *)
(* up or ends the loop; one for each call says where the loop begins.         *)
EXTENDS RedBlackTreeLinks
-----------------------------------------------------------------------------
(* The black heights. *)

\* The black height of the subtree at a kid that may be NULL.
Level(ht, k) == IF k = NULL THEN 0 ELSE ht[k]
\* What a node adds to it.
Black(u, n) == IF u.color[n] = "black" THEN 1 ELSE 0

\* The place below q on side e is one black short (there is none when q is NULL).
Short(q, e, n, s) == IF q = n /\ e = s THEN 1 ELSE 0

\* ht is the number of black nodes on every way down from each node.
EvenAt(u, ht, q, e, n, s) == ht[n] = Level(ht, u.kid[s][n]) + Short(q, e, n, s) + Black(u, n)
\* The heights of all nodes of trees, with the one place that is short.
Even(u, g, ht, q, e) ==
  /\ ht \in [Nodes -> Nat]
  /\ \A n \in Nodes, s \in Side : g.own[n] # NULL => EvenAt(u, ht, q, e, n, s)

\* A red node is not below a red one, but for those in X and those below one of Y.
\* An anchor is red, so this says of a root that it is black.
Calm(u, g, X, Y) ==
  \A n \in Nodes : g.own[n] # NULL /\ u.color[n] = "red" /\ u.color[u.parent[n]] = "red" =>
    n \in X \/ u.parent[n] \in Y

\* A node that is linked in red adds nothing to any height, and only it can be red below
\* a red node (red_black_tree.cpp:197-222).
LEMMA AttachEven ==
  ASSUME NEW u, NEW g, Shape(u, g), NEW a \in Trees, NEW n \in Nodes, g.own[n] = NULL,
         NEW s \in Side, NEW p,
         \/ p = a /\ g.len[a] = 0 /\ s = "left"
         \/ p \in Nodes /\ g.own[p] = a /\ u.kid[s][p] = NULL,
         NEW h, h.own = [g.own EXCEPT ![n] = a],
         NEW ht, NEW e, Even(u, g, ht, NULL, e), Calm(u, g, {}, {})
  PROVE  LET r == Attach(u, a, n, p, s)
         IN  Even(r, h, [ht EXCEPT ![n] = 0], NULL, e) /\ Calm(r, h, {n}, {}) /\ r.color[n] = "red"
  <1> DEFINE r == Attach(u, a, n, p, s)
             hu == [ht EXCEPT ![n] = 0]
  <1>0. Nodal(u, g) /\ g \in Ghosts /\ ht \in [Nodes -> Nat]
    BY DEF Shape, Nodal, Even
  <1>1. /\ \A x \in Links : r.color[x] = IF x = n THEN "red" ELSE u.color[x]
        /\ \A x \in Nodes, d \in Side :
             r.kid[d][x] = IF x = n THEN NULL ELSE IF d = s /\ x = p THEN n ELSE u.kid[d][x]
        /\ \A x \in Nodes : r.parent[x] = IF x = n THEN p ELSE u.parent[x]
    BY AttachLinks
  <1> HIDE DEF r
  <1>2. \A x \in Nodes : h.own[x] = IF x = n THEN a ELSE g.own[x]
    BY <1>0 DEF Ghosts
  <1>3. hu \in [Nodes -> Nat] /\ hu[n] = 0 /\ \A x \in Nodes : x # n => hu[x] = ht[x]
    BY <1>0
  <1> HIDE DEF hu
  <1>4. \A x \in Nodes : x \in Links /\ x # NULL
    BY Disjoint
  <1>5. ASSUME NEW x \in Nodes, NEW d \in Side, h.own[x] # NULL
        PROVE  EvenAt(r, hu, NULL, e, x, d)
    <2>1. CASE x = n
      <3>1. r.kid[d][n] = NULL /\ r.color[n] = "red" /\ NULL # n
        BY <1>1, <1>4
      <3>2. QED
        BY <1>3, <2>1, <3>1 DEF EvenAt, Level, Short, Black
    <2>2. CASE x # n
      <3>1. g.own[x] # NULL
        BY <1>2, <1>5, <2>2
      <3>2. EvenAt(u, ht, NULL, e, x, d)
        BY <3>1 DEF Even
      <3>3. Level(hu, r.kid[d][x]) = Level(ht, u.kid[d][x])
        <4>1. CASE d = s /\ x = p
          <5>1. u.kid[d][x] = NULL /\ r.kid[d][x] = n
            BY <1>1, <2>2, <4>1, Disjoint
          <5>2. QED
            BY <1>3, <5>1 DEF Level
        <4>2. CASE ~(d = s /\ x = p)
          <5>1. r.kid[d][x] = u.kid[d][x]
            BY <1>1, <2>2, <4>2
          <5>2. u.kid[d][x] # NULL => u.kid[d][x] \in Nodes /\ u.kid[d][x] # n
            BY <1>0, <3>1, KidLinks
          <5>3. QED
            BY <1>3, <5>1, <5>2 DEF Level
        <4>3. QED
          BY <4>1, <4>2
      <3>4. Black(r, x) = Black(u, x)
        BY <1>1, <1>4, <2>2 DEF Black
      <3>5. QED
        BY <1>3, <2>2, <3>2, <3>3, <3>4 DEF EvenAt
    <2>3. QED
      BY <2>1, <2>2
  <1>6. ASSUME NEW x \in Nodes, h.own[x] # NULL, r.color[x] = "red", r.color[r.parent[x]] = "red", x # n
        PROVE  FALSE
    <2>1. g.own[x] # NULL /\ r.parent[x] = u.parent[x]
      BY <1>1, <1>2, <1>6
    <2>2. u.parent[x] \in Links
      BY <1>0, <2>1, NodeFacts, Sides
    <2>3. u.parent[x] # n
      BY <1>0, <1>4, <2>1, ParentFacts
    <2>4. u.color[x] = "red" /\ u.color[u.parent[x]] = "red"
      BY <1>1, <1>4, <1>6, <2>1, <2>2, <2>3
    <2>5. QED
      BY <2>1, <2>4 DEF Calm
  <1>7. Even(r, h, hu, NULL, e)
    BY <1>3, <1>5 DEF Even
  <1>8. Calm(r, h, {n}, {})
    BY <1>6 DEF Calm
  <1>9. QED
    BY <1>1, <1>4, <1>7, <1>8 DEF r, hu

\* Painting a node that is in a tree changes no more than its colour.
LEMMA PaintShape ==
  ASSUME NEW u, NEW g, Shape(u, g), NEW c \in Color,
         NEW n \in Nodes \cup {NULL}, n # NULL => g.own[n] # NULL
  PROVE  /\ Paint(u, n, c) \in Graph /\ Painted(Paint(u, n, c), u, n, c)
         /\ Shape(Paint(u, n, c), g)
  <1> DEFINE r == Paint(u, n, c)
  <1>0. u \in Graph /\ g \in Ghosts /\ NodesAt(u, g) /\ TreesAt(u, g)
    BY DEF Shape, Nodal
  <1>1. n \in Links \cup {NULL} /\ n \notin Trees
    BY Disjoint
  <1>2. r \in Graph /\ Painted(r, u, n, c)
    BY <1>0, <1>1, PaintIs
  <1> HIDE DEF r
  <1>3. /\ \A x \in Links : r.parent[x] = u.parent[x]
        /\ \A x \in Links : r.color[x] = IF x = n THEN c ELSE u.color[x]
        /\ \A x \in Links, d \in Side : r.kid[d][x] = u.kid[d][x]
        /\ \A x \in Nodes : x \in Links /\ x # NULL
        /\ \A x \in Trees : x \in Links /\ x # n
        /\ \A x \in Nodes : g.own[x] \in Trees \cup {NULL}
        /\ "left" \in Side /\ "right" \in Side
    BY <1>0, <1>1, <1>2, Disjoint DEF Painted, Side, Ghosts
  <1>4. ASSUME NEW x \in Nodes
        PROVE  IF g.own[x] = NULL THEN Loose(r, x) ELSE Placed(r, g, x)
    <2>1. CASE g.own[x] = NULL
      <3>1. Loose(u, x) /\ x # n
        BY <1>0, <1>3, <2>1 DEF NodesAt
      <3>2. Loose(r, x)
        BY <1>3, <3>1 DEF Loose
      <3>3. QED
        BY <2>1, <3>2
    <2>2. CASE g.own[x] # NULL
      <3>1. Placed(u, g, x)
        BY <1>0, <2>2 DEF NodesAt
      <3>2. ASSUME NEW d \in Side, KidAt(u, g, x, d)
            PROVE  KidAt(r, g, x, d)
        BY <1>3, <3>2 DEF KidAt
      <3>3. ParentAt(r, g, x)
        <4>1. ParentAt(u, g, x)
          BY <3>1 DEF Placed
        <4>2. QED
          BY <1>3, <2>2, <4>1 DEF ParentAt
      <3>4. Placed(r, g, x)
        BY <1>3, <3>1, <3>2, <3>3 DEF Placed
      <3>5. QED
        BY <2>2, <3>4
    <2>3. QED
      BY <2>1, <2>2
  <1>5. ASSUME NEW b \in Trees
        PROVE  /\ r.color[b] = "red"
               /\ \A i \in 1 .. g.len[b] : g.at[b][i] \in Nodes /\ g.own[g.at[b][i]] = b /\ g.pos[g.at[b][i]] = i
               /\ AnchorAt(r, g, b)
    <2>1. /\ u.color[b] = "red"
          /\ \A i \in 1 .. g.len[b] : g.at[b][i] \in Nodes /\ g.own[g.at[b][i]] = b /\ g.pos[g.at[b][i]] = i
          /\ AnchorAt(u, g, b)
      BY <1>0 DEF TreesAt
    <2>2. r.parent[b] = u.parent[b] /\ r.kid["left"][b] = u.kid["left"][b] /\ r.kid["right"][b] = u.kid["right"][b]
          /\ r.color[b] = u.color[b]
      BY <1>3
    <2>3. AnchorAt(r, g, b)
      BY <1>3, <2>1, <2>2 DEF AnchorAt
    <2>4. QED
      BY <2>1, <2>2, <2>3
  <1>6. NodesAt(r, g) /\ TreesAt(r, g)
    BY <1>4, <1>5, SMTT(30), ZenonT(30) DEF NodesAt, TreesAt
  <1>7. QED
    BY <1>0, <1>2, <1>6 DEF Shape, Nodal, r

\* Only colours differ.
SameLinks(w, u) == \A x \in Links : w.parent[x] = u.parent[x] /\ \A d \in Side : w.kid[d][x] = u.kid[d][x]

\* Where a rotation leaves the kids.
LEMMA RotateKids ==
  ASSUME NEW u, NEW g, NEW w, Shape(w, g), SameLinks(w, u), NEW a \in Trees, NEW n \in Nodes, g.own[n] = a,
         NEW s \in Side, NEW up, u.kid[Other(s)][n] = up, up # NULL
  PROVE  LET o == Other(s)
             r == Rotate(w, a, n, s)
             mid == u.kid[s][up]
             out == u.kid[o][up]
         IN  /\ up \in Nodes /\ up # n /\ g.own[up] = a
             /\ \A x \in Links : r.color[x] = w.color[x]
             /\ r.kid[o][n] = mid /\ r.kid[s][n] = u.kid[s][n] /\ r.kid[s][up] = n /\ r.kid[o][up] = out
             /\ \A x \in Nodes, d \in Side : x # n /\ x # up =>
                  /\ r.kid[d][x] = IF u.kid[d][x] = n THEN up ELSE u.kid[d][x]
                  /\ u.kid[d][x] # up
             /\ \A x \in Nodes, d \in Side : u.kid[d][x] # NULL =>
                  u.kid[d][x] \in Nodes /\ u.kid[d][x] # x /\ u.parent[u.kid[d][x]] = x
             /\ mid # n /\ mid # up /\ out # n /\ out # up /\ u.kid[s][n] # n /\ u.kid[s][n] # up
             /\ \A d, c \in Side, x, z \in Nodes : u.kid[d][x] = u.kid[c][z] /\ u.kid[d][x] # NULL => d = c /\ x = z
  <1> DEFINE o == Other(s)
             r == Rotate(w, a, n, s)
             mid == u.kid[s][up]
             out == u.kid[o][up]
  <1>0. Nodal(w, g) /\ n \in Links /\ n # NULL /\ g.own[n] # NULL
        /\ o \in Side /\ o # s /\ Other(o) = s /\ Side = {s, o}
    BY Disjoint, Sides DEF Shape
  <1>1. w.kid[o][n] = up /\ \A x \in Nodes, d \in Side : w.kid[d][x] = u.kid[d][x]
    BY <1>0, Disjoint, SMTT(30), ZenonT(30) DEF SameLinks
  <1>2. up \in Nodes /\ up # n /\ g.own[up] = a
    BY <1>0, <1>1, KidLinks
  <1>3. w.kid[s][up] = mid
    BY <1>1, <1>2, SMTT(30), ZenonT(30)
  <1>4. /\ \A x \in Links : r.color[x] = w.color[x]
        /\ \A x \in Nodes, d \in Side :
             r.kid[d][x] = IF d = o /\ x = n THEN mid ELSE IF d = s /\ x = up THEN n
                           ELSE IF w.kid[d][x] = n THEN up ELSE w.kid[d][x]
    <2>1. Rotated(r, w, n, s, up, mid)
      BY <1>0, <1>1, <1>3, RotateIs
    <2> HIDE DEF r, mid
    <2>2. QED
      BY <1>0, <2>1, ZenonT(30), SMTT(30) DEF Rotated
  <1> HIDE DEF r
  <1>6. \A x \in Nodes, d \in Side : u.kid[d][x] # NULL =>
          u.kid[d][x] \in Nodes /\ u.kid[d][x] # x /\ w.parent[u.kid[d][x]] = x
    BY <1>0, <1>1, KidLinks
  <1>7. mid # n /\ mid # up /\ out # n /\ out # up /\ u.kid[s][n] # n /\ u.kid[s][n] # up
    <2>1. w.parent[up] = n
      BY <1>0, <1>1, <1>2, <1>6
    <2>2. \A d \in Side : u.kid[d][up] # n /\ u.kid[d][up] # up
      <3>1. \A d \in Side : u.kid[d][up] # NULL => Rank(g)[u.kid[d][up]] < Rank(g)[up]
        BY <1>0, <1>1, <1>2, RankFalls
      <3>2. Rank(g)[up] < Rank(g)[n] /\ Rank(g)[up] \in Nat /\ Rank(g)[n] \in Nat
        BY <1>0, <1>1, <1>2, RankFalls
      <3>3. n # NULL /\ up # NULL
        BY <1>0
      <3>4. QED
        BY <3>1, <3>2, <3>3
    <2>3. u.kid[s][n] # n /\ u.kid[s][n] # up
      <3>1. u.kid[s][n] # n
        BY <1>0, <1>6
      <3>2. u.kid[s][n] = up => FALSE
        <4>1. n \in Nodes /\ up = w.kid[o][n] /\ up # NULL /\ o \in Side
          BY <1>0, <1>1
        <4>2. w.kid[Other(o)][n] # up
          BY <1>0, <4>1, KidFacts
        <4>3. QED
          BY <1>0, <1>1, <4>2
      <3>3. QED
        BY <3>1, <3>2
    <2>4. QED
      BY <1>0, <2>2, <2>3
  <1>8. ASSUME NEW x \in Nodes, NEW d \in Side, x # n, x # up
        PROVE  r.kid[d][x] = (IF u.kid[d][x] = n THEN up ELSE u.kid[d][x]) /\ u.kid[d][x] # up
    <2>1. w.parent[up] = n
      BY <1>0, <1>1, <1>2, <1>6
    <2>2. QED
      BY <1>0, <1>1, <1>2, <1>4, <1>6, <1>8, <2>1
  <1>9. r.kid[o][n] = mid /\ r.kid[s][n] = u.kid[s][n] /\ r.kid[s][up] = n /\ r.kid[o][up] = out
    BY <1>0, <1>1, <1>2, <1>4, <1>7
  <1>10. ASSUME NEW d \in Side, NEW c \in Side, NEW x \in Nodes, NEW z \in Nodes,
                u.kid[d][x] = u.kid[c][z], u.kid[d][x] # NULL
         PROVE  d = c /\ x = z
    <2>1. x = z
      BY <1>6, <1>10
    <2>2. w.kid[Other(d)][x] # w.kid[d][x]
      BY <1>0, <1>1, <1>10, KidFacts
    <2>3. c = d \/ c = Other(d)
      BY Sides
    <2>4. QED
      BY <1>1, <1>10, <2>1, <2>2, <2>3, Sides
  <1>11. \A x \in Nodes, d \in Side : u.kid[d][x] # NULL => u.parent[u.kid[d][x]] = x
    BY <1>6, Disjoint DEF SameLinks
  <1>12. QED
    BY <1>2, <1>4, <1>6, <1>7, <1>8, <1>9, <1>10, <1>11 DEF r

\* n goes down, and up, red until it takes the colour of n, comes in its place.
LEMMA RotateEven ==
  ASSUME NEW u, NEW g, NEW w, Shape(w, g), SameLinks(w, u), NEW a \in Trees, NEW n \in Nodes, g.own[n] = a,
         NEW s \in Side, NEW up, u.kid[Other(s)][n] = up, up # NULL,
         NEW ht, NEW q, NEW e, Even(u, g, ht, q, e), q # up, ~(q = n /\ e = Other(s)),
         u.color[up] = "red",
         \A x \in Nodes : w.color[x] = IF x = n THEN "red" ELSE IF x = up THEN u.color[n] ELSE u.color[x]
  PROVE  Even(Rotate(w, a, n, s), g, [ht EXCEPT ![n] = ht[up], ![up] = ht[n]], q, e)
  <1> DEFINE o == Other(s)
             r == Rotate(w, a, n, s)
             mid == u.kid[s][up]
             out == u.kid[o][up]
             hu == [ht EXCEPT ![n] = ht[up], ![up] = ht[n]]
  <1>0. ht \in [Nodes -> Nat] /\ n # NULL /\ g.own[n] # NULL /\ o \in Side /\ o # s /\ Side = {s, o}
    BY Disjoint, Sides DEF Even
  <1>1. /\ up \in Nodes /\ up # n /\ g.own[up] = a
        /\ \A x \in Links : r.color[x] = w.color[x]
        /\ r.kid[o][n] = mid /\ r.kid[s][n] = u.kid[s][n] /\ r.kid[s][up] = n /\ r.kid[o][up] = out
        /\ \A x \in Nodes, d \in Side : x # n /\ x # up =>
             /\ r.kid[d][x] = IF u.kid[d][x] = n THEN up ELSE u.kid[d][x]
             /\ u.kid[d][x] # up
        /\ \A x \in Nodes, d \in Side : u.kid[d][x] # NULL => u.kid[d][x] \in Nodes /\ u.kid[d][x] # x
        /\ mid # n /\ mid # up /\ out # n /\ out # up /\ u.kid[s][n] # n /\ u.kid[s][n] # up
    BY RotateKids, SMTT(30), ZenonT(30)
  <1> HIDE DEF r
  <1>5. hu \in [Nodes -> Nat] /\ hu[n] = ht[up] /\ hu[up] = ht[n] /\ \A x \in Nodes : x # n /\ x # up => hu[x] = ht[x]
    BY <1>0, <1>1
  <1> HIDE DEF hu
  <1>8. \A x \in Nodes, d \in Side : g.own[x] # NULL => ht[x] = Level(ht, u.kid[d][x]) + Short(q, e, x, d) + Black(u, x)
    BY SMTT(30), ZenonT(30) DEF Even, EvenAt
  <1>9. \A x \in Nodes, d \in Side : Level(ht, u.kid[d][x]) \in Nat /\ Short(q, e, x, d) \in Nat /\ Black(u, x) \in Nat
    BY <1>0, <1>1, SMTT(30), ZenonT(30) DEF Level, Short, Black
  <1>10. Black(r, n) = 0 /\ Black(u, up) = 0 /\ Black(r, up) = Black(u, n)
         /\ \A x \in Nodes : x # n /\ x # up => Black(r, x) = Black(u, x)
    <2>1. \A x \in Nodes : r.color[x] = IF x = n THEN "red" ELSE IF x = up THEN u.color[n] ELSE u.color[x]
      BY <1>1, Disjoint
    <2>2. QED
      BY <1>1, <2>1 DEF Black
  <1>11. /\ Short(q, e, up, s) = 0 /\ Short(q, e, up, o) = 0 /\ Short(q, e, n, o) = 0
    BY DEF Short
  <1>12. /\ ht[up] = Level(ht, mid) /\ ht[up] = Level(ht, out)
         /\ ht[n] = ht[up] + Black(u, n)
         /\ ht[n] = Level(ht, u.kid[s][n]) + Short(q, e, n, s) + Black(u, n)
    <2>1. ht[up] = Level(ht, mid) + Short(q, e, up, s) + Black(u, up)
      BY <1>1, <1>8, <1>0, SMTT(30), ZenonT(30)
    <2>2. ht[up] = Level(ht, out) + Short(q, e, up, o) + Black(u, up)
      BY <1>1, <1>8, <1>0
    <2>3. ht[n] = Level(ht, up) + Short(q, e, n, o) + Black(u, n)
      BY <1>8, <1>0, SMTT(30), ZenonT(30)
    <2>4. Level(ht, up) = ht[up] /\ ht[up] \in Nat /\ Level(ht, mid) \in Nat /\ Level(ht, out) \in Nat /\ Black(u, n) \in Nat
      BY <1>0, <1>1, <1>9 DEF Level
    <2>5. ht[n] = Level(ht, u.kid[s][n]) + Short(q, e, n, s) + Black(u, n)
      BY <1>8, <1>0
    <2>6. QED
      BY <1>10, <1>11, <2>1, <2>2, <2>3, <2>4, <2>5, SMTT(30), ZenonT(30)
  <1>13. ASSUME NEW k \in Nodes \cup {NULL}, k # n, k # up
         PROVE  Level(hu, k) = Level(ht, k)
    BY <1>5, <1>13 DEF Level
  <1>14. ASSUME NEW x \in Nodes, NEW d \in Side, g.own[x] # NULL
         PROVE  EvenAt(r, hu, q, e, x, d)
    <2> DEFINE k == u.kid[d][x]
    <2>1. CASE x = n /\ d = o
      <3>1. r.kid[d][x] = mid /\ mid \in Nodes \cup {NULL}
        BY <1>0, <1>1, <2>1, SMTT(30), ZenonT(30)
      <3>2. Level(hu, mid) = Level(ht, mid)
        BY <1>1, <1>13, <3>1, SMTT(30), ZenonT(30)
      <3>3. ht[up] \in Nat
        BY <1>0, <1>1, SMTT(30), ZenonT(30)
      <3>4. hu[x] = ht[up] /\ Level(hu, r.kid[d][x]) = ht[up] /\ Short(q, e, x, d) = 0 /\ Black(r, x) = 0
        BY <1>5, <1>10, <1>11, <1>12, <2>1, <3>1, <3>2
      <3>5. QED
        BY <3>3, <3>4, SMTT(30), ZenonT(30) DEF EvenAt
    <2>2. CASE x = n /\ d = s
      <3>1. r.kid[d][x] = u.kid[s][n] /\ u.kid[s][n] \in Nodes \cup {NULL}
        BY <1>0, <1>1, <2>2
      <3>2. Level(hu, u.kid[s][n]) = Level(ht, u.kid[s][n])
        BY <1>1, <1>13, <3>1, SMTT(30), ZenonT(30)
      <3>3. ht[up] \in Nat /\ Level(ht, u.kid[s][n]) \in Nat /\ Short(q, e, n, s) \in Nat /\ Black(u, n) \in Nat
        BY <1>0, <1>1, <1>9
      <3>4. ht[up] = Level(ht, u.kid[s][n]) + Short(q, e, n, s)
        BY <1>12, <3>3, SMTT(30), ZenonT(30)
      <3>5. QED
        BY <1>5, <1>10, <2>2, <3>1, <3>2, <3>3, <3>4 DEF EvenAt
    <2>3. CASE x = up /\ d = s
      <3>1. r.kid[d][x] = n
        BY <1>0, <1>1, <2>3, SMTT(30), ZenonT(30)
      <3>2. Level(hu, n) = ht[up] /\ ht[up] \in Nat
        BY <1>0, <1>1, <1>5, SMTT(30), ZenonT(30) DEF Level
      <3>3. QED
        BY <1>5, <1>9, <1>10, <1>11, <1>12, <2>3, <3>1, <3>2, SMTT(30), ZenonT(30) DEF EvenAt
    <2>4. CASE x = up /\ d = o
      <3>1. r.kid[d][x] = out /\ out \in Nodes \cup {NULL}
        BY <1>0, <1>1, <2>4, SMTT(30), ZenonT(30)
      <3>2. Level(hu, out) = Level(ht, out) /\ Level(ht, out) \in Nat
        BY <1>0, <1>1, <1>9, <1>13, <3>1
      <3>3. QED
        BY <1>5, <1>9, <1>10, <1>11, <1>12, <2>4, <3>1, <3>2, SMTT(30), ZenonT(30) DEF EvenAt
    <2>5. CASE x # n /\ x # up
      <3>1. r.kid[d][x] = IF k = n THEN up ELSE k
        BY <1>1, <2>5
      <3>2. k # up
        BY <1>1, <2>5
      <3>3. k \in Nodes \cup {NULL}
        BY <1>1
      <3>4. Level(hu, r.kid[d][x]) = Level(ht, k)
        <4>1. CASE k = n
          <5>1. r.kid[d][x] = up
            BY <3>1, <4>1
          <5>2. QED
            BY <1>0, <1>1, <1>5, <4>1, <5>1 DEF Level
        <4>2. CASE k # n
          BY <1>13, <3>1, <3>2, <3>3, <4>2
        <4>3. QED
          BY <4>1, <4>2, SMTT(30), ZenonT(30)
      <3>5. ht[x] = Level(ht, k) + Short(q, e, x, d) + Black(u, x)
        BY <1>8, <1>14, SMTT(30), ZenonT(30)
      <3>6. QED
        BY <1>5, <1>10, <2>5, <3>4, <3>5 DEF EvenAt
    <2>6. QED
      BY <1>0, <2>1, <2>2, <2>3, <2>4, <2>5
  <1>15. QED
    BY <1>5, <1>14 DEF Even, r, hu

\* The rotation that ends an erasure: n, below which one black node is missing,
\* becomes one, and so does the outer kid of the node that comes in its place.
LEMMA RotateRepairs ==
  ASSUME NEW u, NEW g, NEW w, Shape(w, g), SameLinks(w, u), NEW a \in Trees, NEW n \in Nodes, g.own[n] = a,
         NEW s \in Side, NEW up, u.kid[Other(s)][n] = up, up # NULL,
         NEW out, u.kid[Other(s)][up] = out, out # NULL,
         NEW ht, NEW e, Even(u, g, ht, n, s),
         u.color[up] = "black", u.color[out] = "red",
         \A x \in Nodes : w.color[x] = IF x = n \/ x = out THEN "black"
                                       ELSE IF x = up THEN u.color[n] ELSE u.color[x]
  PROVE  Even(Rotate(w, a, n, s), g, [ht EXCEPT ![n] = ht[up], ![up] = ht[n], ![out] = ht[out] + 1], NULL, e)
  <1> DEFINE o == Other(s)
             r == Rotate(w, a, n, s)
             mid == u.kid[s][up]
             c == u.kid[s][n]
             hu == [ht EXCEPT ![n] = ht[up], ![up] = ht[n], ![out] = ht[out] + 1]
  <1>0. ht \in [Nodes -> Nat] /\ n # NULL /\ NULL \notin Nodes /\ g.own[n] # NULL
        /\ o \in Side /\ o # s /\ Side = {s, o}
    BY Disjoint, Sides DEF Even
  <1>1. /\ up \in Nodes /\ up # n /\ g.own[up] = a
        /\ \A x \in Links : r.color[x] = w.color[x]
        /\ r.kid[o][n] = mid /\ r.kid[s][n] = c /\ r.kid[s][up] = n /\ r.kid[o][up] = out
        /\ \A x \in Nodes, d \in Side : x # n /\ x # up =>
             /\ r.kid[d][x] = IF u.kid[d][x] = n THEN up ELSE u.kid[d][x]
             /\ u.kid[d][x] # up
        /\ \A x \in Nodes, d \in Side : u.kid[d][x] # NULL =>
             u.kid[d][x] \in Nodes /\ u.kid[d][x] # x /\ u.parent[u.kid[d][x]] = x
        /\ mid # n /\ mid # up /\ out # n /\ out # up /\ c # n /\ c # up
        /\ \A d, f \in Side, x, z \in Nodes : u.kid[d][x] = u.kid[f][z] /\ u.kid[d][x] # NULL => d = f /\ x = z
    BY RotateKids, SMTT(30), ZenonT(30)
  <1> HIDE DEF r
  <1>2. out \in Nodes /\ out # NULL /\ mid # out /\ c # out
        /\ \A x \in Nodes, d \in Side : x # up => u.kid[d][x] # out
    BY <1>0, <1>1, SMTT(30), ZenonT(30)
  <1>3. hu \in [Nodes -> Nat] /\ hu[n] = ht[up] /\ hu[up] = ht[n] /\ hu[out] = ht[out] + 1
        /\ \A x \in Nodes : x # n /\ x # up /\ x # out => hu[x] = ht[x]
    <2>0. up \in Nodes /\ out \in Nodes /\ up # n /\ out # n /\ out # up
      BY <1>1, <1>2
    <2>1. ht \in [Nodes -> Nat]
      BY <1>0
    <2>2. ht[up] \in Nat /\ ht[n] \in Nat /\ ht[out] \in Nat /\ ht[out] + 1 \in Nat
      BY <2>0, <2>1
    <2>3. hu \in [Nodes -> Nat]
      BY <2>1, <2>2
    <2>4. hu[n] = ht[up] /\ hu[up] = ht[n] /\ hu[out] = ht[out] + 1
      BY <2>0, <2>1
    <2>5. \A x \in Nodes : x # n /\ x # up /\ x # out => hu[x] = ht[x]
      BY <2>0, <2>1
    <2>6. QED
      BY <2>3, <2>4, <2>5, ZenonT(30), SMTT(30)
  <1> HIDE DEF hu
  <1>4. \A x \in Nodes, d \in Side : g.own[x] # NULL => ht[x] = Level(ht, u.kid[d][x]) + Short(n, s, x, d) + Black(u, x)
    BY SMTT(30), ZenonT(30) DEF Even, EvenAt
  <1>5. \A x \in Nodes, d \in Side : Level(ht, u.kid[d][x]) \in Nat /\ Black(u, x) \in Nat
    BY <1>0, <1>1 DEF Level, Black
  <1>6. /\ \A x \in Nodes, d \in Side : x # n => Short(n, s, x, d) = 0
        /\ Short(n, s, n, s) = 1 /\ Short(n, s, n, o) = 0
        /\ \A x \in Nodes, d \in Side : Short(NULL, e, x, d) = 0
    BY <1>0, SMTT(30), ZenonT(30) DEF Short
  <1>7. /\ Black(r, n) = 1 /\ Black(r, out) = 1 /\ Black(r, up) = Black(u, n) /\ Black(u, up) = 1 /\ Black(u, out) = 0
        /\ \A x \in Nodes : x # n /\ x # up /\ x # out => Black(r, x) = Black(u, x)
    <2>1. \A x \in Nodes : r.color[x] = IF x = n \/ x = out THEN "black"
                                        ELSE IF x = up THEN u.color[n] ELSE u.color[x]
      BY <1>1, Disjoint, SMTT(30), ZenonT(30)
    <2>2. QED
      BY <1>1, <1>2, <2>1, SMTT(30), ZenonT(30) DEF Black
  <1>8. /\ ht[up] = Level(ht, mid) + 1 /\ ht[up] = ht[out] + 1 /\ ht[n] = ht[up] + Black(u, n)
        /\ ht[up] = Level(ht, c) + 1
    <2>1. ht[up] = Level(ht, mid) + Short(n, s, up, s) + Black(u, up)
      BY <1>0, <1>1, <1>4, SMTT(30), ZenonT(30)
    <2>2. ht[up] = Level(ht, out) + Short(n, s, up, o) + Black(u, up)
      BY <1>0, <1>1, <1>4
    <2>3. ht[n] = Level(ht, up) + Short(n, s, n, o) + Black(u, n)
      BY <1>0, <1>4
    <2>4. ht[n] = Level(ht, c) + Short(n, s, n, s) + Black(u, n)
      BY <1>0, <1>4, SMTT(30), ZenonT(30)
    <2>5. Level(ht, up) = ht[up] /\ Level(ht, out) = ht[out] /\ ht[up] \in Nat /\ ht[out] \in Nat
          /\ Level(ht, mid) \in Nat /\ Level(ht, c) \in Nat /\ Black(u, n) \in Nat
      BY <1>0, <1>1, <1>2, <1>5, SMTT(30), ZenonT(30) DEF Level
    <2>6. Short(n, s, up, s) = 0 /\ Short(n, s, up, o) = 0
      BY <1>0, <1>1, <1>6
    <2>7. QED
      BY <1>6, <1>7, <2>1, <2>2, <2>3, <2>4, <2>5, <2>6, SMTT(30), ZenonT(30)
  <1>9. ASSUME NEW k \in Nodes \cup {NULL}, k # n, k # up, k # out
        PROVE  Level(hu, k) = Level(ht, k)
    BY <1>3, <1>9, SMTT(30), ZenonT(30) DEF Level
  <1>10. mid \in Nodes \cup {NULL} /\ c \in Nodes \cup {NULL}
    BY <1>0, <1>1, SMTT(30), ZenonT(30)
  <1>11. Level(hu, n) = ht[up] /\ Level(hu, up) = ht[n] /\ Level(hu, out) = ht[out] + 1 /\ ht[up] \in Nat /\ ht[n] \in Nat
    BY <1>0, <1>1, <1>2, <1>3 DEF Level
  <1>14. /\ r.kid[o][n] = mid /\ r.kid[s][n] = c /\ r.kid[s][up] = n /\ r.kid[o][up] = out
         /\ hu[n] = ht[up] /\ hu[up] = ht[n]
         /\ Black(r, n) = 1 /\ Black(r, up) = Black(u, n) /\ Black(u, n) \in Nat
    <2>1. r.kid[o][n] = mid /\ r.kid[s][n] = c /\ r.kid[s][up] = n /\ r.kid[o][up] = out
      BY <1>1
    <2>2. hu[n] = ht[up] /\ hu[up] = ht[n]
      BY <1>3
    <2>3. Black(r, n) = 1 /\ Black(r, up) = Black(u, n) /\ Black(u, n) \in Nat
      BY <1>5, <1>7, <1>0
    <2>4. QED
      BY <2>1, <2>2, <2>3
  <1>12. ASSUME NEW x \in Nodes, NEW d \in Side, g.own[x] # NULL
         PROVE  EvenAt(r, hu, NULL, e, x, d)
    <2> DEFINE k == u.kid[d][x]
    <2> SUFFICES hu[x] = Level(hu, r.kid[d][x]) + Black(r, x)
      <3>1. Short(NULL, e, x, d) = 0 /\ hu[x] \in Nat
        BY <1>3, <1>6, SMTT(30), ZenonT(30)
      <3>2. Level(hu, r.kid[d][x]) \in Nat /\ Black(r, x) \in Nat
        <4>1. r.kid[d][x] \in Nodes \cup {NULL}
          BY <1>0, <1>1, <1>2, <1>10, SMTT(30), ZenonT(30)
        <4>2. QED
          BY <1>3, <4>1, SMTT(30), ZenonT(30) DEF Level, Black
      <3>3. QED
        BY <3>1, <3>2 DEF EvenAt
    <2>1. CASE x = n /\ d = o
      <3>1. Level(hu, mid) = Level(ht, mid)
        BY <1>1, <1>2, <1>9, <1>10
      <3>2. QED
        BY <1>8, <1>14, <2>1, <3>1
    <2>2. CASE x = n /\ d = s
      <3>1. Level(hu, c) = Level(ht, c)
        BY <1>1, <1>2, <1>9, <1>10, SMTT(30), ZenonT(30)
      <3>2. QED
        BY <1>8, <1>14, <2>2, <3>1
    <2>3. CASE x = up /\ d = s
      BY <1>8, <1>11, <1>14, <2>3
    <2>4. CASE x = up /\ d = o
      BY <1>8, <1>11, <1>14, <2>4
    <2>5. CASE x # n /\ x # up
      <3>1. r.kid[d][x] = (IF k = n THEN up ELSE k) /\ k # up /\ k # out /\ k \in Nodes \cup {NULL}
        BY <1>1, <1>2, <2>5
      <3>2. Level(hu, r.kid[d][x]) = Level(ht, k)
        <4>1. CASE k = n
          <5>1. Level(ht, k) = ht[n]
            BY <1>0, <4>1 DEF Level
          <5>2. QED
            BY <1>11, <3>1, <4>1, <5>1
        <4>2. CASE k # n
          BY <1>9, <3>1, <4>2
        <4>3. QED
          BY <4>1, <4>2
      <3>3. ht[x] = Level(ht, k) + Short(n, s, x, d) + Black(u, x) /\ Short(n, s, x, d) = 0
            /\ Level(ht, k) \in Nat /\ Black(u, x) \in Nat
        BY <1>4, <1>5, <1>6, <1>12, <2>5, SMTT(30), ZenonT(30)
      <3>4. CASE x = out
        BY <1>3, <1>7, <3>2, <3>3, <3>4, SMTT(30), ZenonT(30)
      <3>5. CASE x # out
        BY <1>3, <1>7, <2>5, <3>2, <3>3, <3>5, SMTT(30), ZenonT(30)
      <3>6. QED
        BY <3>4, <3>5, SMTT(30), ZenonT(30)
    <2>6. QED
      BY <1>0, <2>1, <2>2, <2>3, <2>4, <2>5
  <1>13. QED
    BY <1>3, <1>12 DEF Even, r, hu

\* The two red kids of a black node become black, and it red.
LEMMA RecolourEven ==
  ASSUME NEW u, NEW g, Nodal(u, g), NEW w, SameLinks(w, u), NEW n \in Nodes, g.own[n] # NULL,
         NEW l, u.kid["left"][n] = l, l # NULL, NEW m, u.kid["right"][n] = m, m # NULL,
         NEW ht, NEW e, Even(u, g, ht, NULL, e),
         u.color[n] = "black", u.color[l] = "red", u.color[m] = "red",
         \A x \in Nodes : w.color[x] = IF x = n THEN "red" ELSE IF x \in {l, m} THEN "black" ELSE u.color[x]
  PROVE  Even(w, g, [ht EXCEPT ![l] = ht[l] + 1, ![m] = ht[m] + 1], NULL, e)
  <1> DEFINE hu == [ht EXCEPT ![l] = ht[l] + 1, ![m] = ht[m] + 1]
  <1>0. ht \in [Nodes -> Nat] /\ NULL \notin Nodes /\ Side = {"left", "right"} /\ "left" \in Side /\ "right" \in Side
    BY Disjoint, Sides DEF Even
  <1>1. /\ l \in Nodes /\ m \in Nodes /\ l # m /\ l # n /\ m # n /\ u.parent[l] = n /\ u.parent[m] = n
        /\ \A x \in Nodes, d \in Side : u.kid[d][x] # NULL => u.kid[d][x] \in Nodes /\ u.parent[u.kid[d][x]] = x
    <2>1. /\ l \in Nodes /\ m \in Nodes /\ l # n /\ m # n /\ u.parent[l] = n /\ u.parent[m] = n
          /\ \A x \in Nodes, d \in Side : u.kid[d][x] # NULL => u.kid[d][x] \in Nodes /\ u.parent[u.kid[d][x]] = x
      BY <1>0, KidLinks
    <2>2. u.kid[Other("left")][n] # l
      BY <1>0, KidFacts
    <2>3. QED
      BY <2>1, <2>2 DEF Other
  <1>2. \A x \in Nodes, d \in Side : w.kid[d][x] = u.kid[d][x]
    BY Disjoint DEF SameLinks
  <1>3. hu \in [Nodes -> Nat] /\ hu[l] = ht[l] + 1 /\ hu[m] = ht[m] + 1
        /\ \A x \in Nodes : x # l /\ x # m => hu[x] = ht[x]
    BY <1>0, <1>1
  <1> HIDE DEF hu
  <1>4. ASSUME NEW x \in Nodes, NEW d \in Side, g.own[x] # NULL
        PROVE  EvenAt(w, hu, NULL, e, x, d)
    <2> DEFINE k == u.kid[d][x]
    <2>1. ht[x] = Level(ht, k) + Short(NULL, e, x, d) + Black(u, x) /\ Short(NULL, e, x, d) = 0
      BY <1>0, <1>4 DEF Even, EvenAt, Short
    <2>2. Level(ht, k) \in Nat /\ Black(u, x) \in Nat /\ ht[x] \in Nat /\ k \in Nodes \cup {NULL}
      BY <1>0, <1>1 DEF Level, Black
    <2>3. CASE x = n
      <3>1. k \in {l, m} /\ Level(hu, k) = Level(ht, k) + 1
        BY <1>0, <1>1, <1>3, <2>3 DEF Level
      <3>2. Black(w, x) = 0 /\ Black(u, x) = 1
        BY <2>3 DEF Black
      <3>3. hu[x] = ht[x]
        BY <1>1, <1>3, <2>3
      <3>4. QED
        BY <1>2, <2>1, <2>2, <3>1, <3>2, <3>3 DEF EvenAt
    <2>4. CASE x # n
      <3>1. k # l /\ k # m
        BY <1>0, <1>1, <2>4
      <3>2. Level(hu, k) = Level(ht, k)
        BY <1>3, <2>2, <3>1 DEF Level
      <3>3. hu[x] = ht[x] + (Black(w, x) - Black(u, x)) /\ Black(w, x) \in Nat
        <4>1. CASE x \in {l, m}
          <5>1. Black(w, x) = 1 /\ Black(u, x) = 0
            BY <1>1, <4>1 DEF Black
          <5>2. QED
            BY <1>3, <2>2, <4>1, <5>1
        <4>2. CASE x \notin {l, m}
          <5>1. Black(w, x) = Black(u, x)
            BY <2>4, <4>2 DEF Black
          <5>2. QED
            BY <1>3, <2>2, <4>2, <5>1
        <4>3. QED
          BY <4>1, <4>2
      <3>4. QED
        BY <1>2, <2>1, <2>2, <3>2, <3>3 DEF EvenAt
    <2>5. QED
      BY <2>3, <2>4
  <1>5. QED
    BY <1>3, <1>4 DEF Even, hu

\* The sibling of the place that is one black short becomes red: then both sides
\* are, and the place of the node above is the short one.
LEMMA BorrowEven ==
  ASSUME NEW u, NEW g, Nodal(u, g), NEW w, SameLinks(w, u), NEW n \in Nodes, g.own[n] # NULL,
         NEW s \in Side, NEW b, u.kid[Other(s)][n] = b, b # NULL,
         NEW ht, Even(u, g, ht, n, s), u.color[b] = "black",
         \A x \in Nodes : w.color[x] = IF x = b THEN "red" ELSE u.color[x],
         NEW q, NEW e, \/ q \in Nodes /\ e \in Side /\ u.kid[e][q] = n
                       \/ q = NULL /\ \A x \in Nodes, d \in Side : u.kid[d][x] # n
  PROVE  Even(w, g, [ht EXCEPT ![n] = ht[n] - 1, ![b] = ht[b] - 1], q, e)
  <1> DEFINE hu == [ht EXCEPT ![n] = ht[n] - 1, ![b] = ht[b] - 1]
             o == Other(s)
             c == u.kid[s][n]
  <1>0. ht \in [Nodes -> Nat] /\ NULL \notin Nodes /\ Side = {s, o} /\ o \in Side /\ o # s
    BY Disjoint, Sides DEF Even
  <1>1. /\ b \in Nodes /\ b # n /\ g.own[b] # NULL /\ c # b
        /\ \A x \in Nodes, d \in Side : u.kid[d][x] # NULL =>
             u.kid[d][x] \in Nodes /\ u.parent[u.kid[d][x]] = x /\ u.kid[d][x] # x
    <2>1. /\ b \in Nodes /\ b # n /\ g.own[b] # NULL
          /\ \A x \in Nodes, d \in Side : u.kid[d][x] # NULL =>
               u.kid[d][x] \in Nodes /\ u.parent[u.kid[d][x]] = x /\ u.kid[d][x] # x
      BY <1>0, KidLinks
    <2>2. u.kid[Other(o)][n] # b
      BY <1>0, KidFacts
    <2>3. QED
      BY <2>1, <2>2, Sides, SMTT(30), ZenonT(30)
  <1>2. \A x \in Nodes, d \in Side : w.kid[d][x] = u.kid[d][x]
    BY Disjoint DEF SameLinks
  <1>3. \A x \in Nodes, d \in Side : g.own[x] # NULL => ht[x] = Level(ht, u.kid[d][x]) + Short(n, s, x, d) + Black(u, x)
    BY DEF Even, EvenAt
  <1>4. \A x \in Nodes, d \in Side : Level(ht, u.kid[d][x]) \in Nat /\ Black(u, x) \in Nat /\ ht[x] \in Nat
    BY <1>0, <1>1 DEF Level, Black
  <1>5. Short(n, s, n, s) = 1 /\ Short(n, s, n, o) = 0 /\ Level(ht, b) = ht[b] /\ Black(u, b) = 1
        /\ \A x \in Nodes, d \in Side : x # n => Short(n, s, x, d) = 0
    BY <1>0 DEF Short, Level, Black
  <1>6. ht[n] = Level(ht, c) + 1 + Black(u, n) /\ ht[n] = ht[b] + Black(u, n)
    <2>1. ht[n] = Level(ht, c) + Short(n, s, n, s) + Black(u, n)
      BY <1>3
    <2>2. ht[n] = Level(ht, b) + Short(n, s, n, o) + Black(u, n)
      BY <1>0, <1>3
    <2>3. ht[b] \in Nat /\ Black(u, n) \in Nat
      BY <1>1, <1>4
    <2>4. QED
      BY <1>5, <2>1, <2>2, <2>3
  <1>7. ht[b] = Level(ht, c) + 1 /\ ht[n] >= 1 /\ ht[b] >= 1
    <2>1. ht[b] \in Nat /\ ht[n] \in Nat /\ Black(u, n) \in Nat /\ Level(ht, c) \in Nat
      BY <1>1, <1>4
    <2>2. QED
      BY <1>6, <2>1
  <1>8. hu \in [Nodes -> Nat] /\ hu[n] = ht[n] - 1 /\ hu[b] = ht[b] - 1
        /\ \A x \in Nodes : x # n /\ x # b => hu[x] = ht[x]
    <2>1. ht[b] - 1 \in Nat /\ ht[n] - 1 \in Nat
      <3>1. ht[b] \in Nat /\ ht[n] \in Nat
        BY <1>1, <1>4
      <3>2. QED
        BY <1>7, <3>1
    <2>2. QED
      BY <1>0, <1>1, <2>1
  <1> HIDE DEF hu
  <1>9. ASSUME NEW x \in Nodes, NEW d \in Side, g.own[x] # NULL
        PROVE  EvenAt(w, hu, q, e, x, d)
    <2> DEFINE k == u.kid[d][x]
    <2>0. k \in Nodes \cup {NULL} /\ w.kid[d][x] = k
      BY <1>1, <1>2
    <2>1. CASE x = n /\ d = s
      <3>1. Short(q, e, n, s) = 0
        <4>1. q # n
          BY <1>0, <1>1
        <4>2. QED
          BY <4>1 DEF Short
      <3>2. c # n /\ c # b /\ c \in Nodes \cup {NULL}
        BY <1>0, <1>1
      <3>3. Level(hu, c) = Level(ht, c)
        BY <1>8, <3>2 DEF Level
      <3>4. Black(w, n) = Black(u, n) /\ Black(u, n) \in Nat /\ Level(ht, c) \in Nat
        BY <1>1, <1>4 DEF Black
      <3>5. QED
        BY <1>6, <1>8, <2>0, <2>1, <3>1, <3>3, <3>4 DEF EvenAt
    <2>2. CASE x = n /\ d = o
      <3>1. Short(q, e, n, o) = 0
        <4>1. q # n
          BY <1>0, <1>1
        <4>2. QED
          BY <4>1 DEF Short
      <3>2. Level(hu, b) = ht[b] - 1
        BY <1>0, <1>1, <1>8 DEF Level
      <3>3. Black(w, n) = Black(u, n) /\ Black(u, n) \in Nat /\ ht[b] \in Nat
        BY <1>1, <1>4 DEF Black
      <3>4. QED
        BY <1>6, <1>8, <2>0, <2>2, <3>1, <3>2, <3>3 DEF EvenAt
    <2>3. CASE x # n
      <3>1. k # b
        <4>1. u.parent[b] = n
          BY <1>0, <1>1
        <4>2. QED
          BY <1>0, <1>1, <2>3, <4>1
      <3>2. ht[x] = Level(ht, k) + Black(u, x) /\ Level(ht, k) \in Nat /\ Black(u, x) \in Nat
        BY <1>3, <1>4, <1>5, <1>9, <2>3
      <3>3. Level(hu, k) + Short(q, e, x, d) = Level(ht, k)
        <4>1. CASE k = n
          <5>1. q = x /\ e = d
            <6>1. q \in Nodes /\ e \in Side /\ u.kid[e][q] = n
              BY <4>1
            <6>2. q = x
              BY <1>0, <1>1, <4>1, <6>1
            <6>3. u.kid[Other(d)][x] # n
              BY <1>0, <4>1, KidFacts
            <6>4. e = d \/ e = Other(d)
              BY <6>1, Sides
            <6>5. QED
              BY <6>1, <6>2, <6>3, <6>4
          <5>2. Short(q, e, x, d) = 1
            BY <5>1 DEF Short
          <5>3. Level(hu, k) = ht[n] - 1 /\ Level(ht, k) = ht[n] /\ ht[n] \in Nat
            BY <1>0, <1>8, <4>1 DEF Level
          <5>4. QED
            BY <5>2, <5>3
        <4>2. CASE k # n
          <5>1. Short(q, e, x, d) = 0
            BY <1>0, <4>2 DEF Short
          <5>2. Level(hu, k) = Level(ht, k)
            BY <1>8, <2>0, <3>1, <4>2 DEF Level
          <5>3. QED
            BY <3>2, <5>1, <5>2
        <4>3. QED
          BY <4>1, <4>2
      <3>4. hu[x] = ht[x] + (Black(w, x) - Black(u, x)) /\ Black(w, x) \in Nat
        <4>1. CASE x = b
          <5>1. Black(w, x) = 0
            BY <4>1 DEF Black
          <5>2. QED
            BY <1>4, <1>5, <1>8, <4>1, <5>1
        <4>2. CASE x # b
          <5>1. Black(w, x) = Black(u, x)
            BY <4>2 DEF Black
          <5>2. QED
            BY <1>4, <1>8, <2>3, <4>2, <5>1
        <4>3. QED
          BY <4>1, <4>2
      <3>5. Level(hu, k) \in Nat /\ Short(q, e, x, d) \in Nat
        BY <1>8, <2>0 DEF Level, Short
      <3>6. QED
        BY <2>0, <3>2, <3>3, <3>4, <3>5 DEF EvenAt
    <2>4. QED
      BY <1>0, <2>1, <2>2, <2>3
  <1>10. QED
    BY <1>8, <1>9 DEF Even, hu

\* A red node becomes black: the root, or the node at the place that was short.
LEMMA BlackenEven ==
  ASSUME NEW u, NEW g, Nodal(u, g), NEW w, SameLinks(w, u), NEW n \in Nodes, g.own[n] # NULL,
         NEW ht, NEW q, NEW e, NEW f, Even(u, g, ht, q, e), u.color[n] = "red",
         \A x \in Nodes : w.color[x] = IF x = n THEN "black" ELSE u.color[x],
         \/ q \in Nodes /\ e \in Side /\ u.kid[e][q] = n
         \/ q = NULL /\ \A x \in Nodes, d \in Side : u.kid[d][x] # n
  PROVE  Even(w, g, [ht EXCEPT ![n] = ht[n] + 1], NULL, f)
  <1> DEFINE hu == [ht EXCEPT ![n] = ht[n] + 1]
  <1>0. ht \in [Nodes -> Nat] /\ NULL \notin Nodes
    BY Disjoint DEF Even
  <1>1. \A x \in Nodes, d \in Side : u.kid[d][x] # NULL =>
          u.kid[d][x] \in Nodes /\ u.parent[u.kid[d][x]] = x /\ u.kid[d][x] # x
    BY TreeFacts
  <1>2. \A x \in Nodes, d \in Side : w.kid[d][x] = u.kid[d][x]
    BY Disjoint DEF SameLinks
  <1>3. hu \in [Nodes -> Nat] /\ hu[n] = ht[n] + 1 /\ \A x \in Nodes : x # n => hu[x] = ht[x]
    BY <1>0
  <1> HIDE DEF hu
  <1>4. ASSUME NEW x \in Nodes, NEW d \in Side, g.own[x] # NULL
        PROVE  EvenAt(w, hu, NULL, f, x, d)
    <2> DEFINE k == u.kid[d][x]
    <2>1. ht[x] = Level(ht, k) + Short(q, e, x, d) + Black(u, x)
      BY <1>4 DEF Even, EvenAt
    <2>2. Level(ht, k) \in Nat /\ Short(q, e, x, d) \in Nat /\ Black(u, x) \in Nat /\ ht[x] \in Nat
          /\ k \in Nodes \cup {NULL} /\ w.kid[d][x] = k
      BY <1>0, <1>1, <1>2 DEF Level, Short, Black
    <2>3. Level(hu, k) = Level(ht, k) + Short(q, e, x, d)
      <3>1. CASE k = n
        <4>1. q \in Nodes /\ e \in Side /\ u.kid[e][q] = n
          BY <3>1
        <4>2. q = x
          BY <1>0, <1>1, <3>1, <4>1
        <4>3. u.kid[Other(d)][x] # n
          BY <1>0, <3>1, KidFacts
        <4>4. e = d \/ e = Other(d)
          BY <4>1, Sides
        <4>5. Short(q, e, x, d) = 1
          BY <4>1, <4>2, <4>3, <4>4 DEF Short
        <4>6. Level(hu, k) = ht[n] + 1 /\ Level(ht, k) = ht[n]
          BY <1>0, <1>3, <3>1 DEF Level
        <4>7. QED
          BY <4>5, <4>6
      <3>2. CASE k # n
        <4>1. Short(q, e, x, d) = 0
          BY <1>0, <3>2 DEF Short
        <4>2. Level(hu, k) = Level(ht, k)
          BY <1>3, <2>2, <3>2 DEF Level
        <4>3. QED
          BY <2>2, <4>1, <4>2
      <3>3. QED
        BY <3>1, <3>2
    <2>4. hu[x] = ht[x] + (Black(w, x) - Black(u, x)) /\ Black(w, x) \in Nat
      <3>1. CASE x = n
        <4>1. Black(w, x) = 1 /\ Black(u, x) = 0
          BY <3>1 DEF Black
        <4>2. QED
          BY <1>3, <2>2, <3>1, <4>1
      <3>2. CASE x # n
        <4>1. Black(w, x) = Black(u, x)
          BY <3>2 DEF Black
        <4>2. QED
          BY <1>3, <2>2, <3>2, <4>1
      <3>3. QED
        BY <3>1, <3>2
    <2>5. Short(NULL, f, x, d) = 0
      BY <1>0 DEF Short
    <2>6. QED
      BY <2>1, <2>2, <2>3, <2>4, <2>5 DEF EvenAt
  <1>5. QED
    BY <1>3, <1>4 DEF Even, hu

\* Where the loop in progress, if any, stands, and what may be wrong there.
Fits(u, g, p, q, e) ==
  \/ p = Idle /\ q = NULL
  \/ /\ p \in [op : {"insert"}, tree : Trees, node : Nodes]
     /\ g.own[p.node] = p.tree /\ u.color[p.node] = "red" /\ q = NULL
  \/ /\ p \in [op : {"erase"}, tree : Trees, child : Nodes \cup {NULL}, up : Links]
     /\ \/ p.up \in Nodes /\ g.own[p.up] = p.tree /\ q = p.up /\ e \in Side /\ u.kid[e][q] = p.child
        \/ p.up = p.tree /\ p.child = u.parent[p.tree] /\ q = NULL

\* The node that may be red below a red one while a loop runs.
RedBelow(p) == IF p.op = "insert" THEN {p.node} ELSE IF p.op = "erase" THEN {p.child} ELSE {}
\* That whose kids may be red below it, though red.
RedAbove(p) == IF p.op = "erase" THEN {p.child} ELSE {}

\* All that is known of the trees: their shape, their heights, and where the loop that
\* runs, if one does, may still be wrong.
Sound(u, p, g, ht, q, e) ==
  /\ Shape(u, g) /\ Even(u, g, ht, q, e) /\ Fits(u, g, p, q, e)
  /\ Calm(u, g, RedBelow(p), RedAbove(p))

\* What holds of a red node below a red one.
LEMMA ParentNode ==
  ASSUME NEW u, NEW g, Shape(u, g), NEW n \in Nodes, g.own[n] # NULL, u.color[u.parent[n]] # "red"
  PROVE  /\ u.parent[n] \in Nodes /\ g.own[u.parent[n]] = g.own[n] /\ u.parent[n] # n
         /\ SideOf(u, n) \in Side /\ u.kid[SideOf(u, n)][u.parent[n]] = n
         /\ u.kid[Other(SideOf(u, n))][u.parent[n]] # n
  <1>1. Nodal(u, g) /\ TreesAt(u, g)
    BY DEF Shape
  <1>2. u.parent[n] \notin Nodes => u.parent[n] = g.own[n] /\ g.own[n] \in Trees
    BY <1>1, ParentFacts, NodeFacts, Sides
  <1>3. \A b \in Trees : u.color[b] = "red"
    BY <1>1 DEF TreesAt
  <1>4. u.parent[n] \in Nodes
    BY <1>2, <1>3
  <1>5. QED
    BY <1>1, <1>4, ParentFacts

\* The root of a tree with a node in it.
LEMMA RootFacts ==
  ASSUME NEW u, NEW g, Shape(u, g), NEW a \in Trees, NEW n \in Nodes, g.own[n] = a
  PROVE  LET r == Root(u, a)
         IN  /\ r \in Nodes /\ g.own[r] = a /\ u.parent[r] = a
             /\ \A x \in Nodes, d \in Side : u.kid[d][x] # r
             /\ \A x \in Nodes : g.own[x] # NULL /\ u.parent[x] \notin Nodes => u.parent[x] \in Trees
                                                          /\ x = u.parent[u.parent[x]]
             /\ (n # r => u.parent[n] \in Nodes)
  <1> DEFINE r == Root(u, a)
  <1>1. Nodal(u, g) /\ a # NULL /\ AnchorAt(u, g, a)
    BY Disjoint DEF Shape, TreesAt
  <1>2. g.len[a] # 0
    <2>1. 1 <= g.pos[n] /\ g.pos[n] <= g.len[a] /\ g.pos[n] \in Int /\ g.len[a] \in Nat
      BY <1>1, TreeFacts
    <2>2. QED
      BY <2>1
  <1>3. r \in Nodes /\ g.own[r] = a /\ u.parent[r] = a
    BY <1>1, <1>2 DEF AnchorAt, Root
  <1>4. ASSUME NEW x \in Nodes, NEW d \in Side
        PROVE  u.kid[d][x] # r
    BY <1>1, <1>3, KidLinks, Disjoint
  <1>5. ASSUME NEW x \in Nodes, g.own[x] # NULL, u.parent[x] \notin Nodes
        PROVE  u.parent[x] \in Trees /\ x = u.parent[u.parent[x]] /\ u.parent[x] = g.own[x]
    BY <1>1, <1>5, ParentFacts, NodeFacts, Sides
  <1>6. n # r => u.parent[n] \in Nodes
    BY <1>1, <1>5 DEF Root
  <1>7. QED
    BY <1>3, <1>4, <1>5, <1>6

\* The heights are those of any graph with the same kids and colours.
LEMMA EvenSame ==
  ASSUME NEW u, NEW g, NEW w, SameLinks(w, u), \A x \in Nodes : w.color[x] = u.color[x],
         NEW ht, NEW q, NEW e, Even(u, g, ht, q, e)
  PROVE  Even(w, g, ht, q, e)
  <1>1. \A x \in Nodes, d \in Side : w.kid[d][x] = u.kid[d][x]
    BY Disjoint DEF SameLinks
  <1>2. QED
    BY <1>1 DEF Even, EvenAt, Black

\* The end of the loop of an insertion.
LEMMA InsertEnds ==
  ASSUME NEW g, NEW ht, NEW q, NEW e, Sound(t, pc, g, ht, q, e), pc.op = "insert",
         ~(pc.node # Root(t, pc.tree) /\ Red(t, t.parent[pc.node])),
         NEW w, Paint(t, Root(t, pc.tree), "black") = w
  PROVE  \E hu : Sound(w, Idle, g, hu, NULL, e)
  <1> DEFINE a == pc.tree
             n == pc.node
             r == Root(t, a)
  <1>0. /\ Shape(t, g) /\ Nodal(t, g) /\ a \in Trees /\ n \in Nodes /\ g.own[n] = a /\ t.color[n] = "red" /\ q = NULL
        /\ a # NULL /\ g.own[n] # NULL
        /\ Even(t, g, ht, NULL, e) /\ Calm(t, g, {n}, {})
    BY Disjoint DEF Sound, Fits, Idle, RedBelow, RedAbove, Shape
  <1>1. /\ r \in Nodes /\ g.own[r] = a /\ t.parent[r] = a /\ r # NULL
        /\ \A x \in Nodes, d \in Side : t.kid[d][x] # r
        /\ \A x \in Nodes : g.own[x] # NULL /\ t.parent[x] \notin Nodes => t.parent[x] \in Trees
                                                     /\ x = t.parent[t.parent[x]]
    BY <1>0, RootFacts, Disjoint
  <1> HIDE DEF r
  <1>2. Shape(w, g) /\ Painted(w, t, r, "black")
    BY <1>0, <1>1, PaintShape DEF r, Color
  <1>3. SameLinks(w, t) /\ \A x \in Links : w.color[x] = IF x = r THEN "black" ELSE t.color[x]
    BY <1>2 DEF Painted, SameLinks
  <1>4. \A x \in Nodes : x \in Links
    BY Disjoint
  <1>5. \E hu : Even(w, g, hu, NULL, e)
    <2>1. CASE t.color[r] = "red"
      <3>1. Even(w, g, [ht EXCEPT ![r] = ht[r] + 1], NULL, e)
        BY <1>0, <1>1, <1>3, <1>4, <2>1, BlackenEven
      <3>2. QED
        BY <3>1
    <2>2. CASE t.color[r] # "red"
      <3>1. t.color[r] = "black"
        BY <1>0, <1>1, <1>4, <2>2 DEF Nodal, Graph, Color
      <3>2. Even(w, g, ht, NULL, e)
        BY <1>0, <1>3, <1>4, <3>1, EvenSame
      <3>3. QED
        BY <3>2
    <2>3. QED
      BY <2>1, <2>2
  <1>6. ASSUME NEW x \in Nodes, g.own[x] # NULL, w.color[x] = "red", w.color[w.parent[x]] = "red"
        PROVE  FALSE
    <2>1. w.parent[x] = t.parent[x] /\ x # r /\ t.color[x] = "red" /\ t.parent[x] \in Links
      BY <1>0, <1>3, <1>4, <1>6, NodeFacts, Sides DEF SameLinks
    <2>2. t.color[t.parent[x]] = "red" /\ t.parent[x] # r
      BY <1>3, <1>6, <2>1
    <2>3. x = n
      BY <1>0, <1>6, <2>1, <2>2 DEF Calm
    <2>4. t.parent[n] # NULL
      BY <2>1, <2>3, Disjoint
    <2>5. QED
      BY <2>1, <2>2, <2>3, <2>4 DEF Red, r
  <1>7. Calm(w, g, RedBelow(Idle), RedAbove(Idle))
    BY <1>6, SMTT(30), ZenonT(30) DEF Calm
  <1>8. QED
    BY <1>2, <1>5, <1>7 DEF Sound, Fits

\* The turn of an insertion that only recolours.
LEMMA InsertRecolours ==
  ASSUME NEW g, NEW ht, NEW q, NEW e, Sound(t, pc, g, ht, q, e), pc.op = "insert",
         pc.node # Root(t, pc.tree), Red(t, t.parent[pc.node]), Red(t, Uncle(t, t.parent[pc.node])),
         NEW w, LET p == t.parent[pc.node]
                IN  Paint(Paint(Paint(t, p, "black"), Uncle(t, p), "black"), t.parent[p], "red") = w
  PROVE  \E hu : Sound(w, [pc EXCEPT !.node = ClimbTo(t, pc.node)], g, hu, NULL, e)
  <1> DEFINE a == pc.tree
             n == pc.node
             p == t.parent[n]
             G == t.parent[p]
             s == SideOf(t, p)
             o == Other(s)
             U == t.kid[o][G]
  <1>0. /\ Shape(t, g) /\ Nodal(t, g) /\ a \in Trees /\ n \in Nodes /\ g.own[n] = a /\ t.color[n] = "red" /\ q = NULL
        /\ a # NULL /\ g.own[n] # NULL /\ \A x \in Nodes : x \in Links /\ x # NULL
        /\ Even(t, g, ht, NULL, e) /\ Calm(t, g, {n}, {})
        /\ pc = [op |-> "insert", tree |-> a, node |-> n]
    BY Disjoint DEF Sound, Fits, Idle, RedBelow, RedAbove, Shape
  <1>1. p \in Nodes /\ p # n /\ g.own[p] = a /\ t.color[p] = "red"
    <2>1. p \in Nodes
      BY <1>0, RootFacts
    <2>2. QED
      BY <1>0, <2>1, ParentFacts DEF Red
  <1>2. t.color[G] # "red"
    BY <1>0, <1>1, SMTT(30), ZenonT(30) DEF Calm
  <1>3. G \in Nodes /\ g.own[G] = a /\ G # p /\ s \in Side /\ t.kid[s][G] = p /\ U # p
    <2>1. Red(t, Uncle(t, p)) /\ Uncle(t, p) = U
      BY ZenonT(30), SMTT(30) DEF Uncle
    <2> HIDE DEF a, n, U, o
    <2>2. t.parent[p] = G /\ SideOf(t, p) = s /\ Other(s) = o /\ t.kid[o][G] = U
      BY DEF U, o
    <2> HIDE DEF s, G, p
    <2>3. G \in Nodes /\ g.own[G] = g.own[p] /\ G # p /\ s \in Side /\ t.kid[s][G] = p /\ t.kid[Other(s)][G] # p
      BY <1>0, <1>1, <1>2, <2>2, ParentNode
    <2>4. QED
      BY <1>1, <2>2, <2>3
  <1>4. o \in Side /\ Side = {s, o} /\ {s, o} = {"left", "right"} /\ s # o
    <2> HIDE DEF s
    <2>1. QED
      BY <1>3, Sides, SMTT(30), ZenonT(30)
  <1>5. U \in Nodes /\ U # NULL /\ t.color[U] = "red" /\ U # G /\ t.parent[U] = G /\ g.own[U] = a /\ Uncle(t, p) = U
    <2>1. U # NULL /\ t.color[U] = "red"
      BY ZenonT(30), SMTT(30) DEF Red, Uncle
    <2>2. \A x \in Nodes, d \in Side : t.kid[d][x] # NULL =>
            /\ t.kid[d][x] \in Nodes /\ t.kid[d][x] # x /\ t.parent[t.kid[d][x]] = x
            /\ g.own[t.kid[d][x]] = g.own[x]
      BY <1>0, KidLinks, SMTT(30), ZenonT(30)
    <2>3. U \in Nodes /\ U # G /\ t.parent[U] = G /\ g.own[U] = a
      BY <1>3, <1>4, <2>1, <2>2, ZenonT(30), SMTT(30)
    <2>4. QED
      BY <2>1, <2>3, ZenonT(30), SMTT(30) DEF Uncle
  <1>6. t.color[G] = "black"
    BY <1>0, <1>2, <1>3 DEF Nodal, Graph, Color
  <1> HIDE DEF p, G, s, o, U
  <1> DEFINE w1 == Paint(t, p, "black")
             w2 == Paint(w1, U, "black")
  <1>7. w = Paint(w2, G, "red")
    BY <1>5 DEF p, G
  <1> HIDE DEF w1, w2
  <1>8. "black" \in Color /\ "red" \in Color
    BY DEF Color
  <1>9. Shape(w1, g) /\ Painted(w1, t, p, "black")
    BY <1>0, <1>1, <1>8, PaintShape DEF w1
  <1>10. Shape(w2, g) /\ Painted(w2, w1, U, "black")
    BY <1>0, <1>5, <1>8, <1>9, PaintShape DEF w2
  <1>11. Shape(w, g) /\ Painted(w, w2, G, "red")
    BY <1>0, <1>3, <1>7, <1>8, <1>10, PaintShape, SMTT(30), ZenonT(30)
  <1>12. SameLinks(w, t) /\ \A x \in Links : w.color[x] = IF x = G THEN "red" ELSE IF x \in {p, U} THEN "black" ELSE t.color[x]
    <2>1. SameLinks(w, t)
      BY <1>9, <1>10, <1>11, SMTT(30), ZenonT(30) DEF Painted, SameLinks
    <2>2. \A x \in Links : w.color[x] = IF x = G THEN "red" ELSE IF x \in {p, U} THEN "black" ELSE t.color[x]
      BY <1>9, <1>10, <1>11 DEF Painted
    <2>3. QED
      BY <2>1, <2>2, SMTT(30), ZenonT(30)
  <1>13. \E hu : Even(w, g, hu, NULL, e)
    <2> DEFINE l == t.kid["left"][G]
               m == t.kid["right"][G]
    <2>1. {l, m} = {p, U} /\ l # NULL /\ m # NULL /\ t.color[l] = "red" /\ t.color[m] = "red"
      <3>1. CASE s = "left"
        BY <1>0, <1>1, <1>3, <1>4, <1>5, <3>1 DEF U
      <3>2. CASE s = "right"
        BY <1>0, <1>1, <1>3, <1>4, <1>5, <3>2, SMTT(30), ZenonT(30) DEF U
      <3>3. QED
        BY <1>4, <3>1, <3>2
    <2>2. \A x \in Nodes : w.color[x] = IF x = G THEN "red" ELSE IF x \in {l, m} THEN "black" ELSE t.color[x]
      BY <1>0, <1>12, <2>1
    <2> HIDE DEF l, m
    <2>3. l = t.kid["left"][G] /\ m = t.kid["right"][G]
      BY SMTT(30), ZenonT(30) DEF l, m
    <2>4. Even(w, g, [ht EXCEPT ![l] = ht[l] + 1, ![m] = ht[m] + 1], NULL, e)
      BY <1>0, <1>3, <1>6, <1>12, <2>1, <2>2, <2>3, RecolourEven, SMTT(30), ZenonT(30)
    <2>5. QED
      BY <2>4
  <1>14. ASSUME NEW x \in Nodes, g.own[x] # NULL, w.color[x] = "red", w.color[w.parent[x]] = "red", x # G
         PROVE  FALSE
    <2>1. w.parent[x] = t.parent[x] /\ x # p /\ x # U /\ t.color[x] = "red" /\ t.parent[x] \in Links
      <3>1. w.parent[x] = t.parent[x]
        BY <1>0, <1>12 DEF SameLinks
      <3>2. x # p /\ x # U /\ t.color[x] = "red"
        BY <1>0, <1>12, <1>14, SMTT(30), ZenonT(30)
      <3>3. t.parent[x] \in Links
        BY <1>0, <1>14, NodeFacts, Sides, SMTT(30), ZenonT(30)
      <3>4. QED
        BY <3>1, <3>2, <3>3, SMTT(30), ZenonT(30)
    <2>2. t.parent[x] # G
      <3> SUFFICES ASSUME t.parent[x] = G
                   PROVE  FALSE
        BY SMTT(30), ZenonT(30)
      <3>1. \E d \in Side : t.kid[d][G] = x
        BY <1>0, <1>3, <1>14, ParentFacts, SMTT(30), ZenonT(30)
      <3>2. QED
        BY <1>3, <1>4, <2>1, <3>1 DEF U
    <2>3. t.parent[x] # p /\ t.color[t.parent[x]] = "red"
      BY <1>12, <1>14, <2>1, <2>2, SMTT(30), ZenonT(30)
    <2>4. x = n
      BY <1>0, <1>14, <2>1, <2>3 DEF Calm
    <2>5. QED
      BY <2>3, <2>4 DEF p
  <1> DEFINE P == [pc EXCEPT !.node = G]
  <1>15. P = [op |-> "insert", tree |-> a, node |-> G]
    BY <1>0, SMTT(30), ZenonT(30)
  <1> HIDE DEF P
  <1>16. Calm(w, g, RedBelow(P), RedAbove(P))
    <2>1. RedBelow(P) = {G}
      BY <1>15 DEF RedBelow
    <2>2. QED
      BY <1>14, <2>1 DEF Calm
  <1>17. ClimbTo(t, n) = G
    BY DEF ClimbTo, G, p
  <1>18. w.color[G] = "red"
    BY <1>0, <1>3, <1>12, SMTT(30), ZenonT(30)
  <1>19. Fits(w, g, P, NULL, e)
    BY <1>0, <1>3, <1>15, <1>18 DEF Fits
  <1>20. QED
    BY <1>11, <1>13, <1>16, <1>17, <1>19 DEF Sound, P

\* A red node m below a red one on the side on which that is below a black one.
Bent(v, g, ht, e, a, m, P, G, s) ==
  /\ Shape(v, g) /\ Even(v, g, ht, NULL, e) /\ Calm(v, g, {m}, {})
  /\ m \in Nodes /\ P \in Nodes /\ G \in Nodes /\ g.own[m] = a /\ g.own[P] = a /\ g.own[G] = a
  /\ v.kid[s][P] = m /\ v.kid[s][G] = P
  /\ v.color[m] = "red" /\ v.color[P] = "red" /\ v.color[G] = "black"
  /\ ~Red(v, v.kid[Other(s)][G])

\* r is sound but for m, which is red and may be below a red node.
Turned(r, g, e, m) ==
  \E h, hu : /\ Shape(r, h) /\ h.own = g.own /\ h.len = g.len
             /\ Even(r, h, hu, NULL, e) /\ Calm(r, h, {m}, {}) /\ r.color[m] = "red"

\* What the last rotation of an insertion makes of it.
LEMMA Straightened ==
  ASSUME NEW v, NEW g, NEW ht, NEW e, NEW a \in Trees, NEW m, NEW P, NEW G, NEW s \in Side,
         Bent(v, g, ht, e, a, m, P, G, s),
         NEW r, Rotate(Paint(Paint(v, P, "black"), G, "red"), a, G, Other(s)) = r
  PROVE  Turned(r, g, e, m)
  <1> DEFINE o == Other(s)
             w1 == Paint(v, P, "black")
             w == Paint(w1, G, "red")
             mid == v.kid[o][P]
  <1>0. /\ Shape(v, g) /\ Nodal(v, g) /\ Even(v, g, ht, NULL, e) /\ Calm(v, g, {m}, {})
        /\ m \in Nodes /\ P \in Nodes /\ G \in Nodes /\ g.own[m] = a /\ g.own[P] = a /\ g.own[G] = a
        /\ v.kid[s][P] = m /\ v.kid[s][G] = P
        /\ v.color[m] = "red" /\ v.color[P] = "red" /\ v.color[G] = "black"
        /\ ~Red(v, v.kid[o][G])
    BY DEF Bent, Shape
  <1>1. /\ a # NULL /\ P # NULL /\ \A x \in Nodes : x \in Links /\ x # NULL /\ "black" \in Color /\ "red" \in Color
        /\ o \in Side /\ Side = {s, o} /\ o # s /\ Other(o) = s
    BY <1>0, Disjoint, Sides DEF Color
  <1>2. P # m /\ G # P /\ G # m
    <2>1. v.kid[s][P] # P
      BY <1>0, <1>1, KidLinks
    <2>2. QED
      BY <1>0, <2>1, SMTT(30), ZenonT(30)
  <1>3. Shape(w1, g) /\ Painted(w1, v, P, "black")
    BY <1>0, <1>1, PaintShape
  <1>4. Shape(w, g) /\ Painted(w, w1, G, "red")
    <2> HIDE DEF w1
    <2>1. QED
      BY <1>0, <1>1, <1>3, PaintShape
  <1>5. r = Rotate(w, a, G, o)
    OBVIOUS
  <1> HIDE DEF w1, w
  <1>6. SameLinks(w, v) /\ \A x \in Links : w.color[x] = IF x = G THEN "red" ELSE IF x = P THEN "black" ELSE v.color[x]
    BY <1>3, <1>4 DEF Painted, SameLinks
  <1>7. /\ \A x \in Nodes, d \in Side : w.kid[d][x] = v.kid[d][x]
        /\ \A x \in Nodes : w.parent[x] = v.parent[x]
    BY <1>1, <1>6 DEF SameLinks
  <1>8. w.kid[s][G] = P
    BY <1>0, <1>7
  <1>9. Even(r, g, [ht EXCEPT ![G] = ht[P], ![P] = ht[G]], NULL, e)
    <2>1. \A x \in Nodes : w.color[x] = IF x = G THEN "red" ELSE IF x = P THEN v.color[G] ELSE v.color[x]
      BY <1>0, <1>1, <1>2, <1>6
    <2>2. NULL # P /\ ~(NULL = G /\ e = Other(o)) /\ P = v.kid[Other(o)][G]
      BY <1>0, <1>1
    <2>3. QED
      BY <1>0, <1>1, <1>4, <1>5, <1>6, <2>1, <2>2, RotateEven
  <1>10. PICK h : Shape(r, h) /\ h.own = g.own /\ h.len = g.len
    BY <1>0, <1>1, <1>4, <1>5, <1>8, RotateShape
  <1>11. /\ \A x \in Links : r.color[x] = w.color[x]
         /\ \A x \in Nodes :
              r.parent[x] = IF x = G THEN P ELSE IF x = P THEN v.parent[G] ELSE IF x = mid THEN G ELSE v.parent[x]
    <2>2. w.kid[Other(o)][G] = P /\ w.kid[o][P] = mid
      BY <1>0, <1>1, <1>7, <1>8
    <2>1. Rotated(r, w, G, o, P, mid)
      BY <1>0, <1>1, <1>4, <1>5, <1>8, <2>2, RotateIs
    <2>3. /\ \A x \in Links : r.color[x] = w.color[x]
          /\ \A x \in Nodes :
               r.parent[x] = IF x = G THEN P ELSE IF x = P THEN w.parent[G]
                             ELSE IF x = mid THEN G ELSE w.parent[x]
      BY <2>1, ZenonT(30), SMTT(30) DEF Rotated
    <2>4. QED
      BY <1>0, <1>7, <2>3, SMTT(30), ZenonT(30)
  <1>12. \A x \in Nodes, d \in Side : v.kid[d][x] # NULL => v.kid[d][x] \in Nodes /\ v.parent[v.kid[d][x]] = x
           /\ g.own[v.kid[d][x]] # NULL
    BY <1>0, KidLinks
  <1>13. mid # m
    <2>1. v.kid[Other(s)][P] # m
      BY <1>0, <1>1, KidFacts
    <2>2. QED
      BY <2>1
  <1>14. ASSUME NEW x \in Nodes, g.own[x] # NULL, r.color[x] = "red", r.color[r.parent[x]] = "red", x # m
         PROVE  FALSE
    <2>1. x # P /\ x # G
      BY <1>0, <1>1, <1>2, <1>6, <1>11, <1>14
    <2>2. v.color[x] = "red" /\ v.parent[x] \in Links
      BY <1>0, <1>1, <1>6, <1>11, <1>14, <2>1, NodeFacts
    <2>3. CASE x = mid
      <3>1. v.parent[x] = P
        BY <1>0, <1>1, <1>12, <2>3
      <3>2. QED
        BY <1>0, <1>13, <1>14, <2>2, <2>3, <3>1 DEF Calm
    <2>4. CASE x # mid
      <3>1. r.parent[x] = v.parent[x]
        BY <1>11, <2>1, <2>4
      <3>2. v.parent[x] # G
        <4> SUFFICES ASSUME v.parent[x] = G
                     PROVE  FALSE
          OBVIOUS
        <4>1. \E d \in Side : v.kid[d][G] = x
          BY <1>0, <1>14, ParentFacts
        <4>2. x = v.kid[o][G]
          BY <1>0, <1>1, <2>1, <4>1
        <4>3. QED
          BY <1>0, <1>1, <2>2, <4>2 DEF Red
      <3>3. v.parent[x] # P /\ v.color[v.parent[x]] = "red"
        BY <1>1, <1>2, <1>6, <1>11, <1>14, <2>2, <3>1, <3>2, <1>0
      <3>4. QED
        BY <1>0, <1>14, <2>2, <3>3 DEF Calm
    <2>5. QED
      BY <2>3, <2>4
  <1>15. Calm(r, h, {m}, {})
    BY <1>10, <1>14 DEF Calm
  <1>16. r.color[m] = "red"
    BY <1>0, <1>1, <1>2, <1>6, <1>11
  <1>17. Even(r, h, [ht EXCEPT ![G] = ht[P], ![P] = ht[G]], NULL, e)
    BY <1>9, <1>10 DEF Even
  <1>18. QED
    BY <1>10, <1>15, <1>16, <1>17 DEF Turned

\* A red node n below a red one on the inner side: after one rotation the one
\* above is below it, on the outer side.
LEMMA Unbent ==
  ASSUME NEW u, NEW g, NEW ht, NEW e, NEW a \in Trees, NEW n \in Nodes, NEW p \in Nodes, NEW G \in Nodes, NEW s \in Side,
         Shape(u, g), Even(u, g, ht, NULL, e), Calm(u, g, {n}, {}),
         g.own[n] = a, g.own[p] = a, g.own[G] = a,
         u.kid[Other(s)][p] = n, u.kid[s][G] = p,
         u.color[n] = "red", u.color[p] = "red", u.color[G] = "black", ~Red(u, u.kid[Other(s)][G]),
         NEW r, Rotate(u, a, p, s) = r
  PROVE  \E h, hu : Bent(r, h, hu, e, a, p, n, G, s) /\ h.own = g.own /\ h.len = g.len /\ r.parent[p] = n
  <1> DEFINE o == Other(s)
             mid == u.kid[s][n]
  <1>0. Nodal(u, g) /\ SameLinks(u, u)
    BY DEF Shape, SameLinks
  <1>1. /\ a # NULL /\ \A x \in Nodes : x \in Links /\ x # NULL
        /\ o \in Side /\ Side = {s, o} /\ o # s /\ Other(o) = s
    BY Disjoint, Sides
  <1>2. /\ \A x \in Nodes, d \in Side : u.kid[d][x] # NULL => u.kid[d][x] \in Nodes /\ u.parent[u.kid[d][x]] = x
             /\ u.kid[d][x] # x
    BY <1>0, KidLinks
  <1>3. u.parent[n] = p /\ u.parent[p] = G /\ p # n /\ G # p /\ G # n
    BY <1>1, <1>2
  <1>4. Even(r, g, [ht EXCEPT ![p] = ht[n], ![n] = ht[p]], NULL, e)
    <2>1. NULL # n /\ ~(NULL = p /\ e = Other(s))
      BY <1>1
    <2>2. \A x \in Nodes : u.color[x] = IF x = p THEN "red" ELSE IF x = n THEN u.color[p] ELSE u.color[x]
      OBVIOUS
    <2>3. QED
      BY <1>0, <1>1, <2>1, <2>2, RotateEven
  <1>5. PICK h : Shape(r, h) /\ h.own = g.own /\ h.len = g.len
    BY <1>1, RotateShape
  <1>6. /\ \A x \in Links : r.color[x] = u.color[x]
        /\ \A x \in Nodes, d \in Side :
             r.kid[d][x] = IF d = o /\ x = p THEN mid ELSE IF d = s /\ x = n THEN p
                           ELSE IF u.kid[d][x] = p THEN n ELSE u.kid[d][x]
        /\ \A x \in Nodes :
             r.parent[x] = IF x = p THEN n ELSE IF x = n THEN u.parent[p] ELSE IF x = mid THEN p ELSE u.parent[x]
    <2>1. Rotated(r, u, p, s, n, mid)
      BY <1>1, RotateIs
    <2>2. QED
      BY <1>0, <1>1, <2>1, ZenonT(30), SMTT(30) DEF Rotated
  <1>7. u.kid[o][G] # p
    BY <1>0, <1>1, KidFacts
  <1>8. r.kid[s][n] = p /\ r.kid[s][G] = n /\ r.kid[o][G] = u.kid[o][G] /\ r.parent[p] = n
    BY <1>1, <1>3, <1>6, <1>7
  <1>9. ~Red(r, r.kid[o][G])
    <2>1. u.kid[o][G] \in Links \cup {NULL}
      BY <1>1, <1>2
    <2>2. QED
      BY <1>6, <1>8, <2>1 DEF Red
  <1>10. ASSUME NEW x \in Nodes, g.own[x] # NULL, r.color[x] = "red", r.color[r.parent[x]] = "red", x # p
         PROVE  FALSE
    <2>1. u.color[x] = "red" /\ u.parent[x] \in Links
      BY <1>0, <1>1, <1>6, <1>10, NodeFacts
    <2>2. CASE x = n
      <3>1. r.parent[x] = G
        BY <1>3, <1>6, <2>2
      <3>2. QED
        BY <1>1, <1>6, <1>10, <3>1
    <2>3. CASE x = mid
      <3>1. u.parent[x] = n
        BY <1>1, <1>2, <2>3
      <3>2. x = n
        BY <1>10, <2>1, <3>1 DEF Calm
      <3>3. mid # NULL => mid # n
        BY <1>2
      <3>4. QED
        BY <1>1, <2>3, <3>2, <3>3
    <2>4. CASE x # n /\ x # mid
      <3>1. r.parent[x] = u.parent[x]
        BY <1>6, <1>10, <2>4
      <3>2. u.color[u.parent[x]] = "red"
        BY <1>6, <1>10, <2>1, <3>1
      <3>3. QED
        BY <1>10, <2>1, <2>4, <3>2 DEF Calm
    <2>5. QED
      BY <2>2, <2>3, <2>4
  <1>11. Calm(r, h, {p}, {})
    BY <1>5, <1>10 DEF Calm
  <1>12. Even(r, h, [ht EXCEPT ![p] = ht[n], ![n] = ht[p]], NULL, e)
    BY <1>4, <1>5 DEF Even
  <1>13. r.color[p] = "red" /\ r.color[n] = "red" /\ r.color[G] = "black"
    BY <1>1, <1>6
  <1>14. Bent(r, h, [ht EXCEPT ![p] = ht[n], ![n] = ht[p]], e, a, p, n, G, s)
    BY <1>5, <1>8, <1>9, <1>11, <1>12, <1>13 DEF Bent
  <1>15. QED
    BY <1>5, <1>8, <1>14

\* The turn of an insertion that rotates.
LEMMA InsertRotates ==
  ASSUME NEW u, NEW g, NEW ht, NEW e, NEW a \in Trees, NEW n \in Nodes,
         Shape(u, g), Even(u, g, ht, NULL, e), Calm(u, g, {n}, {}), g.own[n] = a, u.color[n] = "red",
         NEW p, u.parent[n] = p, n # Root(u, a), Red(u, p), ~Red(u, Uncle(u, p)),
         NEW G, u.parent[p] = G, NEW s, SideOf(u, p) = s, NEW o, Other(s) = o,
         NEW v, (IF n = u.kid[o][p] THEN Rotate(u, a, p, s) ELSE u) = v,
         NEW m, (IF n = u.kid[o][p] THEN p ELSE n) = m,
         NEW r, Rotate(Paint(Paint(v, v.parent[m], "black"), G, "red"), a, G, o) = r
  PROVE  Turned(r, g, e, m) /\ m \in Nodes /\ g.own[m] = a
  <1> DEFINE U == u.kid[o][G]
             inner == n = u.kid[o][p]
             P == v.parent[m]
  <1>0. /\ Nodal(u, g) /\ a # NULL /\ g.own[n] # NULL /\ \A x \in Nodes : x \in Links /\ x # NULL
    BY Disjoint DEF Shape
  <1>1. p \in Nodes /\ p # n /\ g.own[p] = a /\ u.color[p] = "red"
    <2>1. p \in Nodes
      BY <1>0, RootFacts
    <2>2. QED
      BY <1>0, <2>1, ParentFacts DEF Red
  <1>2. u.color[G] # "red"
    BY <1>0, <1>1 DEF Calm
  <1>3. G \in Nodes /\ g.own[G] = a /\ G # p /\ s \in Side /\ u.kid[s][G] = p /\ U # p
    BY <1>0, <1>1, <1>2, ParentNode
  <1>4. o \in Side /\ Side = {s, o} /\ s # o
    BY <1>3, Sides
  <1>5. u.color[G] = "black"
    BY <1>0, <1>2, <1>3 DEF Nodal, Graph, Color
  <1>6. ~Red(u, U)
    BY DEF Uncle
  <1> HIDE DEF U
  <1>7. \E h, hu : Bent(v, h, hu, e, a, m, P, G, s) /\ h.own = g.own /\ h.len = g.len
    <2>1. CASE inner
      <3>1. n = u.kid[o][p] /\ v = Rotate(u, a, p, s) /\ m = p
        BY <2>1
      <3>0. ~Red(u, u.kid[Other(s)][G])
        BY <1>6 DEF U
      <3>9. u.kid[Other(s)][p] = n
        BY <3>1
      <3>2. \E h, hu : Bent(Rotate(u, a, p, s), h, hu, e, a, p, n, G, s) /\ h.own = g.own /\ h.len = g.len
                       /\ Rotate(u, a, p, s).parent[p] = n
        <4> DEFINE r0 == Rotate(u, a, p, s)
        <4>1. r0 = Rotate(u, a, p, s)
          OBVIOUS
        <4> HIDE DEF r0
        <4>2. \E h, hu : Bent(r0, h, hu, e, a, p, n, G, s) /\ h.own = g.own /\ h.len = g.len /\ r0.parent[p] = n
          BY <1>0, <1>1, <1>3, <1>5, <3>0, <3>9, <4>1, Unbent
        <4>3. QED
          BY <4>1, <4>2
      <3>3. QED
        <4> HIDE DEF inner
        <4>1. QED
          BY <3>1, <3>2
    <2>2. CASE ~inner
      <3>1. n # u.kid[o][p] /\ v = u /\ m = n
        BY <2>2
      <3>5. P = p
        BY <3>1
      <3>2. \E d \in Side : u.kid[d][p] = n
        BY <1>0, <1>1, ParentFacts
      <3>3. u.kid[s][p] = n
        BY <1>4, <3>1, <3>2
      <3>4. Bent(u, g, ht, e, a, n, p, G, s)
        BY <1>0, <1>1, <1>3, <1>5, <1>6, <3>3 DEF Bent, U
      <3>6. QED
        BY <3>1, <3>4, <3>5
    <2>3. QED
      BY <2>1, <2>2
  <1> HIDE DEF inner
  <1>8. PICK h1, h2 : Bent(v, h1, h2, e, a, m, P, G, s) /\ h1.own = g.own /\ h1.len = g.len
    BY <1>7
  <1>21. Rotate(Paint(Paint(v, P, "black"), G, "red"), a, G, Other(s)) = r
    OBVIOUS
  <1> HIDE DEF P
  <1>9. Turned(r, h1, e, m)
    BY <1>3, <1>8, <1>21, Straightened
  <1>10. PICK h, hu : /\ Shape(r, h) /\ h.own = h1.own /\ h.len = h1.len
                      /\ Even(r, h, hu, NULL, e) /\ Calm(r, h, {m}, {}) /\ r.color[m] = "red"
    BY <1>9 DEF Turned
  <1>11. m \in Nodes /\ g.own[m] = a
    BY <1>8 DEF Bent
  <1>12. Turned(r, g, e, m)
    BY <1>8, <1>10 DEF Turned
  <1>13. QED
    BY <1>11, <1>12

\* Every turn of the loop after an insertion, the last included, leaves the trees sound
\* (red_black_tree.cpp:224-283).
LEMMA InsertTurnSound ==
  ASSUME NEW g, NEW ht, NEW q, NEW e, Sound(t, pc, g, ht, q, e), InsertTurn
  PROVE  \E h, hu : Sound(t', pc', h, hu, NULL, e) /\ h.own = g.own /\ h.len = g.len
  <1> DEFINE n == pc.node
             a == pc.tree
             p == t.parent[n]
             G == t.parent[p]
             s == SideOf(t, p)
             inner == n = t.kid[Other(s)][p]
             v == IF inner THEN Rotate(t, pc.tree, p, s) ELSE t
             m == IF inner THEN p ELSE n
  <1>0. pc.op = "insert"
    BY DEF InsertTurn
  <1>1. CASE ~(n # Root(t, pc.tree) /\ Red(t, p))
    <2>1. t' = Paint(t, Root(t, pc.tree), "black") /\ pc' = Idle
      BY <1>1 DEF InsertTurn
    <2>2. \E hu : Sound(t', Idle, g, hu, NULL, e)
      BY <1>0, <1>1, <2>1, InsertEnds
    <2>3. QED
      BY <2>1, <2>2
  <1>2. CASE n # Root(t, pc.tree) /\ Red(t, p) /\ Red(t, Uncle(t, p))
    <2>1. t' = Paint(Paint(Paint(t, p, "black"), Uncle(t, p), "black"), G, "red")
          /\ pc' = [pc EXCEPT !.node = ClimbTo(t, n)]
      BY <1>2, ZenonT(30), SMTT(30) DEF InsertTurn
    <2>2. \E hu : Sound(t', [pc EXCEPT !.node = ClimbTo(t, pc.node)], g, hu, NULL, e)
      BY <1>0, <1>2, <2>1, InsertRecolours
    <2>3. QED
      BY <2>1, <2>2
  <1>3. CASE n # Root(t, pc.tree) /\ Red(t, p) /\ ~Red(t, Uncle(t, p))
    <2> DEFINE r == Rotate(Paint(Paint(v, v.parent[m], "black"), G, "red"), a, G, Other(s))
    <2>1. t' = r /\ pc' = [pc EXCEPT !.node = m]
      BY <1>3, ZenonT(30), SMTT(30) DEF InsertTurn
    <2>2. /\ Shape(t, g) /\ a \in Trees /\ n \in Nodes /\ g.own[n] = a /\ t.color[n] = "red"
          /\ Even(t, g, ht, NULL, e) /\ Calm(t, g, {n}, {})
          /\ pc = [op |-> "insert", tree |-> a, node |-> n]
      BY <1>0 DEF Sound, Fits, Idle, RedBelow, RedAbove
    <2>3. n # Root(t, a) /\ Red(t, t.parent[n]) /\ ~Red(t, Uncle(t, t.parent[n]))
      BY <1>3, SMTT(30), ZenonT(30)
    <2>4. Turned(r, g, e, m) /\ m \in Nodes /\ g.own[m] = a
      <3> DEFINE o == Other(s)
      <3>1. /\ t.parent[n] = p /\ t.parent[p] = G /\ SideOf(t, p) = s /\ Other(s) = o
            /\ (IF n = t.kid[o][p] THEN Rotate(t, a, p, s) ELSE t) = v
            /\ (IF n = t.kid[o][p] THEN p ELSE n) = m
            /\ Rotate(Paint(Paint(v, v.parent[m], "black"), G, "red"), a, G, o) = r
        BY ZenonT(30), SMTT(30)
      <3> HIDE DEF r, m, v, inner, o, s, G, p, n, a
      <3>2. Red(t, p) /\ ~Red(t, Uncle(t, p))
        BY <1>3
      <3>3. QED
        BY <2>2, <2>3, <3>1, <3>2, InsertRotates
    <2> HIDE DEF r, m, v, inner, s, G, p
    <2>5. PICK h, hu : /\ Shape(r, h) /\ h.own = g.own /\ h.len = g.len
                       /\ Even(r, h, hu, NULL, e) /\ Calm(r, h, {m}, {})
                       /\ m \in Nodes /\ h.own[m] = a /\ r.color[m] = "red"
      BY <2>4 DEF Turned
    <2> DEFINE P == [pc EXCEPT !.node = m]
    <2>6. P = [op |-> "insert", tree |-> a, node |-> m]
      BY <2>2
    <2> HIDE DEF P, a, n
    <2>7. RedBelow(P) = {m} /\ RedAbove(P) = {}
      BY <2>6 DEF RedBelow, RedAbove
    <2>8. P \in [op : {"insert"}, tree : Trees, node : Nodes] /\ P.node = m /\ P.tree = a
      BY <2>2, <2>5, <2>6
    <2>9. Fits(r, h, P, NULL, e)
      BY <2>5, <2>8 DEF Fits
    <2>10. Sound(r, P, h, hu, NULL, e)
      BY <2>5, <2>7, <2>9 DEF Sound
    <2>11. pc' = P
      BY <2>1 DEF P
    <2>12. QED
      BY <2>1, <2>5, <2>10, <2>11, SMTT(30), ZenonT(30)
  <1>4. QED
    BY <1>1, <1>2, <1>3

\* The end of the loop of an erasure.
LEMMA EraseEnds ==
  ASSUME NEW u, NEW g, NEW ht, NEW q, NEW e, Shape(u, g), Even(u, g, ht, q, e),
         NEW a \in Trees, NEW c \in Nodes \cup {NULL}, NEW p, Calm(u, g, {c}, {c}),
         \/ p \in Nodes /\ g.own[p] = a /\ q = p /\ e \in Side /\ u.kid[e][q] = c
         \/ p = a /\ c = u.parent[a] /\ q = NULL,
         c = Root(u, a) \/ Red(u, c)
  PROVE  LET w == Paint(u, c, "black")
         IN  Shape(w, g) /\ (\E hu : Even(w, g, hu, NULL, e)) /\ Calm(w, g, {}, {})
  <1> DEFINE w == Paint(u, c, "black")
  <1>0. Nodal(u, g) /\ a # NULL /\ AnchorAt(u, g, a) /\ "black" \in Color
        /\ \A x \in Nodes : x \in Links /\ x # NULL
    BY Disjoint DEF Shape, TreesAt, Color
  <1>1. c # NULL => g.own[c] = a
    <2>1. CASE p \in Nodes
      BY <1>0, <2>1, Disjoint, KidLinks
    <2>2. CASE p = a /\ c = u.parent[a]
      BY <1>0, <2>2 DEF AnchorAt
    <2>3. QED
      BY <2>1, <2>2, SMTT(30), ZenonT(30)
  <1>2. Shape(w, g) /\ Painted(w, u, c, "black")
    BY <1>0, <1>1, PaintShape
  <1> HIDE DEF w
  <1>3. SameLinks(w, u) /\ \A x \in Links : w.color[x] = IF x = c THEN "black" ELSE u.color[x]
    BY <1>2 DEF Painted, SameLinks
  <1>4. Calm(w, g, {}, {})
    <2> SUFFICES ASSUME NEW x \in Nodes, g.own[x] # NULL, w.color[x] = "red", w.color[w.parent[x]] = "red"
                 PROVE  FALSE
      BY DEF Calm
    <2>1. w.parent[x] = u.parent[x] /\ u.parent[x] \in Links
      BY <1>0, <1>3, NodeFacts, Sides DEF SameLinks
    <2>2. x # c /\ u.color[x] = "red" /\ u.parent[x] # c /\ u.color[u.parent[x]] = "red"
      BY <1>0, <1>3, <2>1
    <2>3. QED
      BY <2>2 DEF Calm
  <1>5. CASE Red(u, c)
    <2>1. c \in Nodes /\ u.color[c] = "red" /\ g.own[c] # NULL
      BY <1>0, <1>1, <1>5 DEF Red
    <2>2. \A x \in Nodes : w.color[x] = IF x = c THEN "black" ELSE u.color[x]
      BY <1>0, <1>3
    <2>3. \/ q \in Nodes /\ e \in Side /\ u.kid[e][q] = c
          \/ q = NULL /\ \A x \in Nodes, d \in Side : u.kid[d][x] # c
      <3>1. CASE p = a /\ c = u.parent[a] /\ q = NULL
        BY <1>0, <1>1, <2>1, <3>1, RootFacts DEF Root
      <3>2. QED
        BY <3>1
    <2>4. Even(w, g, [ht EXCEPT ![c] = ht[c] + 1], NULL, e)
      BY <1>0, <1>3, <2>1, <2>2, <2>3, BlackenEven
    <2>5. QED
      BY <1>2, <1>4, <2>4 DEF w
  <1>6. CASE ~Red(u, c)
    <2>1. c = u.parent[a]
      BY <1>6 DEF Root
    <2>2. q = NULL
      <3> SUFFICES ASSUME p \in Nodes, g.own[p] = a, e \in Side, u.kid[e][p] = c
                   PROVE  FALSE
        OBVIOUS
      <3>1. /\ u.parent[a] \in Nodes
            /\ \A x \in Nodes, d \in Side : u.kid[d][x] # u.parent[a]
        BY <1>0, RootFacts DEF Root
      <3>2. QED
        BY <2>1, <3>1
    <2>3. \A x \in Nodes : w.color[x] = u.color[x]
      <3>1. c \in Nodes => u.color[c] = "black"
        BY <1>0, <1>6 DEF Red, Nodal, Graph, Color
      <3>2. QED
        BY <1>0, <1>3, <3>1
    <2>4. Even(w, g, ht, NULL, e)
      BY <1>3, <2>2, <2>3, EvenSame
    <2>5. QED
      BY <1>2, <1>4, <2>4 DEF w
  <1>7. QED
    BY <1>5, <1>6

\* The place on side e of p is one black short: it has a sibling.
LEMMA HasSibling ==
  ASSUME NEW u, NEW g, NEW ht, NEW e \in Side, NEW p \in Nodes, Nodal(u, g), Even(u, g, ht, p, e), g.own[p] # NULL
  PROVE  LET w == u.kid[Other(e)][p]
             c == u.kid[e][p]
         IN  /\ w \in Nodes /\ g.own[w] = g.own[p] /\ w # p /\ w # c /\ c # p /\ u.parent[w] = p
             /\ c \in Nodes \cup {NULL} /\ (IF c = u.kid["left"][p] THEN "left" ELSE "right") = e
  <1> DEFINE o == Other(e)
             w == u.kid[o][p]
             c == u.kid[e][p]
  <1>0. o \in Side /\ o # e /\ Side = {"left", "right"} /\ p # NULL
    BY Sides, Disjoint
  <1>1. w \in Nodes \cup {NULL} /\ c \in Nodes \cup {NULL}
    BY <1>0, NodeFacts
  <1>2. w # NULL
    <2> SUFFICES ASSUME w = NULL
                 PROVE  FALSE
      OBVIOUS
    <2>1. EvenAt(u, ht, p, e, p, e) /\ EvenAt(u, ht, p, e, p, o)
      BY <1>0 DEF Even
    <2>2. ht[p] = Level(ht, c) + 1 + Black(u, p) /\ ht[p] = 0 + 0 + Black(u, p)
      BY <1>0, <2>1 DEF EvenAt, Short, Level
    <2>3. Level(ht, c) \in Nat /\ Black(u, p) \in Nat
      BY <1>1 DEF Level, Even, Black
    <2>4. QED
      BY <2>2, <2>3
  <1>3. w \in Nodes /\ w # p /\ g.own[w] = g.own[p] /\ u.parent[w] = p /\ u.kid[Other(o)][p] # w
    BY <1>0, <1>1, <1>2, KidFacts
  <1>4. Other(o) = e
    BY Sides
  <1>5. c # p
    BY <1>0, KidLinks, Disjoint
  <1>6. QED
    BY <1>0, <1>1, <1>3, <1>4, <1>5

\* The place on side e of p, where c is, is one black short, and its sibling is black.
Poised(u, g, ht, a, c, p, e) ==
  /\ Shape(u, g) /\ Even(u, g, ht, p, e) /\ Calm(u, g, {}, {})
  /\ p \in Nodes /\ g.own[p] = a /\ e \in Side /\ u.kid[e][p] = c /\ ~Red(u, c)
  /\ u.kid[Other(e)][p] \in Nodes /\ u.color[u.kid[Other(e)][p]] = "black"

\* Some meaning and heights make that so, for the same elements of each tree.
CanPoise(u, g, a, c, p, e) == \E h, hu : Poised(u, h, hu, a, c, p, e) /\ h.own = g.own /\ h.len = g.len

\* A red sibling goes up, and the black kid in its place is the sibling then.
LEMMA SiblingBlack ==
  ASSUME NEW u, NEW g, NEW ht, NEW e \in Side, NEW a \in Trees, NEW p \in Nodes, NEW c,
         Shape(u, g), Even(u, g, ht, p, e), g.own[p] = a, u.kid[e][p] = c, ~Red(u, c),
         Calm(u, g, {c}, {c}),
         NEW b, u.kid[Other(e)][p] = b,
         NEW r, (IF Red(u, b) THEN Rotate(Paint(Paint(u, b, "black"), p, "red"), a, p, e) ELSE u) = r
  PROVE  CanPoise(r, g, a, c, p, e)
  <1> DEFINE o == Other(e)
  <1>0. /\ Nodal(u, g) /\ g.own[p] # NULL /\ \A x \in Nodes : x \in Links /\ x # NULL
        /\ o \in Side /\ Side = {e, o} /\ o # e /\ Other(o) = e /\ "black" \in Color /\ "red" \in Color
        /\ \A x \in Nodes : u.color[x] \in {"red", "black"}
    BY Disjoint, Sides DEF Shape, Nodal, Graph, Color
  <1>1. b \in Nodes /\ g.own[b] = a /\ b # p /\ b # c /\ c # p /\ u.parent[b] = p /\ c \in Nodes \cup {NULL}
    <2>1. /\ u.kid[Other(e)][p] \in Nodes /\ g.own[u.kid[Other(e)][p]] = g.own[p] /\ u.kid[Other(e)][p] # p
          /\ u.kid[Other(e)][p] # u.kid[e][p] /\ u.kid[e][p] # p /\ u.parent[u.kid[Other(e)][p]] = p
          /\ u.kid[e][p] \in Nodes \cup {NULL}
      <3>1. Nodal(u, g) /\ g.own[p] # NULL
        BY <1>0
      <3> HIDE DEF o
      <3>2. QED
        BY <3>1, HasSibling
    <2>2. QED
      BY <2>1
  <1>2. Calm(u, g, {}, {})
    <2> SUFFICES ASSUME NEW x \in Nodes, g.own[x] # NULL, u.color[x] = "red", u.color[u.parent[x]] = "red"
                 PROVE  FALSE
      BY DEF Calm
    <2>1. x = c \/ u.parent[x] = c
      BY DEF Calm
    <2>2. x # NULL /\ u.parent[x] # NULL
      BY <1>0, NodeFacts, Disjoint
    <2>3. QED
      BY <2>1, <2>2 DEF Red
  <1>3. CASE ~Red(u, b)
    <2>1. u.color[b] = "black"
      BY <1>0, <1>1, <1>3 DEF Red
    <2>2. Poised(u, g, ht, a, c, p, e)
      BY <1>1, <1>2, <2>1 DEF Poised
    <2>3. QED
      BY <1>3, <2>2 DEF CanPoise
  <1>4. CASE Red(u, b)
    <2> DEFINE w1 == Paint(u, b, "black")
               w == Paint(w1, p, "red")
               mid == u.kid[e][b]
    <2>0. u.color[b] = "red"
      BY <1>4 DEF Red
    <2>1. u.color[p] = "black"
      BY <1>0, <1>1, <1>2, <2>0 DEF Calm
    <2>2. Shape(w1, g) /\ Painted(w1, u, b, "black")
      BY <1>0, <1>1, PaintShape
    <2>3. Shape(w, g) /\ Painted(w, w1, p, "red")
      <3> HIDE DEF w1
      <3>1. QED
        BY <1>0, <2>2, PaintShape
    <2>4. r = Rotate(w, a, p, e)
      BY <1>4
    <2> HIDE DEF w1, w
    <2>5. SameLinks(w, u) /\ \A x \in Links : w.color[x] = IF x = p THEN "red" ELSE IF x = b THEN "black" ELSE u.color[x]
      BY <2>2, <2>3 DEF Painted, SameLinks
    <2>6. \A x \in Nodes : w.color[x] = IF x = p THEN "red" ELSE IF x = b THEN u.color[p] ELSE u.color[x]
      BY <1>0, <2>1, <2>5
    <2>7. /\ \A x \in Nodes, d \in Side : w.kid[d][x] = u.kid[d][x]
          /\ \A x \in Nodes : w.parent[x] = u.parent[x]
      BY <1>0, <2>5 DEF SameLinks
    <2>8. w.kid[o][p] = b /\ w.kid[e][b] = mid
      BY <1>0, <1>1, <2>7
    <2>9. Even(r, g, [ht EXCEPT ![p] = ht[b], ![b] = ht[p]], p, e)
      BY <1>0, <1>1, <2>0, <2>3, <2>4, <2>5, <2>6, RotateEven
    <2>10. PICK h : Shape(r, h) /\ h.own = g.own /\ h.len = g.len
      BY <1>0, <1>1, <2>3, <2>4, <2>8, RotateShape, SMTT(30), ZenonT(30)
    <2>11. /\ \A x \in Links : r.color[x] = w.color[x]
           /\ r.kid[e][p] = u.kid[e][p]
      BY <1>0, <1>1, <2>3, <2>4, <2>5, RotateKids
    <2>12. \A x \in Nodes :
              r.parent[x] = IF x = p THEN b ELSE IF x = b THEN u.parent[p] ELSE IF x = mid THEN p ELSE u.parent[x]
      <3>1. Rotated(r, w, p, e, b, mid)
        BY <1>0, <1>1, <2>3, <2>4, <2>8, RotateIs
      <3>2. \A x \in Nodes : r.parent[x] = IF x = p THEN b ELSE IF x = b THEN w.parent[p]
                            ELSE IF x = mid THEN p ELSE w.parent[x]
        BY <3>1, ZenonT(30), SMTT(30) DEF Rotated
      <3>3. QED
        BY <1>0, <2>7, <3>2, SMTT(30), ZenonT(30)
    <2>13. \A x \in Links : r.color[x] = IF x = p THEN "red" ELSE IF x = b THEN "black" ELSE u.color[x]
      BY <2>5, <2>11
    <2>14. \A x \in Nodes, d \in Side : u.kid[d][x] # NULL => u.kid[d][x] \in Nodes /\ u.parent[u.kid[d][x]] = x
           /\ g.own[u.kid[d][x]] # NULL
      BY <1>0, KidLinks
    <2>15. ASSUME NEW x \in Nodes, g.own[x] # NULL, r.color[x] = "red", r.color[r.parent[x]] = "red"
           PROVE  FALSE
      <3>0. u.parent[x] \in Links
        BY <1>0, <2>15, NodeFacts
      <3>1. x # b
        BY <1>0, <1>1, <2>13, <2>15
      <3>2. x # p
        BY <1>0, <1>1, <2>12, <2>13, <2>15
      <3>3. u.color[x] = "red"
        BY <1>0, <2>13, <2>15, <3>1, <3>2
      <3>4. u.color[u.parent[x]] # "red"
        BY <1>2, <2>15, <3>3 DEF Calm
      <3>5. x # mid
        BY <1>0, <1>1, <2>0, <2>14, <3>4
      <3>6. r.parent[x] = u.parent[x]
        BY <2>12, <3>1, <3>2, <3>5
      <3>7. u.parent[x] = p
        BY <2>13, <2>15, <3>0, <3>4, <3>6
      <3>8. \E d \in Side : u.kid[d][p] = x
        BY <1>0, <2>15, <3>7, ParentFacts
      <3>9. x = c
        BY <1>0, <3>1, <3>8, SMTT(30), ZenonT(30)
      <3>10. QED
        BY <1>0, <3>3, <3>9 DEF Red
    <2>16. Calm(r, h, {}, {})
      BY <2>10, <2>15 DEF Calm
    <2>17. Even(r, h, [ht EXCEPT ![p] = ht[b], ![b] = ht[p]], p, e)
      BY <2>9, <2>10 DEF Even
    <2>18. r.kid[e][p] = c /\ ~Red(r, c)
      BY <1>0, <1>1, <2>11, <2>13 DEF Red
    <2>19. h.own[p] = a /\ h.own[p] # NULL /\ Nodal(r, h) /\ r \in Graph
      BY <1>0, <2>10, SMTT(30), ZenonT(30) DEF Shape, Nodal
    <2>20. r.kid[o][p] \in Nodes /\ r.parent[r.kid[o][p]] = p /\ h.own[r.kid[o][p]] # NULL
      <3> DEFINE hu == [ht EXCEPT ![p] = ht[b], ![b] = ht[p]]
      <3>1. Even(r, h, hu, p, e)
        BY <2>17, SMTT(30), ZenonT(30)
      <3> HIDE DEF hu
      <3>2. LET k == r.kid[Other(e)][p] IN k \in Nodes /\ h.own[k] = h.own[p] /\ r.parent[k] = p
        BY <2>19, <3>1, HasSibling, SMTT(30), ZenonT(30)
      <3>3. QED
        BY <2>19, <3>2
    <2>21. r.color[r.kid[o][p]] = "black"
      <3>1. r.color[p] = "red"
        BY <1>0, <2>13, SMTT(30), ZenonT(30)
      <3>2. r.color[r.kid[o][p]] # "red"
        BY <2>16, <2>20, <3>1, SMTT(30), ZenonT(30) DEF Calm
      <3>3. QED
        BY <1>0, <2>19, <2>20, <3>2 DEF Graph, Color
    <2>22. Poised(r, h, [ht EXCEPT ![p] = ht[b], ![b] = ht[p]], a, c, p, e)
      BY <2>10, <2>16, <2>17, <2>18, <2>19, <2>20, <2>21 DEF Poised
    <2>23. QED
      BY <2>10, <2>22 DEF CanPoise
  <1>5. QED
    BY <1>3, <1>4

\* Two nodes do not hang below each other.
LEMMA NoTwoAbove ==
  ASSUME NEW u, NEW g, Nodal(u, g), NEW n \in Nodes, NEW s \in Side, NEW k, u.kid[s][n] = k, k # NULL
  PROVE  u.parent[n] # k
  <1> SUFFICES ASSUME u.parent[n] = k
               PROVE  FALSE
    OBVIOUS
  <1>1. k \in Nodes /\ g.own[n] # NULL /\ g.end["right"][k] - g.end["left"][k] < g.end["right"][n] - g.end["left"][n]
    BY KidFacts
  <1>2. PICK d \in Side : u.kid[d][k] = n
    BY <1>1, ParentFacts
  <1>3. n # NULL
    BY Disjoint
  <1>4. g.end["right"][n] - g.end["left"][n] < g.end["right"][k] - g.end["left"][k]
    BY <1>1, <1>2, <1>3, KidFacts
  <1>5. g.end["right"][n] \in Int /\ g.end["left"][n] \in Int /\ g.end["right"][k] \in Int /\ g.end["left"][k] \in Int
    BY <1>1, TreeFacts
  <1>6. QED
    BY <1>1, <1>4, <1>5

\* The place of p, which is below up, is one black short in r.
Borrowed(r, g, a, p, up) ==
  \E hu, q, f : /\ Even(r, g, hu, q, f)
                /\ \/ up \in Nodes /\ g.own[up] = a /\ q = up /\ f \in Side /\ r.kid[f][q] = p
                   \/ up = a /\ p = r.parent[a] /\ q = NULL

\* The sibling becomes red, and the place one black short moves up.
LEMMA EraseBorrows ==
  ASSUME NEW u, NEW g, NEW ht, NEW a \in Trees, NEW c, NEW p, NEW e, Poised(u, g, ht, a, c, p, e),
         NEW w, u.kid[Other(e)][p] = w, \A d \in Side : ~Red(u, u.kid[d][w]),
         NEW r, Paint(u, w, "red") = r
  PROVE  /\ Shape(r, g) /\ Calm(r, g, {p}, {p})
         /\ Borrowed(r, g, a, p, u.parent[p])
  <1>0. /\ Shape(u, g) /\ Nodal(u, g) /\ Even(u, g, ht, p, e) /\ Calm(u, g, {}, {}) /\ a # NULL
        /\ p \in Nodes /\ g.own[p] = a /\ e \in Side /\ w \in Nodes /\ u.color[w] = "black"
        /\ Other(e) \in Side /\ "red" \in Color /\ \A x \in Nodes : x \in Links /\ x # NULL
    BY Disjoint, Sides DEF Poised, Shape, Color
  <1>1. w # p /\ g.own[w] = a /\ u.parent[w] = p
    BY <1>0, KidLinks
  <1>2. Shape(r, g) /\ Painted(r, u, w, "red")
    BY <1>0, <1>1, PaintShape
  <1>3. SameLinks(r, u) /\ \A x \in Links : r.color[x] = IF x = w THEN "red" ELSE u.color[x]
    BY <1>2 DEF Painted, SameLinks
  <1>4. /\ \A x \in Nodes, d \in Side : r.kid[d][x] = u.kid[d][x]
        /\ \A x \in Links : r.parent[x] = u.parent[x]
    BY <1>0, <1>3 DEF SameLinks
  <1>5. Calm(r, g, {p}, {p})
    <2> SUFFICES ASSUME NEW x \in Nodes, g.own[x] # NULL, r.color[x] = "red", r.color[r.parent[x]] = "red", r.parent[x] # p
                 PROVE  FALSE
      BY DEF Calm
    <2>1. r.parent[x] = u.parent[x] /\ u.parent[x] \in Links
      BY <1>0, <1>4, NodeFacts
    <2>2. x # w /\ u.color[x] = "red"
      BY <1>0, <1>1, <1>3, <2>1
    <2>3. u.color[u.parent[x]] # "red"
      BY <1>0, <2>2 DEF Calm
    <2>4. u.parent[x] = w
      BY <1>3, <2>1, <2>3
    <2>5. \E d \in Side : u.kid[d][w] = x
      BY <1>0, <2>4, ParentFacts
    <2>6. QED
      BY <1>0, <2>2, <2>5, SMTT(30), ZenonT(30) DEF Red
  <1>6. \A x \in Nodes : r.color[x] = IF x = w THEN "red" ELSE u.color[x]
    BY <1>0, <1>3, SMTT(30), ZenonT(30)
  <1>7. CASE u.parent[p] \in Nodes
    <2>1. g.own[u.parent[p]] = a /\ SideOf(u, p) \in Side /\ u.kid[SideOf(u, p)][u.parent[p]] = p
      BY <1>0, <1>7, ParentFacts
    <2>2. Even(r, g, [ht EXCEPT ![p] = ht[p] - 1, ![w] = ht[w] - 1], u.parent[p], SideOf(u, p))
      BY <1>0, <1>3, <1>6, <1>7, <2>1, BorrowEven
    <2>3. r.kid[SideOf(u, p)][u.parent[p]] = p
      BY <1>4, <1>7, <2>1, SMTT(30), ZenonT(30)
    <2>4. QED
      BY <1>2, <1>5, <1>7, <2>1, <2>2, <2>3 DEF Borrowed
  <1>8. CASE u.parent[p] \notin Nodes
    <2>1. u.parent[p] = a /\ u.parent[a] = p
      BY <1>0, <1>8, ParentFacts
    <2>2. \A x \in Nodes, d \in Side : u.kid[d][x] # p
      BY <1>0, <1>8, KidLinks
    <2>3. Even(r, g, [ht EXCEPT ![p] = ht[p] - 1, ![w] = ht[w] - 1], NULL, e)
      BY <1>0, <1>3, <1>6, <2>2, BorrowEven
    <2>4. p = r.parent[a]
      BY <1>4, <2>1, Disjoint
    <2>5. QED
      BY <1>2, <1>5, <2>1, <2>3, <2>4 DEF Borrowed
  <1>9. QED
    BY <1>7, <1>8

\* The sibling's outer kid is red, too.
Ready(v, g, a, c, p, e) ==
  \E h, hu : /\ Poised(v, h, hu, a, c, p, e) /\ h.own = g.own /\ h.len = g.len
             /\ Red(v, v.kid[Other(e)][v.kid[Other(e)][p]])

\* When only the inner kid of the sibling is red, it takes the sibling's place.
LEMMA OuterRed ==
  ASSUME NEW u, NEW g, NEW ht, NEW a \in Trees, NEW c, NEW p, NEW e, Poised(u, g, ht, a, c, p, e),
         NEW w, u.kid[Other(e)][p] = w, ~(\A d \in Side : ~Red(u, u.kid[d][w])),
         NEW v, (IF Red(u, u.kid[Other(e)][w]) THEN u
                 ELSE Rotate(Paint(Paint(u, u.kid[e][w], "black"), w, "red"), a, w, Other(e))) = v
  PROVE  Ready(v, g, a, c, p, e)
  <1> DEFINE o == Other(e)
             near == u.kid[e][w]
  <1>0. /\ Shape(u, g) /\ Nodal(u, g) /\ Even(u, g, ht, p, e) /\ Calm(u, g, {}, {}) /\ a # NULL
        /\ p \in Nodes /\ g.own[p] = a /\ e \in Side /\ w \in Nodes /\ u.color[w] = "black" /\ u.kid[e][p] = c /\ ~Red(u, c)
        /\ o \in Side /\ Other(o) = e /\ o # e /\ Side = {e, o}
        /\ "red" \in Color /\ "black" \in Color /\ \A x \in Nodes : x \in Links /\ x # NULL
    BY Disjoint, Sides DEF Poised, Shape, Color
  <1>1. w # p /\ g.own[w] = a /\ u.parent[w] = p /\ w # c /\ c \in Nodes \cup {NULL}
    <2>1. /\ u.kid[Other(e)][p] # p /\ g.own[u.kid[Other(e)][p]] = g.own[p] /\ u.parent[u.kid[Other(e)][p]] = p
          /\ u.kid[Other(e)][p] # u.kid[e][p] /\ u.kid[e][p] \in Nodes \cup {NULL}
      <3>1. Nodal(u, g) /\ Even(u, g, ht, p, e) /\ p \in Nodes /\ e \in Side /\ g.own[p] # NULL
        BY <1>0
      <3> HIDE DEF o, near
      <3>2. QED
        BY <3>1, HasSibling
    <2>2. QED
      BY <1>0, <2>1
  <1>2. CASE Red(u, u.kid[o][w])
    BY <1>2, SMTT(30), ZenonT(30) DEF Ready
  <1>3. CASE ~Red(u, u.kid[o][w])
    <2>1. Red(u, near)
      BY <1>0, <1>3, SMTT(30), ZenonT(30)
    <2>2. /\ near \in Nodes /\ near # w /\ u.parent[near] = w /\ g.own[near] = a
          /\ \A x \in Nodes, d \in Side : u.kid[d][x] # NULL => u.kid[d][x] \in Nodes /\ u.parent[u.kid[d][x]] = x
      <3>1. near # NULL
        BY <2>1, SMTT(30), ZenonT(30) DEF Red
      <3>2. \A x \in Nodes, d \in Side : u.kid[d][x] # NULL =>
              /\ u.kid[d][x] \in Nodes /\ u.kid[d][x] # x /\ u.parent[u.kid[d][x]] = x
              /\ g.own[u.kid[d][x]] = g.own[x]
        BY <1>0, KidLinks, SMTT(30), ZenonT(30)
      <3>3. QED
        BY <1>0, <1>1, <3>1, <3>2, SMTT(30), ZenonT(30)
    <2>3. u.color[near] = "red" /\ near # p /\ near # c
      <3>1. u.color[near] = "red"
        BY <2>1, SMTT(30), ZenonT(30) DEF Red
      <3>2. near # NULL
        BY <1>0, <2>2
      <3>3. u.parent[w] # near
        BY <1>0, <3>2, NoTwoAbove, SMTT(30), ZenonT(30)
      <3>4. QED
        BY <1>0, <1>1, <2>1, <3>1, <3>3, SMTT(30), ZenonT(30)
    <2> DEFINE mid == u.kid[o][near]
               y1 == Paint(u, near, "black")
               y == Paint(y1, w, "red")
    <2>4. Shape(y1, g) /\ Painted(y1, u, near, "black")
      BY <1>0, <2>2, PaintShape
    <2>5. Shape(y, g) /\ Painted(y, y1, w, "red")
      <3> HIDE DEF y1
      <3>1. QED
        BY <1>0, <1>1, <2>4, PaintShape
    <2>6. v = Rotate(y, a, w, o)
      BY <1>3
    <2>29. o = Other(e)
      OBVIOUS
    <2> HIDE DEF y1, y, near, o
    <2>7. near = u.kid[Other(o)][w] /\ near = u.kid[e][w]
      BY <1>0 DEF near
    <2>8. SameLinks(y, u) /\ \A x \in Links : y.color[x] = IF x = w THEN "red" ELSE IF x = near THEN "black" ELSE u.color[x]
      BY <2>4, <2>5 DEF Painted, SameLinks
    <2>9. \A x \in Nodes : y.color[x] = IF x = w THEN "red" ELSE IF x = near THEN u.color[w] ELSE u.color[x]
      BY <1>0, <2>8
    <2>10. /\ \A x \in Nodes, d \in Side : y.kid[d][x] = u.kid[d][x]
           /\ \A x \in Nodes : y.parent[x] = u.parent[x]
      BY <1>0, <2>8, SMTT(30), ZenonT(30) DEF SameLinks
    <2>11. y.kid[Other(o)][w] = near /\ y.kid[o][near] = mid /\ near # NULL
      BY <1>0, <2>2, <2>7, <2>10, SMTT(30), ZenonT(30)
    <2>12. p # near /\ ~(p = w /\ e = Other(o))
      BY <1>1, <2>3, SMTT(30), ZenonT(30)
    <2>30. /\ Shape(y, g) /\ SameLinks(y, u) /\ w \in Nodes /\ g.own[w] = a /\ o \in Side
           /\ near = u.kid[Other(o)][w] /\ near # NULL
      BY <1>0, <1>1, <2>5, <2>7, <2>8, <2>11
    <2>13. Even(v, g, [ht EXCEPT ![w] = ht[near], ![near] = ht[w]], p, e)
      <3>1. Even(u, g, ht, p, e) /\ u.color[near] = "red"
        BY <1>0, <2>3, SMTT(30), ZenonT(30)
      <3>2. Even(Rotate(y, a, w, o), g, [ht EXCEPT ![w] = ht[near], ![near] = ht[w]], p, e)
        BY <2>30, <3>1, <2>9, <2>12, RotateEven, SMTT(30), ZenonT(30)
      <3>3. QED
        BY <2>6, <3>2
    <2>14. PICK h : Shape(v, h) /\ h.own = g.own /\ h.len = g.len
      BY <1>0, <1>1, <2>5, <2>6, <2>11, RotateShape, SMTT(30), ZenonT(30)
    <2>15. /\ \A x \in Links : v.color[x] = y.color[x]
           /\ v.kid[o][near] = w
           /\ \A x \in Nodes, d \in Side : x # w /\ x # near =>
                v.kid[d][x] = IF u.kid[d][x] = w THEN near ELSE u.kid[d][x]
      <3> DEFINE r == Rotate(y, a, w, o)
      <3>1. /\ \A x \in Links : r.color[x] = y.color[x]
            /\ r.kid[o][near] = w
        BY <2>30, RotateKids
      <3>2. \A x \in Nodes, d \in Side : x # w /\ x # near =>
              /\ r.kid[d][x] = IF u.kid[d][x] = w THEN near ELSE u.kid[d][x]
              /\ u.kid[d][x] # near
        BY <2>30, RotateKids, SMTT(30), ZenonT(30)
      <3> HIDE DEF r
      <3>3. v = r
        BY <2>6 DEF r
      <3>4. QED
        BY <3>1, <3>2, <3>3, SMTT(30), ZenonT(30)
    <2>16. v.kid[o][p] = near /\ v.kid[e][p] = c
      <3>1. u.kid[o][p] = w /\ p # w /\ p # near /\ u.kid[e][p] # w
        BY <1>0, <1>1, <2>3, <2>29, SMTT(30), ZenonT(30)
      <3>2. QED
        BY <1>0, <2>15, <3>1
    <2>17. \A x \in Nodes :
              v.parent[x] = IF x = w THEN near ELSE IF x = near THEN u.parent[w] ELSE IF x = mid THEN w ELSE u.parent[x]
      <3>1. Rotated(v, y, w, o, near, mid)
        BY <2>6, <2>11, <2>30, RotateIs
      <3> HIDE DEF mid
      <3>2. \A x \in Nodes : v.parent[x] = IF x = w THEN near ELSE IF x = near THEN y.parent[w]
                            ELSE IF x = mid THEN w ELSE y.parent[x]
        BY <3>1 DEF Rotated
      <3>3. QED
        BY <1>0, <2>10, <3>2, SMTT(30), ZenonT(30)
    <2>18. \A x \in Links : v.color[x] = IF x = w THEN "red" ELSE IF x = near THEN "black" ELSE u.color[x]
      <3>1. \A x \in Links : y.color[x] = IF x = w THEN "red" ELSE IF x = near THEN "black" ELSE u.color[x]
        BY <2>8
      <3>2. \A x \in Links : v.color[x] = y.color[x]
        BY <2>15
      <3>3. QED
        BY <3>1, <3>2, SMTT(30), ZenonT(30)
    <2>19. ASSUME NEW x \in Nodes, g.own[x] # NULL, v.color[x] = "red", v.color[v.parent[x]] = "red"
           PROVE  FALSE
      <3>0. u.parent[x] \in Links
        BY <1>0, <2>19, NodeFacts, SMTT(30), ZenonT(30)
      <3>1. x # near
        BY <1>0, <2>2, <2>3, <2>7, <2>18, <2>19, ZenonT(30), SMTT(30)
      <3>2. x # w
        BY <1>0, <2>2, <2>11, <2>17, <2>18, <2>19, ZenonT(30), SMTT(30)
      <3>3. u.color[x] = "red"
        BY <1>0, <2>18, <2>19, <3>1, <3>2, ZenonT(30), SMTT(30)
      <3>4. u.color[u.parent[x]] # "red"
        BY <1>0, <2>19, <3>3 DEF Calm
      <3>5. x # mid
        <4>1. mid # NULL => u.parent[mid] = near
          BY <1>0, <2>2, SMTT(30), ZenonT(30)
        <4>2. QED
          BY <1>0, <2>3, <3>4, <4>1
      <3>6. v.parent[x] = u.parent[x]
        BY <2>17, <3>1, <3>2, <3>5, SMTT(30), ZenonT(30)
      <3>7. u.parent[x] = w
        BY <2>18, <2>19, <3>0, <3>4, <3>6, ZenonT(30), SMTT(30)
      <3>8. \E d \in Side : u.kid[d][w] = x
        <4>1. SideOf(u, x) \in Side /\ u.kid[SideOf(u, x)][u.parent[x]] = x
          BY <1>0, <2>19, <3>7, ParentFacts, SMTT(30), ZenonT(30)
        <4>2. QED
          BY <3>7, <4>1
      <3>9. x = u.kid[o][w]
        BY <1>0, <2>7, <3>1, <3>8, SMTT(30), ZenonT(30)
      <3>10. QED
        BY <1>0, <1>3, <3>3, <3>9 DEF Red
    <2>20. Calm(v, h, {}, {})
      BY <2>14, <2>19, ZenonT(30), SMTT(30) DEF Calm
    <2>21. Even(v, h, [ht EXCEPT ![w] = ht[near], ![near] = ht[w]], p, e)
      BY <2>13, <2>14 DEF Even
    <2>22. ~Red(v, c)
      BY <1>0, <1>1, <2>3, <2>18, ZenonT(30), SMTT(30) DEF Red
    <2>23. v.color[near] = "black" /\ v.color[w] = "red"
      BY <1>0, <2>2, <2>7, <2>18, ZenonT(30), SMTT(30)
    <2>24. near \in Nodes
      BY <2>2 DEF near
    <2>25. h.own[p] = a
      BY <1>0, <2>14, SMTT(30), ZenonT(30)
    <2>26. Poised(v, h, [ht EXCEPT ![w] = ht[near], ![near] = ht[w]], a, c, p, e)
      BY <1>0, <2>14, <2>16, <2>20, <2>21, <2>22, <2>23, <2>24, <2>25, <2>29, ZenonT(30), SMTT(30) DEF Poised
    <2>27. Red(v, v.kid[o][v.kid[o][p]])
      <3>1. v.kid[o][v.kid[o][p]] = w /\ w # NULL
        BY <1>0, <2>15, <2>16, ZenonT(30), SMTT(30)
      <3>2. QED
        BY <2>23, <3>1, ZenonT(30), SMTT(30) DEF Red
    <2>28. QED
      BY <2>14, <2>26, <2>27, <2>29 DEF Ready
  <1>4. QED
    BY <1>2, <1>3

\* r is sound, and no loop has anything left to do.
Whole(r, g) ==
  \E h, hu, f : /\ Shape(r, h) /\ h.own = g.own /\ h.len = g.len
                /\ Even(r, h, hu, NULL, f) /\ Calm(r, h, {}, {})

\* The last rotation of an erasure.
LEMMA EraseRotates ==
  ASSUME NEW v, NEW g, NEW a \in Trees, NEW c, NEW p, NEW e, Ready(v, g, a, c, p, e)
  PROVE  LET x == v.kid[Other(e)][p]
             y == Paint(Paint(v, x, v.color[p]), p, "black")
             z == Rotate(Paint(y, y.kid[Other(e)][x], "black"), a, p, e)
             r == Paint(z, c, "black")
         IN  Whole(r, g)
  <1>1. PICK h, ht : /\ Poised(v, h, ht, a, c, p, e) /\ h.own = g.own /\ h.len = g.len
                     /\ Red(v, v.kid[Other(e)][v.kid[Other(e)][p]])
    BY DEF Ready
  <1> DEFINE o == Other(e)
             x == v.kid[o][p]
             y1 == Paint(v, x, v.color[p])
             y == Paint(y1, p, "black")
             z == Rotate(Paint(y, y.kid[o][x], "black"), a, p, e)
             r == Paint(z, c, "black")
             out == v.kid[o][x]
             mid == v.kid[e][x]
             w == Paint(y, out, "black")
  <1>0. /\ Shape(v, h) /\ Nodal(v, h) /\ v \in Graph /\ Even(v, h, ht, p, e) /\ Calm(v, h, {}, {}) /\ a # NULL
        /\ p \in Nodes /\ h.own[p] = a /\ e \in Side /\ x \in Nodes /\ v.color[x] = "black" /\ v.kid[e][p] = c /\ ~Red(v, c)
        /\ o \in Side /\ Other(o) = e /\ o # e /\ Side = {e, o}
        /\ "red" \in Color /\ "black" \in Color /\ v.color[p] \in Color /\ \A n \in Nodes : n \in Links /\ n # NULL
    BY <1>1, Disjoint, Sides DEF Poised, Shape, Nodal, Graph, Color
  <1>29. o = Other(e) /\ x = v.kid[o][p]
    OBVIOUS
  <1>30. Red(v, v.kid[o][x])
    BY <1>1
  <1> HIDE DEF y1, y, z, r, x, o
  <1>2. \A n \in Nodes, d \in Side : v.kid[d][n] # NULL => v.kid[d][n] \in Nodes /\ v.parent[v.kid[d][n]] = n
           /\ v.kid[d][n] # n /\ h.own[v.kid[d][n]] = h.own[n]
    BY <1>0, KidLinks
  <1>3. out # NULL /\ v.color[out] = "red"
    BY <1>30 DEF Red
  <1>4. /\ x # p /\ h.own[x] = a /\ v.parent[x] = p /\ v.parent[p] # x
        /\ out \in Nodes /\ out # x /\ h.own[out] = a /\ v.parent[out] = x /\ out # p
    <2>1. x # p /\ h.own[x] = a /\ v.parent[x] = p
      <3>1. x # NULL
        BY <1>0
      <3>2. QED
        BY <1>0, <1>2, <1>29, <3>1
    <2>2. v.parent[p] # x
      <3>1. x # NULL
        BY <1>0
      <3>2. QED
        BY <1>0, <1>29, <3>1, NoTwoAbove
    <2>3. out \in Nodes /\ out # x /\ h.own[out] = a /\ v.parent[out] = x
      BY <1>0, <1>2, <1>3, <2>1
    <2>4. QED
      BY <2>1, <2>2, <2>3
  <1>5. x # c /\ c \in Nodes \cup {NULL} /\ c # p
    <2>1. LET k == v.kid[Other(e)][p]
              b == v.kid[e][p]
          IN  k # b /\ b # p /\ b \in Nodes \cup {NULL}
      BY <1>0, HasSibling, Disjoint, ZenonT(30), SMTT(30)
    <2>2. QED
      BY <1>0, <1>29, <2>1
  <1>6. c # out
    BY <1>0, <1>3 DEF Red
  <1>7. Shape(y1, h) /\ Painted(y1, v, x, v.color[p])
    BY <1>0, <1>4, PaintShape DEF y1
  <1>8. Shape(y, h) /\ Painted(y, y1, p, "black")
    BY <1>0, <1>7, PaintShape DEF y
  <1>9. Shape(w, h) /\ Painted(w, y, out, "black")
    BY <1>0, <1>3, <1>4, <1>8, PaintShape
  <1> HIDE DEF w, out, mid
  <1>10. SameLinks(w, v) /\ \A n \in Links : w.color[n] = IF n = p \/ n = out THEN "black" ELSE IF n = x THEN v.color[p] ELSE v.color[n]
    <2>1. SameLinks(w, v)
      BY <1>7, <1>8, <1>9 DEF Painted, SameLinks
    <2>2. QED
      BY <1>4, <1>7, <1>8, <1>9, <2>1 DEF Painted
  <1>11. \A n \in Nodes : w.color[n] = IF n = p \/ n = out THEN "black" ELSE IF n = x THEN v.color[p] ELSE v.color[n]
    BY <1>0, <1>10
  <1>12. /\ \A n \in Nodes, d \in Side : w.kid[d][n] = v.kid[d][n]
         /\ \A n \in Nodes : w.parent[n] = v.parent[n]
    BY <1>0, <1>10 DEF SameLinks
  <1>13. z = Rotate(w, a, p, e) /\ x = v.kid[Other(e)][p] /\ out = v.kid[Other(e)][x]
    <2>1. y.kid[o][x] = out
      BY <1>0, <1>7, <1>8 DEF Painted, out
    <2>2. z = Rotate(w, a, p, e)
      BY <2>1 DEF w, z
    <2>3. QED
      BY <1>29, <2>2 DEF out
  <1>14. w.kid[Other(e)][p] = x /\ w.kid[e][x] = mid /\ x # NULL
    BY <1>0, <1>12, <1>13, <1>29 DEF mid
  <1>15. Even(z, h, [ht EXCEPT ![p] = ht[x], ![x] = ht[p], ![out] = ht[out] + 1], NULL, e)
    <2>1. Shape(w, h) /\ SameLinks(w, v) /\ h.own[p] = a /\ p \in Nodes /\ e \in Side
      BY <1>0, <1>9, <1>10
    <2>2. Even(v, h, ht, p, e) /\ v.color[x] = "black" /\ v.color[out] = "red" /\ x # NULL /\ out # NULL
      BY <1>0, <1>3, <1>14
    <2>3. Even(Rotate(w, a, p, e), h, [ht EXCEPT ![p] = ht[x], ![x] = ht[p], ![out] = ht[out] + 1], NULL, e)
      BY <2>1, <2>2, <1>11, <1>13, RotateRepairs
    <2>4. QED
      BY <1>13, <2>3
  <1>16. PICK k : Shape(z, k) /\ k.own = h.own /\ k.len = h.len
    BY <1>0, <1>9, <1>13, <1>14, RotateShape
  <1>17. /\ \A n \in Links : z.color[n] = w.color[n]
         /\ \A n \in Nodes :
              z.parent[n] = IF n = p THEN x ELSE IF n = x THEN v.parent[p] ELSE IF n = mid THEN p ELSE v.parent[n]
    <2>1. Shape(w, h) /\ h.own[p] = a /\ p \in Nodes /\ e \in Side /\ Rotate(w, a, p, e) = z
      BY <1>0, <1>9, <1>13
    <2>2. Rotated(z, w, p, e, x, mid)
      BY <1>0, <1>14, <2>1, RotateIs
    <2>3. /\ \A n \in Links : z.color[n] = w.color[n]
          /\ \A n \in Nodes : z.parent[n] = IF n = p THEN x ELSE IF n = x THEN w.parent[p]
                                           ELSE IF n = mid THEN p ELSE w.parent[n]
      BY <2>2, ZenonT(30), SMTT(30) DEF Rotated
    <2>4. QED
      BY <1>0, <1>12, <2>3, SMTT(30), ZenonT(30)
  <1>18. \A n \in Links : z.color[n] = IF n = p \/ n = out THEN "black" ELSE IF n = x THEN v.color[p] ELSE v.color[n]
    BY <1>10, <1>17
  <1>19. ASSUME NEW n \in Nodes, h.own[n] # NULL, z.color[n] = "red", z.color[z.parent[n]] = "red"
         PROVE  FALSE
    <2>0. v.parent[n] \in Links /\ v.parent[p] \in Links
      BY <1>0, <1>19, NodeFacts
    <2>1. n # p /\ n # out
      BY <1>0, <1>18, <1>19
    <2>2. n # x
      <3> SUFFICES ASSUME n = x
                   PROVE  FALSE
        OBVIOUS
      <3>1. z.parent[n] = v.parent[p] /\ v.color[p] = "red"
        BY <1>0, <1>4, <1>17, <1>18, <1>19
      <3>2. v.color[v.parent[p]] # "red"
        BY <1>0, <3>1 DEF Calm
      <3>3. QED
        BY <1>4, <1>18, <1>19, <2>0, <3>1, <3>2
    <2>3. v.color[n] = "red"
      BY <1>0, <1>18, <1>19, <2>1, <2>2
    <2>4. v.color[v.parent[n]] # "red"
      BY <1>0, <1>19, <2>3 DEF Calm
    <2>5. n # mid
      BY <1>0, <1>17, <1>18, <1>19, <2>1, <2>2
    <2>6. z.parent[n] = v.parent[n]
      BY <1>17, <1>19, <2>1, <2>2, <2>5
    <2>7. v.parent[n] = x
      BY <1>18, <1>19, <2>0, <2>4, <2>6
    <2>8. \E d \in Side : v.kid[d][x] = n
      BY <1>0, <1>19, <2>7, ParentFacts
    <2>9. QED
      BY <1>0, <2>1, <2>5, <2>8 DEF mid, out
  <1>20. Calm(z, k, {}, {})
    BY <1>16, <1>19 DEF Calm
  <1>21. \E hu : Even(z, k, hu, NULL, e)
    <2>1. Even(z, k, [ht EXCEPT ![p] = ht[x], ![x] = ht[p], ![out] = ht[out] + 1], NULL, e)
      BY <1>15, <1>16 DEF Even
    <2>2. QED
      BY <2>1
  <1>22. PICK hu : Even(z, k, hu, NULL, e)
    BY <1>21
  <1>23. c # NULL => c \in Nodes /\ k.own[c] # NULL /\ z.color[c] = "black"
    <2> SUFFICES ASSUME c # NULL
                 PROVE  c \in Nodes /\ k.own[c] # NULL /\ z.color[c] = "black"
      OBVIOUS
    <2>1. c \in Nodes /\ k.own[c] # NULL
      BY <1>0, <1>2, <1>16
    <2>2. v.color[c] = "black"
      BY <1>0, <2>1 DEF Red, Graph, Color
    <2>3. QED
      BY <1>0, <1>5, <1>6, <1>18, <2>1, <2>2
  <1>24. Shape(r, k) /\ Painted(r, z, c, "black")
    BY <1>0, <1>5, <1>16, <1>23, PaintShape DEF r
  <1>25. SameLinks(r, z) /\ \A n \in Links : r.color[n] = z.color[n]
    <2>1. SameLinks(r, z)
      BY <1>24 DEF Painted, SameLinks
    <2>2. NULL \notin Links
      BY Disjoint
    <2>3. QED
      BY <1>23, <1>24, <2>1, <2>2 DEF Painted
  <1>26. Even(r, k, hu, NULL, e)
    BY <1>0, <1>22, <1>25, EvenSame
  <1>27. Calm(r, k, {}, {})
    <2>1. \A n \in Nodes : k.own[n] # NULL => r.parent[n] = z.parent[n] /\ z.parent[n] \in Links /\ n \in Links
      <3>1. Nodal(z, k)
        BY <1>16 DEF Shape
      <3>2. \A n \in Nodes : k.own[n] # NULL => z.parent[n] \in Links
        BY <1>0, <3>1, NodeFacts
      <3>3. QED
        BY <1>0, <1>25, <3>2 DEF SameLinks
    <2>2. QED
      BY <1>20, <1>25, <2>1 DEF Calm
  <1>28. QED
    <2>1. Whole(r, g)
      BY <1>1, <1>16, <1>24, <1>26, <1>27 DEF Whole
    <2>2. QED
      BY <2>1, ZenonT(30), SMTT(30) DEF r, z, y, y1, x, o

\* r, with the loop at p, is sound, and the trees have the nodes they have in g.
Kept(r, p, g) == \E h, ht, q, e : Sound(r, p, h, ht, q, e) /\ h.own = g.own /\ h.len = g.len

\* When nothing is left to do the loop is over.
LEMMA WholeKept ==
  ASSUME NEW r, NEW g, Whole(r, g)
  PROVE  Kept(r, Idle, g)
  <1>1. PICK h, hu, f : /\ Shape(r, h) /\ h.own = g.own /\ h.len = g.len
                        /\ Even(r, h, hu, NULL, f) /\ Calm(r, h, {}, {})
    BY DEF Whole
  <1>2. RedBelow(Idle) = {} /\ RedAbove(Idle) = {} /\ Fits(r, h, Idle, NULL, f)
    BY DEF RedBelow, RedAbove, Idle, Fits
  <1>3. QED
    BY <1>1, <1>2 DEF Kept, Sound

\* One turn of the loop of an erasure that goes on.
LEMMA ErasePoises ==
  ASSUME NEW u, NEW g, NEW ht, NEW q, NEW e, NEW a \in Trees, NEW p, NEW c,
         Shape(u, g), Even(u, g, ht, q, e), Calm(u, g, {c}, {c}),
         \/ p \in Nodes /\ g.own[p] = a /\ q = p /\ e \in Side /\ u.kid[e][q] = c
         \/ p = a /\ c = u.parent[a] /\ q = NULL,
         ~(c = Root(u, a) \/ Red(u, c))
  PROVE  LET s == IF c = u.kid["left"][p] THEN "left" ELSE "right"
             r == IF Red(u, u.kid[Other(s)][p])
                  THEN Rotate(Paint(Paint(u, u.kid[Other(s)][p], "black"), p, "red"), a, p, s) ELSE u
         IN  CanPoise(r, g, a, c, p, s)
  <1>1. p \in Nodes /\ g.own[p] = a /\ q = p /\ e \in Side /\ u.kid[e][p] = c /\ ~Red(u, c)
    BY DEF Root
  <1>2. (IF c = u.kid["left"][p] THEN "left" ELSE "right") = e
    <2>1. Nodal(u, g) /\ g.own[p] # NULL /\ Even(u, g, ht, p, e)
      BY <1>1, Disjoint DEF Shape
    <2>2. LET k == u.kid[e][p]
          IN  (IF k = u.kid["left"][p] THEN "left" ELSE "right") = e
      BY <1>1, <2>1, HasSibling
    <2>3. QED
      BY <1>1, <2>2
  <1> DEFINE b == u.kid[Other(e)][p]
             r == IF Red(u, b) THEN Rotate(Paint(Paint(u, b, "black"), p, "red"), a, p, e) ELSE u
  <1>3. b = u.kid[Other(e)][p] /\ r = IF Red(u, b) THEN Rotate(Paint(Paint(u, b, "black"), p, "red"), a, p, e) ELSE u
    OBVIOUS
  <1> HIDE DEF b, r
  <1>4. Even(u, g, ht, p, e)
    BY <1>1
  <1>5. CanPoise(r, g, a, c, p, e)
    BY <1>1, <1>3, <1>4, SiblingBlack
  <1>6. QED
    BY <1>2, <1>5 DEF r, b

\* Every turn of the loop after an erasure, the last included, leaves the trees sound
\* (red_black_tree.cpp:398-488).
LEMMA EraseTurnSound ==
  ASSUME NEW g, NEW ht, NEW q, NEW e, Sound(t, pc, g, ht, q, e), EraseTurn
  PROVE  Kept(t', pc', g)
  <1> DEFINE a == pc.tree
             c == pc.child
             p == pc.up
             s == IF c = t.kid["left"][p] THEN "left" ELSE "right"
             o == Other(s)
             red == Red(t, t.kid[o][p])
             u == IF red THEN Rotate(Paint(Paint(t, t.kid[o][p], "black"), p, "red"), a, p, s) ELSE t
             w == u.kid[o][p]
             v == IF Red(u, u.kid[o][w]) THEN u
                  ELSE Rotate(Paint(Paint(u, u.kid[s][w], "black"), w, "red"), a, w, o)
             x == v.kid[o][p]
  <1>0. /\ Shape(t, g) /\ Even(t, g, ht, q, e) /\ Calm(t, g, {c}, {c}) /\ a \in Trees /\ c \in Nodes \cup {NULL}
        /\ \/ p \in Nodes /\ g.own[p] = a /\ q = p /\ e \in Side /\ t.kid[e][q] = c
           \/ p = a /\ c = t.parent[a] /\ q = NULL
        /\ pc = [op |-> "erase", tree |-> a, child |-> c, up |-> p]
    <2>1. pc.op = "erase"
      BY ZenonT(30), SMTT(30) DEF EraseTurn
    <2>2. pc # Idle /\ RedBelow(pc) = {c} /\ RedAbove(pc) = {c}
      BY <2>1 DEF Idle, RedBelow, RedAbove
    <2>3. Shape(t, g) /\ Even(t, g, ht, q, e) /\ Calm(t, g, {c}, {c}) /\ Fits(t, g, pc, q, e)
      BY <2>2 DEF Sound
    <2>4. pc \in [op : {"erase"}, tree : Trees, child : Nodes \cup {NULL}, up : Links]
      BY <2>1, <2>2, <2>3 DEF Fits
    <2>5. \/ p \in Nodes /\ g.own[p] = a /\ q = p /\ e \in Side /\ t.kid[e][q] = c
          \/ p = a /\ c = t.parent[a] /\ q = NULL
      BY <2>1, <2>2, <2>3 DEF Fits
    <2>6. QED
      BY <2>3, <2>4, <2>5, SMTT(30), ZenonT(30)
  <1>1. CASE EraseDone(a, c)
    <2>1. t' = Paint(t, c, "black") /\ pc' = Idle
      BY <1>1, ZenonT(30), SMTT(30) DEF EraseTurn
    <2>2. c = Root(t, a) \/ Red(t, c)
      BY <1>1 DEF EraseDone
    <2> DEFINE r == Paint(t, c, "black")
    <2>3. Shape(r, g) /\ (\E hu : Even(r, g, hu, NULL, e)) /\ Calm(r, g, {}, {})
      <3> HIDE DEF a, c, p
      <3>1. QED
        BY <1>0, <2>2, EraseEnds
    <2> HIDE DEF r
    <2>4. Whole(r, g)
      BY <2>3 DEF Whole
    <2>5. t' = r
      BY <2>1 DEF r
    <2>6. QED
      BY <2>1, <2>4, <2>5, WholeKept, SMTT(30), ZenonT(30)
  <1>2. CASE ~EraseDone(a, c)
    <2>1. ~(c = Root(t, a) \/ Red(t, c))
      BY <1>2 DEF EraseDone
    <2>2. CanPoise(u, g, a, c, p, s)
      <3> HIDE DEF a, c, p
      <3>1. QED
        BY <1>0, <2>1, ErasePoises
    <2> HIDE DEF u, s
    <2>3. PICK h, h2 : Poised(u, h, h2, a, c, p, s) /\ h.own = g.own /\ h.len = g.len
      BY <2>2 DEF CanPoise
    <2>4. s \in Side /\ o \in Side /\ Side = {s, o} /\ Side = {"left", "right"}
      BY <2>3, Sides DEF Poised
    <2>5. CASE ~Red(u, u.kid["left"][w]) /\ ~Red(u, u.kid["right"][w])
      <3> DEFINE r == Paint(u, w, "red")
                 P == [pc EXCEPT !.child = p, !.up = u.parent[p]]
      <3>1. t' = r /\ pc' = P
        BY <1>2, <2>5, ZenonT(30), SMTT(30) DEF EraseTurn, u, s
      <3>2. \A d \in Side : ~Red(u, u.kid[d][w])
        BY <2>4, <2>5
      <3>3. /\ Shape(r, h) /\ Calm(r, h, {p}, {p})
            /\ Borrowed(r, h, a, p, u.parent[p])
        <4> DEFINE ww == w
        <4>1. u.kid[Other(s)][p] = ww /\ Paint(u, ww, "red") = r /\ \A d \in Side : ~Red(u, u.kid[d][ww])
          BY <3>2, ZenonT(30), SMTT(30)
        <4> HIDE DEF a, c, p, w, r, ww, o
        <4>2. QED
          BY <1>0, <2>3, <4>1, EraseBorrows
      <3> HIDE DEF r, w
      <3>4. PICK hu, k, f : /\ Even(r, h, hu, k, f)
                            /\ \/ u.parent[p] \in Nodes /\ h.own[u.parent[p]] = a /\ k = u.parent[p]
                                  /\ f \in Side /\ r.kid[f][k] = p
                               \/ u.parent[p] = a /\ p = r.parent[a] /\ k = NULL
        BY <3>3 DEF Borrowed
      <3>5. P = [op |-> "erase", tree |-> a, child |-> p, up |-> u.parent[p]]
        <4> DEFINE up == u.parent[p]
        <4> HIDE DEF a, c, up
        <4>0. P = [pc EXCEPT !.child = p, !.up = up]
          BY DEF up
        <4> HIDE DEF P, p
        <4>1. P = [op |-> "erase", tree |-> a, child |-> p, up |-> up]
          BY <1>0, <4>0
        <4>2. QED
          BY <4>1 DEF up
      <3>6. RedBelow(P) = {p} /\ RedAbove(P) = {p}
        <4> HIDE DEF P, p, a
        <4>1. QED
          BY <3>5 DEF RedBelow, RedAbove
      <3>7. Fits(r, h, P, k, f)
        <4>1. p \in Nodes /\ a \in Trees /\ u.parent[p] \in Links
          BY <1>0, <2>3, <3>4, Disjoint DEF Poised
        <4> HIDE DEF P, p, a
        <4>2. P \in [op : {"erase"}, tree : Trees, child : Nodes \cup {NULL}, up : Links]
          BY <3>5, <4>1
        <4>3. P.up = u.parent[p] /\ P.tree = a /\ P.child = p
          BY <3>5
        <4>4. QED
          BY <3>4, <4>2, <4>3 DEF Fits
      <3> HIDE DEF P
      <3>8. Sound(r, P, h, hu, k, f)
        BY <3>3, <3>4, <3>6, <3>7 DEF Sound
      <3>9. Kept(r, P, g)
        BY <2>3, <3>8 DEF Kept
      <3>10. QED
        BY <3>1, <3>9, SMTT(30), ZenonT(30)
    <2>6. CASE ~(~Red(u, u.kid["left"][w]) /\ ~Red(u, u.kid["right"][w]))
      <3> DEFINE y == Paint(Paint(v, x, v.color[p]), p, "black")
                 z == Rotate(Paint(y, y.kid[o][x], "black"), a, p, s)
                 r == Paint(z, c, "black")
      <3>1. t' = r /\ pc' = Idle
        BY <1>2, <2>6, ZenonT(30), SMTT(30) DEF EraseTurn, u, s
      <3>2. Ready(v, h, a, c, p, s)
        <4>1. ~(\A d \in Side : ~Red(u, u.kid[d][w]))
          BY <2>4, <2>6
        <4>2. /\ u.kid[Other(s)][p] = w
              /\ (IF Red(u, u.kid[Other(s)][w]) THEN u
                  ELSE Rotate(Paint(Paint(u, u.kid[s][w], "black"), w, "red"), a, w, Other(s))) = v
          BY ZenonT(30), SMTT(30)
        <4> HIDE DEF a, c, p, w, v, o
        <4>3. QED
          BY <1>0, <2>3, <4>1, <4>2, OuterRed
      <3> HIDE DEF v
      <3>3. Whole(r, h)
        <4> HIDE DEF a, c, p
        <4>1. QED
          BY <1>0, <3>2, EraseRotates
      <3> HIDE DEF r
      <3>4. Whole(r, g)
        BY <2>3, <3>3 DEF Whole
      <3>5. QED
        BY <3>1, <3>4, WholeKept, SMTT(30), ZenonT(30)
    <2>7. QED
      BY <2>5, <2>6
  <1>3. QED
    BY <1>1, <1>2

\* What the erasure of a node of this colour, below up, leaves to do at the place of
\* its kid k.
LeftAt(r, h, ht, f, a, k, up, c) ==
  /\ c # "black" => Even(r, h, ht, NULL, f) /\ Calm(r, h, {}, {})
  /\ c = "black" => Borrowed(r, h, a, k, up) /\ Calm(r, h, {k}, {k})

\* The heights after the erasure of a node with at most one kid: nothing is wrong
\* when it was red, and else the place it leaves is one black short.
LEMMA LeafEven ==
  ASSUME NEW u, NEW g, Shape(u, g), NEW a \in Trees, NEW n \in Nodes, g.own[n] = a,
         NEW e \in Side, u.kid[Other(e)][n] = NULL, NEW k, u.kid[e][n] = k,
         NEW r, LeafGone(r, u, n, k),
         NEW h, \A x \in Nodes : h.own[x] = IF x = n THEN NULL ELSE g.own[x],
         NEW ht, NEW f, Even(u, g, ht, NULL, f), Calm(u, g, {}, {})
  PROVE  LeftAt(r, h, ht, f, a, k, u.parent[n], u.color[n])
  <1>0. /\ Nodal(u, g) /\ a # NULL /\ g.own[n] # NULL /\ \A x \in Nodes : x \in Links /\ x # NULL
        /\ Other(e) \in Side /\ Side = {e, Other(e)} /\ Other(e) # e /\ ht \in [Nodes -> Nat]
    BY Disjoint, Sides DEF Shape, Even
  <1>1. /\ \A x \in Links : r.color[x] = IF x = n THEN "black" ELSE u.color[x]
        /\ \A x \in Nodes, d \in Side : r.kid[d][x] = IF x = n THEN NULL ELSE IF u.kid[d][x] = n THEN k ELSE u.kid[d][x]
        /\ \A x \in Nodes : r.parent[x] = IF x = n THEN NULL ELSE IF x = k THEN u.parent[n] ELSE u.parent[x]
        /\ \A b \in Trees : r.parent[b] = IF u.parent[b] = n THEN k ELSE u.parent[b]
    BY SMTT(30), ZenonT(30) DEF LeafGone
  <1>2. /\ \A x \in Nodes, d \in Side : u.kid[d][x] # NULL => u.kid[d][x] \in Nodes /\ u.parent[u.kid[d][x]] = x
             /\ u.kid[d][x] # x /\ g.own[u.kid[d][x]] = g.own[x]
    BY <1>0, KidLinks
  <1>3. k \in Nodes \cup {NULL} /\ k # n
    BY <1>0, <1>2
  <1>4. ht[n] = Level(ht, k) + Black(u, n) /\ Level(ht, k) \in Nat /\ Black(u, n) \in Nat
    <2>1. EvenAt(u, ht, NULL, f, n, e)
      BY <1>0 DEF Even
    <2>2. ht[n] = Level(ht, k) + 0 + Black(u, n)
      BY <1>0, <2>1 DEF EvenAt, Short
    <2>3. Level(ht, k) \in Nat /\ Black(u, n) \in Nat
      BY <1>0, <1>3 DEF Level, Black
    <2>4. QED
      BY <2>2, <2>3
  <1>5. ASSUME NEW x \in Nodes, NEW d \in Side, h.own[x] # NULL
        PROVE  /\ x # n /\ g.own[x] = h.own[x] /\ Black(r, x) = Black(u, x) /\ EvenAt(u, ht, NULL, f, x, d)
               /\ u.kid[d][x] # n => r.kid[d][x] = u.kid[d][x] /\ EvenAt(r, ht, NULL, f, x, d)
               /\ u.kid[d][x] = n => r.kid[d][x] = k /\ ht[x] = Level(ht, k) + Black(u, n) + Black(r, x)
    <2>1. x # n /\ g.own[x] = h.own[x]
      BY <1>5
    <2>2. Black(r, x) = Black(u, x)
      BY <1>0, <1>1, <2>1 DEF Black
    <2>3. EvenAt(u, ht, NULL, f, x, d)
      BY <1>5, <2>1 DEF Even
    <2>4. u.kid[d][x] # n => r.kid[d][x] = u.kid[d][x] /\ EvenAt(r, ht, NULL, f, x, d)
      BY <1>1, <2>1, <2>2, <2>3 DEF EvenAt
    <2>5. ASSUME u.kid[d][x] = n
          PROVE  r.kid[d][x] = k /\ ht[x] = Level(ht, k) + Black(u, n) + Black(r, x)
      <3>1. r.kid[d][x] = k
        BY <1>1, <2>1, <2>5
      <3>2. ht[x] = ht[n] + 0 + Black(u, x)
        BY <1>0, <2>3, <2>5 DEF EvenAt, Short, Level
      <3>3. Black(r, x) \in Nat
        BY DEF Black
      <3>4. QED
        BY <1>4, <2>2, <3>1, <3>2, <3>3
    <2>6. QED
      BY <2>1, <2>2, <2>3, <2>4, <2>5
  <1>6. ASSUME NEW x \in Nodes, h.own[x] # NULL, r.color[x] = "red", r.color[r.parent[x]] = "red", x # k
        PROVE  FALSE
    <2>1. x # n /\ g.own[x] # NULL /\ u.color[x] = "red"
      BY <1>0, <1>1, <1>6
    <2>2. r.parent[x] = u.parent[x] /\ u.parent[x] \in Links
      BY <1>0, <1>1, <1>6, <2>1, NodeFacts
    <2>3. u.parent[x] # n
      <3> SUFFICES ASSUME u.parent[x] = n
                   PROVE  FALSE
        OBVIOUS
      <3>1. \E d \in Side : u.kid[d][n] = x
        BY <1>0, <2>1, ParentFacts
      <3>2. QED
        BY <1>0, <1>6, <3>1
    <2>4. u.color[u.parent[x]] = "red"
      BY <1>1, <1>6, <2>2, <2>3
    <2>5. QED
      BY <2>1, <2>4 DEF Calm
  <1>7. CASE u.color[n] # "black"
    <2>1. Black(u, n) = 0 /\ u.color[n] = "red"
      BY <1>0, <1>7 DEF Black, Nodal, Graph, Color
    <2>2. ASSUME NEW x \in Nodes, NEW d \in Side, h.own[x] # NULL
          PROVE  EvenAt(r, ht, NULL, f, x, d)
      <3>1. CASE u.kid[d][x] = n
        <4>1. r.kid[d][x] = k /\ ht[x] = Level(ht, k) + Black(u, n) + Black(r, x) /\ Black(r, x) \in Nat
          BY <1>5, <2>2, <3>1 DEF Black
        <4>2. ht[x] = Level(ht, k) + 0 + Black(r, x)
          BY <1>4, <2>1, <4>1
        <4>3. QED
          BY <1>0, <4>1, <4>2 DEF EvenAt, Short
      <3>2. QED
        BY <1>5, <2>2, <3>1
    <2>3. Even(r, h, ht, NULL, f)
      BY <1>0, <2>2 DEF Even
    <2>4. k # NULL => r.color[k] # "red"
      <3> SUFFICES ASSUME k # NULL, r.color[k] = "red"
                   PROVE  FALSE
        OBVIOUS
      <3>1. u.color[k] = "red" /\ u.parent[k] = n /\ g.own[k] # NULL /\ k \in Nodes
        BY <1>0, <1>1, <1>2, <1>3
      <3>2. QED
        BY <2>1, <3>1 DEF Calm
    <2>5. Calm(r, h, {}, {})
      BY <1>0, <1>6, <2>4 DEF Calm
    <2>6. QED
      BY <1>7, <2>3, <2>5 DEF LeftAt
  <1>8. CASE u.color[n] = "black"
    <2> DEFINE up == u.parent[n]
    <2>1. Black(u, n) = 1
      BY <1>8 DEF Black
    <2>2. Calm(r, h, {k}, {k})
      BY <1>6 DEF Calm
    <2>3. CASE up \in Nodes
      <3> DEFINE E == SideOf(u, n)
      <3>1. /\ g.own[up] = a /\ up # n /\ E \in Side /\ u.kid[E][up] = n
            /\ u.kid[Other(E)][up] # n
        BY <1>0, <2>3, ParentFacts
      <3>2. Side = {E, Other(E)} /\ h.own[up] = a /\ r.kid[E][up] = k
        BY <1>1, <2>3, <3>1, Sides
      <3> HIDE DEF E, up
      <3>3. ASSUME NEW x \in Nodes, NEW d \in Side, h.own[x] # NULL
            PROVE  EvenAt(r, ht, up, E, x, d)
        <4>1. u.kid[d][x] = n => x = up /\ d = E
          <5> SUFFICES ASSUME u.kid[d][x] = n
                       PROVE  x = up /\ d = E
            OBVIOUS
          <5>1. u.parent[n] = x
            BY <1>0, <1>2
          <5>2. QED
            BY <3>1, <3>2, <5>1 DEF up
        <4>2. u.kid[d][x] # n => ~(x = up /\ d = E)
          BY <3>1
        <4>3. CASE u.kid[d][x] = n
          <5>1. r.kid[d][x] = k /\ ht[x] = Level(ht, k) + 1 + Black(r, x) /\ Black(r, x) \in Nat
            BY <1>5, <2>1, <3>3, <4>3 DEF Black
          <5>2. Short(up, E, x, d) = 1
            BY <4>1, <4>3 DEF Short
          <5>3. QED
            BY <5>1, <5>2 DEF EvenAt
        <4>4. CASE u.kid[d][x] # n
          <5>1. EvenAt(r, ht, NULL, f, x, d)
            BY <1>5, <3>3, <4>4
          <5>2. Short(up, E, x, d) = Short(NULL, f, x, d)
            BY <1>0, <4>2, <4>4 DEF Short
          <5>3. QED
            BY <5>1, <5>2 DEF EvenAt
        <4>5. QED
          BY <4>3, <4>4
      <3>4. Even(r, h, ht, up, E)
        BY <1>0, <3>3 DEF Even
      <3>5. Borrowed(r, h, a, k, up)
        BY <2>3, <3>1, <3>2, <3>4 DEF Borrowed
      <3>6. QED
        BY <1>8, <2>2, <3>5 DEF up, LeftAt
    <2>4. CASE up \notin Nodes
      <3>1. up = a /\ u.parent[a] = n
        BY <1>0, <2>4, ParentFacts
      <3>2. \A x \in Nodes, d \in Side : u.kid[d][x] # n
        BY <1>0, <1>2, <2>4
      <3>3. Even(r, h, ht, NULL, f)
        BY <1>0, <1>5, <3>2 DEF Even
      <3>4. r.parent[a] = k
        BY <1>1, <3>1
      <3>5. Borrowed(r, h, a, k, a)
        BY <3>3, <3>4 DEF Borrowed
      <3>6. QED
        BY <1>8, <2>2, <3>1, <3>5 DEF LeftAt
    <2>5. QED
      BY <2>3, <2>4
  <1>9. QED
    BY <1>7, <1>8

\* The heights under other names.
RelabelledHeights(ht, pi) == [x \in Nodes |-> ht[pi[x]]]

\* Other names change nothing about the heights.
LEMMA RelabelEven ==
  ASSUME NEW u, NEW g, Shape(u, g), NEW v, NEW pi, Relabels(v, u, pi),
         NEW ht, NEW q \in Nodes \cup {NULL}, NEW e, Even(u, g, ht, q, e)
  PROVE  Even(v, Renamed(g, pi), RelabelledHeights(ht, pi), pi[q], e)
  <1> DEFINE h == Renamed(g, pi)
             hu == RelabelledHeights(ht, pi)
  <1>0. /\ Nodal(u, g) /\ \A x \in Nodes : x \in Links /\ x # NULL /\ pi[x] \in Nodes /\ pi[pi[x]] = x
        /\ pi[NULL] = NULL /\ ht \in [Nodes -> Nat]
        /\ \A x \in Nodes : g.own[x] \in Trees \cup {NULL}
        /\ \A b \in Trees : b \in Links /\ b # NULL /\ pi[b] \in Trees
    BY TreeFacts, Disjoint DEF Shape, Relabels, Even
  <1>1. /\ \A x \in Nodes, d \in Side : v.kid[d][x] = pi[u.kid[d][pi[x]]]
        /\ \A x \in Nodes : v.color[x] = u.color[pi[x]]
    BY <1>0 DEF Relabels
  <1>2. hu \in [Nodes -> Nat] /\ \A x \in Nodes : hu[x] = ht[pi[x]]
    BY <1>0 DEF RelabelledHeights
  <1> HIDE DEF hu
  <1>3. ASSUME NEW x \in Nodes, NEW d \in Side, h.own[x] # NULL
        PROVE  EvenAt(v, hu, pi[q], e, x, d)
    <2> DEFINE y == pi[x]
    <2>1. y \in Nodes /\ pi[y] = x /\ g.own[y] # NULL
      BY <1>0, <1>3 DEF Renamed
    <2> HIDE DEF y
    <2>2. v.kid[d][x] = pi[u.kid[d][y]] /\ v.color[x] = u.color[y] /\ hu[x] = ht[y]
      BY <1>1, <1>2 DEF y
    <2>3. u.kid[d][y] \in Nodes \cup {NULL}
      BY <1>0, <2>1, NodeFacts
    <2>4. Level(hu, v.kid[d][x]) = Level(ht, u.kid[d][y])
      BY <1>0, <1>2, <2>2, <2>3 DEF Level
    <2>5. Short(pi[q], e, x, d) = Short(q, e, y, d)
      BY <1>0, <2>1 DEF Short
    <2>6. Black(v, x) = Black(u, y)
      BY <2>2 DEF Black
    <2>7. EvenAt(u, ht, q, e, y, d)
      BY <2>1 DEF Even
    <2>8. QED
      BY <2>2, <2>4, <2>5, <2>6, <2>7 DEF EvenAt
  <1>4. Even(v, h, hu, pi[q], e)
    BY <1>2, <1>3 DEF Even
  <1>5. QED
    BY <1>4 DEF hu

\* Nor do they put a red node below another.
LEMMA RelabelCalm ==
  ASSUME NEW u, NEW g, Shape(u, g), NEW v, NEW pi, Relabels(v, u, pi),
         NEW X, NEW Y, Calm(u, g, X, X), \A x \in Links : pi[x] \in X => x \in Y
  PROVE  Calm(v, Renamed(g, pi), Y, Y)
  <1> SUFFICES ASSUME NEW x \in Nodes, Renamed(g, pi).own[x] # NULL, v.color[x] = "red", v.color[v.parent[x]] = "red"
               PROVE  x \in Y \/ v.parent[x] \in Y
    BY DEF Calm
  <1> DEFINE y == pi[x]
  <1>0. Nodal(u, g) /\ x \in Links
    BY Disjoint DEF Shape
  <1>1. y \in Nodes /\ pi[y] = x /\ g.own[y] # NULL /\ y \in Links
    <2>1. y \in Nodes /\ pi[y] = x /\ y \in Links /\ pi[NULL] = NULL
      BY <1>0, Disjoint DEF Relabels
    <2>2. Renamed(g, pi).own[x] = pi[g.own[y]]
      BY DEF Renamed
    <2>3. QED
      BY <2>1, <2>2
  <1>2. v.parent[x] = pi[u.parent[y]] /\ v.color[x] = u.color[y]
    BY <1>0 DEF Relabels
  <1>3. u.parent[y] \in Links
    BY <1>0, <1>1, NodeFacts, Sides
  <1>4. v.parent[x] \in Links /\ pi[v.parent[x]] = u.parent[y]
    BY <1>2, <1>3 DEF Relabels
  <1>5. v.color[v.parent[x]] = u.color[u.parent[y]]
    BY <1>4 DEF Relabels
  <1>6. y \in X \/ u.parent[y] \in X
    BY <1>1, <1>2, <1>5 DEF Calm
  <1>7. QED
    BY <1>0, <1>4, <1>6

\* The place that is one black short has its other name, too.
LEMMA RelabelBorrowed ==
  ASSUME NEW u, NEW g, Shape(u, g), NEW v, NEW pi, Relabels(v, u, pi), NEW a \in Trees, NEW k, NEW up,
         Borrowed(u, g, a, k, up)
  PROVE  Borrowed(v, Renamed(g, pi), pi[a], pi[k], pi[up])
  <1>1. PICK hu, q, f : /\ Even(u, g, hu, q, f)
                        /\ \/ up \in Nodes /\ g.own[up] = a /\ q = up /\ f \in Side /\ u.kid[f][q] = k
                           \/ up = a /\ k = u.parent[a] /\ q = NULL
    BY DEF Borrowed
  <1>2. q \in Nodes \cup {NULL}
    BY <1>1
  <1>3. Even(v, Renamed(g, pi), RelabelledHeights(hu, pi), pi[q], f)
    BY <1>1, <1>2, RelabelEven
  <1>4. /\ pi[NULL] = NULL /\ pi[a] \in Links /\ pi[pi[a]] = a /\ a \in Links
        /\ \A x \in Nodes : pi[x] \in Nodes /\ pi[pi[x]] = x /\ x \in Links /\ pi[x] \in Links
    BY Disjoint DEF Relabels
  <1>5. CASE up \in Nodes /\ g.own[up] = a /\ q = up /\ f \in Side /\ u.kid[f][q] = k
    <2>1. pi[up] \in Nodes
      BY <1>4, <1>5
    <2>2. Renamed(g, pi).own[pi[up]] = pi[a]
      BY <1>4, <1>5, <2>1 DEF Renamed
    <2>3. v.kid[f][pi[up]] = pi[k]
      BY <1>4, <1>5 DEF Relabels
    <2>4. QED
      BY <1>3, <1>5, <2>1, <2>2, <2>3 DEF Borrowed
  <1>6. CASE up = a /\ k = u.parent[a] /\ q = NULL
    <2>1. v.parent[pi[a]] = pi[k]
      BY <1>4, <1>6 DEF Relabels
    <2>2. QED
      BY <1>3, <1>4, <1>6, <2>1 DEF Borrowed
  <1>7. QED
    BY <1>1, <1>5, <1>6

\* r, with the loop at p, is sound, and the tree at b has len[b] elements.
Sized(r, p, len) == \E h, ht, q, e : Sound(r, p, h, ht, q, e) /\ \A b \in Trees : h.len[b] = len[b]

\* The loop of an erasure starts or goes on at the place of k below up.
LEMMA Owing ==
  ASSUME NEW r, NEW h, NEW a \in Trees, NEW k \in Nodes \cup {NULL}, NEW up \in Links,
         Shape(r, h), Borrowed(r, h, a, k, up), Calm(r, h, {k}, {k})
  PROVE  Sized(r, [op |-> "erase", tree |-> a, child |-> k, up |-> up], h.len)
  <1> DEFINE P == [op |-> "erase", tree |-> a, child |-> k, up |-> up]
  <1>1. PICK hu, q, f : /\ Even(r, h, hu, q, f)
                        /\ \/ up \in Nodes /\ h.own[up] = a /\ q = up /\ f \in Side /\ r.kid[f][q] = k
                           \/ up = a /\ k = r.parent[a] /\ q = NULL
    BY DEF Borrowed
  <1>2. /\ P \in [op : {"erase"}, tree : Trees, child : Nodes \cup {NULL}, up : Links]
        /\ P.up = up /\ P.tree = a /\ P.child = k /\ P.op = "erase"
    OBVIOUS
  <1> HIDE DEF P
  <1>3. Fits(r, h, P, q, f)
    BY <1>1, <1>2 DEF Fits
  <1>4. RedBelow(P) = {k} /\ RedAbove(P) = {k}
    BY <1>2 DEF RedBelow, RedAbove
  <1>5. Sound(r, P, h, hu, q, f)
    BY <1>1, <1>3, <1>4 DEF Sound
  <1>6. Sized(r, P, h.len)
    BY <1>5 DEF Sized
  <1>7. QED
    BY <1>6 DEF P

\* Nothing is left to do.
LEMMA Resting0 ==
  ASSUME NEW r, NEW h, NEW ht, NEW f, Shape(r, h), Even(r, h, ht, NULL, f), Calm(r, h, {}, {})
  PROVE  Sized(r, Idle, h.len)
  <1>1. RedBelow(Idle) = {} /\ RedAbove(Idle) = {} /\ Fits(r, h, Idle, NULL, f)
    BY DEF RedBelow, RedAbove, Idle, Fits
  <1>2. QED
    BY <1>1 DEF Sized, Sound

\* erase(position) of a node with at most one kid, up to the loop.
LEMMA EraseLeaf ==
  ASSUME NEW u, NEW g, NEW ht, NEW f, Shape(u, g), Even(u, g, ht, NULL, f), Calm(u, g, {}, {}),
         NEW a \in Trees, NEW n \in Nodes, g.own[n] = a,
         u.kid["left"][n] = NULL \/ u.kid["right"][n] = NULL
  PROVE  LET child == IF u.kid["left"][n] = NULL THEN u.kid["right"][n] ELSE u.kid["left"][n]
             v == DetachLeaf(u, a, n)
             r == Free(v, n)
         IN  Sized(r, IF v.color[n] = "black"
                      THEN [op |-> "erase", tree |-> a, child |-> child, up |-> u.parent[n]]
                      ELSE Idle, Removed(g, a, n).len)
  <1> DEFINE child == IF u.kid["left"][n] = NULL THEN u.kid["right"][n] ELSE u.kid["left"][n]
             s == IF u.kid["left"][n] = NULL THEN "right" ELSE "left"
             v == DetachLeaf(u, a, n)
             r == Free(v, n)
             h == Removed(g, a, n)
  <1>0. Nodal(u, g) /\ g.own[n] # NULL
    BY Disjoint DEF Shape
  <1>1. s \in Side /\ u.kid[Other(s)][n] = NULL /\ child = u.kid[s][n]
    BY DEF Side, Other
  <1>2. child \in Nodes \cup {NULL} /\ u.parent[n] \in Links
    BY <1>0, <1>1, NodeFacts
  <1> HIDE DEF s, child
  <1>3. Shape(r, h) /\ LeafGone(r, u, n, child) /\ v.color[n] = u.color[n]
    BY <1>1, LeafShape
  <1>4. \A x \in Nodes : h.own[x] = IF x = n THEN NULL ELSE g.own[x]
    BY <1>0, RemovedIs
  <1> HIDE DEF v, r, h
  <1>5. /\ u.color[n] # "black" => Even(r, h, ht, NULL, f) /\ Calm(r, h, {}, {})
        /\ u.color[n] = "black" => Borrowed(r, h, a, child, u.parent[n]) /\ Calm(r, h, {child}, {child})
    <2>1. LeftAt(r, h, ht, f, a, child, u.parent[n], u.color[n])
      BY <1>1, <1>3, <1>4, LeafEven
    <2>2. QED
      BY <2>1 DEF LeftAt
  <1>6. Sized(r, IF v.color[n] = "black"
                 THEN [op |-> "erase", tree |-> a, child |-> child, up |-> u.parent[n]]
                 ELSE Idle, h.len)
    <2>1. CASE u.color[n] = "black"
      <3>1. Sized(r, [op |-> "erase", tree |-> a, child |-> child, up |-> u.parent[n]], h.len)
        BY <1>2, <1>3, <1>5, <2>1, Owing
      <3>2. QED
        BY <1>3, <2>1, <3>1
    <2>2. CASE u.color[n] # "black"
      <3>1. Sized(r, Idle, h.len)
        BY <1>3, <1>5, <2>2, Resting0
      <3>2. QED
        BY <1>3, <2>2, <3>1
    <2>3. QED
      BY <2>1, <2>2
  <1>7. QED
    BY <1>6 DEF r, v, h, child

\* erase(position) of a node with two kids, up to the loop.
LEMMA EraseInner ==
  ASSUME NEW u, NEW g, NEW ht, NEW f, Shape(u, g), Even(u, g, ht, NULL, f), Calm(u, g, {}, {}),
         NEW a \in Trees, NEW n \in Nodes, g.own[n] = a,
         u.kid["left"][n] # NULL, u.kid["right"][n] # NULL
  PROVE  LET m == Farthest(u, u.kid["right"][n], "left")
             v == DetachInner(u, a, n)
             r == Free(v, n)
             up == IF m = u.kid["right"][n] THEN m ELSE u.parent[m]
         IN  Sized(r, IF v.color[n] = "black"
                      THEN [op |-> "erase", tree |-> a, child |-> u.kid["right"][m], up |-> up]
                      ELSE Idle, Removed(g, a, m).len)
  <1> DEFINE m == Farthest(u, u.kid["right"][n], "left")
             ch == u.kid["right"][m]
             up == IF m = u.kid["right"][n] THEN m ELSE u.parent[m]
             v == DetachInner(u, a, n)
             r == Free(v, n)
             r1 == Free(DetachLeaf(u, a, m), m)
             h1 == Removed(g, a, m)
             pi == Exchange(n, m)
             h == Renamed(h1, pi)
  <1>1. /\ m \in Nodes /\ m # n /\ g.own[m] = a /\ u.kid["left"][m] = NULL /\ u.parent[m] \in Nodes /\ u.parent[m] # m
        /\ (u.parent[m] = n <=> m = u.kid["right"][n])
        /\ ch # m /\ (ch # NULL => ch \in Nodes /\ ch # n)
    BY NextFacts
  <1> HIDE DEF m
  <1>2. m = Farthest(u, u.kid["right"][n], "left")
    BY DEF m
  <1>3. /\ Relabels(r, r1, pi) /\ Shape(r1, h1) /\ LeafGone(r1, u, m, ch) /\ Shape(r, h)
        /\ v.color[n] = u.color[m]
    BY <1>2, InnerShape
  <1>4. \A x \in Nodes : h1.own[x] = IF x = m THEN NULL ELSE g.own[x]
    <2>1. Nodal(u, g)
      BY DEF Shape
    <2>2. QED
      BY <1>1, <2>1, RemovedIs
  <1>5. "right" \in Side /\ u.kid[Other("right")][m] = NULL
    BY <1>1 DEF Side, Other
  <1>6. ch = u.kid["right"][m]
    OBVIOUS
  <1> HIDE DEF v, r, r1, h1, ch
  <1>7. /\ u.color[m] # "black" => Even(r1, h1, ht, NULL, f) /\ Calm(r1, h1, {}, {})
        /\ u.color[m] = "black" => Borrowed(r1, h1, a, ch, u.parent[m]) /\ Calm(r1, h1, {ch}, {ch})
    <2>1. LeftAt(r1, h1, ht, f, a, ch, u.parent[m], u.color[m])
      BY <1>1, <1>3, <1>4, <1>5, <1>6, LeafEven
    <2>2. QED
      BY <2>1 DEF LeftAt
  <1>8. /\ pi[NULL] = NULL /\ pi[a] = a /\ pi[ch] = ch /\ pi[u.parent[m]] = up
        /\ \A b \in Trees : pi[b] = b
        /\ \A x \in Links : pi[x] \in {ch} => x \in {ch}
    <2>1. \A x \in Links \cup {NULL} : pi[x] = IF x = n THEN m ELSE IF x = m THEN n ELSE x
      BY DEF Exchange
    <2>2. \A x \in Links : x # NULL
      BY Disjoint
    <2>3. a \in Links /\ a # n /\ a # m /\ u.parent[m] \in Links /\ n \in Links /\ m \in Links
          /\ \A b \in Trees : b \in Links /\ b # n /\ b # m
      BY <1>1, Disjoint
    <2> HIDE DEF pi
    <2>4. ch \in Links \cup {NULL} /\ ch # n /\ ch # m
      BY <1>1, <2>2, <2>3, Disjoint
    <2>5. pi[NULL] = NULL /\ pi[ch] = ch /\ pi[a] = a /\ \A b \in Trees : pi[b] = b
      BY <2>1, <2>2, <2>3, <2>4
    <2>6. pi[u.parent[m]] = up
      BY <1>1, <2>1, <2>3
    <2>7. \A x \in Links : pi[x] = ch => x = ch
      BY <2>1, <2>4
    <2>8. QED
      BY <2>5, <2>6, <2>7
  <1>9. ch \in Nodes \cup {NULL} /\ up \in Links
    BY <1>1, Disjoint
  <1> HIDE DEF pi, h, up
  <1>10. h = Renamed(h1, pi) /\ \A b \in Trees : h.len[b] = h1.len[b]
    <2>1. h = Renamed(h1, pi)
      BY DEF h
    <2>2. QED
      BY <1>8, <2>1 DEF Renamed
  <1> DEFINE P == IF v.color[n] = "black" THEN [op |-> "erase", tree |-> a, child |-> ch, up |-> up] ELSE Idle
  <1>11. Sized(r, P, h.len)
    <2>1. CASE u.color[m] = "black"
      <3>1. Borrowed(r, h, a, ch, up)
        BY <1>3, <1>7, <1>8, <1>10, <2>1, RelabelBorrowed
      <3>2. Calm(r, h, {ch}, {ch})
        BY <1>3, <1>7, <1>8, <1>10, <2>1, RelabelCalm
      <3>3. Sized(r, [op |-> "erase", tree |-> a, child |-> ch, up |-> up], h.len)
        BY <1>3, <1>9, <3>1, <3>2, Owing
      <3>4. QED
        BY <1>3, <2>1, <3>3
    <2>2. CASE u.color[m] # "black"
      <3>1. Even(r, h, RelabelledHeights(ht, pi), NULL, f)
        <4>1. Even(r, Renamed(h1, pi), RelabelledHeights(ht, pi), pi[NULL], f)
          BY <1>3, <1>7, <2>2, RelabelEven
        <4>2. QED
          BY <1>8, <1>10, <4>1
      <3>2. Calm(r, h, {}, {})
        BY <1>3, <1>7, <1>10, <2>2, RelabelCalm
      <3>3. Sized(r, Idle, h.len)
        BY <1>3, <3>1, <3>2, Resting0
      <3>4. QED
        BY <1>3, <2>2, <3>3
    <2>3. QED
      BY <2>1, <2>2
  <1> HIDE DEF P
  <1>12. Sized(r, P, h1.len)
    BY <1>10, <1>11 DEF Sized
  <1>13. QED
    BY <1>12 DEF P, r, v, h1, ch, up, m

\* erase(position), up to the loop.
LEMMA EraseSound ==
  ASSUME NEW g, NEW ht, NEW q, NEW e, Sound(t, pc, g, ht, q, e), NEW a \in Trees, NEW n \in Nodes, g.own[n] = a, Erase(a, n)
  PROVE  Sized(t', pc', [g.len EXCEPT ![a] = @ - 1])
  <1>1. Shape(t, g) /\ Even(t, g, ht, NULL, e) /\ Calm(t, g, {}, {}) /\ pc = Idle
    BY DEF Erase, Sound, Fits, Idle, RedBelow, RedAbove
  <1>2. g.len \in [Trees -> Nat] /\ Nodal(t, g)
    BY <1>1 DEF Shape, Nodal, Ghosts
  <1>3. CASE t.kid["left"][n] = NULL \/ t.kid["right"][n] = NULL
    <2> DEFINE child == IF t.kid["left"][n] = NULL THEN t.kid["right"][n] ELSE t.kid["left"][n]
               v == DetachLeaf(t, a, n)
               r == Free(v, n)
               P == IF v.color[n] = "black"
                      THEN [op |-> "erase", tree |-> a, child |-> child, up |-> t.parent[n]]
                      ELSE Idle
    <2>1. t' = r /\ pc' = P
      BY <1>3 DEF Erase
    <2>2. Sized(r, P, Removed(g, a, n).len)
      BY <1>1, <1>3, EraseLeaf
    <2> HIDE DEF r, P
    <2>3. \A b \in Trees : Removed(g, a, n).len[b] = [g.len EXCEPT ![a] = @ - 1][b]
      BY <1>2, RemovedIs
    <2>4. QED
      BY <2>1, <2>2, <2>3 DEF Sized
  <1>4. CASE t.kid["left"][n] # NULL /\ t.kid["right"][n] # NULL
    <2> DEFINE m == Farthest(t, t.kid["right"][n], "left")
               v == DetachInner(t, a, n)
               r == Free(v, n)
               up == IF m = t.kid["right"][n] THEN m ELSE t.parent[m]
               P == IF v.color[n] = "black"
                    THEN [op |-> "erase", tree |-> a, child |-> t.kid["right"][m], up |-> up]
                    ELSE Idle
    <2>1. t' = r /\ pc' = P
      BY <1>4 DEF Erase
    <2>2. Sized(r, P, Removed(g, a, m).len)
      BY <1>1, <1>4, EraseInner
    <2>3. m \in Nodes /\ g.own[m] = a
      BY <1>1, <1>4, NextFacts
    <2> HIDE DEF r, P, m
    <2>4. \A b \in Trees : Removed(g, a, m).len[b] = [g.len EXCEPT ![a] = @ - 1][b]
      BY <1>2, <2>3, RemovedIs
    <2>5. QED
      BY <2>1, <2>2, <2>4 DEF Sized
  <1>5. QED
    BY <1>3, <1>4

\* An insertion that has found its place, up to the loop.
LEMMA AttachSound ==
  ASSUME NEW u, NEW g, NEW ht, NEW e, Shape(u, g), Even(u, g, ht, NULL, e), Calm(u, g, {}, {}),
         NEW a \in Trees, NEW n \in Nodes, g.own[n] = NULL, NEW s \in Side, NEW p,
         \/ p = a /\ g.len[a] = 0 /\ s = "left"
         \/ p \in Nodes /\ g.own[p] = a /\ u.kid[s][p] = NULL
  PROVE  Sized(Attach(u, a, n, p, s), [op |-> "insert", tree |-> a, node |-> n], [g.len EXCEPT ![a] = @ + 1])
  <1> DEFINE r == Attach(u, a, n, p, s)
             P == [op |-> "insert", tree |-> a, node |-> n]
  <1>1. PICK h : Shape(r, h) /\ h.own = [g.own EXCEPT ![n] = a] /\ h.len = [g.len EXCEPT ![a] = @ + 1]
    BY AttachShape
  <1> DEFINE hu == [ht EXCEPT ![n] = 0]
  <1>2. Even(r, h, hu, NULL, e) /\ Calm(r, h, {n}, {}) /\ r.color[n] = "red"
    BY <1>1, AttachEven
  <1>3. P \in [op : {"insert"}, tree : Trees, node : Nodes] /\ P.op = "insert" /\ P.node = n /\ P.tree = a
    OBVIOUS
  <1>4. h.own[n] = a
    <2>1. g.own \in [Nodes -> Trees \cup {NULL}]
      BY DEF Shape, Nodal, Ghosts
    <2>2. QED
      BY <1>1, <2>1
  <1> HIDE DEF P, r, hu
  <1>5. Fits(r, h, P, NULL, e)
    BY <1>2, <1>3, <1>4 DEF Fits
  <1>6. RedBelow(P) = {n} /\ RedAbove(P) = {}
    BY <1>3 DEF RedBelow, RedAbove
  <1>7. Sound(r, P, h, hu, NULL, e)
    BY <1>1, <1>2, <1>5, <1>6 DEF Sound
  <1>8. Sized(r, P, [g.len EXCEPT ![a] = @ + 1])
    BY <1>1, <1>7 DEF Sized
  <1>9. QED
    BY <1>8 DEF r, P

\* A node linked below the place a search found leaves the trees sound, with one element
\* more (red_black_tree.cpp:190-286, red_black_tree.h:1453-1471).
LEMMA InsertAtSound ==
  ASSUME NEW g, NEW ht, NEW e, Shape(t, g), Even(t, g, ht, NULL, e), Calm(t, g, {}, {}),
         NEW a \in Trees, NEW n \in Nodes, g.own[n] = NULL, NEW force, NEW p,
         LET s == IF force \/ p = a \/ KeyOf[n] < KeyOf[p] THEN "left" ELSE "right"
         IN  \/ p = a /\ g.len[a] = 0
             \/ p \in Nodes /\ g.own[p] = a /\ t.kid[s][p] = NULL,
         InsertAt(a, n, p, force)
  PROVE  Sized(t', pc', [g.len EXCEPT ![a] = @ + 1])
  <1> DEFINE s == IF force \/ p = a \/ KeyOf[n] < KeyOf[p] THEN "left" ELSE "right"
  <1>1. /\ t' = Attach(t, a, n, p, s) /\ pc' = [op |-> "insert", tree |-> a, node |-> n]
        /\ \/ p = a /\ g.len[a] = 0 /\ s = "left"
           \/ p \in Nodes /\ g.own[p] = a /\ t.kid[s][p] = NULL
        /\ s \in Side
    BY DEF InsertAt, Side
  <1> HIDE DEF s
  <1>2. Sized(Attach(t, a, n, p, s), [op |-> "insert", tree |-> a, node |-> n], [g.len EXCEPT ![a] = @ + 1])
    BY <1>1, AttachSound
  <1>3. QED
    BY <1>1, <1>2

\* Between two calls nothing is short, and no red node is below a red one.
LEMMA IdleSound ==
  ASSUME NEW u, NEW p, NEW g, NEW ht, NEW q, NEW e, Sound(u, p, g, ht, q, e), p = Idle
  PROVE  Shape(u, g) /\ Even(u, g, ht, NULL, e) /\ Calm(u, g, {}, {}) /\ q = NULL
  BY DEF Sound, Fits, Idle, RedBelow, RedAbove

\* Keys are numbers.
LEMMA KeyFacts == \A n \in Nodes : KeyOf[n] \in Int
  BY TreeAssumption, ZenonT(30), SMTT(30)

\* Insertion of a value, equal keys included, leaves the trees sound
\* (red_black_tree.h:1279-1440).
LEMMA InsertSound ==
  ASSUME NEW g, NEW ht, NEW q, NEW e, Sound(t, pc, g, ht, q, e),
         NEW a \in Trees, NEW n \in Nodes, g.own[n] = NULL, Insert(a, n)
  PROVE  Sized(t', pc', [g.len EXCEPT ![a] = @ + 1])
  <1> DEFINE d == Descend(t, a, KeyOf[n])
             p == d.node
  <1>1. pc = Idle /\ InsertAt(a, n, p, FALSE)
    BY DEF Insert
  <1>2. Shape(t, g) /\ Even(t, g, ht, NULL, e) /\ Calm(t, g, {}, {})
    BY <1>1, IdleSound
  <1>3. IF g.len[a] = 0 THEN d = [node |-> a, less |-> TRUE]
        ELSE p \in Nodes /\ g.own[p] = a /\ t.kid[IF KeyOf[n] < KeyOf[p] THEN "left" ELSE "right"][p] = NULL
    <2> DEFINE k == KeyOf[n]
    <2>1. k \in Int
      BY KeyFacts
    <2> HIDE DEF k
    <2>2. LET D == Descend(t, a, k)
              s == IF k < KeyOf[D.node] THEN "left" ELSE "right"
          IN  IF g.len[a] = 0 THEN D = [node |-> a, less |-> TRUE]
              ELSE D.node \in Nodes /\ g.own[D.node] = a /\ t.kid[s][D.node] = NULL
      BY <1>2, <2>1, DescendEnds
    <2>3. QED
      BY <2>2 DEF k
  <1>4. g.len[a] = 0 => p = a
    BY <1>3
  <1> HIDE DEF d, p
  <1>5. LET s == IF FALSE \/ p = a \/ KeyOf[n] < KeyOf[p] THEN "left" ELSE "right"
        IN  \/ p = a /\ g.len[a] = 0
            \/ p \in Nodes /\ g.own[p] = a /\ t.kid[s][p] = NULL
    BY <1>3, <1>4, Disjoint
  <1>6. QED
    BY <1>1, <1>2, <1>5, InsertAtSound

\* The last element has nothing after it.
LEMMA LastFacts ==
  ASSUME NEW u, NEW g, Shape(u, g), NEW a \in Trees, g.len[a] # 0
  PROVE  LET z == u.kid["right"][a]
         IN  z \in Nodes /\ g.own[z] = a /\ u.kid["right"][z] = NULL
  <1> DEFINE z == u.kid["right"][a]
  <1>0. Nodal(u, g) /\ TreesAt(u, g) /\ a # NULL /\ "right" \in Side /\ "left" \in Side /\ toward("right") = 1
    BY Disjoint DEF Shape, Side, toward
  <1>1. z = g.at[a][g.len[a]] /\ g.len[a] \in Nat
    BY <1>0, TreeFacts DEF TreesAt, AnchorAt
  <1>2. z \in Nodes /\ g.own[z] = a /\ g.pos[z] = g.len[a]
    BY <1>0, <1>1 DEF TreesAt
  <1>3. u.kid["right"][z] = NULL
    <2> SUFFICES ASSUME u.kid["right"][z] # NULL
                 PROVE  FALSE
      OBVIOUS
    <2> DEFINE k == u.kid["right"][z]
    <2> HIDE DEF z
    <2>1. k \in Nodes /\ g.own[k] = a /\ g.end["left"][k] = g.pos[z] + 1
      <3>1. Other("right") = "left"
        BY DEF Other
      <3>2. QED
        BY <1>0, <1>2, <3>1, KidFacts
    <2> HIDE DEF k
    <2>2. g.pos[k] <= g.len[a] /\ g.end["left"][k] <= g.pos[k]
          /\ g.pos[k] \in Int /\ g.end["left"][k] \in Int
      BY <1>0, <2>1, TreeFacts
    <2>3. QED
      BY <1>1, <1>2, <2>1, <2>2
  <1>4. QED
    BY <1>2, <1>3

\* So does insertion with any hint, good or bad (red_black_tree.h:1508-1660).
LEMMA HintSound ==
  ASSUME NEW g, NEW ht, NEW q, NEW e, Sound(t, pc, g, ht, q, e),
         NEW a \in Trees, NEW n \in Nodes, g.own[n] = NULL, size[a] = g.len[a],
         NEW h, h = a \/ (h \in Nodes /\ g.own[h] = a), InsertHint(a, n, h)
  PROVE  Sized(t', pc', [g.len EXCEPT ![a] = @ + 1])
  <1> DEFINE last == t.kid["right"][a]
             next == RBTreeIncrement(t, h)
             right == t.kid["right"][h] # NULL
  <1>1. pc = Idle
    BY DEF InsertHint
  <1>2. Shape(t, g) /\ Even(t, g, ht, NULL, e) /\ Calm(t, g, {}, {}) /\ Nodal(t, g) /\ a # NULL /\ a \notin Nodes
    BY <1>1, IdleSound, Disjoint DEF Shape
  <1>3. CASE h \notin {last, a} /\ FitsBetween(h, next, KeyOf[n])
    <2>1. InsertAt(a, n, IF right THEN next ELSE h, right)
      BY <1>3 DEF InsertHint
    <2>2. h \in Nodes /\ g.own[h] = a
      BY <1>3
    <2>3. CASE right
      <3>1. next = Farthest(t, t.kid["right"][h], "left")
        BY <2>3 DEF RBTreeIncrement
      <3>2. next \in Nodes /\ g.own[next] = a /\ t.kid["left"][next] = NULL
        <4> DEFINE k == t.kid["right"][h]
        <4>1. k \in Nodes /\ g.own[k] = a
          BY <1>2, <2>2, <2>3, TreeFacts DEF Side
        <4>2. /\ Rank(g) \in [Nodes -> Nat]
              /\ "left" \in Side
          BY <1>2, RankFalls DEF Side
        <4>3. Falls(t, Rank(g), "left") /\ Alike(t, t, g, "left")
          BY <1>2, <4>2, RankFalls DEF Falls, Alike
        <4> HIDE DEF k
        <4>4. LET z == Farthest(t, k, "left")
              IN  z \in Nodes /\ g.own[z] = a /\ t.kid["left"][z] = NULL
          BY <1>2, <4>1, <4>2, <4>3, FarthestIs
        <4>5. QED
          BY <3>1, <4>4 DEF k
      <3>3. InsertAt(a, n, next, TRUE)
        BY <2>1, <2>3
      <3> HIDE DEF next
      <3>4. LET s == IF TRUE \/ next = a \/ KeyOf[n] < KeyOf[next] THEN "left" ELSE "right"
            IN  \/ next = a /\ g.len[a] = 0
                \/ next \in Nodes /\ g.own[next] = a /\ t.kid[s][next] = NULL
        BY <3>2
      <3>5. QED
        BY <1>2, <3>3, <3>4, InsertAtSound
    <2>4. CASE ~right
      <3>1. InsertAt(a, n, h, FALSE)
        BY <2>1, <2>4
      <3>2. ~(KeyOf[n] < KeyOf[h]) /\ h # a
        <4>1. KeyOf[n] \in Int /\ KeyOf[h] \in Int
          BY <2>2, KeyFacts
        <4>2. QED
          BY <1>3, <4>1 DEF FitsBetween, FitsAfter
      <3>3. LET s == IF FALSE \/ h = a \/ KeyOf[n] < KeyOf[h] THEN "left" ELSE "right"
            IN  \/ h = a /\ g.len[a] = 0
                \/ h \in Nodes /\ g.own[h] = a /\ t.kid[s][h] = NULL
        BY <2>2, <2>4, <3>2
      <3>4. QED
        BY <1>2, <3>1, <3>3, InsertAtSound
    <2>5. QED
      BY <2>3, <2>4
  <1>4. CASE ~(h \notin {last, a} /\ FitsBetween(h, next, KeyOf[n])) /\ h \in {last, a} /\ size[a] # 0 /\ FitsAfter(last, KeyOf[n])
    <2>1. InsertAt(a, n, last, FALSE)
      BY <1>4 DEF InsertHint
    <2>2. last \in Nodes /\ g.own[last] = a /\ t.kid["right"][last] = NULL
      BY <1>2, <1>4, LastFacts
    <2>3. FitsAfter(last, KeyOf[n])
      BY <1>4
    <2> HIDE DEF last
    <2>4. ~(KeyOf[n] < KeyOf[last]) /\ last # a
      <3>1. KeyOf[n] \in Int /\ KeyOf[last] \in Int
        BY <2>2, KeyFacts
      <3>2. QED
        BY <1>2, <2>2, <2>3, <3>1 DEF FitsAfter
    <2>5. LET s == IF FALSE \/ last = a \/ KeyOf[n] < KeyOf[last] THEN "left" ELSE "right"
          IN  \/ last = a /\ g.len[a] = 0
              \/ last \in Nodes /\ g.own[last] = a /\ t.kid[s][last] = NULL
      BY <2>2, <2>4
    <2>6. QED
      BY <1>2, <2>1, <2>5, InsertAtSound
  <1>5. CASE /\ ~(h \notin {last, a} /\ FitsBetween(h, next, KeyOf[n]))
             /\ ~(h \in {last, a} /\ size[a] # 0 /\ FitsAfter(last, KeyOf[n]))
    <2>1. Insert(a, n)
      BY <1>5 DEF InsertHint
    <2>2. QED
      BY <2>1, InsertSound
  <1>6. QED
    BY <1>3, <1>4, <1>5

\* The meaning of what clear() leaves.
Emptied(g, a) ==
  [own |-> [x \in Nodes |-> IF g.own[x] = a THEN NULL ELSE g.own[x]],
   pos |-> g.pos, end |-> g.end, at |-> g.at, len |-> [g.len EXCEPT ![a] = 0]]

\* What clear() leaves, link by link (red_black_tree.h:1776-1798, 2349-2362).
LEMMA ClearedIs ==
  ASSUME NEW u, NEW g, Shape(u, g), NEW a \in Trees
  PROVE  LET r == Cleared(u, a)
             h == Emptied(g, a)
             gone(x) == x \in Nodes /\ g.own[x] = a
         IN  /\ r \in Graph /\ h \in Ghosts
             /\ h.pos = g.pos /\ h.end = g.end /\ h.at = g.at
             /\ \A x \in Nodes : h.own[x] = IF g.own[x] = a THEN NULL ELSE g.own[x]
             /\ \A b \in Trees : h.len[b] = IF b = a THEN 0 ELSE g.len[b]
             /\ \A x \in Links, d \in Side : r.kid[d][x] = IF x = a THEN a ELSE IF gone(x) THEN NULL ELSE u.kid[d][x]
             /\ \A x \in Links : r.parent[x] = IF x = a \/ gone(x) THEN NULL ELSE u.parent[x]
             /\ \A x \in Links : r.color[x] = IF gone(x) THEN "black" ELSE u.color[x]
  <1> DEFINE r == Cleared(u, a)
             h == Emptied(g, a)
             M == Members(u, a)
  <1>0. u \in Graph /\ g \in Ghosts /\ a \in Links
    BY Disjoint DEF Shape, Nodal
  <1>1. M = {x \in Nodes : g.own[x] = a}
    BY InOrderIs
  <1>2. r = [kid |-> [s \in Side |-> [n \in Links |-> IF n = a THEN a
                                               ELSE IF n \in M THEN NULL ELSE u.kid[s][n]]],
             parent |-> [n \in Links |-> IF n \in M \cup {a} THEN NULL ELSE u.parent[n]],
             color |-> [n \in Links |-> IF n \in M THEN "black" ELSE u.color[n]]]
    BY DEF Cleared
  <1> HIDE DEF M, r
  <1>3. \A x \in Links : x \in M <=> x \in Nodes /\ g.own[x] = a
    BY <1>1
  <1>4. r \in Graph
    <2>1. \A n \in Links, s \in Side : u.kid[s][n] \in Links \cup {NULL}
      BY <1>0 DEF Graph
    <2>2. \A n \in Links : u.parent[n] \in Links \cup {NULL} /\ u.color[n] \in Color /\ "black" \in Color
      BY <1>0 DEF Graph, Color
    <2>3. QED
      BY <1>0, <1>2, <2>1, <2>2 DEF Graph
  <1>5. /\ \A x \in Links, d \in Side : r.kid[d][x] = IF x = a THEN a ELSE IF x \in M THEN NULL ELSE u.kid[d][x]
        /\ \A x \in Links : r.parent[x] = IF x = a \/ x \in M THEN NULL ELSE u.parent[x]
        /\ \A x \in Links : r.color[x] = IF x \in M THEN "black" ELSE u.color[x]
    BY <1>2, SMTT(30), ZenonT(30)
  <1>6. /\ h \in Ghosts /\ h.pos = g.pos /\ h.end = g.end /\ h.at = g.at
        /\ \A x \in Nodes : h.own[x] = IF g.own[x] = a THEN NULL ELSE g.own[x]
        /\ \A b \in Trees : h.len[b] = IF b = a THEN 0 ELSE g.len[b]
    BY <1>0 DEF Emptied, Ghosts
  <1> HIDE DEF h
  <1>7. QED
    BY <1>3, <1>4, <1>5, <1>6 DEF r, h

\* It is an empty tree, and the other trees are as they were.
LEMMA ClearedShape ==
  ASSUME NEW u, NEW g, Shape(u, g), NEW a \in Trees
  PROVE  Shape(Cleared(u, a), Emptied(g, a))
  <1> DEFINE r == Cleared(u, a)
             h == Emptied(g, a)
             gone(x) == x \in Nodes /\ g.own[x] = a
  <1>0. /\ Nodal(u, g) /\ TreesAt(u, g) /\ NodesAt(u, g) /\ a # NULL /\ "left" \in Side /\ "right" \in Side
        /\ \A x \in Nodes : x \in Links /\ x # NULL /\ x \notin Trees
        /\ \A x \in Trees : x \in Links /\ x # NULL /\ x \notin Nodes
    BY Disjoint DEF Shape, Nodal, Side
  <1>1. /\ r \in Graph /\ h \in Ghosts
        /\ h.pos = g.pos /\ h.end = g.end /\ h.at = g.at
        /\ \A x \in Nodes : h.own[x] = IF g.own[x] = a THEN NULL ELSE g.own[x]
        /\ \A b \in Trees : h.len[b] = IF b = a THEN 0 ELSE g.len[b]
        /\ \A x \in Links, d \in Side : r.kid[d][x] = IF x = a THEN a ELSE IF gone(x) THEN NULL ELSE u.kid[d][x]
        /\ \A x \in Links : r.parent[x] = IF x = a \/ gone(x) THEN NULL ELSE u.parent[x]
        /\ \A x \in Links : r.color[x] = IF gone(x) THEN "black" ELSE u.color[x]
    BY ClearedIs
  <1> HIDE DEF r, h
  <1>2. ASSUME NEW n \in Nodes, g.own[n] # NULL, g.own[n] # a
        PROVE  Placed(r, h, n)
    <2>1. Placed(u, g, n) /\ h.own[n] = g.own[n] /\ g.own[n] \in Trees
      BY <1>0, <1>1, <1>2, TreeFacts DEF NodesAt
    <2>2. /\ 1 <= h.pos[n] /\ h.pos[n] <= h.len[h.own[n]] /\ h.at[h.own[n]][h.pos[n]] = n
          /\ h.end["left"][n] <= h.pos[n] /\ h.pos[n] <= h.end["right"][n]
      BY <1>1, <1>2, <2>1 DEF Placed
    <2>3. ASSUME NEW d \in Side, KidAt(u, g, n, d)
          PROVE  KidAt(r, h, n, d)
      <3>1. r.kid[d][n] = u.kid[d][n]
        BY <1>0, <1>1, <1>2
      <3>2. CASE u.kid[d][n] = NULL
        BY <1>1, <2>3, <3>1, <3>2 DEF KidAt
      <3>3. CASE u.kid[d][n] # NULL
        <4> DEFINE k == u.kid[d][n]
        <4>1. k \in Nodes /\ u.parent[k] = n /\ g.own[k] = g.own[n]
              /\ g.end[d][k] = g.end[d][n] /\ g.end[Other(d)][k] = g.pos[n] + toward(d)
          BY <2>3, <3>3 DEF KidAt
        <4> HIDE DEF k
        <4>2. r.parent[k] = n /\ h.own[k] = h.own[n]
          BY <1>0, <1>1, <1>2, <4>1
        <4>3. r.kid[d][n] = k /\ k # NULL
          BY <3>1, <3>3 DEF k
        <4>4. QED
          BY <1>1, <4>1, <4>2, <4>3 DEF KidAt
      <3>4. QED
        BY <3>2, <3>3
    <2>4. KidAt(r, h, n, "left") /\ KidAt(r, h, n, "right")
      BY <1>0, <2>1, <2>3 DEF Placed
    <2>5. ParentAt(r, h, n)
      <3>1. r.parent[n] = u.parent[n]
        BY <1>0, <1>1, <1>2
      <3>2. CASE u.parent[n] = g.own[n] /\ u.parent[g.own[n]] = n
        <4>1. r.parent[g.own[n]] = n
          BY <1>0, <1>1, <1>2, <2>1, <3>2
        <4>2. QED
          BY <2>1, <3>1, <3>2, <4>1 DEF ParentAt
      <3>3. CASE u.parent[n] \in Nodes /\ \E s \in Side : u.kid[s][u.parent[n]] = n
        <4>1. g.own[u.parent[n]] = g.own[n]
          BY <1>0, <1>2, <3>3, ParentFacts
        <4>2. \A s \in Side : r.kid[s][u.parent[n]] = u.kid[s][u.parent[n]]
          BY <1>0, <1>1, <1>2, <3>3, <4>1
        <4>3. QED
          BY <3>1, <3>3, <4>2 DEF ParentAt
      <3>4. QED
        BY <2>1, <3>2, <3>3 DEF Placed, ParentAt
    <2>6. QED
      BY <2>2, <2>4, <2>5 DEF Placed
  <1>3. ASSUME NEW n \in Nodes, g.own[n] = NULL \/ g.own[n] = a
        PROVE  Loose(r, n) /\ h.own[n] = NULL
    <2>1. CASE g.own[n] = a
      BY <1>0, <1>1, <2>1 DEF Loose
    <2>2. CASE g.own[n] = NULL
      <3>1. Loose(u, n)
        BY <1>0, <2>2 DEF NodesAt
      <3>2. QED
        BY <1>0, <1>1, <2>2, <3>1 DEF Loose
    <2>3. QED
      BY <1>3, <2>1, <2>2
  <1>4. NodesAt(r, h)
    <2> SUFFICES ASSUME NEW n \in Nodes
                 PROVE  IF h.own[n] = NULL THEN Loose(r, n) ELSE Placed(r, h, n)
      BY DEF NodesAt
    <2>1. CASE g.own[n] = NULL \/ g.own[n] = a
      BY <1>3, <2>1
    <2>2. CASE g.own[n] # NULL /\ g.own[n] # a
      BY <1>1, <1>2, <2>2
    <2>3. QED
      BY <2>1, <2>2
  <1>5. ASSUME NEW b \in Trees
        PROVE  /\ r.color[b] = "red"
               /\ \A i \in 1 .. h.len[b] : h.at[b][i] \in Nodes /\ h.own[h.at[b][i]] = b /\ h.pos[h.at[b][i]] = i
               /\ AnchorAt(r, h, b)
    <2>1. /\ u.color[b] = "red"
          /\ \A i \in 1 .. g.len[b] : g.at[b][i] \in Nodes /\ g.own[g.at[b][i]] = b /\ g.pos[g.at[b][i]] = i
          /\ AnchorAt(u, g, b)
      BY <1>0 DEF TreesAt
    <2>2. r.color[b] = "red"
      BY <1>0, <1>1, <2>1
    <2>3. CASE b = a
      <3>1. h.len[b] = 0 /\ r.parent[b] = NULL /\ \A d \in Side : r.kid[d][b] = b
        BY <1>0, <1>1, <2>3
      <3>2. AnchorAt(r, h, b)
        BY <1>0, <3>1 DEF AnchorAt
      <3>3. QED
        BY <2>2, <3>1, <3>2
    <2>4. CASE b # a
      <3>1. h.len[b] = g.len[b] /\ r.parent[b] = u.parent[b] /\ \A d \in Side : r.kid[d][b] = u.kid[d][b]
        BY <1>0, <1>1, <2>4
      <3>2. \A i \in 1 .. h.len[b] : h.at[b][i] \in Nodes /\ h.own[h.at[b][i]] = b /\ h.pos[h.at[b][i]] = i
        BY <1>1, <2>1, <2>4, <3>1
      <3>3. AnchorAt(r, h, b)
        <4> DEFINE R == u.parent[b]
        <4>1. CASE g.len[b] = 0
          BY <1>0, <2>1, <3>1, <4>1 DEF AnchorAt
        <4>2. CASE g.len[b] # 0
          <5>1. /\ R \in Nodes /\ g.own[R] = b /\ u.parent[R] = b
                /\ g.end["left"][R] = 1 /\ g.end["right"][R] = g.len[b]
                /\ u.kid["left"][b] = g.at[b][1] /\ u.kid["right"][b] = g.at[b][g.len[b]]
            BY <2>1, <4>2 DEF AnchorAt
          <5> HIDE DEF R
          <5>2. r.parent[b] = R
            BY <3>1 DEF R
          <5>3. h.own[R] = b /\ r.parent[R] = b
            BY <1>0, <1>1, <2>4, <5>1
          <5>4. QED
            BY <1>0, <1>1, <3>1, <4>2, <5>1, <5>2, <5>3 DEF AnchorAt
        <4>3. QED
          BY <4>1, <4>2
      <3>4. QED
        BY <2>2, <3>2, <3>3
    <2>5. QED
      BY <2>3, <2>4
  <1>6. TreesAt(r, h)
    BY <1>5 DEF TreesAt
  <1>7. QED
    BY <1>1, <1>4, <1>6 DEF Shape, Nodal, r, h

\* So are their heights and colours.
LEMMA ClearedEven ==
  ASSUME NEW u, NEW g, NEW ht, NEW e, Shape(u, g), Even(u, g, ht, NULL, e), Calm(u, g, {}, {}), NEW a \in Trees
  PROVE  Even(Cleared(u, a), Emptied(g, a), ht, NULL, e) /\ Calm(Cleared(u, a), Emptied(g, a), {}, {})
  <1> DEFINE r == Cleared(u, a)
             h == Emptied(g, a)
             gone(x) == x \in Nodes /\ g.own[x] = a
  <1>0. /\ Nodal(u, g) /\ a # NULL
        /\ \A x \in Nodes : x \in Links /\ x # a
    BY Disjoint DEF Shape
  <1>1. /\ \A x \in Nodes : h.own[x] = IF g.own[x] = a THEN NULL ELSE g.own[x]
        /\ \A x \in Links, d \in Side : r.kid[d][x] = IF x = a THEN a ELSE IF gone(x) THEN NULL ELSE u.kid[d][x]
        /\ \A x \in Links : r.parent[x] = IF x = a \/ gone(x) THEN NULL ELSE u.parent[x]
        /\ \A x \in Links : r.color[x] = IF gone(x) THEN "black" ELSE u.color[x]
    BY ClearedIs
  <1> HIDE DEF r, h
  <1>2. ASSUME NEW x \in Nodes, NEW d \in Side, h.own[x] # NULL
        PROVE  EvenAt(r, ht, NULL, e, x, d)
    <2>1. g.own[x] # a /\ g.own[x] # NULL
      BY <1>1, <1>2
    <2>2. r.kid[d][x] = u.kid[d][x] /\ r.color[x] = u.color[x]
      BY <1>0, <1>1, <2>1
    <2>3. EvenAt(u, ht, NULL, e, x, d)
      BY <2>1 DEF Even
    <2>4. QED
      BY <2>2, <2>3 DEF EvenAt, Black
  <1>3. ASSUME NEW x \in Nodes, h.own[x] # NULL, r.color[x] = "red", r.color[r.parent[x]] = "red"
        PROVE  FALSE
    <2>1. g.own[x] # a /\ g.own[x] # NULL
      BY <1>1, <1>3
    <2>2. r.parent[x] = u.parent[x] /\ u.parent[x] \in Links
      BY <1>0, <1>1, <2>1, NodeFacts, Sides
    <2>3. u.color[x] = "red" /\ u.color[u.parent[x]] = "red"
      BY <1>0, <1>1, <1>3, <2>1, <2>2
    <2>4. QED
      BY <2>1, <2>3 DEF Calm
  <1>4. Even(r, h, ht, NULL, e) /\ Calm(r, h, {}, {})
    BY <1>2, <1>3 DEF Even, Calm
  <1>5. QED
    BY <1>4 DEF r, h

\* What one half of a swap does, link by link (red_black_tree.h:1124-1183).
LEMMA AdoptIs ==
  ASSUME NEW v \in Graph, NEW u \in Graph, NEW a \in Trees, NEW b \in Trees, Root(u, b) \in Nodes \cup {NULL}
  PROVE  LET r == Adopt(v, u, a, b)
             n == Root(u, b)
         IN  /\ r \in Graph
             /\ \A x \in Links : r.color[x] = v.color[x]
             /\ \A x \in Links, d \in Side :
                  r.kid[d][x] = IF x = a THEN IF n = NULL THEN a ELSE u.kid[d][b] ELSE v.kid[d][x]
             /\ \A x \in Links : r.parent[x] = IF x = n THEN a ELSE IF x = a THEN n ELSE v.parent[x]
  <1> DEFINE n == Root(u, b)
             end(d) == IF n = NULL THEN a ELSE u.kid[d][b]
             v1 == SetParent(v, a, n)
             v2 == SetKid(v1, "left", a, end("left"))
             v3 == SetKid(v2, "right", a, end("right"))
             r == SetParent(v3, n, a)
  <1>0. /\ a \in Links /\ b \in Links /\ a # NULL /\ a \in Links \cup {NULL}
        /\ Side = {"left", "right"} /\ "left" \in Side /\ "right" \in Side /\ "left" # "right"
        /\ \A x \in Nodes : x \in Links
    BY Disjoint DEF Side
  <1>1. end("left") \in Links \cup {NULL} /\ end("right") \in Links \cup {NULL} /\ n \in Links \cup {NULL}
    BY <1>0 DEF Graph
  <1>2. Adopt(v, u, a, b) = r
    BY DEF Adopt
  <1>3. \A d \in Side : end(d) = IF d = "left" THEN end("left") ELSE end("right")
    BY <1>0
  <1> HIDE DEF n, end, v1, v2, v3, r
  <1>4. v1 \in Graph /\ ParentSet(v1, v, a, n)
    BY <1>0, <1>1, SetParentIs DEF v1
  <1>5. v2 \in Graph /\ KidSet(v2, v1, "left", a, end("left"))
    BY <1>0, <1>1, <1>4, SetKidIs DEF v2
  <1>6. v3 \in Graph /\ KidSet(v3, v2, "right", a, end("right"))
    BY <1>0, <1>1, <1>5, SetKidIs, SMTT(30), ZenonT(30) DEF v3
  <1>7. r \in Graph /\ ParentSet(r, v3, n, a)
    BY <1>0, <1>1, <1>6, SetParentIs DEF r
  <1>8. \A x \in Links : r.color[x] = v.color[x]
    BY <1>4, <1>5, <1>6, <1>7 DEF ParentSet, KidSet
  <1>9. \A x \in Links : r.parent[x] = IF x = n THEN a ELSE IF x = a THEN n ELSE v.parent[x]
    BY <1>4, <1>5, <1>6, <1>7 DEF ParentSet, KidSet
  <1>10. \A x \in Links, d \in Side : r.kid[d][x] = IF x = a THEN end(d) ELSE v.kid[d][x]
    BY <1>0, <1>3, <1>4, <1>5, <1>6, <1>7 DEF ParentSet, KidSet
  <1>11. QED
    BY <1>2, <1>7, <1>8, <1>9, <1>10 DEF n, end

\* What each anchor and its root know of each other.
LEMMA AnchorFacts ==
  ASSUME NEW u, NEW g, Shape(u, g), NEW a \in Trees
  PROVE  LET m == Root(u, a) IN
         /\ m \in Nodes \cup {NULL} /\ (m = NULL <=> g.len[a] = 0)
         /\ \A d \in Side : IF m = NULL THEN u.kid[d][a] = a ELSE u.kid[d][a] \in Nodes /\ u.parent[m] = a
         /\ \A x \in Nodes : u.parent[x] = a => x = m
  <1> DEFINE m == Root(u, a)
  <1>0. Nodal(u, g) /\ AnchorAt(u, g, a) /\ a # NULL /\ a \notin Nodes /\ g.len[a] \in Nat
        /\ \A i \in 1 .. g.len[a] : g.at[a][i] \in Nodes
    BY Disjoint, TreeFacts DEF Shape, TreesAt
  <1>1. m \in Nodes \cup {NULL} /\ (m = NULL <=> g.len[a] = 0)
    BY <1>0, Disjoint DEF AnchorAt, Root
  <1>2. ASSUME NEW d \in Side
        PROVE  IF m = NULL THEN u.kid[d][a] = a ELSE u.kid[d][a] \in Nodes /\ u.parent[m] = a
    <2>1. CASE g.len[a] = 0
      BY <1>0, <1>1, <2>1, Sides DEF AnchorAt, Root
    <2>2. CASE g.len[a] # 0
      <3>1. 1 \in 1 .. g.len[a] /\ g.len[a] \in 1 .. g.len[a]
        BY <1>0, <2>2
      <3>2. u.kid["left"][a] \in Nodes /\ u.kid["right"][a] \in Nodes /\ u.parent[m] = a
        BY <1>0, <2>2, <3>1 DEF AnchorAt, Root
      <3>3. QED
        BY <1>1, <2>2, <3>2, Sides
    <2>3. QED
      BY <2>1, <2>2
  <1>3. ASSUME NEW x \in Nodes, u.parent[x] = a
        PROVE  x = m
    <2>1. CASE g.own[x] = NULL
      BY <1>0, <1>3, <2>1 DEF Nodal, NodesAt, Loose
    <2>2. CASE g.own[x] # NULL
      <3>1. ParentAt(u, g, x)
        BY <1>0, <2>2, NodeFacts, Sides
      <3>2. QED
        BY <1>0, <1>3, <3>1 DEF ParentAt, Root
    <2>3. QED
      BY <2>1, <2>2
  <1>4. QED
    BY <1>1, <1>2, <1>3 DEF m

\* A swap exchanges the names of the two anchors in every link, and nothing else.
LEMMA SwapRelabels ==
  ASSUME NEW u, NEW g, Shape(u, g), NEW a \in Trees, NEW b \in Trees
  PROVE  LET r == Adopt(Adopt(u, u, a, b), u, b, a)
         IN  r \in Graph /\ Relabels(r, u, Exchange(a, b))
  <1> DEFINE v == Adopt(u, u, a, b)
             r == Adopt(v, u, b, a)
             m == Root(u, a)
             n == Root(u, b)
             pi == Exchange(a, b)
  <1>0. /\ u \in Graph /\ Nodal(u, g) /\ a \in Links /\ b \in Links /\ a # NULL /\ b # NULL
        /\ a \notin Nodes /\ b \notin Nodes /\ NULL \notin Nodes
        /\ \A x \in Nodes : x \in Links /\ x # NULL /\ x # a /\ x # b
        /\ Links = Nodes \cup Trees /\ NULL \notin Links
    BY Disjoint DEF Shape, Nodal, Links
  <1>1. /\ m \in Nodes \cup {NULL}
        /\ \A d \in Side : IF m = NULL THEN u.kid[d][a] = a ELSE u.kid[d][a] \in Nodes /\ u.parent[m] = a
        /\ \A x \in Nodes : u.parent[x] = a => x = m
    BY AnchorFacts
  <1>2. /\ n \in Nodes \cup {NULL}
        /\ \A d \in Side : IF n = NULL THEN u.kid[d][b] = b ELSE u.kid[d][b] \in Nodes /\ u.parent[n] = b
        /\ \A x \in Nodes : u.parent[x] = b => x = n
    BY AnchorFacts
  <1>3. m = u.parent[a] /\ n = u.parent[b]
    BY DEF Root
  <1>4. /\ v \in Graph
        /\ \A x \in Links : v.color[x] = u.color[x]
        /\ \A x \in Links, d \in Side : v.kid[d][x] = IF x = a THEN IF n = NULL THEN a ELSE u.kid[d][b] ELSE u.kid[d][x]
        /\ \A x \in Links : v.parent[x] = IF x = n THEN a ELSE IF x = a THEN n ELSE u.parent[x]
    BY <1>0, <1>2, AdoptIs
  <1> HIDE DEF v
  <1>5. /\ r \in Graph
        /\ \A x \in Links : r.color[x] = v.color[x]
        /\ \A x \in Links, d \in Side : r.kid[d][x] = IF x = b THEN IF m = NULL THEN b ELSE u.kid[d][a] ELSE v.kid[d][x]
        /\ \A x \in Links : r.parent[x] = IF x = m THEN b ELSE IF x = b THEN m ELSE v.parent[x]
    BY <1>0, <1>1, <1>4, AdoptIs
  <1>6. /\ \A x \in Links \cup {NULL} : pi[x] = IF x = a THEN b ELSE IF x = b THEN a ELSE x
    BY DEF Exchange
  <1> HIDE DEF r, m, n, pi
  <1>7. /\ pi[NULL] = NULL /\ \A x \in Links : pi[x] \in Links /\ pi[pi[x]] = x
        /\ \A x \in Nodes : pi[x] = x
        /\ \A c \in Trees : pi[c] \in Trees
    BY <1>0, <1>6
  <1>8. ASSUME NEW x \in Nodes, NEW d \in Side
        PROVE  u.kid[d][x] \in Nodes \cup {NULL} /\ u.parent[x] \in Links \cup {NULL}
    <2>1. CASE g.own[x] = NULL
      BY <1>0, <2>1 DEF Nodal, NodesAt, Loose
    <2>2. CASE g.own[x] # NULL
      BY <1>0, <2>2, NodeFacts
    <2>3. QED
      BY <2>1, <2>2
  <1>9. ASSUME NEW x \in Links, NEW d \in Side
        PROVE  r.kid[d][x] = pi[u.kid[d][pi[x]]]
    <2>1. CASE x \in Nodes
      <3>1. r.kid[d][x] = u.kid[d][x]
        BY <1>0, <1>4, <1>5, <2>1
      <3>2. pi[u.kid[d][x]] = u.kid[d][x] /\ pi[x] = x
        BY <1>7, <1>8, <2>1
      <3>3. QED
        BY <3>1, <3>2
    <2>2. CASE x = b
      <3>1. pi[x] = a /\ r.kid[d][x] = IF m = NULL THEN b ELSE u.kid[d][a]
        BY <1>0, <1>5, <1>6, <2>2
      <3>2. pi[a] = b
        BY <1>0, <1>6
      <3>3. QED
        BY <1>1, <1>7, <3>1, <3>2
    <2>3. CASE x = a /\ a # b
      <3>1. pi[x] = b /\ r.kid[d][x] = IF n = NULL THEN a ELSE u.kid[d][b]
        BY <1>0, <1>4, <1>5, <1>6, <2>3
      <3>2. pi[b] = a
        BY <1>0, <1>6, <2>3
      <3>3. QED
        BY <1>2, <1>7, <3>1, <3>2
    <2>4. CASE x \notin Nodes /\ x # a /\ x # b
      <3>1. r.kid[d][x] = u.kid[d][x] /\ pi[x] = x
        BY <1>0, <1>4, <1>5, <1>6, <2>4
      <3>2. x \in Trees
        BY <1>0, <2>4
      <3>3. u.kid[d][x] \in Nodes \cup {x}
        BY <3>2, AnchorFacts
      <3>4. QED
        BY <1>7, <3>1, <3>3
    <2>5. QED
      BY <2>1, <2>2, <2>3, <2>4
  <1>10. ASSUME NEW x \in Links
         PROVE  r.parent[x] = pi[u.parent[pi[x]]]
    <2>1. CASE x \in Nodes
      <3>1. pi[x] = x /\ r.parent[x] = IF x = m THEN b ELSE IF x = n THEN a ELSE u.parent[x]
        BY <1>0, <1>4, <1>5, <1>7, <2>1
      <3>2. CASE x = m
        BY <1>0, <1>1, <1>6, <2>1, <3>1, <3>2, Sides
      <3>3. CASE x # m /\ x = n
        <4>1. u.parent[x] = b
          BY <1>0, <1>2, <2>1, <3>3, Sides
        <4>2. a # b
          BY <1>3, <3>3
        <4>3. QED
          BY <1>0, <1>6, <3>1, <3>3, <4>1, <4>2
      <3>4. CASE x # m /\ x # n
        <4>1. u.parent[x] # a /\ u.parent[x] # b /\ u.parent[x] \in Links \cup {NULL}
          BY <1>1, <1>2, <1>8, <2>1, <3>4, Sides
        <4>2. QED
          BY <1>6, <3>1, <3>4, <4>1
      <3>5. QED
        BY <3>2, <3>3, <3>4
    <2>2. CASE x \notin Nodes
      <3>1. x \in Trees /\ x # m /\ x # n
        BY <1>0, <1>1, <1>2, <2>2
      <3>2. CASE x = b
        BY <1>0, <1>1, <1>3, <1>5, <1>6, <1>7, <3>1, <3>2
      <3>3. CASE x = a /\ a # b
        BY <1>0, <1>2, <1>3, <1>4, <1>5, <1>6, <1>7, <3>1, <3>3
      <3>4. CASE x # a /\ x # b
        <4>1. u.parent[x] \in Nodes \cup {NULL}
          BY <3>1, AnchorFacts DEF Root
        <4>2. QED
          BY <1>0, <1>4, <1>5, <1>6, <1>7, <3>1, <3>4, <4>1
      <3>5. QED
        BY <3>2, <3>3, <3>4
    <2>3. QED
      BY <2>1, <2>2
  <1>11. ASSUME NEW x \in Links
         PROVE  r.color[x] = u.color[pi[x]]
    <2>1. r.color[x] = u.color[x]
      BY <1>4, <1>5
    <2>2. CASE x \in {a, b}
      <3>1. u.color[a] = "red" /\ u.color[b] = "red"
        BY DEF Shape, TreesAt
      <3>2. QED
        BY <1>0, <1>6, <2>1, <2>2, <3>1
    <2>3. CASE x \notin {a, b}
      BY <1>0, <1>6, <2>1, <2>3
    <2>4. QED
      BY <2>2, <2>3
  <1>12. Relabels(r, u, pi)
    <2>1. \A x \in Nodes : pi[x] \in Nodes
      BY <1>7
    <2>2. QED
      BY <1>7, <1>9, <1>10, <1>11, <2>1 DEF Relabels
  <1>13. QED
    BY <1>5, <1>12 DEF r, v, pi

\* So it leaves the trees sound, each with the other's elements, and it does so when both
\* are the same tree (red_black_tree.h:1124-1183).
LEMMA SwapSound ==
  ASSUME NEW u, NEW g, NEW ht, NEW e, Shape(u, g), Even(u, g, ht, NULL, e), Calm(u, g, {}, {}),
         NEW a \in Trees, NEW b \in Trees
  PROVE  LET r == Adopt(Adopt(u, u, a, b), u, b, a)
         IN  r \in Graph /\ Sized(r, Idle, [g.len EXCEPT ![a] = g.len[b], ![b] = g.len[a]])
  <1> DEFINE r == Adopt(Adopt(u, u, a, b), u, b, a)
             pi == Exchange(a, b)
             h == Renamed(g, pi)
             hu == RelabelledHeights(ht, pi)
  <1>1. r \in Graph /\ Relabels(r, u, pi)
    BY SwapRelabels
  <1>2. pi[NULL] = NULL
    BY <1>1 DEF Relabels
  <1>3. \A c \in Trees : pi[c] = IF c = a THEN b ELSE IF c = b THEN a ELSE c
    BY DEF Exchange, Links
  <1>4. g.len \in [Trees -> Nat]
    BY DEF Shape, Nodal, Ghosts
  <1> HIDE DEF r, pi
  <1>5. Shape(r, h)
    BY <1>1, RelabelShape
  <1>6. Even(r, h, hu, NULL, e)
    BY <1>1, <1>2, RelabelEven
  <1>7. Calm(r, h, {}, {})
    BY <1>1, RelabelCalm
  <1>8. \A c \in Trees : h.len[c] = g.len[pi[c]]
    BY DEF Renamed
  <1> HIDE DEF h, hu
  <1>9. Sized(r, Idle, h.len)
    BY <1>5, <1>6, <1>7, Resting0
  <1>10. \A c \in Trees : h.len[c] = [g.len EXCEPT ![a] = g.len[b], ![b] = g.len[a]][c]
    BY <1>3, <1>4, <1>8
  <1>11. Sized(r, Idle, [g.len EXCEPT ![a] = g.len[b], ![b] = g.len[a]])
    BY <1>9, <1>10 DEF Sized
  <1>12. QED
    BY <1>1, <1>11 DEF r

\* In r the tree at a is a copy of the one that b has in u, x copied to to[x].
Copied(r, u, g, a, b, to) ==
  /\ to[NULL] = NULL /\ to[b] = a
  /\ \A x \in Nodes : g.own[x] = b => to[x] \in Nodes /\ g.own[to[x]] = NULL
  /\ \A x \in Nodes, y \in Nodes : g.own[x] = b /\ g.own[y] = b /\ to[x] = to[y] => x = y
  /\ \A x \in Links, d \in Side : x = b \/ (x \in Nodes /\ g.own[x] = b) =>
       /\ r.kid[d][to[x]] = to[u.kid[d][x]]
       /\ r.parent[to[x]] = to[u.parent[x]] /\ r.color[to[x]] = u.color[x]
  /\ \A y \in Links, d \in Side : y # a /\ (\A x \in Nodes : g.own[x] = b => y # to[x]) =>
       /\ r.kid[d][y] = u.kid[d][y] /\ r.parent[y] = u.parent[y] /\ r.color[y] = u.color[y]

\* The node that y is a copy of.
Original(g, b, to, y) == CHOOSE x \in Nodes : g.own[x] = b /\ to[x] = y
\* y is a copy of a node of b's tree.
IsCopy(g, b, to, y) == \E x \in Nodes : g.own[x] = b /\ to[x] = y

\* The meaning with the copy.
WithCopy(g, a, b, to) ==
  [own |-> [y \in Nodes |-> IF IsCopy(g, b, to, y) THEN a ELSE g.own[y]],
   pos |-> [y \in Nodes |-> IF IsCopy(g, b, to, y) THEN g.pos[Original(g, b, to, y)] ELSE g.pos[y]],
   end |-> [d \in Side |-> [y \in Nodes |-> IF IsCopy(g, b, to, y) THEN g.end[d][Original(g, b, to, y)]
                                            ELSE g.end[d][y]]],
   at |-> [c \in Trees |-> [i \in Int |-> IF c # a THEN g.at[c][i]
                                          ELSE IF i \in 1 .. g.len[b] THEN to[g.at[b][i]] ELSE NULL]],
   len |-> [g.len EXCEPT ![a] = g.len[b]]]

\* The heights with the copy.
CopiedHeights(g, b, to, ht) ==
  [y \in Nodes |-> IF IsCopy(g, b, to, y) THEN ht[Original(g, b, to, y)] ELSE ht[y]]

\* A copy's original is the node it was made from.
LEMMA Originals ==
  ASSUME NEW r, NEW u, NEW g, NEW a, NEW b, NEW to, Copied(r, u, g, a, b, to)
  PROVE  \A x \in Nodes : g.own[x] = b => IsCopy(g, b, to, to[x]) /\ Original(g, b, to, to[x]) = x
  <1> SUFFICES ASSUME NEW x \in Nodes, g.own[x] = b
               PROVE  IsCopy(g, b, to, to[x]) /\ Original(g, b, to, to[x]) = x
    OBVIOUS
  <1> DEFINE z == Original(g, b, to, to[x])
  <1>1. IsCopy(g, b, to, to[x])
    BY DEF IsCopy
  <1>2. z \in Nodes /\ g.own[z] = b /\ to[z] = to[x]
    BY <1>1 DEF Original, IsCopy
  <1> HIDE DEF z
  <1>3. z = x
    BY <1>2 DEF Copied
  <1>4. QED
    BY <1>1, <1>3 DEF z

\* What the meaning and the heights are with the copy.
CopyKnown(h, hu, g, a, b, to, ht) ==
  /\ h \in Ghosts /\ hu \in [Nodes -> Nat]
  /\ \A x \in Nodes : g.own[x] = b => /\ h.own[to[x]] = a /\ h.pos[to[x]] = g.pos[x]
                                      /\ \A d \in Side : h.end[d][to[x]] = g.end[d][x]
                                      /\ hu[to[x]] = ht[x]
  /\ \A y \in Nodes : ~IsCopy(g, b, to, y) => /\ h.own[y] = g.own[y] /\ h.pos[y] = g.pos[y]
                                              /\ \A d \in Side : h.end[d][y] = g.end[d][y]
                                              /\ hu[y] = ht[y]
  /\ \A i \in 1 .. g.len[b] : h.at[a][i] = to[g.at[b][i]]
  /\ \A c \in Trees : c # a => h.at[c] = g.at[c] /\ h.len[c] = g.len[c]
  /\ h.len[a] = g.len[b]

\* The meaning with the copy has, for each copy, what it has for the original.
LEMMA WithCopyIs ==
  ASSUME NEW r, NEW u, NEW g, Shape(u, g), NEW a \in Trees, NEW b \in Trees, a # b, g.len[a] = 0,
         NEW to, Copied(r, u, g, a, b, to), NEW ht \in [Nodes -> Nat]
  PROVE  CopyKnown(WithCopy(g, a, b, to), CopiedHeights(g, b, to, ht), g, a, b, to, ht)
  <1> DEFINE h == WithCopy(g, a, b, to)
             hu == CopiedHeights(g, b, to, ht)
             o(y) == Original(g, b, to, y)
             is(y) == IsCopy(g, b, to, y)
  <1>0. g \in Ghosts /\ \A i \in 1 .. g.len[b] : g.at[b][i] \in Nodes /\ g.own[g.at[b][i]] = b
    BY DEF Shape, Nodal, TreesAt
  <1>1. \A y \in Nodes : is(y) => o(y) \in Nodes /\ g.own[o(y)] = b
    BY DEF Original, IsCopy
  <1>2. \A x \in Nodes : g.own[x] = b => to[x] \in Nodes /\ is(to[x]) /\ o(to[x]) = x
    <2>1. \A x \in Nodes : g.own[x] = b => to[x] \in Nodes
      BY DEF Copied
    <2>2. \A x \in Nodes : g.own[x] = b => IsCopy(g, b, to, to[x]) /\ Original(g, b, to, to[x]) = x
      BY Originals
    <2>3. QED
      BY <2>1, <2>2
  <1>3. /\ h.own = [y \in Nodes |-> IF is(y) THEN a ELSE g.own[y]]
        /\ h.pos = [y \in Nodes |-> IF is(y) THEN g.pos[o(y)] ELSE g.pos[y]]
        /\ h.end = [d \in Side |-> [y \in Nodes |-> IF is(y) THEN g.end[d][o(y)] ELSE g.end[d][y]]]
        /\ h.at = [c \in Trees |-> [i \in Int |-> IF c # a THEN g.at[c][i]
                                          ELSE IF i \in 1 .. g.len[b] THEN to[g.at[b][i]] ELSE NULL]]
        /\ h.len = [g.len EXCEPT ![a] = g.len[b]]
        /\ h = [own |-> h.own, pos |-> h.pos, end |-> h.end, at |-> h.at, len |-> h.len]
    BY DEF WithCopy
  <1>4. hu = [y \in Nodes |-> IF is(y) THEN ht[o(y)] ELSE ht[y]]
    BY DEF CopiedHeights
  <1> HIDE DEF h, hu, is, o
  <1>5. /\ g.own \in [Nodes -> Trees \cup {NULL}] /\ g.pos \in [Nodes -> Int]
        /\ g.end \in [Side -> [Nodes -> Int]] /\ g.at \in [Trees -> [Int -> Nodes \cup {NULL}]]
        /\ g.len \in [Trees -> Nat]
    BY <1>0 DEF Ghosts
  <1>6. h \in Ghosts
    <2>1. h.own \in [Nodes -> Trees \cup {NULL}]
      BY <1>3, <1>5
    <2>2. h.pos \in [Nodes -> Int]
      BY <1>1, <1>3, <1>5
    <2>3. h.end \in [Side -> [Nodes -> Int]]
      BY <1>1, <1>3, <1>5
    <2>4. h.at \in [Trees -> [Int -> Nodes \cup {NULL}]]
      <3>1. \A i \in 1 .. g.len[b] : to[g.at[b][i]] \in Nodes
        BY <1>0, <1>2
      <3>2. QED
        BY <1>3, <1>5, <3>1
    <2>5. h.len \in [Trees -> Nat]
      BY <1>3, <1>5
    <2>6. QED
      BY <1>3, <2>1, <2>2, <2>3, <2>4, <2>5 DEF Ghosts
  <1>7. hu \in [Nodes -> Nat]
    BY <1>1, <1>4
  <1>8. \A x \in Nodes : g.own[x] = b => /\ h.own[to[x]] = a /\ h.pos[to[x]] = g.pos[x]
                                         /\ \A d \in Side : h.end[d][to[x]] = g.end[d][x]
                                         /\ hu[to[x]] = ht[x]
    BY <1>2, <1>3, <1>4
  <1>9. \A y \in Nodes : ~is(y) => /\ h.own[y] = g.own[y] /\ h.pos[y] = g.pos[y]
                                   /\ \A d \in Side : h.end[d][y] = g.end[d][y]
                                   /\ hu[y] = ht[y]
    BY <1>3, <1>4
  <1>10. \A i \in 1 .. g.len[b] : h.at[a][i] = to[g.at[b][i]]
    BY <1>3, <1>5
  <1>11. \A c \in Trees : c # a => h.at[c] = g.at[c] /\ h.len[c] = g.len[c]
    <2> SUFFICES ASSUME NEW c \in Trees, c # a
                 PROVE  h.at[c] = g.at[c] /\ h.len[c] = g.len[c]
      OBVIOUS
    <2>1. h.at[c] = [i \in Int |-> g.at[c][i]]
      BY <1>3
    <2>2. g.at[c] \in [Int -> Nodes \cup {NULL}]
      BY <1>5
    <2>3. QED
      BY <1>3, <1>5, <2>1, <2>2
  <1>12. h.len[a] = g.len[b]
    BY <1>3, <1>5
  <1>13. QED
    BY <1>6, <1>7, <1>8, <1>9, <1>10, <1>11, <1>12 DEF h, hu, is, CopyKnown

\* A copy made link by link is a tree with the same elements in the same order
\* (red_black_tree.h:2309-2346).
LEMMA CopyShape ==
  ASSUME NEW u, NEW g, Shape(u, g), NEW a \in Trees, NEW b \in Trees, a # b, g.len[a] = 0,
         NEW r \in Graph, NEW to, Copied(r, u, g, a, b, to)
  PROVE  Shape(r, WithCopy(g, a, b, to))
  <1> DEFINE h == WithCopy(g, a, b, to)
             is(y) == IsCopy(g, b, to, y)
             ht0 == [x \in Nodes |-> 0]
  <1>0. /\ Nodal(u, g) /\ NodesAt(u, g) /\ TreesAt(u, g) /\ a # NULL /\ b # NULL
        /\ a \in Links /\ b \in Links
        /\ \A x \in Nodes : x \in Links /\ x # NULL /\ x \notin Trees
    BY Disjoint DEF Shape, Nodal
  <1>1. ht0 \in [Nodes -> Nat]
    OBVIOUS
  <1> HIDE DEF ht0
  <1>2. /\ h \in Ghosts
        /\ \A x \in Nodes : g.own[x] = b => /\ h.own[to[x]] = a /\ h.pos[to[x]] = g.pos[x]
                                            /\ \A d \in Side : h.end[d][to[x]] = g.end[d][x]
        /\ \A y \in Nodes : ~is(y) => /\ h.own[y] = g.own[y] /\ h.pos[y] = g.pos[y]
                                      /\ \A d \in Side : h.end[d][y] = g.end[d][y]
        /\ \A i \in 1 .. g.len[b] : h.at[a][i] = to[g.at[b][i]]
        /\ \A c \in Trees : c # a => h.at[c] = g.at[c] /\ h.len[c] = g.len[c]
        /\ h.len[a] = g.len[b]
    <2> DEFINE hu == CopiedHeights(g, b, to, ht0)
    <2>1. CopyKnown(h, hu, g, a, b, to, ht0)
      BY <1>1, WithCopyIs
    <2> HIDE DEF h, hu, is
    <2>2. QED
      BY <2>1 DEF CopyKnown, is
  <1> HIDE DEF h
  <1>3. /\ to[NULL] = NULL /\ to[b] = a
        /\ \A x \in Nodes : g.own[x] = b => to[x] \in Nodes /\ g.own[to[x]] = NULL
        /\ \A x \in Nodes, d \in Side : g.own[x] = b =>
             /\ r.kid[d][to[x]] = to[u.kid[d][x]]
             /\ r.parent[to[x]] = to[u.parent[x]] /\ r.color[to[x]] = u.color[x]
        /\ \A d \in Side : r.kid[d][a] = to[u.kid[d][b]]
        /\ r.parent[a] = to[u.parent[b]] /\ r.color[a] = u.color[b]
        /\ \A y \in Nodes, d \in Side : ~is(y) =>
             /\ r.kid[d][y] = u.kid[d][y] /\ r.parent[y] = u.parent[y] /\ r.color[y] = u.color[y]
        /\ \A y \in Trees, d \in Side : y # a =>
             /\ r.kid[d][y] = u.kid[d][y] /\ r.parent[y] = u.parent[y] /\ r.color[y] = u.color[y]
    <2>1. /\ to[NULL] = NULL /\ to[b] = a
          /\ \A x \in Nodes : g.own[x] = b => to[x] \in Nodes /\ g.own[to[x]] = NULL
      BY DEF Copied
    <2>2. \A x \in Nodes, d \in Side : g.own[x] = b =>
             /\ r.kid[d][to[x]] = to[u.kid[d][x]]
             /\ r.parent[to[x]] = to[u.parent[x]] /\ r.color[to[x]] = u.color[x]
      BY <1>0 DEF Copied
    <2>3. /\ \A d \in Side : r.kid[d][a] = to[u.kid[d][b]]
          /\ r.parent[a] = to[u.parent[b]] /\ r.color[a] = u.color[b]
      BY <1>0, <2>1, Sides DEF Copied
    <2>4. \A y \in Nodes, d \in Side : ~is(y) =>
             /\ r.kid[d][y] = u.kid[d][y] /\ r.parent[y] = u.parent[y] /\ r.color[y] = u.color[y]
      BY <1>0 DEF Copied, IsCopy
    <2>5. \A y \in Trees, d \in Side : y # a =>
             /\ r.kid[d][y] = u.kid[d][y] /\ r.parent[y] = u.parent[y] /\ r.color[y] = u.color[y]
      <3>1. \A y \in Trees, x \in Nodes : g.own[x] = b => y # to[x]
        BY <1>0, <2>1
      <3>2. \A y \in Trees : y \in Links
        BY Disjoint
      <3>3. QED
        BY <3>1, <3>2 DEF Copied
    <2>6. QED
      BY <2>1, <2>2, <2>3, <2>4, <2>5
  <1>4. \A y \in Nodes : is(y) => g.own[y] = NULL /\ \E x \in Nodes : g.own[x] = b /\ to[x] = y
    BY <1>3 DEF IsCopy
  <1> HIDE DEF is
  <1>5. \A x \in Nodes : g.own[x] # a
    BY <1>0, TreeFacts
  <1>6. ASSUME NEW x \in Nodes, g.own[x] = b
        PROVE  h.own[to[x]] = a /\ Placed(r, h, to[x])
    <2> DEFINE y == to[x]
    <2>1. Placed(u, g, x) /\ y \in Nodes
      BY <1>0, <1>3, <1>6 DEF NodesAt
    <2>2. /\ h.own[y] = a /\ h.pos[y] = g.pos[x]
          /\ \A d \in Side : h.end[d][y] = g.end[d][x] /\ r.kid[d][y] = to[u.kid[d][x]]
          /\ r.parent[y] = to[u.parent[x]]
      <3>1. /\ h.own[to[x]] = a /\ h.pos[to[x]] = g.pos[x]
            /\ \A d \in Side : h.end[d][to[x]] = g.end[d][x]
        BY <1>2, <1>6
      <3>2. /\ \A d \in Side : r.kid[d][to[x]] = to[u.kid[d][x]]
            /\ r.parent[to[x]] = to[u.parent[x]]
        BY <1>3, <1>6, Sides
      <3>3. QED
        BY <3>1, <3>2
    <2> HIDE DEF y
    <2>3. /\ 1 <= h.pos[y] /\ h.pos[y] <= h.len[h.own[y]] /\ h.at[h.own[y]][h.pos[y]] = y
          /\ h.end["left"][y] <= h.pos[y] /\ h.pos[y] <= h.end["right"][y]
      <3>1. /\ 1 <= g.pos[x] /\ g.pos[x] <= g.len[b] /\ g.at[b][g.pos[x]] = x
            /\ g.end["left"][x] <= g.pos[x] /\ g.pos[x] <= g.end["right"][x]
        BY <1>6, <2>1 DEF Placed
      <3>2. g.pos[x] \in 1 .. g.len[b]
        BY <1>0, <3>1, TreeFacts
      <3>3. h.at[a][g.pos[x]] = y
        BY <1>2, <3>1, <3>2 DEF y
      <3>4. QED
        BY <1>2, <2>2, <3>1, <3>3, Sides
    <2>4. ASSUME NEW d \in Side
          PROVE  KidAt(r, h, y, d)
      <3>1. KidAt(u, g, x, d)
        BY <2>1, <2>4 DEF Placed, Side
      <3>2. CASE u.kid[d][x] = NULL
        BY <1>3, <2>2, <3>1, <3>2 DEF KidAt
      <3>3. CASE u.kid[d][x] # NULL
        <4> DEFINE k == u.kid[d][x]
                   j == to[k]
        <4>1. k \in Nodes /\ u.parent[k] = x /\ g.own[k] = b
              /\ g.end[d][k] = g.end[d][x] /\ g.end[Other(d)][k] = g.pos[x] + toward(d)
          BY <1>6, <3>1, <3>3 DEF KidAt
        <4> HIDE DEF k
        <4>2. /\ j \in Nodes /\ r.parent[j] = y /\ h.own[j] = a
              /\ \A s \in Side : h.end[s][j] = g.end[s][k]
          BY <1>2, <1>3, <4>1, Sides DEF y
        <4>3. r.kid[d][y] = j /\ j # NULL
          BY <1>0, <2>2, <4>2 DEF k
        <4> HIDE DEF j
        <4>4. QED
          BY <2>2, <4>1, <4>2, <4>3, Sides DEF KidAt
      <3>4. QED
        BY <3>2, <3>3
    <2>5. ParentAt(r, h, y)
      <3>1. CASE u.parent[x] = g.own[x] /\ u.parent[g.own[x]] = x
        BY <1>3, <1>6, <2>2, <3>1 DEF ParentAt, y
      <3>2. CASE u.parent[x] \in Nodes /\ \E s \in Side : u.kid[s][u.parent[x]] = x
        <4> DEFINE p == u.parent[x]
        <4>1. p \in Nodes /\ g.own[p] = b
          BY <1>0, <1>6, <3>2, ParentFacts
        <4>2. PICK s \in Side : u.kid[s][p] = x
          BY <3>2
        <4> HIDE DEF p
        <4>3. to[p] \in Nodes /\ r.kid[s][to[p]] = y
          BY <1>3, <4>1, <4>2 DEF y
        <4>4. r.parent[y] = to[p]
          BY <2>2 DEF p
        <4>5. QED
          BY <4>3, <4>4 DEF ParentAt
      <3>3. QED
        BY <2>1, <3>1, <3>2 DEF Placed, ParentAt
    <2>6. KidAt(r, h, y, "left") /\ KidAt(r, h, y, "right")
      BY <2>4, Sides
    <2>7. Placed(r, h, y)
      BY <2>3, <2>5, <2>6 DEF Placed
    <2>8. QED
      BY <2>2, <2>7 DEF y
  <1>7. ASSUME NEW y \in Nodes, ~is(y), g.own[y] # NULL
        PROVE  Placed(r, h, y)
    <2> DEFINE c == g.own[y]
    <2>1. Placed(u, g, y) /\ c \in Trees /\ c # a
      BY <1>0, <1>5, <1>7, TreeFacts DEF NodesAt
    <2>2. /\ h.own[y] = c /\ h.pos[y] = g.pos[y] /\ h.at[c] = g.at[c] /\ h.len[c] = g.len[c]
          /\ \A d \in Side : h.end[d][y] = g.end[d][y] /\ r.kid[d][y] = u.kid[d][y]
          /\ r.parent[y] = u.parent[y]
      BY <1>2, <1>3, <1>7, <2>1, Sides
    <2>3. /\ 1 <= h.pos[y] /\ h.pos[y] <= h.len[h.own[y]] /\ h.at[h.own[y]][h.pos[y]] = y
          /\ h.end["left"][y] <= h.pos[y] /\ h.pos[y] <= h.end["right"][y]
      BY <2>1, <2>2, Sides DEF Placed
    <2>4. ASSUME NEW d \in Side
          PROVE  KidAt(r, h, y, d)
      <3>1. KidAt(u, g, y, d)
        BY <2>1, <2>4 DEF Placed, Side
      <3>2. CASE u.kid[d][y] = NULL
        BY <2>2, <3>1, <3>2 DEF KidAt
      <3>3. CASE u.kid[d][y] # NULL
        <4> DEFINE k == u.kid[d][y]
        <4>1. k \in Nodes /\ u.parent[k] = y /\ g.own[k] = c
              /\ g.end[d][k] = g.end[d][y] /\ g.end[Other(d)][k] = g.pos[y] + toward(d)
          BY <3>1, <3>3 DEF KidAt
        <4> HIDE DEF k
        <4>2. ~is(k)
          BY <1>4, <1>7, <4>1
        <4>3. /\ r.parent[k] = y /\ h.own[k] = c
              /\ \A s \in Side : h.end[s][k] = g.end[s][k]
          BY <1>2, <1>3, <4>1, <4>2, Sides
        <4>4. r.kid[d][y] = k /\ k # NULL
          BY <2>2, <3>3 DEF k
        <4>5. QED
          BY <2>2, <4>1, <4>3, <4>4, Sides DEF KidAt
      <3>4. QED
        BY <3>2, <3>3
    <2>5. ParentAt(r, h, y)
      <3>1. CASE u.parent[y] = c /\ u.parent[c] = y
        <4>1. r.parent[c] = u.parent[c]
          BY <1>3, <2>1, Sides
        <4>2. QED
          BY <2>2, <3>1, <4>1 DEF ParentAt
      <3>2. CASE u.parent[y] \in Nodes /\ \E s \in Side : u.kid[s][u.parent[y]] = y
        <4>1. g.own[u.parent[y]] = c
          BY <1>0, <1>7, <3>2, ParentFacts
        <4>2. ~is(u.parent[y])
          BY <1>4, <1>7, <3>2, <4>1
        <4>3. \A s \in Side : r.kid[s][u.parent[y]] = u.kid[s][u.parent[y]]
          BY <1>3, <3>2, <4>2
        <4>4. QED
          BY <2>2, <3>2, <4>3 DEF ParentAt
      <3>3. QED
        BY <2>1, <3>1, <3>2 DEF Placed, ParentAt
    <2>6. KidAt(r, h, y, "left") /\ KidAt(r, h, y, "right")
      BY <2>4, Sides
    <2>7. QED
      BY <2>3, <2>5, <2>6 DEF Placed
  <1>8. ASSUME NEW y \in Nodes, ~is(y), g.own[y] = NULL
        PROVE  Loose(r, y) /\ h.own[y] = NULL
    <2>1. Loose(u, y)
      BY <1>0, <1>8 DEF NodesAt
    <2>2. QED
      BY <1>2, <1>3, <1>8, <2>1, Sides DEF Loose
  <1>9. NodesAt(r, h)
    <2> SUFFICES ASSUME NEW y \in Nodes
                 PROVE  IF h.own[y] = NULL THEN Loose(r, y) ELSE Placed(r, h, y)
      BY DEF NodesAt
    <2>1. CASE is(y)
      <3>1. PICK x \in Nodes : g.own[x] = b /\ to[x] = y
        BY <1>4, <2>1
      <3>2. QED
        BY <1>0, <1>6, <3>1
    <2>2. CASE ~is(y) /\ g.own[y] # NULL
      BY <1>2, <1>7, <2>2
    <2>3. CASE ~is(y) /\ g.own[y] = NULL
      BY <1>8, <2>3
    <2>4. QED
      BY <2>1, <2>2, <2>3
  <1>10. ASSUME NEW c \in Trees
         PROVE  /\ r.color[c] = "red"
                /\ \A i \in 1 .. h.len[c] : h.at[c][i] \in Nodes /\ h.own[h.at[c][i]] = c /\ h.pos[h.at[c][i]] = i
                /\ AnchorAt(r, h, c)
    <2>1. \A z \in Trees :
          /\ u.color[z] = "red"
          /\ \A i \in 1 .. g.len[z] : g.at[z][i] \in Nodes /\ g.own[g.at[z][i]] = z /\ g.pos[g.at[z][i]] = i
          /\ AnchorAt(u, g, z)
      BY <1>0 DEF TreesAt
    <2>2. r.color[c] = "red"
      BY <1>3, <2>1, Sides
    <2>3. CASE c = a
      <3>1. ASSUME NEW i \in 1 .. h.len[a]
            PROVE  h.at[a][i] \in Nodes /\ h.own[h.at[a][i]] = a /\ h.pos[h.at[a][i]] = i
        <4>1. i \in 1 .. g.len[b] /\ h.at[a][i] = to[g.at[b][i]]
          BY <1>2, <3>1
        <4>2. g.at[b][i] \in Nodes /\ g.own[g.at[b][i]] = b /\ g.pos[g.at[b][i]] = i
          BY <2>1, <4>1
        <4>3. QED
          BY <1>2, <1>3, <4>1, <4>2
      <3>2. AnchorAt(r, h, a)
        <4>0. AnchorAt(u, g, b)
          BY <2>1
        <4>1. CASE g.len[b] = 0
          <5>1. u.parent[b] = NULL /\ u.kid["left"][b] = b /\ u.kid["right"][b] = b
            BY <4>0, <4>1 DEF AnchorAt
          <5>2. QED
            BY <1>2, <1>3, <4>1, <5>1, Sides DEF AnchorAt
        <4>2. CASE g.len[b] # 0
          <5> DEFINE R == u.parent[b]
          <5>1. /\ R \in Nodes /\ g.own[R] = b /\ u.parent[R] = b
                /\ g.end["left"][R] = 1 /\ g.end["right"][R] = g.len[b]
                /\ u.kid["left"][b] = g.at[b][1] /\ u.kid["right"][b] = g.at[b][g.len[b]]
            BY <4>0, <4>2 DEF AnchorAt
          <5>2. r.parent[a] = to[R]
            BY <1>3
          <5> HIDE DEF R
          <5>3. to[R] \in Nodes /\ h.own[to[R]] = a /\ r.parent[to[R]] = a
                /\ h.end["left"][to[R]] = 1 /\ h.end["right"][to[R]] = h.len[a]
            BY <1>2, <1>3, <5>1, Sides
          <5>4. r.kid["left"][a] = to[g.at[b][1]] /\ r.kid["right"][a] = to[g.at[b][g.len[b]]]
            BY <1>3, <5>1, Sides
          <5>5. 1 \in 1 .. g.len[b] /\ g.len[b] \in 1 .. g.len[b]
            BY <1>0, <4>2, TreeFacts
          <5>6. r.kid["left"][a] = h.at[a][1] /\ r.kid["right"][a] = h.at[a][h.len[a]]
            BY <1>2, <5>4, <5>5
          <5>7. h.len[a] # 0
            BY <1>2, <4>2
          <5>8. QED
            BY <5>2, <5>3, <5>6, <5>7 DEF AnchorAt
        <4>3. QED
          BY <4>1, <4>2
      <3>3. QED
        BY <2>2, <2>3, <3>1, <3>2
    <2>4. CASE c # a
      <3>1. h.len[c] = g.len[c] /\ h.at[c] = g.at[c] /\ r.parent[c] = u.parent[c]
            /\ \A d \in Side : r.kid[d][c] = u.kid[d][c]
        BY <1>2, <1>3, <2>4, Sides
      <3>2. \A i \in 1 .. h.len[c] : h.at[c][i] \in Nodes /\ h.own[h.at[c][i]] = c /\ h.pos[h.at[c][i]] = i
        <4> SUFFICES ASSUME NEW i \in 1 .. g.len[c]
                     PROVE  g.at[c][i] \in Nodes /\ h.own[g.at[c][i]] = c /\ h.pos[g.at[c][i]] = i
          BY <3>1
        <4>1. g.at[c][i] \in Nodes /\ g.own[g.at[c][i]] = c /\ g.pos[g.at[c][i]] = i
          BY <2>1
        <4>2. c # NULL
          BY Disjoint
        <4>3. QED
          BY <1>2, <1>4, <4>1, <4>2
      <3>3. AnchorAt(r, h, c)
        <4>0. AnchorAt(u, g, c)
          BY <2>1
        <4>1. CASE g.len[c] = 0
          BY <3>1, <4>0, <4>1, Sides DEF AnchorAt
        <4>2. CASE g.len[c] # 0
          <5> DEFINE R == u.parent[c]
          <5>1. /\ R \in Nodes /\ g.own[R] = c /\ u.parent[R] = c
                /\ g.end["left"][R] = 1 /\ g.end["right"][R] = g.len[c]
                /\ u.kid["left"][c] = g.at[c][1] /\ u.kid["right"][c] = g.at[c][g.len[c]]
            BY <4>0, <4>2 DEF AnchorAt
          <5>2. r.parent[c] = R
            BY <3>1
          <5> HIDE DEF R
          <5>3. ~is(R)
            BY <1>4, <5>1, Disjoint
          <5>4. h.own[R] = c /\ r.parent[R] = c
                /\ h.end["left"][R] = 1 /\ h.end["right"][R] = h.len[c]
            BY <1>2, <1>3, <3>1, <5>1, <5>3, Sides
          <5>5. QED
            BY <3>1, <4>2, <5>1, <5>2, <5>4, Sides DEF AnchorAt
        <4>3. QED
          BY <4>1, <4>2
      <3>4. QED
        BY <2>2, <3>2, <3>3
    <2>5. QED
      BY <2>3, <2>4
  <1>11. TreesAt(r, h)
    BY <1>10 DEF TreesAt
  <1>12. QED
    BY <1>2, <1>9, <1>11 DEF Shape, Nodal, h

\* What the assignments leave of each node of either kind.
LEMMA CopiedAt ==
  ASSUME NEW u, NEW g, Shape(u, g), NEW a \in Trees, NEW b \in Trees, a # b, g.len[a] = 0,
         NEW r, NEW to, Copied(r, u, g, a, b, to)
  PROVE  /\ \A x \in Nodes, d \in Side : g.own[x] = b =>
              /\ r.kid[d][to[x]] = to[u.kid[d][x]]
              /\ r.parent[to[x]] = to[u.parent[x]] /\ r.color[to[x]] = u.color[x]
         /\ r.color[a] = u.color[b]
         /\ \A y \in Nodes, d \in Side : ~IsCopy(g, b, to, y) =>
              /\ r.kid[d][y] = u.kid[d][y] /\ r.parent[y] = u.parent[y] /\ r.color[y] = u.color[y]
         /\ \A y \in Trees : y # a => r.color[y] = u.color[y]
  <1>0. \A x \in Nodes : x \in Links /\ x \notin Trees
    BY Disjoint
  <1>1. to[b] = a /\ b \in Links /\ \A x \in Nodes : g.own[x] = b => to[x] \in Nodes
    BY Disjoint DEF Copied
  <1>2. \A x \in Nodes, d \in Side : g.own[x] = b =>
              /\ r.kid[d][to[x]] = to[u.kid[d][x]]
              /\ r.parent[to[x]] = to[u.parent[x]] /\ r.color[to[x]] = u.color[x]
    BY <1>0 DEF Copied
  <1>3. r.color[a] = u.color[b]
    BY <1>1, Sides DEF Copied
  <1>4. \A y \in Nodes, d \in Side : ~IsCopy(g, b, to, y) =>
              /\ r.kid[d][y] = u.kid[d][y] /\ r.parent[y] = u.parent[y] /\ r.color[y] = u.color[y]
    <2> SUFFICES ASSUME NEW y \in Nodes, NEW d \in Side, ~IsCopy(g, b, to, y)
                 PROVE  r.kid[d][y] = u.kid[d][y] /\ r.parent[y] = u.parent[y] /\ r.color[y] = u.color[y]
      OBVIOUS
    <2>1. y \in Links /\ y # a /\ \A x \in Nodes : g.own[x] = b => y # to[x]
      BY <1>0 DEF IsCopy
    <2>2. QED
      BY <2>1 DEF Copied
  <1>5. \A y \in Trees : y # a => r.color[y] = u.color[y]
    <2>1. \A y \in Trees, x \in Nodes : g.own[x] = b => y # to[x]
      BY <1>0, <1>1
    <2>2. \A y \in Trees : y \in Links
      BY Disjoint
    <2>3. QED
      BY <2>1, <2>2, Sides DEF Copied
  <1>6. QED
    BY <1>2, <1>3, <1>4, <1>5

\* Its heights and colours are those of the original, so the trees are sound with it.
LEMMA CopySound ==
  ASSUME NEW u, NEW g, NEW ht, NEW e, Shape(u, g), Even(u, g, ht, NULL, e), Calm(u, g, {}, {}),
         NEW a \in Trees, NEW b \in Trees, a # b, g.len[a] = 0,
         NEW r \in Graph, NEW to, Copied(r, u, g, a, b, to)
  PROVE  Sized(r, Idle, [g.len EXCEPT ![a] = g.len[b]])
  <1> DEFINE h == WithCopy(g, a, b, to)
             hu == CopiedHeights(g, b, to, ht)
             is(y) == IsCopy(g, b, to, y)
  <1>0. /\ Nodal(u, g) /\ a # NULL /\ b # NULL
        /\ \A x \in Nodes : x \in Links /\ x # NULL /\ x \notin Trees
        /\ ht \in [Nodes -> Nat]
    BY Disjoint DEF Shape, Even
  <1>1. Shape(r, h)
    BY CopyShape
  <1>2. CopyKnown(h, hu, g, a, b, to, ht)
    BY <1>0, WithCopyIs
  <1>3. h.len = [g.len EXCEPT ![a] = g.len[b]]
    BY DEF WithCopy
  <1> HIDE DEF h, hu
  <1>4. /\ hu \in [Nodes -> Nat]
        /\ \A x \in Nodes : g.own[x] = b => h.own[to[x]] = a /\ hu[to[x]] = ht[x]
        /\ \A y \in Nodes : ~is(y) => h.own[y] = g.own[y] /\ hu[y] = ht[y]
    BY <1>2 DEF CopyKnown
  <1>5. /\ to[NULL] = NULL /\ to[b] = a
        /\ \A x \in Nodes : g.own[x] = b => to[x] \in Nodes /\ g.own[to[x]] = NULL
    BY DEF Copied
  <1>6. /\ \A x \in Nodes, d \in Side : g.own[x] = b =>
              /\ r.kid[d][to[x]] = to[u.kid[d][x]]
              /\ r.parent[to[x]] = to[u.parent[x]] /\ r.color[to[x]] = u.color[x]
        /\ r.color[a] = u.color[b]
        /\ \A y \in Nodes, d \in Side : ~is(y) =>
              /\ r.kid[d][y] = u.kid[d][y] /\ r.parent[y] = u.parent[y] /\ r.color[y] = u.color[y]
        /\ \A y \in Trees : y # a => r.color[y] = u.color[y]
    BY CopiedAt
  <1>7. \A y \in Nodes : is(y) => g.own[y] = NULL /\ \E x \in Nodes : g.own[x] = b /\ to[x] = y
    BY <1>5 DEF IsCopy
  <1> HIDE DEF is
  <1>8. \A x \in Nodes : g.own[x] # a
    BY <1>0, TreeFacts
  <1>9. ASSUME NEW y \in Nodes, NEW d \in Side, h.own[y] # NULL
        PROVE  EvenAt(r, hu, NULL, e, y, d)
    <2>1. CASE is(y)
      <3>1. PICK x \in Nodes : g.own[x] = b /\ to[x] = y
        BY <1>7, <2>1
      <3>2. EvenAt(u, ht, NULL, e, x, d) /\ KidAt(u, g, x, d)
        BY <1>0, <3>1, NodeFacts DEF Even
      <3>3. Level(hu, r.kid[d][y]) = Level(ht, u.kid[d][x])
        <4>1. r.kid[d][y] = to[u.kid[d][x]]
          BY <1>6, <3>1
        <4>2. CASE u.kid[d][x] = NULL
          BY <1>5, <4>1, <4>2 DEF Level
        <4>3. CASE u.kid[d][x] # NULL
          <5>1. u.kid[d][x] \in Nodes /\ g.own[u.kid[d][x]] = b
            BY <3>1, <3>2, <4>3 DEF KidAt
          <5>2. QED
            BY <1>0, <1>4, <1>5, <4>1, <4>3, <5>1 DEF Level
        <4>4. QED
          BY <4>2, <4>3
      <3>4. hu[y] = ht[x] /\ Black(r, y) = Black(u, x)
        BY <1>4, <1>6, <3>1 DEF Black
      <3>5. Short(NULL, e, x, d) = 0 /\ Short(NULL, e, y, d) = 0
        BY <1>0 DEF Short
      <3>6. QED
        BY <3>2, <3>3, <3>4, <3>5 DEF EvenAt
    <2>2. CASE ~is(y)
      <3>1. g.own[y] # NULL
        BY <1>4, <1>9, <2>2
      <3>2. EvenAt(u, ht, NULL, e, y, d) /\ KidAt(u, g, y, d)
        BY <1>0, <3>1, NodeFacts DEF Even
      <3>3. Level(hu, r.kid[d][y]) = Level(ht, u.kid[d][y])
        <4>1. r.kid[d][y] = u.kid[d][y]
          BY <1>6, <2>2
        <4>2. CASE u.kid[d][y] # NULL
          <5>1. u.kid[d][y] \in Nodes /\ g.own[u.kid[d][y]] = g.own[y]
            BY <3>2, <4>2 DEF KidAt
          <5>2. QED
            BY <1>4, <1>7, <3>1, <4>1, <4>2, <5>1 DEF Level
        <4>3. QED
          BY <4>1, <4>2 DEF Level
      <3>4. hu[y] = ht[y] /\ Black(r, y) = Black(u, y)
        BY <1>4, <1>6, <2>2 DEF Black
      <3>5. QED
        BY <3>2, <3>3, <3>4 DEF EvenAt
    <2>3. QED
      BY <2>1, <2>2
  <1>10. ASSUME NEW y \in Nodes, h.own[y] # NULL, r.color[y] = "red", r.color[r.parent[y]] = "red"
         PROVE  FALSE
    <2>1. CASE is(y)
      <3>1. PICK x \in Nodes : g.own[x] = b /\ to[x] = y
        BY <1>7, <2>1
      <3>2. u.color[x] = "red" /\ r.parent[y] = to[u.parent[x]]
        BY <1>6, <1>10, <3>1, Sides
      <3>3. ParentAt(u, g, x)
        BY <1>0, <3>1, NodeFacts, Sides
      <3>4. u.parent[x] = b \/ (u.parent[x] \in Nodes /\ g.own[u.parent[x]] = b)
        BY <1>0, <3>1, <3>3, ParentFacts DEF ParentAt
      <3>5. r.color[to[u.parent[x]]] = u.color[u.parent[x]]
        BY <1>5, <1>6, <3>4, Sides
      <3>6. u.color[u.parent[x]] = "red"
        BY <1>10, <3>2, <3>5
      <3>7. QED
        BY <1>0, <3>1, <3>2, <3>6 DEF Calm
    <2>2. CASE ~is(y)
      <3>1. g.own[y] # NULL
        BY <1>4, <1>10, <2>2
      <3>2. u.color[y] = "red" /\ r.parent[y] = u.parent[y]
        BY <1>6, <1>10, <2>2, Sides
      <3>3. ParentAt(u, g, y)
        BY <1>0, <3>1, NodeFacts, Sides, SMTT(30), ZenonT(30)
      <3>4. \/ u.parent[y] \in Trees /\ u.parent[y] # a
            \/ u.parent[y] \in Nodes /\ g.own[u.parent[y]] # NULL
        BY <1>0, <1>8, <3>1, <3>3, ParentFacts, TreeFacts DEF ParentAt
      <3>5. r.color[u.parent[y]] = u.color[u.parent[y]]
        BY <1>6, <1>7, <3>4, Sides
      <3>6. QED
        BY <1>10, <3>1, <3>2, <3>5 DEF Calm
    <2>3. QED
      BY <2>1, <2>2
  <1>11. Even(r, h, hu, NULL, e)
    BY <1>4, <1>9 DEF Even
  <1>12. Calm(r, h, {}, {})
    BY <1>10 DEF Calm
  <1>13. Sized(r, Idle, h.len)
    BY <1>1, <1>11, <1>12, Resting0
  <1>14. QED
    BY <1>3, <1>13

\* The names in the copy: m[x] for x, and a for b.
CopyNames(a, b, s, m) == [x \in Links \cup {NULL} |-> IF x = b THEN a ELSE IF x \in s THEN m[x] ELSE x]

\* The links of a copied tree lead to the copies of what they led to, and its anchor to
\* the copies of the ends (red_black_tree.h:2309-2346, 1085-1091).
LEMMA CopyIs ==
  ASSUME NEW u, NEW g, Shape(u, g), NEW a \in Trees, NEW b \in Trees, a # b,
         NEW s, \A x : x \in s <=> x \in Nodes /\ g.own[x] = b,
         NEW free \in SUBSET Nodes, \A x \in free : g.own[x] = NULL, NEW m \in Copies(s, free)
  PROVE  CopyTree(u, a, b, m) \in Graph /\ Copied(CopyTree(u, a, b, m), u, g, a, b, CopyNames(a, b, s, m))
  <1> DEFINE to == CopyNames(a, b, s, m)
             r == CopyTree(u, a, b, m)
             new == {m[x] : x \in s} \cup {a}
             from(y) == IF y = a THEN b ELSE CHOOSE x \in s : m[x] = y
             img(x) == IF x = b THEN a ELSE IF x \in s THEN m[x] ELSE x
             K(d, y) == IF y \in new THEN img(u.kid[d][from(y)]) ELSE u.kid[d][y]
             P(y) == IF y \in new THEN img(u.parent[from(y)]) ELSE u.parent[y]
             C(y) == IF y \in new THEN u.color[from(y)] ELSE u.color[y]
  <1>0. /\ u \in Graph /\ a \in Links /\ b \in Links /\ a # NULL /\ b # NULL
        /\ a \notin Nodes /\ b \notin Nodes /\ NULL \notin Links
        /\ \A x \in Nodes : x \in Links /\ x # NULL
    BY Disjoint DEF Shape, Nodal
  <1>2. m \in [s -> free] /\ DOMAIN m = s /\ \A x, y \in s : m[x] = m[y] => x = y
    BY DEF Copies
  <1>3. r = [kid |-> [d \in Side |-> [y \in Links |-> K(d, y)]],
             parent |-> [y \in Links |-> P(y)], color |-> [y \in Links |-> C(y)]]
    BY <1>2 DEF CopyTree
  <1> HIDE DEF K, P, C, r
  <1>5. \A x \in s : x \in Nodes /\ x # NULL /\ m[x] \in free /\ m[x] \in Nodes /\ m[x] \in Links /\ m[x] # a
    BY <1>0, <1>2
  <1>6. \A x \in s : (CHOOSE z \in s : m[z] = m[x]) = x
    BY <1>2
  <1>7. \A x \in s : from(m[x]) = x /\ m[x] \in new
    BY <1>5, <1>6
  <1>8. from(a) = b /\ a \in new
    OBVIOUS
  <1>9. \A y \in new : from(y) = b \/ from(y) \in s
    BY <1>7, <1>8
  <1>10. \A x \in Links \cup {NULL} : to[x] = img(x) /\ img(x) \in Links \cup {NULL}
    BY <1>0, <1>5 DEF CopyNames
  <1>11. \A y \in Links : y \in new <=> (y = a \/ \E x \in s : m[x] = y)
    OBVIOUS
  <1> HIDE DEF to, new, from, img
  <1>12. \A x \in Links : u.parent[x] \in Links \cup {NULL} /\ u.color[x] \in Color
                          /\ \A d \in Side : u.kid[d][x] \in Links \cup {NULL}
    BY <1>0 DEF Graph
  <1>14. \A y \in new : from(y) \in Links
    BY <1>0, <1>5, <1>9
  <1>15. r \in Graph
    <2>1. \A y \in Links, d \in Side : K(d, y) \in Links \cup {NULL}
      BY <1>10, <1>12, <1>14 DEF K
    <2>2. \A y \in Links : P(y) \in Links \cup {NULL}
      BY <1>10, <1>12, <1>14 DEF P
    <2>3. \A y \in Links : C(y) \in Color
      BY <1>12, <1>14 DEF C
    <2>4. QED
      BY <1>3, <2>1, <2>2, <2>3 DEF Graph
  <1>24. \A y \in Links : r.parent[y] = P(y) /\ r.color[y] = C(y) /\ \A d \in Side : r.kid[d][y] = K(d, y)
    BY <1>3
  <1>16. \A x \in Nodes : g.own[x] = b <=> x \in s
    OBVIOUS
  <1>17. to[NULL] = NULL /\ to[b] = a /\ \A x \in s : to[x] = m[x]
    BY <1>0, <1>10 DEF img
  <1>18. ASSUME NEW x \in Nodes, g.own[x] = b
         PROVE  to[x] \in Nodes /\ g.own[to[x]] = NULL
    <2>1. x \in s
      BY <1>16, <1>18
    <2>2. to[x] = m[x] /\ m[x] \in Nodes /\ m[x] \in free
      BY <1>5, <1>17, <2>1
    <2>3. QED
      BY <2>2
  <1>19. \A x \in Nodes, y \in Nodes : g.own[x] = b /\ g.own[y] = b /\ to[x] = to[y] => x = y
    BY <1>2, <1>16, <1>17
  <1>20. ASSUME NEW x \in Links, NEW d \in Side, x = b \/ (x \in Nodes /\ g.own[x] = b)
         PROVE  /\ r.kid[d][to[x]] = to[u.kid[d][x]]
                /\ r.parent[to[x]] = to[u.parent[x]] /\ r.color[to[x]] = u.color[x]
    <2>1. to[x] \in new /\ from(to[x]) = x /\ to[x] \in Links
      <3>1. CASE x = b
        BY <1>0, <1>8, <1>17, <3>1
      <3>2. CASE x \in Nodes /\ g.own[x] = b
        BY <1>5, <1>7, <1>16, <1>17, <3>2
      <3>3. QED
        BY <1>20, <3>1, <3>2
    <2>3. r.kid[d][to[x]] = img(u.kid[d][x]) /\ r.parent[to[x]] = img(u.parent[x]) /\ r.color[to[x]] = u.color[x]
      BY <1>24, <2>1 DEF K, P, C
    <2>4. img(u.kid[d][x]) = to[u.kid[d][x]] /\ img(u.parent[x]) = to[u.parent[x]]
      BY <1>10, <1>12
    <2>5. QED
      BY <2>3, <2>4
  <1>21. ASSUME NEW y \in Links, NEW d \in Side, y # a, \A x \in Nodes : g.own[x] = b => y # to[x]
         PROVE  r.kid[d][y] = u.kid[d][y] /\ r.parent[y] = u.parent[y] /\ r.color[y] = u.color[y]
    <2>1. y \notin new
      BY <1>5, <1>11, <1>16, <1>17, <1>21
    <2>2. QED
      BY <1>24, <2>1 DEF K, P, C
  <1>22. Copied(r, u, g, a, b, to)
    BY <1>17, <1>18, <1>19, <1>20, <1>21 DEF Copied
  <1>23. QED
    BY <1>15, <1>22 DEF r, to

\* The invariant: the trees are sound, and mnSize counts their elements.
TreeInv ==
  /\ prog \in Programs /\ size \in [Trees -> Nat]
  /\ Sized(t, pc, size)

\* The lengths are the sizes.
LEMMA SizedIs ==
  ASSUME NEW r, NEW p, NEW len \in [Trees -> Nat], Sized(r, p, len)
  PROVE  \E g, ht, q, e : Sound(r, p, g, ht, q, e) /\ g.len = len
  <1>1. PICK g, ht, q, e : Sound(r, p, g, ht, q, e) /\ \A b \in Trees : g.len[b] = len[b]
    BY DEF Sized
  <1>2. g.len \in [Trees -> Nat]
    BY <1>1 DEF Sound, Shape, Nodal, Ghosts
  <1>3. g.len = len
    BY <1>1, <1>2
  <1>4. QED
    BY <1>1, <1>3

\* The ghost state has all the lengths there are.
LEMMA LenIs ==
  ASSUME NEW u, NEW g, Shape(u, g)
  PROVE  g.len \in [Trees -> Nat]
  BY DEF Shape, Nodal, Ghosts

\* The nodes in use are those of the trees.
LEMMA UsedIs ==
  ASSUME NEW g, Shape(t, g)
  PROVE  Used = {n \in Nodes : g.own[n] # NULL}
  <1>1. \A a \in Trees : Members(t, a) = {n \in Nodes : g.own[n] = a}
    BY InOrderIs
  <1>2. \A n \in Nodes : g.own[n] \in Trees \cup {NULL}
    BY DEF Shape, Nodal, Ghosts
  <1>3. NULL \notin Trees
    BY Disjoint
  <1>4. QED
    BY <1>1, <1>2, <1>3 DEF Used

\* Every clear() leaves a tree like the one at the beginning.
LEMMA ClearSound ==
  ASSUME NEW g, NEW ht, NEW q, NEW e, Sound(t, pc, g, ht, q, e), pc = Idle, NEW a \in Trees
  PROVE  LET u == Cleared(t, a)
             h == Emptied(g, a)
         IN  /\ Shape(u, h) /\ Even(u, h, ht, NULL, e) /\ Calm(u, h, {}, {})
             /\ h.len = [g.len EXCEPT ![a] = 0]
             /\ \A x \in Nodes : h.own[x] = IF g.own[x] = a THEN NULL ELSE g.own[x]
  <1>1. Shape(t, g) /\ Even(t, g, ht, NULL, e) /\ Calm(t, g, {}, {})
    BY IdleSound
  <1>2. Shape(Cleared(t, a), Emptied(g, a))
    BY <1>1, ClearedShape
  <1>3. Even(Cleared(t, a), Emptied(g, a), ht, NULL, e) /\ Calm(Cleared(t, a), Emptied(g, a), {}, {})
    BY <1>1, ClearedEven
  <1>4. g \in Ghosts
    BY <1>1 DEF Shape, Nodal
  <1>5. /\ Emptied(g, a).len = [g.len EXCEPT ![a] = 0]
        /\ \A x \in Nodes : Emptied(g, a).own[x] = IF g.own[x] = a THEN NULL ELSE g.own[x]
    BY <1>4 DEF Emptied, Ghosts
  <1>6. QED
    BY <1>2, <1>3, <1>5

\* Empty trees are sound.
LEMMA TreeInvInit == Init => TreeInv
  <1> SUFFICES ASSUME Init
               PROVE  TreeInv
    OBVIOUS
  <1> DEFINE g == [own |-> [n \in Nodes |-> NULL], pos |-> [n \in Nodes |-> 0],
                   end |-> [d \in Side |-> [n \in Nodes |-> 0]],
                   at |-> [a \in Trees |-> [i \in Int |-> NULL]], len |-> [a \in Trees |-> 0]]
             ht == [n \in Nodes |-> 0]
  <1>1. /\ t = [kid |-> [s \in Side |-> [n \in Links |-> IF n \in Trees THEN n ELSE NULL]],
                parent |-> [n \in Links |-> NULL],
                color |-> [n \in Links |-> IF n \in Trees THEN "red" ELSE "black"]]
        /\ size = [a \in Trees |-> 0] /\ pc = Idle /\ prog \in Programs
    BY DEF Init
  <1>2. g \in Ghosts
    BY DEF Ghosts
  <1>3. t \in Graph
    BY <1>1, Disjoint DEF Graph, Color, Links
  <1>4. NodesAt(t, g)
    <2>1. \A n \in Nodes : n \in Links /\ n \notin Trees
      BY Disjoint
    <2>2. QED
      BY <1>1, <2>1 DEF NodesAt, Loose
  <1>5. TreesAt(t, g)
    <2>1. \A a \in Trees : a \in Links
      BY Disjoint
    <2>2. \A a \in Trees : g.len[a] = 0 /\ t.color[a] = "red" /\ t.parent[a] = NULL
                           /\ t.kid["left"][a] = a /\ t.kid["right"][a] = a
      BY <1>1, <2>1 DEF Side
    <2> HIDE DEF g
    <2>3. \A a \in Trees : 1 .. g.len[a] = {}
      BY <2>2
    <2>4. QED
      BY <2>2, <2>3 DEF TreesAt, AnchorAt
  <1>6. \A n \in Nodes : g.own[n] = NULL
    OBVIOUS
  <1>7. \A a \in Trees : g.len[a] = size[a]
    BY <1>1
  <1>8. ht \in [Nodes -> Nat]
    OBVIOUS
  <1> HIDE DEF g, ht
  <1>9. Even(t, g, ht, NULL, "left") /\ Calm(t, g, {}, {})
    BY <1>6, <1>8 DEF Even, Calm
  <1>10. Shape(t, g)
    BY <1>2, <1>3, <1>4, <1>5 DEF Shape, Nodal
  <1>11. Sized(t, Idle, g.len)
    BY <1>9, <1>10, Resting0
  <1>12. Sized(t, pc, size)
    BY <1>1, <1>7, <1>11, ZenonT(30), SMTT(30) DEF Sized
  <1>13. size \in [Trees -> Nat]
    BY <1>1
  <1>14. QED
    BY <1>1, <1>12, <1>13 DEF TreeInv

\* Whole-tree operations.
LEMMA ClearKeeps ==
  ASSUME TreeInv, NEW a \in Trees, Clear(a)
  PROVE  Sized(t', pc', size') /\ size' \in [Trees -> Nat]
  <1>1. PICK g, ht, q, e : Sound(t, pc, g, ht, q, e) /\ g.len = size
    BY SizedIs DEF TreeInv
  <1>2. pc = Idle /\ t' = Cleared(t, a) /\ size' = [size EXCEPT ![a] = 0] /\ pc' = Idle
    BY DEF Clear
  <1>3. /\ Shape(Cleared(t, a), Emptied(g, a)) /\ Even(Cleared(t, a), Emptied(g, a), ht, NULL, e)
        /\ Calm(Cleared(t, a), Emptied(g, a), {}, {})
        /\ Emptied(g, a).len = [g.len EXCEPT ![a] = 0]
    BY <1>1, <1>2, ClearSound
  <1>4. Sized(Cleared(t, a), Idle, Emptied(g, a).len)
    BY <1>3, Resting0
  <1>5. size' \in [Trees -> Nat]
    BY <1>2 DEF TreeInv
  <1>6. QED
    BY <1>1, <1>2, <1>3, <1>4, <1>5

\* swap keeps the trees sound and their sizes exact.
LEMMA SwapKeeps ==
  ASSUME TreeInv, NEW a \in Trees, NEW b \in Trees, Swap(a, b)
  PROVE  Sized(t', pc', size') /\ size' \in [Trees -> Nat]
  <1>1. PICK g, ht, q, e : Sound(t, pc, g, ht, q, e) /\ g.len = size
    BY SizedIs DEF TreeInv
  <1>2. pc = Idle /\ t' = Adopt(Adopt(t, t, a, b), t, b, a)
        /\ size' = [size EXCEPT ![a] = size[b], ![b] = size[a]] /\ pc' = Idle
    BY DEF Swap
  <1>3. Shape(t, g) /\ Even(t, g, ht, NULL, e) /\ Calm(t, g, {}, {})
    BY <1>1, <1>2, IdleSound
  <1>4. Sized(Adopt(Adopt(t, t, a, b), t, b, a), Idle, [g.len EXCEPT ![a] = g.len[b], ![b] = g.len[a]])
    BY <1>3, SwapSound
  <1>5. size' \in [Trees -> Nat]
    BY <1>2 DEF TreeInv
  <1>6. QED
    BY <1>1, <1>2, <1>4, <1>5

\* Move assignment clears, then swaps, and does so onto itself (red_black_tree.h:1098-1107).
LEMMA MoveAssignKeeps ==
  ASSUME TreeInv, NEW a \in Trees, NEW b \in Trees, MoveAssign(a, b)
  PROVE  Sized(t', pc', size') /\ size' \in [Trees -> Nat]
  <1> DEFINE u == Cleared(t, a)
  <1>1. PICK g, ht, q, e : Sound(t, pc, g, ht, q, e) /\ g.len = size
    BY SizedIs DEF TreeInv
  <1> DEFINE h == Emptied(g, a)
  <1>2. pc = Idle /\ a # b /\ t' = Adopt(Adopt(u, u, a, b), u, b, a)
        /\ size' = [size EXCEPT ![a] = size[b], ![b] = 0] /\ pc' = Idle
    BY DEF MoveAssign
  <1>3. /\ Shape(u, h) /\ Even(u, h, ht, NULL, e) /\ Calm(u, h, {}, {})
        /\ h.len = [g.len EXCEPT ![a] = 0]
    BY <1>1, <1>2, ClearSound
  <1> HIDE DEF u, h
  <1>4. Sized(Adopt(Adopt(u, u, a, b), u, b, a), Idle, [h.len EXCEPT ![a] = h.len[b], ![b] = h.len[a]])
    BY <1>3, SwapSound
  <1>5. size' \in [Trees -> Nat]
    BY <1>2 DEF TreeInv
  <1>6. [h.len EXCEPT ![a] = h.len[b], ![b] = h.len[a]] = size'
    BY <1>1, <1>2, <1>3 DEF TreeInv
  <1>7. QED
    BY <1>2, <1>4, <1>5, <1>6

\* Copy assignment, onto itself too (red_black_tree.h:1073-1094).
LEMMA CopyAssignKeeps ==
  ASSUME TreeInv, NEW a \in Trees, NEW b \in Trees, CopyAssign(a, b)
  PROVE  Sized(t', pc', size') /\ size' \in [Trees -> Nat]
  <1> DEFINE u == Cleared(t, a)
             s == Members(t, b)
             free == prog.nodes \ (Used \ Members(t, a))
  <1>1. PICK g, ht, q, e : Sound(t, pc, g, ht, q, e) /\ g.len = size
    BY SizedIs DEF TreeInv
  <1> DEFINE h == Emptied(g, a)
  <1>2. pc = Idle /\ a # b /\ size' = [size EXCEPT ![a] = size[b]] /\ pc' = Idle
    BY DEF CopyAssign
  <1>3. PICK m \in Copies(s, free) : t' = CopyTree(u, a, b, m)
    BY DEF CopyAssign
  <1>4. /\ Shape(u, h) /\ Even(u, h, ht, NULL, e) /\ Calm(u, h, {}, {})
        /\ h.len = [g.len EXCEPT ![a] = 0]
        /\ \A x \in Nodes : h.own[x] = IF g.own[x] = a THEN NULL ELSE g.own[x]
    BY <1>1, <1>2, ClearSound, ZenonT(30), SMTT(30)
  <1>5. Shape(t, g)
    BY <1>1 DEF Sound
  <1>6. s = {x \in Nodes : h.own[x] = b}
    <2>1. s = {x \in Nodes : g.own[x] = b}
      BY <1>5, InOrderIs
    <2>2. b # NULL
      BY Disjoint
    <2> HIDE DEF s, h
    <2>3. QED
      BY <1>2, <1>4, <2>1, <2>2
  <1>7. free \in SUBSET Nodes /\ \A x \in free : h.own[x] = NULL
    <2>1. prog.nodes \subseteq Nodes
      BY TreeAssumption DEF TreeInv
    <2>2. Members(t, a) = {x \in Nodes : g.own[x] = a} /\ Used = {n \in Nodes : g.own[n] # NULL}
      BY <1>5, InOrderIs, UsedIs
    <2> HIDE DEF h
    <2>3. QED
      BY <1>4, <2>1, <2>2
  <1> DEFINE to == CopyNames(a, b, s, m)
             r == CopyTree(u, a, b, m)
  <1> HIDE DEF u, s, free, h
  <1>8. r \in Graph /\ Copied(r, u, h, a, b, to)
    <2>1. Shape(u, h) /\ a # b /\ m \in Copies(s, free) /\ free \in SUBSET Nodes
      BY <1>2, <1>3, <1>4, <1>7
    <2>2. \A x \in free : h.own[x] = NULL
      BY <1>7
    <2>3. QED
      BY <2>1, <2>2, <1>6, CopyIs
  <1>9. h.len[a] = 0
    BY <1>1, <1>4 DEF TreeInv
  <1> HIDE DEF r, to
  <1>10. Sized(r, Idle, [h.len EXCEPT ![a] = h.len[b]])
    BY <1>2, <1>4, <1>8, <1>9, CopySound
  <1>11. size' \in [Trees -> Nat]
    BY <1>2 DEF TreeInv
  <1>12. [h.len EXCEPT ![a] = h.len[b]] = size'
    BY <1>1, <1>2, <1>4 DEF TreeInv
  <1>13. QED
    BY <1>2, <1>3, <1>10, <1>11, <1>12 DEF r

\* Insertion with and without a hint.
LEMMA InsertKeeps ==
  ASSUME TreeInv, NEW a \in Trees, NEW n \in Nodes, n \notin Used,
         \/ Insert(a, n)
         \/ \E h \in Members(t, a) \cup {a} : InsertHint(a, n, h)
  PROVE  Sized(t', pc', size') /\ size' \in [Trees -> Nat]
  <1>1. PICK g, ht, q, e : Sound(t, pc, g, ht, q, e) /\ g.len = size
    BY SizedIs DEF TreeInv
  <1>2. Shape(t, g)
    BY <1>1 DEF Sound
  <1>3. g.own[n] = NULL
    BY <1>2, UsedIs
  <1>4. size' = [size EXCEPT ![a] = @ + 1]
    BY DEF Insert, InsertHint, InsertAt
  <1>5. Sized(t', pc', [g.len EXCEPT ![a] = @ + 1])
    <2>1. CASE Insert(a, n)
      BY <1>1, <1>3, <2>1, InsertSound
    <2>2. CASE \E h \in Members(t, a) \cup {a} : InsertHint(a, n, h)
      <3>1. PICK h \in Members(t, a) \cup {a} : InsertHint(a, n, h)
        BY <2>2
      <3>2. h = a \/ (h \in Nodes /\ g.own[h] = a)
        <4>1. Members(t, a) = {x \in Nodes : g.own[x] = a}
          BY <1>2, InOrderIs
        <4>2. h \in Members(t, a) \/ h = a
          BY <3>1
        <4>3. CASE h \in Members(t, a)
          BY <4>1, <4>3
        <4>4. QED
          BY <4>2, <4>3
      <3>3. size[a] = g.len[a]
        BY <1>1
      <3>4. QED
        BY <1>1, <1>3, <3>1, <3>2, <3>3, HintSound
    <2>3. QED
      BY <2>1, <2>2
  <1>6. size' \in [Trees -> Nat]
    BY <1>4 DEF TreeInv
  <1>7. QED
    BY <1>1, <1>4, <1>5, <1>6

\* Erasure of any element (red_black_tree.h:1802-1811).
LEMMA EraseKeeps ==
  ASSUME TreeInv, NEW a \in Trees, NEW n \in Members(t, a), Erase(a, n)
  PROVE  Sized(t', pc', size') /\ size' \in [Trees -> Nat]
  <1>1. PICK g, ht, q, e : Sound(t, pc, g, ht, q, e) /\ g.len = size
    BY SizedIs DEF TreeInv
  <1>2. n \in Nodes /\ g.own[n] = a
    BY <1>1, InOrderIs DEF Sound
  <1>3. size' = [size EXCEPT ![a] = @ - 1]
    BY DEF Erase
  <1>4. Sized(t', pc', [g.len EXCEPT ![a] = @ - 1])
    BY <1>1, <1>2, EraseSound
  <1>5. size[a] - 1 \in Nat
    <2>1. Nodal(t, g) /\ g.len[a] \in Nat
      BY <1>1 DEF Sound, Shape, TreeInv
    <2>2. 1 <= g.pos[n] /\ g.pos[n] <= g.len[a] /\ g.pos[n] \in Int
      BY <1>2, <2>1, Disjoint, TreeFacts
    <2>3. QED
      BY <1>1, <2>1, <2>2
  <1>6. size' \in [Trees -> Nat]
    BY <1>3, <1>5 DEF TreeInv
  <1>7. QED
    BY <1>1, <1>3, <1>4, <1>6

\* A turn of either rebalancing loop.
LEMMA TurnKeeps ==
  ASSUME TreeInv, Turn
  PROVE  Sized(t', pc', size') /\ size' \in [Trees -> Nat]
  <1>1. PICK g, ht, q, e : Sound(t, pc, g, ht, q, e) /\ g.len = size
    BY SizedIs, SMTT(30), ZenonT(30) DEF TreeInv
  <1>2. size' = size
    BY ZenonT(30), SMTT(30) DEF Turn, InsertTurn, EraseTurn
  <1>3. Sized(t', pc', size)
    <2>1. CASE InsertTurn
      <3>1. PICK h, hu : Sound(t', pc', h, hu, NULL, e) /\ h.own = g.own /\ h.len = g.len
        BY <1>1, <2>1, InsertTurnSound
      <3>2. QED
        BY <1>1, <3>1 DEF Sized
    <2>2. CASE EraseTurn
      <3>1. Kept(t', pc', g)
        BY <1>1, <2>2, EraseTurnSound
      <3>2. QED
        BY <1>1, <3>1 DEF Sized, Kept
    <2>3. QED
      BY <2>1, <2>2 DEF Turn
  <1>4. QED
    BY <1>2, <1>3 DEF TreeInv

\* No step of any call, on any of the trees, breaks the invariant.
LEMMA TreeInvStep == TreeInv /\ [TreeNext]_vars => TreeInv'
  <1> SUFFICES ASSUME TreeInv, [TreeNext]_vars
               PROVE  TreeInv'
    OBVIOUS
  <1>1. CASE UNCHANGED vars
    BY <1>1 DEF vars, TreeInv
  <1>2. CASE TreeNext
    <2>1. prog.nodes \subseteq Nodes /\ prog.trees \subseteq Trees /\ prog' = prog
      BY <1>2, TreeAssumption DEF TreeInv, TreeNext
    <2>2. Sized(t', pc', size') /\ size' \in [Trees -> Nat]
      <3>1. CASE \E a \in prog.trees, n \in prog.nodes \ Used : Insert(a, n)
        BY <2>1, <3>1, InsertKeeps
      <3>2. CASE HintedInsertion
        <4>1. PICK a \in prog.trees, n \in prog.nodes \ Used : \E h \in Members(t, a) \cup {a} : InsertHint(a, n, h)
          BY <3>2 DEF HintedInsertion
        <4>2. a \in Trees /\ n \in Nodes /\ n \notin Used
          BY <2>1
        <4>3. QED
          BY <4>1, <4>2, InsertKeeps
      <3>3. CASE Turn
        BY <3>3, TurnKeeps
      <3>4. CASE Change
        <4>1. ASSUME NEW a \in prog.trees, Clear(a)
              PROVE  Sized(t', pc', size') /\ size' \in [Trees -> Nat]
          BY <2>1, <4>1, ClearKeeps
        <4>2. ASSUME NEW a \in prog.trees, NEW n \in Members(t, a), Erase(a, n)
              PROVE  Sized(t', pc', size') /\ size' \in [Trees -> Nat]
          BY <2>1, <4>2, EraseKeeps
        <4>3. ASSUME NEW a \in prog.trees, NEW b \in prog.trees, Swap(a, b) \/ MoveAssign(a, b) \/ CopyAssign(a, b)
              PROVE  Sized(t', pc', size') /\ size' \in [Trees -> Nat]
          <5>1. a \in Trees /\ b \in Trees
            BY <2>1
          <5>2. QED
            BY <4>3, <5>1, SwapKeeps, MoveAssignKeeps, CopyAssignKeeps
        <4>4. QED
          BY <3>4, <4>1, <4>2, <4>3 DEF Change
      <3>5. QED
        BY <1>2, <3>1, <3>2, <3>3, <3>4 DEF TreeNext
    <2>3. QED
      BY <2>1, <2>2 DEF TreeInv
  <1>3. QED
    BY <1>1, <1>2

\* At every step of every program, whatever its trees, nodes and keys, between the turns
\* of a rebalancing loop too, the trees are sound.
THEOREM TreesSound == TreeSpec => []TreeInv
  <1>1. QED
    BY TreeInvInit, TreeInvStep, PTL DEF TreeSpec

\* What a place owes in the ghost state is what the property counts.
LEMMA OwedIs ==
  ASSUME NEW g, NEW ht, NEW q, NEW e, Sound(t, pc, g, ht, q, e), NEW n \in Nodes, g.own[n] # NULL
  PROVE  \A s \in Side : (IF Owed(n, s) THEN 1 ELSE 0) = Short(q, e, n, s)
  <1>0. /\ Nodal(t, g) /\ Even(t, g, ht, q, e) /\ Fits(t, g, pc, q, e) /\ n # NULL /\ n \notin Trees
    BY Disjoint DEF Sound, Shape
  <1>1. CASE pc.op # "erase"
    <2>1. q = NULL
      BY <1>0, <1>1 DEF Fits
    <2>2. QED
      BY <1>0, <1>1, <2>1 DEF Owed, Short
  <1>2. CASE pc.op = "erase"
    <2>1. \/ pc.up \in Nodes /\ g.own[pc.up] = pc.tree /\ pc.tree \in Trees /\ q = pc.up /\ e \in Side /\ t.kid[e][q] = pc.child
          \/ pc.up \in Trees /\ q = NULL
      BY <1>0, <1>2 DEF Fits, Idle
    <2>2. CASE q = n
      <3>1. pc.up = n /\ e \in Side /\ t.kid[e][n] = pc.child
        BY <1>0, <2>1, <2>2
      <3>2. t.kid[Other(e)][n] # pc.child
        BY <1>0, <2>2, <3>1, HasSibling
      <3>3. (e = "left" /\ Other(e) = "right") \/ (e = "right" /\ Other(e) = "left")
        BY <3>1 DEF Side, Other
      <3>4. QED
        BY <1>2, <2>2, <3>1, <3>2, <3>3, Sides DEF Owed, Short
    <2>3. CASE q # n
      <3>1. pc.up # n
        BY <1>0, <2>1, <2>3
      <3>2. QED
        BY <2>3, <3>1 DEF Owed, Short
    <2>4. QED
      BY <2>2, <2>3
  <1>3. QED
    BY <1>1, <1>2

\* The black height of a tree is defined.
LEMMA HeightIs ==
  ASSUME NEW g, NEW ht, NEW q, NEW e, Sound(t, pc, g, ht, q, e), NEW a \in Trees
  PROVE  BlackHeight(a) \in Nat
  <1> DEFINE D == Nodes \cup {NULL}
             owed(n, s) == IF Owed(n, s) THEN 1 ELSE 0
             Up(l, r, n) == IF l # r THEN -1000 ELSE l + IF t.color[n] = "black" THEN 1 ELSE 0
             Eq(f) == f = [n \in D |-> IF n = NULL THEN 0
                                       ELSE LET l == f[t.kid["left"][n]] + IF Owed(n, "left") THEN 1 ELSE 0
                                                r == f[t.kid["right"][n]] + IF Owed(n, "right") THEN 1 ELSE 0
                                            IN IF l # r THEN -1000 ELSE l + IF t.color[n] = "black" THEN 1 ELSE 0]
             F == CHOOSE f : Eq(f)
             f0 == [n \in D |-> IF n = NULL THEN 0 ELSE IF g.own[n] = NULL THEN 1 ELSE ht[n]]
  <1>0. /\ Nodal(t, g) /\ Even(t, g, ht, q, e) /\ Fits(t, g, pc, q, e) /\ NULL \notin Nodes
        /\ "left" \in Side /\ "right" \in Side /\ ht \in [Nodes -> Nat] /\ AnchorAt(t, g, a)
    BY Disjoint, Sides DEF Sound, Shape, TreesAt, Even
  <1>1. \A n \in Nodes, s \in Side : t.kid[s][n] \in D
    BY <1>0, RankFalls
  <1>2. /\ f0[NULL] = 0
        /\ \A n \in Nodes : f0[n] = IF g.own[n] = NULL THEN 1 ELSE ht[n]
    BY <1>0
  <1>3. ASSUME NEW n \in Nodes
        PROVE  /\ f0[t.kid["left"][n]] + owed(n, "left") = f0[t.kid["right"][n]] + owed(n, "right")
               /\ f0[n] = f0[t.kid["left"][n]] + owed(n, "left") + IF t.color[n] = "black" THEN 1 ELSE 0
    <2>1. CASE g.own[n] = NULL
      <3>1. Loose(t, n)
        BY <1>0, <2>1 DEF Nodal, NodesAt
      <3>2. t.kid["left"][n] = NULL /\ t.kid["right"][n] = NULL /\ t.color[n] = "black"
        BY <1>0, <3>1 DEF Loose
      <3>3. ~Owed(n, "left") /\ ~Owed(n, "right")
        <4>1. pc.op = "erase" => pc.up # n
          BY <1>0, <2>1, Disjoint DEF Fits, Idle
        <4>2. QED
          BY <4>1 DEF Owed
      <3> HIDE DEF f0
      <3>4. QED
        BY <1>2, <2>1, <3>2, <3>3
    <2>2. CASE g.own[n] # NULL
      <3>1. owed(n, "left") = Short(q, e, n, "left") /\ owed(n, "right") = Short(q, e, n, "right")
        BY <1>0, <2>2, OwedIs
      <3>2. ASSUME NEW s \in Side
            PROVE  f0[t.kid[s][n]] = Level(ht, t.kid[s][n])
        <4>1. KidAt(t, g, n, s)
          BY <1>0, <2>2, NodeFacts
        <4>2. t.kid[s][n] # NULL => t.kid[s][n] \in Nodes /\ g.own[t.kid[s][n]] # NULL
          BY <2>2, <4>1 DEF KidAt
        <4> HIDE DEF f0
        <4>3. QED
          BY <1>2, <4>2 DEF Level
      <3>3. EvenAt(t, ht, q, e, n, "left") /\ EvenAt(t, ht, q, e, n, "right")
        BY <1>0, <2>2 DEF Even
      <3>4. f0[n] = ht[n] /\ ht[n] \in Nat
        BY <1>0, <1>2, <2>2
      <3>5. f0[t.kid["left"][n]] = Level(ht, t.kid["left"][n]) /\ f0[t.kid["right"][n]] = Level(ht, t.kid["right"][n])
        BY <1>0, <3>2, SMTT(30), ZenonT(30)
      <3>6. Level(ht, t.kid["left"][n]) \in Nat /\ Level(ht, t.kid["right"][n]) \in Nat
        BY <1>0, <1>1 DEF Level
      <3> HIDE DEF f0, owed
      <3>7. QED
        BY <3>1, <3>3, <3>4, <3>5, <3>6 DEF EvenAt, Short, Black
    <2>3. QED
      BY <2>1, <2>2
  <1>4. Eq(f0)
    <2>1. ASSUME NEW n \in D
          PROVE  f0[n] = IF n = NULL THEN 0
                         ELSE LET l == f0[t.kid["left"][n]] + IF Owed(n, "left") THEN 1 ELSE 0
                                  r == f0[t.kid["right"][n]] + IF Owed(n, "right") THEN 1 ELSE 0
                              IN IF l # r THEN -1000 ELSE l + IF t.color[n] = "black" THEN 1 ELSE 0
      <3> HIDE DEF f0
      <3>1. QED
        BY <1>2, <1>3
    <2>2. QED
      BY <2>1, Zenon, ZenonT(30), SMTT(30)
  <1>5. Eq(F)
    BY <1>4, ZenonT(30), SMTT(30)
  <1> HIDE DEF F
  <1>6. F[NULL] = 0 /\ \A n \in Nodes : F[n] = Up(F[t.kid["left"][n]] + owed(n, "left"), F[t.kid["right"][n]] + owed(n, "right"), n)
    <2>1. \A n \in D : F[n] = IF n = NULL THEN 0
                              ELSE LET l == F[t.kid["left"][n]] + IF Owed(n, "left") THEN 1 ELSE 0
                                       r == F[t.kid["right"][n]] + IF Owed(n, "right") THEN 1 ELSE 0
                                   IN IF l # r THEN -1000 ELSE l + IF t.color[n] = "black" THEN 1 ELSE 0
      BY <1>5, ZenonT(30), SMTT(30)
    <2>2. F[NULL] = 0
      BY <2>1, ZenonT(30), SMTT(30)
    <2>3. ASSUME NEW n \in Nodes
          PROVE  F[n] = Up(F[t.kid["left"][n]] + owed(n, "left"), F[t.kid["right"][n]] + owed(n, "right"), n)
      <3>1. n \in D /\ n # NULL
        BY <1>0
      <3>2. QED
        BY <2>1, <3>1, ZenonT(30), SMTT(30)
    <2>4. QED
      BY <2>2, <2>3, ZenonT(30), SMTT(30)
  <1> HIDE DEF f0
  <1> DEFINE S == {n \in Nodes : F[n] = f0[n]}
  <1>7. ASSUME NEW n \in Nodes, \A x \in Nodes : Rank(g)[x] < Rank(g)[n] => x \in S
        PROVE  n \in S
    <2>1. ASSUME NEW s \in Side
          PROVE  F[t.kid[s][n]] = f0[t.kid[s][n]]
      <3>1. CASE t.kid[s][n] = NULL
        BY <1>2, <1>6, <3>1
      <3>2. CASE t.kid[s][n] # NULL
        BY <1>0, <1>7, <3>2, RankFalls
      <3>3. QED
        BY <3>1, <3>2
    <2>2. F[t.kid["left"][n]] = f0[t.kid["left"][n]] /\ F[t.kid["right"][n]] = f0[t.kid["right"][n]]
      BY <1>0, <2>1
    <2>3. F[n] = f0[n]
      BY <1>3, <1>6, <2>2
    <2>4. QED
      BY <2>3
  <1>8. Rank(g) \in [Nodes -> Nat]
    BY <1>0, RankFalls
  <1> HIDE DEF S
  <1>9. Nodes \subseteq S
    BY <1>7, <1>8, Upward
  <1>10. BlackHeight(a) = F[t.parent[a]]
    BY DEF BlackHeight, Root, F
  <1>11. t.parent[a] = NULL \/ (t.parent[a] \in Nodes /\ g.own[t.parent[a]] = a)
    BY <1>0 DEF AnchorAt
  <1>12. CASE t.parent[a] = NULL
    BY <1>6, <1>10, <1>12
  <1>13. CASE t.parent[a] \in Nodes /\ g.own[t.parent[a]] = a
    <2>1. F[t.parent[a]] = f0[t.parent[a]]
      BY <1>9, <1>13 DEF S
    <2>2. f0[t.parent[a]] = ht[t.parent[a]]
      BY <1>2, <1>13, Disjoint
    <2>3. QED
      BY <1>0, <1>10, <1>13, <2>1, <2>2
  <1>14. QED
    BY <1>11, <1>12, <1>13

\* In sound trees no red node is below a red one, and all ways down have the same number
\* of black nodes, but where the loop that runs, if any, stands.
LEMMA TreesBalanced == TreeInv => Balanced
  <1> SUFFICES ASSUME TreeInv
               PROVE  Balanced
    OBVIOUS
  <1>1. PICK g, ht, q, e : Sound(t, pc, g, ht, q, e) /\ g.len = size
    BY SizedIs DEF TreeInv
  <1>2. \A a \in Trees : BlackHeight(a) >= 0
    BY <1>1, HeightIs
  <1>3. Used = {n \in Nodes : g.own[n] # NULL}
    BY <1>1, UsedIs DEF Sound
  <1>4. ASSUME NEW n \in Used, Red(t, n), Red(t, t.parent[n])
        PROVE  \/ pc.op = "insert" /\ pc.node = n
               \/ pc.op = "erase" /\ pc.child \in {n, t.parent[n]}
    <2>1. n \in Nodes /\ g.own[n] # NULL /\ t.color[n] = "red" /\ t.color[t.parent[n]] = "red"
      BY <1>3, <1>4 DEF Red
    <2>2. n \in RedBelow(pc) \/ t.parent[n] \in RedAbove(pc)
      BY <1>1, <2>1 DEF Sound, Calm
    <2>3. QED
      BY <2>2 DEF RedBelow, RedAbove
  <1>5. ASSUME pc = Idle, NEW a \in Trees
        PROVE  ~Red(t, Root(t, a))
    <2> DEFINE r == Root(t, a)
    <2>1. CASE r = NULL
      BY <2>1 DEF Red
    <2>2. CASE r # NULL
      <3>1. AnchorAt(t, g, a) /\ t.color[a] = "red" /\ Calm(t, g, {}, {})
        BY <1>1, <1>5, IdleSound DEF Sound, Shape, TreesAt
      <3>2. r \in Nodes /\ g.own[r] = a /\ t.parent[r] = a
        BY <2>2, <3>1 DEF AnchorAt, Root
      <3>3. QED
        BY <3>1, <3>2, Disjoint DEF Calm, Red
    <2>3. QED
      BY <2>1, <2>2
  <1>6. QED
    BY <1>2, <1>4, <1>5 DEF Balanced

\* Sound trees have links to nodes and anchors only.
LEMMA TreesTyped == TreeInv => TypeOK
  <1> SUFFICES ASSUME TreeInv
               PROVE  TypeOK
    OBVIOUS
  <1>1. PICK g, ht, q, e : Sound(t, pc, g, ht, q, e) /\ g.len = size
    BY SizedIs DEF TreeInv
  <1>2. t \in Graph
    BY <1>1 DEF Sound, Shape, Nodal
  <1>3. \/ pc = Idle
        \/ pc \in [op : {"insert"}, tree : Trees, node : Nodes]
        \/ pc \in [op : {"erase"}, tree : Trees, child : Nodes \cup {NULL}, up : Links]
    BY <1>1 DEF Sound, Fits
  <1>4. QED
    BY <1>2, <1>3 DEF TypeOK, TreeInv, Graph

\* Sound trees are linked both ways, ordered alike by kids and by iteration, and anchored
\* at their ends, with as many elements as mnSize says.
LEMMA TreesLinked == TreeInv => LinksExact
  <1> SUFFICES ASSUME TreeInv
               PROVE  LinksExact
    OBVIOUS
  <1>1. PICK g, ht, q, e : Sound(t, pc, g, ht, q, e) /\ g.len = size
    BY SizedIs DEF TreeInv
  <1>2. Shape(t, g) /\ Nodal(t, g)
    BY <1>1 DEF Sound, Shape
  <1>3. ASSUME NEW a \in Trees
        PROVE  LET o == InOrder(t, a) IN
               /\ size[a] = Len(o)
               /\ t.color[a] = "red"
               /\ IF o = <<>> THEN t.kid["left"][a] = a /\ t.kid["right"][a] = a
                  ELSE /\ t.kid["left"][a] = o[1] /\ t.kid["right"][a] = o[Len(o)]
                       /\ t.parent[Root(t, a)] = a
               /\ \A b \in Trees \ {a} : Members(t, a) \cap Members(t, b) = {}
    <2> DEFINE o == InOrder(t, a)
    <2>1. o \in Seq(Nodes) /\ Len(o) = g.len[a] /\ \A i \in 1 .. g.len[a] : o[i] = g.at[a][i]
      BY <1>2, InOrderIs
    <2>2. t.color[a] = "red" /\ AnchorAt(t, g, a) /\ g.len[a] \in Nat
      BY <1>2, TreeFacts DEF Shape, TreesAt
    <2>3. \A b \in Trees \ {a} : Members(t, a) \cap Members(t, b) = {}
      <3>1. \A b \in Trees : Members(t, b) = {n \in Nodes : g.own[n] = b}
        BY <1>2, InOrderIs
      <3>2. QED
        BY <3>1
    <2> HIDE DEF o
    <2>4. CASE o = <<>>
      <3>1. g.len[a] = 0
        BY <2>1, <2>4
      <3>2. t.kid["left"][a] = a /\ t.kid["right"][a] = a
        BY <2>2, <3>1 DEF AnchorAt
      <3>3. QED
        BY <1>1, <2>1, <2>2, <2>3, <2>4, <3>2 DEF o
    <2>5. CASE o # <<>>
      <3>1. g.len[a] # 0
        BY <2>1, <2>5
      <3>2. 1 \in 1 .. g.len[a] /\ g.len[a] \in 1 .. g.len[a]
        BY <2>2, <3>1
      <3>3. t.kid["left"][a] = o[1] /\ t.kid["right"][a] = o[Len(o)] /\ t.parent[Root(t, a)] = a
        BY <2>1, <2>2, <3>1, <3>2 DEF AnchorAt, Root
      <3>4. QED
        BY <1>1, <2>1, <2>2, <2>3, <2>5, <3>3 DEF o
    <2>6. QED
      BY <2>4, <2>5
  <1>4. \A n \in Used, s \in Side : t.kid[s][n] # NULL => t.parent[t.kid[s][n]] = n
    <2>1. Used = {n \in Nodes : g.own[n] # NULL}
      BY <1>2, UsedIs
    <2>2. \A n \in Nodes, s \in Side : t.kid[s][n] # NULL => t.parent[t.kid[s][n]] = n
      BY <1>2, KidLinks
    <2>3. QED
      BY <2>1, <2>2
  <1>5. QED
    BY <1>3, <1>4, TreesTyped DEF LinksExact

\* For any trees, nodes, keys and programs, links lead to nodes and anchors, sizes do not
\* wrap, and a rebalancing loop stands on a node of a tree (red_black_tree.h:96-105, 468-469).
THEOREM TreesTypeCorrect == TreeSpec => []TypeOK
  BY TreesSound, TreesTyped, PTL

\* For any of them, what a tree holds, its links up and down, its ends, the order of
\* iteration and mnSize agree at every step (red_black_tree.cpp:42-181, 190-490).
THEOREM TreesLinksExact == TreeSpec => []LinksExact
  BY TreesSound, TreesLinked, PTL

\* For any of them, at every step all ways down a tree have the same number of black
\* nodes and no red node is below a red one, but for the place at which a rebalancing
\* loop stands: when it ends, nothing is left (red_black_tree.cpp:224-283, 398-488).
THEOREM TreesAreBalanced == TreeSpec => []Balanced
  BY TreesSound, TreesBalanced, PTL

====
