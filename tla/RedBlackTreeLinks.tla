------------------------- MODULE RedBlackTreeLinks -------------------------
(* Proofs about the red-black tree, for any number of trees, nodes and keys:  *)
(* what its links mean, and that insertion, rotation and erasure relink it    *)
(* and change nothing else about its elements.                                *)
(*                                                                            *)
(* A loop over links has no measure in the code, so the proofs carry one:     *)
(* every node has a position in its tree and its subtree an interval of them, *)
(* which is smaller than that of its parent.  What the code calls the order   *)
(* of the elements is that of the positions.                                  *)
EXTENDS RedBlackTree, WellFoundedInduction, NaturalsInduction, TLAPS

-----------------------------------------------------------------------------
(* Searches that step from node to node. *)
\* A set of numbers that is not empty has a least one.
LEMMA LeastOf ==
  ASSUME NEW S, S \subseteq Nat, S # {}
  PROVE  \E m \in S : \A y \in S : m <= y
  <1> DEFINE R == {x \in Nat \X Nat : x[1] < x[2]}
  <1>1. IsWellFoundedOn(R, Nat)
    BY NatLessThanWellFounded DEF OpToRel
  <1>2. PICK m \in S : \A y \in S : <<y, m>> \notin R
    <2> HIDE DEF R
    <2>1. QED
      BY <1>1, WFMin
  <1>3. ASSUME NEW y \in S
        PROVE  m <= y
    <2>1. y \in Nat /\ m \in Nat /\ <<y, m>> \notin R
      BY <1>2
    <2>2. <<y, m>> \in R <=> y < m
      BY <2>1
    <2>3. QED
      BY <2>1, <2>2
  <1>4. QED
    BY <1>3

\* What holds of a node when it holds of all below it holds of all nodes.
LEMMA Upward ==
  ASSUME NEW D, NEW rank \in [D -> Nat], NEW S,
         \A m \in D : (\A k \in D : rank[k] < rank[m] => k \in S) => m \in S
  PROVE  D \subseteq S
  <1> SUFFICES ASSUME NEW x \in D, x \notin S
               PROVE  FALSE
    OBVIOUS
  <1> DEFINE R == {rank[m] : m \in D \ S}
  <1>1. R \subseteq Nat /\ R # {}
    OBVIOUS
  <1>2. PICK r \in R : \A y \in R : r <= y
    BY <1>1, LeastOf
  <1>3. PICK m \in D \ S : r = rank[m]
    OBVIOUS
  <1>4. ASSUME NEW k \in D, rank[k] < rank[m], k \notin S
        PROVE  FALSE
    <2>1. rank[k] \in R
      BY <1>4
    <2>2. rank[m] <= rank[k]
      BY <1>2, <1>3, <2>1
    <2>3. QED
      BY <1>4, <2>2
  <1>5. QED
    BY <1>3, <1>4

\* A search that steps from m to next[m] until that is NULL, when every step
\* goes to a lower rank.
Follows(f, D, next) == f = [m \in D |-> IF next[m] = NULL THEN m ELSE f[next[m]]]

\* next leads to lower and lower ranks.
Downward(D, next, rank) ==
  /\ rank \in [D -> Nat]
  /\ \A m \in D : next[m] # NULL => next[m] \in D /\ rank[next[m]] < rank[m]

\* It gets somewhere.
LEMMA Arrives ==
  ASSUME NEW D, NEW next, NEW rank, Downward(D, next, rank)
  PROVE  \E f : Follows(f, D, next)
  <1> DEFINE Eq(f, m) == f[m] = IF next[m] = NULL THEN m ELSE f[next[m]]
             Upto(N) == {m \in D : rank[m] < N}
             Good(N, f) == f \in [D -> D] /\ \A m \in Upto(N) : Eq(f, m)
             Bad == {N \in Nat : ~ \E f : Good(N, f)}
  <1>1. \A m \in D : rank[m] \in Nat
    BY DEF Downward
  <1>2. \A m \in D : next[m] # NULL => next[m] \in D /\ rank[next[m]] < rank[m]
    BY DEF Downward
  <1>3. Bad = {}
    <2> SUFFICES ASSUME Bad # {}
                 PROVE  FALSE
      OBVIOUS
    <2>1. Bad \subseteq Nat
      OBVIOUS
    <2> HIDE DEF Bad
    <2>2. PICK N \in Bad : \A y \in Bad : N <= y
      BY <2>1, LeastOf
    <2> USE DEF Bad
    <2>3. N \in Nat
      OBVIOUS
    <2>4. N # 0
      <3>1. Upto(0) = {}
        BY <1>1
      <3>2. Good(0, [m \in D |-> m])
        BY <3>1
      <3>3. QED
        BY <3>2
    <2>5. N - 1 \in Nat /\ N - 1 \notin Bad
      <3> HIDE DEF Bad
      <3>1. N - 1 \in Bad => N <= N - 1
        BY <2>2
      <3>2. QED
        BY <2>3, <2>4, <3>1
    <2>6. PICK f : Good(N - 1, f)
      BY <2>5
    <2> DEFINE g == [m \in D |-> IF rank[m] = N - 1 THEN IF next[m] = NULL THEN m ELSE f[next[m]]
                                 ELSE f[m]]
    <2>7. g \in [D -> D]
      BY <1>2, <2>6
    <2>8. ASSUME NEW m \in Upto(N)
          PROVE  Eq(g, m)
      <3>1. CASE rank[m] = N - 1
        <4>1. next[m] # NULL => g[next[m]] = f[next[m]]
          BY <1>1, <1>2, <3>1, <2>3
        <4>2. QED
          BY <3>1, <4>1
      <3>2. CASE rank[m] # N - 1
        <4>1. m \in Upto(N - 1)
          BY <1>1, <3>2, <2>3
        <4>2. next[m] # NULL => next[m] \in D /\ rank[next[m]] # N - 1
          BY <1>1, <1>2, <4>1, <2>3
        <4>3. g[m] = f[m] /\ (next[m] # NULL => g[next[m]] = f[next[m]])
          BY <3>2, <4>2
        <4>4. Eq(f, m)
          BY <2>6, <4>1
        <4>5. QED
          BY <4>3, <4>4
      <3>3. QED
        BY <3>1, <3>2
    <2>9. Good(N, g)
      BY <2>7, <2>8
    <2>10. QED
      BY <2>9
  <1> DEFINE F(N) == CHOOSE f : Good(N, f)
             h == [m \in D |-> F(rank[m] + 1)[m]]
  <1>4. ASSUME NEW N \in Nat
        PROVE  Good(N, F(N))
    <2>1. \E f : Good(N, f)
      BY <1>3
    <2>2. QED
      BY <2>1
  <1> HIDE DEF F
  <1>5. ASSUME NEW N \in Nat, NEW M \in Nat
        PROVE  \A m \in D : m \in Upto(N) /\ m \in Upto(M) => F(N)[m] = F(M)[m]
    <2> DEFINE S == {m \in D : m \in Upto(N) /\ m \in Upto(M) => F(N)[m] = F(M)[m]}
    <2>1. ASSUME NEW m \in D, \A k \in D : rank[k] < rank[m] => k \in S
          PROVE  m \in S
      <3> SUFFICES ASSUME m \in Upto(N), m \in Upto(M)
                   PROVE  F(N)[m] = F(M)[m]
        OBVIOUS
      <3>1. Eq(F(N), m) /\ Eq(F(M), m)
        BY <1>4
      <3>2. CASE next[m] = NULL
        BY <3>1, <3>2
      <3>3. CASE next[m] # NULL
        <4>1. next[m] \in D /\ rank[next[m]] < rank[m] /\ rank[next[m]] < N /\ rank[next[m]] < M
          BY <1>1, <1>2, <3>3
        <4>2. next[m] \in S /\ next[m] \in Upto(N) /\ next[m] \in Upto(M)
          BY <2>1, <4>1
        <4>3. F(N)[next[m]] = F(M)[next[m]]
          BY <4>2
        <4>4. QED
          BY <3>1, <3>3, <4>3
      <3>4. QED
        BY <3>2, <3>3
    <2> HIDE DEF S
    <2>2. rank \in [D -> Nat]
      BY DEF Downward
    <2>3. D \subseteq S
      BY <2>1, <2>2, Upward
    <2> USE DEF S
    <2>4. QED
      BY <2>3
  <1>6. ASSUME NEW m \in D
        PROVE  Eq(h, m)
    <2>1. rank[m] + 1 \in Nat /\ m \in Upto(rank[m] + 1)
      BY <1>1
    <2>2. Eq(F(rank[m] + 1), m)
      BY <1>4, <2>1
    <2>3. CASE next[m] = NULL
      BY <2>2, <2>3
    <2>4. CASE next[m] # NULL
      <3> DEFINE k == next[m]
      <3>1. k \in D /\ rank[k] + 1 \in Nat /\ k \in Upto(rank[k] + 1) /\ k \in Upto(rank[m] + 1)
        BY <1>1, <1>2, <2>4
      <3>2. F(rank[k] + 1)[k] = F(rank[m] + 1)[k]
        BY <1>5, <2>1, <3>1
      <3>3. QED
        BY <2>2, <2>4, <3>1, <3>2
    <2>5. QED
      BY <2>3, <2>4
  <1>7. Follows(h, D, next)
    BY <1>6 DEF Follows
  <1> QED
    BY <1>7

-----------------------------------------------------------------------------
\* Where the kid on a side is from its parent, in the order of the elements.
toward(s) == IF s = "left" THEN -1 ELSE 1

\* What a tree means.  Node n is the element at position pos[n] of tree own[n],
\* and the subtree below it has those from end["left"][n] to end["right"][n]; at
\* position i of tree a is at[a][i], and the tree has len[a] elements.
Ghosts == [own : [Nodes -> Trees \cup {NULL}],
           pos : [Nodes -> Int],
           end : [Side -> [Nodes -> Int]],
           at : [Trees -> [Int -> Nodes \cup {NULL}]],
           len : [Trees -> Nat]]

\* The links and colours of all nodes and anchors.
Graph == [kid : [Side -> [Links -> Links \cup {NULL}]],
          parent : [Links -> Links \cup {NULL}],
          color : [Links -> Color]]

\* A node that is in no tree.
Loose(u, n) == u.parent[n] = NULL /\ u.color[n] = "black" /\ \A s \in Side : u.kid[s][n] = NULL

\* The subtree below n on side s fills the positions from n to its end.
KidAt(u, g, n, s) ==
  LET k == u.kid[s][n] IN
  IF k = NULL THEN g.end[s][n] = g.pos[n]
  ELSE /\ k \in Nodes /\ u.parent[k] = n /\ g.own[k] = g.own[n]
       /\ g.end[s][k] = g.end[s][n] /\ g.end[Other(s)][k] = g.pos[n] + toward(s)

\* A node is the root of its tree or a kid of its parent.
ParentAt(u, g, n) ==
  \/ u.parent[n] = g.own[n] /\ u.parent[g.own[n]] = n
  \/ u.parent[n] \in Nodes /\ \E s \in Side : u.kid[s][u.parent[n]] = n

\* A node is where its tree has it, between its kids' subtrees.
Placed(u, g, n) ==
  /\ 1 <= g.pos[n] /\ g.pos[n] <= g.len[g.own[n]] /\ g.at[g.own[n]][g.pos[n]] = n
  /\ g.end["left"][n] <= g.pos[n] /\ g.pos[n] <= g.end["right"][n]
  /\ KidAt(u, g, n, "left") /\ KidAt(u, g, n, "right")
  /\ ParentAt(u, g, n)

\* Every node is loose or placed.
NodesAt(u, g) == \A n \in Nodes : IF g.own[n] = NULL THEN Loose(u, n) ELSE Placed(u, g, n)

\* An anchor names the root and the two ends of its tree.
AnchorAt(u, g, a) ==
  LET r == u.parent[a] IN
  IF g.len[a] = 0 THEN r = NULL /\ u.kid["left"][a] = a /\ u.kid["right"][a] = a
  ELSE /\ r \in Nodes /\ g.own[r] = a /\ u.parent[r] = a
       /\ g.end["left"][r] = 1 /\ g.end["right"][r] = g.len[a]
       /\ u.kid["left"][a] = g.at[a][1] /\ u.kid["right"][a] = g.at[a][g.len[a]]

\* Every tree has its elements at their positions, and its anchor names its ends.
TreesAt(u, g) ==
  \A a \in Trees :
    /\ u.color[a] = "red"
    /\ \A i \in 1 .. g.len[a] : g.at[a][i] \in Nodes /\ g.own[g.at[a][i]] = a /\ g.pos[g.at[a][i]] = i
    /\ AnchorAt(u, g, a)

\* What is known of the nodes, without the anchors.
Nodal(u, g) == u \in Graph /\ g \in Ghosts /\ NodesAt(u, g)

\* The links mean what g says: each tree has g.len elements, in the order g.at.
Shape(u, g) == Nodal(u, g) /\ TreesAt(u, g)

\* The two sides mirror each other, which the code spells out twice
\* (red_black_tree.cpp:125-181).
LEMMA Sides ==
  /\ Side = {"left", "right"}
  /\ \A s \in Side : /\ Other(s) \in Side /\ Other(s) # s /\ Other(Other(s)) = s
                     /\ toward(s) \in Int /\ toward(Other(s)) = - toward(s)
                     /\ ((s = "left" /\ toward(s) = -1) \/ (s = "right" /\ toward(s) = 1))
                     /\ Side = {s, Other(s)}
  <1>1. Other("left") = "right" /\ Other("right") = "left" /\ toward("left") = -1 /\ toward("right") = 1
    BY DEF Other, toward
  <1>2. Side = {"left", "right"}
    BY DEF Side
  <1>3. ASSUME NEW s \in Side
        PROVE  /\ Other(s) \in Side /\ Other(s) # s /\ Other(Other(s)) = s
               /\ toward(s) \in Int /\ toward(Other(s)) = - toward(s)
               /\ ((s = "left" /\ toward(s) = -1) \/ (s = "right" /\ toward(s) = 1))
               /\ Side = {s, Other(s)}
    <2>1. CASE s = "left"
      BY <1>1, <1>2, <2>1
    <2>2. CASE s = "right"
      BY <1>1, <1>2, <2>2
    <2>3. QED
      BY <1>2, <2>1, <2>2
  <1>4. QED
    BY <1>2, <1>3

\* Nodes and anchors are different things (red_black_tree.h:96-104, 468).
LEMMA Disjoint == Nodes \cap Trees = {} /\ NULL \notin Nodes /\ NULL \notin Trees /\ Links = Nodes \cup Trees
  BY TreeAssumption, ZenonT(30), SMTT(30) DEF Links

\* A node in a tree, seen from one of its sides.
LEMMA NodeFacts ==
  ASSUME NEW u, NEW g, Nodal(u, g), NEW n \in Nodes, g.own[n] # NULL, NEW s \in Side
  PROVE  /\ g.own[n] \in Trees /\ g.pos[n] \in Int /\ g.end[s][n] \in Int
         /\ u.kid[s][n] \in Nodes \cup {NULL} /\ u.parent[n] \in Links
         /\ KidAt(u, g, n, s) /\ ParentAt(u, g, n)
  <1>1. g.own[n] \in Trees /\ g.pos[n] \in Int /\ g.end[s][n] \in Int
    BY DEF Nodal, Ghosts
  <1>2. KidAt(u, g, n, "left") /\ KidAt(u, g, n, "right") /\ ParentAt(u, g, n)
    BY DEF Nodal, NodesAt, Placed
  <1>3. KidAt(u, g, n, s)
    BY <1>2 DEF Side
  <1>4. u.kid[s][n] \in Nodes \cup {NULL}
    BY <1>3 DEF KidAt
  <1>5. u.parent[n] \in Links
    BY <1>1, <1>2, Disjoint DEF ParentAt
  <1>6. QED
    BY <1>1, <1>2, <1>3, <1>4, <1>5

\* The kids of a node are below it, in its tree, and not the same.
LEMMA KidFacts ==
  ASSUME NEW u, NEW g, Nodal(u, g), NEW n \in Nodes, NEW s \in Side,
         NEW k, u.kid[s][n] = k, k # NULL
  PROVE  /\ k \in Nodes /\ g.own[n] # NULL /\ g.own[k] = g.own[n] /\ u.parent[k] = n
         /\ k # n /\ u.kid[Other(s)][n] # k
         /\ g.end[s][k] = g.end[s][n] /\ g.end[Other(s)][k] = g.pos[n] + toward(s)
         /\ g.end["left"][n] <= g.end["left"][k] /\ g.end["left"][k] <= g.pos[k]
         /\ g.pos[k] <= g.end["right"][k] /\ g.end["right"][k] <= g.end["right"][n]
         /\ g.end["right"][k] - g.end["left"][k] < g.end["right"][n] - g.end["left"][n]
  <1>1. g.own[n] # NULL
    BY DEF Nodal, NodesAt, Loose
  <1>2. KidAt(u, g, n, s)
    BY <1>1, NodeFacts
  <1>3. k \in Nodes /\ g.own[k] = g.own[n] /\ u.parent[k] = n
        /\ g.end[s][k] = g.end[s][n] /\ g.end[Other(s)][k] = g.pos[n] + toward(s)
    BY <1>2 DEF KidAt
  <1>4. /\ g.end["left"][n] <= g.pos[n] /\ g.pos[n] <= g.end["right"][n]
        /\ g.end["left"][k] <= g.pos[k] /\ g.pos[k] <= g.end["right"][k]
    BY <1>1, <1>3 DEF Nodal, NodesAt, Placed
  <1>5. /\ g.pos[n] \in Int /\ g.end["left"][n] \in Int /\ g.end["right"][n] \in Int
        /\ g.pos[k] \in Int /\ g.end["left"][k] \in Int /\ g.end["right"][k] \in Int
    BY <1>1, <1>3, NodeFacts, Sides
  <1>6. (s = "left" /\ Other(s) = "right" /\ toward(s) = -1) \/ (s = "right" /\ Other(s) = "left" /\ toward(s) = 1)
    BY Sides
  <1>7. k # n
    BY <1>3, <1>4, <1>5, <1>6
  <1>8. u.kid[Other(s)][n] # k
    <2>1. Other(s) \in Side /\ KidAt(u, g, n, Other(s)) /\ Other(Other(s)) = s
      BY <1>1, NodeFacts, Sides
    <2>2. u.kid[Other(s)][n] = k => g.end[Other(s)][k] = g.end[Other(s)][n]
      BY <2>1 DEF KidAt
    <2>3. QED
      BY <1>3, <1>4, <1>5, <1>6, <2>2
  <1>9. QED
    BY <1>1, <1>3, <1>4, <1>5, <1>6, <1>7, <1>8

\* No two nodes of a tree are at one position.
LEMMA OneAtEach ==
  ASSUME NEW u, NEW g, Nodal(u, g), NEW n \in Nodes, NEW m \in Nodes,
         g.own[n] # NULL, g.own[m] = g.own[n], g.pos[m] = g.pos[n]
  PROVE  m = n
  BY DEF Nodal, NodesAt, Placed

\* A node below another is that one's kid on one side, and above it is its tree.
LEMMA ParentFacts ==
  ASSUME NEW u, NEW g, Nodal(u, g), NEW n \in Nodes, g.own[n] # NULL
  PROVE  /\ u.parent[n] \notin Nodes => u.parent[n] = g.own[n] /\ u.parent[g.own[n]] = n
         /\ u.parent[n] \in Nodes =>
              /\ g.own[u.parent[n]] = g.own[n] /\ u.parent[n] # n
              /\ SideOf(u, n) \in Side
              /\ u.kid[SideOf(u, n)][u.parent[n]] = n
              /\ u.kid[Other(SideOf(u, n))][u.parent[n]] # n
  <1>1. ParentAt(u, g, n)
    BY NodeFacts, Sides
  <1>2. ASSUME u.parent[n] \in Nodes
        PROVE  \E s \in Side : u.kid[s][u.parent[n]] = n
    <2>1. g.own[n] \notin Nodes
      BY Disjoint, NodeFacts, Sides
    <2>2. QED
      BY <1>1, <1>2, <2>1 DEF ParentAt
  <1>3. ASSUME u.parent[n] \notin Nodes
        PROVE  u.parent[n] = g.own[n] /\ u.parent[g.own[n]] = n
    BY <1>1, <1>3 DEF ParentAt
  <1>4. ASSUME u.parent[n] \in Nodes
        PROVE  /\ g.own[u.parent[n]] = g.own[n] /\ u.parent[n] # n
               /\ SideOf(u, n) \in Side
               /\ u.kid[SideOf(u, n)][u.parent[n]] = n
               /\ u.kid[Other(SideOf(u, n))][u.parent[n]] # n
    <2>1. PICK s \in Side : u.kid[s][u.parent[n]] = n
      BY <1>2, <1>4
    <2>2. g.own[u.parent[n]] = g.own[n] /\ u.parent[n] # n /\ u.kid[Other(s)][u.parent[n]] # n
      BY <2>1, <1>4, KidFacts, Disjoint
    <2>3. SideOf(u, n) = s
      <3>1. CASE s = "left"
        BY <2>1, <3>1 DEF SideOf
      <3>2. CASE s = "right"
        BY <2>1, <2>2, <3>2 DEF SideOf, Other
      <3>3. QED
        BY <3>1, <3>2 DEF Side
    <2>4. QED
      BY <2>1, <2>2, <2>3
  <1>5. QED
    BY <1>3, <1>4

\* What is known of all nodes of a tree.
LEMMA TreeFacts ==
  ASSUME NEW u, NEW g, Nodal(u, g)
  PROVE  /\ \A x \in Nodes : /\ g.pos[x] \in Int /\ g.end["left"][x] \in Int /\ g.end["right"][x] \in Int
                             /\ g.own[x] \in Trees \cup {NULL}
         /\ \A b \in Trees : g.len[b] \in Nat
         /\ \A b \in Trees, i \in Int : g.at[b][i] \in Nodes \cup {NULL}
         /\ \A x \in Nodes : g.own[x] # NULL =>
              /\ 1 <= g.pos[x] /\ g.pos[x] <= g.len[g.own[x]] /\ g.at[g.own[x]][g.pos[x]] = x
              /\ g.end["left"][x] <= g.pos[x] /\ g.pos[x] <= g.end["right"][x]
         /\ \A x \in Nodes, d \in Side : u.kid[d][x] # NULL =>
              /\ u.kid[d][x] \in Nodes /\ u.kid[d][x] # x /\ u.parent[u.kid[d][x]] = x
              /\ g.own[u.kid[d][x]] = g.own[x] /\ g.own[x] # NULL
              /\ g.end[d][u.kid[d][x]] = g.end[d][x]
              /\ g.end[Other(d)][u.kid[d][x]] = g.pos[x] + toward(d)
         /\ \A x \in Nodes, d \in Side : g.own[x] # NULL /\ u.kid[d][x] = NULL => g.end[d][x] = g.pos[x]
  <1>1. /\ \A x \in Nodes : /\ g.pos[x] \in Int /\ g.end["left"][x] \in Int /\ g.end["right"][x] \in Int
                            /\ g.own[x] \in Trees \cup {NULL}
        /\ \A b \in Trees : g.len[b] \in Nat
        /\ \A b \in Trees, i \in Int : g.at[b][i] \in Nodes \cup {NULL}
    BY DEF Nodal, Ghosts, Side
  <1>2. \A x \in Nodes : g.own[x] # NULL =>
          /\ 1 <= g.pos[x] /\ g.pos[x] <= g.len[g.own[x]] /\ g.at[g.own[x]][g.pos[x]] = x
          /\ g.end["left"][x] <= g.pos[x] /\ g.pos[x] <= g.end["right"][x]
    BY DEF Nodal, NodesAt, Placed
  <1>3. \A x \in Nodes, d \in Side : u.kid[d][x] # NULL =>
          /\ u.kid[d][x] \in Nodes /\ u.kid[d][x] # x /\ u.parent[u.kid[d][x]] = x
          /\ g.own[u.kid[d][x]] = g.own[x] /\ g.own[x] # NULL
          /\ g.end[d][u.kid[d][x]] = g.end[d][x]
          /\ g.end[Other(d)][u.kid[d][x]] = g.pos[x] + toward(d)
    BY KidFacts
  <1>4. ASSUME NEW x \in Nodes, NEW d \in Side, g.own[x] # NULL, u.kid[d][x] = NULL
        PROVE  g.end[d][x] = g.pos[x]
    <2>1. KidAt(u, g, x, d)
      BY <1>4, NodeFacts
    <2>2. QED
      BY <1>4, <2>1 DEF KidAt
  <1>5. QED
    BY <1>1, <1>2, <1>3, <1>4

\* Of that, what is known of the kids alone.
LEMMA KidLinks ==
  ASSUME NEW u, NEW g, Nodal(u, g)
  PROVE  \A x \in Nodes, d \in Side : u.kid[d][x] # NULL =>
           /\ u.kid[d][x] \in Nodes /\ u.kid[d][x] # x /\ u.parent[u.kid[d][x]] = x
           /\ g.own[u.kid[d][x]] = g.own[x] /\ g.own[x] # NULL
  BY TreeFacts

\* How far a search down a tree can still go.
Rank(g) == [n \in Nodes |-> IF g.own[n] = NULL THEN 0 ELSE g.end["right"][n] - g.end["left"][n]]

\* A kid's subtree is smaller than that of its parent, so that every way down ends
\* (red_black_tree.cpp:50-51, 83-84).
LEMMA RankFalls ==
  ASSUME NEW u, NEW g, Nodal(u, g)
  PROVE  /\ Rank(g) \in [Nodes -> Nat]
         /\ \A n \in Nodes, s \in Side : u.kid[s][n] # NULL =>
              u.kid[s][n] \in Nodes /\ Rank(g)[u.kid[s][n]] < Rank(g)[n]
  <1>1. ASSUME NEW n \in Nodes, g.own[n] # NULL
        PROVE  /\ g.end["left"][n] \in Int /\ g.end["right"][n] \in Int
               /\ g.end["left"][n] <= g.end["right"][n]
    <2>1. g.pos[n] \in Int /\ g.end["left"][n] \in Int /\ g.end["right"][n] \in Int
      BY <1>1, NodeFacts, Sides
    <2>2. g.end["left"][n] <= g.pos[n] /\ g.pos[n] <= g.end["right"][n]
      BY <1>1 DEF Nodal, NodesAt, Placed
    <2>3. QED
      BY <2>1, <2>2
  <1>2. Rank(g) \in [Nodes -> Nat]
    BY <1>1 DEF Rank
  <1>3. ASSUME NEW n \in Nodes, NEW s \in Side, u.kid[s][n] # NULL
        PROVE  u.kid[s][n] \in Nodes /\ Rank(g)[u.kid[s][n]] < Rank(g)[n]
    <2> DEFINE k == u.kid[s][n]
    <2>1. /\ k \in Nodes /\ g.own[n] # NULL /\ g.own[k] = g.own[n]
          /\ g.end["right"][k] - g.end["left"][k] < g.end["right"][n] - g.end["left"][n]
      BY <1>3, KidFacts
    <2> HIDE DEF k
    <2>2. Rank(g)[k] < Rank(g)[n]
      BY <2>1 DEF Rank
    <2>3. QED
      BY <2>1, <2>2 DEF k
  <1>4. QED
    BY <1>2, <1>3

\* One step of the search for the farthest node.
LEMMA FarthestStep ==
  ASSUME NEW u, NEW rank \in [Nodes -> Nat], NEW s \in Side,
         \A n \in Nodes : u.kid[s][n] # NULL => u.kid[s][n] \in Nodes /\ rank[u.kid[s][n]] < rank[n]
  PROVE  \A n \in Nodes :
           Farthest(u, n, s) = IF u.kid[s][n] = NULL THEN n ELSE Farthest(u, u.kid[s][n], s)
  <1> DEFINE next == [m \in Nodes |-> u.kid[s][m]]
             f == CHOOSE h : h = [m \in Nodes |-> IF u.kid[s][m] = NULL THEN m ELSE h[u.kid[s][m]]]
  <1>1. Downward(Nodes, next, rank)
    BY DEF Downward
  <1>2. \E h : Follows(h, Nodes, next)
    BY <1>1, Arrives
  <1>3. \E h : h = [m \in Nodes |-> IF u.kid[s][m] = NULL THEN m ELSE h[u.kid[s][m]]]
    BY <1>2 DEF Follows
  <1>4. f = [m \in Nodes |-> IF u.kid[s][m] = NULL THEN m ELSE f[u.kid[s][m]]]
    BY <1>3
  <1>5. \A m : Farthest(u, m, s) = f[m]
    BY DEF Farthest
  <1> HIDE DEF f
  <1>6. QED
    BY <1>4, <1>5

\* In v, every kid on side s has a lower rank, and the nodes in trees have the
\* kids that they have in u.
Falls(v, rank, s) ==
  \A n \in Nodes : v.kid[s][n] # NULL => v.kid[s][n] \in Nodes /\ rank[v.kid[s][n]] < rank[n]
\* The nodes in trees have the kids on that side that they have in u.
Alike(v, u, g, s) == \A n \in Nodes : g.own[n] # NULL => v.kid[s][n] = u.kid[s][n]

\* The farthest node on one side is at that end of the subtree.
LEMMA FarthestIs ==
  ASSUME NEW u, NEW g, Nodal(u, g), NEW v, NEW rank \in [Nodes -> Nat], NEW s \in Side,
         Falls(v, rank, s), Alike(v, u, g, s)
  PROVE  \A n \in Nodes : g.own[n] # NULL =>
           LET e == Farthest(v, n, s)
           IN  e \in Nodes /\ g.own[e] = g.own[n] /\ g.pos[e] = g.end[s][n] /\ u.kid[s][e] = NULL
  <1> DEFINE P(n) == LET e == Farthest(v, n, s)
                     IN  /\ e \in Nodes /\ g.own[e] = g.own[n] /\ g.pos[e] = g.end[s][n]
                         /\ u.kid[s][e] = NULL
             S == {n \in Nodes : g.own[n] # NULL => P(n)}
  <1>1. ASSUME NEW n \in Nodes, \A k \in Nodes : Rank(g)[k] < Rank(g)[n] => k \in S
        PROVE  n \in S
    <2> SUFFICES ASSUME g.own[n] # NULL
                 PROVE  P(n)
      OBVIOUS
    <2>1. Farthest(v, n, s) = IF u.kid[s][n] = NULL THEN n ELSE Farthest(v, u.kid[s][n], s)
      <3>1. Farthest(v, n, s) = IF v.kid[s][n] = NULL THEN n ELSE Farthest(v, v.kid[s][n], s)
        BY FarthestStep DEF Falls
      <3>2. QED
        BY <3>1 DEF Alike
    <2>2. CASE u.kid[s][n] = NULL
      <3>1. KidAt(u, g, n, s)
        BY NodeFacts
      <3>2. QED
        BY <2>1, <2>2, <3>1 DEF KidAt
    <2>3. CASE u.kid[s][n] # NULL
      <3> DEFINE k == u.kid[s][n]
      <3>1. k \in Nodes /\ g.own[k] = g.own[n] /\ g.end[s][k] = g.end[s][n]
        BY <2>3, KidFacts
      <3>2. Rank(g)[k] < Rank(g)[n]
        BY <2>3, RankFalls
      <3>3. P(k)
        BY <1>1, <3>1, <3>2
      <3>4. Farthest(v, n, s) = Farthest(v, k, s)
        BY <2>1, <2>3
      <3>5. QED
        BY <3>1, <3>3, <3>4
    <2>4. QED
      BY <2>2, <2>3
  <1> HIDE DEF S
  <1>2. Rank(g) \in [Nodes -> Nat]
    BY RankFalls
  <1>3. Nodes \subseteq S
    BY <1>1, <1>2, Upward
  <1> USE DEF S
  <1>4. QED
    BY <1>3

\* The search for the place of a key ends at a node without a kid on that side.
LEMMA DescendEnds ==
  ASSUME NEW u, NEW g, Shape(u, g), NEW a \in Trees, NEW k \in Int
  PROVE  LET d == Descend(u, a, k)
             s == IF k < KeyOf[d.node] THEN "left" ELSE "right"
         IN  IF g.len[a] = 0 THEN d = [node |-> a, less |-> TRUE]
             ELSE d.node \in Nodes /\ g.own[d.node] = a /\ u.kid[s][d.node] = NULL
  <1> DEFINE side(m) == IF k < KeyOf[m] THEN "left" ELSE "right"
             next == [m \in Nodes |-> u.kid[side(m)][m]]
             end(m) == [node |-> m, less |-> side(m) = "left"]
             Eq(f) == f = [m \in Nodes |-> IF u.kid[side(m)][m] = NULL THEN end(m)
                                           ELSE f[u.kid[side(m)][m]]]
             F == CHOOSE f : Eq(f)
  <1>1. \A m : side(m) \in Side
    BY DEF Side
  <1> HIDE DEF side
  <1>2. Nodal(u, g)
    BY DEF Shape
  <1>3. Downward(Nodes, next, Rank(g))
    BY <1>1, <1>2, RankFalls DEF Downward
  <1>4. PICK h : Follows(h, Nodes, next)
    BY <1>3, Arrives, SMTT(30), ZenonT(30)
  <1>5. h = [m \in Nodes |-> IF next[m] = NULL THEN m ELSE h[next[m]]]
    BY <1>4, ZenonT(30), SMTT(30) DEF Follows
  <1> DEFINE f0 == [m \in Nodes |-> end(h[m])]
  <1>6. Eq(f0)
    <2> HIDE DEF end
    <2>1. ASSUME NEW m \in Nodes
          PROVE  f0[m] = IF u.kid[side(m)][m] = NULL THEN end(m) ELSE f0[u.kid[side(m)][m]]
      <3>1. next[m] # NULL => next[m] \in Nodes
        BY <1>3, SMTT(30), ZenonT(30) DEF Downward
      <3>2. QED
        BY <1>5, <3>1
    <2>2. QED
      BY <2>1, ZenonT(30), SMTT(30)
  <1>7. Eq(F)
    BY <1>6, ZenonT(30), SMTT(30)
  <1> HIDE DEF F
  <1>8. \A m \in Nodes : F[m] = IF u.kid[side(m)][m] = NULL THEN end(m) ELSE F[u.kid[side(m)][m]]
    <2> HIDE DEF end
    <2>1. QED
      BY <1>7, ZenonT(30), SMTT(30)
  <1> DEFINE P(m) == /\ F[m].node \in Nodes /\ g.own[F[m].node] = g.own[m]
                     /\ u.kid[side(F[m].node)][F[m].node] = NULL
             S == {m \in Nodes : P(m)}
  <1>9. ASSUME NEW m \in Nodes, \A x \in Nodes : Rank(g)[x] < Rank(g)[m] => x \in S
        PROVE  m \in S
    <2>1. CASE u.kid[side(m)][m] = NULL
      <3>1. F[m] = end(m)
        BY <1>8, <2>1
      <3>2. F[m].node = m
        BY <3>1
      <3>3. QED
        BY <2>1, <3>2
    <2>2. CASE u.kid[side(m)][m] # NULL
      <3> DEFINE x == u.kid[side(m)][m]
      <3>1. x \in Nodes /\ g.own[x] = g.own[m] /\ Rank(g)[x] < Rank(g)[m]
        BY <1>1, <1>2, <2>2, KidFacts, RankFalls, SMTT(30), ZenonT(30)
      <3>2. F[m] = F[x]
        <4> HIDE DEF end
        <4>1. QED
          BY <1>8, <2>2
      <3> HIDE DEF P
      <3>4. P(x)
        BY <1>9, <3>1
      <3> USE DEF P
      <3>3. QED
        BY <3>1, <3>2, <3>4
    <2>3. QED
      BY <2>1, <2>2
  <1>10. Rank(g) \in [Nodes -> Nat]
    BY <1>2, RankFalls
  <1> HIDE DEF S
  <1>11. Nodes \subseteq S
    BY <1>9, <1>10, Upward
  <1> USE DEF S
  <1>12. Descend(u, a, k) = IF u.parent[a] = NULL THEN [node |-> a, less |-> TRUE] ELSE F[u.parent[a]]
    BY DEF Descend, Root, F, side
  <1>13. AnchorAt(u, g, a)
    BY DEF Shape, TreesAt
  <1>14. CASE g.len[a] = 0
    BY <1>12, <1>13, <1>14 DEF AnchorAt
  <1>15. CASE g.len[a] # 0
    <2> DEFINE r == u.parent[a]
               d == Descend(u, a, k)
    <2>1. r \in Nodes /\ g.own[r] = a
      BY <1>13, <1>15 DEF AnchorAt
    <2>2. d = F[r]
      BY <1>12, <2>1, Disjoint
    <2>3. P(r)
      BY <1>11, <2>1
    <2>4. d.node \in Nodes /\ g.own[d.node] = a /\ u.kid[side(d.node)][d.node] = NULL
      BY <2>1, <2>2, <2>3, SMTT(30), ZenonT(30)
    <2>5. QED
      BY <1>15, <2>4 DEF side
  <1>16. QED
    BY <1>14, <1>15

\* The elements of a subtree in order.
Segment(g, n) ==
  IF n = NULL THEN <<>>
  ELSE IF g.own[n] = NULL THEN <<n>>
  ELSE [i \in 1 .. (g.end["right"][n] - g.end["left"][n] + 1) |->
          g.at[g.own[n]][g.end["left"][n] + i - 1]]

\* A subtree's elements are those of the tree from one of its ends to the other.
LEMMA SegmentIs ==
  ASSUME NEW g \in Ghosts, NEW n \in Nodes, g.own[n] \in Trees,
         g.end["left"][n] <= g.pos[n], g.pos[n] <= g.end["right"][n]
  PROVE  /\ Segment(g, n) \in Seq(Nodes \cup {NULL})
         /\ Len(Segment(g, n)) = g.end["right"][n] - g.end["left"][n] + 1
         /\ \A i \in 1 .. g.end["right"][n] - g.end["left"][n] + 1 :
              Segment(g, n)[i] = g.at[g.own[n]][g.end["left"][n] + i - 1]
  <1> DEFINE k == g.end["right"][n] - g.end["left"][n] + 1
             A == g.at[g.own[n]]
             l == g.end["left"][n]
  <1>1. k \in Nat /\ l \in Int /\ A \in [Int -> Nodes \cup {NULL}]
    <2>1. g.end["right"][n] \in Int /\ l \in Int /\ g.pos[n] \in Int
      BY Sides DEF Ghosts
    <2>2. A \in [Int -> Nodes \cup {NULL}]
      BY DEF Ghosts
    <2>3. QED
      BY <2>1, <2>2
  <1>2. Segment(g, n) = [i \in 1 .. k |-> A[l + i - 1]]
    BY Disjoint DEF Segment
  <1> HIDE DEF k, A, l
  <1> DEFINE B == [i \in 1 .. k |-> A[l + i - 1]]
  <1>3. B \in Seq(Nodes \cup {NULL}) /\ Len(B) = k
    BY <1>1
  <1>4. \A i \in 1 .. k : B[i] = A[l + i - 1]
    OBVIOUS
  <1>5. Segment(g, n) = B
    BY <1>2
  <1> HIDE DEF B
  <1>6. /\ Segment(g, n) \in Seq(Nodes \cup {NULL}) /\ Len(Segment(g, n)) = k
        /\ \A i \in 1 .. k : Segment(g, n)[i] = A[l + i - 1]
    BY <1>3, <1>4, <1>5
  <1>7. QED
    BY <1>6 DEF k, A, l

\* They are those of the left subtree, the node, and those of the right subtree.
LEMMA SegmentSplits ==
  ASSUME NEW u, NEW g, Nodal(u, g), NEW n \in Nodes
  PROVE  Segment(g, n) = Segment(g, u.kid["left"][n]) \o <<n>> \o Segment(g, u.kid["right"][n])
  <1> DEFINE x == u.kid["left"][n]
             y == u.kid["right"][n]
  <1>0. Segment(g, NULL) = <<>> /\ NULL \notin Nodes
    BY Disjoint DEF Segment
  <1>1. CASE g.own[n] = NULL
    <2>1. x = NULL /\ y = NULL
      BY <1>1 DEF Nodal, NodesAt, Loose, Side
    <2>2. Segment(g, n) = <<n>>
      BY <1>0, <1>1 DEF Segment
    <2>3. QED
      BY <2>1, <2>2, <1>0
  <1>2. CASE g.own[n] # NULL
    <2> DEFINE a == g.own[n]
               A == g.at[a]
               p == g.pos[n]
               l == g.end["left"][n]
               r == g.end["right"][n]
    <2>1. a \in Trees /\ p \in Int /\ l \in Int /\ r \in Int /\ g \in Ghosts
      BY <1>2, NodeFacts, Sides DEF Nodal
    <2>2. l <= p /\ p <= r /\ A[p] = n
      BY <1>2 DEF Nodal, NodesAt, Placed
    <2>3. /\ Len(Segment(g, n)) = r - l + 1
          /\ \A i \in 1 .. r - l + 1 : Segment(g, n)[i] = A[l + i - 1]
          /\ Segment(g, n) \in Seq(Nodes \cup {NULL})
      BY <2>1, <2>2, SegmentIs, SMTT(30), ZenonT(30)
    <2>4. /\ Len(Segment(g, x)) = p - l
          /\ \A i \in 1 .. p - l : Segment(g, x)[i] = A[l + i - 1]
          /\ Segment(g, x) \in Seq(Nodes \cup {NULL})
      <3>1. CASE x = NULL
        <4>1. l = p
          BY <1>2, <3>1, NodeFacts, Sides DEF KidAt
        <4>2. QED
          BY <1>0, <2>1, <3>1, <4>1
      <3>2. CASE x # NULL
        <4>1. /\ x \in Nodes /\ g.own[x] = a /\ g.end["left"][x] = l /\ g.end["right"][x] = p - 1
              /\ g.end["left"][x] <= g.pos[x] /\ g.pos[x] <= g.end["right"][x]
          <5>1. "left" \in Side /\ Other("left") = "right" /\ toward("left") = -1
            BY DEF Side, Other, toward
          <5>2. QED
            BY <2>1, <3>2, <5>1, KidFacts, SMTT(30), ZenonT(30)
        <4>2. /\ Len(Segment(g, x)) = (p - 1) - l + 1
              /\ \A i \in 1 .. (p - 1) - l + 1 : Segment(g, x)[i] = A[l + i - 1]
              /\ Segment(g, x) \in Seq(Nodes \cup {NULL})
          <5> HIDE DEF x, A, l, p
          <5>1. /\ Segment(g, x) \in Seq(Nodes \cup {NULL})
                /\ Len(Segment(g, x)) = g.end["right"][x] - g.end["left"][x] + 1
                /\ \A i \in 1 .. g.end["right"][x] - g.end["left"][x] + 1 :
                     Segment(g, x)[i] = g.at[g.own[x]][g.end["left"][x] + i - 1]
            BY <2>1, <4>1, SegmentIs
          <5>2. g.at[g.own[x]] = A
            BY <4>1 DEF A
          <5>3. QED
            BY <4>1, <5>1, <5>2
        <4>3. (p - 1) - l + 1 = p - l
          BY <2>1
        <4>4. QED
          BY <4>2, <4>3
      <3>3. QED
        BY <3>1, <3>2
    <2>5. /\ Len(Segment(g, y)) = r - p
          /\ \A i \in 1 .. r - p : Segment(g, y)[i] = A[p + i]
          /\ Segment(g, y) \in Seq(Nodes \cup {NULL})
      <3>1. CASE y = NULL
        <4>1. r = p
          BY <1>2, <3>1, NodeFacts, Sides DEF KidAt
        <4>2. QED
          BY <1>0, <2>1, <3>1, <4>1
      <3>2. CASE y # NULL
        <4>1. /\ y \in Nodes /\ g.own[y] = a /\ g.end["left"][y] = p + 1 /\ g.end["right"][y] = r
              /\ g.end["left"][y] <= g.pos[y] /\ g.pos[y] <= g.end["right"][y]
          <5>1. "right" \in Side /\ Other("right") = "left" /\ toward("right") = 1
            BY DEF Side, Other, toward
          <5>2. QED
            BY <2>1, <3>2, <5>1, KidFacts, SMTT(30), ZenonT(30)
        <4>2. /\ Len(Segment(g, y)) = r - (p + 1) + 1
              /\ \A i \in 1 .. r - (p + 1) + 1 : Segment(g, y)[i] = A[p + 1 + i - 1]
              /\ Segment(g, y) \in Seq(Nodes \cup {NULL})
          <5> HIDE DEF y, A, r, p
          <5>1. /\ Segment(g, y) \in Seq(Nodes \cup {NULL})
                /\ Len(Segment(g, y)) = g.end["right"][y] - g.end["left"][y] + 1
                /\ \A i \in 1 .. g.end["right"][y] - g.end["left"][y] + 1 :
                     Segment(g, y)[i] = g.at[g.own[y]][g.end["left"][y] + i - 1]
            BY <2>1, <4>1, SegmentIs
          <5>2. g.at[g.own[y]] = A
            BY <4>1 DEF A
          <5>3. QED
            BY <4>1, <5>1, <5>2
        <4>3. r - (p + 1) + 1 = r - p
          BY <2>1
        <4>4. ASSUME NEW i \in 1 .. r - p
              PROVE  Segment(g, y)[i] = A[p + i]
          <5>1. p + 1 + i - 1 = p + i
            BY <2>1
          <5>2. Segment(g, y)[i] = A[p + 1 + i - 1]
            BY <4>2, <4>3
          <5>3. QED
            BY <5>1, <5>2
        <4>5. QED
          BY <4>2, <4>3, <4>4
      <3>3. QED
        BY <3>1, <3>2
    <2> DEFINE left == Segment(g, x)
               right == Segment(g, y)
               both == left \o <<n>> \o right
    <2>6. both \in Seq(Nodes \cup {NULL}) /\ Len(both) = r - l + 1
      <3>1. left \in Seq(Nodes \cup {NULL}) /\ right \in Seq(Nodes \cup {NULL})
            /\ <<n>> \in Seq(Nodes \cup {NULL}) /\ Len(<<n>>) = 1
        BY <2>4, <2>5
      <3>2. Len(left) = p - l /\ Len(right) = r - p
        BY <2>4, <2>5
      <3> HIDE DEF left, right, p, l, r
      <3>3. left \o <<n>> \in Seq(Nodes \cup {NULL}) /\ Len(left \o <<n>>) = p - l + 1
        BY <3>1, <3>2
      <3>4. both \in Seq(Nodes \cup {NULL}) /\ Len(both) = (p - l + 1) + (r - p)
        BY <3>1, <3>2, <3>3
      <3>5. QED
        BY <2>1, <3>4
    <2>7. ASSUME NEW i \in 1 .. r - l + 1
          PROVE  both[i] = A[l + i - 1]
      <3> HIDE DEF left, right, A, p, l, r
      <3>1. CASE i <= p - l
        BY <2>1, <2>4, <2>5, <3>1 DEF left, right
      <3>2. CASE i = p - l + 1
        <4>1. both[i] = n
          <5>1. /\ left \in Seq(Nodes \cup {NULL}) /\ right \in Seq(Nodes \cup {NULL})
                /\ Len(left) = p - l /\ i = Len(left) + 1
            BY <2>4, <2>5, <3>2 DEF left, right
          <5>2. (left \o <<n>>)[i] = n /\ i \in 1 .. Len(left \o <<n>>)
            BY <5>1
          <5>3. QED
            BY <5>1, <5>2
        <4>2. l + i - 1 = p
          BY <2>1, <3>2
        <4>3. QED
          BY <2>2, <4>1, <4>2
      <3>3. CASE i > p - l + 1
        <4> DEFINE j == i - (p - l + 1)
        <4>1. j \in 1 .. r - p /\ p + j = l + i - 1
          BY <2>1, <2>2, <3>3
        <4>2. both[i] = right[j]
          BY <2>1, <2>2, <2>4, <2>5, <3>3 DEF left, right
        <4>3. right[j] = A[p + j]
          BY <2>5, <4>1 DEF right
        <4>4. QED
          BY <4>1, <4>2, <4>3
      <3>4. i \in Int /\ p - l \in Int
        BY <2>1
      <3> HIDE DEF both
      <3>5. QED
        BY <3>1, <3>2, <3>3, <3>4
    <2> HIDE DEF both
    <2>8. Segment(g, n) = both
      BY <2>3, <2>6, <2>7
    <2>9. QED
      BY <2>8 DEF both
  <1>3. QED
    BY <1>1, <1>2

\* Iteration from the first element to the last meets all of a tree's elements, each
\* once, in the order of their positions (red_black_tree.cpp:42-98).
LEMMA InOrderIs ==
  ASSUME NEW u, NEW g, Shape(u, g), NEW a \in Trees
  PROVE  /\ InOrder(u, a) \in Seq(Nodes) /\ Len(InOrder(u, a)) = g.len[a]
         /\ \A i \in 1 .. g.len[a] : InOrder(u, a)[i] = g.at[a][i]
         /\ Members(u, a) = {n \in Nodes : g.own[n] = a}
  <1> DEFINE D == Nodes \cup {NULL}
             join(x, m, y) == x \o <<m>> \o y
             Eq(f) == f = [m \in D |-> IF m = NULL THEN <<>>
                                       ELSE join(f[u.kid["left"][m]], m, f[u.kid["right"][m]])]
             F == CHOOSE f : Eq(f)
             f0 == [m \in D |-> Segment(g, m)]
  <1>1. Nodal(u, g) /\ NULL \notin Nodes
    BY Disjoint DEF Shape
  <1>2. \A m \in Nodes, s \in Side : u.kid[s][m] \in D
    BY <1>1, RankFalls
  <1>3. "left" \in Side /\ "right" \in Side
    BY DEF Side
  <1>16. Segment(g, NULL) = <<>>
    BY DEF Segment
  <1>17. \A m \in Nodes : Segment(g, m) = join(Segment(g, u.kid["left"][m]), m, Segment(g, u.kid["right"][m]))
    BY <1>1, SegmentSplits, ZenonT(30), SMTT(30)
  <1> HIDE DEF join
  <1>4. Eq(f0)
    <2>1. ASSUME NEW m \in D
          PROVE  f0[m] = IF m = NULL THEN <<>> ELSE join(f0[u.kid["left"][m]], m, f0[u.kid["right"][m]])
      <3>1. CASE m = NULL
        BY <1>16, <3>1
      <3>2. CASE m # NULL
        <4>1. u.kid["left"][m] \in D /\ u.kid["right"][m] \in D
          BY <1>2, <1>3, <3>2
        <4>2. QED
          BY <1>17, <3>2, <4>1
      <3>3. QED
        BY <3>1, <3>2
    <2>2. QED
      BY <2>1, ZenonT(30), SMTT(30)
  <1>5. Eq(F)
    BY <1>4, ZenonT(30), SMTT(30)
  <1> HIDE DEF F
  <1>6. F[NULL] = <<>> /\ \A m \in Nodes : F[m] = join(F[u.kid["left"][m]], m, F[u.kid["right"][m]])
    BY <1>1, <1>5, ZenonT(30), SMTT(30)
  <1> DEFINE S == {m \in Nodes : F[m] = Segment(g, m)}
  <1>7. ASSUME NEW m \in Nodes, \A x \in Nodes : Rank(g)[x] < Rank(g)[m] => x \in S
        PROVE  m \in S
    <2>1. ASSUME NEW s \in Side
          PROVE  F[u.kid[s][m]] = Segment(g, u.kid[s][m])
      <3>1. CASE u.kid[s][m] = NULL
        BY <1>6, <1>16, <3>1
      <3>2. CASE u.kid[s][m] # NULL
        BY <1>1, <1>7, <3>2, RankFalls
      <3>3. QED
        BY <3>1, <3>2
    <2>2. F[u.kid["left"][m]] = Segment(g, u.kid["left"][m]) /\ F[u.kid["right"][m]] = Segment(g, u.kid["right"][m])
      BY <1>3, <2>1
    <2>3. F[m] = Segment(g, m)
      BY <1>6, <1>17, <2>2
    <2>4. QED
      BY <2>3
  <1>8. Rank(g) \in [Nodes -> Nat]
    BY <1>1, RankFalls
  <1> HIDE DEF S
  <1>9. Nodes \subseteq S
    BY <1>7, <1>8, Upward
  <1> USE DEF S
  <1>10. InOrder(u, a) = F[u.parent[a]]
    BY ZenonT(30), SMTT(30) DEF InOrder, Below, Root, F, join
  <1>11. g \in Ghosts /\ g.len[a] \in Nat /\ AnchorAt(u, g, a)
    BY <1>1 DEF Shape, TreesAt, Nodal, Ghosts
  <1>12. \A i \in 1 .. g.len[a] : g.at[a][i] \in Nodes /\ g.own[g.at[a][i]] = a
    BY DEF Shape, TreesAt
  <1>13. /\ Len(InOrder(u, a)) = g.len[a]
         /\ \A i \in 1 .. g.len[a] : InOrder(u, a)[i] = g.at[a][i]
         /\ InOrder(u, a) \in Seq(Nodes \cup {NULL})
    <2>1. CASE g.len[a] = 0
      <3>1. InOrder(u, a) = <<>>
        BY <1>6, <1>10, <1>11, <2>1 DEF AnchorAt
      <3>2. \A i \in 1 .. g.len[a] : FALSE
        BY <2>1
      <3>3. QED
        BY <2>1, <3>1, <3>2
    <2>2. CASE g.len[a] # 0
      <3> DEFINE r == u.parent[a]
      <3>1. r \in Nodes /\ g.own[r] = a /\ g.end["left"][r] = 1 /\ g.end["right"][r] = g.len[a]
        BY <1>11, <2>2 DEF AnchorAt
      <3>2. g.end["left"][r] <= g.pos[r] /\ g.pos[r] <= g.end["right"][r]
        BY <1>1, <3>1, Disjoint DEF Nodal, NodesAt, Placed
      <3>3. InOrder(u, a) = Segment(g, r)
        BY <1>9, <1>10, <3>1
      <3> HIDE DEF r
      <3>4. /\ Segment(g, r) \in Seq(Nodes \cup {NULL})
            /\ Len(Segment(g, r)) = g.end["right"][r] - g.end["left"][r] + 1
            /\ \A i \in 1 .. g.end["right"][r] - g.end["left"][r] + 1 :
                 Segment(g, r)[i] = g.at[g.own[r]][g.end["left"][r] + i - 1]
        BY <1>11, <3>1, <3>2, SegmentIs
      <3>5. g.end["right"][r] - g.end["left"][r] + 1 = g.len[a]
        BY <1>11, <3>1
      <3>6. ASSUME NEW i \in 1 .. g.len[a]
            PROVE  Segment(g, r)[i] = g.at[a][i]
        <4>1. 1 + i - 1 = i
          OBVIOUS
        <4>2. Segment(g, r)[i] = g.at[a][1 + i - 1]
          BY <3>1, <3>4, <3>5
        <4>3. QED
          BY <4>1, <4>2
      <3>7. QED
        BY <3>3, <3>4, <3>5, <3>6
    <2>3. QED
      BY <2>1, <2>2
  <1> DEFINE o == InOrder(u, a)
  <1>14. o \in Seq(Nodes)
    <2> HIDE DEF o
    <2>1. \A i \in 1 .. Len(o) : o[i] \in Nodes
      BY <1>12, <1>13 DEF o
    <2>2. o \in Seq(Nodes \cup {NULL})
      BY <1>13 DEF o
    <2>3. QED
      BY <2>1, <2>2
  <1>15. Members(u, a) = {n \in Nodes : g.own[n] = a}
    <2>1. DOMAIN o = 1 .. g.len[a]
      BY <1>13, <1>14
    <2>2. Members(u, a) = {g.at[a][i] : i \in 1 .. g.len[a]}
      <3>1. Members(u, a) = {o[i] : i \in DOMAIN o}
        BY DEF Members
      <3> HIDE DEF o
      <3>2. \A i \in 1 .. g.len[a] : o[i] = g.at[a][i]
        BY <1>13 DEF o
      <3>3. QED
        BY <2>1, <3>1, <3>2
    <2>3. ASSUME NEW n \in Nodes, g.own[n] = a
          PROVE  \E i \in 1 .. g.len[a] : n = g.at[a][i]
      <3>1. g.pos[n] \in Int
        BY <1>11 DEF Ghosts
      <3>2. 1 <= g.pos[n] /\ g.pos[n] <= g.len[a] /\ g.at[a][g.pos[n]] = n
        BY <1>1, <2>3, Disjoint DEF Nodal, NodesAt, Placed
      <3>3. QED
        BY <1>11, <3>1, <3>2
    <2>4. QED
      BY <1>12, <2>2, <2>3
  <1>18. QED
    BY <1>13, <1>14, <1>15

-----------------------------------------------------------------------------
(* The assignments to one field of one node. *)
KidSet(v, u, s, n, m) ==
  /\ \A x \in Links : v.parent[x] = u.parent[x]
  /\ \A x \in Links : v.color[x] = u.color[x]
  /\ \A x \in Links, d \in Side : v.kid[d][x] = IF d = s /\ x = n THEN m ELSE u.kid[d][x]

\* Only the parent of n is another.
ParentSet(v, u, n, p) ==
  /\ \A x \in Links : v.parent[x] = IF x = n THEN p ELSE u.parent[x]
  /\ \A x \in Links : v.color[x] = u.color[x]
  /\ \A x \in Links, d \in Side : v.kid[d][x] = u.kid[d][x]

\* Only the colour of n is another.
Painted(v, u, n, c) ==
  /\ \A x \in Links : v.parent[x] = u.parent[x]
  /\ \A x \in Links : v.color[x] = IF x = n THEN c ELSE u.color[x]
  /\ \A x \in Links, d \in Side : v.kid[d][x] = u.kid[d][x]

\* An assignment to mpNodeLeft or mpNodeRight.
LEMMA SetKidIs ==
  ASSUME NEW u \in Graph, NEW s \in Side, NEW n \in Links, NEW m \in Links \cup {NULL}
  PROVE  SetKid(u, s, n, m) \in Graph /\ KidSet(SetKid(u, s, n, m), u, s, n, m)
  <1>1. SetKid(u, s, n, m) \in Graph
    BY SMTT(30), ZenonT(30) DEF SetKid, Graph
  <1>2. KidSet(SetKid(u, s, n, m), u, s, n, m)
    BY DEF SetKid, Graph, KidSet
  <1>3. QED
    BY <1>1, <1>2

\* An assignment to mpNodeParent.
LEMMA SetParentIs ==
  ASSUME NEW u \in Graph, NEW n \in Links \cup {NULL}, NEW p \in Links \cup {NULL}
  PROVE  SetParent(u, n, p) \in Graph /\ ParentSet(SetParent(u, n, p), u, n, p)
  <1>1. CASE n = NULL
    <2>1. SetParent(u, n, p) = u /\ \A x \in Links : x # n
      BY <1>1, Disjoint DEF SetParent
    <2>2. QED
      BY <2>1 DEF ParentSet
  <1>2. CASE n # NULL
    <2>1. SetParent(u, n, p) \in Graph
      BY <1>2 DEF SetParent, Graph
    <2>2. ParentSet(SetParent(u, n, p), u, n, p)
      BY <1>2 DEF SetParent, Graph, ParentSet
    <2>3. QED
      BY <2>1, <2>2
  <1>3. QED
    BY <1>1, <1>2

\* An assignment to mColor.
LEMMA PaintIs ==
  ASSUME NEW u \in Graph, NEW n \in Links \cup {NULL}, NEW c \in Color
  PROVE  Paint(u, n, c) \in Graph /\ Painted(Paint(u, n, c), u, n, c)
  <1>1. CASE n = NULL
    <2>1. \A x \in Links : x # n
      BY <1>1, Disjoint
    <2>2. Painted(u, u, n, c)
      BY <2>1 DEF Painted
    <2>3. Paint(u, n, c) = u
      BY <1>1, ZenonT(30), SMTT(30) DEF Paint
    <2>4. QED
      BY <2>2, <2>3
  <1>2. CASE n # NULL
    <2> DEFINE color == [u.color EXCEPT ![n] = c]
               r == [kid |-> u.kid, parent |-> u.parent, color |-> color]
    <2>1. Paint(u, n, c) = r
      <3>1. Paint(u, n, c) = [u EXCEPT !.color[n] = c]
        BY <1>2, ZenonT(30), SMTT(30) DEF Paint
      <3>2. [u EXCEPT !.color[n] = c] = [u EXCEPT !.color = color]
        BY ZenonT(30), SMTT(30)
      <3> HIDE DEF color
      <3>3. [u EXCEPT !.color = color] = r
        BY DEF Graph
      <3>4. QED
        BY <3>1, <3>2, <3>3, ZenonT(30), SMTT(30)
    <2>2. u.kid \in [Side -> [Links -> Links \cup {NULL}]] /\ u.parent \in [Links -> Links \cup {NULL}]
          /\ u.color \in [Links -> Color]
      BY DEF Graph
    <2>3. color \in [Links -> Color] /\ \A x \in Links : color[x] = IF x = n THEN c ELSE u.color[x]
      BY <2>2
    <2> HIDE DEF color
    <2>4. r \in Graph
      BY <2>2, <2>3 DEF Graph
    <2>5. Painted(r, u, n, c)
      BY <2>3 DEF Painted
    <2> HIDE DEF r
    <2>6. QED
      BY <2>1, <2>4, <2>5
  <1>3. QED
    BY <1>1, <1>2

-----------------------------------------------------------------------------
(* Rotation. *)

\* Who the kids and parents are afterwards.
LEMMA RotateLinks ==
  ASSUME NEW u, NEW g, Shape(u, g), NEW a \in Trees, NEW n \in Nodes, g.own[n] = a,
         NEW s \in Side, u.kid[Other(s)][n] # NULL
  PROVE  LET o == Other(s)
             up == u.kid[o][n]
             mid == u.kid[s][up]
             r == Rotate(u, a, n, s)
         IN  /\ r \in Graph /\ \A x \in Links : r.color[x] = u.color[x]
             /\ \A x \in Nodes, d \in Side :
                  r.kid[d][x] = IF d = o /\ x = n THEN mid ELSE IF d = s /\ x = up THEN n
                                ELSE IF u.kid[d][x] = n THEN up ELSE u.kid[d][x]
             /\ \A x \in Nodes :
                  r.parent[x] = IF x = n THEN up ELSE IF x = up THEN u.parent[n]
                                ELSE IF x = mid THEN n ELSE u.parent[x]
             /\ \A b \in Trees : /\ r.parent[b] = IF u.parent[b] = n THEN up ELSE u.parent[b]
                                 /\ \A d \in Side : r.kid[d][b] = u.kid[d][b]
  <1> DEFINE o == Other(s)
             up == u.kid[o][n]
             mid == u.kid[s][up]
             r == Rotate(u, a, n, s)
             p == u.parent[n]
             v1 == SetKid(u, o, n, mid)
             v2 == SetParent(v1, mid, n)
             v3 == SetParent(v2, up, p)
             v4 == SetKid(v3, s, up, n)
             w == SetParent(v4, n, up)
  <1>0. Nodal(u, g) /\ u \in Graph /\ TreesAt(u, g) /\ g.own[n] # NULL
    BY Disjoint DEF Shape, Nodal
  <1>1. o \in Side /\ o # s /\ Side = {s, o} /\ Other(o) = s
    BY Sides
  <1>2. up \in Nodes /\ up # n /\ u.parent[up] = n /\ g.own[up] = a /\ u.kid[s][n] # up
    BY <1>0, <1>1, KidFacts, SMTT(30), ZenonT(30)
  <1>3. mid # NULL => mid \in Nodes /\ mid # up /\ u.parent[mid] = up /\ u.kid[o][up] # mid
    BY <1>0, <1>1, <1>2, KidFacts, SMTT(30), ZenonT(30)
  <1>4. mid # n
    <2>1. mid # NULL => Rank(g)[mid] < Rank(g)[up] /\ Rank(g)[up] < Rank(g)[n]
      BY <1>0, <1>1, <1>2, RankFalls
    <2>2. Rank(g) \in [Nodes -> Nat]
      BY <1>0, RankFalls
    <2>3. QED
      BY <1>2, <1>3, <2>1, <2>2, Disjoint
  <1>5. n \in Links /\ up \in Links /\ mid \in Links \cup {NULL} /\ p \in Links /\ a \in Links
    BY <1>0, <1>2, <1>3, NodeFacts, Disjoint
  <1>12. r = IF n = u.parent[a] THEN SetParent(w, a, up) ELSE SetKid(w, SideOf(u, n), p, up)
    <2> HIDE DEF w
    <2>1. w = Swing(u, n, up, s)
      <3> HIDE DEF up
      <3>1. QED
        BY ZenonT(30), SMTT(30) DEF Swing, w
    <2>2. r = IF n = u.parent[a] THEN SetParent(Swing(u, n, up, s), a, up)
              ELSE SetKid(Swing(u, n, up, s), SideOf(u, n), p, up)
      <3> HIDE DEF mid, p, v1, v2, v3, v4
      <3>1. p = u.parent[n]
        BY DEF p
      <3>2. r = IF n = u.parent[a] THEN SetParent(Swing(u, n, up, s), a, up)
                ELSE SetKid(Swing(u, n, up, s), SideOf(u, n), u.parent[n], up)
        BY ZenonT(30), SMTT(30) DEF Rotate, Root
      <3>3. QED
        BY <3>1, <3>2, ZenonT(30), SMTT(30)
    <2>3. QED
      BY <2>1, <2>2
  <1> HIDE DEF o, up, mid, r, p, w, v4, v3, v2, v1
  <1>6. v1 \in Graph /\ KidSet(v1, u, o, n, mid)
    BY <1>0, <1>1, <1>5, SetKidIs, SMTT(30), ZenonT(30) DEF v1
  <1>7. v2 \in Graph /\ ParentSet(v2, v1, mid, n)
    BY <1>5, <1>6, SetParentIs DEF v2
  <1>8. v3 \in Graph /\ ParentSet(v3, v2, up, p)
    BY <1>5, <1>7, SetParentIs DEF v3
  <1>9. v4 \in Graph /\ KidSet(v4, v3, s, up, n)
    BY <1>5, <1>8, SetKidIs DEF v4
  <1>10. w \in Graph /\ ParentSet(w, v4, n, up)
    BY <1>5, <1>9, SetParentIs DEF w
  <1>11. /\ w \in Graph
         /\ \A x \in Links : w.color[x] = u.color[x]
         /\ \A x \in Links, d \in Side :
              w.kid[d][x] = IF d = o /\ x = n THEN mid ELSE IF d = s /\ x = up THEN n ELSE u.kid[d][x]
         /\ \A x \in Links :
              w.parent[x] = IF x = n THEN up ELSE IF x = up THEN p ELSE IF x = mid THEN n ELSE u.parent[x]
    BY <1>1, <1>2, <1>6, <1>7, <1>8, <1>9, <1>10 DEF KidSet, ParentSet
  <1>13. \A x \in Nodes, d \in Side : u.kid[d][x] = n => u.parent[n] = x
    BY <1>0, KidFacts, Disjoint
  <1>14. \A b \in Trees : u.parent[b] = n => b = a /\ u.parent[n] = a
    <2> SUFFICES ASSUME NEW b \in Trees, u.parent[b] = n
                 PROVE  b = a /\ u.parent[n] = a
      OBVIOUS
    <2>1. AnchorAt(u, g, b)
      BY <1>0 DEF TreesAt
    <2>2. QED
      BY <2>1, Disjoint DEF AnchorAt
  <1>15. \A x \in Nodes : x \in Links /\ x # a
    BY Disjoint
  <1>16. \A b \in Trees : b \in Links /\ b # n /\ b # up /\ b # mid
    BY <1>2, <1>3, Disjoint
  <1>17. CASE n = u.parent[a]
    <2>0. r = SetParent(w, a, up)
      BY <1>12, <1>17
    <2>1. r \in Graph /\ ParentSet(r, w, a, up)
      BY <1>5, <1>11, <2>0, SetParentIs
    <2>2. u.parent[n] = a
      BY <1>14, <1>17
    <2>3. \A x \in Nodes, d \in Side : u.kid[d][x] # n
      BY <1>13, <2>2, Disjoint
    <2>4. /\ \A x \in Links : r.color[x] = u.color[x]
          /\ \A x \in Nodes, d \in Side :
               r.kid[d][x] = IF d = o /\ x = n THEN mid ELSE IF d = s /\ x = up THEN n
                             ELSE IF u.kid[d][x] = n THEN up ELSE u.kid[d][x]
      BY <1>11, <1>15, <2>1, <2>3 DEF ParentSet
    <2>5. /\ \A x \in Nodes :
               r.parent[x] = IF x = n THEN up ELSE IF x = up THEN p
                             ELSE IF x = mid THEN n ELSE u.parent[x]
          /\ \A b \in Trees : /\ r.parent[b] = IF u.parent[b] = n THEN up ELSE u.parent[b]
                              /\ \A d \in Side : r.kid[d][b] = u.kid[d][b]
      BY <1>11, <1>14, <1>15, <1>16, <1>17, <2>1 DEF ParentSet
    <2>6. QED
      BY <2>1, <2>4, <2>5 DEF o, up, mid, r, p
  <1>18. CASE n # u.parent[a]
    <2> DEFINE e == SideOf(u, n)
    <2>1. p \in Nodes /\ e \in Side /\ u.kid[e][p] = n /\ u.kid[Other(e)][p] # n /\ p # n
      BY <1>0, <1>18, ParentFacts DEF p
    <2> HIDE DEF e
    <2>2. \A d \in Side : d # e => u.kid[d][p] # n
      BY <2>1, Sides
    <2>0. r = SetKid(w, e, p, up)
      BY <1>12, <1>18 DEF e
    <2>3. r \in Graph /\ KidSet(r, w, e, p, up)
      BY <1>5, <1>11, <2>0, <2>1, SetKidIs
    <2>4. p # up
      <3>1. Rank(g)[n] < Rank(g)[p] /\ Rank(g)[up] < Rank(g)[n]
        BY <1>0, <1>1, <1>2, <2>1, RankFalls, Disjoint DEF up
      <3>2. Rank(g) \in [Nodes -> Nat]
        BY <1>0, RankFalls
      <3>3. QED
        BY <1>2, <2>1, <3>1, <3>2
    <2>5. ASSUME NEW x \in Nodes, NEW d \in Side
          PROVE  r.kid[d][x] = IF d = o /\ x = n THEN mid ELSE IF d = s /\ x = up THEN n
                               ELSE IF u.kid[d][x] = n THEN up ELSE u.kid[d][x]
      <3>1. u.kid[d][x] = n <=> d = e /\ x = p
        BY <1>13, <2>1, <2>2
      <3>2. QED
        BY <1>11, <1>15, <2>1, <2>3, <2>4, <3>1 DEF KidSet
    <2>6. \A x \in Nodes : r.parent[x] = IF x = n THEN up ELSE IF x = up THEN p
                                        ELSE IF x = mid THEN n ELSE u.parent[x]
      BY <1>11, <1>15, <2>3 DEF KidSet
    <2>7. ASSUME NEW b \in Trees
          PROVE  /\ r.parent[b] = IF u.parent[b] = n THEN up ELSE u.parent[b]
                 /\ \A d \in Side : r.kid[d][b] = u.kid[d][b]
      <3>1. u.parent[b] # n /\ b # p
        BY <1>14, <1>18, <2>1, Disjoint
      <3>2. QED
        BY <1>11, <1>16, <2>3, <3>1 DEF KidSet
    <2>8. QED
      BY <1>11, <2>3, <2>5, <2>6, <2>7 DEF KidSet, o, up, mid, r, p
  <1>19. QED
    BY <1>17, <1>18

\* The links of r, which is u with n turned to side s: up is above it, mid under it.
Rotated(r, u, n, s, up, mid) ==
  /\ \A x \in Links : r.color[x] = u.color[x]
  /\ \A x \in Nodes, d \in Side :
       r.kid[d][x] = IF d = Other(s) /\ x = n THEN mid ELSE IF d = s /\ x = up THEN n
                     ELSE IF u.kid[d][x] = n THEN up ELSE u.kid[d][x]
  /\ \A x \in Nodes :
       r.parent[x] = IF x = n THEN up ELSE IF x = up THEN u.parent[n]
                     ELSE IF x = mid THEN n ELSE u.parent[x]
  /\ \A b \in Trees : /\ r.parent[b] = IF u.parent[b] = n THEN up ELSE u.parent[b]
                      /\ \A d \in Side : r.kid[d][b] = u.kid[d][b]

LEMMA RotateIs ==
  ASSUME NEW u, NEW g, Shape(u, g), NEW a \in Trees, NEW n \in Nodes, g.own[n] = a,
         NEW s \in Side, NEW up, u.kid[Other(s)][n] = up, up # NULL,
         NEW mid, u.kid[s][up] = mid, NEW r, Rotate(u, a, n, s) = r
  PROVE  r \in Graph /\ Rotated(r, u, n, s, up, mid)
  BY RotateLinks DEF Rotated

\* The subtrees of the two nodes are other ones, and nothing else changes.
LEMMA RotateShape ==
  ASSUME NEW u, NEW g, Shape(u, g), NEW a \in Trees, NEW n \in Nodes, g.own[n] = a,
         NEW s \in Side, u.kid[Other(s)][n] # NULL
  PROVE  \E h : Shape(Rotate(u, a, n, s), h) /\ h.own = g.own /\ h.at = g.at /\ h.len = g.len
  <1> DEFINE o == Other(s)
             up == u.kid[o][n]
             mid == u.kid[s][up]
             r == Rotate(u, a, n, s)
             E == [d \in Side |-> [x \in Nodes |->
                     IF x = up /\ d = s THEN g.end[s][n]
                     ELSE IF x = n /\ d = o THEN g.pos[up] + toward(s)
                     ELSE g.end[d][x]]]
             h == [own |-> g.own, pos |-> g.pos, end |-> E, at |-> g.at, len |-> g.len]
  <1>0. Nodal(u, g) /\ u \in Graph /\ g \in Ghosts /\ TreesAt(u, g) /\ NodesAt(u, g) /\ g.own[n] # NULL
    BY Disjoint DEF Shape, Nodal
  <1>1. o \in Side /\ o # s /\ Side = {s, o} /\ Other(o) = s /\ Side = {"left", "right"}
    BY Sides
  <1>2. up \in Nodes /\ up # n /\ u.parent[up] = n /\ g.own[up] = a
    BY <1>0, <1>1, KidFacts, SMTT(30), ZenonT(30)
  <1>3. mid # NULL => /\ mid \in Nodes /\ mid # up /\ u.parent[mid] = up /\ g.own[mid] = a
                      /\ u.kid[o][up] # mid
    BY <1>0, <1>1, <1>2, KidFacts, SMTT(30), ZenonT(30)
  <1>a. mid # n
    <2>1. mid # NULL => Rank(g)[mid] < Rank(g)[up] /\ Rank(g)[up] < Rank(g)[n]
      BY <1>0, <1>1, <1>2, RankFalls
    <2>2. Rank(g) \in [Nodes -> Nat]
      BY <1>0, RankFalls
    <2>3. QED
      BY <1>2, <1>3, <2>1, <2>2, Disjoint
  <1> DEFINE L == /\ r \in Graph /\ \A x \in Links : r.color[x] = u.color[x]
                  /\ \A x \in Nodes, d \in Side :
                       r.kid[d][x] = IF d = o /\ x = n THEN mid ELSE IF d = s /\ x = up THEN n
                                     ELSE IF u.kid[d][x] = n THEN up ELSE u.kid[d][x]
                  /\ \A x \in Nodes :
                       r.parent[x] = IF x = n THEN up ELSE IF x = up THEN u.parent[n]
                                     ELSE IF x = mid THEN n ELSE u.parent[x]
                  /\ \A b \in Trees : /\ r.parent[b] = IF u.parent[b] = n THEN up ELSE u.parent[b]
                                      /\ \A d \in Side : r.kid[d][b] = u.kid[d][b]
  <1>4. L
    <2>1. r \in Graph /\ Rotated(r, u, n, s, up, mid)
      BY RotateIs
    <2>2. QED
      BY <2>1, ZenonT(30), SMTT(30) DEF Rotated
  <1>5. \A x \in Nodes : g.pos[x] \in Int /\ \A d \in Side : g.end[d][x] \in Int
    BY <1>0 DEF Ghosts
  <1>6. toward(s) \in Int /\ toward(o) = - toward(s)
        /\ ((s = "left" /\ o = "right" /\ toward(s) = -1) \/ (s = "right" /\ o = "left" /\ toward(s) = 1))
    BY Sides DEF Other
  <1>7. h \in Ghosts
    <2>1. E \in [Side -> [Nodes -> Int]]
      BY <1>1, <1>2, <1>5, <1>6
    <2> HIDE DEF E
    <2>2. QED
      BY <1>0, <2>1 DEF Ghosts
  <1>8. \A x \in Nodes, d \in Side :
          E[d][x] = IF x = up /\ d = s THEN g.end[s][n]
                    ELSE IF x = n /\ d = o THEN g.pos[up] + toward(s)
                    ELSE g.end[d][x]
    BY SMTT(30), ZenonT(30)
  <1>9. /\ g.end[o][up] = g.end[o][n] /\ g.end[s][up] = g.pos[n] - toward(s)
        /\ IF mid = NULL THEN g.end[s][up] = g.pos[up]
           ELSE g.end[s][mid] = g.end[s][up] /\ g.end[o][mid] = g.pos[up] + toward(s)
    <2>1. g.end[o][up] = g.end[o][n] /\ g.end[s][up] = g.pos[n] + toward(o)
      <3>1. u.kid[o][n] = up /\ o \in Side /\ Other(o) = s
        BY <1>1 DEF up
      <3> HIDE DEF up, o, mid
      <3>2. KidAt(u, g, n, o)
        BY <1>0, <3>1, NodeFacts, Disjoint
      <3>3. QED
        BY <1>2, <3>1, <3>2, Disjoint DEF KidAt
    <2>2. KidAt(u, g, up, s)
      BY <1>0, <1>2, NodeFacts, SMTT(30), ZenonT(30)
    <2>3. IF mid = NULL THEN g.end[s][up] = g.pos[up]
          ELSE g.end[s][mid] = g.end[s][up] /\ g.end[o][mid] = g.pos[up] + toward(s)
      BY <2>2, ZenonT(30), SMTT(30) DEF KidAt
    <2>4. g.end[s][up] = g.pos[n] - toward(s)
      <3> HIDE DEF up, o
      <3>1. g.end[s][up] = g.pos[n] + toward(o) /\ g.pos[n] \in Int
        BY <1>5, <2>1
      <3>2. QED
        BY <1>6, <3>1
    <2>5. QED
      BY <2>1, <2>3, <2>4, ZenonT(30), SMTT(30)
  <1>10. \A x \in Nodes : g.own[x] # NULL => g.end["left"][x] <= g.pos[x] /\ g.pos[x] <= g.end["right"][x]
    BY <1>0 DEF NodesAt, Placed
  <1>11. \A x \in Nodes, d \in Side : u.kid[d][x] # NULL =>
           /\ u.kid[d][x] \in Nodes /\ u.parent[u.kid[d][x]] = x /\ g.own[u.kid[d][x]] = g.own[x]
           /\ g.end[d][u.kid[d][x]] = g.end[d][x]
           /\ g.end[Other(d)][u.kid[d][x]] = g.pos[x] + toward(d)
    BY <1>0, KidFacts
  <1>12. \A x \in Nodes, d \in Side : g.own[x] # NULL /\ u.kid[d][x] = NULL => g.end[d][x] = g.pos[x]
    <2> SUFFICES ASSUME NEW x \in Nodes, NEW d \in Side, g.own[x] # NULL, u.kid[d][x] = NULL
                 PROVE  g.end[d][x] = g.pos[x]
      OBVIOUS
    <2>1. KidAt(u, g, x, d)
      BY <1>0, NodeFacts
    <2>2. QED
      BY <2>1 DEF KidAt
  <1> HIDE DEF E, L, o, up, mid, r
  <1>13. ASSUME NEW x \in Nodes, g.own[x] # NULL
         PROVE  E["left"][x] <= g.pos[x] /\ g.pos[x] <= E["right"][x]
    BY <1>1, <1>2, <1>5, <1>6, <1>8, <1>9, <1>10, <1>13, <1>0
  <1>14. ASSUME NEW x \in Nodes, g.own[x] # NULL, NEW d \in Side
         PROVE  KidAt(r, h, x, d)
    <2> DEFINE k == r.kid[d][x]
    <2>1. CASE d = o /\ x = n
      <3>1. k = mid
        BY <1>4, <2>1 DEF L
      <3>2. CASE mid = NULL
        <4>1. E[o][n] = g.pos[n]
          BY <1>1, <1>2, <1>5, <1>6, <1>8, <1>9, <3>2
        <4>2. QED
          BY <2>1, <3>1, <3>2, <4>1 DEF KidAt
      <3>3. CASE mid # NULL
        <4>1. mid # n
          BY <1>a
        <4>2. r.parent[mid] = n
          BY <1>3, <1>4, <3>3, <4>1 DEF L
        <4>3. E[o][mid] = E[o][n] /\ E[s][mid] = g.pos[n] + toward(o)
          BY <1>1, <1>2, <1>3, <1>5, <1>6, <1>8, <1>9, <3>3, <4>1
        <4>4. QED
          BY <1>1, <1>3, <2>1, <3>1, <3>3, <4>2, <4>3 DEF KidAt
      <3>4. QED
        BY <3>2, <3>3
    <2>2. CASE d = s /\ x = up
      <3>1. k = n
        BY <1>1, <1>4, <2>2 DEF L
      <3>2. r.parent[n] = up
        BY <1>4 DEF L
      <3>3. E[s][n] = E[s][up] /\ E[o][n] = g.pos[up] + toward(s)
        BY <1>1, <1>2, <1>8
      <3>4. n # NULL
        BY Disjoint
      <3>5. QED
        BY <1>1, <1>2, <2>2, <3>1, <3>2, <3>3, <3>4 DEF KidAt, o
    <2>3. CASE ~(d = o /\ x = n) /\ ~(d = s /\ x = up) /\ u.kid[d][x] = n
      <3>1. k = up
        BY <1>4, <2>3 DEF L
      <3>2. u.parent[n] = x /\ g.own[x] = a /\ n # NULL /\ x # n
        BY <1>0, <1>11, <2>3, Disjoint, KidFacts
      <3>3. r.parent[up] = x
        BY <1>2, <1>4, <3>2 DEF L
      <3>4. x # up
        <4>1. Rank(g)[n] < Rank(g)[x] /\ Rank(g)[up] < Rank(g)[n]
          BY <1>0, <1>1, <1>2, <2>3, RankFalls, Disjoint DEF up
        <4>2. Rank(g) \in [Nodes -> Nat]
          BY <1>0, RankFalls
        <4>3. QED
          BY <1>2, <4>1, <4>2
      <3>5. g.end[d][n] = g.end[d][x] /\ g.end[Other(d)][n] = g.pos[x] + toward(d)
        BY <1>11, <2>3, <3>2
      <3>6. E[d][up] = E[d][x] /\ E[Other(d)][up] = g.pos[x] + toward(d)
        <4>1. CASE d = s
          BY <1>1, <1>2, <1>8, <1>9, <3>2, <3>4, <3>5, <4>1 DEF o
        <4>2. CASE d = o
          BY <1>1, <1>2, <1>8, <1>9, <3>2, <3>4, <3>5, <4>2
        <4>3. QED
          BY <1>1, <4>1, <4>2
      <3>7. up # NULL
        BY <1>2, Disjoint
      <3>8. QED
        BY <1>2, <3>1, <3>2, <3>3, <3>6, <3>7 DEF KidAt
    <2>4. CASE ~(d = o /\ x = n) /\ ~(d = s /\ x = up) /\ u.kid[d][x] # n
      <3>1. k = u.kid[d][x]
        BY <1>4, <2>4 DEF L
      <3>2. E[d][x] = g.end[d][x]
        BY <1>8, <2>4
      <3>3. CASE k = NULL
        BY <1>12, <1>14, <3>1, <3>2, <3>3 DEF KidAt
      <3>4. CASE k # NULL
        <4>1. k \in Nodes /\ u.parent[k] = x /\ g.own[k] = g.own[x]
              /\ g.end[d][k] = g.end[d][x] /\ g.end[Other(d)][k] = g.pos[x] + toward(d)
          BY <1>11, <3>1, <3>4
        <4>2. k # up
          <5>1. k = up => x = n
            BY <1>2, <4>1
          <5>2. x = n => d = s
            BY <1>1, <2>4
          <5>3. x = n => u.kid[Other(o)][n] # up
            BY <1>0, <1>1, <1>2, KidFacts, Disjoint DEF up
          <5>4. QED
            BY <1>1, <3>1, <5>1, <5>2, <5>3
        <4>3. k # mid
          <5>1. k = mid => x = up
            BY <1>3, <3>4, <4>1
          <5>2. x = up => d = o
            BY <1>1, <2>4
          <5>3. QED
            BY <1>3, <3>1, <3>4, <5>1, <5>2
        <4>4. r.parent[k] = x
          BY <1>4, <2>4, <3>1, <4>1, <4>2, <4>3 DEF L
        <4>5. E[d][k] = g.end[d][k] /\ E[Other(d)][k] = g.end[Other(d)][k]
          BY <1>1, <1>8, <2>4, <3>1, <4>1, <4>2, Sides
        <4>6. QED
          BY <3>2, <3>4, <4>1, <4>4, <4>5 DEF KidAt
      <3>5. QED
        BY <3>3, <3>4
    <2>5. QED
      BY <2>1, <2>2, <2>3, <2>4
  <1>15. ASSUME NEW x \in Nodes, g.own[x] # NULL
         PROVE  ParentAt(r, h, x)
    <2>0. \A b \in Trees : u.parent[b] = n => b = a /\ u.parent[n] = a
      <3> SUFFICES ASSUME NEW b \in Trees, u.parent[b] = n
                   PROVE  b = a /\ u.parent[n] = a
        OBVIOUS
      <3>1. AnchorAt(u, g, b)
        BY <1>0 DEF TreesAt
      <3>2. QED
        BY <3>1, Disjoint DEF AnchorAt
    <2>1. CASE x = n
      <3>1. r.parent[n] = up /\ r.kid[s][up] = n
        BY <1>1, <1>2, <1>4 DEF L
      <3>2. QED
        BY <1>2, <2>1, <3>1 DEF ParentAt
    <2>2. CASE x = mid
      <3>1. mid # n /\ mid # up
        BY <1>3, <1>a, <2>2, Disjoint
      <3>2. r.parent[mid] = n /\ r.kid[o][n] = mid
        BY <1>1, <1>2, <1>4, <2>2, <3>1 DEF L
      <3>3. QED
        BY <1>1, <2>2, <3>2 DEF ParentAt
    <2>3. CASE x = up
      <3>1. r.parent[up] = u.parent[n]
        BY <1>2, <1>4 DEF L
      <3>2. CASE u.parent[n] \in Nodes
        <4>1. PICK d \in Side : u.kid[d][u.parent[n]] = n
          BY <1>0, <3>2, ParentFacts
        <4>2. u.parent[n] # n
          BY <1>0, <3>2, ParentFacts
        <4>3. u.parent[n] # up
          <5>1. Rank(g)[n] < Rank(g)[u.parent[n]] /\ Rank(g)[up] < Rank(g)[n]
            BY <1>0, <1>1, <1>2, <3>2, <4>1, RankFalls, Disjoint DEF up
          <5>2. Rank(g) \in [Nodes -> Nat]
            BY <1>0, RankFalls
          <5>3. QED
            BY <1>2, <5>1, <5>2
        <4>4. r.kid[d][u.parent[n]] = up
          BY <1>4, <3>2, <4>1, <4>2, <4>3 DEF L
        <4>5. QED
          BY <2>3, <3>1, <3>2, <4>4 DEF ParentAt
      <3>3. CASE u.parent[n] \notin Nodes
        <4>1. u.parent[n] = a /\ u.parent[a] = n
          BY <1>0, <3>3, ParentFacts
        <4>2. r.parent[a] = up
          BY <1>4, <4>1 DEF L
        <4>3. QED
          BY <1>2, <2>3, <3>1, <4>1, <4>2 DEF ParentAt
      <3>4. QED
        BY <3>2, <3>3
    <2>4. CASE x # n /\ x # up /\ x # mid
      <3>1. r.parent[x] = u.parent[x]
        BY <1>4, <2>4 DEF L
      <3>2. CASE u.parent[x] \in Nodes
        <4>1. PICK d \in Side : u.kid[d][u.parent[x]] = x
          BY <1>15, <1>0, <3>2, ParentFacts
        <4>2. r.kid[d][u.parent[x]] = x
          <5>1. ~(d = o /\ u.parent[x] = n)
            BY <2>4, <4>1 DEF up
          <5>2. ~(d = s /\ u.parent[x] = up)
            BY <2>4, <4>1 DEF mid
          <5>3. QED
            BY <1>4, <2>4, <3>2, <4>1, <5>1, <5>2 DEF L
        <4>3. QED
          BY <3>1, <3>2, <4>2 DEF ParentAt
      <3>3. CASE u.parent[x] \notin Nodes
        <4>1. u.parent[x] = g.own[x] /\ u.parent[g.own[x]] = x /\ g.own[x] \in Trees
          BY <1>15, <1>0, <3>3, ParentFacts, NodeFacts, Sides
        <4>2. r.parent[g.own[x]] = x
          BY <1>4, <2>4, <4>1 DEF L
        <4>3. QED
          BY <3>1, <4>1, <4>2 DEF ParentAt
      <3>4. QED
        BY <3>2, <3>3
    <2>5. QED
      BY <2>1, <2>2, <2>3, <2>4
  <1>16. NodesAt(r, h)
    <2> SUFFICES ASSUME NEW x \in Nodes
                 PROVE  IF g.own[x] = NULL THEN Loose(r, x) ELSE Placed(r, h, x)
      BY DEF NodesAt
    <2>1. CASE g.own[x] = NULL
      <3>1. Loose(u, x) /\ x # n /\ x # up /\ x # mid
        BY <1>0, <1>2, <1>3, <2>1, Disjoint DEF NodesAt
      <3>2. Loose(r, x)
        BY <1>4, <3>1, Disjoint DEF Loose, L
      <3>3. QED
        BY <2>1, <3>2
    <2>2. CASE g.own[x] # NULL
      <3>1. /\ 1 <= g.pos[x] /\ g.pos[x] <= g.len[g.own[x]] /\ g.at[g.own[x]][g.pos[x]] = x
        BY <1>0, <2>2 DEF NodesAt, Placed
      <3>2. KidAt(r, h, x, "left") /\ KidAt(r, h, x, "right") /\ ParentAt(r, h, x)
        BY <1>1, <1>14, <1>15, <2>2
      <3>3. QED
        BY <1>13, <2>2, <3>1, <3>2 DEF Placed
    <2>3. QED
      BY <2>1, <2>2
  <1>17. TreesAt(r, h)
    <2> SUFFICES ASSUME NEW b \in Trees
                 PROVE  /\ r.color[b] = "red"
                        /\ \A i \in 1 .. g.len[b] : g.at[b][i] \in Nodes /\ g.own[g.at[b][i]] = b /\ g.pos[g.at[b][i]] = i
                        /\ AnchorAt(r, h, b)
      BY DEF TreesAt
    <2>1. /\ u.color[b] = "red" /\ AnchorAt(u, g, b)
          /\ \A i \in 1 .. g.len[b] : g.at[b][i] \in Nodes /\ g.own[g.at[b][i]] = b /\ g.pos[g.at[b][i]] = i
      BY <1>0 DEF TreesAt
    <2>2. /\ r.color[b] = u.color[b] /\ \A d \in Side : r.kid[d][b] = u.kid[d][b]
          /\ r.parent[b] = IF u.parent[b] = n THEN up ELSE u.parent[b]
      BY <1>4, Disjoint DEF L
    <2>3. CASE g.len[b] = 0
      <3>1. u.parent[b] = NULL /\ u.parent[b] # n
        BY <2>1, <2>3, Disjoint DEF AnchorAt
      <3>2. QED
        BY <1>1, <2>1, <2>2, <2>3, <3>1 DEF AnchorAt
    <2>4. CASE g.len[b] # 0
      <3> DEFINE z == u.parent[b]
      <3>1. /\ z \in Nodes /\ g.own[z] = b /\ u.parent[z] = b
            /\ g.end["left"][z] = 1 /\ g.end["right"][z] = g.len[b]
            /\ u.kid["left"][b] = g.at[b][1] /\ u.kid["right"][b] = g.at[b][g.len[b]]
        BY <2>1, <2>4 DEF AnchorAt
      <3>2. CASE z = n
        <4>1. r.parent[b] = up /\ r.parent[up] = b
          BY <1>2, <1>4, <2>2, <3>1, <3>2 DEF L
        <4>2. g.own[up] = b
          BY <1>2, <3>1, <3>2
        <4>3. E["left"][up] = 1 /\ E["right"][up] = g.len[b]
          BY <1>1, <1>2, <1>6, <1>8, <1>9, <3>1, <3>2
        <4>4. r.kid["left"][b] = g.at[b][1] /\ r.kid["right"][b] = g.at[b][g.len[b]]
          BY <1>1, <2>2, <3>1
        <4> HIDE DEF up, E
        <4>5. up \in Nodes
          BY <1>2
        <4>6. h.own = g.own /\ h.len = g.len /\ h.at = g.at /\ h.end = E
          OBVIOUS
        <4> HIDE DEF h
        <4>7. AnchorAt(r, h, b)
          BY <2>4, <4>1, <4>2, <4>3, <4>4, <4>5, <4>6, ZenonT(30), SMTT(30) DEF AnchorAt
        <4>8. QED
          BY <2>1, <2>2, <4>6, <4>7
      <3>3. CASE z # n
        <4>1. z # up /\ z # mid
          BY <1>2, <1>3, <3>1, Disjoint
        <4>2. r.parent[b] = z /\ r.parent[z] = b
          BY <1>4, <2>2, <3>1, <3>3, <4>1 DEF L
        <4>3. E["left"][z] = 1 /\ E["right"][z] = g.len[b]
          BY <1>1, <1>8, <3>1, <3>3, <4>1
        <4>4. r.kid["left"][b] = g.at[b][1] /\ r.kid["right"][b] = g.at[b][g.len[b]]
          BY <1>1, <2>2, <3>1
        <4> HIDE DEF z, E
        <4>5. z \in Nodes /\ g.own[z] = b
          BY <3>1
        <4>6. h.own = g.own /\ h.len = g.len /\ h.at = g.at /\ h.end = E
          OBVIOUS
        <4> HIDE DEF h
        <4>7. AnchorAt(r, h, b)
          BY <2>4, <4>2, <4>3, <4>4, <4>5, <4>6, ZenonT(30), SMTT(30) DEF AnchorAt
        <4>8. QED
          BY <2>1, <2>2, <4>6, <4>7
      <3>4. QED
        BY <3>2, <3>3
    <2>5. QED
      BY <2>1, <2>2, <2>3, <2>4
  <1>18. Shape(r, h)
    <2>1. r \in Graph
      BY <1>4 DEF L
    <2>2. QED
      BY <1>7, <1>16, <1>17, <2>1 DEF Shape, Nodal
  <1>19. h.own = g.own /\ h.at = g.at /\ h.len = g.len
    OBVIOUS
  <1>20. QED
    BY <1>18, <1>19 DEF r

\* What RBTreeInsert writes, field by field.
LEMMA AttachLinks ==
  ASSUME NEW u, NEW g, Shape(u, g), NEW a \in Trees, NEW n \in Nodes, g.own[n] = NULL,
         NEW s \in Side, NEW p,
         \/ p = a /\ g.len[a] = 0 /\ s = "left"
         \/ p \in Nodes /\ g.own[p] = a /\ u.kid[s][p] = NULL
  PROVE  LET r == Attach(u, a, n, p, s)
         IN  /\ r \in Graph
             /\ \A x \in Links : r.color[x] = IF x = n THEN "red" ELSE u.color[x]
             /\ \A x \in Nodes, d \in Side :
                  r.kid[d][x] = IF x = n THEN NULL ELSE IF d = s /\ x = p THEN n ELSE u.kid[d][x]
             /\ \A x \in Nodes : r.parent[x] = IF x = n THEN p ELSE u.parent[x]
             /\ \A b \in Trees :
                  /\ r.parent[b] = IF b = a /\ p = a THEN n ELSE u.parent[b]
                  /\ \A d \in Side : r.kid[d][b] = IF b = a /\ (p = a \/ (d = s /\ p = u.kid[s][a]))
                                                   THEN n ELSE u.kid[d][b]
  <1> DEFINE r == Attach(u, a, n, p, s)
             v1 == SetKid(u, "left", n, NULL)
             v2 == SetKid(v1, "right", n, NULL)
             v3 == Paint(v2, n, "red")
             v4 == SetParent(v3, n, p)
             w == SetKid(v4, s, p, n)
             v5 == SetParent(w, a, n)
  <1>1. r = IF p = a THEN SetKid(v5, "right", a, n)
            ELSE IF p = v4.kid[s][a] THEN SetKid(w, s, a, n) ELSE w
    <2> HIDE DEF v3
    <2>1. r = IF p = a THEN SetKid(SetParent(SetKid(SetParent(Paint(v2, n, "red"), n, p), s, p, n), a, n), "right", a, n)
              ELSE IF p = SetParent(Paint(v2, n, "red"), n, p).kid[s][a]
              THEN SetKid(SetKid(SetParent(Paint(v2, n, "red"), n, p), s, p, n), s, a, n)
              ELSE SetKid(SetParent(Paint(v2, n, "red"), n, p), s, p, n)
      BY ZenonT(30), SMTT(30) DEF Attach
    <2>2. QED
      BY <2>1, ZenonT(30), SMTT(30) DEF v3
  <1> HIDE DEF r, v1, v2, v3, v4, w, v5
  <1>2. u \in Graph /\ n \in Links /\ p \in Links /\ a \in Links /\ NULL \in Links \cup {NULL}
        /\ "left" \in Side /\ "right" \in Side /\ "red" \in Color /\ p # n /\ a # n
        /\ Side = {"left", "right"} /\ (p = a \/ p \notin Trees)
    BY Disjoint DEF Shape, Nodal, Side, Color
  <1>3. v1 \in Graph /\ KidSet(v1, u, "left", n, NULL)
    BY <1>2, SetKidIs DEF v1
  <1>4. v2 \in Graph /\ KidSet(v2, v1, "right", n, NULL)
    BY <1>2, <1>3, SetKidIs DEF v2
  <1>5. v3 \in Graph /\ Painted(v3, v2, n, "red")
    BY <1>2, <1>4, PaintIs DEF v3
  <1>6. v4 \in Graph /\ ParentSet(v4, v3, n, p)
    BY <1>2, <1>5, SetParentIs DEF v4
  <1>7. w \in Graph /\ KidSet(w, v4, s, p, n)
    BY <1>2, <1>6, SetKidIs DEF w
  <1>8. /\ \A x \in Links : w.color[x] = IF x = n THEN "red" ELSE u.color[x]
        /\ \A x \in Links : w.parent[x] = IF x = n THEN p ELSE u.parent[x]
        /\ \A x \in Links, d \in Side :
             w.kid[d][x] = IF x = n THEN NULL ELSE IF d = s /\ x = p THEN n ELSE u.kid[d][x]
        /\ v4.kid[s][a] = u.kid[s][a]
    BY <1>2, <1>3, <1>4, <1>5, <1>6, <1>7 DEF KidSet, ParentSet, Painted
  <1>9. \A x \in Nodes : x \in Links /\ x # a
    BY Disjoint
  <1>10. \A b \in Trees : b \in Links /\ b # n
    BY Disjoint
  <1> DEFINE L == /\ \A x \in Links : r.color[x] = IF x = n THEN "red" ELSE u.color[x]
                  /\ \A x \in Nodes, d \in Side :
                       r.kid[d][x] = IF x = n THEN NULL ELSE IF d = s /\ x = p THEN n ELSE u.kid[d][x]
                  /\ \A x \in Nodes : r.parent[x] = IF x = n THEN p ELSE u.parent[x]
                  /\ \A b \in Trees :
                       /\ r.parent[b] = IF b = a /\ p = a THEN n ELSE u.parent[b]
                       /\ \A d \in Side : r.kid[d][b] = IF b = a /\ (p = a \/ (d = s /\ p = u.kid[s][a]))
                                                        THEN n ELSE u.kid[d][b]
  <1> SUFFICES r \in Graph /\ L
    BY ZenonT(30), SMTT(30) DEF r
  <1>11. CASE p = a
    <2>1. s = "left"
      BY <1>11, Disjoint
    <2>2. v5 \in Graph /\ ParentSet(v5, w, a, n)
      BY <1>2, <1>7, SetParentIs DEF v5
    <2>3. r \in Graph /\ KidSet(r, v5, "right", a, n)
      BY <1>1, <1>2, <1>11, <2>2, SetKidIs, SMTT(30), ZenonT(30)
    <2>4. L
      BY <1>2, <1>8, <1>9, <1>10, <1>11, <2>1, <2>2, <2>3 DEF KidSet, ParentSet
    <2>5. QED
      BY <2>3, <2>4
  <1>12. CASE p # a /\ p = v4.kid[s][a]
    <2>1. r \in Graph /\ KidSet(r, w, s, a, n)
      BY <1>1, <1>2, <1>7, <1>12, SetKidIs
    <2>2. L
      BY <1>2, <1>8, <1>9, <1>10, <1>12, <2>1 DEF KidSet
    <2>3. QED
      BY <2>1, <2>2
  <1>13. CASE p # a /\ p # v4.kid[s][a]
    <2>1. r = w
      BY <1>1, <1>13
    <2>2. L
      BY <1>2, <1>8, <1>9, <1>10, <1>13, <2>1
    <2>3. QED
      BY <1>7, <2>1, <2>2
  <1>14. QED
    BY <1>11, <1>12, <1>13

\* The new node takes a position between two others, and everything else stays in
\* order.
LEMMA AttachShape ==
  ASSUME NEW u, NEW g, Shape(u, g), NEW a \in Trees, NEW n \in Nodes, g.own[n] = NULL,
         NEW s \in Side, NEW p,
         \/ p = a /\ g.len[a] = 0 /\ s = "left"
         \/ p \in Nodes /\ g.own[p] = a /\ u.kid[s][p] = NULL
  PROVE  \E h : /\ Shape(Attach(u, a, n, p, s), h)
                /\ h.own = [g.own EXCEPT ![n] = a] /\ h.len = [g.len EXCEPT ![a] = @ + 1]
  <1> DEFINE r == Attach(u, a, n, p, s)
             q == IF p = a THEN 0 ELSE g.pos[p]
             P == IF s = "left" /\ p # a THEN q ELSE q + 1
             own == [g.own EXCEPT ![n] = a]
             len == [g.len EXCEPT ![a] = @ + 1]
             pos == [x \in Nodes |-> IF x = n THEN P
                                     ELSE IF g.own[x] = a /\ g.pos[x] >= P THEN g.pos[x] + 1
                                     ELSE g.pos[x]]
             lo == [x \in Nodes |-> IF x = n THEN P
                                    ELSE IF g.own[x] = a /\ g.end["left"][x] > q THEN g.end["left"][x] + 1
                                    ELSE g.end["left"][x]]
             hi == [x \in Nodes |-> IF x = n THEN P
                                    ELSE IF g.own[x] = a /\ g.end["right"][x] >= q THEN g.end["right"][x] + 1
                                    ELSE g.end["right"][x]]
             E == [d \in Side |-> IF d = "left" THEN lo ELSE hi]
             at == [b \in Trees |-> [i \in Int |-> IF b # a \/ i < P THEN g.at[b][i]
                                                   ELSE IF i = P THEN n ELSE g.at[b][i - 1]]]
             h == [own |-> own, pos |-> pos, end |-> E, at |-> at, len |-> len]
  <1>0. Nodal(u, g) /\ u \in Graph /\ g \in Ghosts /\ TreesAt(u, g) /\ NodesAt(u, g)
    BY DEF Shape, Nodal
  <1>1. Side = {"left", "right"} /\ "left" \in Side /\ "right" \in Side
        /\ Other("left") = "right" /\ Other("right") = "left" /\ toward("left") = -1 /\ toward("right") = 1
    BY DEF Side, Other, toward
  <1>2. (p = a /\ g.len[a] = 0 /\ s = "left") \/ (p \in Nodes /\ p # a /\ g.own[p] = a /\ u.kid[s][p] = NULL)
    BY Disjoint
  <1> DEFINE L == /\ r \in Graph
                  /\ \A x \in Links : r.color[x] = IF x = n THEN "red" ELSE u.color[x]
                  /\ \A x \in Nodes, d \in Side :
                       r.kid[d][x] = IF x = n THEN NULL ELSE IF d = s /\ x = p THEN n ELSE u.kid[d][x]
                  /\ \A x \in Nodes : r.parent[x] = IF x = n THEN p ELSE u.parent[x]
                  /\ \A b \in Trees :
                       /\ r.parent[b] = IF b = a /\ p = a THEN n ELSE u.parent[b]
                       /\ \A d \in Side : r.kid[d][b] = IF b = a /\ (p = a \/ (d = s /\ p = u.kid[s][a]))
                                                        THEN n ELSE u.kid[d][b]
  <1>3. L
    BY AttachLinks
  <1>4. /\ \A x \in Nodes : g.pos[x] \in Int /\ g.end["left"][x] \in Int /\ g.end["right"][x] \in Int
        /\ \A x \in Nodes : g.own[x] \in Trees \cup {NULL}
        /\ \A b \in Trees : g.len[b] \in Nat
        /\ \A b \in Trees, i \in Int : g.at[b][i] \in Nodes \cup {NULL}
    BY <1>0, <1>1 DEF Ghosts
  <1>5. q \in Int /\ P \in Int /\ (P = q \/ P = q + 1) /\ 1 <= P /\ P <= g.len[a] + 1
        /\ (p # a => 1 <= q /\ q <= g.len[a])
    <2>1. CASE p = a
      BY <1>2, <1>4, <2>1
    <2>2. CASE p # a
      <3>1. q \in Int /\ q = g.pos[p] /\ 1 <= g.pos[p] /\ g.pos[p] <= g.len[a] /\ g.len[a] \in Nat
        BY <1>0, <1>2, <1>4, <2>2, Disjoint DEF NodesAt, Placed
      <3> HIDE DEF q
      <3>2. QED
        BY <2>2, <3>1
    <2>3. QED
      BY <2>1, <2>2
  <1> HIDE DEF q, P
  <1>6. h \in Ghosts
    <2>1. own \in [Nodes -> Trees \cup {NULL}] /\ len \in [Trees -> Nat]
      BY <1>0, <1>4 DEF Ghosts
    <2>2. pos \in [Nodes -> Int]
      BY <1>4, <1>5
    <2>3. lo \in [Nodes -> Int] /\ hi \in [Nodes -> Int]
      BY <1>4, <1>5
    <2>4. E \in [Side -> [Nodes -> Int]]
      <3> HIDE DEF lo, hi
      <3>1. QED
        BY <2>3
    <2>5. at \in [Trees -> [Int -> Nodes \cup {NULL}]]
      <3>1. \A b \in Trees, i \in Int : at[b][i] \in Nodes \cup {NULL}
        BY <1>4, <1>5
      <3>2. QED
        BY <3>1
    <2> HIDE DEF own, len, pos, E, at
    <2>6. QED
      BY <2>1, <2>2, <2>4, <2>5 DEF Ghosts
  <1>7. \A x \in Nodes : own[x] = IF x = n THEN a ELSE g.own[x]
    BY <1>0 DEF Ghosts
  <1>8. \A b \in Trees : len[b] = IF b = a THEN g.len[a] + 1 ELSE g.len[b]
    BY <1>0 DEF Ghosts
  <1>9. /\ pos[n] = P /\ E["left"][n] = P /\ E["right"][n] = P
        /\ \A x \in Nodes : x # n /\ g.own[x] # a =>
             pos[x] = g.pos[x] /\ E["left"][x] = g.end["left"][x] /\ E["right"][x] = g.end["right"][x]
        /\ \A x \in Nodes : x # n /\ g.own[x] = a =>
             /\ pos[x] = IF g.pos[x] >= P THEN g.pos[x] + 1 ELSE g.pos[x]
             /\ E["left"][x] = IF g.end["left"][x] > q THEN g.end["left"][x] + 1 ELSE g.end["left"][x]
             /\ E["right"][x] = IF g.end["right"][x] >= q THEN g.end["right"][x] + 1 ELSE g.end["right"][x]
    BY <1>1
  <1>10. \A b \in Trees, i \in Int : at[b][i] = IF b # a \/ i < P THEN g.at[b][i]
                                                ELSE IF i = P THEN n ELSE g.at[b][i - 1]
    OBVIOUS
  <1>11. \A x \in Nodes : g.own[x] # NULL =>
           /\ 1 <= g.pos[x] /\ g.pos[x] <= g.len[g.own[x]] /\ g.at[g.own[x]][g.pos[x]] = x
           /\ g.end["left"][x] <= g.pos[x] /\ g.pos[x] <= g.end["right"][x]
    BY <1>0 DEF NodesAt, Placed
  <1>12. \A x \in Nodes, d \in Side : u.kid[d][x] # NULL =>
           /\ u.kid[d][x] \in Nodes /\ u.kid[d][x] # n /\ u.parent[u.kid[d][x]] = x
           /\ g.own[u.kid[d][x]] = g.own[x] /\ g.own[x] # NULL
           /\ g.end[d][u.kid[d][x]] = g.end[d][x]
           /\ g.end[Other(d)][u.kid[d][x]] = g.pos[x] + toward(d)
    BY <1>0, KidFacts
  <1>13. \A x \in Nodes, d \in Side : g.own[x] # NULL /\ u.kid[d][x] = NULL => g.end[d][x] = g.pos[x]
    <2> SUFFICES ASSUME NEW x \in Nodes, NEW d \in Side, g.own[x] # NULL, u.kid[d][x] = NULL
                 PROVE  g.end[d][x] = g.pos[x]
      OBVIOUS
    <2>1. KidAt(u, g, x, d)
      BY <1>0, NodeFacts
    <2>2. QED
      BY <2>1 DEF KidAt
  <1>14. \A x \in Nodes : g.own[x] = a /\ x # p => p # a /\ g.pos[x] # q
    <2>1. p = a => \A x \in Nodes : g.own[x] # a
      BY <1>2, <1>4, <1>11, Disjoint
    <2>2. QED
      BY <1>0, <1>2, <2>1, OneAtEach, Disjoint DEF q
  <1> HIDE DEF own, len, pos, E, at, L, r
  <1>15. \A x \in Nodes : own[x] # NULL => E["left"][x] <= pos[x] /\ pos[x] <= E["right"][x]
    <2> SUFFICES ASSUME NEW x \in Nodes, own[x] # NULL
                 PROVE  E["left"][x] <= pos[x] /\ pos[x] <= E["right"][x]
      OBVIOUS
    <2>1. CASE x = n
      BY <1>5, <1>9, <2>1
    <2>2. CASE x # n /\ g.own[x] # a
      BY <1>7, <1>9, <1>11, <2>2
    <2>3. CASE x # n /\ g.own[x] = a /\ x # p
      BY <1>4, <1>5, <1>7, <1>9, <1>11, <1>14, <2>3
    <2>4. CASE x # n /\ g.own[x] = a /\ x = p
      BY <1>4, <1>5, <1>7, <1>9, <1>11, <2>4, Disjoint DEF q
    <2>5. QED
      BY <2>1, <2>2, <2>3, <2>4
  <1>16. ASSUME NEW x \in Nodes, own[x] # NULL, NEW d \in Side
         PROVE  KidAt(r, h, x, d)
    <2> DEFINE k == r.kid[d][x]
    <2>1. CASE x = n
      <3>1. k = NULL /\ E[d][n] = pos[n]
        BY <1>1, <1>3, <1>9, <2>1 DEF L
      <3>2. QED
        BY <2>1, <3>1 DEF KidAt
    <2>2. CASE x = p /\ d = s
      <3>1. p \in Nodes /\ p # a /\ p # n /\ g.own[p] = a /\ u.kid[s][p] = NULL /\ g.own[n] = NULL
        BY <1>2, <2>2, Disjoint
      <3>2. k = n /\ r.parent[n] = p /\ n # NULL
        BY <1>3, <2>2, <3>1, Disjoint DEF L
      <3>3. own[n] = own[p]
        BY <1>7, <3>1
      <3>4. q = g.pos[p] /\ g.end[s][p] = q /\ q \in Int
        BY <1>4, <1>13, <3>1, Disjoint DEF q
      <3>5. CASE s = "left"
        <4>1. P = q
          BY <3>1, <3>5 DEF P
        <4>2. pos[p] = q + 1 /\ E["left"][p] = q /\ E["left"][n] = q /\ E["right"][n] = q
          BY <1>9, <3>1, <3>4, <3>5, <4>1
        <4>3. E[d][n] = E[d][p] /\ E[Other(d)][n] = pos[p] + toward(d)
          BY <1>1, <2>2, <3>4, <3>5, <4>2
        <4>4. QED
          BY <2>2, <3>2, <3>3, <4>3 DEF KidAt
      <3>6. CASE s = "right"
        <4>1. P = q + 1
          BY <3>1, <3>6 DEF P
        <4>2. pos[p] = q /\ E["right"][p] = q + 1 /\ E["left"][n] = q + 1 /\ E["right"][n] = q + 1
          BY <1>9, <3>1, <3>4, <3>6, <4>1
        <4>3. E[d][n] = E[d][p] /\ E[Other(d)][n] = pos[p] + toward(d)
          BY <1>1, <2>2, <3>4, <3>6, <4>2
        <4>4. QED
          BY <2>2, <3>2, <3>3, <4>3 DEF KidAt
      <3>7. QED
        BY <1>1, <3>5, <3>6
    <2>3. CASE x # n /\ ~(x = p /\ d = s)
      <3>1. k = u.kid[d][x] /\ g.own[x] = own[x]
        BY <1>3, <1>7, <2>3 DEF L
      <3>2. g.own[x] = a /\ x = p => P = IF d = "left" THEN q + 1 ELSE q
        BY <1>1, <1>2, <2>3, Disjoint DEF P
      <3>3. g.own[x] = a /\ x = p => g.pos[x] = q
        BY <1>2, Disjoint DEF q
      <3>4. g.own[x] = a /\ x # p => g.pos[x] # q
        BY <1>14
      <3>5. CASE k = NULL
        <4>1. g.end[d][x] = g.pos[x]
          BY <1>13, <1>16, <3>1, <3>5
        <4>2. E[d][x] = pos[x]
          <5>1. CASE g.own[x] # a
            BY <1>1, <1>9, <2>3, <4>1, <5>1
          <5>2. CASE g.own[x] = a /\ d = "left"
            BY <1>4, <1>5, <1>9, <2>3, <3>2, <3>3, <3>4, <4>1, <5>2
          <5>3. CASE g.own[x] = a /\ d = "right"
            <6>1. /\ g.pos[x] \in Int /\ q \in Int /\ g.end["right"][x] = g.pos[x]
                  /\ pos[x] = IF g.pos[x] >= P THEN g.pos[x] + 1 ELSE g.pos[x]
                  /\ E["right"][x] = IF g.end["right"][x] >= q THEN g.end["right"][x] + 1 ELSE g.end["right"][x]
              BY <1>4, <1>5, <1>9, <2>3, <4>1, <5>3
            <6>2. x = p => P = q /\ g.pos[x] = q
              BY <3>2, <3>3, <5>3
            <6>3. x # p => g.pos[x] # q
              BY <3>4, <5>3
            <6>4. QED
              BY <1>5, <5>3, <6>1, <6>2, <6>3
          <5>4. QED
            BY <1>1, <5>1, <5>2, <5>3
        <4>3. QED
          BY <3>5, <4>2 DEF KidAt
      <3>6. CASE k # NULL
        <4>1. /\ k \in Nodes /\ k # n /\ u.parent[k] = x /\ g.own[k] = g.own[x]
              /\ g.end[d][k] = g.end[d][x] /\ g.end[Other(d)][k] = g.pos[x] + toward(d)
          BY <1>12, <3>1, <3>6
        <4>2. r.parent[k] = x /\ own[k] = own[x]
          BY <1>3, <1>7, <3>1, <4>1 DEF L
        <4>3. E[d][k] = E[d][x] /\ E[Other(d)][k] = pos[x] + toward(d)
          <5> HIDE DEF k
          <5>1. CASE g.own[x] # a
            BY <1>1, <1>9, <2>3, <4>1, <5>1
          <5>2. CASE g.own[x] = a /\ d = "left"
            <6>1. /\ g.pos[x] \in Int /\ q \in Int /\ g.end["left"][k] = g.end["left"][x]
                  /\ g.end["right"][k] = g.pos[x] + toward("left") /\ toward("left") = -1 /\ Other("left") = "right"
                  /\ pos[x] = IF g.pos[x] >= P THEN g.pos[x] + 1 ELSE g.pos[x]
              BY <1>1, <1>4, <1>5, <1>9, <2>3, <4>1, <5>2
            <6>2. QED
              BY <1>1, <1>4, <1>5, <1>9, <2>3, <3>2, <3>3, <3>4, <4>1, <5>2, <6>1, SMTT(30), ZenonT(30)
          <5>3. CASE g.own[x] = a /\ d = "right"
            <6>1. /\ g.pos[x] \in Int /\ q \in Int /\ g.end["right"][k] = g.end["right"][x]
                  /\ g.end["left"][k] = g.pos[x] + 1 /\ g.end["right"][x] \in Int
                  /\ pos[x] = IF g.pos[x] >= P THEN g.pos[x] + 1 ELSE g.pos[x]
                  /\ E["right"][x] = IF g.end["right"][x] >= q THEN g.end["right"][x] + 1 ELSE g.end["right"][x]
                  /\ E["right"][k] = IF g.end["right"][k] >= q THEN g.end["right"][k] + 1 ELSE g.end["right"][k]
                  /\ E["left"][k] = IF g.end["left"][k] > q THEN g.end["left"][k] + 1 ELSE g.end["left"][k]
              BY <1>1, <1>4, <1>5, <1>9, <2>3, <4>1, <5>3
            <6>2. x = p => P = q /\ g.pos[x] = q
              BY <3>2, <3>3, <5>3
            <6>3. x # p => g.pos[x] # q
              BY <3>4, <5>3
            <6>4. E["right"][k] = E["right"][x] /\ E["left"][k] = pos[x] + 1
              BY <1>5, <6>1, <6>2, <6>3
            <6>5. QED
              BY <1>1, <5>3, <6>4
          <5>4. QED
            BY <1>1, <5>1, <5>2, <5>3
        <4>4. QED
          BY <3>6, <4>1, <4>2, <4>3 DEF KidAt
      <3>7. QED
        BY <3>5, <3>6
    <2>4. QED
      BY <2>1, <2>2, <2>3
  <1>17. ASSUME NEW x \in Nodes, own[x] # NULL
         PROVE  ParentAt(r, h, x)
    <2>1. CASE x = n
      <3>1. r.parent[n] = p /\ own[n] = a
        BY <1>3, <1>7 DEF L
      <3>2. CASE p = a
        BY <1>3, <2>1, <3>1, <3>2 DEF L, ParentAt
      <3>3. CASE p # a
        <4>1. p \in Nodes /\ p # n /\ r.kid[s][p] = n
          BY <1>2, <1>3, <3>3, Disjoint DEF L
        <4>2. QED
          BY <2>1, <3>1, <4>1 DEF ParentAt
      <3>4. QED
        BY <3>2, <3>3
    <2>2. CASE x # n
      <3>1. g.own[x] # NULL /\ own[x] = g.own[x] /\ r.parent[x] = u.parent[x]
        BY <1>3, <1>7, <1>17, <2>2 DEF L
      <3>2. CASE u.parent[x] \in Nodes
        <4>1. PICK d \in Side : u.kid[d][u.parent[x]] = x
          BY <1>0, <3>1, <3>2, ParentFacts
        <4>2. x # NULL /\ u.parent[x] # n
          BY <1>0, <3>1, <3>2, ParentFacts, Disjoint
        <4>3. r.kid[d][u.parent[x]] = x
          BY <1>2, <1>3, <3>2, <4>1, <4>2, Disjoint DEF L
        <4>4. QED
          BY <3>1, <3>2, <4>3 DEF ParentAt
      <3>3. CASE u.parent[x] \notin Nodes
        <4>1. u.parent[x] = g.own[x] /\ u.parent[g.own[x]] = x /\ g.own[x] \in Trees
          BY <1>0, <1>4, <3>1, <3>3, ParentFacts
        <4>2. g.own[x] = a => p # a
          BY <1>2, <1>4, <1>11, <3>1, Disjoint
        <4>3. r.parent[g.own[x]] = x
          BY <1>3, <4>1, <4>2 DEF L
        <4>4. QED
          BY <3>1, <4>1, <4>3 DEF ParentAt
      <3>4. QED
        BY <3>2, <3>3
    <2>3. QED
      BY <2>1, <2>2
  <1>18. NodesAt(r, h)
    <2> SUFFICES ASSUME NEW x \in Nodes
                 PROVE  IF own[x] = NULL THEN Loose(r, x) ELSE Placed(r, h, x)
      BY DEF NodesAt
    <2>1. CASE own[x] = NULL
      <3>1. Loose(u, x) /\ x # n /\ x # p /\ x \in Links
        BY <1>0, <1>2, <1>7, <2>1, Disjoint DEF NodesAt
      <3>2. Loose(r, x)
        BY <1>3, <3>1 DEF Loose, L
      <3>3. QED
        BY <2>1, <3>2
    <2>2. CASE own[x] # NULL
      <3>1. 1 <= pos[x] /\ pos[x] <= len[own[x]] /\ at[own[x]][pos[x]] = x
        <4>1. CASE x = n
          BY <1>4, <1>5, <1>7, <1>8, <1>9, <1>10, <4>1
        <4>2. CASE x # n /\ g.own[x] # a
          BY <1>4, <1>7, <1>8, <1>9, <1>10, <1>11, <2>2, <4>2
        <4>3. CASE x # n /\ g.own[x] = a
          <5>1. /\ own[x] = a /\ len[a] = g.len[a] + 1 /\ g.len[a] \in Nat /\ g.pos[x] \in Int /\ P \in Int
                /\ 1 <= g.pos[x] /\ g.pos[x] <= g.len[a] /\ g.at[a][g.pos[x]] = x
                /\ pos[x] = IF g.pos[x] >= P THEN g.pos[x] + 1 ELSE g.pos[x]
            BY <1>4, <1>5, <1>7, <1>8, <1>9, <1>11, <4>3, Disjoint
          <5>2. CASE g.pos[x] >= P
            <6>1. pos[x] - 1 = g.pos[x] /\ pos[x] \in Int /\ ~(pos[x] < P) /\ pos[x] # P
              BY <5>1, <5>2
            <6>2. at[a][pos[x]] = g.at[a][g.pos[x]]
              BY <1>10, <6>1
            <6>3. QED
              BY <5>1, <5>2, <6>1, <6>2
          <5>3. CASE ~(g.pos[x] >= P)
            <6>1. at[a][pos[x]] = g.at[a][g.pos[x]]
              BY <1>10, <5>1, <5>3
            <6>2. QED
              BY <5>1, <5>3, <6>1
          <5>4. QED
            BY <5>2, <5>3
        <4>4. QED
          BY <4>1, <4>2, <4>3
      <3>2. KidAt(r, h, x, "left") /\ KidAt(r, h, x, "right") /\ ParentAt(r, h, x)
        BY <1>1, <1>16, <1>17, <2>2
      <3>3. QED
        BY <1>15, <2>2, <3>1, <3>2 DEF Placed
    <2>3. QED
      BY <2>1, <2>2
  <1>19. TreesAt(r, h)
    <2> SUFFICES ASSUME NEW b \in Trees
                 PROVE  /\ r.color[b] = "red"
                        /\ \A i \in 1 .. len[b] : at[b][i] \in Nodes /\ own[at[b][i]] = b /\ pos[at[b][i]] = i
                        /\ AnchorAt(r, h, b)
      BY DEF TreesAt
    <2>1. /\ u.color[b] = "red" /\ AnchorAt(u, g, b)
          /\ \A i \in 1 .. g.len[b] : g.at[b][i] \in Nodes /\ g.own[g.at[b][i]] = b /\ g.pos[g.at[b][i]] = i
      BY <1>0 DEF TreesAt
    <2>2. r.color[b] = "red"
      BY <1>3, <2>1, Disjoint DEF L
    <2>3. ASSUME NEW i \in 1 .. len[b]
          PROVE  at[b][i] \in Nodes /\ own[at[b][i]] = b /\ pos[at[b][i]] = i
      <3>1. CASE b # a
        <4>1. at[b][i] = g.at[b][i] /\ i \in 1 .. g.len[b]
          BY <1>8, <1>10, <3>1
        <4>2. QED
          BY <1>7, <1>9, <2>1, <3>1, <4>1, Disjoint
      <3>2. CASE b = a /\ i = P
        BY <1>7, <1>9, <1>10, <3>2
      <3>3. CASE b = a /\ i < P
        <4>1. at[b][i] = g.at[b][i] /\ i \in 1 .. g.len[b]
          BY <1>4, <1>5, <1>8, <1>10, <3>3
        <4>2. g.at[b][i] \in Nodes /\ g.own[g.at[b][i]] = a /\ g.pos[g.at[b][i]] = i /\ g.at[b][i] # n
          BY <2>1, <3>3, <4>1, Disjoint
        <4>3. QED
          BY <1>5, <1>7, <1>9, <3>3, <4>1, <4>2
      <3>4. CASE b = a /\ i > P
        <4>1. at[b][i] = g.at[b][i - 1] /\ i - 1 \in 1 .. g.len[b] /\ i - 1 \in Int
          BY <1>4, <1>5, <1>8, <1>10, <3>4
        <4>2. g.at[b][i - 1] \in Nodes /\ g.own[g.at[b][i - 1]] = a /\ g.pos[g.at[b][i - 1]] = i - 1
              /\ g.at[b][i - 1] # n
          BY <2>1, <3>4, <4>1, Disjoint
        <4>3. QED
          BY <1>5, <1>7, <1>9, <3>4, <4>1, <4>2
      <3>5. QED
        BY <1>5, <3>1, <3>2, <3>3, <3>4
    <2>4. AnchorAt(r, h, b)
      <3> DEFINE z == u.parent[b]
      <3>1. CASE b # a
        <4>1. /\ r.parent[b] = z /\ r.kid["left"][b] = u.kid["left"][b] /\ r.kid["right"][b] = u.kid["right"][b]
              /\ len[b] = g.len[b] /\ g.len[b] \in Nat
          BY <1>1, <1>3, <1>4, <1>8, <3>1 DEF L
        <4>2. CASE g.len[b] = 0
          BY <2>1, <4>1, <4>2 DEF AnchorAt
        <4>3. CASE g.len[b] # 0
          <5>1. /\ z \in Nodes /\ g.own[z] = b /\ u.parent[z] = b
                /\ g.end["left"][z] = 1 /\ g.end["right"][z] = g.len[b]
                /\ u.kid["left"][b] = g.at[b][1] /\ u.kid["right"][b] = g.at[b][g.len[b]]
            BY <2>1, <4>3 DEF AnchorAt
          <5>2. z # n /\ r.parent[z] = b /\ own[z] = b /\ E["left"][z] = 1 /\ E["right"][z] = g.len[b]
            BY <1>3, <1>7, <1>9, <3>1, <5>1, Disjoint DEF L
          <5>3. at[b][1] = g.at[b][1] /\ at[b][g.len[b]] = g.at[b][g.len[b]]
            BY <1>10, <3>1, <4>1
          <5>4. QED
            BY <4>1, <4>3, <5>1, <5>2, <5>3 DEF AnchorAt
        <4>4. QED
          BY <4>2, <4>3
      <3>2. CASE b = a /\ p = a
        <4>1. len[b] = 1 /\ P = 1
          BY <1>2, <1>8, <3>2, Disjoint DEF P, q
        <4>2. r.parent[b] = n /\ r.kid["left"][b] = n /\ r.kid["right"][b] = n /\ r.parent[n] = b
          BY <1>1, <1>3, <3>2 DEF L
        <4>3. at[b][1] = n
          BY <1>10, <3>2, <4>1
        <4>4. own[n] = b /\ E["left"][n] = 1 /\ E["right"][n] = 1
          BY <1>7, <1>9, <3>2, <4>1
        <4>5. QED
          BY <4>1, <4>2, <4>3, <4>4 DEF AnchorAt
      <3>3. CASE b = a /\ p # a
        <4>0. 1 <= q /\ q <= g.len[a] /\ g.len[a] \in Nat /\ p \in Nodes /\ g.own[p] = a /\ q = g.pos[p]
              /\ g.at[a][q] = p
          BY <1>2, <1>4, <1>5, <1>11, <3>3, Disjoint DEF q
        <4>1. /\ z \in Nodes /\ g.own[z] = a /\ u.parent[z] = a
              /\ g.end["left"][z] = 1 /\ g.end["right"][z] = g.len[a]
              /\ u.kid["left"][a] = g.at[a][1] /\ u.kid["right"][a] = g.at[a][g.len[a]]
          BY <1>5, <2>1, <3>3, <4>0 DEF AnchorAt
        <4>2. z # n /\ r.parent[z] = a /\ own[z] = a /\ r.parent[a] = z
          BY <1>3, <1>7, <3>3, <4>1, Disjoint DEF L
        <4>3. E["left"][z] = 1 /\ E["right"][z] = g.len[a] + 1
          BY <1>4, <1>5, <1>9, <3>3, <4>1, <4>2
        <4>4. r.kid["left"][a] = at[a][1]
          <5>1. CASE s = "left" /\ p = g.at[a][1]
            <6>0. 1 \in 1 .. g.len[b]
              BY <1>5, <3>3, <4>0
            <6>1. q = 1
              <7>1. g.pos[g.at[b][1]] = 1
                BY <2>1, <6>0
              <7>2. QED
                BY <3>3, <4>0, <5>1, <7>1
            <6>2. P = 1
              BY <3>3, <5>1, <6>1 DEF P
            <6>3. QED
              BY <1>1, <1>3, <1>10, <3>3, <4>1, <5>1, <6>2 DEF L
          <5>2. CASE s = "left" /\ p # g.at[a][1]
            <6>1. q # 1 /\ P = q
              BY <3>3, <4>0, <5>2 DEF P
            <6>2. QED
              BY <1>1, <1>3, <1>5, <1>10, <3>3, <4>0, <4>1, <5>2, <6>1 DEF L
          <5>3. CASE s # "left"
            <6>1. P = q + 1
              BY <5>3 DEF P
            <6>2. QED
              BY <1>1, <1>3, <1>5, <1>10, <3>3, <4>0, <4>1, <5>3, <6>1 DEF L
          <5>4. QED
            BY <5>1, <5>2, <5>3
        <4>5. r.kid["right"][a] = at[a][g.len[a] + 1]
          <5>1. CASE s = "right" /\ p = g.at[a][g.len[a]]
            <6>0. g.len[a] \in 1 .. g.len[b]
              BY <1>5, <3>3, <4>0, SMTT(30), ZenonT(30)
            <6>1. q = g.len[a]
              <7>1. g.pos[g.at[b][g.len[a]]] = g.len[a]
                BY <2>1, <6>0
              <7>2. QED
                BY <3>3, <4>0, <5>1, <7>1
            <6>2. P = g.len[a] + 1
              BY <3>3, <5>1, <6>1 DEF P
            <6>3. QED
              <7>1. at[a][g.len[a] + 1] = n
                BY <1>10, <4>0, <6>2
              <7>2. r.kid["right"][a] = n
                BY <1>1, <1>3, <3>3, <4>1, <5>1 DEF L
              <7>3. QED
                BY <7>1, <7>2
          <5>2. CASE ~(s = "right" /\ p = g.at[a][g.len[a]])
            <6>1. P # g.len[a] + 1
              <7>1. CASE s = "left"
                BY <1>5, <3>3, <4>0, <7>1 DEF P
              <7>2. CASE s = "right"
                BY <1>5, <3>3, <4>0, <5>2, <7>2 DEF P
              <7>3. QED
                BY <1>1, <7>1, <7>2
            <6>2. at[a][g.len[a] + 1] = g.at[a][g.len[a]]
              BY <1>5, <1>10, <4>0, <6>1
            <6>3. r.kid["right"][a] = u.kid["right"][a]
              BY <1>1, <1>3, <3>3, <4>1, <5>2 DEF L
            <6>4. QED
              BY <4>1, <6>2, <6>3
          <5>3. QED
            BY <5>1, <5>2
        <4>6. len[a] = g.len[a] + 1 /\ len[a] # 0
          BY <1>4, <1>8
        <4>7. QED
          BY <3>3, <4>1, <4>2, <4>3, <4>4, <4>5, <4>6 DEF AnchorAt
      <3>4. QED
        BY <3>1, <3>2, <3>3
    <2>5. QED
      BY <2>2, <2>3, <2>4
  <1>20. Shape(r, h)
    <2>1. r \in Graph
      BY <1>3 DEF L
    <2>2. QED
      BY <1>6, <1>18, <1>19, <2>1 DEF Shape, Nodal
  <1>21. h.own = own /\ h.len = len
    OBVIOUS
  <1>22. QED
    BY <1>20, <1>21 DEF r, own, len

-----------------------------------------------------------------------------
(* Erasure of a node with at most one kid. *)

\* The meaning of a tree without the element n: those behind it move up.
Removed(g, a, n) ==
  LET q == g.pos[n] IN
  [own |-> [g.own EXCEPT ![n] = NULL],
   pos |-> [x \in Nodes |-> IF g.own[x] = a /\ g.pos[x] > q THEN g.pos[x] - 1 ELSE g.pos[x]],
   end |-> [d \in Side |-> [x \in Nodes |->
              IF g.own[x] = a /\ (g.end[d][x] > q \/ (d = "right" /\ g.end[d][x] = q))
              THEN g.end[d][x] - 1 ELSE g.end[d][x]]],
   at |-> [b \in Trees |-> [i \in Int |-> IF b # a \/ i < q THEN g.at[b][i] ELSE g.at[b][i + 1]]],
   len |-> [g.len EXCEPT ![a] = @ - 1]]

\* What each part of the meaning is without n.
LEMMA RemovedIs ==
  ASSUME NEW u, NEW g, Nodal(u, g), NEW a \in Trees, NEW n \in Nodes, g.own[n] = a
  PROVE  LET h == Removed(g, a, n)
             q == g.pos[n]
         IN  /\ h \in Ghosts
             /\ \A x \in Nodes : h.own[x] = IF x = n THEN NULL ELSE g.own[x]
             /\ \A b \in Trees : h.len[b] = IF b = a THEN g.len[a] - 1 ELSE g.len[b]
             /\ \A b \in Trees, i \in Int :
                  h.at[b][i] = IF b # a \/ i < q THEN g.at[b][i] ELSE g.at[b][i + 1]
             /\ \A x \in Nodes : g.own[x] # a =>
                  /\ h.pos[x] = g.pos[x] /\ h.end["left"][x] = g.end["left"][x]
                  /\ h.end["right"][x] = g.end["right"][x]
             /\ \A x \in Nodes : g.own[x] = a =>
                  /\ h.pos[x] = IF g.pos[x] > q THEN g.pos[x] - 1 ELSE g.pos[x]
                  /\ h.end["left"][x] = IF g.end["left"][x] > q THEN g.end["left"][x] - 1 ELSE g.end["left"][x]
                  /\ h.end["right"][x] = IF g.end["right"][x] >= q THEN g.end["right"][x] - 1
                                         ELSE g.end["right"][x]
  <1> DEFINE h == Removed(g, a, n)
             q == g.pos[n]
  <1>0. g \in Ghosts /\ Side = {"left", "right"} /\ "left" \in Side /\ "right" \in Side /\ a # NULL
    BY Disjoint DEF Nodal, Side
  <1>1. /\ \A x \in Nodes : /\ g.pos[x] \in Int /\ g.end["left"][x] \in Int /\ g.end["right"][x] \in Int
                            /\ g.own[x] \in Trees \cup {NULL}
        /\ \A b \in Trees : g.len[b] \in Nat
        /\ \A b \in Trees, i \in Int : g.at[b][i] \in Nodes \cup {NULL}
    BY TreeFacts
  <1>2. q \in Int /\ 1 <= q /\ q <= g.len[a]
    BY <1>0, TreeFacts
  <1>3. /\ h.own = [g.own EXCEPT ![n] = NULL]
        /\ h.pos = [x \in Nodes |-> IF g.own[x] = a /\ g.pos[x] > q THEN g.pos[x] - 1 ELSE g.pos[x]]
        /\ h.end = [d \in Side |-> [x \in Nodes |->
                      IF g.own[x] = a /\ (g.end[d][x] > q \/ (d = "right" /\ g.end[d][x] = q))
                      THEN g.end[d][x] - 1 ELSE g.end[d][x]]]
        /\ h.at = [b \in Trees |-> [i \in Int |-> IF b # a \/ i < q THEN g.at[b][i] ELSE g.at[b][i + 1]]]
        /\ h.len = [g.len EXCEPT ![a] = @ - 1]
        /\ h = [own |-> h.own, pos |-> h.pos, end |-> h.end, at |-> h.at, len |-> h.len]
    BY DEF Removed
  <1> HIDE DEF h, q
  <1>4. \A x \in Nodes : h.own[x] = IF x = n THEN NULL ELSE g.own[x]
    BY <1>0, <1>3 DEF Ghosts
  <1>5. \A b \in Trees : h.len[b] = IF b = a THEN g.len[a] - 1 ELSE g.len[b]
    BY <1>0, <1>3 DEF Ghosts
  <1>6. \A b \in Trees, i \in Int : h.at[b][i] = IF b # a \/ i < q THEN g.at[b][i] ELSE g.at[b][i + 1]
    BY <1>3
  <1>7. /\ \A x \in Nodes : h.pos[x] = IF g.own[x] = a /\ g.pos[x] > q THEN g.pos[x] - 1 ELSE g.pos[x]
        /\ \A x \in Nodes, d \in Side :
             h.end[d][x] = IF g.own[x] = a /\ (g.end[d][x] > q \/ (d = "right" /\ g.end[d][x] = q))
                           THEN g.end[d][x] - 1 ELSE g.end[d][x]
    BY <1>3
  <1>8. \A x \in Nodes : g.own[x] # a =>
                  /\ h.pos[x] = g.pos[x] /\ h.end["left"][x] = g.end["left"][x]
                  /\ h.end["right"][x] = g.end["right"][x]
    BY <1>0, <1>7
  <1>9. \A x \in Nodes : g.own[x] = a =>
                  /\ h.pos[x] = IF g.pos[x] > q THEN g.pos[x] - 1 ELSE g.pos[x]
                  /\ h.end["left"][x] = IF g.end["left"][x] > q THEN g.end["left"][x] - 1 ELSE g.end["left"][x]
                  /\ h.end["right"][x] = IF g.end["right"][x] >= q THEN g.end["right"][x] - 1
                                         ELSE g.end["right"][x]
    BY <1>0, <1>1, <1>2, <1>7
  <1>10. h \in Ghosts
    <2>1. h.own \in [Nodes -> Trees \cup {NULL}]
      BY <1>0, <1>3 DEF Ghosts
    <2>2. h.len \in [Trees -> Nat]
      <3>1. \A b \in Trees : h.len[b] \in Nat
        BY <1>1, <1>2, <1>5
      <3>2. h.len = [b \in Trees |-> h.len[b]]
        BY <1>0, <1>3 DEF Ghosts
      <3>3. QED
        BY <3>1, <3>2
    <2>3. h.pos \in [Nodes -> Int]
      BY <1>1, <1>2, <1>3
    <2>4. h.end \in [Side -> [Nodes -> Int]]
      <3>1. \A d \in Side, x \in Nodes : g.end[d][x] \in Int
        BY <1>0, <1>1
      <3>2. QED
        BY <1>3, <3>1
    <2>5. h.at \in [Trees -> [Int -> Nodes \cup {NULL}]]
      <3>1. \A i \in Int : i + 1 \in Int
        OBVIOUS
      <3>2. QED
        BY <1>1, <1>3, <3>1
    <2>6. QED
      BY <1>3, <2>1, <2>2, <2>3, <2>4, <2>5 DEF Ghosts
  <1>11. QED
    BY <1>4, <1>5, <1>6, <1>8, <1>9, <1>10 DEF h, q

\* The only kid k of n, if any, takes the place of n.
LeafGone(r, u, n, k) ==
  /\ \A x \in Links : r.color[x] = IF x = n THEN "black" ELSE u.color[x]
  /\ \A x \in Nodes, d \in Side : r.kid[d][x] = IF x = n THEN NULL ELSE IF u.kid[d][x] = n THEN k ELSE u.kid[d][x]
  /\ \A x \in Nodes : r.parent[x] = IF x = n THEN NULL ELSE IF x = k THEN u.parent[n] ELSE u.parent[x]
  /\ \A b \in Trees : r.parent[b] = IF u.parent[b] = n THEN k ELSE u.parent[b]

\* When its only kid takes the place of a node, every other node stays placed, up to
\* the positions that moved up (red_black_tree.cpp:319-335).
LEMMA LeafNodes ==
  ASSUME NEW u, NEW g, Shape(u, g), NEW a \in Trees, NEW n \in Nodes, g.own[n] = a,
         NEW e \in Side, u.kid[Other(e)][n] = NULL, NEW k, u.kid[e][n] = k,
         NEW r, LeafGone(r, u, n, k)
  PROVE  NodesAt(r, Removed(g, a, n))
  <1> DEFINE h == Removed(g, a, n)
             q == g.pos[n]
  <1>0. Nodal(u, g) /\ a # NULL /\ NodesAt(u, g)
    BY Disjoint DEF Shape, Nodal
  <1>1. Side = {"left", "right"} /\ "left" \in Side /\ "right" \in Side
        /\ Other("left") = "right" /\ Other("right") = "left" /\ toward("left") = -1 /\ toward("right") = 1
    BY DEF Side, Other, toward
  <1>2. /\ \A x \in Nodes : /\ g.pos[x] \in Int /\ g.end["left"][x] \in Int /\ g.end["right"][x] \in Int
                            /\ g.own[x] \in Trees \cup {NULL}
        /\ \A b \in Trees : g.len[b] \in Nat
        /\ \A x \in Nodes : g.own[x] # NULL =>
             /\ 1 <= g.pos[x] /\ g.pos[x] <= g.len[g.own[x]] /\ g.at[g.own[x]][g.pos[x]] = x
             /\ g.end["left"][x] <= g.pos[x] /\ g.pos[x] <= g.end["right"][x]
    BY <1>0, TreeFacts
  <1>3. \A x \in Nodes, d \in Side : u.kid[d][x] # NULL =>
          /\ u.kid[d][x] \in Nodes /\ u.kid[d][x] # x /\ u.parent[u.kid[d][x]] = x
          /\ g.own[u.kid[d][x]] = g.own[x] /\ g.own[x] # NULL
          /\ g.end[d][u.kid[d][x]] = g.end[d][x]
          /\ g.end[Other(d)][u.kid[d][x]] = g.pos[x] + toward(d)
    BY <1>0, TreeFacts
  <1>4. \A x \in Nodes, d \in Side : g.own[x] # NULL /\ u.kid[d][x] = NULL => g.end[d][x] = g.pos[x]
    BY <1>0, TreeFacts
  <1>5. \A x \in Nodes : g.own[x] = a /\ x # n => g.pos[x] # q
    BY <1>0, OneAtEach
  <1>6. /\ \A x \in Nodes : h.own[x] = IF x = n THEN NULL ELSE g.own[x]
        /\ \A b \in Trees : h.len[b] = IF b = a THEN g.len[a] - 1 ELSE g.len[b]
        /\ \A b \in Trees, i \in Int : h.at[b][i] = IF b # a \/ i < q THEN g.at[b][i] ELSE g.at[b][i + 1]
    BY <1>0, RemovedIs
  <1>7. /\ \A x \in Nodes : g.own[x] # a =>
             /\ h.pos[x] = g.pos[x] /\ h.end["left"][x] = g.end["left"][x] /\ h.end["right"][x] = g.end["right"][x]
        /\ \A x \in Nodes : g.own[x] = a =>
             /\ h.pos[x] = IF g.pos[x] > q THEN g.pos[x] - 1 ELSE g.pos[x]
             /\ h.end["left"][x] = IF g.end["left"][x] > q THEN g.end["left"][x] - 1 ELSE g.end["left"][x]
             /\ h.end["right"][x] = IF g.end["right"][x] >= q THEN g.end["right"][x] - 1 ELSE g.end["right"][x]
    BY <1>0, RemovedIs
  <1>8. q \in Int /\ 1 <= q /\ q <= g.len[a]
    BY <1>0, <1>2
  <1> HIDE DEF h, q
  <1>9. ASSUME NEW x \in Nodes, x # n, g.own[x] # NULL
        PROVE  /\ 1 <= h.pos[x] /\ h.pos[x] <= h.len[g.own[x]] /\ h.at[g.own[x]][h.pos[x]] = x
               /\ h.end["left"][x] <= h.pos[x] /\ h.pos[x] <= h.end["right"][x]
    <2>1. CASE g.own[x] # a
      <3>1. g.own[x] \in Trees
        BY <1>2, <1>9
      <3>2. QED
        BY <1>2, <1>6, <1>7, <1>9, <2>1, <3>1
    <2>2. CASE g.own[x] = a /\ g.pos[x] > q
      <3>1. /\ h.pos[x] = g.pos[x] - 1 /\ h.len[a] = g.len[a] - 1 /\ g.pos[x] \in Int /\ g.len[a] \in Nat
            /\ 1 <= g.pos[x] /\ g.pos[x] <= g.len[a] /\ g.at[a][g.pos[x]] = x
        BY <1>2, <1>6, <1>7, <1>9, <2>2
      <3>2. h.at[a][g.pos[x] - 1] = g.at[a][g.pos[x] - 1 + 1] /\ g.pos[x] - 1 + 1 = g.pos[x]
        BY <1>6, <1>8, <2>2, <3>1
      <3>3. h.end["left"][x] <= h.pos[x] /\ h.pos[x] <= h.end["right"][x]
        BY <1>2, <1>7, <1>8, <1>9, <2>2, <3>1
      <3>4. QED
        BY <1>8, <2>2, <3>1, <3>2, <3>3
    <2>3. CASE g.own[x] = a /\ g.pos[x] < q
      <3>1. /\ h.pos[x] = g.pos[x] /\ h.len[a] = g.len[a] - 1 /\ g.pos[x] \in Int /\ g.len[a] \in Nat
            /\ 1 <= g.pos[x] /\ g.pos[x] <= g.len[a] /\ g.at[a][g.pos[x]] = x
        BY <1>2, <1>6, <1>7, <1>8, <1>9, <2>3
      <3>2. h.end["left"][x] <= h.pos[x] /\ h.pos[x] <= h.end["right"][x]
        BY <1>2, <1>7, <1>8, <1>9, <2>3, <3>1
      <3>3. h.at[a][g.pos[x]] = g.at[a][g.pos[x]]
        BY <1>6, <2>3, <3>1
      <3>4. QED
        BY <1>8, <2>3, <3>1, <3>2, <3>3
    <2>4. QED
      BY <1>2, <1>5, <1>8, <1>9, <2>1, <2>2, <2>3
  <1>10. ASSUME NEW x \in Nodes, x # n, g.own[x] # NULL, NEW d \in Side
         PROVE  KidAt(r, h, x, d)
    <2>1. CASE u.kid[d][x] = n
      <3>0. n # NULL
        BY Disjoint
      <3>1. r.kid[d][x] = k /\ g.own[x] = a /\ u.parent[n] = x
            /\ g.end[d][n] = g.end[d][x] /\ g.end[Other(d)][n] = g.pos[x] + toward(d)
        BY <1>3, <1>10, <2>1, <3>0 DEF LeafGone
      <3>2. g.end[Other(e)][n] = q
        BY <1>0, <1>4, Sides DEF q
      <3>3. CASE k = NULL
        <4>1. g.end["left"][n] = q /\ g.end["right"][n] = q
          BY <1>0, <1>1, <1>4, <3>2, <3>3 DEF q
        <4>2. h.end[d][x] = h.pos[x]
          <5>1. CASE d = "left"
            BY <1>1, <1>2, <1>7, <1>8, <3>1, <4>1, <5>1
          <5>2. CASE d = "right"
            BY <1>1, <1>2, <1>7, <1>8, <3>1, <4>1, <5>2
          <5>3. QED
            BY <1>1, <5>1, <5>2
        <4>3. QED
          BY <3>1, <3>3, <4>2 DEF KidAt
      <3>4. CASE k # NULL
        <4>1. /\ k \in Nodes /\ k # n /\ g.own[k] = a /\ g.end[e][k] = g.end[e][n]
              /\ g.end[Other(e)][k] = q + toward(e)
          BY <1>3, <3>4 DEF q
        <4>2. r.parent[k] = x /\ h.own[k] = h.own[x]
          BY <1>6, <1>10, <3>1, <4>1 DEF LeafGone
        <4>3. h.end[d][k] = h.end[d][x] /\ h.end[Other(d)][k] = h.pos[x] + toward(d)
          <5>1. CASE d = "left" /\ e = "left"
            BY <1>1, <1>2, <1>7, <1>8, <3>1, <3>2, <4>1, <5>1, SMTT(30), ZenonT(30)
          <5>2. CASE d = "left" /\ e = "right"
            BY <1>1, <1>2, <1>7, <1>8, <3>1, <3>2, <4>1, <5>2, SMTT(30), ZenonT(30)
          <5>3. CASE d = "right" /\ e = "left"
            <6>1. g.end["left"][k] = g.end["left"][n] /\ g.end["right"][k] = q - 1 /\ g.end["right"][n] = q
              BY <1>1, <1>8, <3>2, <4>1, <5>3
            <6>2. g.end["right"][n] = g.end["right"][x] /\ g.end["left"][n] = g.pos[x] + 1
              BY <1>1, <3>1, <5>3
            <6>3. /\ h.end["right"][k] = IF g.end["right"][k] >= q THEN g.end["right"][k] - 1 ELSE g.end["right"][k]
                  /\ h.end["left"][k] = IF g.end["left"][k] > q THEN g.end["left"][k] - 1 ELSE g.end["left"][k]
                  /\ h.end["right"][x] = IF g.end["right"][x] >= q THEN g.end["right"][x] - 1 ELSE g.end["right"][x]
                  /\ h.pos[x] = IF g.pos[x] > q THEN g.pos[x] - 1 ELSE g.pos[x]
              BY <1>7, <3>1, <4>1
            <6>4. /\ g.end["left"][k] \in Int /\ g.end["left"][k] <= g.pos[k] /\ g.pos[k] <= g.end["right"][k]
                  /\ g.end["right"][k] \in Int /\ g.pos[x] \in Int /\ g.end["right"][x] \in Int /\ g.pos[k] \in Int
                  /\ g.end["left"][n] <= q /\ q <= g.end["right"][n]
              BY <1>0, <1>2, <3>1, <4>1 DEF q
            <6>a. g.end["right"][x] = q /\ ~(g.end["right"][k] >= q) /\ g.end["right"][x] >= q
              BY <1>8, <6>1, <6>2
            <6>b. h.end["right"][k] = q - 1 /\ h.end["right"][x] = q - 1
              BY <6>1, <6>3, <6>a
            <6>c. g.end["left"][k] = g.pos[x] + 1 /\ ~(g.end["left"][k] > q) /\ ~(g.pos[x] > q)
              BY <1>8, <6>1, <6>2, <6>4
            <6>5. h.end["right"][k] = h.end["right"][x] /\ h.end["left"][k] = h.pos[x] + 1
              BY <6>3, <6>b, <6>c
            <6>6. QED
              BY <1>1, <5>3, <6>5
          <5>4. CASE d = "right" /\ e = "right"
            <6>1. g.end["right"][k] = g.end["right"][n] /\ g.end["left"][k] = q + 1 /\ g.end["left"][n] = q
              BY <1>1, <1>8, <3>2, <4>1, <5>4
            <6>2. g.end["right"][n] = g.end["right"][x] /\ g.end["left"][n] = g.pos[x] + 1
              BY <1>1, <3>1, <5>4
            <6>3. /\ h.end["right"][k] = IF g.end["right"][k] >= q THEN g.end["right"][k] - 1 ELSE g.end["right"][k]
                  /\ h.end["left"][k] = IF g.end["left"][k] > q THEN g.end["left"][k] - 1 ELSE g.end["left"][k]
                  /\ h.end["right"][x] = IF g.end["right"][x] >= q THEN g.end["right"][x] - 1 ELSE g.end["right"][x]
                  /\ h.pos[x] = IF g.pos[x] > q THEN g.pos[x] - 1 ELSE g.pos[x]
              BY <1>7, <3>1, <4>1
            <6>4. /\ g.end["left"][k] \in Int /\ g.end["left"][k] <= g.pos[k] /\ g.pos[k] <= g.end["right"][k]
                  /\ g.end["right"][k] \in Int /\ g.pos[x] \in Int /\ g.end["right"][x] \in Int /\ g.pos[k] \in Int
                  /\ g.end["left"][n] <= q /\ q <= g.end["right"][n]
              BY <1>0, <1>2, <3>1, <4>1 DEF q
            <6>a. g.end["right"][k] = g.end["right"][x] /\ g.end["left"][k] > q
              BY <1>8, <6>1, <6>2
            <6>b. h.end["left"][k] = q
              BY <1>8, <6>1, <6>3, <6>a
            <6>c. g.pos[x] = q - 1 /\ ~(g.pos[x] > q)
              BY <1>8, <6>1, <6>2, <6>4
            <6>d. h.pos[x] = q - 1
              BY <6>3, <6>c
            <6>5. h.end["right"][k] = h.end["right"][x] /\ h.end["left"][k] = h.pos[x] + 1
              BY <1>8, <6>3, <6>a, <6>b, <6>d
            <6>6. QED
              BY <1>1, <5>4, <6>5
          <5>5. QED
            BY <1>1, <5>1, <5>2, <5>3, <5>4
        <4>4. QED
          BY <3>1, <3>4, <4>1, <4>2, <4>3 DEF KidAt
      <3>5. QED
        BY <3>3, <3>4
    <2>2. CASE u.kid[d][x] # n
      <3> DEFINE y == u.kid[d][x]
      <3>1. r.kid[d][x] = y
        BY <1>10, <2>2 DEF LeafGone
      <3>2. g.own[x] = a => g.pos[x] # q
        BY <1>5, <1>10
      <3>3. CASE y = NULL
        <4>1. g.end[d][x] = g.pos[x]
          BY <1>4, <1>10, <3>3
        <4>2. h.end[d][x] = h.pos[x]
          <5>1. CASE g.own[x] # a
            BY <1>1, <1>7, <4>1, <5>1
          <5>2. CASE g.own[x] = a
            BY <1>1, <1>2, <1>7, <1>8, <3>2, <4>1, <5>2
          <5>3. QED
            BY <5>1, <5>2
        <4>3. QED
          BY <3>1, <3>3, <4>2 DEF KidAt
      <3>4. CASE y # NULL
        <4>1. /\ y \in Nodes /\ y # n /\ u.parent[y] = x /\ g.own[y] = g.own[x]
              /\ g.end[d][y] = g.end[d][x] /\ g.end[Other(d)][y] = g.pos[x] + toward(d)
          BY <1>3, <2>2, <3>4
        <4>2. y # k
          BY <1>3, <1>10, <3>4, <4>1
        <4>3. r.parent[y] = x /\ h.own[y] = h.own[x]
          BY <1>6, <1>10, <4>1, <4>2 DEF LeafGone
        <4>4. h.end[d][y] = h.end[d][x] /\ h.end[Other(d)][y] = h.pos[x] + toward(d)
          <5> HIDE DEF y
          <5>1. CASE g.own[x] # a
            BY <1>1, <1>7, <4>1, <5>1
          <5>2. CASE g.own[x] = a /\ d = "left"
            BY <1>1, <1>2, <1>7, <1>8, <3>2, <4>1, <5>2
          <5>3. CASE g.own[x] = a /\ d = "right"
            BY <1>1, <1>2, <1>7, <1>8, <3>2, <4>1, <5>3, SMTT(30), ZenonT(30)
          <5>4. QED
            BY <1>1, <5>1, <5>2, <5>3
        <4>5. QED
          BY <3>1, <3>4, <4>1, <4>3, <4>4 DEF KidAt
      <3>5. QED
        BY <3>3, <3>4
    <2>3. QED
      BY <2>1, <2>2
  <1>11. ASSUME NEW x \in Nodes, x # n, g.own[x] # NULL
         PROVE  ParentAt(r, h, x)
    <2>0. h.own[x] = g.own[x]
      BY <1>6, <1>11
    <2>1. CASE x = k
      <3>1. r.parent[x] = u.parent[n] /\ g.own[x] = a
        BY <1>3, <1>11, <2>1, Disjoint DEF LeafGone
      <3>2. CASE u.parent[n] \in Nodes
        <4>1. PICK d \in Side : u.kid[d][u.parent[n]] = n
          BY <1>0, <3>2, ParentFacts
        <4>2. r.kid[d][u.parent[n]] = k
          BY <1>0, <3>2, <4>1, ParentFacts DEF LeafGone
        <4>3. QED
          BY <2>1, <3>1, <3>2, <4>2 DEF ParentAt
      <3>3. CASE u.parent[n] \notin Nodes
        <4>1. u.parent[n] = a /\ u.parent[a] = n
          BY <1>0, <3>3, ParentFacts
        <4>2. r.parent[a] = k
          BY <4>1 DEF LeafGone
        <4>3. QED
          BY <2>0, <2>1, <3>1, <4>1, <4>2 DEF ParentAt
      <3>4. QED
        BY <3>2, <3>3
    <2>2. CASE x # k
      <3>1. r.parent[x] = u.parent[x]
        BY <1>11, <2>2 DEF LeafGone
      <3>2. CASE u.parent[x] \in Nodes
        <4>1. PICK d \in Side : u.kid[d][u.parent[x]] = x
          BY <1>0, <1>11, <3>2, ParentFacts
        <4>2. u.parent[x] # n
          BY <2>2, <4>1, Sides, Disjoint
        <4>3. r.kid[d][u.parent[x]] = x
          BY <1>11, <3>2, <4>1, <4>2 DEF LeafGone
        <4>4. QED
          BY <3>1, <3>2, <4>3 DEF ParentAt
      <3>3. CASE u.parent[x] \notin Nodes
        <4>1. u.parent[x] = g.own[x] /\ u.parent[g.own[x]] = x /\ g.own[x] \in Trees
          BY <1>0, <1>2, <1>11, <3>3, ParentFacts
        <4>2. r.parent[g.own[x]] = x
          BY <1>11, <4>1 DEF LeafGone
        <4>3. QED
          BY <2>0, <3>1, <4>1, <4>2 DEF ParentAt
      <3>4. QED
        BY <3>2, <3>3
    <2>3. QED
      BY <2>1, <2>2
  <1>12. ASSUME NEW x \in Nodes
         PROVE  IF h.own[x] = NULL THEN Loose(r, x) ELSE Placed(r, h, x)
    <2>1. CASE x = n
      <3>1. h.own[x] = NULL /\ x \in Links
        BY <1>6, <2>1, Disjoint
      <3>2. Loose(r, x)
        BY <2>1, <3>1 DEF Loose, LeafGone
      <3>3. QED
        BY <3>1, <3>2
    <2>2. CASE x # n /\ g.own[x] = NULL
      <3>1. h.own[x] = NULL /\ Loose(u, x) /\ x \in Links
        BY <1>0, <1>6, <2>2, Disjoint DEF NodesAt
      <3>2. k # NULL => g.own[k] = a
        BY <1>3
      <3>3. x # k /\ n # NULL
        BY <1>0, <2>2, <3>2, Disjoint
      <3>4. Loose(r, x)
        BY <2>2, <3>1, <3>3 DEF Loose, LeafGone
      <3>5. QED
        BY <3>1, <3>4
    <2>3. CASE x # n /\ g.own[x] # NULL
      <3>1. h.own[x] = g.own[x]
        BY <1>6, <2>3
      <3>2. KidAt(r, h, x, "left") /\ KidAt(r, h, x, "right") /\ ParentAt(r, h, x)
        BY <1>1, <1>10, <1>11, <2>3
      <3>3. QED
        BY <1>9, <2>3, <3>1, <3>2 DEF Placed
    <2>4. QED
      BY <2>1, <2>2, <2>3
  <1>13. QED
    BY <1>12 DEF NodesAt, h

-----------------------------------------------------------------------------
\* m takes the place of n below the parent of n, in a state v in which that
\* place is as it is in u.
LEMMA ReplaceIs ==
  ASSUME NEW u, NEW g, Shape(u, g), NEW a \in Trees, NEW n \in Nodes, g.own[n] = a,
         NEW m \in Nodes \cup {NULL}, NEW v \in Graph,
         v.parent[a] = u.parent[a], v.parent[n] = u.parent[n],
         \A d \in Side : v.kid[d][u.parent[n]] = u.kid[d][u.parent[n]],
         NEW r, Replace(v, a, n, m) = r
  PROVE  /\ r \in Graph
         /\ \A x \in Links : r.color[x] = v.color[x]
         /\ \A x \in Nodes, d \in Side : r.kid[d][x] = IF u.kid[d][x] = n THEN m ELSE v.kid[d][x]
         /\ \A x \in Nodes : r.parent[x] = v.parent[x]
         /\ \A b \in Trees : /\ r.parent[b] = IF u.parent[b] = n THEN m ELSE v.parent[b]
                             /\ \A d \in Side : r.kid[d][b] = v.kid[d][b]
  <1> DEFINE p == u.parent[n]
  <1>0. Nodal(u, g) /\ g.own[n] # NULL /\ TreesAt(u, g)
    BY Disjoint DEF Shape
  <1>1. p \in Links /\ a \in Links /\ m \in Links \cup {NULL} /\ v.parent[n] = p
    BY <1>0, NodeFacts, Disjoint, Sides
  <1>2. \A x \in Nodes, d \in Side : u.kid[d][x] = n => p = x
    BY <1>0, KidFacts, Disjoint
  <1>3. \A b \in Trees : u.parent[b] = n => b = a /\ p = a
    <2> SUFFICES ASSUME NEW b \in Trees, u.parent[b] = n
                 PROVE  b = a /\ p = a
      OBVIOUS
    <2>1. AnchorAt(u, g, b)
      BY <1>0 DEF TreesAt
    <2>2. QED
      BY <2>1, Disjoint DEF AnchorAt
  <1>4. \A x \in Nodes : x \in Links /\ x \notin Trees
    BY Disjoint
  <1>5. \A b \in Trees : b \in Links
    BY Disjoint
  <1>6. r = IF n = u.parent[a] THEN SetParent(v, a, m) ELSE SetKid(v, SideOf(v, n), p, m)
    BY ZenonT(30), SMTT(30) DEF Replace, Root
  <1>7. CASE n = u.parent[a]
    <2>1. r \in Graph /\ ParentSet(r, v, a, m)
      BY <1>1, <1>6, <1>7, SetParentIs
    <2>2. \A x \in Nodes, d \in Side : u.kid[d][x] # n
      BY <1>2, <1>3, <1>7, Disjoint
    <2>3. \A b \in Trees : r.parent[b] = IF u.parent[b] = n THEN m ELSE v.parent[b]
      BY <1>3, <1>5, <1>7, <2>1 DEF ParentSet
    <2>4. QED
      BY <1>4, <1>5, <2>1, <2>2, <2>3 DEF ParentSet
  <1>8. CASE n # u.parent[a]
    <2> DEFINE e == SideOf(u, n)
    <2>1. p \in Nodes /\ e \in Side /\ u.kid[e][p] = n /\ u.kid[Other(e)][p] # n
      BY <1>0, <1>8, ParentFacts
    <2>2. SideOf(v, n) = e
      BY <1>1 DEF SideOf, Side
    <2> HIDE DEF e, p
    <2>3. r \in Graph /\ KidSet(r, v, e, p, m)
      BY <1>1, <1>6, <1>8, <2>1, <2>2, SetKidIs
    <2>4. \A x \in Nodes, d \in Side : u.kid[d][x] = n <=> (d = e /\ x = p)
      BY <1>2, <2>1, Sides
    <2>5. \A b \in Trees : u.parent[b] # n /\ b # p
      BY <1>3, <1>8, <2>1, Disjoint
    <2>6. \A x \in Nodes, d \in Side : r.kid[d][x] = IF u.kid[d][x] = n THEN m ELSE v.kid[d][x]
      BY <1>4, <2>3, <2>4 DEF KidSet
    <2>7. QED
      BY <1>4, <1>5, <2>3, <2>5, <2>6 DEF KidSet
  <1>9. QED
    BY <1>7, <1>8

\* A node that was freed is loose (red_black_tree.h:2147-2151).
LEMMA FreeIs ==
  ASSUME NEW v \in Graph, NEW n \in Nodes
  PROVE  LET r == Free(v, n)
         IN  /\ r \in Graph
             /\ \A x \in Links : r.color[x] = IF x = n THEN "black" ELSE v.color[x]
             /\ \A x \in Links, d \in Side : r.kid[d][x] = IF x = n THEN NULL ELSE v.kid[d][x]
             /\ \A x \in Links : r.parent[x] = IF x = n THEN NULL ELSE v.parent[x]
  <1> DEFINE r == Free(v, n)
             v1 == SetKid(v, "left", n, NULL)
             v2 == SetKid(v1, "right", n, NULL)
             v3 == SetParent(v2, n, NULL)
  <1>1. r = Paint(v3, n, "black")
    BY DEF Free
  <1> HIDE DEF r, v1, v2, v3
  <1>2. n \in Links /\ NULL \in Links \cup {NULL} /\ "left" \in Side /\ "right" \in Side
        /\ "black" \in Color /\ Side = {"left", "right"}
    BY Disjoint DEF Side, Color
  <1>3. v1 \in Graph /\ KidSet(v1, v, "left", n, NULL)
    BY <1>2, SetKidIs DEF v1
  <1>4. v2 \in Graph /\ KidSet(v2, v1, "right", n, NULL)
    BY <1>2, <1>3, SetKidIs DEF v2
  <1>5. v3 \in Graph /\ ParentSet(v3, v2, n, NULL)
    BY <1>2, <1>4, SetParentIs DEF v3
  <1>6. r \in Graph /\ Painted(r, v3, n, "black")
    BY <1>1, <1>2, <1>5, PaintIs
  <1>7. QED
    BY <1>2, <1>3, <1>4, <1>5, <1>6 DEF KidSet, ParentSet, Painted, r

\* erase(position) of a node with at most one kid.
LEMMA LeafShape ==
  ASSUME NEW u, NEW g, Shape(u, g), NEW a \in Trees, NEW n \in Nodes, g.own[n] = a,
         NEW e \in Side, u.kid[Other(e)][n] = NULL, NEW k, u.kid[e][n] = k
  PROVE  LET r == Free(DetachLeaf(u, a, n), n)
         IN  Shape(r, Removed(g, a, n)) /\ LeafGone(r, u, n, k) /\ DetachLeaf(u, a, n).color[n] = u.color[n]
  <1> DEFINE h == Removed(g, a, n)
             q == g.pos[n]
             p == u.parent[n]
             v1 == SetParent(u, k, p)
             v == Replace(v1, a, n, k)
             r0 == Free(v, n)
             end(d) == IF u.kid[Other(d)][n] # NULL /\ k # NULL THEN Farthest(v, k, d) ELSE p
             D == [v EXCEPT !.kid = [d \in Side |-> IF d \in {c \in Side : n = v.kid[c][a]}
                                                    THEN [v.kid[d] EXCEPT ![a] = end(d)] ELSE v.kid[d]]]
             r == Free(D, n)
  <1>0. Nodal(u, g) /\ u \in Graph /\ TreesAt(u, g) /\ g.own[n] # NULL /\ a # NULL /\ n # NULL
    BY Disjoint DEF Shape, Nodal
  <1>1. Side = {"left", "right"} /\ "left" \in Side /\ "right" \in Side
        /\ Other("left") = "right" /\ Other("right") = "left" /\ toward("left") = -1 /\ toward("right") = 1
    BY DEF Side, Other, toward
  <1>2. k = IF u.kid["left"][n] = NULL THEN u.kid["right"][n] ELSE u.kid["left"][n]
    BY <1>1, SMTT(30), ZenonT(30)
  <1>3. DetachLeaf(u, a, n) = D
    <2> HIDE DEF v
    <2>1. DetachLeaf(u, a, n) =
            LET w == Replace(SetParent(u, k, u.parent[n]), a, n, k)
                f(s) == IF u.kid[Other(s)][n] # NULL /\ k # NULL THEN Farthest(w, k, s) ELSE u.parent[n]
            IN [w EXCEPT !.kid = [s \in Side |-> IF s \in {c \in Side : n = w.kid[c][a]}
                                                 THEN [w.kid[s] EXCEPT ![a] = f(s)] ELSE w.kid[s]]]
      BY <1>2, ZenonT(30), SMTT(30) DEF DetachLeaf
    <2>2. QED
      BY <2>1, ZenonT(30), SMTT(30) DEF v
  <1> HIDE DEF h, p, v1, v, r0, D, r, end
  <1>4. k = NULL \/ (k \in Nodes /\ k # n /\ g.own[k] = a /\ g.end[e][k] = g.end[e][n]
                     /\ g.end[Other(e)][k] = q + toward(e))
    BY <1>0, TreeFacts
  <1>5. p \in Links /\ p # k
    <2>1. p \in Links
      BY <1>0, <1>1, NodeFacts DEF p
    <2>2. CASE k = NULL
      BY <2>1, <2>2, Disjoint
    <2>3. CASE k # NULL /\ p \notin Nodes
      BY <1>4, <2>1, <2>3
    <2>4. CASE k # NULL /\ p \in Nodes
      <3>1. PICK d \in Side : u.kid[d][p] = n
        BY <1>0, <2>4, ParentFacts DEF p
      <3>2. Rank(g)[n] < Rank(g)[p] /\ Rank(g)[k] < Rank(g)[n]
        BY <1>0, <2>4, <3>1, RankFalls
      <3>3. Rank(g)[n] \in Nat /\ Rank(g)[p] \in Nat
        BY <1>0, <2>4, RankFalls
      <3>4. QED
        BY <2>1, <3>2, <3>3
    <2>5. QED
      BY <2>1, <2>2, <2>3, <2>4
  <1>6. v1 \in Graph /\ ParentSet(v1, u, k, p)
    BY <1>0, <1>4, <1>5, SetParentIs, Disjoint DEF v1
  <1>7. /\ v \in Graph
        /\ \A x \in Links : v.color[x] = u.color[x]
        /\ \A x \in Nodes, d \in Side : v.kid[d][x] = IF u.kid[d][x] = n THEN k ELSE u.kid[d][x]
        /\ \A x \in Nodes : v.parent[x] = IF x = k THEN p ELSE u.parent[x]
        /\ \A b \in Trees : /\ v.parent[b] = IF u.parent[b] = n THEN k ELSE u.parent[b]
                            /\ \A d \in Side : v.kid[d][b] = u.kid[d][b]
    <2>1. a \in Links /\ n \in Links /\ a # k /\ n # k /\ k \in Nodes \cup {NULL}
          /\ \A x \in Nodes : x \in Links
      BY <1>4, <1>0, Disjoint
    <2>2. \A b \in Trees : b \in Links /\ b # k
      BY <1>4, <1>0, Disjoint
    <2>3. /\ v1.parent[a] = u.parent[a] /\ v1.parent[n] = u.parent[n]
          /\ \A d \in Side : v1.kid[d][u.parent[n]] = u.kid[d][u.parent[n]]
      BY <1>5, <1>6, <2>1 DEF ParentSet, p
    <2>4. /\ v \in Graph
          /\ \A x \in Links : v.color[x] = v1.color[x]
          /\ \A x \in Nodes, d \in Side : v.kid[d][x] = IF u.kid[d][x] = n THEN k ELSE v1.kid[d][x]
          /\ \A x \in Nodes : v.parent[x] = v1.parent[x]
          /\ \A b \in Trees : /\ v.parent[b] = IF u.parent[b] = n THEN k ELSE v1.parent[b]
                              /\ \A d \in Side : v.kid[d][b] = v1.kid[d][b]
      <3>1. Replace(v1, a, n, k) = v
        BY DEF v
      <3>2. QED
        BY <1>6, <2>1, <2>3, <3>1, ReplaceIs, SMTT(30), ZenonT(30)
    <2>5. QED
      BY <1>6, <2>1, <2>2, <2>4 DEF ParentSet
  <1>8. r0 \in Graph /\ LeafGone(r0, u, n, k)
    <2>1. /\ r0 \in Graph
          /\ \A x \in Links : r0.color[x] = IF x = n THEN "black" ELSE v.color[x]
          /\ \A x \in Links, d \in Side : r0.kid[d][x] = IF x = n THEN NULL ELSE v.kid[d][x]
          /\ \A x \in Links : r0.parent[x] = IF x = n THEN NULL ELSE v.parent[x]
      BY <1>7, FreeIs DEF r0
    <2>2. \A x \in Nodes : x \in Links
      BY Disjoint
    <2>3. \A b \in Trees : b \in Links /\ b # n
      BY Disjoint
    <2>4. QED
      BY <1>7, <2>1, <2>2, <2>3 DEF LeafGone, p
  <1>9. h \in Ghosts /\ NodesAt(r0, h) /\ Nodal(r0, h)
    <2>1. h \in Ghosts
      BY <1>0, RemovedIs DEF h
    <2>2. NodesAt(r0, h)
      BY <1>8, LeafNodes DEF h
    <2>3. QED
      BY <1>8, <2>1, <2>2 DEF Nodal
  <1>10. /\ \A x \in Nodes : h.own[x] = IF x = n THEN NULL ELSE g.own[x]
         /\ \A b \in Trees : h.len[b] = IF b = a THEN g.len[a] - 1 ELSE g.len[b]
         /\ \A b \in Trees, i \in Int : h.at[b][i] = IF b # a \/ i < q THEN g.at[b][i] ELSE g.at[b][i + 1]
    BY <1>0, RemovedIs DEF h
  <1>11. /\ \A x \in Nodes : g.own[x] # a =>
             /\ h.pos[x] = g.pos[x] /\ h.end["left"][x] = g.end["left"][x] /\ h.end["right"][x] = g.end["right"][x]
         /\ \A x \in Nodes : g.own[x] = a =>
             /\ h.pos[x] = IF g.pos[x] > q THEN g.pos[x] - 1 ELSE g.pos[x]
             /\ h.end["left"][x] = IF g.end["left"][x] > q THEN g.end["left"][x] - 1 ELSE g.end["left"][x]
             /\ h.end["right"][x] = IF g.end["right"][x] >= q THEN g.end["right"][x] - 1 ELSE g.end["right"][x]
    BY <1>0, RemovedIs DEF h
  <1>12. ASSUME NEW d \in Side, k # NULL
         PROVE  LET f == Farthest(v, k, d)
                IN  f \in Nodes /\ f # n /\ g.own[f] = a /\ h.pos[f] = h.end[d][k]
    <2>1. k \in Nodes /\ h.own[k] = a /\ h.own[n] = NULL
      BY <1>4, <1>10, <1>12
    <2> DEFINE rank == [x \in Nodes |-> IF x = n THEN Rank(h)[k] + 1 ELSE Rank(h)[x]]
    <2>2. Rank(h) \in [Nodes -> Nat]
          /\ \A x \in Nodes, c \in Side : r0.kid[c][x] # NULL =>
               r0.kid[c][x] \in Nodes /\ Rank(h)[r0.kid[c][x]] < Rank(h)[x]
      BY <1>9, RankFalls
    <2>3. rank \in [Nodes -> Nat]
      BY <2>1, <2>2
    <2>4. \A x \in Nodes : x # n => v.kid[d][x] = r0.kid[d][x]
      BY <1>7, <1>8 DEF LeafGone
    <2>5. v.kid[d][n] = NULL \/ v.kid[d][n] = k
      BY <1>0, <1>4, <1>7, Sides
    <2>6. \A x \in Nodes, c \in Side : r0.kid[c][x] # n
      <3>1. \A x \in Nodes, c \in Side : r0.kid[c][x] # NULL => h.own[r0.kid[c][x]] # NULL
        BY <1>9, TreeFacts
      <3>2. QED
        BY <1>0, <2>1, <3>1
    <2>7. ASSUME NEW x \in Nodes, v.kid[d][x] # NULL
          PROVE  v.kid[d][x] \in Nodes /\ rank[v.kid[d][x]] < rank[x]
      <3>1. CASE x = n
        <4>1. v.kid[d][x] = k /\ k # n /\ rank[k] = Rank(h)[k] /\ rank[n] = Rank(h)[k] + 1
          BY <1>4, <1>12, <2>1, <2>5, <2>7, <3>1
        <4>2. QED
          BY <2>1, <2>2, <3>1, <4>1
      <3>2. CASE x # n
        <4>1. v.kid[d][x] = r0.kid[d][x]
          BY <2>4, <3>2
        <4>2. r0.kid[d][x] \in Nodes /\ r0.kid[d][x] # n /\ Rank(h)[r0.kid[d][x]] < Rank(h)[x]
          BY <2>2, <2>6, <2>7, <4>1
        <4>3. QED
          BY <3>2, <4>1, <4>2
      <3>3. QED
        BY <3>1, <3>2
    <2>8. \A x \in Nodes : h.own[x] # NULL => v.kid[d][x] = r0.kid[d][x]
      BY <2>1, <2>4
    <2> HIDE DEF rank
    <2>a. \A x \in Nodes : h.own[x] # NULL =>
            LET f == Farthest(v, x, d)
            IN  f \in Nodes /\ h.own[f] = h.own[x] /\ h.pos[f] = h.end[d][x] /\ r0.kid[d][f] = NULL
      <3>1. \A x \in Nodes : v.kid[d][x] # NULL => v.kid[d][x] \in Nodes /\ rank[v.kid[d][x]] < rank[x]
        BY <2>7
      <3>2. QED
        <4>1. Falls(v, rank, d)
          BY <3>1 DEF Falls
        <4>2. Alike(v, r0, h, d)
          BY <2>8 DEF Alike
        <4>3. QED
          BY <1>9, <2>3, <4>1, <4>2, FarthestIs
    <2>9. LET f == Farthest(v, k, d)
          IN  f \in Nodes /\ h.own[f] = h.own[k] /\ h.pos[f] = h.end[d][k]
      BY <1>0, <2>1, <2>a
    <2>10. QED
      BY <1>0, <1>10, <2>1, <2>9
  <1>13. ASSUME NEW d \in Side
         PROVE  end(d) \in Links
    BY <1>5, <1>12, Disjoint DEF end
  <1>14. /\ D \in Graph
         /\ \A x \in Links : D.color[x] = v.color[x]
         /\ \A x \in Links : D.parent[x] = v.parent[x]
         /\ \A x \in Links, d \in Side : D.kid[d][x] = IF x = a /\ v.kid[d][a] = n THEN end(d) ELSE v.kid[d][x]
    <2> DEFINE K == [d \in Side |-> IF d \in {c \in Side : n = v.kid[c][a]}
                                    THEN [v.kid[d] EXCEPT ![a] = end(d)] ELSE v.kid[d]]
    <2>1. D = [v EXCEPT !.kid = K]
      BY DEF D
    <2>2. v.kid \in [Side -> [Links -> Links \cup {NULL}]] /\ a \in Links
      BY <1>7, Disjoint DEF Graph
    <2>3. \A d \in Side : K[d] = IF n = v.kid[d][a] THEN [v.kid[d] EXCEPT ![a] = end(d)] ELSE v.kid[d]
      OBVIOUS
    <2>4. \A d \in Side : K[d] \in [Links -> Links \cup {NULL}]
      BY <1>13, <2>2, <2>3
    <2>5. \A x \in Links, d \in Side : K[d][x] = IF x = a /\ v.kid[d][a] = n THEN end(d) ELSE v.kid[d][x]
      BY <2>2, <2>3
    <2>6. K \in [Side -> [Links -> Links \cup {NULL}]]
      BY <2>4
    <2> HIDE DEF K
    <2>7. D.kid = K /\ D.color = v.color /\ D.parent = v.parent
      BY <1>7, <2>1 DEF Graph
    <2>8. D \in Graph
      BY <1>7, <2>1, <2>6 DEF Graph
    <2>9. QED
      BY <2>5, <2>7, <2>8
  <1>15. /\ r \in Graph
         /\ \A x \in Links : r.color[x] = IF x = n THEN "black" ELSE D.color[x]
         /\ \A x \in Links, d \in Side : r.kid[d][x] = IF x = n THEN NULL ELSE D.kid[d][x]
         /\ \A x \in Links : r.parent[x] = IF x = n THEN NULL ELSE D.parent[x]
    BY <1>14, FreeIs DEF r
  <1>16. /\ LeafGone(r, u, n, k)
         /\ \A b \in Trees, d \in Side : r.kid[d][b] = IF b = a /\ u.kid[d][a] = n THEN end(d) ELSE u.kid[d][b]
    <2>1. \A x \in Nodes : x \in Links /\ x # a
      BY Disjoint
    <2>2. \A b \in Trees : b \in Links /\ b # n
      BY Disjoint
    <2>3. LeafGone(r, u, n, k)
      BY <1>7, <1>14, <1>15, <2>1, <2>2 DEF LeafGone, p
    <2>4. \A b \in Trees, d \in Side : r.kid[d][b] = IF b = a /\ u.kid[d][a] = n THEN end(d) ELSE u.kid[d][b]
      BY <1>7, <1>14, <1>15, <2>2
    <2>5. QED
      BY <2>3, <2>4
  <1>17. NodesAt(r, h)
    BY <1>16, LeafNodes DEF h
  <1>18. TreesAt(r, h)
    <2> SUFFICES ASSUME NEW b \in Trees
                 PROVE  /\ r.color[b] = "red"
                        /\ \A i \in 1 .. h.len[b] : h.at[b][i] \in Nodes /\ h.own[h.at[b][i]] = b /\ h.pos[h.at[b][i]] = i
                        /\ AnchorAt(r, h, b)
      BY DEF TreesAt
    <2> DEFINE z == u.parent[b]
    <2>1. /\ u.color[b] = "red" /\ AnchorAt(u, g, b) /\ g.len[b] \in Nat
          /\ \A i \in 1 .. g.len[b] : g.at[b][i] \in Nodes /\ g.own[g.at[b][i]] = b /\ g.pos[g.at[b][i]] = i
      BY <1>0, TreeFacts DEF TreesAt
    <2>2. r.color[b] = "red" /\ r.parent[b] = IF z = n THEN k ELSE z
      BY <1>16, <2>1, Disjoint DEF LeafGone
    <2>3. q \in Int /\ 1 <= q /\ q <= g.len[a] /\ g.at[a][q] = n /\ g.pos[n] = q
          /\ \A x \in Nodes : g.own[x] = a => g.pos[x] \in Int /\ g.end["left"][x] \in Int /\ g.end["right"][x] \in Int
      BY <1>0, TreeFacts DEF q
    <2>4. CASE b # a
      <3>1. h.len[b] = g.len[b] /\ \A i \in Int : h.at[b][i] = g.at[b][i]
        BY <1>10, <2>4
      <3>2. \A i \in 1 .. h.len[b] : h.at[b][i] \in Nodes /\ h.own[h.at[b][i]] = b /\ h.pos[h.at[b][i]] = i
        BY <1>10, <1>11, <2>1, <2>4, <3>1
      <3>3. r.kid["left"][b] = u.kid["left"][b] /\ r.kid["right"][b] = u.kid["right"][b]
        BY <1>1, <1>16, <2>4
      <3>4. CASE g.len[b] = 0
        BY <1>0, <2>1, <2>2, <3>1, <3>3, <3>4 DEF AnchorAt
      <3>5. CASE g.len[b] # 0
        <4>1. /\ z \in Nodes /\ g.own[z] = b /\ u.parent[z] = b
              /\ g.end["left"][z] = 1 /\ g.end["right"][z] = g.len[b]
              /\ u.kid["left"][b] = g.at[b][1] /\ u.kid["right"][b] = g.at[b][g.len[b]]
          BY <2>1, <3>5 DEF AnchorAt
        <4>2. z # n /\ z # k
          BY <1>0, <1>4, <2>4, <4>1, Disjoint
        <4>3. r.parent[b] = z /\ r.parent[z] = b /\ h.own[z] = b
              /\ h.end["left"][z] = 1 /\ h.end["right"][z] = g.len[b]
          BY <1>10, <1>11, <1>16, <2>2, <2>4, <4>1, <4>2 DEF LeafGone
        <4>4. h.at[b][1] = g.at[b][1] /\ h.at[b][g.len[b]] = g.at[b][g.len[b]]
          BY <2>1, <3>1
        <4>5. /\ r.kid["left"][b] = h.at[b][1] /\ r.kid["right"][b] = h.at[b][h.len[b]]
              /\ h.end["right"][z] = h.len[b] /\ h.len[b] # 0
          BY <3>1, <3>3, <3>5, <4>1, <4>3, <4>4
        <4>6. AnchorAt(r, h, b)
          <5> HIDE DEF z
          <5>1. QED
            BY <4>1, <4>3, <4>5 DEF AnchorAt
        <4>7. QED
          BY <2>2, <3>2, <4>6
      <3>6. QED
        BY <2>2, <3>2, <3>4, <3>5
    <2>5. CASE b = a
      <3>1. h.len[a] = g.len[a] - 1
            /\ \A i \in Int : h.at[a][i] = IF i < q THEN g.at[a][i] ELSE g.at[a][i + 1]
        BY <1>10
      <3>2. ASSUME NEW i \in 1 .. h.len[a]
            PROVE  h.at[a][i] \in Nodes /\ h.own[h.at[a][i]] = a /\ h.pos[h.at[a][i]] = i
        <4>1. CASE i < q
          <5>1. i \in 1 .. g.len[a] /\ h.at[a][i] = g.at[a][i]
            BY <2>1, <2>3, <2>5, <3>1, <4>1
          <5>2. g.at[a][i] \in Nodes /\ g.own[g.at[a][i]] = a /\ g.pos[g.at[a][i]] = i
            BY <2>1, <2>5, <5>1
          <5>3. g.at[a][i] # n /\ ~(g.pos[g.at[a][i]] > q)
            BY <2>3, <4>1, <5>1, <5>2
          <5>4. QED
            BY <1>10, <1>11, <5>1, <5>2, <5>3
        <4>2. CASE ~(i < q)
          <5>1. i + 1 \in 1 .. g.len[a] /\ h.at[a][i] = g.at[a][i + 1]
            BY <2>1, <2>3, <2>5, <3>1, <4>2
          <5>2. g.at[a][i + 1] \in Nodes /\ g.own[g.at[a][i + 1]] = a /\ g.pos[g.at[a][i + 1]] = i + 1
            BY <2>1, <2>5, <5>1
          <5>3. g.at[a][i + 1] # n /\ g.pos[g.at[a][i + 1]] > q
            BY <2>3, <4>2, <5>1, <5>2
          <5>4. QED
            BY <1>10, <1>11, <5>1, <5>2, <5>3
        <4>3. QED
          BY <4>1, <4>2
      <3>3. /\ z \in Nodes /\ g.own[z] = a /\ u.parent[z] = a
            /\ g.end["left"][z] = 1 /\ g.end["right"][z] = g.len[a]
            /\ u.kid["left"][a] = g.at[a][1] /\ u.kid["right"][a] = g.at[a][g.len[a]]
        BY <2>1, <2>3, <2>5 DEF AnchorAt
      <3>4. \A x \in Nodes : x # n /\ g.own[x] = a =>
              1 <= h.pos[x] /\ h.pos[x] <= h.len[a] /\ h.at[a][h.pos[x]] = x /\ h.pos[x] \in Int
        BY <1>0, <1>9, <1>10, TreeFacts
      <3>5. (e = "left" /\ u.kid["right"][n] = NULL) \/ (e = "right" /\ u.kid["left"][n] = NULL)
        BY <1>1
      <3>a. \A d \in Side : u.kid[d][n] = NULL => g.end[d][n] = q
        BY <1>0, TreeFacts DEF q
      <3>6. k = NULL => g.end["left"][n] = q /\ g.end["right"][n] = q
        BY <1>1, <3>5, <3>a
      <3>7. e = "left" => g.end["right"][n] = q
        BY <1>1, <3>5, <3>a
      <3>8. e = "right" => g.end["left"][n] = q
        BY <1>1, <3>5, <3>a
      <3>9. k # NULL => /\ e = "left" => g.end["left"][k] = g.end["left"][n] /\ g.end["right"][k] = q - 1
                        /\ e = "right" => g.end["right"][k] = g.end["right"][n] /\ g.end["left"][k] = q + 1
        BY <1>1, <1>4, <2>3
      <3>10. p \in Nodes => /\ g.own[p] = a /\ p # n /\ g.pos[p] \in Int /\ 1 <= g.pos[p] /\ g.pos[p] <= g.len[a]
                            /\ \/ g.end["right"][n] = g.pos[p] - 1
                               \/ g.end["left"][n] = g.pos[p] + 1
        <4> SUFFICES ASSUME p \in Nodes
                     PROVE  /\ g.own[p] = a /\ p # n /\ g.pos[p] \in Int /\ 1 <= g.pos[p] /\ g.pos[p] <= g.len[a]
                            /\ \/ g.end["right"][n] = g.pos[p] - 1
                               \/ g.end["left"][n] = g.pos[p] + 1
          OBVIOUS
        <4>1. PICK d \in Side : u.kid[d][p] = n
          BY <1>0, ParentFacts DEF p
        <4>2. g.own[p] = a /\ p # n /\ g.end[Other(d)][n] = g.pos[p] + toward(d)
          BY <1>0, <4>1, TreeFacts
        <4>3. g.pos[p] \in Int /\ 1 <= g.pos[p] /\ g.pos[p] <= g.len[a]
          BY <1>0, <4>2, TreeFacts
        <4>4. CASE d = "left"
          BY <1>1, <4>2, <4>3, <4>4
        <4>5. CASE d = "right"
          BY <1>1, <4>2, <4>3, <4>5
        <4>6. QED
          BY <1>1, <4>4, <4>5
      <3>11. p \notin Nodes => p = a /\ z = n
        BY <1>0, <2>5, ParentFacts DEF p
      <3>12. CASE z = n /\ k = NULL
        <4>1. g.len[a] = 1 /\ q = 1
          BY <3>3, <3>6, <3>12
        <4>2. h.len[a] = 0 /\ r.parent[a] = NULL
          BY <2>2, <2>5, <3>1, <3>12, <4>1
        <4>3. \A d \in Side : end(d) = a
          BY <3>3, <3>12 DEF end, p
        <4>4. r.kid["left"][a] = a /\ r.kid["right"][a] = a
          <5>1. u.kid["left"][a] = n /\ u.kid["right"][a] = n
            BY <2>3, <3>3, <4>1
          <5>2. QED
            BY <1>1, <1>16, <4>3, <5>1
        <4>5. QED
          BY <2>2, <2>5, <3>2, <4>2, <4>4 DEF AnchorAt
      <3>13. CASE ~(z = n /\ k = NULL)
        <4>1. h.len[a] \in Nat /\ h.len[a] # 0 /\ h.len[a] + 1 = g.len[a]
          <5>1. \E x \in Nodes : x # n /\ g.own[x] = a
            BY <1>4, <3>3, <3>13
          <5>2. g.len[a] \in Nat
            BY <2>1, <2>5
          <5>3. QED
            BY <3>1, <3>4, <5>1, <5>2
        <4>2. LET y == r.parent[a]
              IN  y \in Nodes /\ h.own[y] = a /\ r.parent[y] = a /\ h.end["left"][y] = 1 /\ h.end["right"][y] = h.len[a]
          <5>1. CASE z = n
            <6>1. r.parent[a] = k /\ k \in Nodes /\ k # n /\ h.own[k] = a /\ g.own[k] = a
              BY <1>4, <1>10, <2>2, <2>5, <3>13, <5>1
            <6>2. r.parent[k] = a
              BY <1>16, <3>3, <5>1, <6>1 DEF LeafGone
            <6>3. h.end["left"][k] = 1 /\ h.end["right"][k] = h.len[a]
              <7>1. CASE e = "left"
                <8>1. g.end["left"][k] = 1 /\ g.end["right"][k] = q - 1 /\ q = g.len[a]
                  BY <3>3, <3>7, <3>9, <5>1, <6>1, <7>1, Disjoint
                <8>2. h.end["left"][k] = 1 /\ h.end["right"][k] = q - 1
                  BY <1>11, <2>3, <6>1, <8>1
                <8>3. QED
                  BY <3>1, <8>1, <8>2
              <7>2. CASE e = "right"
                <8>1. g.end["right"][k] = g.len[a] /\ g.end["left"][k] = q + 1 /\ q = 1
                  BY <3>3, <3>8, <3>9, <5>1, <6>1, <7>2, Disjoint
                <8>2. h.end["left"][k] = q /\ h.end["right"][k] = g.len[a] - 1
                  BY <1>11, <2>3, <6>1, <8>1
                <8>3. QED
                  BY <3>1, <8>1, <8>2
              <7>3. QED
                BY <1>1, <7>1, <7>2
            <6>4. QED
              BY <6>1, <6>2, <6>3
          <5>2. CASE z # n
            <6>0. k # NULL => u.parent[k] = n
              BY <1>0, TreeFacts
            <6>1. z # k
              BY <1>0, <3>3, <6>0, Disjoint
            <6>2. r.parent[a] = z /\ r.parent[z] = a /\ h.own[z] = a
              BY <1>10, <1>16, <2>2, <2>5, <3>3, <5>2, <6>1 DEF LeafGone
            <6>3. h.end["left"][z] = 1 /\ h.end["right"][z] = g.len[a] - 1
              BY <1>11, <2>3, <3>3, SMTT(30), ZenonT(30)
            <6>4. QED
              BY <3>1, <3>3, <6>2, <6>3
          <5>3. QED
            BY <5>1, <5>2
        <4>3. n # NULL /\ (k # NULL => k \in Nodes /\ g.own[k] = a /\ g.pos[k] \in Int
                             /\ g.end["left"][k] <= g.pos[k] /\ g.pos[k] <= g.end["right"][k]
                             /\ 1 <= g.pos[k] /\ g.pos[k] <= g.len[a])
          BY <1>0, <1>4, TreeFacts
        <4>4. r.kid["left"][a] = h.at[a][1]
          <5>1. CASE u.kid["left"][a] # n
            <6>1. q # 1
              BY <2>3, <3>3, <5>1
            <6>2. QED
              BY <1>1, <1>16, <2>3, <3>1, <3>3, <5>1, <6>1
          <5>2. CASE u.kid["left"][a] = n
            <6>1. q = 1 /\ r.kid["left"][a] = end("left")
              <7>1. 1 \in 1 .. g.len[b]
                BY <2>1, <2>3, <2>5
              <7>a. g.at[b][1] = n
                BY <2>5, <3>3, <5>2
              <7>2. q = 1
                BY <2>1, <2>3, <7>1, <7>a
              <7>3. QED
                BY <1>1, <1>16, <5>2, <7>2
            <6>2. CASE k # NULL
              <7>1. e = "right"
                <8>1. e = "left" => g.end["right"][k] = 0
                  BY <3>9, <6>1, <6>2
                <8>2. e = "left" => FALSE
                  BY <4>3, <6>2, <8>1
                <8>3. QED
                  BY <1>1, <8>2
              <7>2. end("left") = Farthest(v, k, "left")
                BY <1>1, <6>2, <7>1 DEF end
              <7>3. h.end["left"][k] = 1
                BY <1>11, <2>3, <3>9, <4>3, <6>1, <6>2, <7>1
              <7>4. QED
                BY <1>1, <1>12, <3>4, <6>1, <6>2, <7>2, <7>3
            <6>3. CASE k = NULL
              <7>1. end("left") = p /\ g.end["left"][n] = 1 /\ g.end["right"][n] = 1
                BY <3>6, <6>1, <6>3 DEF end
              <7>2. p \in Nodes
                BY <3>3, <3>11, <3>13, <6>3
              <7>3. g.pos[p] = 2 /\ g.own[p] = a /\ p # n
                BY <3>10, <7>1, <7>2
              <7>4. h.pos[p] = 1
                BY <1>11, <6>1, <7>2, <7>3
              <7>5. QED
                BY <3>4, <6>1, <7>1, <7>2, <7>3, <7>4
            <6>4. QED
              BY <6>2, <6>3
          <5>3. QED
            BY <5>1, <5>2
        <4>5. r.kid["right"][a] = h.at[a][h.len[a]]
          <5>1. CASE u.kid["right"][a] # n
            <6>1. q # g.len[a]
              BY <2>3, <3>3, <5>1
            <6>2. h.at[a][h.len[a]] = g.at[a][g.len[a]]
              BY <2>3, <3>1, <4>1, <6>1
            <6>3. QED
              BY <1>1, <1>16, <3>3, <5>1, <6>2
          <5>2. CASE u.kid["right"][a] = n
            <6>1. q = g.len[a] /\ r.kid["right"][a] = end("right")
              <7>1. g.len[a] \in 1 .. g.len[b]
                BY <2>1, <2>3, <2>5
              <7>a. g.at[b][g.len[a]] = n
                BY <2>5, <3>3, <5>2
              <7>2. q = g.len[a]
                BY <2>1, <2>3, <7>1, <7>a
              <7>3. QED
                BY <1>1, <1>16, <5>2, <7>2
            <6>2. CASE k # NULL
              <7>1. e = "left"
                <8>1. e = "right" => g.end["left"][k] = q + 1
                  BY <3>9, <6>2
                <8>2. e = "right" => FALSE
                  BY <2>3, <4>3, <6>1, <6>2, <8>1
                <8>3. QED
                  BY <1>1, <8>2
              <7>2. end("right") = Farthest(v, k, "right")
                BY <1>1, <6>2, <7>1 DEF end
              <7>3. h.end["right"][k] = q - 1
                BY <1>11, <2>3, <3>9, <4>3, <6>1, <6>2, <7>1
              <7>4. h.end["right"][k] = h.len[a]
                BY <3>1, <6>1, <7>3
              <7>5. QED
                BY <1>1, <1>12, <3>4, <6>1, <6>2, <7>2, <7>4
            <6>3. CASE k = NULL
              <7>1. end("right") = p /\ g.end["left"][n] = q /\ g.end["right"][n] = q
                BY <3>6, <6>3 DEF end
              <7>2. p \in Nodes
                BY <3>3, <3>11, <3>13, <6>3
              <7>3. g.pos[p] = q - 1 /\ g.own[p] = a /\ p # n
                BY <2>3, <3>10, <6>1, <7>1, <7>2
              <7>4. h.pos[p] = h.len[a]
                BY <1>11, <2>3, <3>1, <6>1, <7>2, <7>3
              <7>5. QED
                BY <3>4, <6>1, <7>1, <7>2, <7>3, <7>4
            <6>4. QED
              BY <6>2, <6>3
          <5>3. QED
            BY <5>1, <5>2
        <4>6. QED
          BY <2>2, <2>5, <3>2, <4>1, <4>2, <4>4, <4>5 DEF AnchorAt
      <3>14. QED
        BY <3>12, <3>13
    <2>6. QED
      BY <2>4, <2>5
  <1>19. Shape(r, h) /\ D.color[n] = u.color[n]
    BY <1>7, <1>9, <1>14, <1>15, <1>17, <1>18, Disjoint DEF Shape, Nodal
  <1>20. QED
    BY <1>3, <1>16, <1>19 DEF r, h

-----------------------------------------------------------------------------
(* Graphs that differ in the names of their nodes and anchors. *)

\* v is u with names exchanged in pairs.
Relabels(v, u, pi) ==
  /\ pi[NULL] = NULL /\ \A x \in Links : pi[x] \in Links /\ pi[pi[x]] = x
  /\ \A x \in Nodes : pi[x] \in Nodes
  /\ \A a \in Trees : pi[a] \in Trees
  /\ \A x \in Links, d \in Side : v.kid[d][x] = pi[u.kid[d][pi[x]]]
  /\ \A x \in Links : v.parent[x] = pi[u.parent[pi[x]]]
  /\ \A x \in Links : v.color[x] = u.color[pi[x]]

\* What the trees mean under the other names.
Renamed(g, pi) ==
  [own |-> [x \in Nodes |-> pi[g.own[pi[x]]]],
   pos |-> [x \in Nodes |-> g.pos[pi[x]]],
   end |-> [d \in Side |-> [x \in Nodes |-> g.end[d][pi[x]]]],
   at |-> [b \in Trees |-> [i \in Int |-> pi[g.at[pi[b]][i]]]],
   len |-> [b \in Trees |-> g.len[pi[b]]]]

\* Under other names the links still mean what they meant, which is how swap works
\* (red_black_tree.h:1124-1183).
LEMMA RelabelShape ==
  ASSUME NEW u, NEW g, Shape(u, g), NEW v \in Graph, NEW pi, Relabels(v, u, pi)
  PROVE  Shape(v, Renamed(g, pi))
  <1> DEFINE h == Renamed(g, pi)
  <1>0. Nodal(u, g) /\ NodesAt(u, g) /\ TreesAt(u, g) /\ g \in Ghosts /\ u \in Graph
    BY DEF Shape, Nodal
  <1>1. /\ pi[NULL] = NULL
        /\ \A x \in Nodes : pi[x] \in Nodes /\ pi[pi[x]] = x /\ x \in Links
        /\ \A a \in Trees : pi[a] \in Trees /\ pi[pi[a]] = a /\ a \in Links
    BY Disjoint DEF Relabels
  <1>2. /\ \A x \in Links, d \in Side : v.kid[d][x] = pi[u.kid[d][pi[x]]]
        /\ \A x \in Links : v.parent[x] = pi[u.parent[pi[x]]]
        /\ \A x \in Links : v.color[x] = u.color[pi[x]]
    BY DEF Relabels
  <1>21. \A x \in Links, d \in Side : v.kid[d][x] = pi[u.kid[d][pi[x]]]
    BY <1>2
  <1>22. \A x \in Links : v.parent[x] = pi[u.parent[pi[x]]]
    BY <1>2
  <1>3. /\ \A x \in Nodes : g.pos[x] \in Int /\ \A d \in Side : g.end[d][x] \in Int
        /\ \A x \in Nodes : g.own[x] \in Trees \cup {NULL}
        /\ \A b \in Trees : g.len[b] \in Nat
        /\ \A b \in Trees, i \in Int : g.at[b][i] \in Nodes \cup {NULL}
    BY <1>0 DEF Ghosts
  <1>4. /\ \A x \in Nodes : h.own[x] = pi[g.own[pi[x]]] /\ h.pos[x] = g.pos[pi[x]]
        /\ \A x \in Nodes, d \in Side : h.end[d][x] = g.end[d][pi[x]]
        /\ \A b \in Trees, i \in Int : h.at[b][i] = pi[g.at[pi[b]][i]]
        /\ \A b \in Trees : h.len[b] = g.len[pi[b]]
    BY DEF Renamed
  <1>41. \A x \in Nodes : h.own[x] = pi[g.own[pi[x]]]
    BY <1>4
  <1>42. \A x \in Nodes : h.pos[x] = g.pos[pi[x]]
    BY <1>4
  <1>43. \A x \in Nodes, d \in Side : h.end[d][x] = g.end[d][pi[x]]
    BY <1>4
  <1>5. h \in Ghosts
    <2>1. [x \in Nodes |-> pi[g.own[pi[x]]]] \in [Nodes -> Trees \cup {NULL}]
      BY <1>1, <1>3
    <2>2. [x \in Nodes |-> g.pos[pi[x]]] \in [Nodes -> Int]
      BY <1>1, <1>3
    <2>3. [d \in Side |-> [x \in Nodes |-> g.end[d][pi[x]]]] \in [Side -> [Nodes -> Int]]
      BY <1>1, <1>3
    <2>4. [b \in Trees |-> [i \in Int |-> pi[g.at[pi[b]][i]]]] \in [Trees -> [Int -> Nodes \cup {NULL}]]
      BY <1>1, <1>3
    <2>5. [b \in Trees |-> g.len[pi[b]]] \in [Trees -> Nat]
      BY <1>1, <1>3
    <2>6. QED
      BY <2>1, <2>2, <2>3, <2>4, <2>5 DEF Renamed, Ghosts
  <1> HIDE DEF h
  <1>6. ASSUME NEW x \in Nodes
        PROVE  IF h.own[x] = NULL THEN Loose(v, x) ELSE Placed(v, h, x)
    <2> DEFINE y == pi[x]
    <2>0. pi[x] = y /\ y \in Nodes /\ y \in Links /\ x \in Links /\ pi[y] = x /\ x # NULL /\ y # NULL
      BY <1>1, Disjoint
    <2> HIDE DEF y
    <2>1. g.own[y] = NULL <=> h.own[x] = NULL
      BY <1>1, <1>3, <1>41, <2>0, Disjoint
    <2>2. CASE g.own[y] = NULL
      <3>1. Loose(u, y)
        BY <1>0, <2>0, <2>2 DEF NodesAt
      <3>2. Loose(v, x)
        BY <1>1, <1>2, <2>0, <3>1 DEF Loose
      <3>3. QED
        BY <2>1, <2>2, <3>2
    <2>3. CASE g.own[y] # NULL
      <3>1. Placed(u, g, y)
        BY <1>0, <2>0, <2>3 DEF NodesAt
      <3> DEFINE a == g.own[y]
      <3>2. g.own[y] = a /\ a \in Trees /\ pi[a] \in Trees /\ h.own[x] = pi[a] /\ pi[pi[a]] = a
        BY <1>1, <1>3, <1>41, <2>0, <2>3
      <3> HIDE DEF a
      <3>3. h.pos[x] = g.pos[y] /\ h.len[pi[a]] = g.len[a] /\ g.pos[y] \in Int
            /\ h.at[pi[a]][g.pos[y]] = pi[g.at[a][g.pos[y]]]
        <4>1. h.pos[x] = g.pos[y] /\ g.pos[y] \in Int
          BY <1>3, <1>42, <2>0
        <4>2. h.len[pi[a]] = g.len[pi[pi[a]]]
          BY <1>4, <3>2
        <4>3. h.at[pi[a]][g.pos[y]] = pi[g.at[pi[pi[a]]][g.pos[y]]]
          BY <1>4, <3>2, <4>1, ZenonT(30), SMTT(30)
        <4>4. QED
          BY <3>2, <4>1, <4>2, <4>3
      <3>4. /\ 1 <= h.pos[x] /\ h.pos[x] <= h.len[h.own[x]] /\ h.at[h.own[x]][h.pos[x]] = x
            /\ h.end["left"][x] <= h.pos[x] /\ h.pos[x] <= h.end["right"][x]
        <4>1. /\ 1 <= g.pos[y] /\ g.pos[y] <= g.len[a] /\ g.at[a][g.pos[y]] = y
              /\ g.end["left"][y] <= g.pos[y] /\ g.pos[y] <= g.end["right"][y]
          BY <3>1, <3>2, ZenonT(30), SMTT(30) DEF Placed
        <4>2. h.end["left"][x] = g.end["left"][y] /\ h.end["right"][x] = g.end["right"][y]
          BY <1>43, <2>0 DEF Side
        <4>3. QED
          BY <2>0, <3>2, <3>3, <4>1, <4>2
      <3>5. ASSUME NEW d \in Side
            PROVE  KidAt(v, h, x, d)
        <4> DEFINE k == u.kid[d][y]
        <4>1. KidAt(u, g, y, d) /\ Other(d) \in Side
          BY <3>1, Sides DEF Placed
        <4>2. v.kid[d][x] = pi[k] /\ h.end[d][x] = g.end[d][y]
          BY <1>21, <1>43, <2>0
        <4>3. CASE k = NULL
          BY <1>1, <3>3, <4>1, <4>2, <4>3, ZenonT(30), SMTT(30) DEF KidAt
        <4>4. CASE k # NULL
          <5>1. k \in Nodes /\ u.parent[k] = y /\ g.own[k] = a
                /\ g.end[d][k] = g.end[d][y] /\ g.end[Other(d)][k] = g.pos[y] + toward(d)
            BY <3>2, <4>1, <4>4 DEF KidAt
          <5> HIDE DEF k
          <5>2. pi[k] \in Nodes /\ pi[k] \in Links /\ pi[pi[k]] = k /\ pi[k] # NULL
            BY <1>1, <5>1, Disjoint, SMTT(30), ZenonT(30)
          <5>3. v.parent[pi[k]] = x /\ h.own[pi[k]] = h.own[x]
            <6>1. v.parent[pi[k]] = pi[u.parent[k]]
              BY <1>22, <5>2
            <6>2. h.own[pi[k]] = pi[g.own[k]]
              BY <1>41, <5>2
            <6>3. QED
              BY <2>0, <3>2, <5>1, <6>1, <6>2
          <5>4. h.end[d][pi[k]] = h.end[d][x] /\ h.end[Other(d)][pi[k]] = h.pos[x] + toward(d)
            <6>1. h.end[d][pi[k]] = g.end[d][k] /\ h.end[Other(d)][pi[k]] = g.end[Other(d)][k]
              BY <1>43, <4>1, <5>2
            <6>2. QED
              BY <3>3, <4>2, <5>1, <6>1, ZenonT(30), SMTT(30)
          <5>5. QED
            BY <4>2, <5>2, <5>3, <5>4 DEF KidAt
        <4>5. QED
          BY <4>3, <4>4
      <3>6. ParentAt(v, h, x)
        <4>0. ParentAt(u, g, y)
          BY <3>1 DEF Placed
        <4>1. CASE u.parent[y] = a /\ u.parent[a] = y
          <5>1. v.parent[x] = pi[a]
            BY <1>22, <2>0, <4>1
          <5>2. v.parent[pi[a]] = x
            BY <1>1, <1>22, <2>0, <3>2, <4>1
          <5>3. QED
            BY <3>2, <5>1, <5>2 DEF ParentAt
        <4>2. CASE u.parent[y] \in Nodes /\ \E s \in Side : u.kid[s][u.parent[y]] = y
          <5> DEFINE p == u.parent[y]
          <5>1. PICK s \in Side : u.kid[s][p] = y
            BY <4>2
          <5>2. v.parent[x] = pi[p] /\ pi[p] \in Nodes /\ pi[pi[p]] = p /\ pi[p] \in Links
            BY <1>1, <1>22, <2>0, <4>2
          <5>3. v.kid[s][pi[p]] = x
            BY <1>21, <2>0, <5>1, <5>2
          <5>4. QED
            BY <5>2, <5>3 DEF ParentAt
        <4>3. QED
          BY <3>2, <4>0, <4>1, <4>2, ZenonT(30), SMTT(30) DEF ParentAt
      <3>7. Placed(v, h, x)
        BY <3>4, <3>5, <3>6 DEF Placed, Side
      <3>8. QED
        BY <2>1, <2>3, <3>7
    <2>4. QED
      BY <2>2, <2>3
  <1>7. ASSUME NEW b \in Trees
        PROVE  /\ v.color[b] = "red"
               /\ \A i \in 1 .. h.len[b] : h.at[b][i] \in Nodes /\ h.own[h.at[b][i]] = b /\ h.pos[h.at[b][i]] = i
               /\ AnchorAt(v, h, b)
    <2> DEFINE a == pi[b]
    <2>0. a \in Trees /\ a \in Links /\ b \in Links /\ pi[a] = b /\ h.len[b] = g.len[a] /\ g.len[a] \in Nat
      BY <1>1, <1>3, <1>4
    <2>1. /\ u.color[a] = "red"
          /\ \A i \in 1 .. g.len[a] : g.at[a][i] \in Nodes /\ g.own[g.at[a][i]] = a /\ g.pos[g.at[a][i]] = i
          /\ AnchorAt(u, g, a)
      BY <1>0, <2>0 DEF TreesAt
    <2>2. v.color[b] = "red"
      BY <1>2, <2>0, <2>1, SMTT(30), ZenonT(30)
    <2>3. ASSUME NEW i \in 1 .. h.len[b]
          PROVE  h.at[b][i] \in Nodes /\ h.own[h.at[b][i]] = b /\ h.pos[h.at[b][i]] = i
      <3>1. i \in Int /\ i \in 1 .. g.len[a]
        BY <2>0
      <3> DEFINE y == g.at[a][i]
      <3>2. y \in Nodes /\ g.own[y] = a /\ g.pos[y] = i
        BY <2>1, <3>1
      <3>3. h.at[b][i] = pi[y] /\ pi[y] \in Nodes /\ pi[pi[y]] = y
        BY <1>1, <1>4, <3>1, <3>2
      <3>4. QED
        <4>1. h.own[pi[y]] = pi[g.own[pi[pi[y]]]] /\ h.pos[pi[y]] = g.pos[pi[pi[y]]]
          BY <1>41, <1>42, <3>3
        <4>2. QED
          BY <2>0, <3>2, <3>3, <4>1
    <2>4. AnchorAt(v, h, b)
      <3> DEFINE r == u.parent[a]
      <3>1. v.parent[b] = pi[r] /\ \A d \in Side : v.kid[d][b] = pi[u.kid[d][a]]
        BY <1>2, <2>0
      <3>2. CASE g.len[a] = 0
        <4>1. r = NULL /\ u.kid["left"][a] = a /\ u.kid["right"][a] = a
          BY <2>1, <3>2, SMTT(30), ZenonT(30) DEF AnchorAt
        <4>2. QED
          BY <1>1, <2>0, <3>1, <3>2, <4>1 DEF AnchorAt, Side
      <3>3. CASE g.len[a] # 0
        <4>1. /\ r \in Nodes /\ g.own[r] = a /\ u.parent[r] = a
              /\ g.end["left"][r] = 1 /\ g.end["right"][r] = g.len[a]
              /\ u.kid["left"][a] = g.at[a][1] /\ u.kid["right"][a] = g.at[a][g.len[a]]
          BY <2>1, <3>3 DEF AnchorAt
        <4>2. pi[r] \in Nodes /\ pi[r] \in Links /\ pi[pi[r]] = r
          BY <1>1, <4>1, SMTT(30), ZenonT(30)
        <4>3. h.own[pi[r]] = b /\ v.parent[pi[r]] = b
          <5> HIDE DEF r
          <5>1. h.own[pi[r]] = pi[g.own[r]] /\ v.parent[pi[r]] = pi[u.parent[r]]
            BY <1>22, <1>41, <4>2
          <5>2. QED
            BY <2>0, <4>1, <5>1
        <4>4. h.end["left"][pi[r]] = 1 /\ h.end["right"][pi[r]] = h.len[b]
          <5> HIDE DEF r
          <5>1. h.end["left"][pi[r]] = g.end["left"][r] /\ h.end["right"][pi[r]] = g.end["right"][r]
            BY <1>43, <4>2 DEF Side
          <5>2. QED
            BY <2>0, <4>1, <5>1
        <4>5. v.kid["left"][b] = h.at[b][1] /\ v.kid["right"][b] = h.at[b][h.len[b]]
          <5>1. 1 \in Int /\ g.len[a] \in Int
            BY <2>0
          <5>2. h.at[b][1] = pi[g.at[a][1]] /\ h.at[b][h.len[b]] = pi[g.at[a][g.len[a]]]
            <6>1. \A i \in Int : h.at[b][i] = pi[g.at[a][i]]
              BY <1>4
            <6>2. QED
              BY <2>0, <5>1, <6>1
          <5>3. v.kid["left"][b] = pi[u.kid["left"][a]] /\ v.kid["right"][b] = pi[u.kid["right"][a]]
            BY <3>1 DEF Side
          <5>4. QED
            BY <4>1, <5>2, <5>3
        <4>6. QED
          BY <2>0, <3>1, <3>3, <4>2, <4>3, <4>4, <4>5, SMTT(30), ZenonT(30) DEF AnchorAt
      <3>4. QED
        BY <3>2, <3>3
    <2>5. QED
      BY <2>2, <2>3, <2>4
  <1>8. NodesAt(v, h) /\ TreesAt(v, h)
    BY <1>6, <1>7, SMTT(30), ZenonT(30) DEF NodesAt, TreesAt
  <1>9. QED
    BY <1>5, <1>8 DEF Shape, Nodal, h

-----------------------------------------------------------------------------
(* Erasure of a node with two kids. *)

\* The next element m takes the place of n, and the right kid of m that of m.
InnerGone(r, u, n, m) ==
  LET ch == u.kid["right"][m]
      inner == m # u.kid["right"][n]
  IN
  /\ \A x \in Links : r.color[x] = IF x = n THEN "black" ELSE IF x = m THEN u.color[n] ELSE u.color[x]
  /\ \A x \in Nodes \ {n, m}, d \in Side :
       r.kid[d][x] = IF u.kid[d][x] = n THEN m ELSE IF u.kid[d][x] = m THEN ch ELSE u.kid[d][x]
  /\ \A d \in Side : r.kid[d][n] = NULL
  /\ r.kid["left"][m] = u.kid["left"][n]
  /\ r.kid["right"][m] = IF inner THEN u.kid["right"][n] ELSE ch
  /\ \A x \in Nodes \ {n, m} :
       r.parent[x] = IF u.parent[x] = n THEN m ELSE IF x = ch /\ inner THEN u.parent[m] ELSE u.parent[x]
  /\ r.parent[n] = NULL /\ r.parent[m] = u.parent[n]
  /\ \A b \in Trees : /\ r.parent[b] = IF u.parent[b] = n THEN m ELSE u.parent[b]
                      /\ \A d \in Side : r.kid[d][b] = u.kid[d][b]

\* What is known of the element after one with two kids.
LEMMA NextFacts ==
  ASSUME NEW u, NEW g, Shape(u, g), NEW a \in Trees, NEW n \in Nodes, g.own[n] = a,
         u.kid["left"][n] # NULL, u.kid["right"][n] # NULL,
         NEW m, Farthest(u, u.kid["right"][n], "left") = m
  PROVE  /\ m \in Nodes /\ m # n /\ g.own[m] = a /\ g.pos[m] = g.pos[n] + 1 /\ u.kid["left"][m] = NULL
         /\ g.end["left"][m] = g.pos[n] + 1
         /\ g.end["left"][n] < g.pos[n] /\ g.pos[n] < g.end["right"][n]
         /\ g.end["right"][u.kid["right"][n]] = g.end["right"][n]
         /\ g.end["left"][u.kid["right"][n]] = g.pos[n] + 1
         /\ g.end["left"][u.kid["left"][n]] = g.end["left"][n]
         /\ g.end["right"][u.kid["left"][n]] = g.pos[n] - 1
         /\ u.kid["right"][n] \in Nodes /\ u.kid["left"][n] \in Nodes
         /\ g.own[u.kid["right"][n]] = a /\ g.own[u.kid["left"][n]] = a
         /\ u.parent[u.kid["right"][n]] = n /\ u.parent[u.kid["left"][n]] = n
         /\ u.kid["right"][n] # u.kid["left"][n] /\ u.kid["left"][n] # m /\ u.kid["right"][m] # m
         /\ u.parent[n] # m /\ u.parent[m] # m /\ u.parent[m] \in Nodes
         /\ (u.parent[m] = n <=> m = u.kid["right"][n])
         /\ u.parent[m] # n => u.kid["left"][u.parent[m]] = m /\ u.kid["right"][u.parent[m]] # m
         /\ u.kid["right"][m] # NULL => u.parent[u.kid["right"][m]] = m /\ u.kid["right"][m] \in Nodes
                                        /\ u.kid["right"][m] # n
  <1> DEFINE q == g.pos[n]
             l == u.kid["left"][n]
             r == u.kid["right"][n]
  <1>0. Nodal(u, g) /\ TreesAt(u, g)
    BY DEF Shape
  <1>1. Side = {"left", "right"} /\ "left" \in Side /\ "right" \in Side
        /\ Other("left") = "right" /\ Other("right") = "left" /\ toward("left") = -1 /\ toward("right") = 1
    BY DEF Side, Other, toward
  <1>2. a # NULL /\ n # NULL /\ \A x \in Nodes : x \notin Trees
    BY Disjoint
  <1>3. /\ \A x \in Nodes : g.pos[x] \in Int /\ g.end["left"][x] \in Int /\ g.end["right"][x] \in Int
        /\ \A x \in Nodes : g.own[x] # NULL => g.end["left"][x] <= g.pos[x] /\ g.pos[x] <= g.end["right"][x]
    BY <1>0, TreeFacts
  <1>4. \A x \in Nodes, d \in Side : u.kid[d][x] # NULL =>
          /\ u.kid[d][x] \in Nodes /\ u.kid[d][x] # x /\ u.parent[u.kid[d][x]] = x
          /\ g.own[u.kid[d][x]] = g.own[x] /\ g.own[x] # NULL
          /\ g.end[d][u.kid[d][x]] = g.end[d][x]
          /\ g.end[Other(d)][u.kid[d][x]] = g.pos[x] + toward(d)
    BY <1>0, TreeFacts
  <1>5. /\ l \in Nodes /\ g.own[l] = a /\ u.parent[l] = n /\ l # n
        /\ g.end["left"][l] = g.end["left"][n] /\ g.end["right"][l] = q - 1
    BY <1>1, <1>3, <1>4
  <1>6. /\ r \in Nodes /\ g.own[r] = a /\ u.parent[r] = n /\ r # n
        /\ g.end["right"][r] = g.end["right"][n] /\ g.end["left"][r] = q + 1
    BY <1>1, <1>3, <1>4
  <1>7. m \in Nodes /\ g.own[m] = a /\ g.pos[m] = q + 1 /\ u.kid["left"][m] = NULL
    <2>1. Rank(g) \in [Nodes -> Nat] /\ Falls(u, Rank(g), "left") /\ Alike(u, u, g, "left")
      BY <1>0, <1>1, RankFalls DEF Falls, Alike
    <2>2. \A x \in Nodes : g.own[x] # NULL =>
            LET f == Farthest(u, x, "left")
            IN  f \in Nodes /\ g.own[f] = g.own[x] /\ g.pos[f] = g.end["left"][x] /\ u.kid["left"][f] = NULL
      BY <1>0, <1>1, <2>1, FarthestIs
    <2>3. QED
      BY <1>2, <1>6, <2>2
  <1> HIDE DEF q, l, r
  <1>8. m # n /\ g.end["left"][n] < q /\ q < g.end["right"][n] /\ q \in Int /\ g.pos[n] = q
    BY <1>2, <1>3, <1>5, <1>6, <1>7, SMTT(30), ZenonT(30) DEF q
  <1>9. g.end["left"][m] = q + 1
    BY <1>0, <1>1, <1>2, <1>7, TreeFacts
  <1>10. l # r /\ l # m
    BY <1>2, <1>3, <1>5, <1>6, <1>7, <1>8, SMTT(30), ZenonT(30)
  <1>11. u.kid["right"][m] # NULL => /\ u.parent[u.kid["right"][m]] = m /\ u.kid["right"][m] \in Nodes
                                     /\ u.kid["right"][m] # m /\ g.end["left"][u.kid["right"][m]] = q + 2
    BY <1>1, <1>3, <1>4, <1>7, <1>8
  <1>12. u.kid["right"][m] # n
    BY <1>2, <1>3, <1>8, <1>11
  <1>13. u.parent[m] \in Nodes
    <2> SUFFICES ASSUME u.parent[m] \notin Nodes
                 PROVE  FALSE
      OBVIOUS
    <2>1. u.parent[m] = a /\ u.parent[a] = m
      BY <1>0, <1>2, <1>7, ParentFacts
    <2>2. AnchorAt(u, g, a)
      BY <1>0 DEF TreesAt
    <2>3. g.end["left"][m] = 1
      BY <1>7, <2>1, <2>2, Disjoint DEF AnchorAt
    <2>4. 1 <= q
      BY <1>0, <1>2, TreeFacts DEF q
    <2>5. QED
      BY <1>8, <1>9, <2>3, <2>4
  <1> DEFINE P == u.parent[m]
  <1>14. P # m /\ \E d \in Side : u.kid[d][P] = m
    BY <1>0, <1>2, <1>7, <1>13, ParentFacts
  <1>15. u.parent[n] # m
    <2> SUFFICES ASSUME u.parent[n] = m
                 PROVE  FALSE
      OBVIOUS
    <2>1. \E d \in Side : u.kid[d][m] = n
      BY <1>0, <1>2, <1>7, ParentFacts
    <2>2. u.kid["right"][m] = n
      BY <1>1, <1>2, <1>7, <2>1
    <2>3. QED
      BY <1>12, <2>2
  <1>16. P = n <=> m = r
    <2>1. m = r => P = n
      BY <1>6
    <2>2. P = n => m = l \/ m = r
      BY <1>1, <1>14 DEF l, r
    <2>3. QED
      BY <1>10, <2>1, <2>2
  <1>17. P # n => u.kid["left"][P] = m /\ u.kid["right"][P] # m
    <2> SUFFICES ASSUME P # n
                 PROVE  u.kid["left"][P] = m /\ u.kid["right"][P] # m
      OBVIOUS
    <2>1. u.kid["right"][P] # m
      <3> SUFFICES ASSUME u.kid["right"][P] = m
                   PROVE  FALSE
        BY SMTT(30), ZenonT(30)
      <3>1. g.own[P] = a /\ g.end["left"][m] = g.pos[P] + 1
        BY <1>1, <1>2, <1>4, <1>7, <1>13, Disjoint, SMTT(30), ZenonT(30)
      <3>2. g.pos[P] = g.pos[n]
        BY <1>3, <1>8, <1>9, <1>13, <3>1
      <3>3. QED
        BY <1>0, <1>2, <1>13, <3>1, <3>2, OneAtEach
    <2>2. QED
      BY <1>1, <1>14, <2>1
  <1> HIDE DEF P
  <1>18. QED
    <2>1. /\ m \in Nodes /\ m # n /\ g.own[m] = a /\ g.pos[m] = q + 1 /\ u.kid["left"][m] = NULL
          /\ g.end["left"][m] = q + 1 /\ g.end["left"][n] < q /\ q < g.end["right"][n]
          /\ g.end["right"][r] = g.end["right"][n] /\ g.end["left"][r] = q + 1
          /\ g.end["left"][l] = g.end["left"][n] /\ g.end["right"][l] = q - 1
      BY <1>5, <1>6, <1>7, <1>8, <1>9, SMTT(30), ZenonT(30)
    <2>2. /\ r \in Nodes /\ l \in Nodes /\ g.own[r] = a /\ g.own[l] = a /\ u.parent[r] = n /\ u.parent[l] = n
          /\ r # l /\ l # m /\ u.kid["right"][m] # m /\ u.parent[n] # m /\ P # m /\ P \in Nodes
          /\ (P = n <=> m = r) /\ (P # n => u.kid["left"][P] = m /\ u.kid["right"][P] # m)
      BY <1>5, <1>6, <1>7, <1>10, <1>11, <1>13, <1>14, <1>15, <1>16, <1>17, Disjoint DEF P
    <2>3. QED
      BY <1>11, <1>12, <2>1, <2>2 DEF q, l, r, P

\* The erasure of a node with two kids relinks its successor into its place, with its
\* colour, and gives it that of the successor (red_black_tree.cpp:363-396).
LEMMA InnerIs ==
  ASSUME NEW u, NEW g, Shape(u, g), NEW a \in Trees, NEW n \in Nodes, g.own[n] = a,
         u.kid["left"][n] # NULL, u.kid["right"][n] # NULL,
         NEW m, Farthest(u, u.kid["right"][n], "left") = m
  PROVE  LET r == Free(DetachInner(u, a, n), n)
         IN  r \in Graph /\ InnerGone(r, u, n, m) /\ DetachInner(u, a, n).color[n] = u.color[m]
  <1> DEFINE l == u.kid["left"][n]
             rt == u.kid["right"][n]
             ch == u.kid["right"][m]
             P == u.parent[m]
             pn == u.parent[n]
             v1 == SetParent(u, l, m)
             v == SetKid(v1, "left", m, l)
             w1 == SetParent(v, ch, P)
             w2 == SetKid(w1, "left", P, ch)
             w3 == SetKid(w2, "right", m, rt)
             w4 == SetParent(w3, rt, m)
             w == IF m = rt THEN v ELSE w4
             y == Replace(w, a, n, m)
             x1 == SetParent(y, m, pn)
             x2 == Paint(x1, m, u.color[n])
             x3 == Paint(x2, n, u.color[m])
             r == Free(x3, n)
  <1>0. Nodal(u, g) /\ u \in Graph /\ TreesAt(u, g) /\ g.own[n] # NULL /\ a # NULL /\ n # NULL
    BY Disjoint, SMTT(30), ZenonT(30) DEF Shape, Nodal
  <1>1. Side = {"left", "right"} /\ "left" \in Side /\ "right" \in Side
        /\ Other("left") = "right" /\ Other("right") = "left" /\ toward("left") = -1 /\ toward("right") = 1
    BY DEF Side, Other, toward
  <1>2. /\ m \in Nodes /\ m # n /\ u.kid["left"][m] = NULL /\ g.own[m] = a
        /\ rt \in Nodes /\ l \in Nodes /\ u.parent[rt] = n /\ u.parent[l] = n
        /\ rt # l /\ l # m /\ ch # m /\ pn # m /\ P # m /\ P \in Nodes
        /\ (P = n <=> m = rt)
        /\ (P # n => u.kid["left"][P] = m /\ u.kid["right"][P] # m)
        /\ (ch # NULL => u.parent[ch] = m /\ ch \in Nodes /\ ch # n)
    BY NextFacts, SMTT(30), ZenonT(30)
  <1>3. P # n => pn # P
    <2> SUFFICES ASSUME P # n, pn = P
                 PROVE  FALSE
      OBVIOUS
    <2>0. u.parent[n] \in Nodes
      BY <1>2
    <2>1. \E d \in Side : u.kid[d][pn] = n
      BY <1>0, <2>0, ParentFacts, SMTT(30), ZenonT(30)
    <2>2. u.kid["left"][P] = m /\ u.kid["right"][P] = n
      BY <1>1, <1>2, <2>1, SMTT(30), ZenonT(30)
    <2>3. g.end["right"][m] = g.pos[P] - 1 /\ g.end["left"][n] = g.pos[P] + 1
      <3>0. \A x \in Nodes, d \in Side : u.kid[d][x] # NULL =>
              g.end[Other(d)][u.kid[d][x]] = g.pos[x] + toward(d)
        BY <1>0, TreeFacts, SMTT(30), ZenonT(30)
      <3>a. g.pos[P] \in Int
        BY <1>0, <1>2, TreeFacts
      <3>b. m # NULL
        BY <1>2, Disjoint, SMTT(30), ZenonT(30)
      <3>1. /\ g.end["right"][m] = g.pos[P] + toward("left") /\ g.end["left"][n] = g.pos[P] + toward("right")
            /\ g.pos[P] \in Int
        BY <1>0, <1>1, <1>2, <2>2, <3>0, <3>a, <3>b, SMTT(30), ZenonT(30)
      <3>2. QED
        BY <1>1, <3>1, SMTT(30), ZenonT(30)
    <2>4. /\ g.pos[m] <= g.end["right"][m] /\ g.end["left"][n] <= g.pos[n] /\ g.pos[m] = g.pos[n] + 1
          /\ g.pos[m] \in Int /\ g.pos[n] \in Int /\ g.pos[P] \in Int
          /\ g.end["right"][m] \in Int /\ g.end["left"][n] \in Int
      <3>1. g.pos[m] = g.pos[n] + 1
        BY NextFacts, SMTT(30), ZenonT(30)
      <3>2. /\ \A x \in Nodes : g.pos[x] \in Int /\ g.end["left"][x] \in Int /\ g.end["right"][x] \in Int
            /\ \A x \in Nodes : g.own[x] # NULL => g.end["left"][x] <= g.pos[x] /\ g.pos[x] <= g.end["right"][x]
        BY <1>0, TreeFacts
      <3>3. QED
        BY <1>0, <1>2, <3>1, <3>2, SMTT(30), ZenonT(30)
    <2>5. QED
      BY <2>3, <2>4
  <1>4. pn \in Links /\ pn # n /\ u.color[n] \in Color /\ u.color[m] \in Color /\ l # n /\ rt # n
        /\ m # NULL /\ l # NULL /\ rt # NULL /\ a \in Links /\ ch \in Links \cup {NULL}
        /\ \A x \in Nodes : x \in Links /\ x \notin Trees
    <2>1. pn \in Links
      BY <1>0, <1>1, NodeFacts, SMTT(30), ZenonT(30)
    <2>2. pn # n
      BY <1>0, <1>2, ParentFacts, Disjoint, SMTT(30), ZenonT(30)
    <2>3. l # n /\ rt # n
      BY <1>0, <1>1, <1>2, TreeFacts
    <2>4. \A x \in Links : u.color[x] \in Color
      BY <1>0 DEF Graph
    <2>5. QED
      BY <1>2, <2>1, <2>2, <2>3, <2>4, Disjoint
  <1>5. DetachInner(u, a, n) = x3
    <2> HIDE DEF w3
    <2>1. DetachInner(u, a, n) =
            LET V == SetKid(SetParent(u, l, m), "left", m, l)
                W == IF m = rt THEN V
                     ELSE SetParent(SetKid(SetKid(SetParent(V, ch, P), "left", P, ch), "right", m, rt), rt, m)
            IN  Paint(Paint(SetParent(Replace(W, a, n, m), m, pn), m, u.color[n]), n, u.color[m])
      BY DEF DetachInner
    <2>2. QED
      BY <2>1 DEF w3
  <1> HIDE DEF l, rt, ch, P, pn, v1, v, w1, w2, w3, w4, w, y, x1, x2, x3, r
  <1>6. v1 \in Graph /\ ParentSet(v1, u, l, m)
    BY <1>0, <1>2, <1>4, SetParentIs DEF v1
  <1>7. v \in Graph /\ KidSet(v, v1, "left", m, l)
    BY <1>1, <1>2, <1>4, <1>6, SetKidIs DEF v
  <1>8. w1 \in Graph /\ ParentSet(w1, v, ch, P)
    BY <1>2, <1>4, <1>7, SetParentIs DEF w1
  <1>9. w2 \in Graph /\ KidSet(w2, w1, "left", P, ch)
    BY <1>1, <1>2, <1>4, <1>8, SetKidIs DEF w2
  <1>10. w3 \in Graph /\ KidSet(w3, w2, "right", m, rt)
    BY <1>1, <1>2, <1>4, <1>9, SetKidIs DEF w3
  <1>11. w4 \in Graph /\ ParentSet(w4, w3, rt, m)
    BY <1>2, <1>4, <1>10, SetParentIs DEF w4
  <1>12. /\ v \in Graph
         /\ \A x \in Links : v.color[x] = u.color[x]
         /\ \A x \in Links, d \in Side : v.kid[d][x] = IF d = "left" /\ x = m THEN l ELSE u.kid[d][x]
         /\ \A x \in Links : v.parent[x] = IF x = l THEN m ELSE u.parent[x]
    <2>1. \A x \in Links : v.color[x] = u.color[x]
      BY <1>6, <1>7 DEF ParentSet, KidSet
    <2>2. \A x \in Links, d \in Side : v.kid[d][x] = IF d = "left" /\ x = m THEN l ELSE u.kid[d][x]
      BY <1>6, <1>7 DEF ParentSet, KidSet
    <2>3. \A x \in Links : v.parent[x] = IF x = l THEN m ELSE u.parent[x]
      BY <1>6, <1>7 DEF ParentSet, KidSet
    <2>4. QED
      BY <1>7, <2>1, <2>2, <2>3
  <1>13. /\ w4 \in Graph
         /\ \A x \in Links : w4.color[x] = v.color[x]
         /\ \A x \in Links, d \in Side :
              w4.kid[d][x] = IF d = "left" /\ x = P THEN ch ELSE IF d = "right" /\ x = m THEN rt ELSE v.kid[d][x]
         /\ \A x \in Links : w4.parent[x] = IF x = rt THEN m ELSE IF x = ch THEN P ELSE v.parent[x]
    <2>1. \A x \in Links : w4.color[x] = v.color[x]
      BY <1>8, <1>9, <1>10, <1>11 DEF ParentSet, KidSet
    <2>2. \A x \in Links : w4.parent[x] = IF x = rt THEN m ELSE IF x = ch THEN P ELSE v.parent[x]
      BY <1>8, <1>9, <1>10, <1>11 DEF ParentSet, KidSet
    <2>3. \A x \in Links, d \in Side :
              w4.kid[d][x] = IF d = "left" /\ x = P THEN ch ELSE IF d = "right" /\ x = m THEN rt ELSE v.kid[d][x]
      BY <1>8, <1>9, <1>10, <1>11 DEF ParentSet, KidSet
    <2>4. w4 \in Graph
      BY <1>11
    <2>5. QED
      BY <2>1, <2>2, <2>3, <2>4
  <1>14. /\ w \in Graph
         /\ \A x \in Links : w.color[x] = u.color[x]
         /\ \A x \in Links, d \in Side :
              w.kid[d][x] = IF m # rt /\ d = "left" /\ x = P THEN ch
                            ELSE IF m # rt /\ d = "right" /\ x = m THEN rt
                            ELSE IF d = "left" /\ x = m THEN l ELSE u.kid[d][x]
         /\ \A x \in Links : w.parent[x] = IF m # rt /\ x = rt THEN m
                                            ELSE IF m # rt /\ x = ch THEN P
                                            ELSE IF x = l THEN m ELSE u.parent[x]
    <2>1. CASE m = rt
      <3>1. w = v
        BY <2>1 DEF w
      <3>2. \A x \in Links, d \in Side : w.kid[d][x] = IF d = "left" /\ x = m THEN l ELSE u.kid[d][x]
        BY <1>12, <3>1
      <3>3. \A x \in Links : w.parent[x] = IF x = l THEN m ELSE u.parent[x]
        BY <1>12, <3>1
      <3>4. w \in Graph /\ \A x \in Links : w.color[x] = u.color[x]
        BY <1>12, <3>1
      <3>5. QED
        BY <2>1, <3>2, <3>3, <3>4
    <2>2. CASE m # rt
      <3>1. w = w4
        BY <2>2 DEF w
      <3>2. \A x \in Links, d \in Side :
              w.kid[d][x] = IF d = "left" /\ x = P THEN ch ELSE IF d = "right" /\ x = m THEN rt
                            ELSE IF d = "left" /\ x = m THEN l ELSE u.kid[d][x]
        BY <1>12, <1>13, <3>1
      <3>3. \A x \in Links : w.parent[x] = IF x = rt THEN m ELSE IF x = ch THEN P
                                           ELSE IF x = l THEN m ELSE u.parent[x]
        BY <1>12, <1>13, <3>1
      <3>4. w \in Graph /\ \A x \in Links : w.color[x] = u.color[x]
        BY <1>12, <1>13, <3>1
      <3>5. QED
        BY <2>2, <3>2, <3>3, <3>4
    <2>3. QED
      BY <2>1, <2>2
  <1>15. w.parent[a] = u.parent[a] /\ w.parent[n] = pn /\ \A d \in Side : w.kid[d][pn] = u.kid[d][pn]
    <2>1. a # rt /\ a # ch /\ a # l /\ n # ch
      BY <1>2, <1>4, Disjoint
    <2>2. w.parent[a] = u.parent[a] /\ w.parent[n] = u.parent[n]
      BY <1>4, <1>14, <2>1
    <2>3. ASSUME NEW d \in Side
          PROVE  w.kid[d][pn] = u.kid[d][pn]
      BY <1>2, <1>3, <1>4, <1>14
    <2>4. QED
      BY <2>2, <2>3 DEF pn
  <1>16. /\ y \in Graph
         /\ \A x \in Links : y.color[x] = w.color[x]
         /\ \A x \in Nodes, d \in Side : y.kid[d][x] = IF u.kid[d][x] = n THEN m ELSE w.kid[d][x]
         /\ \A x \in Nodes : y.parent[x] = w.parent[x]
         /\ \A b \in Trees : /\ y.parent[b] = IF u.parent[b] = n THEN m ELSE w.parent[b]
                             /\ \A d \in Side : y.kid[d][b] = w.kid[d][b]
    <2>1. w.parent[n] = u.parent[n] /\ \A d \in Side : w.kid[d][u.parent[n]] = u.kid[d][u.parent[n]]
      BY <1>15 DEF pn
    <2>2. m \in Nodes \cup {NULL} /\ w \in Graph /\ w.parent[a] = u.parent[a]
      BY <1>2, <1>14, <1>15
    <2>3. QED
      <3>1. Replace(w, a, n, m) = y
        BY DEF y
      <3>2. QED
        BY <2>1, <2>2, <3>1, ReplaceIs
  <1>17. x1 \in Graph /\ ParentSet(x1, y, m, pn)
    BY <1>2, <1>4, <1>16, SetParentIs DEF x1
  <1>18. x2 \in Graph /\ Painted(x2, x1, m, u.color[n])
    BY <1>2, <1>4, <1>17, PaintIs DEF x2
  <1>19. x3 \in Graph /\ Painted(x3, x2, n, u.color[m])
    BY <1>4, <1>18, PaintIs DEF x3
  <1>20. /\ r \in Graph
         /\ \A x \in Links : r.color[x] = IF x = n THEN "black" ELSE x3.color[x]
         /\ \A x \in Links, d \in Side : r.kid[d][x] = IF x = n THEN NULL ELSE x3.kid[d][x]
         /\ \A x \in Links : r.parent[x] = IF x = n THEN NULL ELSE x3.parent[x]
    BY <1>19, FreeIs DEF r
  <1>21. /\ \A x \in Links : r.color[x] = IF x = n THEN "black" ELSE IF x = m THEN u.color[n] ELSE y.color[x]
         /\ \A x \in Links, d \in Side : r.kid[d][x] = IF x = n THEN NULL ELSE y.kid[d][x]
         /\ \A x \in Links : r.parent[x] = IF x = n THEN NULL ELSE IF x = m THEN pn ELSE y.parent[x]
    BY <1>17, <1>18, <1>19, <1>20 DEF ParentSet, Painted
  <1>22. \A x \in Links : r.color[x] = IF x = n THEN "black" ELSE IF x = m THEN u.color[n] ELSE u.color[x]
    BY <1>14, <1>16, <1>21
  <1>23. \A d \in Side : r.kid[d][n] = NULL
    BY <1>4, <1>21
  <1>24. r.kid["left"][m] = l /\ r.kid["right"][m] = IF m # rt THEN rt ELSE ch
    <2>1. u.kid["left"][m] # n /\ ch # n
      BY <1>0, <1>2
    <2>2. r.kid["left"][m] = w.kid["left"][m] /\ r.kid["right"][m] = w.kid["right"][m]
      BY <1>1, <1>2, <1>4, <1>16, <1>21, <2>1 DEF ch
    <2>3. w.kid["left"][m] = l /\ w.kid["right"][m] = IF m # rt THEN rt ELSE u.kid["right"][m]
      BY <1>1, <1>2, <1>4, <1>14
    <2>4. QED
      BY <2>2, <2>3 DEF ch
  <1>25. ASSUME NEW x \in Nodes \ {n, m}, NEW d \in Side
         PROVE  r.kid[d][x] = IF u.kid[d][x] = n THEN m ELSE IF u.kid[d][x] = m THEN ch ELSE u.kid[d][x]
    <2>1. x \in Links /\ x # n /\ x # m
      BY <1>4
    <2>2. r.kid[d][x] = IF u.kid[d][x] = n THEN m ELSE w.kid[d][x]
      BY <1>16, <1>21, <2>1
    <2>3. w.kid[d][x] = IF m # rt /\ d = "left" /\ x = P THEN ch ELSE u.kid[d][x]
      BY <1>14, <2>1, SMTT(30), ZenonT(30)
    <2>4. u.kid[d][x] = m => x = P
      BY <1>0, <1>2, <1>4, TreeFacts DEF P
    <2>5. u.kid[d][x] = m <=> (m # rt /\ d = "left" /\ x = P)
      BY <1>1, <1>2, <2>1, <2>4
    <2>6. QED
      BY <1>2, <2>2, <2>3, <2>5
  <1>26. ASSUME NEW x \in Nodes \ {n, m}
         PROVE  r.parent[x] = IF u.parent[x] = n THEN m ELSE IF x = ch /\ m # rt THEN P ELSE u.parent[x]
    <2>1. x \in Links /\ x # n /\ x # m
      BY <1>4
    <2>2. r.parent[x] = IF m # rt /\ x = rt THEN m ELSE IF m # rt /\ x = ch THEN P
                        ELSE IF x = l THEN m ELSE u.parent[x]
      BY <1>14, <1>16, <1>21, <2>1
    <2>3. u.parent[x] = n => x = l \/ x = rt
      <3> SUFFICES ASSUME u.parent[x] = n
                   PROVE  x = l \/ x = rt
        OBVIOUS
      <3>1. g.own[x] # NULL
        BY <1>0 DEF Nodal, NodesAt, Loose
      <3>2. \E d \in Side : u.kid[d][n] = x
        BY <1>0, <3>1, ParentFacts
      <3>3. QED
        BY <1>1, <3>2 DEF l, rt
    <2>4. QED
      BY <1>2, <2>1, <2>2, <2>3, <1>4
  <1>27. r.parent[n] = NULL /\ r.parent[m] = pn
    BY <1>2, <1>4, <1>21
  <1>28. ASSUME NEW b \in Trees
         PROVE  /\ r.parent[b] = IF u.parent[b] = n THEN m ELSE u.parent[b]
                /\ \A d \in Side : r.kid[d][b] = u.kid[d][b]
    <2>1. b \in Links /\ b # n /\ b # m /\ b # rt /\ b # ch /\ b # l /\ b # P
      BY <1>2, <1>4, Disjoint
    <2>2. w.parent[b] = u.parent[b] /\ \A d \in Side : w.kid[d][b] = u.kid[d][b]
      BY <1>14, <2>1, SMTT(30), ZenonT(30)
    <2>3. QED
      BY <1>16, <1>21, <2>1, <2>2
  <1>29. InnerGone(r, u, n, m)
    BY <1>22, <1>23, <1>24, <1>25, <1>26, <1>27, <1>28 DEF InnerGone, l, rt, ch, P, pn
  <1>30. x3.color[n] = u.color[m]
    BY <1>4, <1>19 DEF Painted
  <1>31. QED
    BY <1>5, <1>20, <1>29, <1>30 DEF r

\* The names of two nodes or two anchors are exchanged.
Exchange(n, m) == [x \in Links \cup {NULL} |-> IF x = n THEN m ELSE IF x = m THEN n ELSE x]

\* Erasing a node with two kids is erasing the next one and giving it the place
\* of the node.
LEMMA InnerShape ==
  ASSUME NEW u, NEW g, Shape(u, g), NEW a \in Trees, NEW n \in Nodes, g.own[n] = a,
         u.kid["left"][n] # NULL, u.kid["right"][n] # NULL,
         NEW m, Farthest(u, u.kid["right"][n], "left") = m
  PROVE  LET r == Free(DetachInner(u, a, n), n)
             r1 == Free(DetachLeaf(u, a, m), m)
         IN  /\ r \in Graph /\ Relabels(r, r1, Exchange(n, m))
             /\ Shape(r1, Removed(g, a, m)) /\ LeafGone(r1, u, m, u.kid["right"][m])
             /\ Shape(r, Renamed(Removed(g, a, m), Exchange(n, m)))
             /\ DetachInner(u, a, n).color[n] = u.color[m]
  <1> DEFINE r == Free(DetachInner(u, a, n), n)
             r1 == Free(DetachLeaf(u, a, m), m)
             pi == Exchange(n, m)
             h == Removed(g, a, m)
             ch == u.kid["right"][m]
             q == g.pos[n]
  <1>0. Nodal(u, g) /\ u \in Graph /\ TreesAt(u, g) /\ g.own[n] # NULL /\ a # NULL /\ n # NULL
    BY Disjoint DEF Shape, Nodal
  <1>1. Side = {"left", "right"} /\ "left" \in Side /\ "right" \in Side
        /\ Other("left") = "right" /\ Other("right") = "left"
    BY SMTT(30), ZenonT(30) DEF Side, Other
  <1>2. /\ m \in Nodes /\ m # n /\ u.kid["left"][m] = NULL /\ g.own[m] = a
        /\ u.parent[n] # m /\ u.parent[m] # m /\ u.parent[m] \in Nodes
        /\ (u.parent[m] = n <=> m = u.kid["right"][n])
        /\ (u.parent[m] # n => u.kid["left"][u.parent[m]] = m /\ u.kid["right"][u.parent[m]] # m)
        /\ (ch # NULL => u.parent[ch] = m /\ ch \in Nodes /\ ch # n)
        /\ ch # m
        /\ u.kid["left"][n] # m
    BY NextFacts
  <1>3. g.pos[m] = q + 1 /\ g.end["left"][n] < q /\ q < g.end["right"][n]
    BY NextFacts
  <1>4. r \in Graph /\ InnerGone(r, u, n, m) /\ DetachInner(u, a, n).color[n] = u.color[m]
    BY InnerIs
  <1>5. Shape(r1, h) /\ LeafGone(r1, u, m, ch)
    <2>1. u.kid[Other("right")][m] = NULL
      BY <1>1, <1>2, SMTT(30), ZenonT(30)
    <2>2. QED
      BY <1>1, <1>2, <2>1, LeafShape
  <1>6. /\ h.own[n] = a /\ h.own[m] = NULL
        /\ \A b \in Trees : h.len[b] = IF b = a THEN g.len[a] - 1 ELSE g.len[b]
        /\ \A b \in Trees, i \in Int : h.at[b][i] = IF b # a \/ i < q + 1 THEN g.at[b][i] ELSE g.at[b][i + 1]
    BY <1>0, <1>2, <1>3, RemovedIs
  <1> HIDE DEF r, r1, h, pi, ch, q
  <1>7. /\ pi[n] = m /\ pi[m] = n /\ pi[NULL] = NULL
        /\ \A x \in Links : x # n /\ x # m => pi[x] = x
        /\ \A x \in Nodes : x \in Links /\ x \notin Trees /\ x # NULL
        /\ \A b \in Trees : b \in Links /\ b # n /\ b # m /\ b # NULL
        /\ n \in Links /\ m \in Links
    BY <1>0, <1>2, Disjoint DEF pi, Exchange
  <1>8. /\ pi[NULL] = NULL /\ \A x \in Links : pi[x] \in Links /\ pi[pi[x]] = x
        /\ \A x \in Nodes : pi[x] \in Nodes
        /\ \A b \in Trees : pi[b] = b
    BY <1>2, <1>7
  <1>9. /\ \A x \in Links : r1.color[x] = IF x = m THEN "black" ELSE u.color[x]
        /\ \A x \in Nodes, d \in Side : r1.kid[d][x] = IF x = m THEN NULL ELSE IF u.kid[d][x] = m THEN ch ELSE u.kid[d][x]
        /\ \A x \in Nodes : r1.parent[x] = IF x = m THEN NULL ELSE IF x = ch THEN u.parent[m] ELSE u.parent[x]
        /\ \A b \in Trees : r1.parent[b] = IF u.parent[b] = m THEN ch ELSE u.parent[b]
    BY <1>5, SMTT(30), ZenonT(30) DEF LeafGone
  <1>10. /\ \A x \in Links : r.color[x] = IF x = n THEN "black" ELSE IF x = m THEN u.color[n] ELSE u.color[x]
         /\ \A x \in Nodes \ {n, m}, d \in Side :
              r.kid[d][x] = IF u.kid[d][x] = n THEN m ELSE IF u.kid[d][x] = m THEN ch ELSE u.kid[d][x]
         /\ \A d \in Side : r.kid[d][n] = NULL
         /\ r.kid["left"][m] = u.kid["left"][n]
         /\ r.kid["right"][m] = IF m # u.kid["right"][n] THEN u.kid["right"][n] ELSE ch
         /\ \A x \in Nodes \ {n, m} :
              r.parent[x] = IF u.parent[x] = n THEN m
                            ELSE IF x = ch /\ m # u.kid["right"][n] THEN u.parent[m] ELSE u.parent[x]
         /\ r.parent[n] = NULL /\ r.parent[m] = u.parent[n]
         /\ \A b \in Trees : /\ r.parent[b] = IF u.parent[b] = n THEN m ELSE u.parent[b]
                             /\ \A d \in Side : r.kid[d][b] = u.kid[d][b]
    BY <1>4 DEF InnerGone, ch
  <1>11. /\ \A x \in Links : u.kid["left"][x] \in Links \cup {NULL} /\ u.kid["right"][x] \in Links \cup {NULL}
                             /\ u.parent[x] \in Links \cup {NULL}
         /\ u.parent[n] # n
         /\ \A d \in Side : u.kid[d][n] # n /\ u.kid[d][m] # n
         /\ \A b \in Trees : u.parent[b] # m
    <2>1. \A x \in Links : u.kid["left"][x] \in Links \cup {NULL} /\ u.kid["right"][x] \in Links \cup {NULL}
                             /\ u.parent[x] \in Links \cup {NULL}
      BY <1>0, <1>1 DEF Graph
    <2>2. u.parent[n] # n
      BY <1>0, <1>7, ParentFacts
    <2>3. \A d \in Side : u.kid[d][n] # n
      BY <1>0, <1>7, TreeFacts
    <2>4. \A d \in Side : u.kid[d][m] # n
      BY <1>0, <1>1, <1>2, <1>7 DEF ch
    <2>5. ASSUME NEW b \in Trees, u.parent[b] = m
          PROVE  FALSE
      <3>1. AnchorAt(u, g, b)
        BY <1>0 DEF TreesAt
      <3>2. u.parent[m] = b
        BY <1>7, <2>5, <3>1, <1>2, SMTT(30), ZenonT(30) DEF AnchorAt
      <3>3. QED
        BY <1>2, <1>7, <3>2
    <2>6. QED
      BY <2>1, <2>2, <2>3, <2>4, <2>5
  <1>12. \A x \in Links : r.color[x] = r1.color[pi[x]]
    BY <1>2, <1>7, <1>9, <1>10
  <1>13. ASSUME NEW x \in Nodes, NEW d \in Side
         PROVE  r.kid[d][x] = pi[r1.kid[d][pi[x]]]
    <2>1. CASE x = n
      BY <1>2, <1>7, <1>9, <1>10, <2>1
    <2>2. CASE x = m
      <3>1. r1.kid[d][n] = IF u.kid[d][n] = m THEN ch ELSE u.kid[d][n]
        BY <1>2, <1>9
      <3>2. u.kid[d][n] \in Links \cup {NULL} /\ u.kid[d][n] # n
        BY <1>1, <1>7, <1>11
      <3>3. pi[ch] = ch
        BY <1>2, <1>7, SMTT(30), ZenonT(30)
      <3>4. CASE d = "left"
        BY <1>2, <1>7, <1>10, <2>2, <3>1, <3>2, <3>4, SMTT(30), ZenonT(30)
      <3>5. CASE d = "right"
        BY <1>2, <1>7, <1>10, <2>2, <3>1, <3>2, <3>3, <3>5
      <3>6. QED
        BY <1>1, <3>4, <3>5
    <2>3. CASE x # n /\ x # m
      <3>1. pi[x] = x
        BY <1>7, <2>3
      <3>2. r1.kid[d][x] = IF u.kid[d][x] = m THEN ch ELSE u.kid[d][x]
        BY <1>9, <2>3
      <3>3. r.kid[d][x] = IF u.kid[d][x] = n THEN m ELSE IF u.kid[d][x] = m THEN ch ELSE u.kid[d][x]
        BY <1>10, <2>3
      <3>4. pi[ch] = ch
        BY <1>2, <1>7
      <3>5. u.kid[d][x] \in Links \cup {NULL}
        BY <1>1, <1>7, <1>11
      <3>6. QED
        BY <1>2, <1>7, <3>1, <3>2, <3>3, <3>4, <3>5
    <2>4. QED
      BY <2>1, <2>2, <2>3, SMTT(30), ZenonT(30)
  <1>14. ASSUME NEW x \in Nodes
         PROVE  r.parent[x] = pi[r1.parent[pi[x]]]
    <2>1. CASE x = n
      BY <1>2, <1>7, <1>9, <1>10, <2>1, SMTT(30), ZenonT(30)
    <2>2. CASE x = m
      <3>1. n # ch /\ u.parent[n] \in Links \cup {NULL} /\ u.parent[n] # n /\ u.parent[n] # m
        BY <1>2, <1>7, <1>11
      <3>2. QED
        BY <1>2, <1>7, <1>9, <1>10, <2>2, <3>1
    <2>3. CASE x # n /\ x # m
      <3>1. pi[x] = x /\ u.parent[x] \in Links \cup {NULL}
        BY <1>7, <1>11, <2>3
      <3>2. r1.parent[x] = IF x = ch THEN u.parent[m] ELSE u.parent[x]
        BY <1>9, <2>3
      <3>3. r.parent[x] = IF u.parent[x] = n THEN m
                          ELSE IF x = ch /\ m # u.kid["right"][n] THEN u.parent[m] ELSE u.parent[x]
        BY <1>10, <2>3
      <3>4. u.parent[x] = m => x = ch
        <4> SUFFICES ASSUME u.parent[x] = m
                     PROVE  x = ch
          OBVIOUS
        <4>1. g.own[x] # NULL
          BY <1>0, <1>7, <1>2 DEF Nodal, NodesAt, Loose
        <4>2. \E d \in Side : u.kid[d][m] = x
          BY <1>0, <1>2, <4>1, ParentFacts
        <4>3. QED
          BY <1>1, <1>2, <1>7, <4>2 DEF ch
      <3>5. CASE x = ch
        BY <1>2, <1>7, <3>1, <3>2, <3>3, <3>5
      <3>6. CASE x # ch
        BY <1>2, <1>7, <3>1, <3>2, <3>3, <3>4, <3>6
      <3>7. QED
        BY <3>5, <3>6
    <2>4. QED
      BY <2>1, <2>2, <2>3, SMTT(30), ZenonT(30)
  <1>15. ASSUME NEW b \in Trees
         PROVE  r.parent[b] = pi[r1.parent[pi[b]]]
    <2>1. pi[b] = b /\ u.parent[b] \in Links \cup {NULL} /\ u.parent[b] # m
      BY <1>7, <1>8, <1>11
    <2>2. r1.parent[b] = u.parent[b] /\ r.parent[b] = IF u.parent[b] = n THEN m ELSE u.parent[b]
      BY <1>9, <1>10, <2>1
    <2>3. QED
      BY <1>7, <2>1, <2>2
  <1>16. ASSUME NEW b \in Trees, NEW d \in Side
         PROVE  r.kid[d][b] = pi[r1.kid[d][pi[b]]]
    <2>1. pi[b] = b /\ r.kid[d][b] = u.kid[d][b] /\ b # NULL /\ pi[b] = b
      BY <1>7, <1>8, <1>10
    <2>2. AnchorAt(u, g, b) /\ AnchorAt(r1, h, b)
          /\ \A i \in 1 .. g.len[b] : g.at[b][i] \in Nodes /\ g.own[g.at[b][i]] = b /\ g.pos[g.at[b][i]] = i
      BY <1>0, <1>5 DEF Shape, TreesAt
    <2>3. g.len[b] \in Nat /\ h.len[b] = IF b = a THEN g.len[a] - 1 ELSE g.len[b]
      BY <1>0, <1>6, TreeFacts
    <2>4. CASE b # a
      <3>1. \A i \in Int : h.at[b][i] = g.at[b][i]
        BY <1>6, <2>4
      <3>2. \A i \in 1 .. g.len[b] : g.at[b][i] # n /\ g.at[b][i] # m /\ g.at[b][i] \in Links
        BY <1>2, <1>7, <2>2, <2>4
      <3>3. CASE g.len[b] = 0
        <4>1. u.kid[d][b] = b /\ r1.kid[d][b] = b
          BY <1>1, <2>2, <2>3, <2>4, <3>3 DEF AnchorAt
        <4>2. QED
          BY <2>1, <4>1
      <3>4. CASE g.len[b] # 0
        <4> DEFINE i == IF d = "left" THEN 1 ELSE g.len[b]
        <4>1. i \in Int /\ i \in 1 .. g.len[b] /\ h.len[b] # 0
          BY <2>3, <2>4, <3>4
        <4>2. u.kid[d][b] = g.at[b][i] /\ r1.kid[d][b] = h.at[b][i]
          BY <1>1, <2>2, <2>3, <2>4, <3>4 DEF AnchorAt
        <4> HIDE DEF i
        <4>3. QED
          BY <1>7, <2>1, <3>1, <3>2, <4>1, <4>2
      <3>5. QED
        BY <3>3, <3>4
    <2>5. CASE b = a
      <3>1. /\ q \in Int /\ g.at[a][q] = n /\ g.at[a][q + 1] = m /\ q + 1 <= g.len[a] /\ q > 1
        <4>1. /\ q \in Int /\ g.at[a][q] = n /\ g.at[a][q + 1] = m /\ q + 1 <= g.len[a]
          BY <1>0, <1>2, <1>3, <1>7, TreeFacts, SMTT(30), ZenonT(30) DEF q
        <4>2. LET l == u.kid["left"][n]
              IN  l \in Nodes /\ g.own[l] = a /\ g.end["right"][l] = q - 1
          BY NextFacts DEF q
        <4>3. \A x \in Nodes : g.own[x] # NULL =>
                1 <= g.pos[x] /\ g.pos[x] <= g.end["right"][x] /\ g.pos[x] \in Int /\ g.end["right"][x] \in Int
          BY <1>0, TreeFacts
        <4>4. q - 1 >= 1
          BY <1>0, <4>1, <4>2, <4>3
        <4>5. QED
          BY <4>1, <4>4, SMTT(30), ZenonT(30)
      <3>2. g.len[a] \in Nat /\ h.len[a] = g.len[a] - 1 /\ g.len[a] # 0 /\ h.len[a] # 0
        BY <2>3, <2>5, <3>1
      <3>3. /\ u.kid["left"][a] = g.at[a][1] /\ u.kid["right"][a] = g.at[a][g.len[a]]
            /\ r1.kid["left"][a] = h.at[a][1] /\ r1.kid["right"][a] = h.at[a][g.len[a] - 1]
        BY <2>2, <2>5, <3>2 DEF AnchorAt
      <3>4. g.at[a][1] \in Nodes /\ g.pos[g.at[a][1]] = 1 /\ g.pos[n] = q /\ g.pos[m] = q + 1
            /\ g.at[a][g.len[a]] \in Nodes /\ g.pos[g.at[a][g.len[a]]] = g.len[a]
        <4>1. 1 \in 1 .. g.len[a] /\ g.len[a] \in 1 .. g.len[a]
          BY <3>2
        <4>2. QED
          BY <1>3, <2>2, <2>5, <4>1 DEF q
      <3>5. CASE d = "left"
        <4>1. h.at[a][1] = g.at[a][1]
          BY <1>6, <3>1, <3>2
        <4>2. g.at[a][1] # n /\ g.at[a][1] # m /\ g.at[a][1] \in Links
          BY <1>7, <3>1, <3>2, <3>4
        <4>3. QED
          BY <1>7, <2>1, <2>5, <3>3, <3>5, <4>1, <4>2
      <3>6. CASE d = "right" /\ q + 1 = g.len[a]
        <4>1. g.len[a] - 1 = q /\ g.len[a] - 1 < q + 1 /\ g.len[a] - 1 \in Int
          BY <3>1, <3>2, <3>6
        <4>2. h.at[a][g.len[a] - 1] = g.at[a][g.len[a] - 1]
          BY <1>6, <4>1
        <4>3. r1.kid["right"][a] = n /\ u.kid["right"][a] = m
          BY <3>1, <3>3, <3>6, <4>1, <4>2
        <4>4. QED
          BY <1>7, <2>1, <2>5, <3>6, <4>3
      <3>7. CASE d = "right" /\ q + 1 # g.len[a]
        <4>1. ~(g.len[a] - 1 < q + 1) /\ g.len[a] - 1 \in Int /\ g.len[a] - 1 + 1 = g.len[a]
          BY <3>1, <3>2, <3>7
        <4>2. h.at[a][g.len[a] - 1] = g.at[a][g.len[a]]
          <5>1. h.at[a][g.len[a] - 1] = g.at[a][g.len[a] - 1 + 1]
            BY <1>6, <4>1
          <5>2. QED
            BY <4>1, <5>1
        <4>3. g.at[a][g.len[a]] # n /\ g.at[a][g.len[a]] # m /\ g.at[a][g.len[a]] \in Links
          <5>1. g.len[a] # q /\ g.len[a] # q + 1
            BY <3>1, <3>2, <3>7
          <5>2. QED
            BY <1>7, <3>4, <5>1
        <4>4. QED
          BY <1>7, <2>1, <2>5, <3>3, <3>7, <4>2, <4>3
      <3>8. QED
        BY <1>1, <3>5, <3>6, <3>7
    <2>6. QED
      BY <2>4, <2>5
  <1>17. Relabels(r, r1, pi)
    <2>1. \A x \in Links : x \in Nodes \/ x \in Trees
      BY Disjoint
    <2>2. \A x \in Links, d \in Side : r.kid[d][x] = pi[r1.kid[d][pi[x]]]
      BY <1>13, <1>16, <2>1
    <2>3. \A x \in Links : r.parent[x] = pi[r1.parent[pi[x]]]
      BY <1>14, <1>15, <2>1
    <2>4. QED
      BY <1>8, <1>12, <2>2, <2>3 DEF Relabels
  <1>18. Shape(r, Renamed(h, pi))
    BY <1>4, <1>5, <1>17, RelabelShape
  <1>19. QED
    BY <1>4, <1>5, <1>17, <1>18 DEF r, r1, h, pi, ch

====
