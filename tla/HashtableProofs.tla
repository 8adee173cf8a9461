-------------------------- MODULE HashtableProofs --------------------------
(***************************************************************************)
(* Proofs about the tables of Hashtable.  IInv is inductive: Good relates  *)
(* tables, arrays and nodes, Working the work of one call.  The operations *)
(* rewrite the state of one table, and most lemmas say of one of them that *)
(* from a Valid state it returns a Valid state that holds such and such    *)
(* nodes; Installs then says what replacing the table by it does to the    *)
(* whole.  Each action of Next gives Kept, which is IInv' and a step of    *)
(* UnorderedContainer.  LInv adds what the rehash policy keeps to.         *)
(***************************************************************************)
EXTENDS Hashtable, FiniteSetTheorems, SequenceTheorems, WellFoundedInduction, NaturalsInduction, TLAPS

\* Programs that ask only what the code provides for: only a fixed container meets an
\* allocator that throws, and it is neither rehashed by hand nor cleared
\* without its buckets (README, section 5, tells what happens otherwise).
Careful(p) ==
  /\ "alloc" \in p.throws => p.buffer > 0
  /\ p.buffer > 0 => p.counts = {} /\ p.clears \subseteq {TRUE}

\* What an array holds, and the number of buckets of a fixed table's own array.
Chainings == Seq(Seq(prog.nodes))
OwnCount == GetPrevBucketCount(prog.buffer)

\* The fields of table t: without buckets of its own it uses the array all such
\* tables share, and a fixed one uses its own or one larger than it.
Sized(t, r) ==
  /\ r = Table(r.array, r.n, r.count, r.load, r.next)
  /\ r.n \in Nat \ {0} /\ r.count \in Nat /\ r.load \in Loads /\ r.next \in Nat
  /\ r.array = EmptyArray <=> r.n < 2
  /\ IF Fixed THEN \/ r.array = t /\ r.n = OwnCount
                   \/ r.array \in HeapArrays /\ r.n > prog.buffer
     ELSE r.array \in HeapArrays \cup {EmptyArray}

\* The chains of a table: every node where a search for its key begins, and as
\* many as the table counts.
Chained(r, c) ==
  /\ Len(c) = r.n
  /\ \A i \in 1 .. r.n : \A x \in ToSet(c[i]) : BucketIndex(KeyOf[x], r.n) = i
  /\ r.count = Cardinality(NodesIn(c))

\* A table without buckets asks the policy at its first insertion.
Asked(r) == r.n < 2 => r.next = 0

\* No two tables share nodes or an array of the heap, no array is lost, and the
\* allocated nodes are those in the chains.
Good(hh, mm, ll) ==
  /\ DOMAIN hh = Tables
  /\ mm \in [Arrays -> Chainings]
  /\ mm[EmptyArray] = <<<<>>>>
  /\ \A t \in Tables : Sized(t, hh[t]) /\ Asked(hh[t]) /\ Chained(hh[t], mm[hh[t].array])
  /\ ll = UNION {NodesIn(mm[hh[t].array]) : t \in Tables}
  /\ \A a \in HeapArrays : mm[a] # <<>> => \E t \in Tables : hh[t].array = a
  /\ \A t, u \in Tables : t # u =>
       /\ NodesIn(mm[hh[t].array]) \cap NodesIn(mm[hh[u].array]) = {}
       /\ hh[t].array = hh[u].array => hh[t].array = EmptyArray
  /\ Fixed => \A t \in Tables : hh[t].array # t => mm[t] = NullHeads(OwnCount)

\* A call under way has keys left to insert, and only an unfixed table is built
\* from a range.
Working ==
  \/ work = Idle
  \/ /\ work.table \in prog.tables
     /\ work.keys \in Seq(Keys) /\ work.keys # <<>>
     /\ work.ctor => ~Fixed

IInv == prog \in Programs /\ Good(h, mem, live) /\ Working

\* A set of numbers that is not empty has a least one.
LEMMA LeastOf ==
  ASSUME NEW S, S \subseteq Nat, S # {}
  PROVE  \E m \in S : \A y \in S : m <= y
  <1> DEFINE R == {x \in Nat \X Nat : x[1] < x[2]}
  <1>1. IsWellFoundedOn(R, Nat)
    BY NatLessThanWellFounded DEF OpToRel
  <1>2. PICK m \in S : \A y \in S : <<y, m>> \notin R
    <2> HIDE DEF R
    <2>1. QED
      BY <1>1, WFMin
  <1>3. ASSUME NEW y \in S
        PROVE  m <= y
    <2>1. y \in Nat /\ m \in Nat /\ <<y, m>> \notin R
      BY <1>2
    <2>2. <<y, m>> \in R <=> y < m
      BY <2>1
    <2>3. QED
      BY <2>1, <2>2
  <1>4. QED
    BY <1>3

Gathered(ss, n) == UNION {ToSet(ss[j]) : j \in 1 .. n}

LEMMA GatheredMore ==
  ASSUME NEW ss, NEW k \in Nat
  PROVE  Gathered(ss, k + 1) = Gathered(ss, k) \cup ToSet(ss[k + 1])
  <1>1. 1 .. k + 1 = (1 .. k) \cup {k + 1}
    OBVIOUS
  <1>2. ASSUME NEW y
        PROVE  y \in Gathered(ss, k + 1) <=> y \in Gathered(ss, k) \/ y \in ToSet(ss[k + 1])
    <2>1. y \in Gathered(ss, k + 1) <=> \E j \in 1 .. k + 1 : y \in ToSet(ss[j])
      BY DEF Gathered
    <2>2. y \in Gathered(ss, k) <=> \E j \in 1 .. k : y \in ToSet(ss[j])
      BY DEF Gathered
    <2>3. QED
      BY <1>1, <2>1, <2>2
  <1>3. QED
    BY <1>2

LEMMA JoinIs ==
  ASSUME NEW X, NEW c \in Seq(X), NEW d \in Seq(X)
  PROVE  c \o d \in Seq(X) /\ ToSet(c \o d) = ToSet(c) \cup ToSet(d)
  <1>1. c \o d \in Seq(X) /\ Len(c \o d) = Len(c) + Len(d)
    OBVIOUS
  <1>2. ASSUME NEW i \in 1 .. Len(c)
        PROVE  (c \o d)[i] = c[i] /\ i \in 1 .. Len(c \o d)
    BY <1>1
  <1>3. ASSUME NEW i \in 1 .. Len(d)
        PROVE  (c \o d)[i + Len(c)] = d[i] /\ i + Len(c) \in 1 .. Len(c \o d)
    BY <1>1
  <1>4. ASSUME NEW i \in 1 .. Len(c \o d)
        PROVE  (c \o d)[i] \in ToSet(c) \cup ToSet(d)
    <2>1. CASE i \in 1 .. Len(c)
      BY <2>1, <1>2 DEF ToSet
    <2>2. CASE i \notin 1 .. Len(c)
      <3>1. i - Len(c) \in 1 .. Len(d) /\ (i - Len(c)) + Len(c) = i
        BY <2>2, <1>1
      <3>2. QED
        BY <3>1, <1>3 DEF ToSet
    <2>3. QED
      BY <2>1, <2>2
  <1>5. DOMAIN c = 1 .. Len(c) /\ DOMAIN d = 1 .. Len(d) /\ DOMAIN (c \o d) = 1 .. Len(c \o d)
    BY <1>1
  <1>6. ToSet(c \o d) \subseteq ToSet(c) \cup ToSet(d)
    BY <1>4, <1>5 DEF ToSet
  <1>7. ToSet(c) \subseteq ToSet(c \o d)
    BY <1>2, <1>5 DEF ToSet
  <1>8. ToSet(d) \subseteq ToSet(c \o d)
    BY <1>3, <1>5 DEF ToSet
  <1>9. QED
    BY <1>1, <1>6, <1>7, <1>8

-----------------------------------------------------------------------------
(* Sequences. *)
LEMMA NatInduction1 ==
  ASSUME NEW S, 0 \in S, \A n \in Nat : n \in S => n + 1 \in S
  PROVE  Nat \subseteq S
  <1> DEFINE R == {x \in Nat \X Nat : x[1] < x[2]}
             T == Nat \ S
  <1>1. IsWellFoundedOn(R, Nat)
    BY NatLessThanWellFounded DEF OpToRel
  <1>2. SUFFICES ASSUME T # {} PROVE FALSE
    OBVIOUS
  <1>3. PICK x \in T : \A y \in T : <<y, x>> \notin R
    <2>1. T \subseteq Nat
      OBVIOUS
    <2> HIDE DEF T, R
    <2>2. QED
      BY <1>1, <1>2, <2>1, WFMin
  <1>4. x \in Nat /\ x # 0
    OBVIOUS
  <1>5. x - 1 \in Nat /\ <<x - 1, x>> \in R /\ (x - 1) + 1 = x
    BY <1>4
  <1>6. x - 1 \in S
    BY <1>3, <1>5
  <1>7. QED
    BY <1>5, <1>6

\* The equation of a function that flattens a prefix of ss.
Flattens(f, ss, k) == f = [i \in 1 .. k |-> IF i = 1 THEN ss[i] ELSE f[i - 1] \o ss[i]]

LEMMA FlattensExists ==
  ASSUME NEW ss, NEW n \in Nat
  PROVE  \E f : Flattens(f, ss, n)
  <1> DEFINE S == {k \in Nat : \E f : Flattens(f, ss, k)}
  <1>1. 0 \in S
    <2>1. Flattens(<<>>, ss, 0)
      BY DEF Flattens
    <2>2. QED
      BY <2>1
  <1>2. ASSUME NEW k \in Nat, k \in S
        PROVE  k + 1 \in S
    <2>1. PICK f : Flattens(f, ss, k)
      BY <1>2
    <2> DEFINE g == [i \in 1 .. k + 1 |->
                       IF i = 1 THEN ss[i] ELSE IF i \in 1 .. k THEN f[i] ELSE f[i - 1] \o ss[i]]
    <2>2. ASSUME NEW i \in 1 .. k + 1
          PROVE  g[i] = IF i = 1 THEN ss[i] ELSE g[i - 1] \o ss[i]
      <3>1. CASE i = 1
        BY <3>1
      <3>2. CASE i # 1
        <4>1. i - 1 \in 1 .. k /\ i - 1 \in 1 .. k + 1
          BY <3>2
        <4>2. g[i - 1] = f[i - 1]
          BY <4>1, <2>1 DEF Flattens
        <4>3. i \in 1 .. k => f[i] = f[i - 1] \o ss[i]
          BY <2>1, <3>2 DEF Flattens
        <4>4. QED
          BY <3>2, <4>2, <4>3
      <3>3. QED
        BY <3>1, <3>2
    <2>3. Flattens(g, ss, k + 1)
      BY <2>2 DEF Flattens
    <2>4. QED
      BY <2>3
  <1>3. Nat \subseteq S
    <2> HIDE DEF S
    <2>1. QED
      BY <1>1, <1>2, NatInduction1
  <1>4. QED
    BY <1>3

\* What FlattenSeq makes of chains is a sequence of their nodes.
LEMMA FlattenIs ==
  ASSUME NEW X, NEW ss \in Seq(Seq(X))
  PROVE  FlattenSeq(ss) \in Seq(X) /\ ToSet(FlattenSeq(ss)) = NodesIn(ss)
  <1> DEFINE n == Len(ss)
             f == CHOOSE g : Flattens(g, ss, n)
  <1>1. n \in Nat /\ DOMAIN ss = 1 .. n
    OBVIOUS
  <1>2. CASE n = 0
    BY <1>1, <1>2 DEF FlattenSeq, NodesIn, ToSet
  <1>3. CASE n # 0
    <2>1. FlattenSeq(ss) = f[n]
      BY <1>3 DEF FlattenSeq, Flattens
    <2>2. Flattens(f, ss, n)
      BY <1>1, FlattensExists
    <2>3. \A i \in 1 .. n : f[i] = IF i = 1 THEN ss[i] ELSE f[i - 1] \o ss[i]
      <3> HIDE DEF f
      <3>1. QED
        BY <2>2 DEF Flattens
    <2> HIDE DEF f
    <2> DEFINE Flat(i) == f[i] \in Seq(X) /\ ToSet(f[i]) = Gathered(ss, i)
               S == {k \in Nat : k + 1 \in 1 .. n => Flat(k + 1)}
    <2>4. 0 \in S
      <3>1. f[1] = ss[1] /\ 1 \in 1 .. n
        BY <1>1, <1>3, <2>3
      <3>2. Gathered(ss, 1) = ToSet(ss[1])
        BY DEF Gathered
      <3>3. QED
        BY <3>1, <3>2
    <2>5. ASSUME NEW k \in Nat, k \in S
          PROVE  k + 1 \in S
      <3> DEFINE m == (k + 1) + 1
      <3>1. SUFFICES ASSUME m \in 1 .. n
                     PROVE  Flat(m)
        OBVIOUS
      <3>2. f[m] = f[k + 1] \o ss[m]
        <4>1. m # 1 /\ m - 1 = k + 1
          OBVIOUS
        <4>2. QED
          BY <3>1, <2>3, <4>1
      <3>3. Flat(k + 1)
        BY <3>1, <2>5, <1>1
      <3>4. ss[m] \in Seq(X)
        BY <3>1
      <3>5. f[m] \in Seq(X) /\ ToSet(f[m]) = ToSet(f[k + 1]) \cup ToSet(ss[m])
        <4>1. f[k + 1] \in Seq(X)
          BY <3>3
        <4>2. QED
          BY <3>2, <3>4, <4>1, JoinIs
      <3>6. Gathered(ss, m) = Gathered(ss, k + 1) \cup ToSet(ss[m])
        BY GatheredMore
      <3> HIDE DEF m
      <3>7. QED
        BY <3>3, <3>5, <3>6
    <2>6. n - 1 \in S
      <3>1. n - 1 \in Nat
        BY <1>1, <1>3
      <3> HIDE DEF S, n
      <3>2. QED
        BY <3>1, <2>4, <2>5, NatInduction1, SMTT(30), ZenonT(30)
    <2>7. Flat(n)
      BY <2>6, <1>1, <1>3
    <2>8. QED
      BY <2>1, <2>7, <1>1 DEF NodesIn, Gathered
  <1>4. QED
    BY <1>2, <1>3

\* What Only keeps is what it is to keep.
LEMMA OnlyIs ==
  ASSUME NEW X, NEW c \in Seq(X), NEW S, S \subseteq ToSet(c)
  PROVE  Only(c, S) \in Seq(X) /\ ToSet(Only(c, S)) = S
  <1> DEFINE ss == [j \in DOMAIN c |-> IF c[j] \in S THEN <<c[j]>> ELSE <<>>]
  <1>1. DOMAIN c = 1 .. Len(c) /\ Len(c) \in Nat
    OBVIOUS
  <1>2. ss \in Seq(Seq(X)) /\ DOMAIN ss = 1 .. Len(c)
    <2>1. \A j \in 1 .. Len(c) : ss[j] \in Seq(X)
      BY <1>1
    <2> HIDE DEF ss
    <2>2. ss = [j \in 1 .. Len(c) |-> ss[j]]
      BY <1>1 DEF ss
    <2>3. QED
      BY <1>1, <2>1, <2>2
  <1>3. \A j \in 1 .. Len(c) : ToSet(ss[j]) = {c[j]} \cap S
    <2>1. ASSUME NEW j \in 1 .. Len(c)
          PROVE  ToSet(ss[j]) = {c[j]} \cap S
      <3>1. ToSet(<<c[j]>>) = {c[j]} /\ ToSet(<<>>) = {}
        BY DEF ToSet
      <3>2. QED
        BY <1>1, <3>1
    <2>2. QED
      BY <2>1
  <1>4. Only(c, S) = FlattenSeq(ss)
    BY DEF Only
  <1> HIDE DEF ss
  <1>5. NodesIn(ss) = S
    <2>1. \A y : y \in NodesIn(ss) <=> \E j \in 1 .. Len(c) : y \in ToSet(ss[j])
      BY <1>2 DEF NodesIn
    <2>2. \A y : y \in ToSet(c) <=> \E j \in 1 .. Len(c) : y = c[j]
      BY <1>1 DEF ToSet
    <2>3. ASSUME NEW y
          PROVE  y \in NodesIn(ss) <=> y \in S
      BY <1>3, <2>1, <2>2
    <2>4. QED
      BY <2>3
  <1>6. QED
    BY <1>2, <1>4, <1>5, FlattenIs

LEMMA ReverseIs ==
  ASSUME NEW X, NEW c \in Seq(X)
  PROVE  Reverse(c) \in Seq(X) /\ ToSet(Reverse(c)) = ToSet(c)
  <1>1. DOMAIN c = 1 .. Len(c) /\ Len(c) \in Nat /\ Reverse(c) \in Seq(X) /\ DOMAIN Reverse(c) = 1 .. Len(c)
    BY DEF Reverse
  <1>2. \A i \in 1 .. Len(c) : (Len(c) - i) + 1 \in 1 .. Len(c) /\ Reverse(c)[i] = c[(Len(c) - i) + 1]
    BY <1>1 DEF Reverse
  <1>3. \A i \in 1 .. Len(c) : c[i] = Reverse(c)[(Len(c) - i) + 1]
    BY <1>1 DEF Reverse
  <1>4. ASSUME NEW y
        PROVE  y \in ToSet(Reverse(c)) <=> y \in ToSet(c)
    <2>1. y \in ToSet(Reverse(c)) <=> \E i \in 1 .. Len(c) : y = Reverse(c)[i]
      BY <1>1 DEF ToSet
    <2>2. y \in ToSet(c) <=> \E i \in 1 .. Len(c) : y = c[i]
      BY <1>1 DEF ToSet
    <2>3. \A i \in 1 .. Len(c) : (Len(c) - i) + 1 \in 1 .. Len(c)
      BY <1>1
    <2>4. QED
      BY <1>2, <1>3, <2>1, <2>2, <2>3
  <1>5. QED
    BY <1>1, <1>4

LEMMA LinkedIs ==
  ASSUME NEW X, NEW c \in Seq(X), NEW x \in X
  PROVE  Linked(c, x) \in Seq(X) /\ ToSet(Linked(c, x)) = ToSet(c) \cup {x}
  <1> DEFINE equal == {j \in DOMAIN c : KeyOf[c[j]] = KeyOf[x]}
  <1>1. PICK u : u = <<x>>
    OBVIOUS
  <1>0. u \in Seq(X) /\ ToSet(u) = {x}
    BY <1>1 DEF ToSet
  <1>2. CASE equal = {}
    <2>1. Linked(c, x) = u \o c
      BY <1>1, <1>2 DEF Linked
    <2>2. QED
      BY <1>0, <2>1, JoinIs
  <1>3. CASE equal # {}
    <2>1. PICK i \in DOMAIN c : Min(equal) = i
      <3>1. equal \subseteq Nat
        OBVIOUS
      <3>2. \E m \in equal : \A y \in equal : m <= y
        <4> HIDE DEF equal
        <4>1. QED
          BY <1>3, <3>1, LeastOf
      <3>3. Min(equal) \in equal
        BY <3>2 DEF Min
      <3>4. QED
        BY <3>3
    <2>2. Linked(c, x) = InsertAt(c, i + 1, x)
      BY <1>3, <2>1 DEF Linked
    <2> DEFINE a == SubSeq(c, 1, i)
               b == SubSeq(c, i + 1, Len(c))
    <2>3. i \in 1 .. Len(c) /\ Len(c) \in Nat
      BY <2>1
    <2>4. Linked(c, x) = (a \o u) \o b
      <3>1. PICK k : k = i + 1
        OBVIOUS
      <3>2. InsertAt(c, k, x) = (SubSeq(c, 1, k - 1) \o u) \o SubSeq(c, k, Len(c))
        BY <1>1 DEF InsertAt
      <3>3. k - 1 = i
        BY <3>1, <2>3
      <3>4. QED
        BY <2>2, <3>1, <3>2, <3>3
    <2>5. a \in Seq(X) /\ Len(a) = i /\ \A j \in 1 .. i : a[j] = c[j]
      BY <2>3
    <2>6. b \in Seq(X) /\ Len(b) = Len(c) - i /\ \A j \in 1 .. Len(c) - i : b[j] = c[i + j]
      BY <2>3
    <2> HIDE DEF a, b
    <2>7. ToSet(a) \cup ToSet(b) = ToSet(c)
      <3>1. DOMAIN a = 1 .. i /\ DOMAIN b = 1 .. Len(c) - i /\ DOMAIN c = 1 .. Len(c)
        BY <2>5, <2>6
      <3>2. ToSet(a) \subseteq ToSet(c)
        BY <2>3, <2>5, <3>1 DEF ToSet
      <3>3. ToSet(b) \subseteq ToSet(c)
        BY <2>3, <2>6, <3>1 DEF ToSet
      <3>4. ASSUME NEW j \in 1 .. Len(c)
            PROVE  c[j] \in ToSet(a) \cup ToSet(b)
        <4>1. CASE j <= i
          BY <4>1, <2>3, <2>5, <3>1 DEF ToSet
        <4>2. CASE j > i
          <5>1. j - i \in 1 .. Len(c) - i /\ i + (j - i) = j
            BY <4>2, <2>3
          <5>2. QED
            BY <5>1, <2>6, <3>1 DEF ToSet
        <4>3. QED
          BY <4>1, <4>2, <2>3
      <3>5. QED
        BY <3>1, <3>2, <3>3, <3>4 DEF ToSet
    <2>8. a \o u \in Seq(X) /\ ToSet(a \o u) = ToSet(a) \cup {x}
      BY <1>0, <2>5, JoinIs
    <2>9. (a \o u) \o b \in Seq(X) /\ ToSet((a \o u) \o b) = (ToSet(a) \cup {x}) \cup ToSet(b)
      <3>1. PICK d : d = a \o u
        OBVIOUS
      <3>2. d \in Seq(X) /\ ToSet(d) = ToSet(a) \cup {x}
        BY <2>8, <3>1
      <3>3. d \o b \in Seq(X) /\ ToSet(d \o b) = ToSet(d) \cup ToSet(b)
        BY <2>6, <3>2, JoinIs
      <3>4. QED
        BY <3>1, <3>2, <3>3
    <2>10. QED
      BY <2>4, <2>7, <2>9
  <1>4. QED
    BY <1>2, <1>3

LEMMA NullHeadsAre ==
  ASSUME NEW n \in Nat, NEW X
  PROVE  /\ NullHeads(n) \in Seq(Seq(X)) /\ Len(NullHeads(n)) = n
         /\ NodesIn(NullHeads(n)) = {} /\ \A i \in 1 .. n : NullHeads(n)[i] = <<>>
  <1>1. \A i \in 1 .. n : NullHeads(n)[i] = <<>>
    BY DEF NullHeads
  <1>2. NullHeads(n) \in Seq(Seq(X)) /\ Len(NullHeads(n)) = n /\ DOMAIN NullHeads(n) = 1 .. n
    BY DEF NullHeads
  <1>3. NodesIn(NullHeads(n)) = {}
    BY <1>1, <1>2 DEF NodesIn, ToSet
  <1>4. QED
    BY <1>1, <1>2, <1>3

\* A finite set of numbers that is not empty has a greatest one: one that has
\* the fewest above it.
LEMMA GreatestOf ==
  ASSUME NEW S, IsFiniteSet(S), S \subseteq Nat, S # {}
  PROVE  \E m \in S : \A y \in S : m >= y
  <1> DEFINE Above(x) == {y \in S : y > x}
             D == {Cardinality(Above(x)) : x \in S}
  <1>1. \A x \in S : IsFiniteSet(Above(x)) /\ Cardinality(Above(x)) \in Nat
    <2>1. ASSUME NEW x \in S
          PROVE  IsFiniteSet(Above(x)) /\ Cardinality(Above(x)) \in Nat
      <3>1. Above(x) \in SUBSET S
        OBVIOUS
      <3> HIDE DEF Above
      <3>2. IsFiniteSet(Above(x))
        BY <3>1, FS_Subset
      <3>3. QED
        BY <3>2, FS_CardinalityType
    <2>2. QED
      BY <2>1
  <1>2. D \subseteq Nat /\ D # {}
    BY <1>1
  <1>3. PICK d \in D : \A e \in D : d <= e
    <2> HIDE DEF D
    <2>1. QED
      BY <1>2, LeastOf
  <1>4. PICK m \in S : d = Cardinality(Above(m))
    OBVIOUS
  <1>5. ASSUME NEW y \in S, y > m
        PROVE  FALSE
    <2>1. Above(y) \in SUBSET Above(m) /\ Above(y) # Above(m)
      <3>1. ASSUME NEW z \in S, z > y
            PROVE  z > m
        BY <1>5, <3>1
      <3>2. y \in Above(m) /\ y \notin Above(y)
        BY <1>5
      <3>3. QED
        BY <3>1, <3>2
    <2>2. Cardinality(Above(m)) <= Cardinality(Above(y))
      BY <1>3, <1>4
    <2>3. IsFiniteSet(Above(m)) /\ Cardinality(Above(m)) \in Nat /\ Cardinality(Above(y)) \in Nat
      BY <1>1
    <2> HIDE DEF Above
    <2>4. Cardinality(Above(y)) <= Cardinality(Above(m))
          /\ (Cardinality(Above(m)) = Cardinality(Above(y)) => Above(m) = Above(y))
      BY <2>1, <2>3, FS_Subset
    <2>5. QED
      BY <2>1, <2>2, <2>3, <2>4
  <1>6. QED
    BY <1>5

LEMMA MaxIs ==
  ASSUME NEW S, IsFiniteSet(S), S \subseteq Nat, S # {}
  PROVE  Max(S) \in S /\ \A y \in S : Max(S) >= y
  BY GreatestOf DEF Max

LEMMA MinIs ==
  ASSUME NEW S, S \subseteq Nat, S # {}
  PROVE  Min(S) \in S /\ \A y \in S : Min(S) <= y
  BY LeastOf DEF Min

-----------------------------------------------------------------------------
(* The policy. *)
LEMMA LowerBoundIs ==
  ASSUME NEW x \in Nat
  PROVE  /\ LowerBound(x) \in Primes
         /\ LowerBound(x) >= x \/ \A o \in Primes : LowerBound(x) >= o
  <1> DEFINE enough == {p \in Primes : p >= x}
  <1>1. IsFiniteSet(Primes) /\ Primes \subseteq Nat /\ Primes # {} /\ enough \subseteq Primes
    BY HashtableAssumption
  <1>2. CASE enough = {}
    <2>1. LowerBound(x) = Max(Primes)
      BY <1>2 DEF LowerBound
    <2>2. QED
      BY <1>1, <2>1, MaxIs
  <1>3. CASE enough # {}
    <2>1. LowerBound(x) = Min(enough)
      BY <1>3 DEF LowerBound
    <2>2. enough \subseteq Nat
      BY <1>1
    <2>3. Min(enough) \in enough
      <3> HIDE DEF enough
      <3>1. QED
        BY <1>3, <2>2, MinIs
    <2>4. QED
      BY <2>1, <2>3
  <1>4. QED
    BY <1>2, <1>3

LEMMA DivType ==
  ASSUME NEW a \in Nat, NEW b \in Nat \ {0}
  PROVE  a \div b \in Nat /\ (a \div b) * b <= a /\ a < (a \div b) * b + b
  OBVIOUS

LEMMA ResizeType ==
  ASSUME NEW load \in Loads, NEW n \in Nat
  PROVE  Resize(load, n) \in Nat
  <1>1. load.p \in Nat \ {0} /\ load.q \in Nat \ {0}
    BY DEF Loads
  <1>2. n * load.p \in Nat
    BY <1>1
  <1>3. n * load.p + load.q - 1 \in Nat
    BY <1>1, <1>2
  <1>4. QED
    BY <1>1, <1>3, DivType DEF Resize

LEMMA BucketCountType ==
  ASSUME NEW load \in Loads, NEW count \in Nat
  PROVE  GetBucketCount(load, count) \in Primes
  <1>1. load.p \in Nat \ {0} /\ load.q \in Nat \ {0}
    BY DEF Loads
  <1>2. count * load.q \in Nat
    BY <1>1
  <1>3. (count * load.q) \div load.p \in Nat
    BY <1>1, <1>2, DivType
  <1>4. QED
    BY <1>3, LowerBoundIs DEF GetBucketCount

\* A prime for the larger of two counts.
LEMMA PrimeIs ==
  ASSUME NEW a \in Nat, NEW b \in Nat, NEW prime, prime = LowerBound(Max({a, b}))
  PROVE  prime \in Primes /\ ((prime >= a /\ prime >= b) \/ \A o \in Primes : prime >= o)
  <1>1. PICK S : S = {a, b}
    OBVIOUS
  <1>2. S \subseteq Nat /\ a \in S /\ b \in S /\ S = {a} \cup {b}
    BY <1>1
  <1>3. IsFiniteSet(S)
    BY <1>2, FS_AddElement, FS_Singleton
  <1>4. PICK x : x = Max(S)
    OBVIOUS
  <1>5. x \in Nat /\ x >= a /\ x >= b
    BY <1>2, <1>3, <1>4, MaxIs
  <1>6. prime \in Primes /\ (prime >= x \/ \A o \in Primes : prime >= o)
    BY <1>1, <1>4, <1>5, LowerBoundIs
  <1>7. prime \in Nat
    BY <1>6, HashtableAssumption
  <1>8. QED
    BY <1>5, <1>6, <1>7

\* What the policy decides, for a table whose fields are sound.
LEMMA DecisionIs ==
  ASSUME NEW load \in Loads, NEW next \in Nat, NEW n \in Nat \ {0}, NEW count \in Nat, NEW add \in Nat,
         NEW d, d = GetRehashRequired(load, next, n, count, add)
  PROVE  /\ d.next \in Nat
         /\ d.n = 0 \/ (d.n \in Primes /\ (n > 1 => d.n >= 2 * n \/ \A o \in Primes : d.n >= o))
         /\ d.n = 0 /\ n < 2 /\ next = 0 => d.next = 0 /\ add = 0
  <1> DEFINE need == count + add
             have == IF n = 1 THEN 0 ELSE n
             prime == LowerBound(Max({(need * load.q) \div load.p, 2 * have}))
  <1>1. load.p \in Nat \ {0} /\ load.q \in Nat \ {0}
    BY DEF Loads
  <1>2. need \in Nat /\ have \in Nat /\ need * load.q \in Nat /\ have * load.p \in Nat
    BY <1>1
  <1>3. (need * load.q) \div load.p \in Nat
    BY <1>1, <1>2, DivType
  <1>4. 2 * have \in Nat
    BY <1>2
  <1>5. prime \in Primes /\ (prime >= 2 * have \/ \A o \in Primes : prime >= o)
    BY <1>3, <1>4, PrimeIs
  <1>6. prime \in Nat
    BY <1>5, HashtableAssumption
  <1>7. Resize(load, prime) \in Nat /\ Resize(load, have) \in Nat
    BY <1>2, <1>6, ResizeType
  <1>8. d = IF need <= next THEN [n |-> 0, next |-> next]
            ELSE IF need * load.q > have * load.p
                 THEN [n |-> prime, next |-> Resize(load, prime)]
                 ELSE [n |-> 0, next |-> Resize(load, have)]
    BY DEF GetRehashRequired
  <1> HIDE DEF prime
  <1>9. CASE need <= next
    BY <1>8, <1>9
  <1>10. CASE ~(need <= next) /\ need * load.q > have * load.p
    <2>1. d.n = prime /\ d.next = Resize(load, prime)
      BY <1>8, <1>10
    <2>2. prime # 0
      BY <1>5, HashtableAssumption
    <2>3. n > 1 => have = n
      OBVIOUS
    <2>4. QED
      BY <1>5, <1>7, <2>1, <2>2, <2>3
  <1>11. CASE ~(need <= next) /\ ~(need * load.q > have * load.p)
    <2>1. d.n = 0 /\ d.next = Resize(load, have)
      BY <1>8, <1>11
    <2>2. n < 2 => FALSE
      <3>1. SUFFICES ASSUME n < 2
                     PROVE  FALSE
        OBVIOUS
      <3>2. have = 0 /\ need \in Nat \ {0}
        BY <3>1, <1>11, <1>2
      <3>3. have * load.p = 0 /\ need * load.q > 0
        BY <1>1, <3>2
      <3>4. QED
        BY <1>11, <3>3
    <2>3. QED
      BY <1>7, <2>1, <2>2
  <1>12. QED
    BY <1>9, <1>10, <1>11

\* A bucket index is one of the places of an array of n heads.
LEMMA IndexIs ==
  ASSUME NEW k, HashOf[k] \in Nat, NEW n \in Nat \ {0}
  PROVE  BucketIndex(k, n) \in 1 .. n
  BY DEF BucketIndex

-----------------------------------------------------------------------------
(* States of one table among the others. *)
Held(s) == NodesIn(s.m[s.r.array])
Others(t) == Tables \ {t}

\* What a memory says of the tables but t.
Around(t, m) ==
  /\ m \in [Arrays -> Chainings] /\ m[EmptyArray] = <<<<>>>>
  /\ \A v \in Others(t) : m[h[v].array] = mem[h[v].array]
  /\ Fixed => \A v \in Others(t) : m[v] = mem[v]

\* Table t may become s.
Valid(t, s) ==
  /\ Around(t, s.m)
  /\ Sized(t, s.r) /\ Chained(s.r, s.m[s.r.array])
  /\ \A v \in Others(t) : h[v].array = s.r.array => s.r.array = EmptyArray
  /\ \A a \in HeapArrays : s.m[a] # <<>> => s.r.array = a \/ \E v \in Others(t) : h[v].array = a
  /\ Fixed /\ s.r.array # t => s.m[t] = NullHeads(OwnCount)

\* A memory in which table t has no array of the heap.
Vacated(t, m) ==
  /\ Around(t, m)
  /\ \A a \in HeapArrays : m[a] # <<>> => \E v \in Others(t) : h[v].array = a
  /\ Fixed => m[t] = NullHeads(OwnCount)

LEMMA Places ==
  /\ EmptyArray \in Arrays /\ HeapArrays \subseteq Arrays /\ Tables \subseteq Arrays
  /\ EmptyArray \notin HeapArrays /\ EmptyArray \notin Tables /\ HeapArrays \cap Tables = {}
  BY HashtableAssumption DEF Arrays, Buffer

LEMMA OwnCountIs ==
  ASSUME IInv, Fixed
  PROVE  /\ OwnCount \in Primes /\ OwnCount \in Nat \ {0, 1} /\ OwnCount <= prog.buffer
         /\ prog.buffer \in Nat /\ \A o \in Primes : o <= prog.buffer => OwnCount >= o
  <1> DEFINE S == {p \in Primes : p <= prog.buffer}
  <1>1. prog.buffer \in Nat /\ prog.buffer > 1
    BY HashtableAssumption DEF Fixed, IInv
  <1>2. IsFiniteSet(Primes) /\ Primes \subseteq Nat \ {0, 1} /\ 2 \in Primes
    BY HashtableAssumption
  <1>0. 2 <= prog.buffer
    BY <1>1
  <1>3. 2 \in S /\ S \subseteq Nat /\ S \in SUBSET Primes
    <2>1. 2 \in S
      BY <1>0, <1>2
    <2>2. S \subseteq Primes
      OBVIOUS
    <2>3. QED
      BY <1>2, <2>1, <2>2
  <1>4. Max(S) \in S /\ \A y \in S : Max(S) >= y
    <2> HIDE DEF S
    <2>1. IsFiniteSet(S)
      BY <1>2, <1>3, FS_Subset
    <2>2. QED
      BY <1>3, <2>1, MaxIs
  <1>5. OwnCount = Max(S)
    BY DEF OwnCount, GetPrevBucketCount
  <1>6. QED
    BY <1>1, <1>2, <1>4, <1>5

\* Where the tables stand leaves an array of the heap to move to.
LEMMA Room ==
  ASSUME NEW m, NEW g, DOMAIN g = Tables,
         \A a \in HeapArrays : m[a] # <<>> => \E v \in Tables : g[v] = a
  PROVE  \E a \in HeapArrays : m[a] = <<>>
  <1>1. SUFFICES ASSUME \A a \in HeapArrays : \E v \in Tables : g[v] = a
                 PROVE  FALSE
    OBVIOUS
  <1> DEFINE T == {v \in Tables : g[v] \in HeapArrays}
             f == [v \in T |-> g[v]]
  <1>2. IsFiniteSet(Tables) /\ IsFiniteSet(HeapArrays) /\ Cardinality(HeapArrays) > Cardinality(Tables)
    BY HashtableAssumption
  <1>3. T \in SUBSET Tables /\ f \in Surjection(T, HeapArrays)
    BY <1>1 DEF Surjection
  <1> HIDE DEF T, f
  <1>4. IsFiniteSet(T) /\ Cardinality(T) <= Cardinality(Tables)
    BY <1>2, <1>3, FS_Subset
  <1>5. Cardinality(HeapArrays) <= Cardinality(T)
    BY <1>3, <1>4, FS_Surjection
  <1>6. Cardinality(HeapArrays) \in Nat /\ Cardinality(T) \in Nat /\ Cardinality(Tables) \in Nat
    BY <1>2, <1>4, FS_CardinalityType
  <1>7. QED
    BY <1>2, <1>4, <1>5, <1>6

LEMMA ArraysOfTables ==
  ASSUME IInv, NEW v \in Tables
  PROVE  h[v].array \in Arrays
  <1>1. Sized(v, h[v])
    BY DEF IInv, Good
  <1>2. QED
    BY <1>1, Places DEF Sized

\* The array of a table has as many heads as the table has buckets.
LEMMA ArrayIs ==
  ASSUME IInv, NEW t \in Tables, NEW s, Valid(t, s)
  PROVE  /\ s.r.array \in Arrays /\ s.m[s.r.array] \in Chainings
         /\ Len(s.m[s.r.array]) = s.r.n /\ s.m[s.r.array] # <<>>
         /\ s.r.n \in Nat \ {0}
         /\ s.r.n < 2 => s.r.array = EmptyArray
         /\ s.r.n >= 2 => s.r.array # EmptyArray
         /\ Fixed => s.r.n >= 2
  <1>1. s.r.n \in Nat \ {0} /\ Len(s.m[s.r.array]) = s.r.n
    BY DEF Valid, Sized, Chained
  <1>2. s.r.array \in Arrays
    BY Places DEF Valid, Sized
  <1>3. s.m[s.r.array] \in Chainings
    BY <1>2 DEF Valid, Around
  <1>4. Fixed => s.r.n >= 2
    <2>1. SUFFICES ASSUME Fixed
                   PROVE  s.r.n >= 2
      OBVIOUS
    <2>2. s.r.n = OwnCount \/ s.r.n > prog.buffer
      BY <2>1 DEF Valid, Sized
    <2>3. QED
      BY <1>1, <2>1, <2>2, OwnCountIs
  <1>5. s.r.n < 2 <=> s.r.array = EmptyArray
    BY DEF Valid, Sized
  <1>6. QED
    BY <1>1, <1>2, <1>3, <1>4, <1>5

LEMMA NodelessIs ==
  ASSUME NEW m \in [Arrays -> Chainings], NEW a \in Arrays
  PROVE  /\ Nodeless(m, a) \in [Arrays -> Chainings]
         /\ Nodeless(m, a)[a] = NullHeads(Len(m[a]))
         /\ \A b \in Arrays \ {a} : Nodeless(m, a)[b] = m[b]
  <1>1. Len(m[a]) \in Nat
    BY DEF Chainings
  <1>2. NullHeads(Len(m[a])) \in Chainings
    BY <1>1, NullHeadsAre DEF Chainings
  <1>3. QED
    BY <1>2 DEF Nodeless

LEMMA ReleasedIs ==
  ASSUME NEW m \in [Arrays -> Chainings], NEW a \in Arrays
  PROVE  /\ Released(m, a) \in [Arrays -> Chainings]
         /\ Released(m, a)[a] = IF a \in HeapArrays THEN <<>> ELSE m[a]
         /\ \A b \in Arrays \ {a} : Released(m, a)[b] = m[b]
  <1>1. <<>> \in Chainings
    BY DEF Chainings
  <1>2. QED
    BY <1>1 DEF Released

LEMMA OneEmptyHead == NullHeads(1) = <<<<>>>>
  BY DEF NullHeads

\* The destructor, and DoRehash, leave the memory without an array of t.
LEMMA LeftIs ==
  ASSUME IInv, NEW t \in Tables, NEW s, Valid(t, s),
         NEW m, m = Released(Nodeless(s.m, s.r.array), s.r.array)
  PROVE  /\ Vacated(t, m)
         /\ \A a \in HeapArrays : s.m[a] = <<>> => m[a] = <<>>
  <1> DEFINE a == s.r.array
             l == Nodeless(s.m, a)
  <1>1. /\ a \in Arrays /\ Len(s.m[a]) = s.r.n /\ s.r.n \in Nat \ {0}
        /\ s.r.n < 2 <=> a = EmptyArray
    BY ArrayIs
  <1>2. s.m \in [Arrays -> Chainings] /\ s.m[EmptyArray] = <<<<>>>>
    BY DEF Valid, Around
  <1>3. l \in [Arrays -> Chainings] /\ l[a] = NullHeads(s.r.n) /\ \A b \in Arrays \ {a} : l[b] = s.m[b]
    BY <1>1, <1>2, NodelessIs
  <1>4. /\ m \in [Arrays -> Chainings] /\ m[a] = IF a \in HeapArrays THEN <<>> ELSE l[a]
        /\ \A b \in Arrays \ {a} : m[b] = l[b]
    BY <1>1, <1>3, ReleasedIs
  <1> HIDE DEF l
  <1>5. /\ \A b \in Arrays \ {a} : m[b] = s.m[b]
        /\ a \in HeapArrays => m[a] = <<>>
        /\ a \notin HeapArrays => m[a] = NullHeads(s.r.n)
    BY <1>3, <1>4
  <1>6. a = EmptyArray => s.r.n = 1 /\ m[a] = <<<<>>>>
    BY <1>1, <1>5, Places, OneEmptyHead
  <1>7. m[EmptyArray] = <<<<>>>>
    BY <1>2, <1>5, <1>6, Places
  <1> HIDE DEF a
  <1>8. \A v \in Others(t) : m[h[v].array] = mem[h[v].array]
    <2>1. ASSUME NEW v \in Others(t)
          PROVE  m[h[v].array] = mem[h[v].array]
      <3>1. s.m[h[v].array] = mem[h[v].array] /\ (h[v].array = a => a = EmptyArray)
        BY DEF Valid, Around, a
      <3>2. CASE h[v].array = a
        BY <1>2, <1>7, <3>1, <3>2
      <3>3. CASE h[v].array # a
        <4>1. h[v].array \in Arrays
          BY ArraysOfTables DEF Others
        <4>2. QED
          BY <1>5, <3>1, <3>3, <4>1
      <3>4. QED
        BY <3>2, <3>3
    <2>2. QED
      BY <2>1
  <1>9. Fixed => m[t] = NullHeads(OwnCount) /\ \A v \in Others(t) : m[v] = mem[v]
    <2>1. SUFFICES ASSUME Fixed
                   PROVE  m[t] = NullHeads(OwnCount) /\ \A v \in Others(t) : m[v] = mem[v]
      OBVIOUS
    <2>2. Sized(t, s.r) /\ (a # t => s.m[t] = NullHeads(OwnCount)) /\ \A v \in Others(t) : s.m[v] = mem[v]
      BY <2>1 DEF Valid, Around, a
    <2>3. (a = t /\ s.r.n = OwnCount) \/ a \in HeapArrays
      BY <2>1, <2>2 DEF Sized, a
    <2>4. m[t] = NullHeads(OwnCount)
      BY <1>5, <2>2, <2>3, Places
    <2>5. \A v \in Others(t) : m[v] = mem[v]
      BY <1>5, <2>2, <2>3, Places DEF Others
    <2>6. QED
      BY <2>4, <2>5
  <1>10. ASSUME NEW b \in HeapArrays, m[b] # <<>>
         PROVE  \E v \in Others(t) : h[v].array = b
    <2>1. b # a /\ b \in Arrays
      BY <1>5, <1>10, Places
    <2>2. s.m[b] # <<>>
      BY <1>5, <1>10, <2>1
    <2>3. QED
      BY <2>1, <2>2 DEF Valid, a
  <1>11. ASSUME NEW b \in HeapArrays, s.m[b] = <<>>
         PROVE  m[b] = <<>>
    <2>1. b \in Arrays /\ (b = a => m[b] = <<>>)
      BY <1>5, Places
    <2>2. QED
      BY <1>5, <1>11, <2>1
  <1>12. QED
    BY <1>4, <1>7, <1>8, <1>9, <1>10, <1>11 DEF Vacated, Around

-----------------------------------------------------------------------------
(* What the parts of an operation make of a table. *)
LEMMA StateFields ==
  ASSUME NEW r, NEW m
  PROVE  StateOf(r, m).r = r /\ StateOf(r, m).m = m
  BY DEF StateOf

LEMMA TableFields ==
  ASSUME NEW a, NEW n, NEW count, NEW load, NEW next
  PROVE  /\ Table(a, n, count, load, next).array = a /\ Table(a, n, count, load, next).n = n
         /\ Table(a, n, count, load, next).count = count /\ Table(a, n, count, load, next).load = load
         /\ Table(a, n, count, load, next).next = next
  BY DEF Table

\* A table as it is may become what it is.
LEMMA StateIsValid ==
  ASSUME IInv, NEW t \in Tables
  PROVE  Valid(t, State(t)) /\ Held(State(t)) = Holds(t) /\ Asked(State(t).r)
  <1>1. State(t).r = h[t] /\ State(t).m = mem
    BY StateFields DEF State
  <1>2. Around(t, mem)
    BY DEF IInv, Good, Around
  <1>3. Sized(t, h[t]) /\ Chained(h[t], mem[h[t].array]) /\ Asked(h[t])
    BY DEF IInv, Good
  <1>4. \A v \in Others(t) : h[v].array = h[t].array => h[t].array = EmptyArray
    BY DEF IInv, Good, Others
  <1>5. \A a \in HeapArrays : mem[a] # <<>> => h[t].array = a \/ \E v \in Others(t) : h[v].array = a
    BY DEF IInv, Good, Others
  <1>6. Fixed /\ h[t].array # t => mem[t] = NullHeads(OwnCount)
    BY DEF IInv, Good
  <1>7. Valid(t, State(t))
    BY <1>1, <1>2, <1>3, <1>4, <1>5, <1>6 DEF Valid
  <1>8. QED
    BY <1>1, <1>3, <1>7 DEF Held, Holds, Chains

\* The policy's fields play no part in what a table holds.
LEMMA WithNextIs ==
  ASSUME NEW t \in Tables, NEW s, Valid(t, s), NEW next \in Nat, NEW u, u = WithNext(s, next)
  PROVE  /\ Valid(t, u) /\ Held(u) = Held(s)
         /\ u.r.n = s.r.n /\ u.r.next = next /\ u.r.load = s.r.load /\ u.r.count = s.r.count
  <1>1. PICK a, n, count, load, old : s.r = Table(a, n, count, load, old)
    BY DEF Valid, Sized
  <1>2. u.r = Table(a, n, count, load, next) /\ u.m = s.m
    <2>1. u = StateOf([s.r EXCEPT !.next = next], s.m)
      BY DEF WithNext
    <2>2. [s.r EXCEPT !.next = next] = Table(a, n, count, load, next)
      BY <1>1 DEF Table
    <2>3. QED
      BY <2>1, <2>2, StateFields
  <1>3. u.r.array = s.r.array /\ u.r.n = s.r.n /\ u.r.next = next /\ u.r.load = s.r.load /\ u.r.count = s.r.count
    BY <1>1, <1>2, TableFields
  <1>4. Sized(t, u.r)
    BY <1>1, <1>2, <1>3, TableFields DEF Valid, Sized
  <1>5. QED
    BY <1>2, <1>3, <1>4 DEF Valid, Chained, Held

\* A new array of the heap: an allocation, and what is put there.
Filling(t, m, a, c, r, u) ==
  /\ Vacated(t, m) /\ a \in HeapArrays /\ m[a] = <<>>
  /\ c \in Chainings /\ Chained(r, c)
  /\ r = Table(a, r.n, r.count, r.load, r.next)
  /\ r.n \in Nat \ {0, 1} /\ r.count \in Nat /\ r.load \in Loads /\ r.next \in Nat
  /\ Fixed => r.n > prog.buffer
  /\ u = StateOf(r, [m EXCEPT ![a] = c])

LEMMA Fills ==
  ASSUME IInv, NEW t \in Tables, NEW m, NEW a, NEW c, NEW r, NEW u, Filling(t, m, a, c, r, u)
  PROVE  Valid(t, u) /\ Held(u) = NodesIn(c) /\ Asked(u.r)
  <1>0. /\ Vacated(t, m) /\ a \in HeapArrays /\ m[a] = <<>> /\ c \in Chainings /\ Chained(r, c)
        /\ r = Table(a, r.n, r.count, r.load, r.next)
        /\ r.n \in Nat \ {0, 1} /\ r.count \in Nat /\ r.load \in Loads /\ r.next \in Nat
        /\ Fixed => r.n > prog.buffer
        /\ u = StateOf(r, [m EXCEPT ![a] = c])
    BY DEF Filling
  <1> USE <1>0
  <1>1. u.r = r /\ u.m = [m EXCEPT ![a] = c]
    BY StateFields
  <1>2. r.array = a
    BY DEF Table
  <1>3. m \in [Arrays -> Chainings] /\ m[EmptyArray] = <<<<>>>> /\ a \in Arrays
    BY Places DEF Vacated, Around
  <1>4. /\ u.m \in [Arrays -> Chainings] /\ u.m[a] = c
        /\ \A b \in Arrays : b # a => u.m[b] = m[b]
    BY <1>1, <1>3
  <1>5. u.m[EmptyArray] = <<<<>>>>
    BY <1>3, <1>4, Places
  <1>6. \A v \in Others(t) : h[v].array # a
    <2>1. ASSUME NEW v \in Others(t), h[v].array = a
          PROVE  FALSE
      <3>1. Len(mem[h[v].array]) = h[v].n /\ h[v].n \in Nat \ {0}
        BY DEF IInv, Good, Chained, Sized, Others
      <3>2. mem[h[v].array] = <<>>
        BY <2>1 DEF Vacated, Around
      <3>3. QED
        BY <3>1, <3>2
    <2>2. QED
      BY <2>1
  <1>7. \A v \in Others(t) : u.m[h[v].array] = mem[h[v].array]
    <2>1. ASSUME NEW v \in Others(t)
          PROVE  u.m[h[v].array] = mem[h[v].array]
      <3>1. h[v].array \in Arrays /\ h[v].array # a
        BY <1>6, ArraysOfTables DEF Others
      <3>2. m[h[v].array] = mem[h[v].array]
        BY DEF Vacated, Around
      <3>3. QED
        BY <1>4, <3>1, <3>2
    <2>2. QED
      BY <2>1
  <1>8. Fixed => u.m[t] = NullHeads(OwnCount) /\ \A v \in Others(t) : u.m[v] = mem[v]
    <2>1. SUFFICES ASSUME Fixed
                   PROVE  u.m[t] = NullHeads(OwnCount) /\ \A v \in Others(t) : u.m[v] = mem[v]
      OBVIOUS
    <2>2. m[t] = NullHeads(OwnCount) /\ \A v \in Others(t) : m[v] = mem[v]
      BY <2>1 DEF Vacated, Around
    <2>3. \A v \in Tables : v \in Arrays /\ v # a
      BY Places
    <2>4. QED
      BY <1>4, <2>2, <2>3 DEF Others
  <1>9. Sized(t, u.r) /\ Chained(u.r, u.m[u.r.array])
    <2>1. a # EmptyArray /\ r.n >= 2
      BY Places
    <2>2. u.r = Table(u.r.array, u.r.n, u.r.count, u.r.load, u.r.next)
      BY <1>1, <1>2
    <2>3. IF Fixed THEN u.r.array \in HeapArrays /\ u.r.n > prog.buffer ELSE u.r.array \in HeapArrays \cup {EmptyArray}
      BY <1>1, <1>2
    <2>4. Sized(t, u.r)
      BY <1>1, <1>2, <2>1, <2>2, <2>3 DEF Sized
    <2>5. QED
      BY <1>1, <1>2, <1>4, <2>4
  <1>10. ASSUME NEW b \in HeapArrays, u.m[b] # <<>>
         PROVE  u.r.array = b \/ \E v \in Others(t) : h[v].array = b
    <2>1. CASE b = a
      BY <1>1, <1>2, <2>1
    <2>2. CASE b # a
      <3>1. m[b] # <<>>
        BY <1>4, <1>10, <2>2, Places
      <3>2. QED
        BY <3>1 DEF Vacated
    <2>3. QED
      BY <2>1, <2>2
  <1>11. Valid(t, u)
    <2>1. Around(t, u.m)
      BY <1>4, <1>5, <1>7, <1>8 DEF Around
    <2>2. \A v \in Others(t) : h[v].array # u.r.array
      BY <1>1, <1>2, <1>6
    <2>3. QED
      BY <1>8, <1>9, <1>10, <2>1, <2>2 DEF Valid
  <1>12. QED
    BY <1>1, <1>2, <1>4, <1>11 DEF Held, Asked

\* What does not fit the buffer of a fixed container goes to a free array.
LEMMA PlacedIs ==
  ASSUME IInv, NEW m, NEW t, NEW n \in Nat \ {0, 1}, Fixed => n > prog.buffer,
         \E a \in HeapArrays : m[a] = <<>>
  PROVE  Placed(m, t, n) \in HeapArrays /\ m[Placed(m, t, n)] = <<>>
  <1>1. prog.buffer \in Nat
    BY HashtableAssumption DEF IInv
  <1>2. ~(n <= prog.buffer)
    BY <1>1 DEF Fixed
  <1>3. Placed(m, t, n) = CHOOSE a \in HeapArrays : m[a] = <<>>
    BY <1>2 DEF Placed
  <1>4. QED
    BY <1>3

\* The chains a rehash makes: the nodes of the old ones, by bucket.
Spread(nodes, n) == [i \in 1 .. n |-> Reverse(Of(nodes, n, i))]

LEMMA SpreadIs ==
  ASSUME prog \in Programs, NEW nodes \in Seq(prog.nodes), NEW n \in Nat \ {0}
  PROVE  /\ Spread(nodes, n) \in Chainings /\ Len(Spread(nodes, n)) = n
         /\ NodesIn(Spread(nodes, n)) = ToSet(nodes)
         /\ \A i \in 1 .. n : \A x \in ToSet(Spread(nodes, n)[i]) : BucketIndex(KeyOf[x], n) = i
  <1> DEFINE In(i) == {x \in ToSet(nodes) : BucketIndex(KeyOf[x], n) = i}
  <1>1. ASSUME NEW i \in 1 .. n
        PROVE  Reverse(Of(nodes, n, i)) \in Seq(prog.nodes) /\ ToSet(Reverse(Of(nodes, n, i))) = In(i)
    <2>1. In(i) \subseteq ToSet(nodes)
      OBVIOUS
    <2>2. Of(nodes, n, i) = Only(nodes, In(i))
      BY DEF Of
    <2> HIDE DEF In
    <2>3. Of(nodes, n, i) \in Seq(prog.nodes) /\ ToSet(Of(nodes, n, i)) = In(i)
      BY <2>1, <2>2, OnlyIs
    <2>4. PICK c : c = Of(nodes, n, i)
      OBVIOUS
    <2>5. Reverse(c) \in Seq(prog.nodes) /\ ToSet(Reverse(c)) = ToSet(c)
      BY <2>3, <2>4, ReverseIs
    <2>6. QED
      BY <2>3, <2>4, <2>5
  <1> DEFINE c == Spread(nodes, n)
  <1>2. \A i \in 1 .. n : c[i] \in Seq(prog.nodes) /\ ToSet(c[i]) = In(i)
    BY <1>1 DEF Spread
  <1>3. c \in Chainings /\ Len(c) = n /\ DOMAIN c = 1 .. n
    <2>1. c \in [1 .. n -> Seq(prog.nodes)]
      BY <1>1 DEF Spread
    <2>2. QED
      BY <2>1 DEF Chainings
  <1>4. \A x \in ToSet(nodes) : BucketIndex(KeyOf[x], n) \in 1 .. n
    <2>1. ASSUME NEW x \in ToSet(nodes)
          PROVE  BucketIndex(KeyOf[x], n) \in 1 .. n
      <3>1. x \in prog.nodes
        BY DEF ToSet
      <3>2. x \in Nodes
        BY <3>1, HashtableAssumption
      <3>3. HashOf[KeyOf[x]] \in Nat
        BY <3>2, HashtableAssumption
      <3>4. QED
        BY <3>3, IndexIs
    <2>2. QED
      BY <2>1
  <1> HIDE DEF c
  <1>5. NodesIn(c) = ToSet(nodes)
    <2>1. ASSUME NEW x
          PROVE  x \in NodesIn(c) <=> x \in ToSet(nodes)
      <3>1. x \in NodesIn(c) <=> \E i \in 1 .. n : x \in ToSet(c[i])
        BY <1>3 DEF NodesIn
      <3>2. QED
        BY <1>2, <1>4, <3>1
    <2>2. QED
      BY <2>1
  <1>6. \A i \in 1 .. n : \A x \in ToSet(c[i]) : BucketIndex(KeyOf[x], n) = i
    BY <1>2
  <1>7. QED
    BY <1>3, <1>5, <1>6 DEF c

LEMMA RehashedIs ==
  ASSUME IInv, NEW t \in Tables, NEW s, Valid(t, s), NEW n \in Nat \ {0, 1}, Fixed => n > prog.buffer,
         NEW u, u = Rehashed(s, t, n)
  PROVE  /\ Valid(t, u) /\ Held(u) = Held(s) /\ Asked(u.r)
         /\ u.r.n = n /\ u.r.next = s.r.next /\ u.r.load = s.r.load /\ u.r.count = s.r.count
  <1> DEFINE a == s.r.array
             to == Placed(s.m, t, n)
             nodes == FlattenSeq(s.m[a])
             left == Released(Nodeless(s.m, a), a)
  <1>1. s.m[a] \in Chainings /\ Len(s.m[a]) = s.r.n /\ s.r.n \in Nat \ {0} /\ s.m[a] # <<>>
    BY ArrayIs
  <1>2. nodes \in Seq(prog.nodes) /\ ToSet(nodes) = NodesIn(s.m[a])
    BY <1>1, FlattenIs DEF Chainings
  <1>3. Vacated(t, left) /\ \A b \in HeapArrays : s.m[b] = <<>> => left[b] = <<>>
    BY LeftIs
  <1>4. to \in HeapArrays /\ s.m[to] = <<>>
    <2>1. \E b \in HeapArrays : s.m[b] = <<>>
      <3>1. \A b \in HeapArrays : s.m[b] # <<>> => a = b \/ \E v \in Others(t) : h[v].array = b
        BY DEF Valid
      <3> HIDE DEF a
      <3>2. PICK m, e : m = s.m /\ e = a
        OBVIOUS
      <3>3. \A b \in HeapArrays : m[b] # <<>> => e = b \/ \E v \in Others(t) : h[v].array = b
        BY <3>1, <3>2
      <3> DEFINE g == [v \in Tables |-> IF v = t THEN e ELSE h[v].array]
      <3>4. \E b \in HeapArrays : m[b] = <<>>
        <4>1. DOMAIN g = Tables /\ \A b \in HeapArrays : m[b] # <<>> => \E v \in Tables : g[v] = b
          BY <3>3 DEF Others
        <4> HIDE DEF g
        <4>2. QED
          BY <4>1, Room
      <3>5. QED
        BY <3>2, <3>4
    <2>2. QED
      BY <2>1, PlacedIs
  <1>5. to # a
    BY <1>1, <1>4
  <1>6. left[to] = <<>>
    BY <1>3, <1>4
  <1> DEFINE c == Spread(nodes, n)
             r == Moved(s.r, to, n)
  <1>7. u = StateOf(r, [left EXCEPT ![to] = c])
    BY <1>5 DEF Rehashed, Spread
  <1> HIDE DEF nodes, to, left
  <1>8. prog \in Programs
    BY DEF IInv
  <1>9. /\ c \in Chainings /\ Len(c) = n /\ NodesIn(c) = NodesIn(s.m[a])
        /\ \A i \in 1 .. n : \A x \in ToSet(c[i]) : BucketIndex(KeyOf[x], n) = i
    BY <1>2, <1>8, SpreadIs
  <1> HIDE DEF c
  <1>10. s.r.count = Cardinality(NodesIn(s.m[a])) /\ s.r.count \in Nat /\ s.r.load \in Loads /\ s.r.next \in Nat
    BY DEF Valid, Sized, Chained
  <1>11. r = Table(to, n, s.r.count, s.r.load, s.r.next)
    BY DEF Moved
  <1>12. r.array = to /\ r.n = n /\ r.count = s.r.count /\ r.load = s.r.load /\ r.next = s.r.next
    BY <1>11, TableFields
  <1> HIDE DEF r
  <1>13. Chained(r, c)
    BY <1>9, <1>10, <1>12 DEF Chained
  <1>14. Valid(t, u) /\ Held(u) = NodesIn(c) /\ Asked(u.r)
    <2>1. Filling(t, left, to, c, r, u)
      BY <1>3, <1>4, <1>6, <1>7, <1>9, <1>10, <1>11, <1>12, <1>13 DEF Filling
    <2>2. QED
      BY <2>1, Fills
  <1>15. u.r = r
    BY <1>7, StateFields
  <1>16. QED
    BY <1>9, <1>12, <1>14, <1>15 DEF Held

\* Room for further elements, with the rehash it may need.
LEMMA GrownIs ==
  ASSUME IInv, NEW t \in Tables, NEW s, Valid(t, s), Asked(s.r), NEW add \in Nat,
         NEW u, u = Grown(s, t, add)
  PROVE  /\ Valid(t, u) /\ Held(u) = Held(s) /\ Asked(u.r) /\ (add # 0 => u.r.n >= 2)
         /\ u.r.count = s.r.count /\ u.r.load = s.r.load /\ u.r.next = Decision(s, add).next
         /\ u.r.n = IF Decision(s, add).n = 0 THEN s.r.n ELSE Decision(s, add).n
  <1> DEFINE d == Decision(s, add)
  <1>1. /\ s.r.load \in Loads /\ s.r.next \in Nat /\ s.r.n \in Nat \ {0} /\ s.r.count \in Nat
        /\ s.r.n < 2 => s.r.next = 0
    BY DEF Valid, Sized, Asked
  <1>2. d = GetRehashRequired(s.r.load, s.r.next, s.r.n, s.r.count, add)
    BY DEF Decision
  <1> HIDE DEF d
  <1>3. /\ d.next \in Nat
        /\ d.n = 0 \/ (d.n \in Primes /\ (s.r.n > 1 => d.n >= 2 * s.r.n \/ \A o \in Primes : d.n >= o))
        /\ d.n = 0 /\ s.r.n < 2 /\ s.r.next = 0 => d.next = 0 /\ add = 0
    <2>1. PICK load \in Loads, next \in Nat, n \in Nat \ {0}, count \in Nat :
             load = s.r.load /\ next = s.r.next /\ n = s.r.n /\ count = s.r.count
      BY <1>1
    <2>2. d = GetRehashRequired(load, next, n, count, add)
      BY <1>2, <2>1
    <2>3. d.next \in Nat
      BY <2>2, DecisionIs
    <2>5. d.n = 0 \/ (d.n \in Primes /\ (n > 1 => d.n >= 2 * n \/ \A o \in Primes : d.n >= o))
      BY <2>2, DecisionIs
    <2>6. d.n = 0 /\ n < 2 /\ next = 0 => d.next = 0 /\ add = 0
      BY <2>2, DecisionIs
    <2>4. QED
      BY <2>1, <2>3, <2>5, <2>6
  <1>4. PICK w : w = Decided(s, add)
    OBVIOUS
  <1>5. /\ Valid(t, w) /\ Held(w) = Held(s)
        /\ w.r.n = s.r.n /\ w.r.next = d.next /\ w.r.load = s.r.load /\ w.r.count = s.r.count
    <2>1. w = WithNext(s, d.next)
      BY <1>4 DEF Decided, d
    <2>2. QED
      BY <1>3, <2>1, WithNextIs
  <1>6. CASE d.n = 0
    <2>1. u = w
      BY <1>4, <1>6 DEF Grown, d
    <2>2. Asked(u.r) /\ (add # 0 => u.r.n >= 2)
      BY <1>1, <1>3, <1>5, <1>6, <2>1 DEF Asked
    <2>3. QED
      BY <1>5, <1>6, <2>1, <2>2 DEF d
  <1>7. CASE d.n # 0
    <2>1. u = Rehashed(w, t, d.n)
      BY <1>4, <1>7 DEF Grown, d
    <2>2. d.n \in Primes /\ d.n \in Nat \ {0, 1}
      BY <1>3, <1>7, HashtableAssumption
    <2>3. Fixed => d.n > prog.buffer
      <3>1. SUFFICES ASSUME Fixed
                     PROVE  d.n > prog.buffer
        OBVIOUS
      <3>2. /\ OwnCount \in Nat \ {0, 1} /\ prog.buffer \in Nat
            /\ \A o \in Primes : o <= prog.buffer => OwnCount >= o
        BY <3>1, OwnCountIs
      <3>3. s.r.n = OwnCount \/ s.r.n > prog.buffer
        BY <3>1 DEF Valid, Sized
      <3>4. s.r.n > 1
        BY <1>1, <3>2, <3>3, <3>1 DEF Fixed
      <3>5. CASE d.n >= 2 * s.r.n
        BY <1>1, <2>2, <3>2, <3>3, <3>4, <3>5
      <3>6. CASE \A o \in Primes : d.n >= o
        <4>1. PICK o \in Primes : o > prog.buffer
          BY HashtableAssumption DEF IInv
        <4>2. o \in Nat
          BY HashtableAssumption
        <4>3. QED
          BY <2>2, <3>2, <3>6, <4>1, <4>2
      <3>7. QED
        BY <1>3, <1>7, <3>4, <3>5, <3>6
    <2>4. PICK n \in Nat \ {0, 1} : n = d.n
      BY <2>2
    <2>5. /\ Valid(t, u) /\ Held(u) = Held(w) /\ Asked(u.r)
          /\ u.r.n = n /\ u.r.next = w.r.next /\ u.r.load = w.r.load /\ u.r.count = w.r.count
      BY <1>5, <2>1, <2>3, <2>4, RehashedIs
    <2>6. QED
      BY <1>5, <1>7, <2>2, <2>4, <2>5 DEF d
  <1>8. QED
    BY <1>6, <1>7

\* A table whose array is replaced where it stands.
LEMMA Rewrites ==
  ASSUME IInv, NEW t \in Tables, NEW s, Valid(t, s),
         NEW c \in Chainings, NEW count \in Nat, NEW r, r = [s.r EXCEPT !.count = count], Chained(r, c),
         s.r.n < 2 => c = <<<<>>>>,
         NEW u, u = StateOf(r, [s.m EXCEPT ![s.r.array] = c])
  PROVE  /\ Valid(t, u) /\ Held(u) = NodesIn(c)
         /\ u.r.n = s.r.n /\ u.r.next = s.r.next /\ u.r.load = s.r.load /\ u.r.count = count
  <1>1. PICK a, n, old, load, next : s.r = Table(a, n, old, load, next)
    BY DEF Valid, Sized
  <1>2. r = Table(a, n, count, load, next)
    BY <1>1 DEF Table
  <1>3. u.r = r /\ u.m = [s.m EXCEPT ![s.r.array] = c]
    BY StateFields
  <1>4. s.r.array = a /\ s.r.n = n /\ s.r.load = load /\ s.r.next = next
    BY <1>1, TableFields
  <1>5. u.r.array = a /\ u.r.n = n /\ u.r.load = load /\ u.r.next = next /\ u.r.count = count
    BY <1>2, <1>3, TableFields
  <1>6. /\ a \in Arrays /\ n \in Nat \ {0} /\ Len(s.m[a]) = n /\ s.m[a] # <<>>
        /\ n < 2 <=> a = EmptyArray
    BY <1>4, ArrayIs
  <1>7. s.m \in [Arrays -> Chainings] /\ s.m[EmptyArray] = <<<<>>>>
    BY DEF Valid, Around
  <1>8. /\ u.m \in [Arrays -> Chainings] /\ u.m[a] = c
        /\ \A b \in Arrays : b # a => u.m[b] = s.m[b]
    BY <1>3, <1>4, <1>6, <1>7
  <1>9. u.m[EmptyArray] = <<<<>>>>
    BY <1>4, <1>6, <1>7, <1>8, Places
  <1>10. \A v \in Others(t) : u.m[h[v].array] = mem[h[v].array]
    <2>1. ASSUME NEW v \in Others(t)
          PROVE  u.m[h[v].array] = mem[h[v].array]
      <3>1. h[v].array \in Arrays
        BY ArraysOfTables DEF Others
      <3>2. s.m[h[v].array] = mem[h[v].array] /\ (h[v].array = a => a = EmptyArray)
        BY <1>4 DEF Valid, Around
      <3>3. QED
        BY <1>7, <1>8, <1>9, <3>1, <3>2
    <2>2. QED
      BY <2>1
  <1>11. Fixed => \A v \in Others(t) : u.m[v] = mem[v]
    <2>1. SUFFICES ASSUME Fixed, NEW v \in Others(t)
                   PROVE  u.m[v] = mem[v]
      OBVIOUS
    <2>2. s.m[v] = mem[v] /\ (a = t \/ a \in HeapArrays) /\ v # t /\ v \in Tables
      BY <1>4, <2>1 DEF Valid, Around, Sized, Others
    <2>3. QED
      BY <1>8, <2>2, Places
  <1>12. Fixed /\ a # t => u.m[t] = NullHeads(OwnCount)
    <2>1. SUFFICES ASSUME Fixed, a # t
                   PROVE  u.m[t] = NullHeads(OwnCount)
      OBVIOUS
    <2>2. s.m[t] = NullHeads(OwnCount) /\ t \in Arrays
      BY <1>4, <2>1, Places DEF Valid
    <2>3. QED
      BY <1>8, <2>1, <2>2
  <1>13. Sized(t, u.r)
    <2>1. Sized(t, s.r)
      BY DEF Valid
    <2>2. QED
      BY <1>2, <1>3, <1>4, <1>5, <2>1 DEF Sized
  <1>14. ASSUME NEW b \in HeapArrays, u.m[b] # <<>>
         PROVE  a = b \/ \E v \in Others(t) : h[v].array = b
    <2>1. CASE b # a
      <3>1. s.m[b] # <<>>
        BY <1>8, <1>14, <2>1, Places
      <3>2. QED
        BY <1>4, <2>1, <3>1 DEF Valid
    <2>2. QED
      BY <2>1
  <1>15. Around(t, u.m)
    BY <1>8, <1>9, <1>10, <1>11, SMTT(30), ZenonT(30) DEF Around
  <1>16. \A v \in Others(t) : h[v].array = a => a = EmptyArray
    BY <1>4 DEF Valid
  <1>17. Chained(u.r, u.m[u.r.array])
    BY <1>3, <1>5, <1>8
  <1>18. Valid(t, u)
    BY <1>5, <1>12, <1>13, <1>14, <1>15, <1>16, <1>17 DEF Valid
  <1>19. QED
    BY <1>4, <1>5, <1>8, <1>18 DEF Held

\* Of the shared empty array nothing can be made but itself.
LEMMA NoNodesInEmpty ==
  ASSUME IInv, NEW t \in Tables, NEW s, Valid(t, s), s.r.n < 2
  PROVE  /\ Held(s) = {} /\ s.r.count = 0 /\ s.m[s.r.array] = <<<<>>>>
         /\ s.r.n = 1 /\ s.r.array = EmptyArray
  <1>1. s.r.array = EmptyArray /\ s.r.n = 1
    BY ArrayIs
  <1>2. s.m[s.r.array] = <<<<>>>>
    BY <1>1 DEF Valid, Around
  <1>3. NodesIn(<<<<>>>>) = {}
    BY NullHeadsAre, OneEmptyHead
  <1>4. s.r.count = 0
    BY <1>2, <1>3, FS_EmptySet DEF Valid, Chained
  <1>5. QED
    BY <1>1, <1>2, <1>3, <1>4 DEF Held

LEMMA ClearedIs ==
  ASSUME IInv, NEW t \in Tables, NEW s, Valid(t, s), NEW u, u = Cleared(s)
  PROVE  /\ Valid(t, u) /\ Held(u) = {} /\ NodesFreed(s) = Held(s)
         /\ u.r.n = s.r.n /\ u.r.next = s.r.next /\ u.r.load = s.r.load /\ u.r.count = 0
  <1> DEFINE r == [s.r EXCEPT !.count = 0]
             c == NullHeads(s.r.n)
  <1>1. /\ s.r.array \in Arrays /\ Len(s.m[s.r.array]) = s.r.n /\ s.r.n \in Nat \ {0}
    BY ArrayIs
  <1>2. /\ c \in Chainings /\ Len(c) = s.r.n /\ NodesIn(c) = {} /\ \A i \in 1 .. s.r.n : c[i] = <<>>
    BY <1>1, NullHeadsAre, SMTT(30), ZenonT(30) DEF Chainings
  <1>3. r.n = s.r.n /\ r.count = 0
    BY DEF Valid, Sized, Table
  <1> HIDE DEF c, r
  <1>4. Chained(r, c)
    <2>1. \A i \in 1 .. s.r.n : ToSet(c[i]) = {}
      BY <1>2 DEF ToSet
    <2>2. QED
      BY <1>2, <1>3, <2>1, FS_EmptySet DEF Chained
  <1>5. s.r.n < 2 => c = <<<<>>>>
    BY <1>1, OneEmptyHead DEF c
  <1>6. u = StateOf(r, [s.m EXCEPT ![s.r.array] = c])
    <2>1. CASE s.r.n < 2
      <3>1. s.m[s.r.array] = c /\ s.m \in [Arrays -> Chainings]
        BY <1>5, <2>1, NoNodesInEmpty DEF Valid, Around
      <3>2. [s.m EXCEPT ![s.r.array] = c] = s.m
        BY <1>1, <3>1
      <3>3. QED
        BY <2>1, <3>2 DEF Cleared, r
    <2>2. CASE ~(s.r.n < 2)
      <3>1. Nodeless(s.m, s.r.array) = [s.m EXCEPT ![s.r.array] = c]
        BY <1>1 DEF Nodeless, c
      <3>2. QED
        BY <2>2, <3>1 DEF Cleared, r
    <2>3. QED
      BY <2>1, <2>2
  <1>7. /\ Valid(t, u) /\ Held(u) = NodesIn(c)
        /\ u.r.n = s.r.n /\ u.r.next = s.r.next /\ u.r.load = s.r.load /\ u.r.count = 0
    <2>1. PICK zero \in Nat : zero = 0
      OBVIOUS
    <2>2. r = [s.r EXCEPT !.count = zero]
      BY <2>1 DEF r
    <2>3. c \in Chainings /\ Chained(r, c) /\ (s.r.n < 2 => c = <<<<>>>>)
      BY <1>2, <1>4, <1>5
    <2>4. u = StateOf(r, [s.m EXCEPT ![s.r.array] = c])
      BY <1>6
    <2>5. Valid(t, u) /\ Held(u) = NodesIn(c)
          /\ u.r.n = s.r.n /\ u.r.next = s.r.next /\ u.r.load = s.r.load /\ u.r.count = zero
      BY <2>2, <2>3, <2>4, Rewrites, SMTT(30), ZenonT(30)
    <2>6. QED
      BY <2>1, <2>5
  <1>8. NodesFreed(s) = Held(s)
    BY NoNodesInEmpty DEF NodesFreed, Held
  <1>9. QED
    BY <1>2, <1>7, <1>8

LEMMA HeldFinite ==
  ASSUME IInv, NEW t \in Tables, NEW s, Valid(t, s)
  PROVE  /\ Held(s) \subseteq prog.nodes /\ IsFiniteSet(Held(s)) /\ IsFiniteSet(prog.nodes)
         /\ s.r.count = Cardinality(Held(s)) /\ s.r.count \in Nat
  <1>1. IsFiniteSet(Nodes) /\ prog.nodes \subseteq Nodes
    BY HashtableAssumption DEF IInv
  <1>2. s.m[s.r.array] \in Chainings
    BY ArrayIs
  <1>3. \A c \in Chainings : NodesIn(c) \subseteq prog.nodes
    BY DEF Chainings, NodesIn, ToSet
  <1>4. Held(s) \subseteq prog.nodes
    BY <1>2, <1>3 DEF Held
  <1>5. IsFiniteSet(prog.nodes) /\ IsFiniteSet(Held(s))
    BY <1>1, <1>4, FS_Subset
  <1>6. s.r.count = Cardinality(Held(s)) /\ s.r.count \in Nat
    BY DEF Valid, Sized, Chained, Held
  <1>7. QED
    BY <1>4, <1>5, <1>6

LEMMA AddedIs ==
  ASSUME IInv, NEW t \in Tables, NEW s, Valid(t, s), s.r.n >= 2,
         NEW x \in prog.nodes, x \notin Held(s), NEW u, u = Added(s, x)
  PROVE  /\ Valid(t, u) /\ Held(u) = Held(s) \cup {x}
         /\ u.r.n = s.r.n /\ u.r.next = s.r.next /\ u.r.load = s.r.load /\ u.r.count = s.r.count + 1
  <1> DEFINE n == s.r.n
             i == BucketIndex(KeyOf[x], n)
             c == s.m[s.r.array]
             d == [c EXCEPT ![i] = Linked(c[i], x)]
             r == [s.r EXCEPT !.count = s.r.count + 1]
  <1>1. c \in Chainings /\ Len(c) = n /\ n \in Nat \ {0}
    BY ArrayIs
  <1>2. i \in 1 .. n
    <2>1. HashOf[KeyOf[x]] \in Nat
      BY HashtableAssumption DEF IInv
    <2>2. QED
      BY <1>1, <2>1, IndexIs
  <1>3. c \in [1 .. n -> Seq(prog.nodes)]
    BY <1>1 DEF Chainings
  <1>4. Linked(c[i], x) \in Seq(prog.nodes) /\ ToSet(Linked(c[i], x)) = ToSet(c[i]) \cup {x}
    <2>1. PICK e \in Seq(prog.nodes) : e = c[i]
      BY <1>2, <1>3
    <2>2. Linked(e, x) \in Seq(prog.nodes) /\ ToSet(Linked(e, x)) = ToSet(e) \cup {x}
      BY LinkedIs
    <2>3. QED
      BY <2>1, <2>2
  <1>5. /\ d \in [1 .. n -> Seq(prog.nodes)]
        /\ d[i] = Linked(c[i], x) /\ \A j \in 1 .. n : j # i => d[j] = c[j]
    BY <1>2, <1>3, <1>4
  <1>6. u = StateOf(r, [s.m EXCEPT ![s.r.array] = d])
    BY DEF Added
  <1>7. \A j \in 1 .. n : \A y \in ToSet(c[j]) : BucketIndex(KeyOf[y], n) = j
    BY DEF Valid, Chained
  <1>8. r.n = n /\ r.count = s.r.count + 1
    BY DEF Valid, Sized, Table
  <1>9. NodesIn(c) = Held(s)
    BY DEF Held
  <1>10. i = BucketIndex(KeyOf[x], n)
    OBVIOUS
  <1> HIDE DEF c, d, i, r
  <1>11. d \in Chainings /\ Len(d) = n /\ DOMAIN d = 1 .. n /\ DOMAIN c = 1 .. n
    <2>1. PICK X : X = Seq(prog.nodes)
      OBVIOUS
    <2>2. d \in [1 .. n -> X] /\ n \in Nat /\ c \in [1 .. n -> X]
      BY <1>1, <1>3, <1>5, <2>1
    <2>3. d \in Seq(X) /\ Len(d) = n /\ DOMAIN d = 1 .. n /\ DOMAIN c = 1 .. n
      BY <2>2
    <2>4. QED
      BY <2>1, <2>3 DEF Chainings
  <1>12. \A j \in 1 .. n : ToSet(d[j]) = IF j = i THEN ToSet(c[j]) \cup {x} ELSE ToSet(c[j])
    BY <1>4, <1>5
  <1>13. NodesIn(d) = Held(s) \cup {x}
    <2>1. ASSUME NEW y
          PROVE  y \in NodesIn(d) <=> y \in NodesIn(c) \/ y = x
      <3>1. y \in NodesIn(d) <=> \E j \in 1 .. n : y \in ToSet(d[j])
        BY <1>11 DEF NodesIn
      <3>2. y \in NodesIn(c) <=> \E j \in 1 .. n : y \in ToSet(c[j])
        BY <1>11 DEF NodesIn
      <3>3. QED
        BY <1>2, <1>12, <3>1, <3>2
    <2>2. QED
      BY <1>9, <2>1
  <1>14. s.r.count + 1 \in Nat /\ s.r.count + 1 = Cardinality(NodesIn(d))
    <2>1. PICK T : T = Held(s)
      OBVIOUS
    <2>2. IsFiniteSet(T) /\ x \notin T /\ s.r.count = Cardinality(T) /\ s.r.count \in Nat
      BY <2>1, HeldFinite
    <2>3. Cardinality(T \cup {x}) = Cardinality(T) + 1
      BY <2>2, FS_AddElement
    <2>4. QED
      BY <1>13, <2>1, <2>2, <2>3
  <1>15. Chained(r, d)
    <2>1. ASSUME NEW j \in 1 .. n, NEW y \in ToSet(d[j])
          PROVE  BucketIndex(KeyOf[y], n) = j
      BY <1>7, <1>10, <1>12
    <2>2. QED
      BY <1>8, <1>11, <1>14, <2>1 DEF Chained
  <1>16. PICK count \in Nat : count = s.r.count + 1
    BY <1>14
  <1>17. r = [s.r EXCEPT !.count = count]
    BY <1>16 DEF r
  <1>18. /\ Valid(t, u) /\ Held(u) = NodesIn(d)
         /\ u.r.n = s.r.n /\ u.r.next = s.r.next /\ u.r.load = s.r.load /\ u.r.count = count
    <2>1. s.r.n < 2 => d = <<<<>>>>
      BY <1>1 DEF n
    <2>2. QED
      BY <1>6, <1>11, <1>15, <1>17, <2>1, Rewrites
  <1>19. QED
    BY <1>13, <1>16, <1>18

LEMMA WithoutIs ==
  ASSUME IInv, NEW t \in Tables, NEW s, Valid(t, s), NEW S, S \subseteq Held(s), NEW u, u = Without(s, S)
  PROVE  /\ Valid(t, u) /\ Held(u) = Held(s) \ S
         /\ u.r.n = s.r.n /\ u.r.next = s.r.next /\ u.r.load = s.r.load /\ u.r.count <= s.r.count
  <1> DEFINE n == s.r.n
             c == s.m[s.r.array]
             d == [i \in DOMAIN c |-> Only(c[i], ToSet(c[i]) \ S)]
             count == s.r.count - Cardinality(S)
             r == [s.r EXCEPT !.count = count]
  <1>1. c \in Chainings /\ Len(c) = n /\ n \in Nat \ {0}
    BY ArrayIs
  <1>2. c \in [1 .. n -> Seq(prog.nodes)] /\ DOMAIN c = 1 .. n
    BY <1>1 DEF Chainings
  <1>3. u = StateOf(r, [s.m EXCEPT ![s.r.array] = d])
    BY DEF Without
  <1>4. \A j \in 1 .. n : \A y \in ToSet(c[j]) : BucketIndex(KeyOf[y], n) = j
    BY DEF Valid, Chained
  <1>5. r.n = n /\ r.count = count
    BY DEF Valid, Sized, Table
  <1>6. NodesIn(c) = Held(s)
    BY DEF Held
  <1>7. n < 2 => c = <<<<>>>> /\ n = 1
    BY NoNodesInEmpty
  <1> HIDE DEF c
  <1>8. \A j \in 1 .. n : d[j] \in Seq(prog.nodes) /\ ToSet(d[j]) = ToSet(c[j]) \ S
    <2>1. ASSUME NEW j \in 1 .. n
          PROVE  d[j] \in Seq(prog.nodes) /\ ToSet(d[j]) = ToSet(c[j]) \ S
      <3>1. PICK T : T = ToSet(c[j]) \ S
        OBVIOUS
      <3>2. c[j] \in Seq(prog.nodes) /\ T \subseteq ToSet(c[j])
        BY <1>2, <3>1
      <3>3. Only(c[j], T) \in Seq(prog.nodes) /\ ToSet(Only(c[j], T)) = T
        BY <3>2, OnlyIs
      <3>4. d[j] = Only(c[j], T)
        BY <1>2, <3>1
      <3>5. QED
        BY <3>1, <3>3, <3>4
    <2>2. QED
      BY <2>1
  <1>9. DOMAIN d = 1 .. n
    BY <1>2
  <1>10. n < 2 => d = <<<<>>>>
    <2>1. SUFFICES ASSUME n < 2
                   PROVE  d = <<<<>>>>
      OBVIOUS
    <2>2. c = <<<<>>>> /\ n = 1 /\ c[1] = <<>>
      BY <1>7, <2>1
    <2>3. Only(<<>>, ToSet(<<>>) \ S) = <<>>
      BY DEF Only, FlattenSeq, ToSet
    <2>4. PICK b : b = c[1]
      OBVIOUS
    <2>5. d[1] = Only(b, ToSet(b) \ S)
      <3>1. 1 \in DOMAIN c
        BY <1>2, <2>2
      <3>2. d[1] = Only(c[1], ToSet(c[1]) \ S)
        BY <3>1
      <3>3. QED
        BY <2>4, <3>2
    <2>6. b = <<>>
      BY <2>2, <2>4
    <2>7. d[1] = <<>>
      BY <2>3, <2>5, <2>6
    <2>8. d = [j \in 1 .. 1 |-> d[j]]
      BY <1>2, <2>2
    <2> HIDE DEF d
    <2>9. d = [j \in 1 .. 1 |-> <<>>]
      BY <2>7, <2>8
    <2>10. QED
      BY <2>9
  <1>11. d = [j \in 1 .. n |-> d[j]]
    BY <1>9
  <1> HIDE DEF d, r
  <1>12. d \in Chainings /\ Len(d) = n
    <2>1. PICK X : X = Seq(prog.nodes)
      OBVIOUS
    <2>2. \A j \in 1 .. n : d[j] \in X
      BY <1>8, <2>1
    <2>3. d \in [1 .. n -> X] /\ n \in Nat
      BY <1>1, <1>11, <2>2
    <2>4. d \in Seq(X) /\ Len(d) = n
      BY <2>3
    <2>5. QED
      BY <2>1, <2>4 DEF Chainings
  <1>13. NodesIn(d) = Held(s) \ S
    <2>1. ASSUME NEW y
          PROVE  y \in NodesIn(d) <=> y \in NodesIn(c) /\ y \notin S
      <3>1. y \in NodesIn(d) <=> \E j \in 1 .. n : y \in ToSet(d[j])
        BY <1>9 DEF NodesIn
      <3>2. y \in NodesIn(c) <=> \E j \in 1 .. n : y \in ToSet(c[j])
        BY <1>2 DEF NodesIn
      <3>3. QED
        BY <1>8, <3>1, <3>2
    <2>2. QED
      BY <1>6, <2>1
  <1>14. IsFiniteSet(Held(s)) /\ s.r.count = Cardinality(Held(s)) /\ s.r.count \in Nat
    BY HeldFinite
  <1>15. IsFiniteSet(S) /\ Cardinality(S) \in Nat /\ Cardinality(S) <= s.r.count
    BY <1>14, FS_Subset, FS_CardinalityType
  <1>16. Held(s) \cap S = S
    OBVIOUS
  <1>17. Cardinality(Held(s) \ S) = s.r.count - Cardinality(S)
    <2>1. PICK T : T = Held(s)
      OBVIOUS
    <2>2. IsFiniteSet(T) /\ T \cap S = S
      BY <1>14, <1>16, <2>1
    <2>3. Cardinality(T \ S) = Cardinality(T) - Cardinality(T \cap S)
      BY <2>2, FS_Difference
    <2>4. QED
      BY <1>14, <2>1, <2>2, <2>3
  <1>18. count \in Nat /\ count <= s.r.count /\ count = Cardinality(NodesIn(d))
    BY <1>13, <1>14, <1>15, <1>17
  <1>19. r = [s.r EXCEPT !.count = count]
    BY DEF r
  <1> HIDE DEF count
  <1>20. Chained(r, d)
    BY <1>4, <1>5, <1>8, <1>12, <1>18 DEF Chained
  <1>21. /\ Valid(t, u) /\ Held(u) = NodesIn(d)
         /\ u.r.n = s.r.n /\ u.r.next = s.r.next /\ u.r.load = s.r.load /\ u.r.count = count
    BY <1>3, <1>10, <1>12, <1>18, <1>19, <1>20, Rewrites
  <1>22. QED
    BY <1>13, <1>18, <1>21

\* A memory without arrays of t has room for one.
LEMMA VacantRoom ==
  ASSUME NEW t \in Tables, NEW m, Vacated(t, m)
  PROVE  \E a \in HeapArrays : m[a] = <<>>
  <1> DEFINE g == [v \in Tables |-> h[v].array]
  <1>1. DOMAIN g = Tables /\ \A a \in HeapArrays : m[a] # <<>> => \E v \in Tables : g[v] = a
    BY DEF Vacated, Others
  <1> HIDE DEF g
  <1>2. QED
    BY <1>1, Room

\* The destructor leaves no array of t and frees what t holds.
LEMMA DestroyedIs ==
  ASSUME IInv, NEW t \in Tables, NEW m, m = Destroyed(State(t))
  PROVE  Vacated(t, m) /\ NodesFreed(State(t)) = Holds(t)
  <1> DEFINE s == State(t)
  <1>1. Valid(t, s) /\ Held(s) = Holds(t) /\ s.r = h[t] /\ s.m = mem
    BY StateIsValid, StateFields DEF State
  <1> HIDE DEF s
  <1>2. NodesFreed(s) = Held(s)
    BY <1>1, ClearedIs
  <1>3. CASE s.r.n > 1
    <2>1. Cleared(s).m = Nodeless(s.m, s.r.array)
      <3>1. ~(s.r.n < 2)
        BY <1>1, <1>3, ArrayIs
      <3>2. QED
        BY <3>1, StateFields DEF Cleared
    <2>2. m = Released(Nodeless(s.m, s.r.array), s.r.array)
      BY <1>3, <2>1 DEF Destroyed, s
    <2>3. QED
      BY <1>1, <1>2, <2>2, LeftIs DEF s
  <1>4. CASE ~(s.r.n > 1)
    <2>1. s.r.n < 2 /\ s.r.array = EmptyArray /\ ~Fixed
      BY <1>1, <1>4, ArrayIs
    <2>2. Cleared(s).m = s.m
      BY <2>1, StateFields DEF Cleared
    <2>3. m = mem
      BY <1>1, <1>4, <2>2 DEF Destroyed, s
    <2>4. Around(t, m)
      BY <1>1, <2>3 DEF Valid
    <2>5. \A a \in HeapArrays : m[a] # <<>> => \E v \in Others(t) : h[v].array = a
      BY <1>1, <2>1, <2>3, Places DEF Valid
    <2>6. QED
      BY <1>1, <1>2, <2>1, <2>4, <2>5 DEF Vacated, s
  <1>5. QED
    BY <1>3, <1>4

\* What reset_lose_memory makes of a table without arrays of the heap.
LEMMA FreshIs ==
  ASSUME IInv, NEW t \in Tables, NEW m, Vacated(t, m), NEW load \in Loads,
         NEW r, r = Table(NewTable(t).array, NewTable(t).n, 0, load, 0),
         NEW u, u = StateOf(r, m)
  PROVE  Valid(t, u) /\ Held(u) = {} /\ Asked(u.r)
  <1>1. u.r = r /\ u.m = m
    BY StateFields
  <1>2. PICK a, n : a = NewTable(t).array /\ n = NewTable(t).n
    OBVIOUS
  <1>3. r = Table(a, n, 0, load, 0) /\ r.array = a /\ r.n = n /\ r.count = 0 /\ r.load = load /\ r.next = 0
    BY <1>2, TableFields
  <1>4. Fixed => a = t /\ n = OwnCount
    BY <1>2, TableFields DEF NewTable, FixedTable, Buffer, OwnCount
  <1>5. ~Fixed => a = EmptyArray /\ n = 1
    BY <1>2, TableFields DEF NewTable, EmptyTable, EmptyTableOf
  <1>6. n \in Nat \ {0} /\ m[a] = NullHeads(n) /\ (a = EmptyArray <=> n < 2)
    <2>1. CASE Fixed
      <3>1. OwnCount \in Nat \ {0, 1} /\ m[t] = NullHeads(OwnCount) /\ t # EmptyArray
        BY <2>1, OwnCountIs, Places DEF Vacated
      <3>2. QED
        BY <1>4, <2>1, <3>1
    <2>2. CASE ~Fixed
      BY <1>5, <2>2, OneEmptyHead DEF Vacated, Around
    <2>3. QED
      BY <2>1, <2>2
  <1>7. m[a] \in Chainings /\ Len(m[a]) = n /\ NodesIn(m[a]) = {} /\ \A i \in 1 .. n : m[a][i] = <<>>
    BY <1>6, NullHeadsAre DEF Chainings
  <1>8. Chained(r, m[a])
    <2>1. \A i \in 1 .. n : ToSet(m[a][i]) = {}
      BY <1>7 DEF ToSet
    <2>2. QED
      BY <1>3, <1>7, <2>1, FS_EmptySet DEF Chained
  <1>9. Sized(t, r)
    <2>1. r = Table(r.array, r.n, r.count, r.load, r.next)
      BY <1>3
    <2>2. IF Fixed THEN r.array = t /\ r.n = OwnCount ELSE r.array \in HeapArrays \cup {EmptyArray}
      BY <1>3, <1>4, <1>5
    <2>3. QED
      BY <1>3, <1>6, <2>1, <2>2 DEF Sized
  <1>10. \A v \in Others(t) : h[v].array = a => a = EmptyArray
    <2>1. SUFFICES ASSUME Fixed, NEW v \in Others(t), h[v].array = t
                   PROVE  FALSE
      BY <1>4, <1>5
    <2>2. h[v].array = v \/ h[v].array \in HeapArrays
      BY <2>1 DEF IInv, Good, Sized, Others
    <2>3. QED
      BY <2>1, <2>2, Places DEF Others
  <1>11. Valid(t, u)
    <2>1. Around(t, m) /\ \A b \in HeapArrays : m[b] # <<>> => \E v \in Others(t) : h[v].array = b
      BY DEF Vacated
    <2>2. Fixed => a = t
      BY <1>4
    <2>3. QED
      BY <1>1, <1>3, <1>8, <1>9, <1>10, <2>1, <2>2 DEF Valid
  <1>12. QED
    BY <1>1, <1>3, <1>7, <1>11 DEF Held, Asked

\* Another policy for a table as it is.
LEMMA PolicyIs ==
  ASSUME IInv, NEW t \in Tables, NEW load \in Loads, NEW next \in Nat,
         NEW u, u = StateOf(Table(h[t].array, h[t].n, h[t].count, load, next), mem)
  PROVE  /\ Valid(t, u) /\ Held(u) = Holds(t)
         /\ u.r.n = h[t].n /\ u.r.count = h[t].count /\ u.r.next = next /\ u.r.load = load
  <1> DEFINE s == State(t)
  <1>1. Valid(t, s) /\ Held(s) = Holds(t) /\ s.r = h[t] /\ s.m = mem
    BY StateIsValid, StateFields DEF State
  <1> HIDE DEF s
  <1>2. u.r = Table(h[t].array, h[t].n, h[t].count, load, next) /\ u.m = mem
    BY StateFields
  <1>3. u.r.array = h[t].array /\ u.r.n = h[t].n /\ u.r.count = h[t].count /\ u.r.next = next /\ u.r.load = load
    BY <1>2, TableFields
  <1>4. Sized(t, u.r)
    BY <1>1, <1>2, <1>3 DEF Valid, Sized
  <1>5. QED
    BY <1>1, <1>2, <1>3, <1>4 DEF Valid, Chained, Held

-----------------------------------------------------------------------------
(* All tables, when one of them becomes another. *)
LEMMA Installs ==
  ASSUME IInv, NEW t \in Tables, NEW s, Valid(t, s), Asked(s.r), Held(s) \cap (live \ Holds(t)) = {},
         NEW hh, hh = [h EXCEPT ![t] = s.r], NEW ll, ll = (live \ Holds(t)) \cup Held(s)
  PROVE  Good(hh, s.m, ll)
  <1> DEFINE mm == s.m
             At(v) == NodesIn(mm[hh[v].array])
  <1>1. DOMAIN hh = Tables /\ hh[t] = s.r /\ \A v \in Others(t) : hh[v] = h[v] /\ v # t /\ v \in Tables
    BY DEF IInv, Good, Others
  <1>2. mm \in [Arrays -> Chainings] /\ mm[EmptyArray] = <<<<>>>>
    BY DEF Valid, Around
  <1>3. \A v \in Others(t) : mm[hh[v].array] = mem[h[v].array]
    BY <1>1 DEF Valid, Around
  <1>4. \A v \in Tables : v = t \/ v \in Others(t)
    BY DEF Others
  <1>5. \A v \in Tables : Sized(v, hh[v]) /\ Asked(hh[v]) /\ Chained(hh[v], mm[hh[v].array])
    <2>1. Sized(t, hh[t]) /\ Asked(hh[t]) /\ Chained(hh[t], mm[hh[t].array])
      BY <1>1 DEF Valid
    <2>2. ASSUME NEW v \in Others(t)
          PROVE  Sized(v, hh[v]) /\ Asked(hh[v]) /\ Chained(hh[v], mm[hh[v].array])
      <3>1. Sized(v, h[v]) /\ Asked(h[v]) /\ Chained(h[v], mem[h[v].array])
        BY DEF IInv, Good, Others
      <3>2. QED
        BY <1>1, <1>3, <3>1
    <2>3. QED
      BY <1>4, <2>1, <2>2
  <1>6. At(t) = Held(s) /\ \A v \in Others(t) : At(v) = Holds(v)
    BY <1>1, <1>3 DEF Held, Holds, Chains
  <1>7. /\ \A x : x \in live <=> \E v \in Tables : x \in Holds(v)
        /\ \A v, u \in Tables : v # u => Holds(v) \cap Holds(u) = {}
    <2>1. live = UNION {NodesIn(mem[h[v].array]) : v \in Tables}
      BY DEF IInv, Good
    <2>2. \A v, u \in Tables : v # u => NodesIn(mem[h[v].array]) \cap NodesIn(mem[h[u].array]) = {}
      BY DEF IInv, Good
    <2>3. \A v \in Tables : Holds(v) = NodesIn(mem[h[v].array])
      BY DEF Holds, Chains
    <2>4. \A x : x \in live <=> \E v \in Tables : x \in NodesIn(mem[h[v].array])
      BY <2>1
    <2>5. \A x : x \in live <=> \E v \in Tables : x \in Holds(v)
      BY <2>3, <2>4
    <2>6. \A v, u \in Tables : v # u => Holds(v) \cap Holds(u) = {}
      BY <2>2, <2>3
    <2>7. QED
      BY <2>5, <2>6
  <1> HIDE DEF At, mm
  <1>8. ll = UNION {At(v) : v \in Tables}
    <2>1. ASSUME NEW x
          PROVE  x \in ll <=> \E v \in Tables : x \in At(v)
      <3>1. x \in ll <=> (x \in live /\ x \notin Holds(t)) \/ x \in Held(s)
        OBVIOUS
      <3>2. x \in live /\ x \notin Holds(t) <=> \E v \in Others(t) : x \in Holds(v)
        BY <1>1, <1>4, <1>7
      <3>3. QED
        BY <1>1, <1>4, <1>6, <3>1, <3>2
    <2>2. QED
      BY <2>1
  <1>9. \A v \in Others(t) : At(t) \cap At(v) = {}
    BY <1>1, <1>6, <1>7
  <1>10. \A v, u \in Tables : v # u => At(v) \cap At(u) = {}
    BY <1>1, <1>4, <1>6, <1>7, <1>9
  <1>11. \A v \in Others(t) : hh[v].array = hh[t].array => hh[t].array = EmptyArray
    BY <1>1 DEF Valid
  <1>12. \A v, u \in Others(t) : v # u /\ hh[v].array = hh[u].array => hh[v].array = EmptyArray
    BY <1>1 DEF IInv, Good
  <1>13. \A v, u \in Tables : v # u => (hh[v].array = hh[u].array => hh[v].array = EmptyArray)
    BY <1>1, <1>4, <1>11, <1>12
  <1>14. \A a \in HeapArrays : mm[a] # <<>> => \E v \in Tables : hh[v].array = a
    BY <1>1 DEF Valid, mm
  <1>15. Fixed => \A v \in Tables : hh[v].array # v => mm[v] = NullHeads(OwnCount)
    <2>1. SUFFICES ASSUME Fixed, NEW v \in Tables, hh[v].array # v
                   PROVE  mm[v] = NullHeads(OwnCount)
      OBVIOUS
    <2>2. CASE v = t
      BY <1>1, <2>1, <2>2 DEF Valid, mm
    <2>3. CASE v # t
      <3>1. mm[v] = mem[v] /\ h[v].array # v
        BY <1>1, <1>4, <2>1, <2>3 DEF Valid, Around, mm
      <3>2. QED
        BY <2>1, <3>1 DEF IInv, Good
    <2>4. QED
      BY <2>2, <2>3
  <1>16. \A v, u \in Tables : v # u => NodesIn(mm[hh[v].array]) \cap NodesIn(mm[hh[u].array]) = {}
    BY <1>10 DEF At
  <1>17. ll = UNION {NodesIn(mm[hh[v].array]) : v \in Tables}
    BY <1>8 DEF At
  <1>18. Good(hh, mm, ll)
    <2>1. DOMAIN hh = Tables
      BY <1>1
    <2>2. \A v, u \in Tables : v # u =>
            /\ NodesIn(mm[hh[v].array]) \cap NodesIn(mm[hh[u].array]) = {}
            /\ hh[v].array = hh[u].array => hh[v].array = EmptyArray
      BY <1>13, <1>16
    <2>3. QED
      BY <1>2, <1>5, <1>14, <1>15, <1>17, <2>1, <2>2 DEF Good
  <1>19. QED
    BY <1>18 DEF mm

\* Tables that are not fixed can change places.
LEMMA Swapped ==
  ASSUME ~Fixed, NEW t \in Tables, NEW u \in Tables, NEW hh, NEW mm, NEW ll, Good(hh, mm, ll),
         NEW gg, gg = [hh EXCEPT ![t] = hh[u], ![u] = hh[t]]
  PROVE  Good(gg, mm, ll)
  <1> DEFINE p == [v \in Tables |-> IF v = u THEN t ELSE IF v = t THEN u ELSE v]
             At(v) == NodesIn(mm[hh[v].array])
  <1>1. /\ \A v \in Tables : p[v] \in Tables /\ \E w \in Tables : p[w] = v
        /\ \A v, w \in Tables : v # w => p[v] # p[w]
    OBVIOUS
  <1>2. DOMAIN hh = Tables
    BY DEF Good
  <1>3. DOMAIN gg = Tables /\ \A v \in Tables : gg[v] = hh[p[v]]
    BY <1>2
  <1> HIDE DEF p
  <1>4. \A v \in Tables : Sized(v, gg[v]) /\ Asked(gg[v]) /\ Chained(gg[v], mm[gg[v].array])
    <2>1. ASSUME NEW v \in Tables
          PROVE  Sized(v, gg[v]) /\ Asked(gg[v]) /\ Chained(gg[v], mm[gg[v].array])
      <3>1. PICK w \in Tables : w = p[v]
        BY <1>1
      <3>2. Sized(w, hh[w]) /\ Asked(hh[w]) /\ Chained(hh[w], mm[hh[w].array])
        BY DEF Good
      <3>3. gg[v] = hh[w]
        BY <1>3, <3>1
      <3>4. Sized(v, hh[w])
        BY <3>2 DEF Sized
      <3>5. QED
        BY <3>2, <3>3, <3>4
    <2>2. QED
      BY <2>1
  <1>5. \A x : x \in ll <=> \E v \in Tables : x \in At(v)
    BY DEF Good
  <1>6. \A v, w \in Tables : v # w => At(v) \cap At(w) = {}
    BY SMTT(30), ZenonT(30) DEF Good
  <1>7. \A v \in Tables : NodesIn(mm[gg[v].array]) = At(p[v])
    BY <1>3
  <1> HIDE DEF At
  <1>8. ll = UNION {NodesIn(mm[gg[v].array]) : v \in Tables}
    <2>1. ASSUME NEW x
          PROVE  x \in ll <=> \E v \in Tables : x \in NodesIn(mm[gg[v].array])
      <3>1. x \in ll => \E v \in Tables : x \in NodesIn(mm[gg[v].array])
        <4>1. SUFFICES ASSUME NEW w \in Tables, x \in At(w)
                       PROVE  \E v \in Tables : x \in NodesIn(mm[gg[v].array])
          BY <1>5
        <4>2. PICK v \in Tables : p[v] = w
          BY <1>1
        <4>3. QED
          BY <1>7, <4>1, <4>2
      <3>2. ASSUME NEW v \in Tables, x \in NodesIn(mm[gg[v].array])
            PROVE  x \in ll
        BY <1>1, <1>5, <1>7, <3>2
      <3>3. QED
        BY <3>1, <3>2
    <2>2. QED
      BY <2>1
  <1>9. ASSUME NEW v \in Tables, NEW w \in Tables, v # w
        PROVE  NodesIn(mm[gg[v].array]) \cap NodesIn(mm[gg[w].array]) = {}
    <2>1. At(p[v]) \cap At(p[w]) = {}
      BY <1>1, <1>6, <1>9
    <2>2. QED
      BY <1>7, <2>1
  <1>10. \A v, w \in Tables : v # w => (hh[v].array = hh[w].array => hh[v].array = EmptyArray)
    BY DEF Good
  <1>11. \A v, w \in Tables : v # w => (gg[v].array = gg[w].array => gg[v].array = EmptyArray)
    BY <1>1, <1>3, <1>10
  <1>12. \A a \in HeapArrays : mm[a] # <<>> => \E v \in Tables : gg[v].array = a
    <2>1. \A a \in HeapArrays : mm[a] # <<>> => \E v \in Tables : hh[v].array = a
      BY DEF Good
    <2>2. QED
      BY <1>1, <1>3, <2>1
  <1>13. mm \in [Arrays -> Chainings] /\ mm[EmptyArray] = <<<<>>>>
    BY DEF Good
  <1>14. QED
    BY <1>3, <1>4, <1>8, <1>9, <1>11, <1>12, <1>13 DEF Good

LEMMA Keeps ==
  ASSUME prog' = prog, Good(h', mem', live')
  PROVE  Good(h, mem, live)'
  BY DEF Good, Sized, Asked, Chained, Chainings, OwnCount, Fixed

-----------------------------------------------------------------------------
(* The actions. *)
LEMMA ProgramIs ==
  ASSUME IInv
  PROVE  /\ prog \in Programs /\ prog.tables \subseteq Tables /\ prog.nodes \subseteq Nodes
         /\ prog.loads \subseteq Loads /\ prog.counts \subseteq Nat \ {0, 1}
         /\ prog.ranges \subseteq Seq(Keys) /\ prog.clears \subseteq BOOLEAN
         /\ \A k \in Keys : HashOf[k] \in Nat
  <1>1. prog \in Programs
    BY DEF IInv
  <1>2. \A k \in Keys : HashOf[k] \in Nat
    BY <1>1, HashtableAssumption DEF Keys
  <1>3. prog.ranges \subseteq Seq(Keys)
    BY <1>1, HashtableAssumption DEF Keys
  <1>4. QED
    BY <1>1, <1>2, <1>3, HashtableAssumption

\* What is known of nodes: those a table holds are allocated.
LEMMA HoldsIs ==
  ASSUME IInv, NEW t \in Tables
  PROVE  Holds(t) \subseteq live
  <1>1. live = UNION {NodesIn(mem[h[v].array]) : v \in Tables}
    BY DEF IInv, Good
  <1>2. QED
    BY <1>1 DEF Holds, Chains

LEMMA StillWorking ==
  ASSUME Working, prog' = prog, work' = work
  PROVE  Working'
  BY DEF Working, Idle, Keys, Fixed

LEMMA IdleWorks ==
  ASSUME work' = Idle
  PROVE  Working'
  BY DEF Working, Idle

\* What the containers promise of the elements that the tables hold.
Contents == [t \in Tables |-> Holds(t)]

C == INSTANCE UnorderedContainer
       WITH Owners <- Tables, Items <- Nodes, unique <- Unique, elements <- Contents

Promised == (C!CNext \/ Contents' = Contents) /\ Unique' = Unique

\* What every step does.
Kept == IInv' /\ Promised

LEMMA ContentsBecome ==
  ASSUME IInv, prog' = prog, NEW t \in Tables, NEW s, Valid(t, s), Becomes(t, s)
  PROVE  Contents' = [Contents EXCEPT ![t] = Held(s)] /\ Unique' = Unique
  <1>1. DOMAIN h = Tables
    BY DEF IInv, Good
  <1>2. h'[t] = s.r /\ mem' = s.m /\ \A v \in Others(t) : h'[v] = h[v]
    BY <1>1 DEF Becomes, Others
  <1>3. mem'[h'[t].array] = s.m[s.r.array]
    BY <1>2
  <1>4. \A v \in Others(t) : mem'[h'[v].array] = mem[h[v].array]
    BY <1>2 DEF Valid, Around
  <1>5. Contents' = [v \in Tables |-> NodesIn(mem'[h'[v].array])]
    BY DEF Contents, Holds, Chains, NodesIn
  <1>6. Contents = [v \in Tables |-> NodesIn(mem[h[v].array])]
    BY DEF Contents, Holds, Chains
  <1>7. QED
    BY <1>3, <1>4, <1>5, <1>6 DEF Held, Others, Unique

\* A search finds every node of its key.
LEMMA FindsAll ==
  ASSUME IInv, NEW t \in Tables, NEW y \in Holds(t)
  PROVE  y \in Find(t, KeyOf[y])
  <1>1. /\ Len(Chains(t)) = h[t].n
        /\ \A i \in 1 .. h[t].n : \A x \in ToSet(Chains(t)[i]) : BucketIndex(KeyOf[x], h[t].n) = i
    BY DEF IInv, Good, Chained, Chains
  <1>2. Chains(t) \in Chainings
    <2>1. PICK s : s = State(t)
      OBVIOUS
    <2>2. QED
      BY <2>1, StateIsValid, ArrayIs, StateFields DEF State, Chains
  <1>3. PICK i \in DOMAIN Chains(t) : y \in ToSet(Chains(t)[i])
    BY DEF Holds, NodesIn
  <1>4. i \in 1 .. h[t].n
    BY <1>1, <1>2 DEF Chainings
  <1>5. BucketIndex(KeyOf[y], h[t].n) = i
    BY <1>1, <1>3, <1>4
  <1>6. QED
    BY <1>3, <1>5 DEF Find, Bucket

LEMMA BecomesIs ==
  ASSUME IInv, prog' = prog, NEW t \in Tables, NEW s, Valid(t, s), Asked(s.r), Held(s) \cap (live \ Holds(t)) = {},
         Becomes(t, s), live' = (live \ Holds(t)) \cup Held(s), Working'
  PROVE  IInv' /\ Contents' = [Contents EXCEPT ![t] = Held(s)] /\ Unique' = Unique
  <1>1. h' = [h EXCEPT ![t] = s.r] /\ mem' = s.m
    BY DEF Becomes
  <1>2. PICK hh, ll : hh = h' /\ ll = live'
    OBVIOUS
  <1>3. hh = [h EXCEPT ![t] = s.r] /\ ll = (live \ Holds(t)) \cup Held(s)
    BY <1>1, <1>2
  <1>4. Good(hh, s.m, ll)
    BY <1>3, Installs
  <1>5. Good(h', mem', live')
    BY <1>1, <1>2, <1>4
  <1>6. Good(h, mem, live)'
    BY <1>5, Keeps
  <1>7. (prog \in Programs)'
    BY DEF IInv
  <1>8. QED
    BY <1>6, <1>7, ContentsBecome DEF IInv

\* What a table holds is the same, or there is nothing left in it.
LEMMA SameHeld ==
  ASSUME IInv, prog' = prog, NEW t \in Tables, NEW s, Valid(t, s), Asked(s.r), Held(s) = Holds(t),
         Becomes(t, s), live' = live, Working'
  PROVE  Kept
  <1>1. Held(s) \cap (live \ Holds(t)) = {} /\ live' = (live \ Holds(t)) \cup Held(s)
    BY HoldsIs
  <1>2. IInv' /\ Contents' = [Contents EXCEPT ![t] = Held(s)] /\ Unique' = Unique
    BY <1>1, BecomesIs
  <1>3. [Contents EXCEPT ![t] = Holds(t)] = Contents
    BY DEF Contents
  <1>4. QED
    BY <1>2, <1>3 DEF Kept, Promised

LEMMA NothingHeld ==
  ASSUME IInv, prog' = prog, NEW t \in Tables, NEW s, Valid(t, s), Asked(s.r), Held(s) = {},
         Becomes(t, s), live' = live \ Holds(t), Working'
  PROVE  Kept
  <1>1. Held(s) \cap (live \ Holds(t)) = {} /\ live' = (live \ Holds(t)) \cup Held(s)
    OBVIOUS
  <1>2. IInv' /\ Contents' = [Contents EXCEPT ![t] = Held(s)] /\ Unique' = Unique
    BY <1>1, BecomesIs
  <1>3. C!Erase(t)
    BY <1>2 DEF C!Erase, Contents
  <1>4. QED
    BY <1>2, <1>3 DEF Kept, Promised, C!CNext

LEMMA PutKeeps ==
  ASSUME IInv, prog' = prog, NEW t \in Tables, NEW k, Put(t, k), Working'
  PROVE  Kept
  <1>1. PICK x \in FreeNodes(k) : Becomes(t, Added(Grown(State(t), t, 1), x)) /\ live' = live \cup {x}
    BY DEF Put
  <1>2. x \in prog.nodes /\ x \notin live
    BY <1>1 DEF FreeNodes, Unused
  <1>3. PICK s : s = State(t)
    OBVIOUS
  <1>4. Valid(t, s) /\ Held(s) = Holds(t) /\ Asked(s.r)
    BY <1>3, StateIsValid
  <1>5. PICK g : g = Grown(s, t, 1)
    OBVIOUS
  <1>6. Valid(t, g) /\ Held(g) = Held(s) /\ Asked(g.r) /\ g.r.n >= 2
    <2>1. PICK one \in Nat : one = 1
      OBVIOUS
    <2>2. g = Grown(s, t, one)
      BY <1>5, <2>1
    <2>3. one # 0
      BY <2>1
    <2>4. Valid(t, g) /\ Held(g) = Held(s) /\ Asked(g.r) /\ (one # 0 => g.r.n >= 2)
      BY <1>4, <2>2, GrownIs
    <2>5. QED
      BY <2>3, <2>4
  <1>7. PICK u : u = Added(g, x)
    OBVIOUS
  <1>8. x \notin Held(g)
    BY <1>2, <1>4, <1>6, HoldsIs
  <1>9. Valid(t, u) /\ Held(u) = Held(g) \cup {x} /\ u.r.n = g.r.n /\ u.r.next = g.r.next
    BY <1>2, <1>6, <1>7, <1>8, AddedIs
  <1>10. Asked(u.r)
    BY <1>6, <1>9 DEF Asked
  <1>11. Held(u) = Holds(t) \cup {x}
    BY <1>4, <1>6, <1>9
  <1>12. Becomes(t, u)
    BY <1>1, <1>3, <1>5, <1>7
  <1>13. Held(u) \cap (live \ Holds(t)) = {} /\ live' = (live \ Holds(t)) \cup Held(u)
    BY <1>1, <1>2, <1>11, HoldsIs
  <1>14. IInv' /\ Contents' = [Contents EXCEPT ![t] = Held(u)] /\ Unique' = Unique
    BY <1>9, <1>10, <1>12, <1>13, BecomesIs
  <1>15. C!Insert(t, x)
    <2>1. x \notin C!Held
      BY <1>2, HoldsIs DEF C!Held, Contents
    <2>2. Unique => KeyOf[x] \notin C!KeysOf(Contents[t])
      <3>1. SUFFICES ASSUME Unique, NEW y \in Holds(t), KeyOf[y] = KeyOf[x]
                     PROVE  FALSE
        BY DEF C!KeysOf, Contents
      <3>2. KeyOf[x] = k
        BY <1>1 DEF FreeNodes, Unused
      <3>3. y \in Find(t, k)
        BY <3>1, <3>2, FindsAll
      <3>4. QED
        BY <3>1, <3>3 DEF Put, Present
    <2>3. Contents[t] \cup {x} = Held(u)
      BY <1>11 DEF Contents
    <2>4. QED
      BY <1>14, <2>1, <2>2, <2>3 DEF C!Insert
  <1>16. x \in Nodes
    BY <1>2, ProgramIs
  <1>17. QED
    BY <1>14, <1>15, <1>16 DEF Kept, Promised, C!CNext

\* Room made without a node to put there.
LEMMA GrownKeeps ==
  ASSUME IInv, prog' = prog, NEW t \in Tables, NEW add \in Nat, Becomes(t, Grown(State(t), t, add)), live' = live,
         Working'
  PROVE  Kept
  <1>1. PICK s : s = State(t)
    OBVIOUS
  <1>2. Valid(t, s) /\ Held(s) = Holds(t) /\ Asked(s.r)
    BY <1>1, StateIsValid
  <1>3. PICK g : g = Grown(s, t, add)
    OBVIOUS
  <1>4. Valid(t, g) /\ Held(g) = Held(s) /\ Asked(g.r)
    BY <1>2, <1>3, GrownIs
  <1>5. Becomes(t, g) /\ Held(g) = Holds(t)
    BY <1>1, <1>2, <1>3, <1>4
  <1>6. QED
    BY <1>4, <1>5, SameHeld

\* The policy's decision, taken of a table with buckets.
LEMMA DecidedIs ==
  ASSUME IInv, NEW t \in Tables, NEW add \in Nat, NEW u, u = Decided(State(t), add)
  PROVE  Valid(t, u) /\ Held(u) = Holds(t) /\ u.r.n = h[t].n /\ u.r.count = h[t].count /\ u.r.next \in Nat
  <1>1. PICK s : s = State(t)
    OBVIOUS
  <1>2. Valid(t, s) /\ Held(s) = Holds(t) /\ s.r = h[t]
    BY <1>1, StateIsValid, StateFields DEF State
  <1>3. s.r.load \in Loads /\ s.r.next \in Nat /\ s.r.n \in Nat \ {0} /\ s.r.count \in Nat
    BY <1>2 DEF Valid, Sized
  <1>4. PICK load \in Loads, next \in Nat, n \in Nat \ {0}, count \in Nat :
           load = s.r.load /\ next = s.r.next /\ n = s.r.n /\ count = s.r.count
    BY <1>3
  <1>5. PICK d : d = GetRehashRequired(load, next, n, count, add)
    OBVIOUS
  <1>6. d.next \in Nat
    BY <1>5, DecisionIs
  <1>7. u = WithNext(s, d.next)
    BY <1>1, <1>4, <1>5 DEF Decided, Decision
  <1>8. PICK to \in Nat : to = d.next
    BY <1>6
  <1>9. Valid(t, u) /\ Held(u) = Held(s) /\ u.r.n = s.r.n /\ u.r.next = to /\ u.r.count = s.r.count
    BY <1>2, <1>7, <1>8, WithNextIs
  <1>10. QED
    BY <1>2, <1>9

\* Without a node there is nothing to move, and a table of nodes has buckets.
LEMMA AbandonedKeeps ==
  ASSUME IInv, prog' = prog, NEW t \in Tables, NEW s, Valid(t, s), Held(s) = Holds(t),
         RehashAbandoned(t, s), Working'
  PROVE  Kept
  <1>1. s.r.count > 0 /\ Becomes(t, Cleared(s)) /\ live' = live \ NodesFreed(s)
    BY DEF RehashAbandoned
  <1>2. PICK u : u = Cleared(s)
    OBVIOUS
  <1>3. Valid(t, u) /\ Held(u) = {} /\ NodesFreed(s) = Held(s) /\ u.r.n = s.r.n
    BY <1>2, ClearedIs
  <1>4. ~(s.r.n < 2)
    <2>1. SUFFICES ASSUME s.r.n < 2
                   PROVE  FALSE
      OBVIOUS
    <2>2. s.r.count = 0
      BY <2>1, NoNodesInEmpty
    <2>3. QED
      BY <1>1, <2>2
  <1>5. Asked(u.r)
    BY <1>3, <1>4 DEF Asked
  <1>6. Becomes(t, u) /\ live' = live \ Holds(t)
    BY <1>1, <1>2, <1>3
  <1>7. QED
    BY <1>3, <1>5, <1>6, NothingHeld

\* A fixed container always has buckets, so it may look again at any count.
LEMMA DecisionLostKeeps ==
  ASSUME IInv, prog' = prog, Careful(prog), "alloc" \in prog.throws, NEW t \in Tables, NEW add \in Nat,
         DecisionLost(t, State(t), add), live' = live, Working'
  PROVE  Kept
  <1>1. PICK u : u = Decided(State(t), add)
    OBVIOUS
  <1>2. Valid(t, u) /\ Held(u) = Holds(t)
    BY <1>1, DecidedIs
  <1>3. Fixed
    BY DEF Careful, Fixed
  <1>4. u.r.n >= 2 /\ u.r.n \in Nat
    BY <1>2, <1>3, ArrayIs
  <1>5. Asked(u.r)
    BY <1>4 DEF Asked
  <1>6. Becomes(t, u)
    BY <1>1 DEF DecisionLost
  <1>7. QED
    BY <1>2, <1>5, <1>6, SameHeld

LEMMA PutThrowsKeeps ==
  ASSUME IInv, prog' = prog, Careful(prog), NEW t \in Tables, NEW k, PutThrows(t, k), Working'
  PROVE  Kept
  <1>1. PICK one \in Nat : one = 1
    OBVIOUS
  <1>2. CASE "alloc" \in prog.throws /\ DecisionLost(t, State(t), one) /\ live' = live
    BY <1>2, DecisionLostKeeps
  <1>3. CASE Becomes(t, Grown(State(t), t, one)) /\ live' = live
    BY <1>3, GrownKeeps
  <1>4. CASE RehashAbandoned(t, Decided(State(t), one))
    <2>1. PICK s : s = Decided(State(t), one)
      OBVIOUS
    <2>2. Valid(t, s) /\ Held(s) = Holds(t)
      BY <2>1, DecidedIs
    <2>3. QED
      BY <1>4, <2>1, <2>2, AbandonedKeeps
  <1>5. QED
    BY <1>1, <1>2, <1>3, <1>4 DEF PutThrows, NodeLost

LEMMA InsertThrowsKeeps ==
  ASSUME IInv, prog' = prog, Careful(prog), NEW t \in Tables, NEW k, InsertThrows(t, k)
  PROVE  Kept
  <1>1. PutThrows(t, k) /\ Working'
    BY StillWorking DEF InsertThrows, IInv
  <1>2. QED
    BY <1>1, PutThrowsKeeps

\* A node that is forgotten was nobody's: the tables are as they were, or have
\* made room for it.
LEMMA ForgottenKeeps ==
  ASSUME IInv, prog' = prog, NEW t \in Tables, NEW k, NodeForgotten(t, k), Working'
  PROVE  Kept
  <1>1. PICK one \in Nat : one = 1
    OBVIOUS
  <1>2. PICK s : s = IF Unique THEN State(t) ELSE Grown(State(t), t, one)
    OBVIOUS
  <1>3. Becomes(t, s) /\ live' = live
    BY <1>1, <1>2 DEF NodeForgotten
  <1>4. CASE s = State(t)
    <2>1. Valid(t, s) /\ Held(s) = Holds(t) /\ Asked(s.r)
      BY <1>4, StateIsValid
    <2>2. QED
      BY <1>3, <2>1, SameHeld
  <1>5. CASE s = Grown(State(t), t, one)
    BY <1>3, <1>5, GrownKeeps
  <1>6. QED
    BY <1>2, <1>4, <1>5

LEMMA EmplaceThrowsKeeps ==
  ASSUME IInv, prog' = prog, NEW t \in Tables, NEW k, EmplaceThrows(t, k)
  PROVE  Kept
  <1>1. NodeForgotten(t, k) /\ Working'
    BY StillWorking DEF EmplaceThrows, IInv
  <1>2. QED
    BY <1>1, ForgottenKeeps

\* A range insertion, of a table that has been cleared or not.
LEMMA BeginRangeKeeps ==
  ASSUME IInv, prog' = prog, NEW t \in prog.tables, NEW s, Valid(t, s), Asked(s.r),
         (Held(s) = Holds(t) /\ live' = live) \/ (Held(s) = {} /\ live' = live \ Holds(t)),
         NEW keys \in Seq(Keys), BeginRange(t, s, keys)
  PROVE  Kept
  <1>1. t \in Tables /\ Len(keys) \in Nat
    BY ProgramIs
  <1>2. Working'
    <2>1. CASE keys = <<>>
      BY <2>1, IdleWorks DEF BeginRange
    <2>2. CASE keys # <<>>
      <3>1. work' = [table |-> t, keys |-> keys, ctor |-> FALSE]
        BY <2>2 DEF BeginRange
      <3>2. work'.table = t /\ work'.keys = keys /\ work'.ctor = FALSE
        BY <3>1
      <3>3. QED
        BY <2>2, <3>2 DEF Working, Keys
    <2>3. QED
      BY <2>1, <2>2
  <1>3. PICK n \in Nat : n = Len(keys)
    BY <1>1
  <1>4. PICK g : g = Grown(s, t, n)
    OBVIOUS
  <1>5. Valid(t, g) /\ Held(g) = Held(s) /\ Asked(g.r)
    BY <1>1, <1>3, <1>4, GrownIs
  <1>6. Becomes(t, g)
    BY <1>3, <1>4 DEF BeginRange
  <1>7. CASE Held(s) = Holds(t) /\ live' = live
    BY <1>1, <1>2, <1>5, <1>6, <1>7, SameHeld
  <1>8. CASE Held(s) = {} /\ live' = live \ Holds(t)
    BY <1>1, <1>2, <1>5, <1>6, <1>8, NothingHeld
  <1>9. QED
    BY <1>7, <1>8

LEMMA InsertRangeThrowsKeeps ==
  ASSUME IInv, prog' = prog, Careful(prog), NEW t \in Tables, NEW keys \in prog.ranges, InsertRangeThrows(t, keys)
  PROVE  Kept
  <1>1. Working'
    BY StillWorking DEF InsertRangeThrows, IInv
  <1>2. PICK add \in Nat : add = Len(keys)
    BY ProgramIs
  <1>3. CASE "alloc" \in prog.throws /\ DecisionLost(t, State(t), add) /\ live' = live
    BY <1>1, <1>3, DecisionLostKeeps
  <1>4. CASE RehashAbandoned(t, Decided(State(t), add))
    <2>1. PICK s : s = Decided(State(t), add)
      OBVIOUS
    <2>2. Valid(t, s) /\ Held(s) = Holds(t)
      BY <2>1, DecidedIs
    <2>3. QED
      BY <1>1, <1>4, <2>1, <2>2, AbandonedKeeps
  <1>5. QED
    BY <1>2, <1>3, <1>4 DEF InsertRangeThrows

LEMMA RestWorks ==
  ASSUME Working, prog' = prog, work # Idle, work' = RestOfRange
  PROVE  Working'
  <1>1. work.table \in prog.tables /\ work.keys \in Seq(Keys) /\ work.keys # <<>> /\ (work.ctor => ~Fixed)
    BY DEF Working
  <1>2. CASE Len(work.keys) = 1
    BY <1>2, IdleWorks DEF RestOfRange
  <1>3. CASE Len(work.keys) # 1
    <2>1. work' = [work EXCEPT !.keys = Tail(work.keys)]
      BY <1>3 DEF RestOfRange
    <2>2. PICK keys \in Seq(Keys) : keys = work.keys
      BY <1>1
    <2>3. Tail(keys) \in Seq(Keys) /\ Tail(keys) # <<>>
      <3>1. Len(keys) \in Nat /\ Len(keys) # 0 /\ Len(keys) # 1
        BY <1>1, <1>3, <2>2
      <3>2. Len(Tail(keys)) = Len(keys) - 1 /\ Tail(keys) \in Seq(Keys)
        BY <1>1, <2>2
      <3>3. Len(Tail(keys)) # 0
        BY <3>1, <3>2
      <3>4. Len(<<>>) = 0
        OBVIOUS
      <3>5. Tail(keys) # <<>>
        BY <3>3, <3>4
      <3>6. QED
        BY <3>2, <3>5
    <2>4. work'.table = work.table /\ work'.ctor = work.ctor /\ (work'.keys = Tail(keys) \/ work'.keys = work.keys)
      BY <2>1, <2>2
    <2>5. QED
      BY <1>1, <2>2, <2>3, <2>4 DEF Working, Keys, Fixed
  <1>4. QED
    BY <1>2, <1>3

LEMMA SameTables ==
  ASSUME IInv, prog' = prog, h' = h, mem' = mem, live' = live, Working'
  PROVE  Kept
  <1>1. Good(h', mem', live')
    BY DEF IInv
  <1>2. Good(h, mem, live)'
    BY <1>1, Keeps
  <1>3. (prog \in Programs)'
    BY DEF IInv
  <1>4. Contents' = Contents /\ Unique' = Unique
    BY DEF Contents, Holds, Chains, NodesIn, Unique
  <1>5. QED
    BY <1>2, <1>3, <1>4 DEF IInv, Kept, Promised

LEMMA InsertNextKeeps ==
  ASSUME IInv, prog' = prog, InsertNext
  PROVE  Kept
  <1>1. work # Idle /\ Working'
    BY RestWorks DEF InsertNext, IInv
  <1>2. work.table \in Tables
    BY <1>1, ProgramIs DEF IInv, Working
  <1>3. PICK t \in Tables : t = work.table
    BY <1>2
  <1>4. PICK k : k = Head(work.keys)
    OBVIOUS
  <1>5. CASE Put(t, k)
    BY <1>1, <1>5, PutKeeps
  <1>6. CASE UNCHANGED <<h, mem, live>>
    BY <1>1, <1>6, SameTables
  <1>7. QED
    BY <1>3, <1>4, <1>5, <1>6 DEF InsertNext

LEMMA InsertNextThrowsKeeps ==
  ASSUME IInv, prog' = prog, Careful(prog), InsertNextThrows
  PROVE  Kept
  <1>1. work # Idle /\ Working'
    BY IdleWorks DEF InsertNextThrows
  <1>2. work.table \in Tables
    BY <1>1, ProgramIs DEF IInv, Working
  <1>3. PICK t \in Tables : t = work.table
    BY <1>2
  <1>4. PICK k : k = Head(work.keys)
    OBVIOUS
  <1>5. CASE UNCHANGED <<h, mem, live>>
    BY <1>1, <1>5, SameTables
  <1>6. CASE PutThrows(t, k)
    BY <1>1, <1>6, PutThrowsKeeps
  <1>7. CASE NodeForgotten(t, k)
    BY <1>1, <1>7, ForgottenKeeps
  <1>8. QED
    BY <1>3, <1>4, <1>5, <1>6, <1>7 DEF InsertNextThrows

LEMMA EraseNodesKeeps ==
  ASSUME IInv, prog' = prog, NEW t \in Tables, NEW S, S \subseteq Holds(t), EraseNodes(t, S)
  PROVE  Kept
  <1>1. Working'
    BY StillWorking DEF EraseNodes, IInv
  <1>2. PICK s : s = State(t)
    OBVIOUS
  <1>3. Valid(t, s) /\ Held(s) = Holds(t) /\ Asked(s.r)
    BY <1>2, StateIsValid
  <1>4. PICK u : u = Without(s, S)
    OBVIOUS
  <1>5. Valid(t, u) /\ Held(u) = Held(s) \ S /\ u.r.n = s.r.n /\ u.r.next = s.r.next
    <2>1. S \subseteq Held(s)
      BY <1>3
    <2>2. QED
      BY <1>3, <1>4, <2>1, WithoutIs
  <1>6. Asked(u.r)
    BY <1>3, <1>5 DEF Asked
  <1>7. Becomes(t, u) /\ live' = live \ S
    BY <1>2, <1>4 DEF EraseNodes
  <1>8. Held(u) \cap (live \ Holds(t)) = {} /\ live' = (live \ Holds(t)) \cup Held(u)
    BY <1>3, <1>5, <1>7, HoldsIs
  <1>9. IInv' /\ Contents' = [Contents EXCEPT ![t] = Held(u)] /\ Unique' = Unique
    BY <1>1, <1>5, <1>6, <1>7, <1>8, BecomesIs
  <1>10. C!Erase(t)
    BY <1>3, <1>5, <1>9 DEF C!Erase, Contents
  <1>11. QED
    BY <1>9, <1>10 DEF Kept, Promised, C!CNext

\* The elements of a table, in the order of iteration.
LEMMA ElementsAre ==
  ASSUME IInv, NEW t \in Tables
  PROVE  Elements(t) \in Seq(prog.nodes) /\ ToSet(Elements(t)) = Holds(t) /\ Chains(t) \in Chainings
  <1>1. PICK s : s = State(t)
    OBVIOUS
  <1>2. Valid(t, s) /\ s.r = h[t] /\ s.m = mem
    BY <1>1, StateIsValid, StateFields DEF State
  <1>3. PICK c \in Chainings : c = Chains(t)
    BY <1>2, ArrayIs DEF Chains
  <1>4. FlattenSeq(c) \in Seq(prog.nodes) /\ ToSet(FlattenSeq(c)) = NodesIn(c)
    BY FlattenIs DEF Chainings
  <1>5. QED
    BY <1>3, <1>4 DEF Elements, Holds

Erasing(t) == \E S : S \subseteq Holds(t) /\ EraseNodes(t, S)

LEMMA EraseTakes ==
  ASSUME IInv, NEW t \in Tables, NEW i \in 1 .. Len(Elements(t)), NEW j \in i .. Len(Elements(t)),
         Erase(t, i, j)
  PROVE  Erasing(t)
  <1>1. PICK e : e = Elements(t)
    OBVIOUS
  <1>2. e \in Seq(prog.nodes) /\ ToSet(e) = Holds(t)
    BY <1>1, ElementsAre
  <1>3. PICK S : S = {Elements(t)[m] : m \in i .. j}
    OBVIOUS
  <1>4. S \subseteq ToSet(e)
    <2>1. Len(e) \in Nat /\ DOMAIN e = 1 .. Len(e)
      BY <1>2
    <2>2. i \in 1 .. Len(e) /\ j \in i .. Len(e)
      BY <1>1
    <2>3. \A m \in i .. j : m \in DOMAIN e
      BY <2>1, <2>2
    <2>4. QED
      BY <1>1, <1>3, <2>3 DEF ToSet
  <1>5. EraseNodes(t, S)
    BY <1>3 DEF Erase
  <1>6. QED
    BY <1>2, <1>4, <1>5 DEF Erasing

LEMMA EraseIfTakes ==
  ASSUME IInv, NEW t \in Tables, NEW keys, EraseIf(t, keys)
  PROVE  Erasing(t)
  <1>1. PICK S : S = {x \in Holds(t) : KeyOf[x] \in keys}
    OBVIOUS
  <1>2. S \subseteq Holds(t) /\ EraseNodes(t, S)
    BY <1>1 DEF EraseIf
  <1>3. QED
    BY <1>2 DEF Erasing

LEMMA DoEraseTakes ==
  ASSUME IInv, NEW t \in Tables, NEW k \in Keys, DoErase(t, k)
  PROVE  Erasing(t)
  <1>1. PICK S : S = FirstRun(Bucket(t, k), k)
    OBVIOUS
  <1>2. EraseNodes(t, S)
    BY <1>1 DEF DoErase
  <1>3. PICK b : b = Bucket(t, k)
    OBVIOUS
  <1>4. S \subseteq ToSet(b)
    BY <1>1, <1>3 DEF FirstRun, ToSet
  <1>5. ToSet(b) \subseteq Holds(t)
    <2>1. Len(Chains(t)) = h[t].n /\ h[t].n \in Nat \ {0} /\ Chains(t) \in Chainings
      BY ElementsAre DEF IInv, Good, Sized, Chained, Chains
    <2>2. BucketIndex(k, h[t].n) \in 1 .. h[t].n
      <3>1. PICK n \in Nat \ {0} : n = h[t].n
        BY <2>1
      <3>2. BucketIndex(k, n) \in 1 .. n
        BY ProgramIs, IndexIs
      <3>3. QED
        BY <3>1, <3>2
    <2>3. BucketIndex(k, h[t].n) \in DOMAIN Chains(t)
      BY <2>1, <2>2 DEF Chainings
    <2>4. QED
      BY <1>3, <2>3 DEF Bucket, Holds, NodesIn
  <1>6. QED
    BY <1>2, <1>4, <1>5 DEF Erasing

\* Every erasure is one of nodes that the table holds.
LEMMA Erasures ==
  ASSUME IInv, NEW t \in prog.tables
  PROVE  /\ \A i \in 1 .. Len(Elements(t)) : \A j \in i .. Len(Elements(t)) :
              Erase(t, i, j) => Erasing(t)
         /\ \A k \in Keys : DoErase(t, k) => Erasing(t)
         /\ EraseIf(t, {k \in Keys : HashOf[k] % 2 = 0}) => Erasing(t)
  <1>1. t \in Tables
    BY ProgramIs
  <1>2. ASSUME NEW i \in 1 .. Len(Elements(t)), NEW j \in i .. Len(Elements(t)), Erase(t, i, j)
        PROVE  Erasing(t)
    BY <1>1, <1>2, EraseTakes
  <1>3. ASSUME NEW k \in Keys, DoErase(t, k)
        PROVE  Erasing(t)
    BY <1>1, <1>3, DoEraseTakes
  <1>4. PICK keys : keys = {k \in Keys : HashOf[k] % 2 = 0}
    OBVIOUS
  <1>5. EraseIf(t, keys) => Erasing(t)
    BY <1>1, EraseIfTakes
  <1>6. QED
    BY <1>2, <1>3, <1>4, <1>5

\* The nodes a table holds are freed, and it keeps its array.
LEMMA ClearedState ==
  ASSUME IInv, NEW t \in Tables, NEW u, u = Cleared(State(t))
  PROVE  Valid(t, u) /\ Held(u) = {} /\ Asked(u.r) /\ NodesFreed(State(t)) = Holds(t)
  <1>1. PICK s : s = State(t)
    OBVIOUS
  <1>2. Valid(t, s) /\ Held(s) = Holds(t) /\ Asked(s.r)
    BY <1>1, StateIsValid
  <1>3. Valid(t, u) /\ Held(u) = {} /\ NodesFreed(s) = Held(s) /\ u.r.n = s.r.n /\ u.r.next = s.r.next
    BY <1>1, <1>2, ClearedIs
  <1>4. QED
    BY <1>1, <1>2, <1>3 DEF Asked

LEMMA ClearKeeps ==
  ASSUME IInv, prog' = prog, NEW t \in Tables, Clear(t)
  PROVE  Kept
  <1>1. Working'
    BY StillWorking DEF Clear, IInv
  <1>2. PICK u : u = Cleared(State(t))
    OBVIOUS
  <1>3. Valid(t, u) /\ Held(u) = {} /\ Asked(u.r) /\ NodesFreed(State(t)) = Holds(t)
    BY <1>2, ClearedState
  <1>4. Becomes(t, u) /\ live' = live \ Holds(t)
    BY <1>2, <1>3 DEF Clear
  <1>5. QED
    BY <1>1, <1>3, <1>4, NothingHeld

LEMMA ClearBucketsKeeps ==
  ASSUME IInv, prog' = prog, Careful(prog), NEW t \in Tables, NEW free \in prog.clears, ClearBuckets(t, free)
  PROVE  Kept
  <1>1. Working'
    BY StillWorking DEF ClearBuckets, IInv
  <1>2. NodesFreed(State(t)) = Holds(t)
    BY DestroyedIs
  <1>3. live' = live \ Holds(t)
    BY <1>2 DEF ClearBuckets
  <1>4. CASE free
    <2>1. PICK m : m = Destroyed(State(t))
      OBVIOUS
    <2>2. PICK r, u : r = Reset(t) /\ u = StateOf(r, m)
      OBVIOUS
    <2>3. PICK load \in Loads : load = h[t].load
      BY DEF IInv, Good, Sized
    <2>4. r = Table(NewTable(t).array, NewTable(t).n, 0, load, 0) /\ Vacated(t, m)
      BY <2>1, <2>2, <2>3, DestroyedIs DEF Reset
    <2>5. Valid(t, u) /\ Held(u) = {} /\ Asked(u.r)
      BY <2>2, <2>4, FreshIs
    <2>6. Becomes(t, u)
      BY <1>4, <2>1, <2>2 DEF ClearBuckets
    <2>7. QED
      BY <1>1, <1>3, <2>5, <2>6, NothingHeld
  <1>5. CASE ~free
    <2>1. ~Fixed
      BY <1>5 DEF Careful, Fixed
    <2>2. PICK u : u = Cleared(State(t))
      OBVIOUS
    <2>3. Valid(t, u) /\ Held(u) = {} /\ Asked(u.r)
      BY <2>2, ClearedState
    <2>4. Becomes(t, u)
      BY <1>5, <2>1, <2>2 DEF ClearBuckets
    <2>5. QED
      BY <1>1, <1>3, <2>3, <2>4, NothingHeld
  <1>6. QED
    BY <1>4, <1>5

LEMMA RehashKeeps ==
  ASSUME IInv, prog' = prog, NEW t \in Tables, NEW s, Valid(t, s), Held(s) = Holds(t),
         NEW n \in Nat \ {0, 1}, Fixed => n > prog.buffer,
         Becomes(t, Rehashed(s, t, n)), live' = live, Working'
  PROVE  Kept
  <1>1. PICK u : u = Rehashed(s, t, n)
    OBVIOUS
  <1>2. Valid(t, u) /\ Held(u) = Held(s) /\ Asked(u.r)
    BY <1>1, RehashedIs
  <1>3. Becomes(t, u) /\ Held(u) = Holds(t)
    BY <1>1, <1>2
  <1>4. QED
    BY <1>2, <1>3, SameHeld

\* A careful program rehashes only what is not fixed, and allocates without fail.
LEMMA rehashKeeps ==
  ASSUME IInv, prog' = prog, Careful(prog), NEW t \in Tables, NEW n \in prog.counts, rehash(t, n)
  PROVE  Kept
  <1>1. Working'
    BY StillWorking DEF rehash, IInv
  <1>2. ~Fixed /\ n \in Nat \ {0, 1}
    BY ProgramIs DEF Careful, Fixed
  <1>3. PICK s : s = State(t)
    OBVIOUS
  <1>4. Valid(t, s) /\ Held(s) = Holds(t)
    BY <1>3, StateIsValid
  <1>5. CASE Becomes(t, Rehashed(s, t, n)) /\ live' = live
    BY <1>1, <1>2, <1>4, <1>5, RehashKeeps
  <1>6. CASE RehashAbandoned(t, s)
    BY <1>1, <1>4, <1>6, AbandonedKeeps
  <1>7. QED
    BY <1>3, <1>5, <1>6 DEF rehash

LEMMA reserveKeeps ==
  ASSUME IInv, prog' = prog, Careful(prog), NEW t \in Tables, NEW count \in prog.counts, reserve(t, count)
  PROVE  Kept
  <1>1. Working'
    BY StillWorking DEF reserve, IInv
  <1>2. ~Fixed /\ count \in Nat /\ "alloc" \notin prog.throws
    BY ProgramIs DEF Careful, Fixed
  <1>3. PICK load \in Loads : load = h[t].load
    BY DEF IInv, Good, Sized
  <1>4. PICK n : n = GetBucketCount(load, count)
    OBVIOUS
  <1>5. n \in Primes /\ n \in Nat \ {0, 1}
    BY <1>2, <1>4, BucketCountType, HashtableAssumption
  <1>6. PICK next \in Nat : next = Resize(load, n)
    BY <1>5, ResizeType
  <1>7. PICK old, s : old = State(t) /\ s = WithNext(old, next)
    OBVIOUS
  <1>8. Valid(t, s) /\ Held(s) = Holds(t)
    <2>1. Valid(t, old) /\ Held(old) = Holds(t)
      BY <1>7, StateIsValid
    <2>2. QED
      BY <1>7, <2>1, WithNextIs
  <1>9. CASE Becomes(t, Rehashed(s, t, n)) /\ live' = live
    BY <1>1, <1>2, <1>5, <1>8, <1>9, RehashKeeps
  <1>10. CASE RehashAbandoned(t, s)
    BY <1>1, <1>8, <1>10, AbandonedKeeps
  <1>11. QED
    BY <1>2, <1>3, <1>4, <1>6, <1>7, <1>9, <1>10 DEF reserve

LEMMA set_max_load_factorKeeps ==
  ASSUME IInv, prog' = prog, NEW t \in Tables, NEW load \in prog.loads, set_max_load_factor(t, load)
  PROVE  Kept
  <1>1. Working'
    BY StillWorking DEF set_max_load_factor, IInv
  <1>2. load \in Loads
    BY ProgramIs
  <1>3. Sized(t, h[t])
    BY DEF IInv, Good
  <1>4. PICK count \in Nat : count = h[t].count
    BY <1>3 DEF Sized
  <1>5. PICK n : n = GetBucketCount(load, count)
    OBVIOUS
  <1>6. n \in Primes /\ n \in Nat \ {0, 1}
    BY <1>2, <1>5, BucketCountType, HashtableAssumption
  <1>7. PICK zero \in Nat : zero = 0
    OBVIOUS
  <1>8. PICK s : s = StateOf(Table(h[t].array, h[t].n, h[t].count, load, zero), mem)
    OBVIOUS
  <1>9. Valid(t, s) /\ Held(s) = Holds(t) /\ s.r.n = h[t].n /\ s.r.next = zero
    BY <1>2, <1>8, PolicyIs
  <1>10. Asked(s.r)
    BY <1>7, <1>9 DEF Asked
  <1>11. CASE Becomes(t, s) /\ live' = live
    BY <1>1, <1>9, <1>10, <1>11, SameHeld
  <1>12. CASE n > h[t].n /\ Becomes(t, Rehashed(s, t, n)) /\ live' = live
    <2>1. Fixed => n > prog.buffer
      <3>1. SUFFICES ASSUME Fixed
                     PROVE  n > prog.buffer
        OBVIOUS
      <3>2. /\ OwnCount \in Nat \ {0, 1} /\ prog.buffer \in Nat
            /\ \A o \in Primes : o <= prog.buffer => OwnCount >= o
        BY <3>1, OwnCountIs
      <3>3. h[t].n \in Nat /\ (h[t].n = OwnCount \/ h[t].n > prog.buffer)
        BY <1>3, <3>1 DEF Sized
      <3>4. ~(n <= prog.buffer)
        BY <1>6, <1>12, <3>2, <3>3
      <3>5. QED
        BY <1>6, <3>2, <3>4
    <2>2. QED
      BY <1>1, <1>6, <1>9, <1>12, <2>1, RehashKeeps
  <1>13. CASE RehashAbandoned(t, s)
    BY <1>1, <1>9, <1>13, AbandonedKeeps
  <1>14. QED
    BY <1>4, <1>5, <1>7, <1>8, <1>11, <1>12, <1>13 DEF set_max_load_factor

LEMMA InsertRangeKeeps ==
  ASSUME IInv, prog' = prog, NEW t \in prog.tables, NEW keys \in prog.ranges, InsertRange(t, keys)
  PROVE  Kept
  <1>1. t \in Tables /\ keys \in Seq(Keys)
    BY ProgramIs
  <1>2. PICK s : s = State(t)
    OBVIOUS
  <1>3. Valid(t, s) /\ Held(s) = Holds(t) /\ Asked(s.r)
    BY <1>1, <1>2, StateIsValid
  <1>4. BeginRange(t, s, keys) /\ live' = live
    BY <1>2 DEF InsertRange
  <1>5. (Held(s) = Holds(t) /\ live' = live) \/ (Held(s) = {} /\ live' = live \ Holds(t))
    BY <1>3, <1>4
  <1>6. QED
    BY <1>1, <1>3, <1>4, <1>5, BeginRangeKeeps

LEMMA AssignKeeps ==
  ASSUME IInv, prog' = prog, NEW t \in prog.tables, NEW keys \in Seq(Keys),
         BeginRange(t, Cleared(State(t)), keys), live' = live \ NodesFreed(State(t))
  PROVE  Kept
  <1>1. t \in Tables
    BY ProgramIs
  <1>2. PICK s : s = Cleared(State(t))
    OBVIOUS
  <1>3. Valid(t, s) /\ Held(s) = {} /\ Asked(s.r) /\ NodesFreed(State(t)) = Holds(t)
    BY <1>1, <1>2, ClearedState
  <1>4. BeginRange(t, s, keys) /\ live' = live \ Holds(t)
    BY <1>2, <1>3
  <1>5. (Held(s) = Holds(t) /\ live' = live) \/ (Held(s) = {} /\ live' = live \ Holds(t))
    BY <1>3, <1>4
  <1>6. QED
    BY <1>3, <1>4, <1>5, BeginRangeKeeps

LEMMA AssignListKeeps ==
  ASSUME IInv, prog' = prog, NEW t \in prog.tables, NEW keys \in prog.ranges, AssignList(t, keys)
  PROVE  Kept
  <1>1. keys \in Seq(Keys)
    BY ProgramIs
  <1>2. QED
    BY <1>1, AssignKeeps DEF AssignList

LEMMA KeySeqIs ==
  ASSUME IInv, NEW u \in Tables
  PROVE  KeySeq(u) \in Seq(Keys)
  <1>1. PICK e \in Seq(prog.nodes) : e = Elements(u)
    BY ElementsAre
  <1>2. KeySeq(u) = [i \in 1 .. Len(e) |-> KeyOf[e[i]]]
    BY <1>1 DEF KeySeq
  <1>3. Len(e) \in Nat /\ \A i \in 1 .. Len(e) : KeyOf[e[i]] \in Keys
    BY DEF Keys
  <1>4. QED
    BY <1>2, <1>3

LEMMA CopyAssignKeeps ==
  ASSUME IInv, prog' = prog, NEW t \in prog.tables, NEW u \in Tables, CopyAssign(t, u)
  PROVE  Kept
  <1>1. PICK keys \in Seq(Keys) : keys = KeySeq(u)
    BY KeySeqIs
  <1>2. BeginRange(t, Cleared(State(t)), keys) /\ live' = live \ NodesFreed(State(t))
    BY <1>1 DEF CopyAssign
  <1>3. QED
    BY <1>2, AssignKeeps

LEMMA swapKeeps ==
  ASSUME IInv, prog' = prog, NEW t \in Tables, NEW u \in Tables, swap(t, u)
  PROVE  Kept
  <1>1. Working'
    BY StillWorking DEF swap, IInv
  <1>2. PICK hh, mm, ll, gg : hh = h /\ mm = mem /\ ll = live /\ gg = h'
    OBVIOUS
  <1>3. ~Fixed /\ gg = [hh EXCEPT ![t] = hh[u], ![u] = hh[t]] /\ Good(hh, mm, ll)
    BY <1>2 DEF swap, IInv
  <1>4. Good(gg, mm, ll)
    BY <1>3, Swapped
  <1>5. Good(h', mem', live')
    BY <1>2, <1>4 DEF swap
  <1>6. Good(h, mem, live)'
    BY <1>5, Keeps
  <1>7. (prog \in Programs)'
    BY DEF IInv
  <1>8. C!Exchange(t, u) /\ Unique' = Unique
    <2>1. DOMAIN h = Tables
      BY DEF IInv, Good
    <2>2. \A v \in Tables : h'[v] = IF v = u THEN h[t] ELSE IF v = t THEN h[u] ELSE h[v]
      BY <2>1 DEF swap
    <2>3. Contents' = [v \in Tables |-> NodesIn(mem[h'[v].array])]
      BY DEF Contents, Holds, Chains, NodesIn, swap
    <2>4. Contents = [v \in Tables |-> NodesIn(mem[h[v].array])]
      BY DEF Contents, Holds, Chains
    <2>5. QED
      BY <2>2, <2>3, <2>4 DEF C!Exchange, Unique
  <1>9. QED
    BY <1>1, <1>6, <1>7, <1>8 DEF IInv, Kept, Promised, C!CNext

\* What the moves have in common: table t becomes s, and changes places with u.
LEMMA MovesKeep ==
  ASSUME IInv, prog' = prog, ~Fixed, NEW t \in Tables, NEW u \in Tables, t # u,
         NEW s, Valid(t, s), Asked(s.r), Held(s) = {},
         h' = [h EXCEPT ![t] = h[u], ![u] = s.r], mem' = s.m, live' = live \ Holds(t), Working'
  PROVE  Kept
  <1>1. PICK hh, mm, ll, gg : hh = [h EXCEPT ![t] = s.r] /\ mm = s.m /\ ll = live' /\ gg = h'
    OBVIOUS
  <1>2. ll = (live \ Holds(t)) \cup Held(s) /\ Held(s) \cap (live \ Holds(t)) = {}
    BY <1>1
  <1>3. Good(hh, s.m, ll)
    BY <1>1, <1>2, Installs
  <1>4. DOMAIN h = Tables
    BY DEF IInv, Good
  <1>5. DOMAIN hh = Tables /\ hh[t] = s.r /\ hh[u] = h[u] /\ \A v \in Tables : v # t => hh[v] = h[v]
    BY <1>1, <1>4
  <1>6. gg = [hh EXCEPT ![t] = hh[u], ![u] = hh[t]]
    BY <1>1, <1>4, <1>5
  <1>7. Good(gg, mm, ll)
    <2>1. Good(hh, mm, ll)
      BY <1>1, <1>3
    <2>2. QED
      BY <1>6, <2>1, Swapped
  <1>8. Good(h', mem', live')
    BY <1>1, <1>7
  <1>9. Good(h, mem, live)'
    BY <1>8, Keeps
  <1>10. (prog \in Programs)'
    BY DEF IInv
  <1>11. C!Take(t, u) /\ Unique' = Unique
    <2>1. \A v \in Tables : h'[v] = IF v = u THEN s.r ELSE IF v = t THEN h[u] ELSE h[v]
      BY <1>4
    <2>2. mem' = s.m /\ \A v \in Others(t) : s.m[h[v].array] = mem[h[v].array]
      BY DEF Valid, Around
    <2>3. Contents' = [v \in Tables |-> NodesIn(mem'[h'[v].array])]
      BY DEF Contents, Holds, Chains, NodesIn
    <2>4. Contents = [v \in Tables |-> NodesIn(mem[h[v].array])]
      BY DEF Contents, Holds, Chains
    <2>5. NodesIn(mem'[h'[u].array]) = {} /\ mem'[h'[t].array] = mem[h[u].array]
      BY <2>1, <2>2 DEF Held, Others
    <2>6. \A v \in Tables \ {t, u} : mem'[h'[v].array] = mem[h[v].array]
      BY <2>1, <2>2 DEF Others
    <2>7. \A v \in Tables : NodesIn(mem'[h'[v].array]) =
             IF v = u THEN {} ELSE IF v = t THEN Contents[u] ELSE Contents[v]
      <3>1. ASSUME NEW v \in Tables
            PROVE  NodesIn(mem'[h'[v].array]) = IF v = u THEN {} ELSE IF v = t THEN Contents[u] ELSE Contents[v]
        <4>1. CASE v = u
          BY <2>5, <4>1
        <4>2. CASE v = t
          BY <1>4, <2>4, <2>5, <4>2
        <4>3. CASE v \notin {t, u}
          <5>1. mem'[h'[v].array] = mem[h[v].array]
            BY <2>6, <4>3
          <5>2. Contents[v] = NodesIn(mem[h[v].array])
            BY <2>4
          <5>3. QED
            BY <4>3, <5>1, <5>2
        <4>4. QED
          BY <4>1, <4>2, <4>3
      <3>2. QED
        BY <3>1
    <2>8. Contents' = [Contents EXCEPT ![t] = Contents[u], ![u] = {}]
      BY <2>3, <2>4, <2>7
    <2>9. QED
      BY <2>8 DEF C!Take, Unique
  <1>12. QED
    BY <1>9, <1>10, <1>11 DEF IInv, Kept, Promised, C!CNext

LEMMA MoveAssignKeeps ==
  ASSUME IInv, prog' = prog, NEW t \in Tables, NEW u \in Tables, MoveAssign(t, u)
  PROVE  Kept
  <1>1. Working'
    BY StillWorking DEF MoveAssign, IInv
  <1>2. PICK s : s = Cleared(State(t))
    OBVIOUS
  <1>3. Valid(t, s) /\ Held(s) = {} /\ Asked(s.r) /\ NodesFreed(State(t)) = Holds(t)
    BY <1>2, ClearedState
  <1>4. /\ ~Fixed /\ t # u /\ h' = [h EXCEPT ![t] = h[u], ![u] = s.r] /\ mem' = s.m
        /\ live' = live \ Holds(t)
    BY <1>2, <1>3 DEF MoveAssign
  <1>5. QED
    BY <1>1, <1>3, <1>4, MovesKeep

LEMMA EmptiedIs ==
  ASSUME IInv, ~Fixed, NEW t \in Tables, NEW load \in Loads, NEW m, Vacated(t, m),
         NEW s, s = StateOf(EmptyTableOf(load), m)
  PROVE  Valid(t, s) /\ Held(s) = {} /\ Asked(s.r) /\ s.r = EmptyTableOf(load) /\ s.m = m
  <1>1. PICK r : r = EmptyTableOf(load)
    OBVIOUS
  <1>2. r = Table(NewTable(t).array, NewTable(t).n, 0, load, 0)
    <2>1. NewTable(t).array = EmptyArray /\ NewTable(t).n = 1
      BY TableFields DEF NewTable, EmptyTable, EmptyTableOf
    <2>2. QED
      BY <1>1, <2>1 DEF EmptyTableOf
  <1>3. s = StateOf(r, m)
    BY <1>1
  <1>4. QED
    BY <1>1, <1>2, <1>3, FreshIs, StateFields

LEMMA MoveConstructKeeps ==
  ASSUME IInv, prog' = prog, NEW t \in Tables, NEW u \in Tables, MoveConstruct(t, u)
  PROVE  Kept
  <1>1. Working'
    BY StillWorking DEF MoveConstruct, IInv
  <1>2. PICK m : m = Destroyed(State(t))
    OBVIOUS
  <1>3. Vacated(t, m) /\ NodesFreed(State(t)) = Holds(t)
    BY <1>2, DestroyedIs
  <1>4. PICK load \in Loads : load = h[u].load
    BY DEF IInv, Good, Sized
  <1>5. PICK s : s = StateOf(EmptyTableOf(load), m)
    OBVIOUS
  <1>6. ~Fixed /\ t # u
    BY DEF MoveConstruct
  <1>7. Valid(t, s) /\ Held(s) = {} /\ Asked(s.r) /\ s.r = EmptyTableOf(load) /\ s.m = m
    BY <1>3, <1>5, <1>6, EmptiedIs
  <1>8. h' = [h EXCEPT ![t] = h[u], ![u] = s.r] /\ mem' = s.m /\ live' = live \ Holds(t)
    BY <1>2, <1>3, <1>4, <1>7 DEF MoveConstruct
  <1>9. QED
    BY <1>1, <1>6, <1>7, <1>8, MovesKeep

\* A new table without nodes: an array of n heads.
LEMMA BucketsKeep ==
  ASSUME IInv, prog' = prog, ~Fixed, NEW t \in Tables, NEW n \in Nat \ {0, 1}, NEW load \in Loads, NEW next \in Nat,
         NEW m, m = Destroyed(State(t)), NEW to, to = Placed(m, t, n),
         Becomes(t, StateOf(Table(to, n, 0, load, next), [m EXCEPT ![to] = NullHeads(n)])),
         live' = live \ NodesFreed(State(t)), Working'
  PROVE  Kept
  <1>1. Vacated(t, m) /\ NodesFreed(State(t)) = Holds(t)
    BY DestroyedIs
  <1>2. to \in HeapArrays /\ m[to] = <<>>
    BY <1>1, VacantRoom, PlacedIs
  <1>3. PICK c : c = NullHeads(n)
    OBVIOUS
  <1>4. /\ c \in Chainings /\ Len(c) = n /\ NodesIn(c) = {} /\ \A i \in 1 .. n : c[i] = <<>>
    BY <1>3, NullHeadsAre DEF Chainings
  <1>5. PICK zero \in Nat : zero = 0
    OBVIOUS
  <1>6. PICK r : r = Table(to, n, zero, load, next)
    OBVIOUS
  <1>7. Chained(r, c)
    <2>1. \A i \in 1 .. n : ToSet(c[i]) = {}
      BY <1>4 DEF ToSet
    <2>2. r.n = n /\ r.count = 0
      BY <1>5, <1>6, TableFields
    <2>3. QED
      BY <1>4, <2>1, <2>2, FS_EmptySet DEF Chained
  <1>8. PICK u : u = StateOf(r, [m EXCEPT ![to] = c])
    OBVIOUS
  <1>9. Valid(t, u) /\ Held(u) = NodesIn(c) /\ Asked(u.r)
    <2>1. r.array = to /\ r.n = n /\ r.count = zero /\ r.load = load /\ r.next = next
      BY <1>6, TableFields
    <2>2. Filling(t, m, to, c, r, u)
      BY <1>1, <1>2, <1>4, <1>5, <1>6, <1>7, <1>8, <2>1 DEF Filling
    <2>3. QED
      BY <2>2, Fills
  <1>10. Becomes(t, u) /\ live' = live \ Holds(t) /\ Held(u) = {}
    BY <1>1, <1>3, <1>4, <1>5, <1>6, <1>8, <1>9
  <1>11. QED
    BY <1>9, <1>10, NothingHeld

\* The nodes of a chain, each by its copy.
LEMMA CopiesAre ==
  ASSUME NEW X, NEW Y, NEW c \in Seq(X), NEW f, \A x \in ToSet(c) : f[x] \in Y,
         NEW d, d = [j \in DOMAIN c |-> f[c[j]]]
  PROVE  d \in Seq(Y) /\ \A y : y \in ToSet(d) <=> \E x \in ToSet(c) : y = f[x]
  <1>1. DOMAIN c = 1 .. Len(c) /\ Len(c) \in Nat /\ \A j \in 1 .. Len(c) : c[j] \in ToSet(c)
    BY DEF ToSet
  <1>2. DOMAIN d = 1 .. Len(c) /\ \A j \in 1 .. Len(c) : d[j] = f[c[j]]
    BY <1>1
  <1>3. d \in [1 .. Len(c) -> Y]
    BY <1>1
  <1>4. d \in Seq(Y)
    BY <1>1, <1>3
  <1>5. ASSUME NEW y
        PROVE  y \in ToSet(d) <=> \E x \in ToSet(c) : y = f[x]
    <2>1. y \in ToSet(d) <=> \E j \in 1 .. Len(c) : y = d[j]
      BY <1>2 DEF ToSet
    <2>2. \A x : x \in ToSet(c) <=> \E j \in 1 .. Len(c) : x = c[j]
      BY <1>1 DEF ToSet
    <2>3. QED
      BY <1>2, <2>1, <2>2
  <1>6. QED
    BY <1>4, <1>5

\* What a container's copy holds: as many nodes, in the same buckets.
Copies(u, free, f) ==
  /\ free \subseteq prog.nodes /\ f \in [Holds(u) -> free]
  /\ \A x, y \in Holds(u) : KeyOf[f[x]] = KeyOf[x] /\ (f[x] = f[y] => x = y)
CopiedChains(u, f) == [i \in 1 .. h[u].n |-> [j \in DOMAIN Chains(u)[i] |-> f[Chains(u)[i][j]]]]
CopiedNodes(u, f) == {f[x] : x \in Holds(u)}

LEMMA CopyIs ==
  ASSUME IInv, NEW u \in Tables, NEW free, NEW f, Copies(u, free, f),
         NEW c, c = CopiedChains(u, f), NEW F, F = CopiedNodes(u, f)
  PROVE  /\ c \in Chainings /\ Len(c) = h[u].n /\ NodesIn(c) = F /\ F \subseteq free
         /\ \A i \in 1 .. h[u].n : \A y \in ToSet(c[i]) : BucketIndex(KeyOf[y], h[u].n) = i
         /\ h[u].count = Cardinality(NodesIn(c))
  <1> DEFINE n == h[u].n
             d == Chains(u)
  <1>0. /\ free \subseteq prog.nodes /\ f \in [Holds(u) -> free]
        /\ \A x, y \in Holds(u) : KeyOf[f[x]] = KeyOf[x] /\ (f[x] = f[y] => x = y)
        /\ c = [i \in 1 .. n |-> [j \in DOMAIN d[i] |-> f[d[i][j]]]]
        /\ F = {f[x] : x \in Holds(u)}
    BY DEF Copies, CopiedChains, CopiedNodes
  <1> USE <1>0
  <1>1. d \in Chainings /\ Len(d) = n /\ n \in Nat \ {0}
    BY ElementsAre DEF IInv, Good, Sized, Chained, Chains
  <1>2. /\ \A i \in 1 .. n : \A x \in ToSet(d[i]) : BucketIndex(KeyOf[x], n) = i
        /\ h[u].count = Cardinality(NodesIn(d))
    BY DEF IInv, Good, Chained, Chains
  <1>3. Holds(u) = NodesIn(d)
    BY DEF Holds
  <1>4. DOMAIN c = 1 .. n /\ \A i \in 1 .. n : c[i] = [j \in DOMAIN d[i] |-> f[d[i][j]]]
    OBVIOUS
  <1>5. c = [i \in 1 .. n |-> c[i]]
    OBVIOUS
  <1> HIDE DEF d, n
  <1>6. d \in [1 .. n -> Seq(prog.nodes)] /\ DOMAIN d = 1 .. n
    BY <1>1 DEF Chainings
  <1>7. \A x : x \in Holds(u) <=> \E i \in 1 .. n : x \in ToSet(d[i])
    BY ONLY <1>3, <1>6 DEF NodesIn
  <1>8. \A i \in 1 .. n : c[i] \in Seq(prog.nodes) /\ \A y : y \in ToSet(c[i]) <=> \E x \in ToSet(d[i]) : y = f[x]
    <2>1. ASSUME NEW i \in 1 .. n
          PROVE  c[i] \in Seq(prog.nodes) /\ \A y : y \in ToSet(c[i]) <=> \E x \in ToSet(d[i]) : y = f[x]
      <3>1. PICK e \in Seq(prog.nodes) : e = d[i]
        BY <1>6
      <3>2. \A x \in ToSet(e) : f[x] \in prog.nodes
        BY <1>7, <3>1
      <3>3. PICK g : g = c[i]
        OBVIOUS
      <3>4. g = [j \in DOMAIN e |-> f[e[j]]]
        BY <1>4, <3>1, <3>3
      <3>5. g \in Seq(prog.nodes) /\ \A y : y \in ToSet(g) <=> \E x \in ToSet(e) : y = f[x]
        BY ONLY <3>1, <3>2, <3>4, CopiesAre
      <3>6. QED
        BY <3>1, <3>3, <3>5
    <2>2. QED
      BY <2>1
  <1>9. c \in Chainings /\ Len(c) = n
    <2>1. PICK S : S = Seq(prog.nodes)
      OBVIOUS
    <2>2. \A i \in 1 .. n : c[i] \in S
      BY <1>8, <2>1
    <2>3. PICK k \in Nat : k = n
      BY <1>1
    <2>4. c \in Seq(S) /\ Len(c) = n
      <3>1. c \in [1 .. k -> S]
        BY <1>5, <2>2, <2>3
      <3>2. c \in Seq(S) /\ Len(c) = k
        BY ONLY <2>3, <3>1
      <3>3. QED
        BY <2>3, <3>2
    <2>5. QED
      BY <2>1, <2>4 DEF Chainings
  <1>10. NodesIn(c) = F
    <2>1. ASSUME NEW y
          PROVE  y \in NodesIn(c) <=> y \in F
      <3>1. y \in NodesIn(c) <=> \E i \in 1 .. n : y \in ToSet(c[i])
        BY <1>4 DEF NodesIn
      <3>2. y \in F <=> \E x \in Holds(u) : y = f[x]
        OBVIOUS
      <3>3. ASSUME NEW i \in 1 .. n, y \in ToSet(c[i])
            PROVE  y \in F
        BY <1>7, <1>8, <3>2, <3>3
      <3>4. ASSUME NEW x \in Holds(u), y = f[x]
            PROVE  y \in NodesIn(c)
        <4>1. PICK i \in 1 .. n : x \in ToSet(d[i])
          BY <1>7
        <4>2. y \in ToSet(c[i])
          BY <1>8, <3>4, <4>1, SMTT(30), ZenonT(30)
        <4>3. QED
          BY <3>1, <4>2
      <3>5. QED
        BY <3>1, <3>2, <3>3, <3>4
    <2>2. QED
      BY <2>1
  <1>11. \A i \in 1 .. n : \A y \in ToSet(c[i]) : BucketIndex(KeyOf[y], n) = i
    <2>1. ASSUME NEW i \in 1 .. n, NEW y \in ToSet(c[i])
          PROVE  BucketIndex(KeyOf[y], n) = i
      <3>1. PICK x \in ToSet(d[i]) : y = f[x]
        BY <1>8
      <3>2. x \in Holds(u) /\ BucketIndex(KeyOf[x], n) = i
        BY <1>2, <1>7 DEF d, n
      <3>3. KeyOf[y] = KeyOf[x]
        BY <3>1, <3>2
      <3>4. QED
        BY <3>2, <3>3
    <2>2. QED
      BY <2>1
  <1>12. h[u].count = Cardinality(F)
    <2>1. PICK s : s = State(u)
      OBVIOUS
    <2>2. Valid(u, s) /\ Held(s) = Holds(u)
      BY <2>1, StateIsValid
    <2>3. PICK H : H = Holds(u)
      OBVIOUS
    <2>4. IsFiniteSet(H)
      BY <2>2, <2>3, HeldFinite
    <2>5. f \in Bijection(H, F)
      BY <2>3 DEF Bijection, Injection, Surjection, IsInjective
    <2>6. ExistsBijection(H, F)
      BY <2>5 DEF ExistsBijection
    <2>7. Cardinality(F) = Cardinality(H)
      BY <2>4, <2>6, FS_Bijection
    <2>8. QED
      BY <1>2, <1>3, <2>3, <2>7
  <1>13. F \subseteq free
    OBVIOUS
  <1>14. QED
    BY <1>9, <1>10, <1>11, <1>12, <1>13 DEF n

\* The abstract containers count as the tables do.
LEMMA SameCardinality ==
  ASSUME NEW S
  PROVE  C!Cardinality(S) = Cardinality(S)
  BY DEF C!Cardinality, Cardinality

\* As many of each key.
LEMMA CopyCounts ==
  ASSUME IInv, NEW u \in Tables, NEW free, NEW f, Copies(u, free, f), NEW F, F = CopiedNodes(u, f), NEW k
  PROVE  Cardinality({y \in F : KeyOf[y] = k}) = Cardinality({x \in Holds(u) : KeyOf[x] = k})
  <1>1. /\ f \in [Holds(u) -> free] /\ F = {f[x] : x \in Holds(u)}
        /\ \A x, y \in Holds(u) : KeyOf[f[x]] = KeyOf[x] /\ (f[x] = f[y] => x = y)
    BY DEF Copies, CopiedNodes
  <1>2. PICK s : s = State(u)
    OBVIOUS
  <1>3. Valid(u, s) /\ Held(s) = Holds(u)
    BY <1>2, StateIsValid
  <1>4. PICK G, H : G = {y \in F : KeyOf[y] = k} /\ H = {x \in Holds(u) : KeyOf[x] = k}
    OBVIOUS
  <1>5. IsFiniteSet(H)
    <2>1. IsFiniteSet(Holds(u)) /\ H \subseteq Holds(u)
      BY <1>3, <1>4, HeldFinite
    <2>2. QED
      BY <2>1, FS_Subset
  <1>6. PICK g : g = [x \in H |-> f[x]]
    OBVIOUS
  <1>7. g \in Bijection(H, G)
    <2>1. \A x \in H : g[x] = f[x] /\ g[x] \in G
      BY <1>1, <1>4, <1>6
    <2>2. \A x, y \in H : g[x] = g[y] => x = y
      BY <1>1, <1>4, <2>1
    <2>3. \A y \in G : \E x \in H : g[x] = y
      BY <1>1, <1>4, <2>1
    <2>4. DOMAIN g = H /\ g = [x \in H |-> g[x]]
      BY <1>6
    <2>5. g \in [H -> G]
      BY <2>1, <2>4
    <2>6. QED
      BY <2>2, <2>3, <2>5 DEF Bijection, Injection, Surjection, IsInjective
  <1>8. Cardinality(G) = Cardinality(H)
    BY <1>5, <1>7, FS_Bijection DEF ExistsBijection
  <1>9. QED
    BY <1>4, <1>8

LEMMA CopyConstructKeeps ==
  ASSUME IInv, prog' = prog, NEW t \in Tables, NEW u \in Tables, CopyConstruct(t, u)
  PROVE  Kept
  <1>1. Working'
    BY StillWorking DEF CopyConstruct, IInv
  <1>2. PICK m : m = Destroyed(State(t))
    OBVIOUS
  <1>3. Vacated(t, m) /\ NodesFreed(State(t)) = Holds(t)
    BY <1>2, DestroyedIs
  <1>4. ~Fixed
    BY DEF CopyConstruct
  <1>5. Sized(u, h[u])
    BY DEF IInv, Good
  <1>6. CASE h[u].count = 0
    <2>1. PICK load \in Loads : load = h[u].load
      BY <1>5 DEF Sized
    <2>2. PICK s : s = StateOf(EmptyTableOf(load), m)
      OBVIOUS
    <2>3. Valid(t, s) /\ Held(s) = {} /\ Asked(s.r)
      BY <1>3, <1>4, <2>2, EmptiedIs
    <2>4. Becomes(t, s) /\ live' = live \ Holds(t)
      BY <1>2, <1>3, <1>6, <2>1, <2>2 DEF CopyConstruct
    <2>5. QED
      BY <1>1, <2>3, <2>4, NothingHeld
  <1>7. CASE h[u].count # 0
    <2> DEFINE free == Unused \cup NodesFreed(State(t))
               copies == {g \in [Holds(u) -> free] :
                            \A x, y \in DOMAIN g : KeyOf[g[x]] = KeyOf[x] /\ (g[x] = g[y] => x = y)}
    <2>1. PICK f : f = CHOOSE g \in copies : TRUE
      OBVIOUS
    <2>2. copies # {}
      BY DEF CopyConstruct
    <2>3. f \in copies
      BY <2>1, <2>2
    <2>4. free \subseteq prog.nodes /\ free \cap (live \ Holds(t)) = {}
      <3>1. PICK w : w = State(t)
        OBVIOUS
      <3>2. Valid(t, w) /\ Held(w) = Holds(t)
        BY <3>1, StateIsValid
      <3>3. Holds(t) \subseteq prog.nodes
        BY <3>2, HeldFinite
      <3>4. QED
        BY <1>3, <3>3 DEF Unused
    <2>5. PICK n : n = h[u].n
      OBVIOUS
    <2>6. PICK to : to = Placed(m, t, n)
      OBVIOUS
    <2>7. PICK c : c = CopiedChains(u, f)
      OBVIOUS
    <2>8. PICK F : F = CopiedNodes(u, f)
      OBVIOUS
    <2>9. PICK r, s : r = Moved(h[u], to, n) /\ s = StateOf(r, [m EXCEPT ![to] = c])
      OBVIOUS
    <2>10. Becomes(t, s) /\ live' = (live \ NodesFreed(State(t))) \cup F
      BY <1>2, <1>7, <2>1, <2>5, <2>6, <2>7, <2>8, <2>9 DEF CopyConstruct, CopiedChains, CopiedNodes
    <2>11. PICK fr : fr = free
      OBVIOUS
    <2>12. Copies(u, fr, f) /\ fr \cap (live \ Holds(t)) = {}
      BY <2>3, <2>4, <2>11 DEF Copies
    <2> HIDE DEF free, copies
    <2>13. /\ c \in Chainings /\ Len(c) = h[u].n /\ NodesIn(c) = F /\ F \subseteq fr
           /\ \A i \in 1 .. h[u].n : \A y \in ToSet(c[i]) : BucketIndex(KeyOf[y], h[u].n) = i
           /\ h[u].count = Cardinality(NodesIn(c))
      BY <2>7, <2>8, <2>12, CopyIs
    <2>14. n \in Nat \ {0, 1}
      <3>1. PICK w : w = State(u)
        OBVIOUS
      <3>2. Valid(u, w) /\ w.r = h[u]
        BY <3>1, StateIsValid, StateFields DEF State
      <3>3. ~(w.r.n < 2)
        BY <1>7, <3>2, NoNodesInEmpty
      <3>4. QED
        BY <1>5, <2>5, <3>2, <3>3 DEF Sized
    <2>15. to \in HeapArrays /\ m[to] = <<>>
      BY <1>3, <1>4, <2>6, <2>14, VacantRoom, PlacedIs
    <2>16. /\ r = Table(to, n, h[u].count, h[u].load, h[u].next)
           /\ r.array = to /\ r.n = n /\ r.count = h[u].count /\ r.load = h[u].load /\ r.next = h[u].next
      BY <2>9, TableFields DEF Moved
    <2>17. Chained(r, c)
      BY <2>5, <2>13, <2>16 DEF Chained
    <2>18. h[u].count \in Nat /\ h[u].load \in Loads /\ h[u].next \in Nat
      BY <1>5 DEF Sized
    <2>19. Filling(t, m, to, c, r, s)
      BY <1>3, <1>4, <2>9, <2>13, <2>14, <2>15, <2>16, <2>17, <2>18 DEF Filling
    <2>20. Valid(t, s) /\ Held(s) = NodesIn(c) /\ Asked(s.r)
      BY <2>19, Fills
    <2>21. Held(s) \cap (live \ Holds(t)) = {} /\ live' = (live \ Holds(t)) \cup Held(s)
      BY <1>3, <2>10, <2>12, <2>13, <2>20
    <2>22. IInv' /\ Contents' = [Contents EXCEPT ![t] = Held(s)] /\ Unique' = Unique
      BY <1>1, <2>10, <2>20, <2>21, BecomesIs
    <2>23. C!Assign(t, u)
      <3>1. t # u
        BY DEF CopyConstruct
      <3>2. Contents'[t] = F /\ Contents[u] = Holds(u) /\ DOMAIN Contents = Tables
        BY <2>13, <2>20, <2>22 DEF Contents
      <3>3. F \subseteq Nodes
        BY <2>12, <2>13, ProgramIs DEF Copies
      <3>4. ASSUME NEW v \in Tables \ {t}
            PROVE  F \cap Contents[v] = {}
        <4>1. Holds(v) \cap Holds(t) = {} /\ Holds(v) \subseteq live
          BY HoldsIs, SMTT(30), ZenonT(30) DEF IInv, Good, Holds, Chains
        <4>2. QED
          BY <2>12, <2>13, <4>1 DEF Contents
      <3>5. F \in SUBSET (Nodes \ UNION {Contents[v] : v \in Tables \ {t}})
        BY <3>3, <3>4
      <3>6. ASSUME NEW k
            PROVE  Cardinality({y \in F : KeyOf[y] = k}) = Cardinality({x \in Holds(u) : KeyOf[x] = k})
        BY <2>8, <2>12, CopyCounts
      <3>7. \A k \in C!KeysOf(Nodes) : Cardinality({x \in Contents'[t] : KeyOf[x] = k}) =
                                      Cardinality({x \in Contents[u] : KeyOf[x] = k})
        BY <3>2, <3>6
      <3>8. Contents' = [Contents EXCEPT ![t] = Contents'[t]]
        BY <2>22, <3>2
      <3>9. Contents'[t] \in SUBSET (Nodes \ UNION {Contents[v] : v \in Tables \ {t}})
        BY <3>2, <3>5
      <3>10. QED
        BY <3>1, <3>7, <3>8, <3>9, SameCardinality DEF C!Assign, C!Equal
    <2>24. QED
      BY <2>22, <2>23 DEF Kept, Promised, C!CNext
  <1>8. QED
    BY <1>6, <1>7

LEMMA ConstructKeeps ==
  ASSUME IInv, prog' = prog, NEW t \in Tables, NEW n \in {0} \cup prog.counts, Construct(t, n)
  PROVE  Kept
  <1>1. Working'
    BY StillWorking DEF Construct, IInv
  <1>2. PICK m : m = Destroyed(State(t))
    OBVIOUS
  <1>3. Vacated(t, m) /\ NodesFreed(State(t)) = Holds(t)
    BY <1>2, DestroyedIs
  <1>4. ~Fixed /\ live' = live \ NodesFreed(State(t))
    BY DEF Construct
  <1>5. PICK load \in Loads : load = InitialLoad
    BY HashtableAssumption
  <1>6. CASE n < 2
    <2>1. PICK s : s = StateOf(EmptyTableOf(load), m)
      OBVIOUS
    <2>2. Valid(t, s) /\ Held(s) = {} /\ Asked(s.r)
      BY <1>3, <1>4, <2>1, EmptiedIs
    <2>3. Becomes(t, s) /\ live' = live \ Holds(t)
      BY <1>2, <1>3, <1>4, <1>5, <1>6, <2>1 DEF Construct, EmptyTable
    <2>4. QED
      BY <1>1, <2>2, <2>3, NothingHeld
  <1>7. CASE ~(n < 2)
    <2>1. n \in Nat
      BY ProgramIs
    <2>2. PICK p \in Primes : p = GetNextBucketCount(n)
      BY <2>1, LowerBoundIs DEF GetNextBucketCount
    <2>3. p \in Nat \ {0, 1}
      BY HashtableAssumption
    <2>4. PICK next \in Nat : next = Resize(load, p)
      BY <2>3, ResizeType
    <2>5. PICK to : to = Placed(m, t, p)
      OBVIOUS
    <2>6. Becomes(t, StateOf(Table(to, p, 0, load, next), [m EXCEPT ![to] = NullHeads(p)]))
      BY <1>2, <1>5, <1>7, <2>2, <2>4, <2>5 DEF Construct
    <2>7. QED
      BY <1>1, <1>2, <1>4, <2>3, <2>5, <2>6, BucketsKeep
  <1>8. QED
    BY <1>6, <1>7

\* No fixed container is constructed from a range.
LEMMA RangeConstructThrowsKeeps ==
  ASSUME IInv, prog' = prog, RangeConstructThrows
  PROVE  Kept
  <1>1. work # Idle /\ work.ctor /\ Working'
    BY IdleWorks DEF RangeConstructThrows
  <1>2. work.table \in Tables /\ ~Fixed
    BY <1>1, ProgramIs DEF IInv, Working
  <1>3. PICK t \in Tables : t = work.table
    BY <1>2
  <1>4. PICK m : m = Destroyed(State(t))
    OBVIOUS
  <1>5. Vacated(t, m) /\ NodesFreed(State(t)) = Holds(t)
    BY <1>4, DestroyedIs
  <1>6. PICK load \in Loads : load = InitialLoad
    BY HashtableAssumption
  <1>7. PICK s : s = StateOf(EmptyTableOf(load), m)
    OBVIOUS
  <1>8. Valid(t, s) /\ Held(s) = {} /\ Asked(s.r)
    BY <1>2, <1>5, <1>7, EmptiedIs
  <1>9. Becomes(t, s) /\ live' = live \ Holds(t)
    BY <1>3, <1>4, <1>5, <1>6, <1>7 DEF RangeConstructThrows, EmptyTable
  <1>10. QED
    BY <1>1, <1>8, <1>9, NothingHeld

LEMMA RangeConstructKeeps ==
  ASSUME IInv, prog' = prog, NEW t \in prog.tables, NEW keys \in prog.ranges, NEW n \in {0} \cup prog.counts,
         RangeConstruct(t, keys, n)
  PROVE  Kept
  <1>1. t \in Tables /\ keys \in Seq(Keys) /\ Len(keys) \in Nat
    BY ProgramIs
  <1>2. ~Fixed /\ live' = live \ NodesFreed(State(t))
    BY DEF RangeConstruct
  <1>3. Working'
    <2>1. CASE keys = <<>>
      BY <2>1, IdleWorks DEF RangeConstruct
    <2>2. CASE keys # <<>>
      <3>1. work' = [table |-> t, keys |-> keys, ctor |-> TRUE]
        BY <2>2 DEF RangeConstruct
      <3>2. work'.table = t /\ work'.keys = keys
        BY <3>1
      <3>3. prog'.tables = prog.tables /\ Keys' = Keys /\ Fixed' = Fixed
        BY DEF Keys, Fixed
      <3>4. work'.table \in prog'.tables /\ work'.keys \in Seq(Keys') /\ work'.keys # <<>> /\ ~Fixed'
        BY <1>1, <1>2, <2>2, <3>2, <3>3
      <3>5. QED
        BY <3>4 DEF Working
    <2>3. QED
      BY <2>1, <2>2
  <1>4. PICK m : m = Destroyed(State(t))
    OBVIOUS
  <1>5. PICK load \in Loads : load = InitialLoad
    BY HashtableAssumption
  <1>6. PICK c : c = IF n < 2 THEN GetBucketCount(InitialLoad, Len(keys)) ELSE n
    OBVIOUS
  <1>7. c \in Nat \ {0, 1}
    <2>1. CASE n < 2
      <3>1. c \in Primes
        BY <1>1, <1>5, <1>6, <2>1, BucketCountType
      <3>2. QED
        BY <3>1, HashtableAssumption
    <2>2. CASE ~(n < 2)
      <3>1. n \in Nat /\ c = n
        BY <1>6, <2>2, ProgramIs
      <3>2. QED
        BY <2>2, <3>1
    <2>3. QED
      BY <2>1, <2>2
  <1>8. PICK next \in Nat : next = IF n < 2 THEN Resize(InitialLoad, c) ELSE 0
    BY <1>5, <1>7, ResizeType
  <1>9. PICK to : to = Placed(m, t, c)
    OBVIOUS
  <1>10. Becomes(t, StateOf(Table(to, c, 0, load, next), [m EXCEPT ![to] = NullHeads(c)]))
    BY <1>4, <1>5, <1>6, <1>8, <1>9 DEF RangeConstruct
  <1>11. QED
    BY <1>1, <1>2, <1>3, <1>4, <1>7, <1>9, <1>10, BucketsKeep

-----------------------------------------------------------------------------
(* The invariant. *)
LEMMA Initially ==
  ASSUME Init
  PROVE  IInv
  <1>1. prog \in Programs /\ live = {} /\ work = Idle
    BY DEF Init
  <1>2. Working
    BY <1>1 DEF Working
  <1>3. DOMAIN h = Tables /\ \A v \in Tables : h[v] = NewTable(v)
    BY DEF Init
  <1>4. /\ DOMAIN mem = Arrays /\ mem[EmptyArray] = <<<<>>>>
        /\ \A a \in Arrays : a # EmptyArray => mem[a] = IF a \in HeapArrays \/ ~Fixed THEN <<>> ELSE NullHeads(OwnCount)
        /\ mem = [a \in Arrays |-> mem[a]]
    BY Places DEF Init, OwnCount
  <1>5. prog.buffer \in Nat \ {1} /\ IsFiniteSet(Primes) /\ Primes \subseteq Nat \ {0, 1} /\ 2 \in Primes
    BY <1>1, HashtableAssumption
  <1>6. Fixed => OwnCount \in Nat \ {0, 1}
    <2>1. SUFFICES ASSUME Fixed
                   PROVE  OwnCount \in Nat \ {0, 1}
      OBVIOUS
    <2>2. PICK S : S = {p \in Primes : p <= prog.buffer}
      OBVIOUS
    <2>3. 2 <= prog.buffer
      BY <1>5, <2>1 DEF Fixed
    <2>4. S \subseteq Primes /\ 2 \in S
      BY <1>5, <2>2, <2>3
    <2>5. IsFiniteSet(S) /\ S \subseteq Nat
      BY <1>5, <2>4, FS_Subset
    <2>6. Max(S) \in S
      BY <2>4, <2>5, MaxIs
    <2>7. QED
      BY <1>5, <2>2, <2>4, <2>6 DEF OwnCount, GetPrevBucketCount
  <1>7. InitialLoad \in Loads
    BY HashtableAssumption
  <1>8. mem \in [Arrays -> Chainings]
    <2>1. <<>> \in Chainings /\ <<<<>>>> \in Chainings
      <3>1. NullHeads(1) \in Chainings
        BY NullHeadsAre DEF Chainings
      <3>2. QED
        BY <3>1, OneEmptyHead DEF Chainings
    <2>2. Fixed => NullHeads(OwnCount) \in Chainings
      BY <1>6, NullHeadsAre DEF Chainings
    <2>3. \A a \in Arrays : mem[a] \in Chainings
      BY <1>4, <2>1, <2>2
    <2>4. QED
      BY <1>4, <2>3
  <1>9. ASSUME NEW v \in Tables
        PROVE  /\ Sized(v, h[v]) /\ Asked(h[v]) /\ Chained(h[v], mem[h[v].array])
               /\ NodesIn(mem[h[v].array]) = {}
               /\ h[v].array = IF Fixed THEN v ELSE EmptyArray
    <2>1. PICK r : r = h[v]
      OBVIOUS
    <2>2. PICK a, n : a = (IF Fixed THEN v ELSE EmptyArray) /\ n = (IF Fixed THEN OwnCount ELSE 1)
      OBVIOUS
    <2>3. PICK next : next = IF Fixed THEN Resize(InitialLoad, OwnCount) ELSE 0
      OBVIOUS
    <2>4. r = Table(a, n, 0, InitialLoad, next)
      BY <1>3, <2>1, <2>2, <2>3 DEF NewTable, FixedTable, EmptyTable, EmptyTableOf, OwnCount, Buffer
    <2>5. r.array = a /\ r.n = n /\ r.count = 0 /\ r.load = InitialLoad /\ r.next = next
      BY <2>4, TableFields
    <2>6. n \in Nat \ {0} /\ next \in Nat /\ (n < 2 => next = 0) /\ (a = EmptyArray <=> n < 2) /\ mem[a] = NullHeads(n)
      <3>1. CASE Fixed
        <4>1. a = v /\ n = OwnCount /\ OwnCount \in Nat \ {0, 1} /\ next = Resize(InitialLoad, OwnCount)
          BY <1>6, <2>2, <2>3, <3>1
        <4>2. next \in Nat
          BY <1>7, <4>1, ResizeType
        <4>3. a \in Arrays /\ a # EmptyArray /\ a \notin HeapArrays
          BY <4>1, Places
        <4>4. mem[a] = NullHeads(n)
          BY <1>4, <3>1, <4>1, <4>3
        <4>5. QED
          BY <4>1, <4>2, <4>3, <4>4
      <3>2. CASE ~Fixed
        <4>1. a = EmptyArray /\ n = 1 /\ next = 0
          BY <2>2, <2>3, <3>2
        <4>2. mem[a] = NullHeads(n)
          BY <1>4, <4>1, OneEmptyHead
        <4>3. QED
          BY <4>1, <4>2
      <3>3. QED
        BY <3>1, <3>2
    <2>7. Len(mem[a]) = n /\ NodesIn(mem[a]) = {} /\ \A i \in 1 .. n : mem[a][i] = <<>>
      BY <2>6, NullHeadsAre
    <2>8. Chained(r, mem[a])
      <3>1. \A i \in 1 .. n : ToSet(mem[a][i]) = {}
        BY <2>7 DEF ToSet
      <3>2. QED
        BY <2>5, <2>7, <3>1, FS_EmptySet DEF Chained
    <2>9. Sized(v, r)
      <3>1. r = Table(r.array, r.n, r.count, r.load, r.next)
        BY <2>4, <2>5
      <3>2. IF Fixed THEN r.array = v /\ r.n = OwnCount ELSE r.array = EmptyArray
        BY <2>2, <2>5
      <3>3. QED
        BY <1>7, <2>5, <2>6, <3>1, <3>2 DEF Sized
    <2>10. QED
      BY <2>1, <2>2, <2>5, <2>6, <2>7, <2>8, <2>9 DEF Asked
  <1>10. \A t, u \in Tables : t # u =>
           /\ NodesIn(mem[h[t].array]) \cap NodesIn(mem[h[u].array]) = {}
           /\ h[t].array = h[u].array => h[t].array = EmptyArray
    BY <1>9
  <1>11. \A a \in HeapArrays : mem[a] = <<>>
    BY <1>4, Places
  <1>12. live = UNION {NodesIn(mem[h[t].array]) : t \in Tables}
    BY <1>1, <1>9
  <1>13. Fixed => \A t \in Tables : h[t].array # t => mem[t] = NullHeads(OwnCount)
    BY <1>9
  <1>14. Good(h, mem, live)
    BY <1>3, <1>4, <1>8, <1>9, <1>10, <1>11, <1>12, <1>13, SMTT(30), ZenonT(30) DEF Good
  <1>15. QED
    BY <1>1, <1>2, <1>14 DEF IInv

LEMMA Stutters ==
  ASSUME IInv, UNCHANGED vars
  PROVE  Kept
  <1>1. prog' = prog /\ h' = h /\ mem' = mem /\ live' = live /\ work' = work
    BY DEF vars
  <1>2. Working'
    BY <1>1, StillWorking DEF IInv
  <1>3. QED
    BY <1>1, <1>2, SameTables

LEMMA CallKeeps ==
  ASSUME IInv, prog' = prog, Careful(prog), Call
  PROVE  Kept
  <1>1. prog' = prog /\ Careful(prog)
    OBVIOUS
  <1>2. CASE InsertNext
    BY <1>1, <1>2, InsertNextKeeps
  <1>3. ASSUME NEW t \in prog.tables
        PROVE  t \in Tables
    BY ProgramIs
  <1>4. ASSUME NEW t \in prog.tables, NEW k \in Keys, Insert(t, k)
        PROVE  Kept
    <2>1. Working'
      BY <1>1, <1>4, StillWorking DEF Insert, IInv
    <2>2. QED
      BY <1>1, <1>3, <1>4, <2>1, PutKeeps DEF Insert
  <1>5. ASSUME NEW t \in prog.tables, NEW k \in Keys, InsertThrows(t, k)
        PROVE  Kept
    BY <1>1, <1>3, <1>5, InsertThrowsKeeps
  <1>6. ASSUME NEW t \in prog.tables, NEW keys \in prog.ranges,
               InsertRange(t, keys) \/ InsertRangeThrows(t, keys) \/ AssignList(t, keys)
        PROVE  Kept
    BY <1>1, <1>3, <1>6, InsertRangeKeeps, InsertRangeThrowsKeeps, AssignListKeeps
  <1>7. ASSUME NEW t \in prog.tables, NEW keys \in prog.ranges, NEW n \in {0} \cup prog.counts,
               RangeConstruct(t, keys, n)
        PROVE  Kept
    BY <1>1, <1>7, RangeConstructKeeps
  <1>8. ASSUME NEW t \in prog.tables, NEW S, S \subseteq Holds(t), EraseNodes(t, S)
        PROVE  Kept
    BY <1>1, <1>3, <1>8, EraseNodesKeeps
  <1>9. ASSUME NEW t \in prog.tables, Clear(t)
        PROVE  Kept
    BY <1>1, <1>3, <1>9, ClearKeeps
  <1>10. ASSUME NEW t \in prog.tables, NEW free \in prog.clears, ClearBuckets(t, free)
         PROVE  Kept
    BY <1>1, <1>3, <1>10, ClearBucketsKeeps
  <1>11. ASSUME NEW t \in prog.tables, NEW n \in prog.counts, rehash(t, n) \/ reserve(t, n)
         PROVE  Kept
    BY <1>1, <1>3, <1>11, rehashKeeps, reserveKeeps
  <1>12. ASSUME NEW t \in prog.tables, NEW n \in {0} \cup prog.counts, Construct(t, n)
         PROVE  Kept
    BY <1>1, <1>3, <1>12, ConstructKeeps
  <1>13. ASSUME NEW t \in prog.tables, NEW load \in prog.loads, set_max_load_factor(t, load)
         PROVE  Kept
    BY <1>1, <1>3, <1>13, set_max_load_factorKeeps
  <1>14. ASSUME NEW t \in prog.tables, NEW u \in prog.tables,
                swap(t, u) \/ MoveAssign(t, u) \/ MoveConstruct(t, u) \/ CopyConstruct(t, u) \/ CopyAssign(t, u)
         PROVE  Kept
    BY <1>1, <1>3, <1>14, swapKeeps, MoveAssignKeeps, MoveConstructKeeps, CopyConstructKeeps, CopyAssignKeeps
  <1>15. QED
    BY <1>2, <1>4, <1>5, <1>6, <1>7, <1>8, <1>9, <1>10, <1>11, <1>12, <1>13, <1>14, Erasures DEF Call, Erasing

LEMMA Inductive ==
  ASSUME \A p \in Programs : Careful(p), IInv, Next
  PROVE  Kept
  <1>1. prog' = prog /\ Careful(prog)
    BY DEF Next, IInv
  <1>2. ASSUME NEW t \in prog.tables, NEW k \in Keys, EmplaceThrows(t, k)
        PROVE  Kept
    <2>1. t \in Tables
      BY ProgramIs
    <2>2. QED
      BY <1>1, <1>2, <2>1, EmplaceThrowsKeeps
  <1>3. QED
    BY <1>1, <1>2, CallKeeps, InsertNextThrowsKeeps, RangeConstructThrowsKeeps DEF Next

\* IInv holds in every state of careful programs.
THEOREM Invariant ==
  ASSUME \A p \in Programs : Careful(p)
  PROVE  Spec => []IInv
  <1>1. Init => IInv
    BY Initially
  <1>2. IInv /\ [Next]_vars => IInv'
    BY Inductive, Stutters DEF Kept
  <1>3. QED
    BY <1>1, <1>2, PTL DEF Spec

\* The nodes that are forgotten are in no table, and are not handed out again.
Losses == lost \subseteq prog.nodes /\ lost \cap live = {}

\* A call that forgets nothing takes its nodes from those nobody has.
LEMMA CallTakes ==
  ASSUME IInv, Call
  PROVE  live' \cap lost \subseteq live
  <1>1. ASSUME NEW t, NEW k, Put(t, k)
        PROVE  live' \cap lost \subseteq live
    BY <1>1 DEF Put, FreeNodes, Unused
  <1>2. CASE InsertNext
    BY <1>1, <1>2 DEF InsertNext
  <1>3. ASSUME NEW t \in prog.tables, NEW u \in prog.tables, CopyConstruct(t, u)
        PROVE  live' \cap lost \subseteq live
    <2> DEFINE free == Unused \cup NodesFreed(State(t))
               copies == {g \in [Holds(u) -> free] :
                            \A x, y \in DOMAIN g : KeyOf[g[x]] = KeyOf[x] /\ (g[x] = g[y] => x = y)}
    <2>1. PICK f : f = CHOOSE g \in copies : TRUE
      OBVIOUS
    <2>2. copies # {}
      BY <1>3 DEF CopyConstruct
    <2>3. f \in [Holds(u) -> free]
      BY <2>1, <2>2
    <2>4. live' = live \ NodesFreed(State(t)) \/ live' = (live \ NodesFreed(State(t))) \cup {f[x] : x \in Holds(u)}
      BY <1>3, <2>1 DEF CopyConstruct
    <2>5. NodesFreed(State(t)) \subseteq live
      <3>1. t \in Tables
        BY ProgramIs
      <3>2. PICK m : m = Destroyed(State(t))
        OBVIOUS
      <3>3. NodesFreed(State(t)) = Holds(t)
        BY <3>1, <3>2, DestroyedIs
      <3>4. QED
        BY <3>1, <3>3, HoldsIs
    <2>6. free \cap lost \subseteq live
      BY <2>5 DEF Unused
    <2> HIDE DEF free, copies
    <2>7. \A x \in Holds(u) : f[x] \in free
      BY <2>3
    <2>8. QED
      BY <2>4, <2>6, <2>7
  <1>4. ASSUME NEW t \in prog.tables, NEW k \in Keys, Insert(t, k) \/ InsertThrows(t, k) \/ DoErase(t, k)
        PROVE  live' \cap lost \subseteq live
    BY <1>1, <1>4 DEF Insert, InsertThrows, PutThrows, RehashAbandoned, DoErase, EraseNodes
  <1>5. ASSUME NEW t \in prog.tables, NEW keys \in prog.ranges,
               InsertRange(t, keys) \/ InsertRangeThrows(t, keys) \/ AssignList(t, keys)
        PROVE  live' \cap lost \subseteq live
    BY <1>5 DEF InsertRange, InsertRangeThrows, AssignList, RehashAbandoned
  <1>6. ASSUME NEW t \in prog.tables, NEW keys \in prog.ranges, NEW n \in {0} \cup prog.counts,
               RangeConstruct(t, keys, n)
        PROVE  live' \cap lost \subseteq live
    BY <1>6 DEF RangeConstruct
  <1>7. ASSUME NEW t \in prog.tables, NEW i, NEW j, Erase(t, i, j)
        PROVE  live' \cap lost \subseteq live
    BY <1>7 DEF Erase, EraseNodes
  <1>8. ASSUME NEW t \in prog.tables, NEW keys, EraseIf(t, keys)
        PROVE  live' \cap lost \subseteq live
    BY <1>8 DEF EraseIf, EraseNodes
  <1>9. ASSUME NEW t \in prog.tables, NEW free \in prog.clears, Clear(t) \/ ClearBuckets(t, free)
        PROVE  live' \cap lost \subseteq live
    BY <1>9 DEF Clear, ClearBuckets
  <1>10. ASSUME NEW t \in prog.tables, Clear(t)
         PROVE  live' \cap lost \subseteq live
    BY <1>10 DEF Clear
  <1>11. ASSUME NEW t \in prog.tables, NEW n, rehash(t, n) \/ reserve(t, n) \/ Construct(t, n)
         PROVE  live' \cap lost \subseteq live
    BY <1>11 DEF rehash, reserve, Construct, RehashAbandoned
  <1>12. ASSUME NEW t \in prog.tables, NEW load \in prog.loads, set_max_load_factor(t, load)
         PROVE  live' \cap lost \subseteq live
    BY <1>12 DEF set_max_load_factor, RehashAbandoned
  <1>13. ASSUME NEW t \in prog.tables, NEW u \in prog.tables,
                swap(t, u) \/ MoveAssign(t, u) \/ MoveConstruct(t, u) \/ CopyAssign(t, u)
         PROVE  live' \cap lost \subseteq live
    BY <1>13 DEF swap, MoveAssign, MoveConstruct, CopyAssign
  <1>14. QED
    BY <1>2, <1>3, <1>4, <1>5, <1>6, <1>7, <1>8, <1>9, <1>10, <1>11, <1>12, <1>13 DEF Call

\* What is forgotten was nobody's before.
LEMMA ForgottenTakes ==
  ASSUME Losses, NEW k, Forgotten(k)
  PROVE  lost' \subseteq prog.nodes /\ lost' \cap live = {}
  <1>1. PICK x \in FreeNodes(k) : lost' = lost \cup {x}
    BY DEF Forgotten
  <1>2. x \in prog.nodes /\ x \notin live
    BY <1>1 DEF FreeNodes, Unused
  <1>3. QED
    BY <1>1, <1>2 DEF Losses

LEMMA LossesKept ==
  ASSUME IInv, Losses, Next
  PROVE  Losses'
  <1>1. prog' = prog
    BY DEF Next
  <1>2. CASE Call /\ UNCHANGED lost
    BY <1>1, <1>2, CallTakes DEF Losses
  <1>3. ASSUME NEW t, NEW k, NodeForgotten(t, k)
        PROVE  Losses'
    BY <1>1, <1>3, ForgottenTakes DEF NodeForgotten, Losses
  <1>4. ASSUME NEW t, NEW k, PutThrows(t, k), UNCHANGED lost
        PROVE  Losses'
    BY <1>1, <1>4 DEF PutThrows, RehashAbandoned, Losses
  <1>5. CASE InsertNextThrows
    <2>1. CASE UNCHANGED <<live, lost>>
      BY <1>1, <2>1 DEF Losses
    <2>2. QED
      BY <1>3, <1>4, <1>5, <2>1 DEF InsertNextThrows
  <1>6. CASE RangeConstructThrows
    <2>1. live' \subseteq live
      BY <1>6 DEF RangeConstructThrows
    <2>2. CASE UNCHANGED lost
      BY <1>1, <2>1, <2>2 DEF Losses
    <2>3. ASSUME NEW k, Forgotten(k)
          PROVE  Losses'
      BY <1>1, <2>1, <2>3, ForgottenTakes DEF Losses
    <2>4. QED
      BY <1>6, <2>2, <2>3 DEF RangeConstructThrows
  <1>7. QED
    BY <1>2, <1>3, <1>5, <1>6 DEF Next, EmplaceThrows

LEMMA LossesInvariant ==
  ASSUME \A p \in Programs : Careful(p)
  PROVE  Spec => []Losses
  <1>1. Init => Losses
    BY DEF Init, Losses
  <1>2. IInv /\ Losses /\ [Next]_vars => Losses'
    <2>1. IInv /\ Losses /\ Next => Losses'
      BY LossesKept
    <2>2. Losses /\ UNCHANGED vars => Losses'
      BY DEF Losses, vars
    <2>3. QED
      BY <2>1, <2>2
  <1>3. QED
    BY <1>1, <1>2, Invariant, PTL DEF Spec

\* Whatever is swapped, and wherever the hash or a comparison throws, or in a
\* fixed container the allocator, every array of the heap is one table's and
\* every allocated node is in one table, but for those that emplace or an
\* insertion into a multi table had made when it threw: these no table has
\* (hashtable.h:1568-1573, 2232-2243, 2262-2266, 2299-2312, 2472, 3103-3114).
THEOREM NothingIsLost ==
  ASSUME \A p \in Programs : Careful(p)
  PROVE  Spec => []NothingLost
  <1>1. IInv /\ Losses => NothingLost
    <2>1. SUFFICES ASSUME IInv, Losses
                   PROVE  NothingLost
      OBVIOUS
    <2>2. \A t \in Tables : Holds(t) = NodesIn(mem[h[t].array])
      BY DEF Holds, Chains
    <2>3. live = UNION {NodesIn(mem[h[t].array]) : t \in Tables}
      BY <2>1 DEF IInv, Good
    <2>4. live = UNION {Holds(t) : t \in Tables}
      <3>1. ASSUME NEW x
            PROVE  x \in live <=> \E t \in Tables : x \in Holds(t)
        BY <2>2, <2>3
      <3>2. QED
        BY <3>1
    <2>5. \A t, u \in Tables : t # u => Holds(t) \cap Holds(u) = {}
      BY <2>1, <2>2 DEF IInv, Good
    <2>6. QED
      BY <2>1, <2>4, <2>5 DEF IInv, Good, NothingLost, Losses
  <1>2. QED
    BY <1>1, Invariant, LossesInvariant, PTL

\* Every node is in the bucket where a search for its key begins, however
\* often the table was rehashed, copied and moved (hashtable.h:2965-3009).
THEOREM BucketsRight ==
  ASSUME \A p \in Programs : Careful(p)
  PROVE  Spec => []InRightBucket
  <1>1. IInv => InRightBucket
    <2>1. SUFFICES ASSUME IInv, NEW t \in Tables, NEW i \in DOMAIN Chains(t), NEW x \in ToSet(Chains(t)[i])
                   PROVE  BucketIndex(KeyOf[x], h[t].n) = i
      BY DEF InRightBucket
    <2>2. /\ Len(Chains(t)) = h[t].n
          /\ \A j \in 1 .. h[t].n : \A y \in ToSet(Chains(t)[j]) : BucketIndex(KeyOf[y], h[t].n) = j
      BY <2>1 DEF IInv, Good, Chained, Chains
    <2>3. Chains(t) \in Chainings
      BY <2>1, ElementsAre
    <2>4. i \in 1 .. h[t].n
      BY <2>2, <2>3 DEF Chainings
    <2>5. QED
      BY <2>2, <2>4
  <1>2. QED
    BY <1>1, Invariant, PTL

\* A careful program never writes to the array that all tables without buckets
\* share (hashtable.cpp:24, hashtable.h:2229).
THEOREM SharedArrayUntouched ==
  ASSUME \A p \in Programs : Careful(p)
  PROVE  Spec => []EmptyArrayUntouched
  <1>1. IInv => EmptyArrayUntouched
    BY DEF IInv, Good, Sized, EmptyArrayUntouched
  <1>2. QED
    BY <1>1, Invariant, PTL

\* Careful programs see unordered containers of the nodes in the chains: a rehash,
\* inside an insertion or by itself, is invisible, and only what is erased,
\* cleared or lost to an exception goes (hashtable.h:2212-2329, 2919-3014).
THEOREM ImplementsContainer ==
  ASSUME \A p \in Programs : Careful(p)
  PROVE  Spec => C!CSpec
  <1>1. Init => C!CInit
    <2>1. SUFFICES ASSUME Init
                   PROVE  C!CInit
      OBVIOUS
    <2>2. IInv /\ live = {}
      BY <2>1, Initially DEF Init
    <2>3. \A t \in Tables : Holds(t) = {}
      BY <2>2, HoldsIs
    <2>4. Unique \in BOOLEAN
      BY <2>2, HashtableAssumption DEF IInv, Unique
    <2>5. QED
      BY <2>3, <2>4 DEF C!CInit, Contents
  <1>2. IInv /\ [Next]_vars => [C!CNext /\ UNCHANGED Unique]_<<Contents, Unique>>
    <2>1. SUFFICES ASSUME IInv, [Next]_vars
                   PROVE  [C!CNext /\ UNCHANGED Unique]_<<Contents, Unique>>
      OBVIOUS
    <2>2. Promised
      BY <2>1, Inductive, Stutters DEF Kept
    <2>3. QED
      BY <2>2 DEF Promised
  <1>3. QED
    BY <1>1, <1>2, Invariant, PTL DEF Spec, C!CSpec

-----------------------------------------------------------------------------
(* The maximum load factor. *)

\* What a program that leaves the bucket count to the policy has to observe:
\* there is a prime for all nodes at each load factor, and what it sets is at
\* most 1 or no less than the factors before.  The policy rounds the quotient
\* of elements and load factor down, so a factor above 1 that follows a larger
\* one leaves too few buckets (hashtable.cpp:130-137 and
\* 147-168, hashtable.h:1885-1896).
Provided(p) ==
  p.counts = {} /\ p.throws = {} =>
    \A a \in p.loads \cup {InitialLoad} :
      /\ \E o \in Primes : Cardinality(Nodes) * a.q <= o * a.p
      /\ \A b \in p.loads : b.p <= b.q \/ a.p * b.q <= b.p * a.q

LEMMA TimesLess ==
  ASSUME NEW a \in Nat, NEW b \in Nat, NEW k \in Nat, a <= b
  PROVE  a * k <= b * k
  OBVIOUS

LEMMA TimesCancel ==
  ASSUME NEW a \in Nat, NEW b \in Nat, NEW k \in Nat \ {0}, a * k < b * k
  PROVE  a < b
  <1>1. SUFFICES ASSUME b <= a
                 PROVE  FALSE
    OBVIOUS
  <1>2. b * k <= a * k
    BY <1>1, TimesLess
  <1>3. a * k \in Nat /\ b * k \in Nat
    OBVIOUS
  <1>4. QED
    BY <1>2, <1>3

\* The count of elements at which the policy looks again, without rounding.
LEMMA ResizeIs ==
  ASSUME NEW load \in Loads, NEW n \in Nat, NEW c \in Nat
  PROVE  c <= Resize(load, n) <=> c * load.q < n * load.p + load.q
  <1>1. PICK p \in Nat \ {0}, q \in Nat \ {0} : p = load.p /\ q = load.q
    BY DEF Loads
  <1>2. PICK z \in Nat : z = n * p
    BY <1>1
  <1>3. PICK x \in Nat : x = (z + q - 1) \div q
    BY <1>1, <1>2, DivType
  <1>4. x * q <= z + q - 1 /\ z + q - 1 < x * q + q
    <2>1. PICK y \in Nat : y = z + q - 1
      BY <1>1, <1>2
    <2>2. x = y \div q
      BY <1>3, <2>1
    <2>3. QED
      BY <1>1, <2>1, <2>2, DivType
  <1>5. Resize(load, n) = x
    BY <1>1, <1>2, <1>3 DEF Resize
  <1>6. x * q \in Nat /\ c * q \in Nat
    BY <1>1, <1>3
  <1>7. CASE c <= x
    <2>1. c * q <= x * q
      BY <1>1, <1>3, <1>7, TimesLess
    <2>2. c * q < z + q
      BY <1>1, <1>2, <1>4, <1>6, <2>1
    <2>3. QED
      BY <1>1, <1>2, <1>5, <1>7, <2>2
  <1>8. CASE ~(c <= x)
    <2>1. x + 1 <= c /\ x + 1 \in Nat
      BY <1>3, <1>8
    <2>2. (x + 1) * q <= c * q
      BY <1>1, <2>1, TimesLess
    <2>3. (x + 1) * q = x * q + q
      BY <1>1, <1>3
    <2>4. ~(c * q < z + q)
      BY <1>1, <1>2, <1>4, <1>6, <2>2, <2>3
    <2>5. QED
      BY <1>1, <1>2, <1>5, <1>8, <2>4
  <1>9. QED
    BY <1>7, <1>8

Within(load, n, c) == c * load.q < n * load.p + load.q

LEMMA WithinMore ==
  ASSUME NEW load \in Loads, NEW n \in Nat, NEW m \in Nat, NEW c \in Nat, Within(load, n, c), n <= m
  PROVE  Within(load, m, c)
  <1>1. PICK p \in Nat \ {0}, q \in Nat \ {0} : p = load.p /\ q = load.q
    BY DEF Loads
  <1>2. n * p <= m * p /\ n * p \in Nat /\ m * p \in Nat /\ c * q \in Nat
    BY <1>1, TimesLess
  <1>3. c * q < n * p + q
    BY <1>1 DEF Within
  <1>4. c * q < m * p + q
    BY <1>1, <1>2, <1>3
  <1>5. QED
    BY <1>1, <1>4 DEF Within

LEMMA WithinFewer ==
  ASSUME NEW load \in Loads, NEW n \in Nat, NEW c \in Nat, NEW d \in Nat, Within(load, n, d), c <= d
  PROVE  Within(load, n, c)
  <1>1. PICK p \in Nat \ {0}, q \in Nat \ {0} : p = load.p /\ q = load.q
    BY DEF Loads
  <1>2. c * q <= d * q /\ n * p \in Nat /\ d * q \in Nat /\ c * q \in Nat
    BY <1>1, TimesLess
  <1>3. d * q < n * p + q
    BY <1>1 DEF Within
  <1>4. c * q < n * p + q
    BY <1>1, <1>2, <1>3
  <1>5. QED
    BY <1>1, <1>4 DEF Within

\* Enough buckets for all nodes are enough.
LEMMA WithinAll ==
  ASSUME NEW load \in Loads, NEW n \in Nat, NEW o \in Nat, NEW c \in Nat, NEW d \in Nat,
         o <= n, c <= d, d * load.q <= o * load.p
  PROVE  Within(load, n, c)
  <1>1. PICK p \in Nat \ {0}, q \in Nat \ {0} : p = load.p /\ q = load.q
    BY DEF Loads
  <1>2. c * q <= d * q /\ o * p <= n * p
    BY <1>1, TimesLess
  <1>3. c * q \in Nat /\ d * q \in Nat /\ o * p \in Nat /\ n * p \in Nat
    BY <1>1
  <1>4. d * q <= o * p
    BY <1>1
  <1>5. c * q < n * p + q
    BY <1>1, <1>2, <1>3, <1>4
  <1>6. QED
    BY <1>1, <1>5 DEF Within

\* A load factor of at most 1 loses nothing to the rounding of the quotient.
LEMMA WithinQuotient ==
  ASSUME NEW load \in Loads, load.p <= load.q, NEW n \in Nat, NEW c \in Nat, (c * load.q) \div load.p <= n
  PROVE  Within(load, n, c)
  <1>1. PICK p \in Nat \ {0}, q \in Nat \ {0} : p = load.p /\ q = load.q
    BY DEF Loads
  <1>2. PICK z \in Nat : z = c * q
    BY <1>1
  <1>3. PICK x \in Nat : x = z \div p
    BY <1>1, <1>2, DivType
  <1>4. z < x * p + p
    BY <1>1, <1>2, <1>3, DivType, SMTT(30), ZenonT(30)
  <1>5. x <= n
    BY <1>1, <1>2, <1>3
  <1>6. x * p <= n * p
    BY <1>1, <1>3, <1>5, TimesLess
  <1>7. x * p \in Nat /\ n * p \in Nat /\ p <= q
    BY <1>1, <1>3
  <1>8. z < n * p + q
    BY <1>1, <1>2, <1>4, <1>6, <1>7
  <1>9. QED
    BY <1>1, <1>2, <1>8 DEF Within

\* Twice the buckets are enough for one element more, at a load factor above 1.
LEMMA WithinTwice ==
  ASSUME NEW load \in Loads, load.q <= load.p, NEW n \in Nat \ {0}, NEW m \in Nat, 2 * n <= m, NEW c \in Nat,
         Within(load, n, c)
  PROVE  Within(load, m, c + 1)
  <1>1. PICK p \in Nat \ {0}, q \in Nat \ {0} : p = load.p /\ q = load.q
    BY DEF Loads
  <1>2. c * q < n * p + q /\ q <= p
    BY <1>1 DEF Within
  <1>3. p <= n * p
    <2>1. 1 <= n /\ 1 \in Nat /\ n \in Nat /\ p \in Nat
      BY <1>1
    <2>2. 1 * p <= n * p
      BY <2>1, TimesLess
    <2>3. QED
      BY <1>1, <2>2
  <1>4. (2 * n) * p <= m * p /\ (2 * n) * p = n * p + n * p
    <2>1. 2 * n \in Nat
      OBVIOUS
    <2>2. (2 * n) * p <= m * p
      BY <1>1, <2>1, TimesLess
    <2>3. QED
      BY <1>1, <2>2
  <1>5. c * q \in Nat /\ n * p \in Nat /\ m * p \in Nat /\ (c + 1) * q = c * q + q
    BY <1>1
  <1>6. (c + 1) * q < m * p + q
    BY <1>1, <1>2, <1>3, <1>4, <1>5
  <1>7. QED
    BY <1>1, <1>6 DEF Within

\* What is within a load factor is within a larger one.
LEMMA WithinLarger ==
  ASSUME NEW a \in Loads, NEW b \in Loads, a.p * b.q <= b.p * a.q, NEW n \in Nat, NEW c \in Nat, Within(a, n, c)
  PROVE  Within(b, n, c)
  <1>1. PICK p \in Nat \ {0}, q \in Nat \ {0}, r \in Nat \ {0}, s \in Nat \ {0} :
           p = a.p /\ q = a.q /\ r = b.p /\ s = b.q
    BY DEF Loads
  <1>2. c * q < n * p + q /\ p * s <= r * q
    BY <1>1 DEF Within
  <1>3. PICK x \in Nat, y \in Nat, u \in Nat, w \in Nat :
           x = c * q /\ y = n * p /\ u = c * s /\ w = n * r
    <2>1. c * q \in Nat /\ n * p \in Nat /\ c * s \in Nat /\ n * r \in Nat
      BY <1>1
    <2>2. QED
      BY <2>1
  <1>4. (x + 1) * s <= (y + q) * s
    <2>1. x + 1 <= y + q /\ x + 1 \in Nat /\ y + q \in Nat
      BY <1>1, <1>2, <1>3
    <2>2. QED
      BY <1>1, <2>1, TimesLess
  <1>5. y * s <= w * q
    <2>1. PICK d \in Nat, e \in Nat : d = p * s /\ e = r * q
      BY <1>1
    <2>2. d * n <= e * n
      BY <1>2, <2>1, TimesLess
    <2>3. y * s = d * n /\ w * q = e * n
      BY <1>1, <1>3, <2>1
    <2>4. QED
      BY <2>2, <2>3
  <1>6. x * s = u * q
    BY <1>1, <1>3
  <1>7. u * q < (w + s) * q
    <2>1. (x + 1) * s = x * s + s /\ (y + q) * s = y * s + q * s /\ (w + s) * q = w * q + s * q
      BY <1>1, <1>3
    <2>2. x * s \in Nat /\ y * s \in Nat /\ w * q \in Nat /\ q * s = s * q /\ q * s \in Nat /\ s > 0
      BY <1>1, <1>3
    <2>3. QED
      BY <1>1, <1>4, <1>5, <1>6, <2>1, <2>2
  <1>8. u < w + s
    <2>1. w + s \in Nat
      BY <1>1, <1>3
    <2>2. QED
      BY <1>1, <1>3, <1>7, <2>1, TimesCancel
  <1>9. QED
    BY <1>1, <1>3, <1>8 DEF Within

-----------------------------------------------------------------------------
(* What the policy keeps to. *)
Factors == prog.loads \cup {InitialLoad}
Policied == LeftToPolicy /\ Provided(prog)

\* A table with buckets is within its maximum load factor, and looks again no
\* later than it has to.
Bounded(r) == r.n > 1 => Within(r.load, r.n, r.count) /\ Within(r.load, r.n, r.next)
Limited(r) == r.load \in Factors /\ (Policied => Bounded(r))

LInv == \A t \in Tables : Limited(h[t])

LEMMA WithinResize ==
  ASSUME NEW load \in Loads, NEW n \in Nat, NEW c, c = Resize(load, n)
  PROVE  Within(load, n, c) /\ c \in Nat
  <1>1. c \in Nat
    BY ResizeType
  <1>2. QED
    BY <1>1, ResizeIs DEF Within

\* A decision not to move leaves room for what is to come, and one to move
\* leaves it for what is there, and for one element more.
LEMMA DecisionWithin ==
  ASSUME NEW load \in Loads, NEW next \in Nat, NEW n \in Nat \ {0}, NEW count \in Nat, NEW add \in Nat,
         n > 1 => Within(load, n, count) /\ Within(load, n, next),
         n < 2 => count = 0,
         NEW top \in Nat, count <= top, \E o \in Primes : top * load.q <= o * load.p,
         NEW d, d = GetRehashRequired(load, next, n, count, add)
  PROVE  /\ d.n = 0 /\ n > 1 => Within(load, n, d.next) /\ Within(load, n, count + add)
         /\ d.n # 0 => Within(load, d.n, d.next) /\ Within(load, d.n, count)
         /\ d.n # 0 /\ add = 1 /\ count + 1 <= top => Within(load, d.n, count + 1)
  <1> DEFINE need == count + add
             have == IF n = 1 THEN 0 ELSE n
             quotient == (need * load.q) \div load.p
             prime == LowerBound(Max({quotient, 2 * have}))
  <1>1. load.p \in Nat \ {0} /\ load.q \in Nat \ {0}
    BY DEF Loads
  <1>2. need \in Nat /\ have \in Nat /\ 2 * have \in Nat /\ need * load.q \in Nat /\ have * load.p \in Nat
    BY <1>1
  <1>3. quotient \in Nat
    BY <1>1, <1>2, DivType, SMTT(30), ZenonT(30)
  <1>4. prime \in Primes /\ ((prime >= quotient /\ prime >= 2 * have) \/ \A o \in Primes : prime >= o)
    <2>1. PICK a \in Nat, b \in Nat : a = quotient /\ b = 2 * have
      BY <1>2, <1>3
    <2> HIDE DEF quotient, have
    <2>2. prime = LowerBound(Max({a, b}))
      BY <2>1
    <2>3. QED
      BY <2>1, <2>2, PrimeIs
  <1>5. prime \in Nat \ {0, 1}
    BY <1>4, HashtableAssumption
  <1>6. d = IF need <= next THEN [n |-> 0, next |-> next]
            ELSE IF need * load.q > have * load.p
                 THEN [n |-> prime, next |-> Resize(load, prime)]
                 ELSE [n |-> 0, next |-> Resize(load, have)]
    BY DEF GetRehashRequired
  <1>7. n > 1 => have = n
    OBVIOUS
  <1> HIDE DEF prime
  <1>8. CASE need <= next
    <2>1. d.n = 0 /\ d.next = next
      BY <1>6, <1>8
    <2>2. n > 1 => Within(load, n, need)
      BY <1>2, <1>8, WithinFewer
    <2>3. QED
      BY <2>1, <2>2
  <1>9. CASE ~(need <= next) /\ ~(need * load.q > have * load.p)
    <2>1. d.n = 0 /\ d.next = Resize(load, have)
      BY <1>6, <1>9
    <2>2. ASSUME n > 1
          PROVE  Within(load, n, d.next) /\ Within(load, n, need)
      <3>1. have = n
        BY <2>2, <1>7
      <3>2. Within(load, n, d.next)
        BY <2>1, <3>1, WithinResize
      <3>3. need * load.q <= n * load.p /\ n * load.p \in Nat
        BY <1>1, <1>2, <1>9, <3>1
      <3>4. need * load.q < n * load.p + load.q
        BY <1>1, <1>2, <3>3
      <3>5. QED
        BY <3>2, <3>4 DEF Within
    <2>3. QED
      BY <2>1, <2>2
  <1>10. CASE ~(need <= next) /\ need * load.q > have * load.p
    <2>1. d.n = prime /\ d.next = Resize(load, prime) /\ prime # 0
      BY <1>5, <1>6, <1>10
    <2>2. Within(load, prime, d.next)
      BY <1>5, <2>1, WithinResize
    <2>3. PICK o \in Primes : top * load.q <= o * load.p
      OBVIOUS
    <2>4. o \in Nat
      BY HashtableAssumption
    <2>5. CASE \A b \in Primes : prime >= b
      <3>1. o <= prime
        BY <1>5, <2>4, <2>5
      <3>2. Within(load, prime, count)
        BY <1>5, <2>3, <2>4, <3>1, WithinAll
      <3>3. count + 1 <= top => Within(load, prime, count + 1)
        <4>1. PICK more \in Nat : more = count + 1
          OBVIOUS
        <4>2. more <= top => Within(load, prime, more)
          BY <1>5, <2>3, <2>4, <3>1, WithinAll
        <4>3. QED
          BY <4>1, <4>2
      <3>4. QED
        BY <2>1, <2>2, <3>2, <3>3
    <2>6. CASE prime >= quotient /\ prime >= 2 * have
      <3>1. CASE n < 2
        <4>1. count = 0 /\ prime * load.p \in Nat
          BY <1>1, <1>5, <3>1
        <4>2. prime * load.p > 0
          <5>1. PICK p \in Nat \ {0} : p = load.p
            BY <1>1
          <5>2. 1 \in Nat /\ 1 <= prime /\ prime \in Nat
            BY <1>5
          <5>3. 1 * p <= prime * p
            BY <5>1, <5>2, TimesLess
          <5>4. 1 * p = p /\ p > 0 /\ prime * p \in Nat
            BY <1>5, <5>1
          <5>5. QED
            BY <5>1, <5>3, <5>4
        <4>3. 0 * load.q = 0 /\ (0 + 1) * load.q = load.q
          BY <1>1
        <4>4. Within(load, prime, 0) /\ Within(load, prime, 0 + 1)
          BY <1>1, <4>1, <4>2, <4>3 DEF Within
        <4>5. QED
          BY <2>1, <2>2, <4>1, <4>4
      <3>2. CASE n > 1
        <4>1. have = n /\ n <= prime /\ 2 * n <= prime
          BY <1>5, <1>7, <2>6, <3>2
        <4>2. Within(load, prime, count)
          BY <1>5, <3>2, <4>1, WithinMore
        <4>3. ASSUME add = 1
              PROVE  Within(load, prime, count + 1)
          <5>1. CASE load.p <= load.q
            <6>1. PICK c \in Nat : c = count + 1
              OBVIOUS
            <6>2. (c * load.q) \div load.p <= prime
              BY <1>3, <1>5, <2>6, <4>3, <6>1
            <6>3. Within(load, prime, c)
              BY <1>5, <5>1, <6>2, WithinQuotient
            <6>4. QED
              BY <6>1, <6>3
          <5>2. CASE ~(load.p <= load.q)
            <6>1. load.q <= load.p
              BY <1>1, <5>2
            <6>2. QED
              BY <1>5, <3>2, <4>1, <6>1, WithinTwice
          <5>3. QED
            BY <5>1, <5>2
        <4>4. QED
          BY <2>1, <2>2, <4>2, <4>3
      <3>3. QED
        BY <3>1, <3>2
    <2>7. QED
      BY <1>4, <2>5, <2>6
  <1>11. QED
    BY <1>8, <1>9, <1>10

LEMMA CountFits ==
  ASSUME IInv, NEW t \in Tables, NEW s, Valid(t, s)
  PROVE  s.r.count \in Nat /\ Cardinality(Nodes) \in Nat /\ s.r.count <= Cardinality(Nodes)
  <1>1. Held(s) \subseteq prog.nodes /\ s.r.count = Cardinality(Held(s)) /\ s.r.count \in Nat
    BY HeldFinite
  <1>2. prog.nodes \subseteq Nodes /\ IsFiniteSet(Nodes)
    BY ProgramIs, HashtableAssumption
  <1>3. QED
    BY <1>1, <1>2, FS_Subset, FS_CardinalityType

\* Room that is made is within the limit, with one element more if it is made
\* for one.
LEMMA GrownWithin ==
  ASSUME IInv, NEW t \in Tables, NEW s, Valid(t, s), Asked(s.r), Limited(s.r), NEW add \in Nat,
         NEW u, u = Grown(s, t, add)
  PROVE  /\ Limited(u.r)
         /\ Policied /\ add = 1 /\ s.r.count + 1 <= Cardinality(Nodes) => Within(u.r.load, u.r.n, s.r.count + 1)
  <1>1. /\ u.r.n = IF Decision(s, add).n = 0 THEN s.r.n ELSE Decision(s, add).n
        /\ u.r.next = Decision(s, add).next /\ u.r.load = s.r.load /\ u.r.count = s.r.count
        /\ (add # 0 => u.r.n >= 2)
    BY GrownIs
  <1>2. /\ s.r.load \in Loads /\ s.r.next \in Nat /\ s.r.n \in Nat \ {0} /\ s.r.count \in Nat
    BY DEF Valid, Sized
  <1>3. PICK load \in Loads, next \in Nat, n \in Nat \ {0}, count \in Nat :
           load = s.r.load /\ next = s.r.next /\ n = s.r.n /\ count = s.r.count
    BY <1>2
  <1>4. PICK d : d = GetRehashRequired(load, next, n, count, add)
    OBVIOUS
  <1>5. u.r.n = (IF d.n = 0 THEN n ELSE d.n) /\ u.r.next = d.next /\ u.r.load = load /\ u.r.count = count
    BY <1>1, <1>3, <1>4 DEF Decision
  <1>6. load \in Factors /\ (Policied => Bounded(s.r))
    BY <1>3 DEF Limited
  <1>7. ASSUME Policied
        PROVE  Bounded(u.r) /\ (add = 1 /\ count + 1 <= Cardinality(Nodes) => Within(load, u.r.n, count + 1))
    <2>1. n > 1 => Within(load, n, count) /\ Within(load, n, next)
      BY <1>3, <1>6, <1>7 DEF Bounded
    <2>2. n < 2 => count = 0
      BY <1>3, NoNodesInEmpty
    <2>3. PICK top \in Nat : top = Cardinality(Nodes) /\ count <= top
      BY <1>3, CountFits
    <2>4. \E o \in Primes : top * load.q <= o * load.p
      BY <1>6, <1>7, <2>3 DEF Policied, LeftToPolicy, Provided, Factors
    <2>5. /\ d.n = 0 /\ n > 1 => Within(load, n, d.next) /\ Within(load, n, count + add)
          /\ d.n # 0 => Within(load, d.n, d.next) /\ Within(load, d.n, count)
          /\ d.n # 0 /\ add = 1 /\ count + 1 <= top => Within(load, d.n, count + 1)
      <3>1. d.n = 0 /\ n > 1 => Within(load, n, d.next) /\ Within(load, n, count + add)
        BY <1>4, <2>1, <2>2, <2>3, <2>4, DecisionWithin
      <3>2. d.n # 0 => Within(load, d.n, d.next) /\ Within(load, d.n, count)
        BY <1>4, <2>1, <2>2, <2>3, <2>4, DecisionWithin
      <3>3. d.n # 0 /\ add = 1 /\ count + 1 <= top => Within(load, d.n, count + 1)
        BY <1>4, <2>1, <2>2, <2>3, <2>4, DecisionWithin
      <3>4. QED
        BY <3>1, <3>2, <3>3
    <2>6. CASE d.n = 0
      <3>1. u.r.n = n
        BY <1>5, <2>6
      <3>2. add # 0 => n > 1
        BY <1>1, <3>1
      <3>3. Bounded(u.r)
        BY <1>5, <2>1, <2>5, <2>6, <3>1 DEF Bounded
      <3>4. QED
        BY <2>5, <2>6, <3>1, <3>2, <3>3
    <2>7. CASE d.n # 0
      <3>1. u.r.n = d.n
        BY <1>5, <2>7
      <3>2. QED
        BY <1>5, <2>3, <2>5, <2>7, <3>1 DEF Bounded
    <2>8. QED
      BY <2>6, <2>7
  <1>8. Limited(u.r)
    BY <1>5, <1>6, <1>7 DEF Limited
  <1>9. QED
    BY <1>3, <1>5, <1>7, <1>8

\* A table becomes one within the limit.
LEMMA Sets ==
  ASSUME IInv, LInv, prog' = prog, NEW t \in Tables, NEW s, Becomes(t, s), Limited(s.r)
  PROVE  LInv'
  <1>1. DOMAIN h = Tables
    BY DEF IInv, Good
  <1>2. \A v \in Tables : h'[v] = IF v = t THEN s.r ELSE h[v]
    BY <1>1 DEF Becomes
  <1>3. \A v \in Tables : Limited(h'[v])
    BY <1>2 DEF LInv
  <1>4. Policied' = Policied /\ Factors' = Factors
    BY DEF Policied, LeftToPolicy, Provided, Factors
  <1>5. QED
    BY <1>3, <1>4 DEF LInv, Limited, Bounded, Within

\* What only takes elements away keeps the limit, and so does what is no concern
\* of the policy.
LEMMA Lessens ==
  ASSUME NEW t \in Tables, NEW s, Valid(t, s), Limited(s.r),
         NEW r, r.load = s.r.load, r.n = s.r.n, r.next = s.r.next, r.count \in Nat, r.count <= s.r.count
  PROVE  Limited(r)
  <1>1. s.r.load \in Loads /\ s.r.n \in Nat \ {0} /\ s.r.count \in Nat
    BY DEF Valid, Sized
  <1>2. PICK load \in Loads, n \in Nat, d \in Nat, c \in Nat : load = s.r.load /\ n = s.r.n /\ d = s.r.count /\ c = r.count
    BY <1>1
  <1>3. Within(load, n, d) => Within(load, n, c)
    BY <1>2, WithinFewer
  <1>4. Bounded(s.r) => Bounded(r)
    BY <1>2, <1>3 DEF Bounded
  <1>5. QED
    BY <1>4 DEF Limited

LEMMA StateLimited ==
  ASSUME IInv, LInv, NEW t \in Tables, NEW s, s = State(t)
  PROVE  Valid(t, s) /\ Asked(s.r) /\ Limited(s.r) /\ s.r = h[t] /\ Held(s) = Holds(t)
  BY StateIsValid, StateFields DEF State, LInv

LEMMA WithinNone ==
  ASSUME NEW load \in Loads, NEW n \in Nat
  PROVE  Within(load, n, 0)
  <1>1. PICK p \in Nat \ {0}, q \in Nat \ {0} : p = load.p /\ q = load.q
    BY DEF Loads
  <1>2. n * p \in Nat /\ 0 * q = 0
    BY <1>1
  <1>3. 0 * q < n * p + q
    BY <1>1, <1>2
  <1>4. QED
    BY <1>1, <1>3 DEF Within

LEMMA FactorsAre ==
  ASSUME IInv
  PROVE  Factors \subseteq Loads
  BY ProgramIs, HashtableAssumption DEF Factors

\* A new table: no elements, and the policy asks when the factor says so or at once.
LEMMA NewLimited ==
  ASSUME IInv, NEW load \in Factors, NEW r, NEW n \in Nat, r.load = load, r.n = n, r.count = 0,
         r.next = 0 \/ r.next = Resize(load, n)
  PROVE  Limited(r)
  <1>1. load \in Loads
    BY FactorsAre
  <1>2. Within(load, n, 0) /\ Within(load, n, Resize(load, n))
    BY <1>1, WithinNone, WithinResize
  <1>3. QED
    BY <1>2 DEF Limited, Bounded

\* A program that does not leave the bucket count to the policy has no limit.
LEMMA Unlimited ==
  ASSUME IInv, LInv, prog' = prog, ~LeftToPolicy, NEW t \in Tables, NEW s, Becomes(t, s), s.r.load \in Factors
  PROVE  LInv'
  <1>1. Limited(s.r)
    BY DEF Limited, Policied
  <1>2. QED
    BY <1>1, Sets

LEMMA SameLimits ==
  ASSUME LInv, prog' = prog, h' = h
  PROVE  LInv'
  BY DEF LInv, Limited, Bounded, Within, Factors, Policied, LeftToPolicy, Provided

-----------------------------------------------------------------------------
(* The limit is kept by every action. *)
LEMMA PutLimits ==
  ASSUME IInv, LInv, prog' = prog, NEW t \in Tables, NEW k, Put(t, k)
  PROVE  LInv'
  <1>1. PICK x \in FreeNodes(k) : Becomes(t, Added(Grown(State(t), t, 1), x))
    BY DEF Put
  <1>2. x \in prog.nodes /\ x \notin live
    BY <1>1 DEF FreeNodes, Unused
  <1>3. PICK s : s = State(t)
    OBVIOUS
  <1>4. Valid(t, s) /\ Held(s) = Holds(t) /\ Asked(s.r) /\ Limited(s.r)
    BY <1>3, StateLimited
  <1>5. PICK one \in Nat : one = 1
    OBVIOUS
  <1>6. PICK g : g = Grown(s, t, one)
    OBVIOUS
  <1>7. /\ Valid(t, g) /\ Held(g) = Held(s) /\ g.r.n >= 2 /\ g.r.count = s.r.count
    <2>1. Valid(t, g) /\ Held(g) = Held(s) /\ (one # 0 => g.r.n >= 2) /\ g.r.count = s.r.count
      BY <1>4, <1>6, GrownIs
    <2>2. QED
      BY <1>5, <2>1
  <1>8. /\ Limited(g.r)
        /\ Policied /\ one = 1 /\ s.r.count + 1 <= Cardinality(Nodes) => Within(g.r.load, g.r.n, s.r.count + 1)
    BY <1>4, <1>6, GrownWithin
  <1>9. PICK u : u = Added(g, x)
    OBVIOUS
  <1>10. x \notin Held(g)
    BY <1>2, <1>4, <1>7, HoldsIs
  <1>11. /\ Valid(t, u) /\ u.r.n = g.r.n /\ u.r.next = g.r.next /\ u.r.load = g.r.load
         /\ u.r.count = g.r.count + 1
    BY <1>2, <1>7, <1>9, <1>10, AddedIs
  <1>12. u.r.count <= Cardinality(Nodes)
    BY <1>11, CountFits
  <1>13. Policied => Within(u.r.load, u.r.n, u.r.count)
    BY <1>5, <1>7, <1>8, <1>11, <1>12
  <1>14. Limited(u.r)
    BY <1>8, <1>11, <1>13 DEF Limited, Bounded
  <1>15. Becomes(t, u)
    BY <1>1, <1>3, <1>5, <1>6, <1>9
  <1>16. QED
    BY <1>14, <1>15, Sets

LEMMA GrownLimits ==
  ASSUME IInv, LInv, prog' = prog, NEW t \in Tables, NEW s, Valid(t, s), Asked(s.r), Limited(s.r), NEW add \in Nat,
         Becomes(t, Grown(s, t, add))
  PROVE  LInv'
  <1>1. PICK g : g = Grown(s, t, add)
    OBVIOUS
  <1>2. Limited(g.r)
    BY <1>1, GrownWithin
  <1>3. QED
    BY <1>1, <1>2, Sets

LEMMA AbandonedLimits ==
  ASSUME IInv, LInv, prog' = prog, NEW t \in Tables, NEW s, Valid(t, s), s.r.load \in Factors, RehashAbandoned(t, s)
  PROVE  LInv'
  <1>1. PICK u : u = Cleared(s)
    OBVIOUS
  <1>2. u.r.load = s.r.load
    BY <1>1, ClearedIs
  <1>3. ~LeftToPolicy /\ Becomes(t, u)
    BY <1>1 DEF RehashAbandoned, LeftToPolicy
  <1>4. QED
    BY <1>2, <1>3, Unlimited

LEMMA DecidedLoad ==
  ASSUME IInv, NEW t \in Tables, NEW s, Valid(t, s), NEW add \in Nat, NEW u, u = Decided(s, add)
  PROVE  Valid(t, u) /\ u.r.load = s.r.load
  <1>1. s.r.load \in Loads /\ s.r.next \in Nat /\ s.r.n \in Nat \ {0} /\ s.r.count \in Nat
    BY DEF Valid, Sized
  <1>2. PICK load \in Loads, next \in Nat, n \in Nat \ {0}, count \in Nat :
           load = s.r.load /\ next = s.r.next /\ n = s.r.n /\ count = s.r.count
    BY <1>1
  <1>3. PICK d : d = GetRehashRequired(load, next, n, count, add)
    OBVIOUS
  <1>4. d.next \in Nat
    BY <1>3, DecisionIs
  <1>5. PICK to \in Nat : to = d.next
    BY <1>4
  <1>6. u = WithNext(s, to)
    BY <1>2, <1>3, <1>5 DEF Decided, Decision
  <1>7. QED
    BY <1>6, WithNextIs

\* What a step that throws leaves of a decision to move.
LEMMA ThrowsLimits ==
  ASSUME IInv, LInv, prog' = prog, NEW t \in Tables, NEW add \in Nat,
         \/ "alloc" \in prog.throws /\ DecisionLost(t, State(t), add)
         \/ RehashAbandoned(t, Decided(State(t), add))
  PROVE  LInv'
  <1>1. PICK s : s = State(t)
    OBVIOUS
  <1>2. Valid(t, s) /\ s.r.load \in Factors
    BY <1>1, StateLimited DEF Limited
  <1>3. PICK u : u = Decided(s, add)
    OBVIOUS
  <1>4. Valid(t, u) /\ u.r.load \in Factors
    BY <1>2, <1>3, DecidedLoad
  <1>5. CASE "alloc" \in prog.throws /\ DecisionLost(t, State(t), add)
    <2>1. ~LeftToPolicy /\ Becomes(t, u)
      BY <1>1, <1>3, <1>5 DEF LeftToPolicy, DecisionLost
    <2>2. QED
      BY <1>4, <2>1, Unlimited
  <1>6. CASE RehashAbandoned(t, Decided(State(t), add))
    BY <1>1, <1>3, <1>4, <1>6, AbandonedLimits
  <1>7. QED
    BY <1>5, <1>6

LEMMA PutThrowsLimits ==
  ASSUME IInv, LInv, prog' = prog, NEW t \in Tables, NEW k, PutThrows(t, k)
  PROVE  LInv'
  <1>1. PICK one \in Nat : one = 1
    OBVIOUS
  <1>2. CASE \/ "alloc" \in prog.throws /\ DecisionLost(t, State(t), one)
             \/ RehashAbandoned(t, Decided(State(t), one))
    BY <1>2, ThrowsLimits
  <1>3. CASE Becomes(t, Grown(State(t), t, one))
    <2>1. PICK s : s = State(t)
      OBVIOUS
    <2>2. Valid(t, s) /\ Asked(s.r) /\ Limited(s.r)
      BY <2>1, StateLimited
    <2>3. QED
      BY <1>3, <2>1, <2>2, GrownLimits
  <1>4. QED
    BY <1>1, <1>2, <1>3 DEF PutThrows, NodeLost

LEMMA ForgottenLimits ==
  ASSUME IInv, LInv, prog' = prog, NEW t \in Tables, NEW k, NodeForgotten(t, k)
  PROVE  LInv'
  <1>1. PICK one \in Nat : one = 1
    OBVIOUS
  <1>2. PICK s : s = State(t)
    OBVIOUS
  <1>3. Valid(t, s) /\ Asked(s.r) /\ Limited(s.r)
    BY <1>2, StateLimited
  <1>4. CASE Becomes(t, s)
    BY <1>3, <1>4, Sets
  <1>5. CASE Becomes(t, Grown(s, t, one))
    BY <1>3, <1>5, GrownLimits
  <1>6. QED
    BY <1>1, <1>2, <1>4, <1>5 DEF NodeForgotten

LEMMA InsertRangeThrowsLimits ==
  ASSUME IInv, LInv, prog' = prog, NEW t \in Tables, NEW keys \in prog.ranges, InsertRangeThrows(t, keys)
  PROVE  LInv'
  <1>1. PICK add \in Nat : add = Len(keys)
    BY ProgramIs
  <1>2. \/ "alloc" \in prog.throws /\ DecisionLost(t, State(t), add)
        \/ RehashAbandoned(t, Decided(State(t), add))
    BY <1>1 DEF InsertRangeThrows
  <1>3. QED
    BY <1>2, ThrowsLimits

LEMMA InsertNextLimits ==
  ASSUME IInv, LInv, prog' = prog, InsertNext
  PROVE  LInv'
  <1>1. PICK t : t = work.table
    OBVIOUS
  <1>2. t \in Tables
    BY <1>1, ProgramIs DEF IInv, Working, InsertNext
  <1>3. PICK k : k = Head(work.keys)
    OBVIOUS
  <1>4. CASE Put(t, k)
    BY <1>2, <1>4, PutLimits
  <1>5. CASE h' = h
    BY <1>5, SameLimits
  <1>6. QED
    BY <1>1, <1>3, <1>4, <1>5 DEF InsertNext

LEMMA InsertNextThrowsLimits ==
  ASSUME IInv, LInv, prog' = prog, InsertNextThrows
  PROVE  LInv'
  <1>1. PICK t : t = work.table
    OBVIOUS
  <1>2. t \in Tables
    BY <1>1, ProgramIs DEF IInv, Working, InsertNextThrows
  <1>3. PICK k : k = Head(work.keys)
    OBVIOUS
  <1>4. CASE h' = h
    BY <1>4, SameLimits
  <1>5. CASE PutThrows(t, k)
    BY <1>2, <1>5, PutThrowsLimits
  <1>6. CASE NodeForgotten(t, k)
    BY <1>2, <1>6, ForgottenLimits
  <1>7. QED
    BY <1>1, <1>3, <1>4, <1>5, <1>6 DEF InsertNextThrows

LEMMA RangeConstructThrowsLimits ==
  ASSUME IInv, LInv, prog' = prog, RangeConstructThrows
  PROVE  LInv'
  <1>1. PICK t : t = work.table
    OBVIOUS
  <1>2. t \in Tables /\ ~LeftToPolicy
    BY <1>1, ProgramIs DEF IInv, Working, RangeConstructThrows, LeftToPolicy
  <1>3. PICK s : s = StateOf(EmptyTable, Destroyed(State(t)))
    OBVIOUS
  <1>4. s.r.load \in Factors
    BY <1>3, StateFields, TableFields DEF EmptyTable, EmptyTableOf, Factors
  <1>5. Becomes(t, s)
    BY <1>1, <1>3 DEF RangeConstructThrows
  <1>6. QED
    BY <1>2, <1>4, <1>5, Unlimited

LEMMA BeginRangeLimits ==
  ASSUME IInv, LInv, prog' = prog, NEW t \in Tables, NEW s, Valid(t, s), Asked(s.r), Limited(s.r),
         NEW keys \in Seq(Keys), BeginRange(t, s, keys)
  PROVE  LInv'
  <1>1. PICK n \in Nat : n = Len(keys)
    OBVIOUS
  <1>2. Becomes(t, Grown(s, t, n))
    BY <1>1 DEF BeginRange
  <1>3. QED
    BY <1>2, GrownLimits

LEMMA EraseNodesLimits ==
  ASSUME IInv, LInv, prog' = prog, NEW t \in Tables, NEW S, S \subseteq Holds(t), EraseNodes(t, S)
  PROVE  LInv'
  <1>1. PICK s : s = State(t)
    OBVIOUS
  <1>2. Valid(t, s) /\ Limited(s.r) /\ Held(s) = Holds(t)
    BY <1>1, StateLimited
  <1>3. PICK u : u = Without(s, S)
    OBVIOUS
  <1>4. Valid(t, u) /\ u.r.n = s.r.n /\ u.r.next = s.r.next /\ u.r.load = s.r.load /\ u.r.count <= s.r.count
    BY <1>2, <1>3, WithoutIs
  <1>5. u.r.count \in Nat
    BY <1>4, CountFits
  <1>6. PICK r : r = u.r
    OBVIOUS
  <1>7. Limited(r)
    BY <1>2, <1>4, <1>5, <1>6, Lessens
  <1>8. Becomes(t, u)
    BY <1>1, <1>3 DEF EraseNodes
  <1>9. QED
    BY <1>6, <1>7, <1>8, Sets

LEMMA ClearedLimits ==
  ASSUME IInv, LInv, NEW t \in Tables, NEW u, u = Cleared(State(t))
  PROVE  Valid(t, u) /\ Asked(u.r) /\ Limited(u.r)
  <1>1. PICK s : s = State(t)
    OBVIOUS
  <1>2. Valid(t, s) /\ Limited(s.r)
    BY <1>1, StateLimited
  <1>3. u.r.n = s.r.n /\ u.r.next = s.r.next /\ u.r.load = s.r.load /\ u.r.count = 0
    BY <1>1, <1>2, ClearedIs
  <1>4. s.r.count \in Nat
    BY <1>2, CountFits
  <1>5. PICK r : r = u.r
    OBVIOUS
  <1>6. Limited(r)
    <2>1. r.load = s.r.load /\ r.n = s.r.n /\ r.next = s.r.next /\ r.count \in Nat /\ r.count <= s.r.count
      BY <1>3, <1>4, <1>5
    <2>2. QED
      BY <1>2, <2>1, Lessens
  <1>7. QED
    BY <1>5, <1>6, ClearedState

LEMMA ClearBucketsLimits ==
  ASSUME IInv, LInv, prog' = prog, Careful(prog), NEW t \in Tables, NEW free \in prog.clears, ClearBuckets(t, free)
  PROVE  LInv'
  <1>1. CASE free
    <2>1. PICK m : m = Destroyed(State(t))
      OBVIOUS
    <2>2. PICK r, u : r = Reset(t) /\ u = StateOf(r, m)
      OBVIOUS
    <2>3. PICK load \in Factors : load = h[t].load
      BY DEF LInv, Limited
    <2>4. r = Table(NewTable(t).array, NewTable(t).n, 0, load, 0) /\ Vacated(t, m) /\ load \in Loads
      BY <2>1, <2>2, <2>3, DestroyedIs, FactorsAre DEF Reset
    <2>5. Valid(t, u) /\ u.r = r
      BY <2>2, <2>4, FreshIs, StateFields
    <2>6. PICK n \in Nat : n = r.n
      BY <2>5 DEF Valid, Sized
    <2>7. r.load = load /\ r.count = 0 /\ r.next = 0
      BY <2>4, TableFields
    <2>8. Limited(r)
      BY <2>6, <2>7, NewLimited
    <2>9. Becomes(t, u)
      BY <1>1, <2>1, <2>2 DEF ClearBuckets
    <2>10. QED
      BY <2>5, <2>8, <2>9, Sets
  <1>2. CASE ~free
    <2>1. ~Fixed
      BY <1>2 DEF Careful, Fixed
    <2>2. PICK u : u = Cleared(State(t))
      OBVIOUS
    <2>3. Limited(u.r)
      BY <2>2, ClearedLimits
    <2>4. Becomes(t, u)
      BY <1>2, <2>1, <2>2 DEF ClearBuckets
    <2>5. QED
      BY <2>3, <2>4, Sets
  <1>3. QED
    BY <1>1, <1>2

LEMMA RehashedFields ==
  ASSUME NEW s, NEW t, NEW n, NEW u, u = Rehashed(s, t, n)
  PROVE  u.r.n = n /\ u.r.count = s.r.count /\ u.r.load = s.r.load /\ u.r.next = s.r.next
  <1>1. u.r = Moved(s.r, Placed(s.m, t, n), n)
    BY StateFields DEF Rehashed
  <1>2. QED
    BY <1>1, TableFields DEF Moved

\* Who rehashes by hand does not leave the bucket count to the policy.
LEMMA rehashLimits ==
  ASSUME IInv, LInv, prog' = prog, NEW t \in Tables, NEW n \in prog.counts, rehash(t, n)
  PROVE  LInv'
  <1>1. ~LeftToPolicy
    BY DEF LeftToPolicy
  <1>2. PICK s : s = State(t)
    OBVIOUS
  <1>3. Valid(t, s) /\ s.r.load \in Factors
    BY <1>2, StateLimited DEF Limited
  <1>4. CASE Becomes(t, Rehashed(s, t, n))
    <2>1. PICK u : u = Rehashed(s, t, n)
      OBVIOUS
    <2>2. u.r.load \in Factors
      BY <1>3, <2>1, RehashedFields
    <2>3. QED
      BY <1>1, <1>4, <2>1, <2>2, Unlimited
  <1>5. CASE RehashAbandoned(t, s)
    BY <1>3, <1>5, AbandonedLimits
  <1>6. QED
    BY <1>2, <1>4, <1>5 DEF rehash

LEMMA reserveLimits ==
  ASSUME IInv, LInv, prog' = prog, NEW t \in Tables, NEW count \in prog.counts, reserve(t, count)
  PROVE  LInv'
  <1>1. ~LeftToPolicy /\ count \in Nat
    BY ProgramIs DEF LeftToPolicy
  <1>2. PICK load \in Loads : load = h[t].load
    BY DEF IInv, Good, Sized
  <1>3. PICK n : n = GetBucketCount(load, count)
    OBVIOUS
  <1>4. n \in Nat \ {0, 1}
    BY <1>1, <1>3, BucketCountType, HashtableAssumption
  <1>5. PICK next \in Nat : next = Resize(load, n)
    BY <1>4, ResizeType
  <1>6. PICK old, s : old = State(t) /\ s = WithNext(old, next)
    OBVIOUS
  <1>7. Valid(t, s) /\ s.r.load \in Factors
    <2>1. Valid(t, old) /\ old.r.load \in Factors
      BY <1>6, StateLimited DEF Limited
    <2>2. QED
      BY <1>6, <2>1, WithNextIs
  <1>8. CASE Becomes(t, s)
    BY <1>1, <1>7, <1>8, Unlimited
  <1>9. CASE Becomes(t, Rehashed(s, t, n))
    <2>1. PICK u : u = Rehashed(s, t, n)
      OBVIOUS
    <2>2. u.r.load \in Factors
      BY <1>7, <2>1, RehashedFields
    <2>3. QED
      BY <1>1, <1>9, <2>1, <2>2, Unlimited
  <1>10. CASE RehashAbandoned(t, s)
    BY <1>7, <1>10, AbandonedLimits
  <1>11. QED
    BY <1>2, <1>3, <1>5, <1>6, <1>8, <1>9, <1>10 DEF reserve

\* A new load factor: of 1 or less, the policy moves to what it needs; a larger
\* one allows what the old one did.
LEMMA FactorWithin ==
  ASSUME NEW old \in Loads, NEW load \in Loads, NEW have \in Nat \ {0}, NEW count \in Nat, NEW top \in Nat,
         count <= top, \E o \in Primes : top * load.q <= o * load.p,
         load.p <= load.q \/ old.p * load.q <= load.p * old.q,
         have > 1 => Within(old, have, count), have < 2 => count = 0,
         NEW n, n = GetBucketCount(load, count), NEW m \in Nat, have <= m, n <= m
  PROVE  Within(load, m, count)
  <1>1. PICK x \in Nat : x = (count * load.q) \div load.p
    <2>1. load.p \in Nat \ {0} /\ count * load.q \in Nat
      BY DEF Loads
    <2>2. QED
      BY <2>1, DivType
  <1>2. n \in Primes /\ (n >= x \/ \A o \in Primes : n >= o)
    BY <1>1, LowerBoundIs DEF GetBucketCount
  <1>3. n \in Nat /\ Primes \subseteq Nat
    BY <1>2, HashtableAssumption
  <1>4. CASE \A o \in Primes : n >= o
    <2>1. PICK o \in Primes : top * load.q <= o * load.p
      OBVIOUS
    <2>2. o \in Nat /\ o <= m
      BY <1>3, <1>4, <2>1
    <2>3. QED
      BY <2>1, <2>2, WithinAll
  <1>5. CASE n >= x /\ load.p <= load.q
    <2>1. (count * load.q) \div load.p <= m
      BY <1>1, <1>3, <1>5
    <2>2. QED
      BY <1>5, <2>1, WithinQuotient
  <1>6. CASE old.p * load.q <= load.p * old.q
    <2>1. CASE have > 1
      <3>1. Within(load, have, count)
        BY <1>6, <2>1, WithinLarger
      <3>2. QED
        BY <3>1, WithinMore
    <2>2. CASE have < 2
      <3>1. count = 0
        BY <2>2
      <3>2. QED
        BY <3>1, WithinNone
    <2>3. QED
      BY <2>1, <2>2
  <1>7. QED
    BY <1>2, <1>4, <1>5, <1>6

LEMMA set_max_load_factorLimits ==
  ASSUME IInv, LInv, prog' = prog, NEW t \in Tables, NEW load \in prog.loads, set_max_load_factor(t, load)
  PROVE  LInv'
  <1>1. load \in Factors /\ load \in Loads
    BY ProgramIs DEF Factors
  <1>2. PICK old : old = State(t)
    OBVIOUS
  <1>3. Valid(t, old) /\ Limited(old.r) /\ old.r = h[t]
    BY <1>2, StateLimited
  <1>4. /\ h[t].load \in Loads /\ h[t].n \in Nat \ {0} /\ h[t].count \in Nat
        /\ h[t].load \in Factors
    BY <1>3 DEF Valid, Sized, Limited
  <1>5. PICK was \in Loads, have \in Nat \ {0}, count \in Nat : was = h[t].load /\ have = h[t].n /\ count = h[t].count
    BY <1>4
  <1>6. PICK n : n = GetBucketCount(load, count)
    OBVIOUS
  <1>7. n \in Nat
    BY <1>1, <1>5, <1>6, BucketCountType, HashtableAssumption
  <1>8. PICK s : s = StateOf(Table(h[t].array, have, count, load, 0), mem)
    OBVIOUS
  <1>9. s.r.n = have /\ s.r.count = count /\ s.r.load = load /\ s.r.next = 0
    BY <1>8, StateFields, TableFields
  <1>10. ASSUME NEW m \in Nat, have <= m, n <= m, NEW r, r.n = m, r.count = count, r.load = load, r.next = 0
         PROVE  Limited(r)
    <2>1. ASSUME Policied
          PROVE  Within(load, m, count)
      <3>1. PICK top \in Nat : top = Cardinality(Nodes) /\ count <= top
        BY <1>3, <1>5, CountFits
      <3>2. \E o \in Primes : top * load.q <= o * load.p
        BY <1>1, <2>1, <3>1 DEF Policied, LeftToPolicy, Provided, Factors
      <3>3. load.p <= load.q \/ was.p * load.q <= load.p * was.q
        BY <1>4, <1>5, <2>1 DEF Policied, LeftToPolicy, Provided, Factors
      <3>4. have > 1 => Within(was, have, count)
        BY <1>3, <1>5, <2>1 DEF Limited, Bounded
      <3>5. have < 2 => count = 0
        BY <1>3, <1>5, NoNodesInEmpty
      <3>6. QED
        BY <1>1, <1>6, <1>10, <3>1, <3>2, <3>3, <3>4, <3>5, FactorWithin
    <2>2. Within(load, m, 0)
      BY <1>1, WithinNone
    <2>3. QED
      BY <1>1, <1>10, <2>1, <2>2 DEF Limited, Bounded
  <1>11. CASE n <= have /\ Becomes(t, s)
    <2>1. PICK r : r = s.r
      OBVIOUS
    <2>2. Limited(r)
      BY <1>9, <1>10, <1>11, <2>1
    <2>3. QED
      BY <1>11, <2>1, <2>2, Sets
  <1>12. CASE n > have /\ Becomes(t, Rehashed(s, t, n))
    <2>1. PICK u : u = Rehashed(s, t, n)
      OBVIOUS
    <2>2. PICK r : r = u.r
      OBVIOUS
    <2>3. r.n = n /\ r.count = count /\ r.load = load /\ r.next = 0
      BY <1>9, <2>1, <2>2, RehashedFields
    <2>4. Limited(r)
      BY <1>7, <1>10, <1>12, <2>3
    <2>5. QED
      BY <1>12, <2>1, <2>2, <2>4, Sets
  <1>13. CASE RehashAbandoned(t, s)
    <2>1. PICK zero \in Nat : zero = 0
      OBVIOUS
    <2>2. s = StateOf(Table(h[t].array, h[t].n, h[t].count, load, zero), mem)
      BY <1>5, <1>8, <2>1
    <2>3. Valid(t, s)
      BY <1>1, <2>2, PolicyIs
    <2>4. s.r.load \in Factors
      BY <1>1, <1>9
    <2>5. QED
      BY <1>13, <2>3, <2>4, AbandonedLimits
  <1>14. CASE "alloc" \in prog.throws /\ Becomes(t, s)
    <2>1. ~LeftToPolicy /\ s.r.load \in Factors
      BY <1>1, <1>9, <1>14 DEF LeftToPolicy
    <2>2. QED
      BY <1>14, <2>1, Unlimited
  <1>15. QED
    BY <1>5, <1>6, <1>8, <1>11, <1>12, <1>13, <1>14 DEF set_max_load_factor

\* Tables that change places, and one that is new.
LEMMA MovesLimit ==
  ASSUME LInv, prog' = prog, \A v \in Tables : (\E w \in Tables : h'[v] = h[w]) \/ Limited(h'[v])
  PROVE  LInv'
  <1>1. \A v \in Tables : Limited(h'[v])
    BY DEF LInv
  <1>2. Policied' = Policied /\ Factors' = Factors
    BY DEF Policied, LeftToPolicy, Provided, Factors
  <1>3. QED
    BY <1>1, <1>2 DEF LInv, Limited, Bounded, Within

LEMMA EmptyLimited ==
  ASSUME IInv, NEW load \in Factors
  PROVE  Limited(EmptyTableOf(load))
  <1>1. PICK r : r = EmptyTableOf(load)
    OBVIOUS
  <1>2. r.load = load /\ r.n = 1
    BY <1>1, TableFields DEF EmptyTableOf
  <1>3. QED
    BY <1>1, <1>2 DEF Limited, Bounded

LEMMA swapLimits ==
  ASSUME IInv, LInv, prog' = prog, NEW t \in Tables, NEW u \in Tables,
         swap(t, u) \/ MoveAssign(t, u) \/ MoveConstruct(t, u)
  PROVE  LInv'
  <1>1. DOMAIN h = Tables
    BY DEF IInv, Good
  <1>2. PICK s : s = Cleared(State(t))
    OBVIOUS
  <1>3. Limited(s.r)
    BY <1>2, ClearedLimits
  <1>4. Limited(EmptyTableOf(h[u].load))
    BY EmptyLimited DEF LInv, Limited
  <1>5. ASSUME NEW r, h' = [h EXCEPT ![t] = h[u], ![u] = r], (\E w \in Tables : r = h[w]) \/ Limited(r)
        PROVE  LInv'
    <2>1. \A v \in Tables : h'[v] = IF v = u THEN r ELSE IF v = t THEN h[u] ELSE h[v]
      BY <1>1, <1>5
    <2>2. ASSUME NEW v \in Tables
          PROVE  (\E w \in Tables : h'[v] = h[w]) \/ Limited(h'[v])
      <3>1. CASE v = u
        BY <1>5, <2>1, <3>1
      <3>2. CASE v # u
        BY <2>1, <3>2
      <3>3. QED
        BY <3>1, <3>2
    <2>3. QED
      BY <2>2, MovesLimit
  <1>6. CASE swap(t, u)
    <2>1. h' = [h EXCEPT ![t] = h[u], ![u] = h[t]]
      BY <1>6 DEF swap
    <2>2. QED
      BY <1>5, <2>1
  <1>7. CASE MoveAssign(t, u)
    <2>1. h' = [h EXCEPT ![t] = h[u], ![u] = s.r]
      BY <1>2, <1>7 DEF MoveAssign
    <2>2. QED
      BY <1>3, <1>5, <2>1
  <1>8. CASE MoveConstruct(t, u)
    <2>1. h' = [h EXCEPT ![t] = h[u], ![u] = EmptyTableOf(h[u].load)]
      BY <1>8 DEF MoveConstruct
    <2>2. QED
      BY <1>4, <1>5, <2>1
  <1>9. QED
    BY <1>6, <1>7, <1>8

\* A copy has the bucket count, the load factor and the elements of the other.
LEMMA CopyConstructLimits ==
  ASSUME IInv, LInv, prog' = prog, NEW t \in Tables, NEW u \in Tables, CopyConstruct(t, u)
  PROVE  LInv'
  <1>1. Limited(h[u]) /\ h[u].load \in Factors
    BY DEF LInv, Limited
  <1>2. PICK s : Becomes(t, s) /\ (s.r = EmptyTableOf(h[u].load) \/ \E to : s.r = Moved(h[u], to, h[u].n))
    <2>1. PICK m : m = Destroyed(State(t))
      OBVIOUS
    <2>2. CASE h[u].count = 0
      <3>1. Becomes(t, StateOf(EmptyTableOf(h[u].load), m))
        BY <2>1, <2>2 DEF CopyConstruct
      <3>2. QED
        BY <3>1, StateFields
    <2>3. CASE h[u].count # 0
      <3>1. \E to, mm : Becomes(t, StateOf(Moved(h[u], to, h[u].n), mm))
        BY <2>1, <2>3 DEF CopyConstruct
      <3>2. QED
        BY <3>1, StateFields
    <2>4. QED
      BY <2>2, <2>3
  <1>3. CASE s.r = EmptyTableOf(h[u].load)
    <2>1. Limited(s.r)
      BY <1>1, <1>3, EmptyLimited
    <2>2. QED
      BY <1>2, <2>1, Sets
  <1>4. ASSUME NEW to, s.r = Moved(h[u], to, h[u].n)
        PROVE  LInv'
    <2>1. s.r.n = h[u].n /\ s.r.count = h[u].count /\ s.r.load = h[u].load /\ s.r.next = h[u].next
      BY <1>4, TableFields DEF Moved
    <2>2. Limited(s.r)
      BY <1>1, <2>1 DEF Limited, Bounded
    <2>3. QED
      BY <1>2, <2>2, Sets
  <1>5. QED
    BY <1>2, <1>3, <1>4

LEMMA ConstructLimits ==
  ASSUME IInv, LInv, prog' = prog, NEW t \in Tables, NEW n \in {0} \cup prog.counts, Construct(t, n)
  PROVE  LInv'
  <1>1. PICK m : m = Destroyed(State(t))
    OBVIOUS
  <1>2. PICK load \in Factors : load = InitialLoad
    BY DEF Factors
  <1>3. CASE n < 2
    <2>1. PICK s : s = StateOf(EmptyTableOf(load), m)
      OBVIOUS
    <2>2. Limited(s.r)
      BY <2>1, EmptyLimited, StateFields
    <2>3. Becomes(t, s)
      BY <1>1, <1>2, <1>3, <2>1 DEF Construct, EmptyTable
    <2>4. QED
      BY <2>2, <2>3, Sets
  <1>4. CASE ~(n < 2)
    <2>1. n \in prog.counts
      BY <1>4
    <2>2. ~LeftToPolicy
      BY <2>1 DEF LeftToPolicy
    <2>3. PICK p : p = GetNextBucketCount(n)
      OBVIOUS
    <2>4. PICK to : to = Placed(m, t, p)
      OBVIOUS
    <2>5. PICK s : s = StateOf(Table(to, p, 0, InitialLoad, Resize(InitialLoad, p)), [m EXCEPT ![to] = NullHeads(p)])
      OBVIOUS
    <2>6. Becomes(t, s)
      BY <1>1, <1>4, <2>3, <2>4, <2>5 DEF Construct
    <2>7. s.r.load \in Factors
      BY <1>2, <2>5, StateFields, TableFields
    <2>8. QED
      BY <2>2, <2>6, <2>7, Unlimited
  <1>5. QED
    BY <1>3, <1>4

LEMMA RangeConstructLimits ==
  ASSUME IInv, LInv, prog' = prog, NEW t \in Tables, NEW keys \in prog.ranges, NEW n \in {0} \cup prog.counts,
         RangeConstruct(t, keys, n)
  PROVE  LInv'
  <1>1. PICK m : m = Destroyed(State(t))
    OBVIOUS
  <1>2. PICK load \in Factors : load = InitialLoad
    BY DEF Factors
  <1>3. load \in Loads /\ Len(keys) \in Nat
    BY FactorsAre, ProgramIs
  <1>4. PICK c : c = IF n < 2 THEN GetBucketCount(load, Len(keys)) ELSE n
    OBVIOUS
  <1>5. PICK next : next = IF n < 2 THEN Resize(load, c) ELSE 0
    OBVIOUS
  <1>6. c \in Nat
    <2>1. CASE n < 2
      <3>1. c \in Primes
        BY <1>3, <1>4, <2>1, BucketCountType
      <3>2. QED
        BY <3>1, HashtableAssumption
    <2>2. CASE ~(n < 2)
      BY <1>4, <2>2, ProgramIs
    <2>3. QED
      BY <2>1, <2>2
  <1>7. PICK to : to = Placed(m, t, c)
    OBVIOUS
  <1>8. PICK r, s : r = Table(to, c, 0, load, next) /\ s = StateOf(r, [m EXCEPT ![to] = NullHeads(c)])
    OBVIOUS
  <1>9. Becomes(t, s)
    BY <1>1, <1>2, <1>4, <1>5, <1>7, <1>8 DEF RangeConstruct
  <1>10. s.r = r /\ r.load = load /\ r.n = c /\ r.count = 0 /\ r.next = next
    BY <1>8, StateFields, TableFields
  <1>11. Limited(r)
    <2>1. next = 0 \/ next = Resize(load, c)
      BY <1>5
    <2>2. QED
      BY <1>6, <1>10, <2>1, NewLimited
  <1>12. QED
    BY <1>9, <1>10, <1>11, Sets

LEMMA LimitedInitially ==
  ASSUME Init
  PROVE  LInv
  <1>1. IInv
    BY Initially
  <1>2. ASSUME NEW t \in Tables
        PROVE  Limited(h[t])
    <2>1. h[t] = NewTable(t)
      BY DEF Init
    <2>2. PICK load \in Factors : load = InitialLoad
      BY DEF Factors
    <2>3. CASE ~Fixed
      <3>1. h[t] = EmptyTableOf(load)
        BY <2>1, <2>2, <2>3 DEF NewTable, EmptyTable
      <3>2. QED
        BY <1>1, <3>1, EmptyLimited
    <2>4. CASE Fixed
      <3>1. PICK n \in Nat : n = OwnCount
        BY <1>1, <2>4, OwnCountIs
      <3>2. PICK r : r = Table(t, n, 0, load, Resize(load, n))
        OBVIOUS
      <3>3. h[t] = r
        BY <2>1, <2>2, <2>4, <3>1, <3>2 DEF NewTable, FixedTable, Buffer, OwnCount
      <3>4. r.n = n /\ r.count = 0 /\ r.load = load /\ r.next = Resize(load, n)
        BY <3>2, TableFields
      <3>5. Limited(r)
        BY <1>1, <3>4, NewLimited
      <3>6. QED
        BY <3>3, <3>5
    <2>5. QED
      BY <2>3, <2>4
  <1>3. QED
    BY <1>2 DEF LInv

LEMMA CallLimits ==
  ASSUME IInv, LInv, prog' = prog, Careful(prog), Call
  PROVE  LInv'
  <1>1. prog' = prog /\ Careful(prog)
    OBVIOUS
  <1>2. CASE InsertNext
    BY <1>1, <1>2, InsertNextLimits
  <1>3. ASSUME NEW t \in prog.tables
        PROVE  t \in Tables
    BY ProgramIs
  <1>4. ASSUME NEW t \in prog.tables, NEW k \in Keys, Insert(t, k) \/ InsertThrows(t, k)
        PROVE  LInv'
    BY <1>1, <1>3, <1>4, PutLimits, PutThrowsLimits DEF Insert, InsertThrows
  <1>5. ASSUME NEW t \in prog.tables, NEW s, Valid(t, s), Asked(s.r), Limited(s.r), NEW keys \in Seq(Keys),
               BeginRange(t, s, keys)
        PROVE  LInv'
    BY <1>1, <1>3, <1>5, BeginRangeLimits
  <1>6. ASSUME NEW t \in prog.tables, NEW keys \in prog.ranges, InsertRange(t, keys) \/ AssignList(t, keys)
        PROVE  LInv'
    <2>1. keys \in Seq(Keys) /\ t \in Tables
      BY <1>3, ProgramIs
    <2>2. CASE InsertRange(t, keys)
      <3>1. PICK s : s = State(t)
        OBVIOUS
      <3>2. Valid(t, s) /\ Asked(s.r) /\ Limited(s.r) /\ BeginRange(t, s, keys)
        BY <2>1, <2>2, <3>1, StateLimited DEF InsertRange
      <3>3. QED
        BY <1>5, <2>1, <3>2
    <2>3. CASE AssignList(t, keys)
      <3>1. PICK s : s = Cleared(State(t))
        OBVIOUS
      <3>2. Valid(t, s) /\ Asked(s.r) /\ Limited(s.r) /\ BeginRange(t, s, keys)
        BY <2>1, <2>3, <3>1, ClearedLimits DEF AssignList
      <3>3. QED
        BY <1>5, <2>1, <3>2
    <2>4. QED
      BY <1>6, <2>2, <2>3
  <1>7. ASSUME NEW t \in prog.tables, NEW keys \in prog.ranges, InsertRangeThrows(t, keys)
        PROVE  LInv'
    BY <1>1, <1>3, <1>7, InsertRangeThrowsLimits
  <1>8. ASSUME NEW t \in prog.tables, NEW keys \in prog.ranges, NEW n \in {0} \cup prog.counts,
               RangeConstruct(t, keys, n)
        PROVE  LInv'
    BY <1>1, <1>3, <1>8, RangeConstructLimits
  <1>9. ASSUME NEW t \in prog.tables, NEW S, S \subseteq Holds(t), EraseNodes(t, S)
        PROVE  LInv'
    BY <1>1, <1>3, <1>9, EraseNodesLimits
  <1>10. ASSUME NEW t \in prog.tables, Clear(t)
         PROVE  LInv'
    <2>1. PICK s : s = Cleared(State(t))
      OBVIOUS
    <2>2. Limited(s.r) /\ Becomes(t, s) /\ t \in Tables
      BY <1>3, <1>10, <2>1, ClearedLimits DEF Clear
    <2>3. QED
      BY <1>1, <2>2, Sets
  <1>11. ASSUME NEW t \in prog.tables, NEW free \in prog.clears, ClearBuckets(t, free)
         PROVE  LInv'
    BY <1>1, <1>3, <1>11, ClearBucketsLimits
  <1>12. ASSUME NEW t \in prog.tables, NEW n \in prog.counts, rehash(t, n) \/ reserve(t, n)
         PROVE  LInv'
    BY <1>1, <1>3, <1>12, rehashLimits, reserveLimits
  <1>13. ASSUME NEW t \in prog.tables, NEW n \in {0} \cup prog.counts, Construct(t, n)
         PROVE  LInv'
    BY <1>1, <1>3, <1>13, ConstructLimits
  <1>14. ASSUME NEW t \in prog.tables, NEW load \in prog.loads, set_max_load_factor(t, load)
         PROVE  LInv'
    BY <1>1, <1>3, <1>14, set_max_load_factorLimits
  <1>15. ASSUME NEW t \in prog.tables, NEW u \in prog.tables,
                swap(t, u) \/ MoveAssign(t, u) \/ MoveConstruct(t, u)
         PROVE  LInv'
    BY <1>1, <1>3, <1>15, swapLimits
  <1>16. ASSUME NEW t \in prog.tables, NEW u \in prog.tables, CopyConstruct(t, u)
         PROVE  LInv'
    BY <1>1, <1>3, <1>16, CopyConstructLimits
  <1>17. ASSUME NEW t \in prog.tables, NEW u \in prog.tables, CopyAssign(t, u)
         PROVE  LInv'
    <2>1. PICK s : s = Cleared(State(t))
      OBVIOUS
    <2>2. PICK keys \in Seq(Keys) : keys = KeySeq(u)
      BY <1>3, KeySeqIs
    <2>3. Valid(t, s) /\ Asked(s.r) /\ Limited(s.r) /\ BeginRange(t, s, keys)
      BY <1>3, <1>17, <2>1, <2>2, ClearedLimits DEF CopyAssign
    <2>4. QED
      BY <1>5, <2>3
  <1>18. QED
    BY <1>2, <1>4, <1>6, <1>7, <1>8, <1>9, <1>10, <1>11, <1>12, <1>13, <1>14, <1>15, <1>16, <1>17, Erasures
       DEF Call, Erasing

LEMMA LimitsInductive ==
  ASSUME \A p \in Programs : Careful(p), IInv, LInv, Next
  PROVE  LInv'
  <1>1. prog' = prog /\ Careful(prog)
    BY DEF Next, IInv
  <1>2. ASSUME NEW t \in prog.tables, NEW k \in Keys, EmplaceThrows(t, k)
        PROVE  LInv'
    <2>1. t \in Tables /\ NodeForgotten(t, k)
      BY <1>2, ProgramIs DEF EmplaceThrows
    <2>2. QED
      BY <1>1, <2>1, ForgottenLimits
  <1>3. QED
    BY <1>1, <1>2, CallLimits, InsertNextThrowsLimits, RangeConstructThrowsLimits DEF Next

\* LInv holds in every state of careful programs.
THEOREM LimitsInvariant ==
  ASSUME \A p \in Programs : Careful(p)
  PROVE  Spec => []LInv
  <1>1. Init => LInv
    BY LimitedInitially
  <1>2. IInv /\ LInv /\ [Next]_vars => LInv'
    <2>1. SUFFICES ASSUME IInv, LInv, [Next]_vars
                   PROVE  LInv'
      OBVIOUS
    <2>2. CASE Next
      BY <2>1, <2>2, LimitsInductive
    <2>3. CASE UNCHANGED vars
      BY <2>1, <2>3, SameLimits DEF vars
    <2>4. QED
      BY <2>1, <2>2, <2>3
  <1>3. QED
    BY <1>1, <1>2, Invariant, PTL DEF Spec

\* The fields of every table and the memory they point into are what they should
\* be, whatever a careful program does (hashtable.h:928-931).
THEOREM TypeCorrect ==
  ASSUME \A p \in Programs : Careful(p)
  PROVE  Spec => []TypeOK
  <1>1. IInv /\ LInv /\ Losses => TypeOK
    <2>1. SUFFICES ASSUME IInv, LInv, Losses
                   PROVE  TypeOK
      OBVIOUS
    <2>2. prog \in Programs /\ DOMAIN h = Tables /\ mem \in [Arrays -> Seq(Seq(prog.nodes))]
      BY <2>1 DEF IInv, Good, Chainings
    <2>3. ASSUME NEW t \in Tables
          PROVE  /\ h[t].array \in Arrays /\ {h[t].n, h[t].count, h[t].next} \subseteq Nat
                 /\ h[t].load \in prog.loads \cup {InitialLoad}
      <3>1. h[t].array \in Arrays
        BY <2>1, ArraysOfTables
      <3>2. h[t].n \in Nat /\ h[t].count \in Nat /\ h[t].next \in Nat
        BY <2>1 DEF IInv, Good, Sized
      <3>3. QED
        BY <2>1, <3>1, <3>2 DEF LInv, Limited, Factors
    <2>4. live \subseteq prog.nodes
      <3>1. ASSUME NEW t \in Tables
            PROVE  NodesIn(mem[h[t].array]) \subseteq prog.nodes
        <4>1. PICK s : s = State(t)
          OBVIOUS
        <4>2. Valid(t, s) /\ Held(s) = Holds(t)
          BY <2>1, <4>1, StateIsValid
        <4>3. Held(s) \subseteq prog.nodes
          BY <2>1, <4>2, HeldFinite
        <4>4. QED
          BY <4>2, <4>3 DEF Holds, Chains
      <3>2. QED
        BY <2>1, <3>1 DEF IInv, Good
    <2>5. work = Idle \/ (work.table \in prog.tables /\ work.keys \in Seq(Keys))
      BY <2>1 DEF IInv, Working
    <2>6. QED
      BY <2>1, <2>2, <2>3, <2>4, <2>5 DEF TypeOK, Losses
  <1>2. QED
    BY <1>1, Invariant, LimitsInvariant, LossesInvariant, PTL

\* No table is beyond its maximum load factor, "the load factor beyond which we
\* rebuild the container with a new bucket count" (hashtable.h:491), as long as
\* the caller leaves the bucket count to the policy and nothing throws, and
\* sets no load factor above 1 that is below the one before (Provided).
THEOREM LoadIsBounded ==
  ASSUME \A p \in Programs : Careful(p) /\ Provided(p)
  PROVE  Spec => []LoadBounded
  <1>1. IInv /\ LInv => LoadBounded
    <2>1. SUFFICES ASSUME IInv, LInv, LeftToPolicy, NEW t \in Tables, h[t].n > 1
                   PROVE  h[t].count <= Resize(h[t].load, h[t].n)
      BY DEF LoadBounded
    <2>2. Policied
      BY <2>1 DEF Policied, IInv
    <2>3. Within(h[t].load, h[t].n, h[t].count)
      BY <2>1, <2>2 DEF LInv, Limited, Bounded
    <2>4. PICK load \in Loads, n \in Nat, count \in Nat : load = h[t].load /\ n = h[t].n /\ count = h[t].count
      BY <2>1 DEF IInv, Good, Sized
    <2>5. QED
      BY <2>3, <2>4, ResizeIs DEF Within
  <1>2. \A p \in Programs : Careful(p)
    OBVIOUS
  <1>3. Spec => []IInv /\ []LInv
    BY <1>2, Invariant, LimitsInvariant
  <1>4. QED
    BY <1>1, <1>3, PTL
=============================================================================
