--------------------------- MODULE SharedPtrProofs ---------------------------
(* For any number of threads, pointers and blocks: the counters of SharedPtr    *)
(* are exact, memory is safe, and the whole implements Ownership.              *)
EXTENDS SharedPtr, FiniteSetTheorems, TLAPS

-----------------------------------------------------------------------------
(* The inductive invariant.                                                   *)

\* What each thread has in hand at each point of a call.
Shape ==
  \A t \in Threads :
    /\ pc[t] \in {"idle", "lock", "free_value", "weak_release", "free_ref_count_sp", "weak_addref"}
         => sp[t] = NULL
    /\ pc[t] \in {"addref_weak", "release"} => sp[t] # NULL
    /\ pc[t] \in {"free_value", "weak_release", "free_ref_count_sp"} <=> blk[t] # NULL
    /\ pc[t] \in {"addref_weak", "lock", "swap"} => dst[t] \in Shared
    /\ pc[t] \in {"idle", "release", "free_value"} => dst[t] = NULL
    /\ pc[t] \in {"addref_weak", "lock", "weak_addref"} => src[t] # NULL
    /\ pc[t] \in {"idle", "swap", "release", "free_value"} => src[t] = NULL
    /\ pc[t] \in {"weak_release", "free_ref_count_sp", "weak_addref"} /\ src[t] # NULL
         => dst[t] \in Weak /\ wp[dst[t]] = NULL
    /\ pc[t] \in {"weak_release", "free_ref_count_sp"} /\ src[t] = NULL => dst[t] = NULL
    /\ pc[t] = "lock" => seen[t] > 0

\* The contract, as it stands while calls are in progress.
Exclusive ==
  \A t, u \in Threads :
    t # u /\ dst[t] # NULL => dst[u] # dst[t] /\ src[u] # dst[t]

\* The variable a call reads keeps the block it had when the call read it.
Sources ==
  \A t \in Threads :
    src[t] # NULL =>
      /\ Target(src[t]) # NULL
      /\ pc[t] = "addref_weak" => Target(src[t]) = sp[t]

\* A block's counts agree with the phases of its life.
Unowned == \A b \in Blocks : life[b] # "live" => ref[b] = 0
Dying ==
  \A b \in Blocks : life[b] = "live" /\ ref[b] = 0 =>
    \E t \in Threads : pc[t] = "free_value" /\ blk[t] = b
Destroying ==
  \A t \in Threads : pc[t] = "free_value" => life[blk[t]] = "live" /\ ref[blk[t]] = 0
Freeing ==
  \A t \in Threads : pc[t] = "free_ref_count_sp" => life[blk[t]] = "dead" /\ weak[blk[t]] = 0

\* No two threads are at the same last step of the same block.
LastSteps ==
  \A t, u \in Threads :
    t # u /\ pc[t] = pc[u] /\ pc[t] \in {"free_value", "free_ref_count_sp"} => blk[t] # blk[u]

IInv ==
  /\ TypeOK
  /\ RefCountExact
  /\ WeakCountExact
  /\ NoUseAfterFree
  /\ Shape
  /\ Exclusive
  /\ Sources
  /\ Unowned
  /\ Dying
  /\ Destroying
  /\ Freeing
  /\ LastSteps

-----------------------------------------------------------------------------
(* Counting.                                                                  *)

\* The owners of a block are finitely many.
LEMMA StrongFinite == \A b : IsFiniteSet(StrongHolders(b))
<1> TAKE b
<1>1. IsFiniteSet(Strong)
  BY SharedPtrAssumption, FS_Union DEF Strong
<1>2. StrongHolders(b) \subseteq Strong
  BY DEF StrongHolders
<1> QED
  BY <1>1, <1>2, FS_Subset

\* So are the parties with a weak count.
LEMMA TokensFinite == \A b : IsFiniteSet(WeakTokens(b))
<1> TAKE b
<1>1. IsFiniteSet({b})
  BY FS_Singleton
<1>2. IsFiniteSet(((Shared \cup Weak) \cup Threads) \cup {b})
  BY <1>1, SharedPtrAssumption, FS_Union
<1>3. WeakTokens(b) \subseteq ((Shared \cup Weak) \cup Threads) \cup {b}
  BY DEF WeakTokens
<1> QED
  BY <1>2, <1>3, FS_Subset

\* What one party joining, leaving, or handing over to another does to a count.
LEMMA CountJoins ==
  ASSUME NEW S, NEW T, IsFiniteSet(S), NEW x, x \notin S, T = S \cup {x}
  PROVE  Cardinality(T) = Cardinality(S) + 1
BY FS_AddElement

\* A party leaves.
LEMMA CountLeaves ==
  ASSUME NEW S, NEW T, IsFiniteSet(S), NEW x, x \in S, T = S \ {x}
  PROVE  Cardinality(T) = Cardinality(S) - 1
BY FS_RemoveElement

\* A party hands its count to another.
LEMMA CountHandsOver ==
  ASSUME NEW S, NEW T, IsFiniteSet(S), NEW x, NEW y, x \in S, y \notin S, T = (S \ {x}) \cup {y}
  PROVE  Cardinality(T) = Cardinality(S)
<1>1. IsFiniteSet(S \ {x}) /\ Cardinality(S \ {x}) = Cardinality(S) - 1
  BY FS_RemoveElement
<1>2. Cardinality(T) = Cardinality(S \ {x}) + 1
  BY <1>1, FS_AddElement
<1>3. Cardinality(S) \in Nat
  BY FS_CardinalityType
<1> QED
  BY <1>1, <1>2, <1>3

\* A count with a member is positive.
LEMMA CountPositive ==
  ASSUME NEW S, IsFiniteSet(S), NEW x \in S
  PROVE  Cardinality(S) \in Nat /\ Cardinality(S) >= 1
<1>1. Cardinality(S) \in Nat /\ (Cardinality(S) = 0 <=> S = {})
  BY FS_CardinalityType, FS_EmptySet
<1> QED
  BY <1>1

\* A count with two members is at least two.
LEMMA CountTwo ==
  ASSUME NEW S, IsFiniteSet(S), NEW x \in S, NEW y \in S, x # y
  PROVE  Cardinality(S) \in Nat /\ Cardinality(S) >= 2
<1>1. IsFiniteSet(S \ {x}) /\ Cardinality(S \ {x}) = Cardinality(S) - 1
  BY FS_RemoveElement
<1>2. Cardinality(S \ {x}) \in Nat /\ Cardinality(S \ {x}) >= 1
  BY <1>1, CountPositive
<1>3. Cardinality(S) \in Nat
  BY FS_CardinalityType
<1> QED
  BY <1>1, <1>2, <1>3

\* An owner is counted, and so is every party with a weak count.
LEMMA OwnerCounted ==
  ASSUME TypeOK, RefCountExact, NEW h \in Strong, sp[h] # NULL
  PROVE  sp[h] \in Blocks /\ ref[sp[h]] \in Nat /\ ref[sp[h]] >= 1
<1>1. sp[h] \in Blocks
  BY DEF TypeOK, PtrOf
<1>2. h \in StrongHolders(sp[h])
  BY DEF StrongHolders
<1> QED
  BY <1>1, <1>2, StrongFinite, CountPositive DEF RefCountExact

\* A party with a weak count keeps the count positive.
LEMMA TokenCounted ==
  ASSUME WeakCountExact, NEW b \in Blocks, NEW x \in WeakTokens(b)
  PROVE  weak[b] \in Nat /\ weak[b] >= 1
BY TokensFinite, CountPositive DEF WeakCountExact

\* Two of them keep it above one.
LEMMA TwoTokensCounted ==
  ASSUME WeakCountExact, NEW b \in Blocks, NEW x \in WeakTokens(b), NEW y \in WeakTokens(b), x # y
  PROVE  weak[b] \in Nat /\ weak[b] >= 2
BY TokensFinite, CountTwo DEF WeakCountExact

-----------------------------------------------------------------------------
(* Every step keeps the invariant.                                            *)

\* A copy: the temporary joins the owners of the source's block.
LEMMA CopyAssignKeeps ==
  ASSUME IInv, NEW t \in Threads, NEW d \in Shared, NEW g \in Shared, CopyAssign(t, d, g)
  PROVE  IInv'
<1> USE DEF IInv, PtrOf, Strong
<1>0. t \notin Shared /\ g \notin Weak /\ sp[t] = NULL /\ t # g
  BY SharedPtrAssumption DEF Shape, CopyAssign
<1>A. sp[g] # NULL => ref[sp[g]] >= 1
  BY OwnerCounted
<1>1. TypeOK'
  BY <1>0, <1>A, SharedPtrAssumption DEF TypeOK, CopyAssign
<1>2. Shape'
  BY <1>0, <1>A, SharedPtrAssumption DEF TypeOK, Shape, CopyAssign
<1>3. Exclusive'
  BY <1>0, <1>A, SharedPtrAssumption DEF TypeOK, Shape, Exclusive, MayRead, MayWrite, CopyAssign
<1>4. Sources'
  BY <1>0, <1>A, SharedPtrAssumption DEF TypeOK, Shape, Exclusive, Sources, Target, MayRead, MayWrite, CopyAssign
<1>5. NoUseAfterFree'
  BY <1>0, <1>A, SharedPtrAssumption DEF TypeOK, Shape, NoUseAfterFree, CopyAssign
<1>6. LastSteps'
  BY <1>0, <1>A, SharedPtrAssumption DEF TypeOK, Shape, LastSteps, CopyAssign
<1>7. (Unowned /\ Destroying /\ Freeing)'
  BY <1>0, <1>A, SharedPtrAssumption DEF TypeOK, Shape, Unowned, Destroying, Freeing, NoUseAfterFree, CopyAssign
<1>8. Dying'
  <2> SUFFICES ASSUME NEW b \in Blocks, life'[b] = "live", ref'[b] = 0
               PROVE  \E u \in Threads : pc'[u] = "free_value" /\ blk'[u] = b
    BY DEF Dying
  <2>1. life[b] = "live" /\ ref[b] = 0
    BY <1>0, <1>A DEF TypeOK, CopyAssign
  <2>2. PICK u \in Threads : pc[u] = "free_value" /\ blk[u] = b
    BY <2>1 DEF Dying
  <2>3. pc'[u] = "free_value" /\ blk'[u] = b
    BY <1>0, <1>A, <2>2 DEF TypeOK, CopyAssign
  <2> QED
    BY <2>3
<1>9. RefCountExact'
  <2> SUFFICES ASSUME NEW b \in Blocks PROVE ref'[b] = Cardinality(StrongHolders(b)')
    BY DEF RefCountExact
  <2>1. CASE sp[g] = b
      <3>1. t \notin StrongHolders(b) /\ StrongHolders(b)' = StrongHolders(b) \cup {t}
        BY <1>0, <1>A, <2>1, SharedPtrAssumption DEF StrongHolders, TypeOK, Shape, CopyAssign
      <3>2. ref'[b] = ref[b] + 1
        BY <1>0, <1>A, <2>1, SharedPtrAssumption DEF TypeOK, Shape, CopyAssign
      <3> QED
        BY <3>1, <3>2, StrongFinite, CountJoins DEF RefCountExact
  <2>2. CASE sp[g] # b
      <3>1. StrongHolders(b)' = StrongHolders(b)
        BY <1>0, <1>A, <2>2, SharedPtrAssumption DEF StrongHolders, TypeOK, Shape, CopyAssign
      <3>2. ref'[b] = ref[b]
        BY <1>0, <1>A, <2>2, SharedPtrAssumption DEF TypeOK, Shape, CopyAssign
      <3> QED
        BY <3>1, <3>2 DEF RefCountExact
  <2> QED
    BY <2>1, <2>2
<1>10. WeakCountExact'
  <2> SUFFICES ASSUME NEW b \in Blocks PROVE weak'[b] = Cardinality(WeakTokens(b)')
    BY DEF WeakCountExact
    <2>1. WeakTokens(b)' = WeakTokens(b)
      BY <1>0, <1>A, SharedPtrAssumption DEF WeakTokens, ThreadHolds, TypeOK, Shape, CopyAssign
    <2>2. weak'[b] = weak[b]
      BY <1>0, <1>A, SharedPtrAssumption DEF TypeOK, Shape, CopyAssign
    <2> QED
      BY <2>1, <2>2 DEF WeakCountExact
<1> QED
  BY <1>1, <1>2, <1>3, <1>4, <1>5, <1>6, <1>7, <1>8, <1>9, <1>10


\* The second increment: the new owner joins the parties with a weak count.
LEMMA AddrefWeakKeeps ==
  ASSUME IInv, NEW t \in Threads, AddrefWeak(t)
  PROVE  IInv'
<1> USE DEF IInv, PtrOf, Strong
<1>0. sp[t] \in Blocks /\ dst[t] \in Shared /\ blk[t] = NULL
  BY SharedPtrAssumption DEF Shape, TypeOK, AddrefWeak
<1>1. TypeOK'
  BY <1>0, SharedPtrAssumption DEF TypeOK, AddrefWeak
<1>2. Shape'
  BY <1>0, SharedPtrAssumption DEF TypeOK, Shape, AddrefWeak
<1>3. Exclusive'
  BY <1>0, SharedPtrAssumption DEF TypeOK, Shape, Exclusive, MayRead, MayWrite, AddrefWeak
<1>4. Sources'
  BY <1>0, SharedPtrAssumption DEF TypeOK, Shape, Exclusive, Sources, Target, MayRead, MayWrite, AddrefWeak
<1>5. NoUseAfterFree'
  BY <1>0, SharedPtrAssumption DEF TypeOK, Shape, NoUseAfterFree, AddrefWeak
<1>6. LastSteps'
  BY <1>0, SharedPtrAssumption DEF TypeOK, Shape, LastSteps, AddrefWeak
<1>7. (Unowned /\ Destroying /\ Freeing)'
  BY <1>0, SharedPtrAssumption DEF TypeOK, Shape, Unowned, Destroying, Freeing, NoUseAfterFree, AddrefWeak
<1>8. Dying'
  <2> SUFFICES ASSUME NEW b \in Blocks, life'[b] = "live", ref'[b] = 0
               PROVE  \E u \in Threads : pc'[u] = "free_value" /\ blk'[u] = b
    BY DEF Dying
  <2>1. life[b] = "live" /\ ref[b] = 0
    BY <1>0 DEF TypeOK, AddrefWeak
  <2>2. PICK u \in Threads : pc[u] = "free_value" /\ blk[u] = b
    BY <2>1 DEF Dying
  <2>3. pc'[u] = "free_value" /\ blk'[u] = b
    BY <1>0, <2>2 DEF TypeOK, AddrefWeak
  <2> QED
    BY <2>3
<1>9. RefCountExact'
  <2> SUFFICES ASSUME NEW b \in Blocks PROVE ref'[b] = Cardinality(StrongHolders(b)')
    BY DEF RefCountExact
    <2>1. StrongHolders(b)' = StrongHolders(b)
      BY <1>0, SharedPtrAssumption DEF StrongHolders, TypeOK, Shape, AddrefWeak
    <2>2. ref'[b] = ref[b]
      BY <1>0, SharedPtrAssumption DEF TypeOK, Shape, AddrefWeak
    <2> QED
      BY <2>1, <2>2 DEF RefCountExact
<1>10. WeakCountExact'
  <2> SUFFICES ASSUME NEW b \in Blocks PROVE weak'[b] = Cardinality(WeakTokens(b)')
    BY DEF WeakCountExact
  <2>1. CASE sp[t] = b
      <3>1. t \notin WeakTokens(b) /\ WeakTokens(b)' = WeakTokens(b) \cup {t}
        BY <1>0, <2>1, SharedPtrAssumption DEF WeakTokens, ThreadHolds, TypeOK, Shape, AddrefWeak
      <3>2. weak'[b] = weak[b] + 1
        BY <1>0, <2>1, SharedPtrAssumption DEF TypeOK, Shape, AddrefWeak
      <3> QED
        BY <3>1, <3>2, TokensFinite, CountJoins DEF WeakCountExact
  <2>2. CASE sp[t] # b
      <3>1. WeakTokens(b)' = WeakTokens(b)
        BY <1>0, <2>2, SharedPtrAssumption DEF WeakTokens, ThreadHolds, TypeOK, Shape, AddrefWeak
      <3>2. weak'[b] = weak[b]
        BY <1>0, <2>2, SharedPtrAssumption DEF TypeOK, Shape, AddrefWeak
      <3> QED
        BY <3>1, <3>2 DEF WeakCountExact
  <2> QED
    BY <2>1, <2>2
<1> QED
  BY <1>1, <1>2, <1>3, <1>4, <1>5, <1>6, <1>7, <1>8, <1>9, <1>10


\* A move hands the source's counts to the temporary.
LEMMA MoveAssignKeeps ==
  ASSUME IInv, NEW t \in Threads, NEW d \in Shared, NEW g \in Shared, MoveAssign(t, d, g)
  PROVE  IInv'
<1> USE DEF IInv, PtrOf, Strong
<1>0. t \notin Shared /\ g \notin Weak /\ sp[t] = NULL /\ t # g /\ blk[t] = NULL
  BY SharedPtrAssumption DEF Shape, TypeOK, MoveAssign
<1>1. TypeOK'
  BY <1>0, SharedPtrAssumption DEF TypeOK, MoveAssign
<1>2. Shape'
  BY <1>0, SharedPtrAssumption DEF TypeOK, Shape, MoveAssign
<1>3. Exclusive'
  BY <1>0, SharedPtrAssumption DEF TypeOK, Shape, Exclusive, MayRead, MayWrite, MoveAssign
<1>4. Sources'
  BY <1>0, SharedPtrAssumption DEF TypeOK, Shape, Exclusive, Sources, Target, MayRead, MayWrite, MoveAssign
<1>5. NoUseAfterFree'
  BY <1>0, SharedPtrAssumption DEF TypeOK, Shape, NoUseAfterFree, MoveAssign
<1>6. LastSteps'
  BY <1>0, SharedPtrAssumption DEF TypeOK, Shape, LastSteps, MoveAssign
<1>7. (Unowned /\ Destroying /\ Freeing)'
  BY <1>0, SharedPtrAssumption DEF TypeOK, Shape, Unowned, Destroying, Freeing, NoUseAfterFree, MoveAssign
<1>8. Dying'
  <2> SUFFICES ASSUME NEW b \in Blocks, life'[b] = "live", ref'[b] = 0
               PROVE  \E u \in Threads : pc'[u] = "free_value" /\ blk'[u] = b
    BY DEF Dying
  <2>1. life[b] = "live" /\ ref[b] = 0
    BY <1>0 DEF TypeOK, MoveAssign
  <2>2. PICK u \in Threads : pc[u] = "free_value" /\ blk[u] = b
    BY <2>1 DEF Dying
  <2>3. pc'[u] = "free_value" /\ blk'[u] = b
    BY <1>0, <2>2 DEF TypeOK, MoveAssign
  <2> QED
    BY <2>3
<1>9. RefCountExact'
  <2> SUFFICES ASSUME NEW b \in Blocks PROVE ref'[b] = Cardinality(StrongHolders(b)')
    BY DEF RefCountExact
  <2>1. CASE sp[g] = b
      <3>1. g \in StrongHolders(b) /\ t \notin StrongHolders(b) /\ StrongHolders(b)' = (StrongHolders(b) \ {g}) \cup {t}
        BY <1>0, <2>1, SharedPtrAssumption DEF StrongHolders, TypeOK, Shape, MoveAssign
      <3>2. ref'[b] = ref[b]
        BY <1>0, <2>1, SharedPtrAssumption DEF TypeOK, Shape, MoveAssign
      <3> QED
        BY <3>1, <3>2, StrongFinite, CountHandsOver DEF RefCountExact
  <2>2. CASE sp[g] # b
      <3>1. StrongHolders(b)' = StrongHolders(b)
        BY <1>0, <2>2, SharedPtrAssumption DEF StrongHolders, TypeOK, Shape, MoveAssign
      <3>2. ref'[b] = ref[b]
        BY <1>0, <2>2, SharedPtrAssumption DEF TypeOK, Shape, MoveAssign
      <3> QED
        BY <3>1, <3>2 DEF RefCountExact
  <2> QED
    BY <2>1, <2>2
<1>10. WeakCountExact'
  <2> SUFFICES ASSUME NEW b \in Blocks PROVE weak'[b] = Cardinality(WeakTokens(b)')
    BY DEF WeakCountExact
  <2>1. CASE sp[g] = b
      <3>1. g \in WeakTokens(b) /\ t \notin WeakTokens(b) /\ WeakTokens(b)' = (WeakTokens(b) \ {g}) \cup {t}
        BY <1>0, <2>1, SharedPtrAssumption DEF WeakTokens, ThreadHolds, TypeOK, Shape, MoveAssign
      <3>2. weak'[b] = weak[b]
        BY <1>0, <2>1, SharedPtrAssumption DEF TypeOK, Shape, MoveAssign
      <3> QED
        BY <3>1, <3>2, TokensFinite, CountHandsOver DEF WeakCountExact
  <2>2. CASE sp[g] # b
      <3>1. WeakTokens(b)' = WeakTokens(b)
        BY <1>0, <2>2, SharedPtrAssumption DEF WeakTokens, ThreadHolds, TypeOK, Shape, MoveAssign
      <3>2. weak'[b] = weak[b]
        BY <1>0, <2>2, SharedPtrAssumption DEF TypeOK, Shape, MoveAssign
      <3> QED
        BY <3>1, <3>2 DEF WeakCountExact
  <2> QED
    BY <2>1, <2>2
<1> QED
  BY <1>1, <1>2, <1>3, <1>4, <1>5, <1>6, <1>7, <1>8, <1>9, <1>10


\* A new block starts with one owner, its weak count, and that of a value that
\* watches itself.
LEMMA MakeKeeps ==
  ASSUME IInv, NEW t \in Threads, NEW d \in Shared, NEW b0 \in Blocks, Make(t, d, b0)
  PROVE  IInv'
<1> USE DEF IInv, PtrOf, Strong
<1>0. t \notin Shared /\ sp[t] = NULL /\ blk[t] = NULL
  BY SharedPtrAssumption DEF Shape, TypeOK, Make
<1>1. TypeOK'
  BY <1>0, SharedPtrAssumption DEF TypeOK, Make, SelfToken
<1>2. Shape'
  BY <1>0, SharedPtrAssumption DEF TypeOK, Shape, Make, SelfToken
<1>3. Exclusive'
  BY <1>0, SharedPtrAssumption DEF TypeOK, Shape, Exclusive, MayRead, MayWrite, Make, SelfToken
<1>4. Sources'
  BY <1>0, SharedPtrAssumption DEF TypeOK, Shape, Exclusive, Sources, Target, MayRead, MayWrite, Make, SelfToken
<1>5. NoUseAfterFree'
  BY <1>0, SharedPtrAssumption DEF TypeOK, Shape, NoUseAfterFree, Make, SelfToken
<1>6. LastSteps'
  BY <1>0, SharedPtrAssumption DEF TypeOK, Shape, LastSteps, Make, SelfToken
<1>7. (Unowned /\ Destroying /\ Freeing)'
  BY <1>0, SharedPtrAssumption DEF TypeOK, Shape, Unowned, Destroying, Freeing, NoUseAfterFree, Make, SelfToken
<1>8. Dying'
  <2> SUFFICES ASSUME NEW b \in Blocks, life'[b] = "live", ref'[b] = 0
               PROVE  \E u \in Threads : pc'[u] = "free_value" /\ blk'[u] = b
    BY DEF Dying
  <2>1. life[b] = "live" /\ ref[b] = 0
    BY DEF TypeOK, Make
  <2>2. PICK u \in Threads : pc[u] = "free_value" /\ blk[u] = b
    BY <2>1 DEF Dying
  <2>3. pc'[u] = "free_value" /\ blk'[u] = b
    BY <2>2 DEF TypeOK, Make
  <2> QED
    BY <2>3
<1>9. RefCountExact'
  <2> SUFFICES ASSUME NEW b \in Blocks PROVE ref'[b] = Cardinality(StrongHolders(b)')
    BY DEF RefCountExact
  <2>1. CASE b = b0
    <3>1. StrongHolders(b) = {} /\ StrongHolders(b)' = {} \cup {t}
      BY <1>0, <2>1, SharedPtrAssumption DEF StrongHolders, NoUseAfterFree, TypeOK, Make
    <3>2. ref'[b] = 1
      BY <2>1 DEF Make, TypeOK
    <3> QED
      BY <3>1, <3>2, FS_EmptySet, CountJoins
  <2>2. CASE b # b0
      <3>1. StrongHolders(b)' = StrongHolders(b)
        BY <1>0, <2>2, SharedPtrAssumption DEF StrongHolders, TypeOK, Shape, Make, SelfToken
      <3>2. ref'[b] = ref[b]
        BY <1>0, <2>2, SharedPtrAssumption DEF TypeOK, Shape, Make, SelfToken
      <3> QED
        BY <3>1, <3>2 DEF RefCountExact
  <2> QED
    BY <2>1, <2>2
<1>10. WeakCountExact'
  <2> SUFFICES ASSUME NEW b \in Blocks PROVE weak'[b] = Cardinality(WeakTokens(b)')
    BY DEF WeakCountExact
  <2>1. CASE b = b0
    <3>1. WeakTokens(b) = {}
      BY <1>0, <2>1, SharedPtrAssumption DEF WeakTokens, ThreadHolds, NoUseAfterFree, TypeOK, Shape, Make
    <3>2. WeakTokens(b)' = {t} \cup ({b} \cap SelfWeak)
      BY <1>0, <2>1, <3>1, SharedPtrAssumption DEF WeakTokens, ThreadHolds, TypeOK, Shape, Make
    <3>3. weak'[b] = 1 + SelfToken(b)
      BY <2>1 DEF Make, TypeOK
    <3>4. IsFiniteSet({t}) /\ Cardinality({t}) = 1
      BY FS_Singleton
    <3>5. CASE b \in SelfWeak
      <4>1. b \notin {t} /\ WeakTokens(b)' = {t} \cup {b} /\ weak'[b] = 1 + 1
        BY <3>2, <3>3, <3>5, SharedPtrAssumption DEF SelfToken
      <4> QED
        BY <3>4, <4>1, CountJoins
    <3>6. CASE b \notin SelfWeak
      <4>1. WeakTokens(b)' = {t} /\ weak'[b] = 1 + 0
        BY <3>2, <3>3, <3>6 DEF SelfToken
      <4> QED
        BY <3>4, <4>1
    <3> QED
      BY <3>5, <3>6
  <2>2. CASE b # b0
      <3>1. WeakTokens(b)' = WeakTokens(b)
        BY <1>0, <2>2, SharedPtrAssumption DEF WeakTokens, ThreadHolds, TypeOK, Shape, Make, SelfToken
      <3>2. weak'[b] = weak[b]
        BY <1>0, <2>2, SharedPtrAssumption DEF TypeOK, Shape, Make, SelfToken
      <3> QED
        BY <3>1, <3>2 DEF WeakCountExact
  <2> QED
    BY <2>1, <2>2
<1> QED
  BY <1>1, <1>2, <1>3, <1>4, <1>5, <1>6, <1>7, <1>8, <1>9, <1>10


\* An empty temporary changes no count.
LEMMA ResetKeeps ==
  ASSUME IInv, NEW t \in Threads, NEW d \in Shared, Reset(t, d)
  PROVE  IInv'
<1> USE DEF IInv, PtrOf, Strong
<1>0. t \notin Shared /\ sp[t] = NULL /\ blk[t] = NULL
  BY SharedPtrAssumption DEF Shape, TypeOK, Reset
<1>1. TypeOK'
  BY <1>0, SharedPtrAssumption DEF TypeOK, Reset
<1>2. Shape'
  BY <1>0, SharedPtrAssumption DEF TypeOK, Shape, Reset
<1>3. Exclusive'
  BY <1>0, SharedPtrAssumption DEF TypeOK, Shape, Exclusive, MayRead, MayWrite, Reset
<1>4. Sources'
  BY <1>0, SharedPtrAssumption DEF TypeOK, Shape, Exclusive, Sources, Target, MayRead, MayWrite, Reset
<1>5. NoUseAfterFree'
  BY <1>0, SharedPtrAssumption DEF TypeOK, Shape, NoUseAfterFree, Reset
<1>6. LastSteps'
  BY <1>0, SharedPtrAssumption DEF TypeOK, Shape, LastSteps, Reset
<1>7. (Unowned /\ Destroying /\ Freeing)'
  BY <1>0, SharedPtrAssumption DEF TypeOK, Shape, Unowned, Destroying, Freeing, NoUseAfterFree, Reset
<1>8. Dying'
  <2> SUFFICES ASSUME NEW b \in Blocks, life'[b] = "live", ref'[b] = 0
               PROVE  \E u \in Threads : pc'[u] = "free_value" /\ blk'[u] = b
    BY DEF Dying
  <2>1. life[b] = "live" /\ ref[b] = 0
    BY <1>0 DEF TypeOK, Reset
  <2>2. PICK u \in Threads : pc[u] = "free_value" /\ blk[u] = b
    BY <2>1 DEF Dying
  <2>3. pc'[u] = "free_value" /\ blk'[u] = b
    BY <1>0, <2>2 DEF TypeOK, Reset
  <2> QED
    BY <2>3
<1>9. RefCountExact'
  <2> SUFFICES ASSUME NEW b \in Blocks PROVE ref'[b] = Cardinality(StrongHolders(b)')
    BY DEF RefCountExact
    <2>1. StrongHolders(b)' = StrongHolders(b)
      BY <1>0, SharedPtrAssumption DEF StrongHolders, TypeOK, Shape, Reset
    <2>2. ref'[b] = ref[b]
      BY <1>0, SharedPtrAssumption DEF TypeOK, Shape, Reset
    <2> QED
      BY <2>1, <2>2 DEF RefCountExact
<1>10. WeakCountExact'
  <2> SUFFICES ASSUME NEW b \in Blocks PROVE weak'[b] = Cardinality(WeakTokens(b)')
    BY DEF WeakCountExact
    <2>1. WeakTokens(b)' = WeakTokens(b)
      BY <1>0, SharedPtrAssumption DEF WeakTokens, ThreadHolds, TypeOK, Shape, Reset
    <2>2. weak'[b] = weak[b]
      BY <1>0, SharedPtrAssumption DEF TypeOK, Shape, Reset
    <2> QED
      BY <2>1, <2>2 DEF WeakCountExact
<1> QED
  BY <1>1, <1>2, <1>3, <1>4, <1>5, <1>6, <1>7, <1>8, <1>9, <1>10


\* The load of lock() changes no count.
LEMMA LockLoadKeeps ==
  ASSUME IInv, NEW t \in Threads, NEW d \in Shared, NEW w \in Shared \cup Weak, LockLoad(t, d, w)
  PROVE  IInv'
<1> USE DEF IInv, PtrOf, Strong
<1>0. t \notin Shared /\ sp[t] = NULL /\ blk[t] = NULL /\ (Target(w) # NULL => Target(w) \in Blocks)
  BY SharedPtrAssumption DEF Shape, TypeOK, Target, LockLoad
<1>1. TypeOK'
  BY <1>0, SharedPtrAssumption DEF TypeOK, LockLoad
<1>2. Shape'
  BY <1>0, SharedPtrAssumption DEF TypeOK, Shape, LockLoad
<1>3. Exclusive'
  BY <1>0, SharedPtrAssumption DEF TypeOK, Shape, Exclusive, MayRead, MayWrite, LockLoad
<1>4. Sources'
  BY <1>0, SharedPtrAssumption DEF TypeOK, Shape, Exclusive, Sources, Target, MayRead, MayWrite, LockLoad
<1>5. NoUseAfterFree'
  BY <1>0, SharedPtrAssumption DEF TypeOK, Shape, NoUseAfterFree, LockLoad
<1>6. LastSteps'
  BY <1>0, SharedPtrAssumption DEF TypeOK, Shape, LastSteps, LockLoad
<1>7. (Unowned /\ Destroying /\ Freeing)'
  BY <1>0, SharedPtrAssumption DEF TypeOK, Shape, Unowned, Destroying, Freeing, NoUseAfterFree, LockLoad
<1>8. Dying'
  <2> SUFFICES ASSUME NEW b \in Blocks, life'[b] = "live", ref'[b] = 0
               PROVE  \E u \in Threads : pc'[u] = "free_value" /\ blk'[u] = b
    BY DEF Dying
  <2>1. life[b] = "live" /\ ref[b] = 0
    BY <1>0 DEF TypeOK, LockLoad
  <2>2. PICK u \in Threads : pc[u] = "free_value" /\ blk[u] = b
    BY <2>1 DEF Dying
  <2>3. pc'[u] = "free_value" /\ blk'[u] = b
    BY <1>0, <2>2 DEF TypeOK, LockLoad
  <2> QED
    BY <2>3
<1>9. RefCountExact'
  <2> SUFFICES ASSUME NEW b \in Blocks PROVE ref'[b] = Cardinality(StrongHolders(b)')
    BY DEF RefCountExact
    <2>1. StrongHolders(b)' = StrongHolders(b)
      BY <1>0, SharedPtrAssumption DEF StrongHolders, TypeOK, Shape, LockLoad
    <2>2. ref'[b] = ref[b]
      BY <1>0, SharedPtrAssumption DEF TypeOK, Shape, LockLoad
    <2> QED
      BY <2>1, <2>2 DEF RefCountExact
<1>10. WeakCountExact'
  <2> SUFFICES ASSUME NEW b \in Blocks PROVE weak'[b] = Cardinality(WeakTokens(b)')
    BY DEF WeakCountExact
    <2>1. WeakTokens(b)' = WeakTokens(b)
      BY <1>0, SharedPtrAssumption DEF WeakTokens, ThreadHolds, TypeOK, Shape, LockLoad
    <2>2. weak'[b] = weak[b]
      BY <1>0, SharedPtrAssumption DEF TypeOK, Shape, LockLoad
    <2> QED
      BY <2>1, <2>2 DEF WeakCountExact
<1> QED
  BY <1>1, <1>2, <1>3, <1>4, <1>5, <1>6, <1>7, <1>8, <1>9, <1>10


\* A successful compare_exchange adds an owner, which relies on the weak count
\* of the variable it came from until its own is there.
LEMMA LockTakesKeeps ==
  ASSUME IInv, NEW t \in Threads, LockTakes(t)
  PROVE  IInv'
<1> USE DEF IInv, PtrOf, Strong
<1>0. /\ sp[t] = NULL /\ blk[t] = NULL /\ seen[t] > 0
     /\ Target(src[t]) \in Blocks /\ ref[Target(src[t])] = seen[t] /\ src[t] \in Shared \cup Weak
  BY SharedPtrAssumption DEF Shape, TypeOK, Sources, Target, LockTakes
<1>A. life[Target(src[t])] = "live"
  BY <1>0 DEF TypeOK, Unowned
<1>1. TypeOK'
  BY <1>0, <1>A, SharedPtrAssumption DEF TypeOK, LockTakes
<1>2. Shape'
  BY <1>0, <1>A, SharedPtrAssumption DEF TypeOK, Shape, LockTakes
<1>3. Exclusive'
  BY <1>0, <1>A, SharedPtrAssumption DEF TypeOK, Shape, Exclusive, MayRead, MayWrite, LockTakes
<1>4. Sources'
  BY <1>0, <1>A, SharedPtrAssumption DEF TypeOK, Shape, Exclusive, Sources, Target, MayRead, MayWrite, LockTakes
<1>5. NoUseAfterFree'
  BY <1>0, <1>A, SharedPtrAssumption DEF TypeOK, Shape, NoUseAfterFree, LockTakes
<1>6. LastSteps'
  BY <1>0, <1>A, SharedPtrAssumption DEF TypeOK, Shape, LastSteps, LockTakes
<1>7. (Unowned /\ Destroying /\ Freeing)'
  BY <1>0, <1>A, SharedPtrAssumption DEF TypeOK, Shape, Unowned, Destroying, Freeing, NoUseAfterFree, LockTakes
<1>8. Dying'
  <2> SUFFICES ASSUME NEW b \in Blocks, life'[b] = "live", ref'[b] = 0
               PROVE  \E u \in Threads : pc'[u] = "free_value" /\ blk'[u] = b
    BY DEF Dying
  <2>1. life[b] = "live" /\ ref[b] = 0
    BY <1>0, <1>A DEF TypeOK, LockTakes
  <2>2. PICK u \in Threads : pc[u] = "free_value" /\ blk[u] = b
    BY <2>1 DEF Dying
  <2>3. pc'[u] = "free_value" /\ blk'[u] = b
    BY <1>0, <1>A, <2>2 DEF TypeOK, LockTakes
  <2> QED
    BY <2>3
<1>9. RefCountExact'
  <2> SUFFICES ASSUME NEW b \in Blocks PROVE ref'[b] = Cardinality(StrongHolders(b)')
    BY DEF RefCountExact
  <2>1. CASE Target(src[t]) = b
      <3>1. t \notin StrongHolders(b) /\ StrongHolders(b)' = StrongHolders(b) \cup {t}
        BY <1>0, <1>A, <2>1, SharedPtrAssumption DEF StrongHolders, TypeOK, Shape, LockTakes
      <3>2. ref'[b] = ref[b] + 1
        BY <1>0, <1>A, <2>1, SharedPtrAssumption DEF TypeOK, Shape, LockTakes
      <3> QED
        BY <3>1, <3>2, StrongFinite, CountJoins DEF RefCountExact
  <2>2. CASE Target(src[t]) # b
      <3>1. StrongHolders(b)' = StrongHolders(b)
        BY <1>0, <1>A, <2>2, SharedPtrAssumption DEF StrongHolders, TypeOK, Shape, LockTakes
      <3>2. ref'[b] = ref[b]
        BY <1>0, <1>A, <2>2, SharedPtrAssumption DEF TypeOK, Shape, LockTakes
      <3> QED
        BY <3>1, <3>2 DEF RefCountExact
  <2> QED
    BY <2>1, <2>2
<1>10. WeakCountExact'
  <2> SUFFICES ASSUME NEW b \in Blocks PROVE weak'[b] = Cardinality(WeakTokens(b)')
    BY DEF WeakCountExact
    <2>1. WeakTokens(b)' = WeakTokens(b)
      BY <1>0, <1>A, SharedPtrAssumption DEF WeakTokens, ThreadHolds, TypeOK, Shape, LockTakes
    <2>2. weak'[b] = weak[b]
      BY <1>0, <1>A, SharedPtrAssumption DEF TypeOK, Shape, LockTakes
    <2> QED
      BY <2>1, <2>2 DEF WeakCountExact
<1> QED
  BY <1>1, <1>2, <1>3, <1>4, <1>5, <1>6, <1>7, <1>8, <1>9, <1>10


\* A failed compare_exchange changes no count.
LEMMA LockRetriesKeeps ==
  ASSUME IInv, NEW t \in Threads, LockRetries(t)
  PROVE  IInv'
<1> USE DEF IInv, PtrOf, Strong
<1>0. /\ sp[t] = NULL /\ blk[t] = NULL
     /\ Target(src[t]) \in Blocks /\ src[t] \in Shared \cup Weak
  BY SharedPtrAssumption DEF Shape, TypeOK, Sources, Target, LockRetries
<1>1. TypeOK'
  BY <1>0, SharedPtrAssumption DEF TypeOK, LockRetries
<1>2. Shape'
  BY <1>0, SharedPtrAssumption DEF TypeOK, Shape, LockRetries
<1>3. Exclusive'
  BY <1>0, SharedPtrAssumption DEF TypeOK, Shape, Exclusive, MayRead, MayWrite, LockRetries
<1>4. Sources'
  BY <1>0, SharedPtrAssumption DEF TypeOK, Shape, Exclusive, Sources, Target, MayRead, MayWrite, LockRetries
<1>5. NoUseAfterFree'
  BY <1>0, SharedPtrAssumption DEF TypeOK, Shape, NoUseAfterFree, LockRetries
<1>6. LastSteps'
  BY <1>0, SharedPtrAssumption DEF TypeOK, Shape, LastSteps, LockRetries
<1>7. (Unowned /\ Destroying /\ Freeing)'
  BY <1>0, SharedPtrAssumption DEF TypeOK, Shape, Unowned, Destroying, Freeing, NoUseAfterFree, LockRetries
<1>8. Dying'
  <2> SUFFICES ASSUME NEW b \in Blocks, life'[b] = "live", ref'[b] = 0
               PROVE  \E u \in Threads : pc'[u] = "free_value" /\ blk'[u] = b
    BY DEF Dying
  <2>1. life[b] = "live" /\ ref[b] = 0
    BY <1>0 DEF TypeOK, LockRetries
  <2>2. PICK u \in Threads : pc[u] = "free_value" /\ blk[u] = b
    BY <2>1 DEF Dying
  <2>3. pc'[u] = "free_value" /\ blk'[u] = b
    BY <1>0, <2>2 DEF TypeOK, LockRetries
  <2> QED
    BY <2>3
<1>9. RefCountExact'
  <2> SUFFICES ASSUME NEW b \in Blocks PROVE ref'[b] = Cardinality(StrongHolders(b)')
    BY DEF RefCountExact
    <2>1. StrongHolders(b)' = StrongHolders(b)
      BY <1>0, SharedPtrAssumption DEF StrongHolders, TypeOK, Shape, LockRetries
    <2>2. ref'[b] = ref[b]
      BY <1>0, SharedPtrAssumption DEF TypeOK, Shape, LockRetries
    <2> QED
      BY <2>1, <2>2 DEF RefCountExact
<1>10. WeakCountExact'
  <2> SUFFICES ASSUME NEW b \in Blocks PROVE weak'[b] = Cardinality(WeakTokens(b)')
    BY DEF WeakCountExact
    <2>1. WeakTokens(b)' = WeakTokens(b)
      BY <1>0, SharedPtrAssumption DEF WeakTokens, ThreadHolds, TypeOK, Shape, LockRetries
    <2>2. weak'[b] = weak[b]
      BY <1>0, SharedPtrAssumption DEF TypeOK, Shape, LockRetries
    <2> QED
      BY <2>1, <2>2 DEF WeakCountExact
<1> QED
  BY <1>1, <1>2, <1>3, <1>4, <1>5, <1>6, <1>7, <1>8, <1>9, <1>10


\* swap exchanges the counts of the temporary and the variable.
LEMMA SwapKeeps ==
  ASSUME IInv, NEW t \in Threads, Swap(t)
  PROVE  IInv'
<1> USE DEF IInv, PtrOf, Strong
<1>0. dst[t] \in Shared /\ t # dst[t] /\ t \notin Shared /\ src[t] = NULL /\ blk[t] = NULL
  BY SharedPtrAssumption DEF Shape, TypeOK, Swap
<1>1. TypeOK'
  BY <1>0, SharedPtrAssumption DEF TypeOK, Swap
<1>2. Shape'
  BY <1>0, SharedPtrAssumption DEF TypeOK, Shape, Swap
<1>3. Exclusive'
  BY <1>0, SharedPtrAssumption DEF TypeOK, Shape, Exclusive, MayRead, MayWrite, Swap
<1>4. Sources'
  BY <1>0, SharedPtrAssumption DEF TypeOK, Shape, Exclusive, Sources, Target, MayRead, MayWrite, Swap
<1>5. NoUseAfterFree'
  BY <1>0, SharedPtrAssumption DEF TypeOK, Shape, NoUseAfterFree, Swap
<1>6. LastSteps'
  BY <1>0, SharedPtrAssumption DEF TypeOK, Shape, LastSteps, Swap
<1>7. (Unowned /\ Destroying /\ Freeing)'
  BY <1>0, SharedPtrAssumption DEF TypeOK, Shape, Unowned, Destroying, Freeing, NoUseAfterFree, Swap
<1>8. Dying'
  <2> SUFFICES ASSUME NEW b \in Blocks, life'[b] = "live", ref'[b] = 0
               PROVE  \E u \in Threads : pc'[u] = "free_value" /\ blk'[u] = b
    BY DEF Dying
  <2>1. life[b] = "live" /\ ref[b] = 0
    BY <1>0 DEF TypeOK, Swap
  <2>2. PICK u \in Threads : pc[u] = "free_value" /\ blk[u] = b
    BY <2>1 DEF Dying
  <2>3. pc'[u] = "free_value" /\ blk'[u] = b
    BY <1>0, <2>2 DEF TypeOK, Swap
  <2> QED
    BY <2>3
<1>9. RefCountExact'
  <2> SUFFICES ASSUME NEW b \in Blocks PROVE ref'[b] = Cardinality(StrongHolders(b)')
    BY DEF RefCountExact
  <2>1. CASE sp[t] = b /\ sp[dst[t]] # b
      <3>1. t \in StrongHolders(b) /\ dst[t] \notin StrongHolders(b) /\ StrongHolders(b)' = (StrongHolders(b) \ {t}) \cup {dst[t]}
        BY <1>0, <2>1, SharedPtrAssumption DEF StrongHolders, TypeOK, Shape, Swap
      <3>2. ref'[b] = ref[b]
        BY <1>0, <2>1, SharedPtrAssumption DEF TypeOK, Shape, Swap
      <3> QED
        BY <3>1, <3>2, StrongFinite, CountHandsOver DEF RefCountExact
  <2>2. CASE sp[t] # b /\ sp[dst[t]] = b
      <3>1. dst[t] \in StrongHolders(b) /\ t \notin StrongHolders(b) /\ StrongHolders(b)' = (StrongHolders(b) \ {dst[t]}) \cup {t}
        BY <1>0, <2>2, SharedPtrAssumption DEF StrongHolders, TypeOK, Shape, Swap
      <3>2. ref'[b] = ref[b]
        BY <1>0, <2>2, SharedPtrAssumption DEF TypeOK, Shape, Swap
      <3> QED
        BY <3>1, <3>2, StrongFinite, CountHandsOver DEF RefCountExact
  <2>3. CASE (sp[t] = b) <=> (sp[dst[t]] = b)
      <3>1. StrongHolders(b)' = StrongHolders(b)
        BY <1>0, <2>3, SharedPtrAssumption DEF StrongHolders, TypeOK, Shape, Swap
      <3>2. ref'[b] = ref[b]
        BY <1>0, <2>3, SharedPtrAssumption DEF TypeOK, Shape, Swap
      <3> QED
        BY <3>1, <3>2 DEF RefCountExact
  <2> QED
    BY <2>1, <2>2, <2>3
<1>10. WeakCountExact'
  <2> SUFFICES ASSUME NEW b \in Blocks PROVE weak'[b] = Cardinality(WeakTokens(b)')
    BY DEF WeakCountExact
  <2>1. CASE sp[t] = b /\ sp[dst[t]] # b
      <3>1. t \in WeakTokens(b) /\ dst[t] \notin WeakTokens(b) /\ WeakTokens(b)' = (WeakTokens(b) \ {t}) \cup {dst[t]}
        BY <1>0, <2>1, SharedPtrAssumption DEF WeakTokens, ThreadHolds, TypeOK, Shape, Swap
      <3>2. weak'[b] = weak[b]
        BY <1>0, <2>1, SharedPtrAssumption DEF TypeOK, Shape, Swap
      <3> QED
        BY <3>1, <3>2, TokensFinite, CountHandsOver DEF WeakCountExact
  <2>2. CASE sp[t] # b /\ sp[dst[t]] = b
      <3>1. dst[t] \in WeakTokens(b) /\ t \notin WeakTokens(b) /\ WeakTokens(b)' = (WeakTokens(b) \ {dst[t]}) \cup {t}
        BY <1>0, <2>2, SharedPtrAssumption DEF WeakTokens, ThreadHolds, TypeOK, Shape, Swap
      <3>2. weak'[b] = weak[b]
        BY <1>0, <2>2, SharedPtrAssumption DEF TypeOK, Shape, Swap
      <3> QED
        BY <3>1, <3>2, TokensFinite, CountHandsOver DEF WeakCountExact
  <2>3. CASE (sp[t] = b) <=> (sp[dst[t]] = b)
      <3>1. WeakTokens(b)' = WeakTokens(b)
        BY <1>0, <2>3, SharedPtrAssumption DEF WeakTokens, ThreadHolds, TypeOK, Shape, Swap
      <3>2. weak'[b] = weak[b]
        BY <1>0, <2>3, SharedPtrAssumption DEF TypeOK, Shape, Swap
      <3> QED
        BY <3>1, <3>2 DEF WeakCountExact
  <2> QED
    BY <2>1, <2>2, <2>3
<1> QED
  BY <1>1, <1>2, <1>3, <1>4, <1>5, <1>6, <1>7, <1>8, <1>9, <1>10


\* shared_ptr::swap exchanges the counts of two variables.
LEMMA SwapSharedKeeps ==
  ASSUME IInv, NEW t \in Threads, NEW g \in Shared, NEW h \in Shared, SwapShared(t, g, h)
  PROVE  IInv'
<1> USE DEF IInv, PtrOf, Strong
<1>0. g \notin Threads /\ h \notin Threads /\ g \notin Weak /\ h \notin Weak
  BY SharedPtrAssumption DEF Shape, TypeOK, SwapShared
<1>1. TypeOK'
  BY <1>0, SharedPtrAssumption DEF TypeOK, SwapShared
<1>2. Shape'
  BY <1>0, SharedPtrAssumption DEF TypeOK, Shape, SwapShared
<1>3. Exclusive'
  BY <1>0, SharedPtrAssumption DEF TypeOK, Shape, Exclusive, MayRead, MayWrite, SwapShared
<1>4. Sources'
  BY <1>0, SharedPtrAssumption DEF TypeOK, Shape, Exclusive, Sources, Target, MayRead, MayWrite, SwapShared
<1>5. NoUseAfterFree'
  BY <1>0, SharedPtrAssumption DEF TypeOK, Shape, NoUseAfterFree, SwapShared
<1>6. LastSteps'
  BY <1>0, SharedPtrAssumption DEF TypeOK, Shape, LastSteps, SwapShared
<1>7. (Unowned /\ Destroying /\ Freeing)'
  BY <1>0, SharedPtrAssumption DEF TypeOK, Shape, Unowned, Destroying, Freeing, NoUseAfterFree, SwapShared
<1>8. Dying'
  <2> SUFFICES ASSUME NEW b \in Blocks, life'[b] = "live", ref'[b] = 0
               PROVE  \E u \in Threads : pc'[u] = "free_value" /\ blk'[u] = b
    BY DEF Dying
  <2>1. life[b] = "live" /\ ref[b] = 0
    BY <1>0 DEF TypeOK, SwapShared
  <2>2. PICK u \in Threads : pc[u] = "free_value" /\ blk[u] = b
    BY <2>1 DEF Dying
  <2>3. pc'[u] = "free_value" /\ blk'[u] = b
    BY <1>0, <2>2 DEF TypeOK, SwapShared
  <2> QED
    BY <2>3
<1>9. RefCountExact'
  <2> SUFFICES ASSUME NEW b \in Blocks PROVE ref'[b] = Cardinality(StrongHolders(b)')
    BY DEF RefCountExact
  <2>1. CASE sp[g] = b /\ sp[h] # b
      <3>1. g \in StrongHolders(b) /\ h \notin StrongHolders(b) /\ StrongHolders(b)' = (StrongHolders(b) \ {g}) \cup {h}
        BY <1>0, <2>1, SharedPtrAssumption DEF StrongHolders, TypeOK, Shape, SwapShared
      <3>2. ref'[b] = ref[b]
        BY <1>0, <2>1, SharedPtrAssumption DEF TypeOK, Shape, SwapShared
      <3> QED
        BY <3>1, <3>2, StrongFinite, CountHandsOver DEF RefCountExact
  <2>2. CASE sp[g] # b /\ sp[h] = b
      <3>1. h \in StrongHolders(b) /\ g \notin StrongHolders(b) /\ StrongHolders(b)' = (StrongHolders(b) \ {h}) \cup {g}
        BY <1>0, <2>2, SharedPtrAssumption DEF StrongHolders, TypeOK, Shape, SwapShared
      <3>2. ref'[b] = ref[b]
        BY <1>0, <2>2, SharedPtrAssumption DEF TypeOK, Shape, SwapShared
      <3> QED
        BY <3>1, <3>2, StrongFinite, CountHandsOver DEF RefCountExact
  <2>3. CASE (sp[g] = b) <=> (sp[h] = b)
      <3>1. StrongHolders(b)' = StrongHolders(b)
        BY <1>0, <2>3, SharedPtrAssumption DEF StrongHolders, TypeOK, Shape, SwapShared
      <3>2. ref'[b] = ref[b]
        BY <1>0, <2>3, SharedPtrAssumption DEF TypeOK, Shape, SwapShared
      <3> QED
        BY <3>1, <3>2 DEF RefCountExact
  <2> QED
    BY <2>1, <2>2, <2>3
<1>10. WeakCountExact'
  <2> SUFFICES ASSUME NEW b \in Blocks PROVE weak'[b] = Cardinality(WeakTokens(b)')
    BY DEF WeakCountExact
  <2>1. CASE sp[g] = b /\ sp[h] # b
      <3>1. g \in WeakTokens(b) /\ h \notin WeakTokens(b) /\ WeakTokens(b)' = (WeakTokens(b) \ {g}) \cup {h}
        BY <1>0, <2>1, SharedPtrAssumption DEF WeakTokens, ThreadHolds, TypeOK, Shape, SwapShared
      <3>2. weak'[b] = weak[b]
        BY <1>0, <2>1, SharedPtrAssumption DEF TypeOK, Shape, SwapShared
      <3> QED
        BY <3>1, <3>2, TokensFinite, CountHandsOver DEF WeakCountExact
  <2>2. CASE sp[g] # b /\ sp[h] = b
      <3>1. h \in WeakTokens(b) /\ g \notin WeakTokens(b) /\ WeakTokens(b)' = (WeakTokens(b) \ {h}) \cup {g}
        BY <1>0, <2>2, SharedPtrAssumption DEF WeakTokens, ThreadHolds, TypeOK, Shape, SwapShared
      <3>2. weak'[b] = weak[b]
        BY <1>0, <2>2, SharedPtrAssumption DEF TypeOK, Shape, SwapShared
      <3> QED
        BY <3>1, <3>2, TokensFinite, CountHandsOver DEF WeakCountExact
  <2>3. CASE (sp[g] = b) <=> (sp[h] = b)
      <3>1. WeakTokens(b)' = WeakTokens(b)
        BY <1>0, <2>3, SharedPtrAssumption DEF WeakTokens, ThreadHolds, TypeOK, Shape, SwapShared
      <3>2. weak'[b] = weak[b]
        BY <1>0, <2>3, SharedPtrAssumption DEF TypeOK, Shape, SwapShared
      <3> QED
        BY <3>1, <3>2 DEF WeakCountExact
  <2> QED
    BY <2>1, <2>2, <2>3
<1> QED
  BY <1>1, <1>2, <1>3, <1>4, <1>5, <1>6, <1>7, <1>8, <1>9, <1>10


\* The first decrement: an owner leaves, its weak count stays with the thread,
\* and the last one to leave is the only thread to destroy the value.
LEMMA ReleaseKeeps ==
  ASSUME IInv, NEW t \in Threads, Release(t)
  PROVE  IInv'
<1> USE DEF IInv, PtrOf, Strong
<1>0. sp[t] \in Blocks /\ blk[t] = NULL /\ dst[t] = NULL /\ src[t] = NULL /\ t \notin Shared
  BY SharedPtrAssumption DEF Shape, TypeOK, Release
<1>A. ref[sp[t]] \in Nat /\ ref[sp[t]] >= 1 /\ life[sp[t]] = "live"
  BY <1>0, OwnerCounted, SharedPtrAssumption DEF NoUseAfterFree
<1>1. TypeOK'
  BY <1>0, <1>A, SharedPtrAssumption DEF TypeOK, Release
<1>2. Shape'
  BY <1>0, <1>A, SharedPtrAssumption DEF TypeOK, Shape, Release
<1>3. Exclusive'
  BY <1>0, <1>A, SharedPtrAssumption DEF TypeOK, Shape, Exclusive, MayRead, MayWrite, Release
<1>4. Sources'
  BY <1>0, <1>A, SharedPtrAssumption DEF TypeOK, Shape, Exclusive, Sources, Target, MayRead, MayWrite, Release
<1>5. NoUseAfterFree'
  BY <1>0, <1>A, SharedPtrAssumption DEF TypeOK, Shape, NoUseAfterFree, Release
<1>6. LastSteps'
  BY <1>0, <1>A, SharedPtrAssumption DEF TypeOK, Shape, LastSteps, Destroying, Freeing, Release
<1>7. (Unowned /\ Destroying /\ Freeing)'
  BY <1>0, <1>A, SharedPtrAssumption DEF TypeOK, Shape, Unowned, Destroying, Freeing, NoUseAfterFree, Release
<1>8. Dying'
  <2> SUFFICES ASSUME NEW b \in Blocks, life'[b] = "live", ref'[b] = 0
               PROVE  \E u \in Threads : pc'[u] = "free_value" /\ blk'[u] = b
    BY DEF Dying
  <2>1. CASE b = sp[t]
    <3>1. pc'[t] = "free_value" /\ blk'[t] = b
      BY <1>0, <1>A, <2>1 DEF TypeOK, Release
    <3> QED
      BY <3>1
  <2>2. CASE b # sp[t]
    <3>1. life[b] = "live" /\ ref[b] = 0
      BY <1>0, <2>2 DEF TypeOK, Release
    <3>2. PICK u \in Threads : pc[u] = "free_value" /\ blk[u] = b
      BY <3>1 DEF Dying
    <3>3. pc'[u] = "free_value" /\ blk'[u] = b
      BY <1>0, <3>2 DEF TypeOK, Release
    <3> QED
      BY <3>3
  <2> QED
    BY <2>1, <2>2
<1>9. RefCountExact'
  <2> SUFFICES ASSUME NEW b \in Blocks PROVE ref'[b] = Cardinality(StrongHolders(b)')
    BY DEF RefCountExact
  <2>1. CASE sp[t] = b
      <3>1. t \in StrongHolders(b) /\ StrongHolders(b)' = StrongHolders(b) \ {t}
        BY <1>0, <1>A, <2>1, SharedPtrAssumption DEF StrongHolders, TypeOK, Shape, Release
      <3>2. ref'[b] = ref[b] - 1
        BY <1>0, <1>A, <2>1, SharedPtrAssumption DEF TypeOK, Shape, Release
      <3> QED
        BY <3>1, <3>2, StrongFinite, CountLeaves DEF RefCountExact
  <2>2. CASE sp[t] # b
      <3>1. StrongHolders(b)' = StrongHolders(b)
        BY <1>0, <1>A, <2>2, SharedPtrAssumption DEF StrongHolders, TypeOK, Shape, Release
      <3>2. ref'[b] = ref[b]
        BY <1>0, <1>A, <2>2, SharedPtrAssumption DEF TypeOK, Shape, Release
      <3> QED
        BY <3>1, <3>2 DEF RefCountExact
  <2> QED
    BY <2>1, <2>2
<1>10. WeakCountExact'
  <2> SUFFICES ASSUME NEW b \in Blocks PROVE weak'[b] = Cardinality(WeakTokens(b)')
    BY DEF WeakCountExact
    <2>1. WeakTokens(b)' = WeakTokens(b)
      BY <1>0, <1>A, SharedPtrAssumption DEF WeakTokens, ThreadHolds, TypeOK, Shape, Release
    <2>2. weak'[b] = weak[b]
      BY <1>0, <1>A, SharedPtrAssumption DEF TypeOK, Shape, Release
    <2> QED
      BY <2>1, <2>2 DEF WeakCountExact
<1> QED
  BY <1>1, <1>2, <1>3, <1>4, <1>5, <1>6, <1>7, <1>8, <1>9, <1>10


\* Destroying the value ends its weak_ptr to itself, never the last weak count.
LEMMA FreeValueKeeps ==
  ASSUME IInv, NEW t \in Threads, FreeValue(t)
  PROVE  IInv'
<1> USE DEF IInv, PtrOf, Strong
<1>0. /\ blk[t] \in Blocks /\ sp[t] = NULL /\ dst[t] = NULL /\ src[t] = NULL /\ t \notin Shared /\ blk[t] # t
     /\ life[blk[t]] = "live" /\ ref[blk[t]] = 0
  BY SharedPtrAssumption DEF Shape, TypeOK, Destroying, FreeValue
<1>A. weak[blk[t]] \in Nat /\ weak[blk[t]] >= 1 /\ (blk[t] \in SelfWeak => weak[blk[t]] >= 2)
  <2>1. t \in WeakTokens(blk[t]) /\ (blk[t] \in SelfWeak => blk[t] \in WeakTokens(blk[t]))
    BY <1>0 DEF WeakTokens, ThreadHolds, FreeValue
  <2> QED
    BY <1>0, <2>1, TokenCounted, TwoTokensCounted
<1>B. /\ life' = [life EXCEPT ![blk[t]] = "dead"]
      /\ \A h \in Strong : sp[h] # blk[t]
  <2>1. ~(weak[blk[t]] = 1 /\ blk[t] \in SelfWeak)
    BY <1>A
  <2>2. life' = [life EXCEPT ![blk[t]] = "dead"]
    BY <2>1 DEF FreeValue
  <2>3. StrongHolders(blk[t]) = {}
    BY <1>0, StrongFinite, FS_EmptySet DEF RefCountExact
  <2> QED
    BY <2>2, <2>3 DEF StrongHolders
<1>1. TypeOK'
  BY <1>0, <1>A, <1>B, SharedPtrAssumption DEF TypeOK, FreeValue, SelfToken
<1>2. Shape'
  BY <1>0, <1>A, <1>B, SharedPtrAssumption DEF TypeOK, Shape, FreeValue, SelfToken
<1>3. Exclusive'
  BY <1>0, <1>A, <1>B, SharedPtrAssumption DEF TypeOK, Shape, Exclusive, MayRead, MayWrite, FreeValue, SelfToken
<1>4. Sources'
  BY <1>0, <1>A, <1>B, SharedPtrAssumption DEF TypeOK, Shape, Exclusive, Sources, Target, MayRead, MayWrite, FreeValue, SelfToken
<1>5. NoUseAfterFree'
  BY <1>0, <1>A, <1>B, SharedPtrAssumption DEF TypeOK, Shape, NoUseAfterFree, FreeValue, SelfToken
<1>6. LastSteps'
  BY <1>0, <1>A, <1>B, SharedPtrAssumption DEF TypeOK, Shape, LastSteps, FreeValue, SelfToken
<1>7. (Unowned /\ Destroying /\ Freeing)'
  BY <1>0, <1>A, <1>B, SharedPtrAssumption DEF TypeOK, Shape, LastSteps, Unowned, Destroying, Freeing, NoUseAfterFree, FreeValue, SelfToken
<1>8. Dying'
  <2> SUFFICES ASSUME NEW b \in Blocks, life'[b] = "live", ref'[b] = 0
               PROVE  \E u \in Threads : pc'[u] = "free_value" /\ blk'[u] = b
    BY DEF Dying
  <2>1. life[b] = "live" /\ ref[b] = 0
    BY <1>0, <1>A, <1>B DEF TypeOK, FreeValue, SelfToken
  <2>2. PICK u \in Threads : pc[u] = "free_value" /\ blk[u] = b
    BY <2>1 DEF Dying
  <2>3. pc'[u] = "free_value" /\ blk'[u] = b
    BY <1>0, <1>A, <1>B, <2>2 DEF TypeOK, FreeValue, SelfToken
  <2> QED
    BY <2>3
<1>9. RefCountExact'
  <2> SUFFICES ASSUME NEW b \in Blocks PROVE ref'[b] = Cardinality(StrongHolders(b)')
    BY DEF RefCountExact
    <2>1. StrongHolders(b)' = StrongHolders(b)
      BY <1>0, <1>A, <1>B, SharedPtrAssumption DEF StrongHolders, TypeOK, Shape, FreeValue, SelfToken
    <2>2. ref'[b] = ref[b]
      BY <1>0, <1>A, <1>B, SharedPtrAssumption DEF TypeOK, Shape, FreeValue, SelfToken
    <2> QED
      BY <2>1, <2>2 DEF RefCountExact
<1>10. WeakCountExact'
  <2> SUFFICES ASSUME NEW b \in Blocks PROVE weak'[b] = Cardinality(WeakTokens(b)')
    BY DEF WeakCountExact
  <2>1. CASE b = blk[t] /\ b \in SelfWeak
      <3>1. b \in WeakTokens(b) /\ WeakTokens(b)' = WeakTokens(b) \ {b}
        BY <1>0, <1>A, <1>B, <2>1, SharedPtrAssumption DEF WeakTokens, ThreadHolds, TypeOK, Shape, FreeValue, SelfToken
      <3>2. weak'[b] = weak[b] - 1
        BY <1>0, <1>A, <1>B, <2>1, SharedPtrAssumption DEF TypeOK, Shape, FreeValue, SelfToken
      <3> QED
        BY <3>1, <3>2, TokensFinite, CountLeaves DEF WeakCountExact
  <2>2. CASE ~(b = blk[t] /\ b \in SelfWeak)
      <3>1. WeakTokens(b)' = WeakTokens(b)
        BY <1>0, <1>A, <1>B, <2>2, SharedPtrAssumption DEF WeakTokens, ThreadHolds, TypeOK, Shape, FreeValue, SelfToken
      <3>2. weak'[b] = weak[b]
        BY <1>0, <1>A, <1>B, <2>2, SharedPtrAssumption DEF TypeOK, Shape, FreeValue, SelfToken
      <3> QED
        BY <3>1, <3>2 DEF WeakCountExact
  <2> QED
    BY <2>1, <2>2
<1> QED
  BY <1>1, <1>2, <1>3, <1>4, <1>5, <1>6, <1>7, <1>8, <1>9, <1>10


\* The second decrement: when it takes the last weak count nobody owns the block
\* any more and its value is already dead.
LEMMA WeakReleaseKeeps ==
  ASSUME IInv, NEW t \in Threads, WeakRelease(t)
  PROVE  IInv'
<1> USE DEF IInv, PtrOf, Strong
<1>0. blk[t] \in Blocks /\ sp[t] = NULL /\ t \notin Shared /\ life[blk[t]] # "free"
  BY SharedPtrAssumption DEF Shape, TypeOK, NoUseAfterFree, WeakRelease
<1>A. weak[blk[t]] \in Nat /\ weak[blk[t]] >= 1
  BY <1>0, TokenCounted DEF WeakTokens, ThreadHolds, WeakRelease
<1>B. weak[blk[t]] = 1 => life[blk[t]] = "dead"
  <2> SUFFICES ASSUME weak[blk[t]] = 1, life[blk[t]] = "live" PROVE FALSE
    BY <1>0 DEF TypeOK
  <2>1. t \in WeakTokens(blk[t])
    BY <1>0 DEF WeakTokens, ThreadHolds, WeakRelease
  <2>2. ASSUME NEW x \in WeakTokens(blk[t]), x # t PROVE FALSE
    BY <1>0, <2>1, <2>2, TwoTokensCounted
  <2>3. CASE ref[blk[t]] = 0
    <3>1. PICK u \in Threads : pc[u] = "free_value" /\ blk[u] = blk[t]
      BY <1>0, <2>3 DEF Dying
    <3> QED
      BY <2>2, <3>1 DEF WeakTokens, ThreadHolds, WeakRelease
  <2>4. CASE ref[blk[t]] # 0
    <3>1. PICK h \in Strong : sp[h] = blk[t]
      <4>1. StrongHolders(blk[t]) # {}
        BY <1>0, <2>4, FS_EmptySet DEF RefCountExact
      <4> QED
        BY <4>1 DEF StrongHolders
    <3>2. CASE h \in Shared
      BY <1>0, <2>2, <3>1, <3>2 DEF WeakTokens
    <3>3. CASE h \in Threads /\ pc[h] # "addref_weak"
      BY <1>0, <2>2, <3>1, <3>3, SharedPtrAssumption DEF WeakTokens, ThreadHolds, Shape, TypeOK, WeakRelease
    <3>4. CASE h \in Threads /\ pc[h] = "addref_weak"
      <4>1. src[h] \in Shared \cup Weak /\ Target(src[h]) = blk[t]
        BY <3>1, <3>4 DEF Shape, Sources, TypeOK
      <4>2. src[h] \in WeakTokens(blk[t]) /\ src[h] # t
        BY <4>1, SharedPtrAssumption DEF WeakTokens, Target
      <4> QED
        BY <2>2, <4>2
    <3> QED
      BY <3>1, <3>2, <3>3, <3>4
  <2> QED
    BY <2>3, <2>4
<1>1. TypeOK'
  BY <1>0, <1>A, <1>B, SharedPtrAssumption DEF TypeOK, WeakRelease
<1>2. Shape'
  BY <1>0, <1>A, <1>B, SharedPtrAssumption DEF TypeOK, Shape, WeakRelease
<1>3. Exclusive'
  BY <1>0, <1>A, <1>B, SharedPtrAssumption DEF TypeOK, Shape, Exclusive, MayRead, MayWrite, WeakRelease
<1>4. Sources'
  BY <1>0, <1>A, <1>B, SharedPtrAssumption DEF TypeOK, Shape, Exclusive, Sources, Target, MayRead, MayWrite, WeakRelease
<1>5. NoUseAfterFree'
  BY <1>0, <1>A, <1>B, SharedPtrAssumption DEF TypeOK, Shape, NoUseAfterFree, WeakRelease
<1>6. LastSteps'
  BY <1>0, <1>A, <1>B, SharedPtrAssumption DEF TypeOK, Shape, LastSteps, Freeing, Destroying, WeakRelease
<1>7. (Unowned /\ Destroying /\ Freeing)'
  BY <1>0, <1>A, <1>B, SharedPtrAssumption DEF TypeOK, Shape, Unowned, Destroying, Freeing, NoUseAfterFree, WeakRelease
<1>8. Dying'
  <2> SUFFICES ASSUME NEW b \in Blocks, life'[b] = "live", ref'[b] = 0
               PROVE  \E u \in Threads : pc'[u] = "free_value" /\ blk'[u] = b
    BY DEF Dying
  <2>1. life[b] = "live" /\ ref[b] = 0
    BY <1>0, <1>A, <1>B DEF TypeOK, WeakRelease
  <2>2. PICK u \in Threads : pc[u] = "free_value" /\ blk[u] = b
    BY <2>1 DEF Dying
  <2>3. pc'[u] = "free_value" /\ blk'[u] = b
    BY <1>0, <1>A, <1>B, <2>2 DEF TypeOK, WeakRelease
  <2> QED
    BY <2>3
<1>9. RefCountExact'
  <2> SUFFICES ASSUME NEW b \in Blocks PROVE ref'[b] = Cardinality(StrongHolders(b)')
    BY DEF RefCountExact
    <2>1. StrongHolders(b)' = StrongHolders(b)
      BY <1>0, <1>A, <1>B, SharedPtrAssumption DEF StrongHolders, TypeOK, Shape, WeakRelease
    <2>2. ref'[b] = ref[b]
      BY <1>0, <1>A, <1>B, SharedPtrAssumption DEF TypeOK, Shape, WeakRelease
    <2> QED
      BY <2>1, <2>2 DEF RefCountExact
<1>10. WeakCountExact'
  <2> SUFFICES ASSUME NEW b \in Blocks PROVE weak'[b] = Cardinality(WeakTokens(b)')
    BY DEF WeakCountExact
  <2>1. CASE b = blk[t]
      <3>1. t \in WeakTokens(b) /\ WeakTokens(b)' = WeakTokens(b) \ {t}
        BY <1>0, <1>A, <1>B, <2>1, SharedPtrAssumption DEF WeakTokens, ThreadHolds, TypeOK, Shape, WeakRelease
      <3>2. weak'[b] = weak[b] - 1
        BY <1>0, <1>A, <1>B, <2>1, SharedPtrAssumption DEF TypeOK, Shape, WeakRelease
      <3> QED
        BY <3>1, <3>2, TokensFinite, CountLeaves DEF WeakCountExact
  <2>2. CASE b # blk[t]
      <3>1. WeakTokens(b)' = WeakTokens(b)
        BY <1>0, <1>A, <1>B, <2>2, SharedPtrAssumption DEF WeakTokens, ThreadHolds, TypeOK, Shape, WeakRelease
      <3>2. weak'[b] = weak[b]
        BY <1>0, <1>A, <1>B, <2>2, SharedPtrAssumption DEF TypeOK, Shape, WeakRelease
      <3> QED
        BY <3>1, <3>2 DEF WeakCountExact
  <2> QED
    BY <2>1, <2>2
<1> QED
  BY <1>1, <1>2, <1>3, <1>4, <1>5, <1>6, <1>7, <1>8, <1>9, <1>10


\* The block is freed when nobody can refer to it.
LEMMA FreeRefCountKeeps ==
  ASSUME IInv, NEW t \in Threads, FreeRefCount(t)
  PROVE  IInv'
<1> USE DEF IInv, PtrOf, Strong
<1>0. /\ blk[t] \in Blocks /\ sp[t] = NULL /\ t \notin Shared
     /\ life[blk[t]] = "dead" /\ weak[blk[t]] = 0
  BY SharedPtrAssumption DEF Shape, TypeOK, Freeing, FreeRefCount
<1>A. /\ \A h \in Strong : sp[h] # blk[t]
      /\ \A w \in Weak : wp[w] # blk[t]
      /\ \A u \in Threads \ {t} : blk[u] # blk[t]
  <2>1. WeakTokens(blk[t]) = {}
    BY <1>0, TokensFinite, FS_EmptySet DEF WeakCountExact
  <2>2. ref[blk[t]] = 0
    BY <1>0 DEF Unowned
  <2>3. StrongHolders(blk[t]) = {}
    BY <1>0, <2>2, StrongFinite, FS_EmptySet DEF RefCountExact
  <2>4. \A w \in Weak : wp[w] # blk[t]
    BY <2>1 DEF WeakTokens
  <2>5. ASSUME NEW u \in Threads \ {t}, blk[u] = blk[t] PROVE FALSE
    <3>1. pc[u] = "free_ref_count_sp"
      BY <1>0, <2>1, <2>5, SharedPtrAssumption DEF WeakTokens, ThreadHolds, Shape, TypeOK
    <3> QED
      BY <2>5, <3>1 DEF LastSteps, FreeRefCount
  <2> QED
    BY <2>3, <2>4, <2>5 DEF StrongHolders
<1>1. TypeOK'
  BY <1>0, <1>A, SharedPtrAssumption DEF TypeOK, FreeRefCount
<1>2. Shape'
  BY <1>0, <1>A, SharedPtrAssumption DEF TypeOK, Shape, FreeRefCount
<1>3. Exclusive'
  BY <1>0, <1>A, SharedPtrAssumption DEF TypeOK, Shape, Exclusive, MayRead, MayWrite, FreeRefCount
<1>4. Sources'
  BY <1>0, <1>A, SharedPtrAssumption DEF TypeOK, Shape, Exclusive, Sources, Target, MayRead, MayWrite, FreeRefCount
<1>5. NoUseAfterFree'
  BY <1>0, <1>A, SharedPtrAssumption DEF TypeOK, Shape, NoUseAfterFree, FreeRefCount
<1>6. LastSteps'
  BY <1>0, <1>A, SharedPtrAssumption DEF TypeOK, Shape, LastSteps, FreeRefCount
<1>7. (Unowned /\ Destroying /\ Freeing)'
  BY <1>0, <1>A, SharedPtrAssumption DEF TypeOK, Shape, Unowned, Destroying, Freeing, NoUseAfterFree, FreeRefCount
<1>8. Dying'
  <2> SUFFICES ASSUME NEW b \in Blocks, life'[b] = "live", ref'[b] = 0
               PROVE  \E u \in Threads : pc'[u] = "free_value" /\ blk'[u] = b
    BY DEF Dying
  <2>1. life[b] = "live" /\ ref[b] = 0
    BY <1>0, <1>A DEF TypeOK, FreeRefCount
  <2>2. PICK u \in Threads : pc[u] = "free_value" /\ blk[u] = b
    BY <2>1 DEF Dying
  <2>3. pc'[u] = "free_value" /\ blk'[u] = b
    BY <1>0, <1>A, <2>2 DEF TypeOK, FreeRefCount
  <2> QED
    BY <2>3
<1>9. RefCountExact'
  <2> SUFFICES ASSUME NEW b \in Blocks PROVE ref'[b] = Cardinality(StrongHolders(b)')
    BY DEF RefCountExact
    <2>1. StrongHolders(b)' = StrongHolders(b)
      BY <1>0, <1>A, SharedPtrAssumption DEF StrongHolders, TypeOK, Shape, FreeRefCount
    <2>2. ref'[b] = ref[b]
      BY <1>0, <1>A, SharedPtrAssumption DEF TypeOK, Shape, FreeRefCount
    <2> QED
      BY <2>1, <2>2 DEF RefCountExact
<1>10. WeakCountExact'
  <2> SUFFICES ASSUME NEW b \in Blocks PROVE weak'[b] = Cardinality(WeakTokens(b)')
    BY DEF WeakCountExact
    <2>1. WeakTokens(b)' = WeakTokens(b)
      BY <1>0, <1>A, SharedPtrAssumption DEF WeakTokens, ThreadHolds, TypeOK, Shape, FreeRefCount
    <2>2. weak'[b] = weak[b]
      BY <1>0, <1>A, SharedPtrAssumption DEF TypeOK, Shape, FreeRefCount
    <2> QED
      BY <2>1, <2>2 DEF WeakCountExact
<1> QED
  BY <1>1, <1>2, <1>3, <1>4, <1>5, <1>6, <1>7, <1>8, <1>9, <1>10


\* A weak_ptr that is overwritten hands its weak count to the thread.
LEMMA WeakAssignKeeps ==
  ASSUME IInv, NEW t \in Threads, NEW w \in Weak, NEW g \in Shared \cup Weak, WeakAssign(t, w, g)
  PROVE  IInv'
<1> USE DEF IInv, PtrOf, Strong
<1>0. sp[t] = NULL /\ t \notin Shared /\ w \notin Shared /\ w # t /\ w # g /\ blk[t] = NULL
  BY SharedPtrAssumption DEF Shape, TypeOK, Target, WeakAssign
<1>1. TypeOK'
  BY <1>0, SharedPtrAssumption DEF TypeOK, WeakAssign
<1>2. Shape'
  BY <1>0, SharedPtrAssumption DEF TypeOK, Shape, WeakAssign
<1>3. Exclusive'
  BY <1>0, SharedPtrAssumption DEF TypeOK, Shape, Exclusive, MayRead, MayWrite, WeakAssign
<1>4. Sources'
  BY <1>0, SharedPtrAssumption DEF TypeOK, Shape, Exclusive, Sources, Target, MayRead, MayWrite, WeakAssign
<1>5. NoUseAfterFree'
  BY <1>0, SharedPtrAssumption DEF TypeOK, Shape, NoUseAfterFree, WeakAssign
<1>6. LastSteps'
  BY <1>0, SharedPtrAssumption DEF TypeOK, Shape, LastSteps, WeakAssign
<1>7. (Unowned /\ Destroying /\ Freeing)'
  BY <1>0, SharedPtrAssumption DEF TypeOK, Shape, Unowned, Destroying, Freeing, NoUseAfterFree, WeakAssign
<1>8. Dying'
  <2> SUFFICES ASSUME NEW b \in Blocks, life'[b] = "live", ref'[b] = 0
               PROVE  \E u \in Threads : pc'[u] = "free_value" /\ blk'[u] = b
    BY DEF Dying
  <2>1. life[b] = "live" /\ ref[b] = 0
    BY <1>0 DEF TypeOK, WeakAssign
  <2>2. PICK u \in Threads : pc[u] = "free_value" /\ blk[u] = b
    BY <2>1 DEF Dying
  <2>3. pc'[u] = "free_value" /\ blk'[u] = b
    BY <1>0, <2>2 DEF TypeOK, WeakAssign
  <2> QED
    BY <2>3
<1>9. RefCountExact'
  <2> SUFFICES ASSUME NEW b \in Blocks PROVE ref'[b] = Cardinality(StrongHolders(b)')
    BY DEF RefCountExact
    <2>1. StrongHolders(b)' = StrongHolders(b)
      BY <1>0, SharedPtrAssumption DEF StrongHolders, TypeOK, Shape, WeakAssign
    <2>2. ref'[b] = ref[b]
      BY <1>0, SharedPtrAssumption DEF TypeOK, Shape, WeakAssign
    <2> QED
      BY <2>1, <2>2 DEF RefCountExact
<1>10. WeakCountExact'
  <2> SUFFICES ASSUME NEW b \in Blocks PROVE weak'[b] = Cardinality(WeakTokens(b)')
    BY DEF WeakCountExact
  <2>1. CASE wp[w] = b
      <3>1. w \in WeakTokens(b) /\ t \notin WeakTokens(b) /\ WeakTokens(b)' = (WeakTokens(b) \ {w}) \cup {t}
        BY <1>0, <2>1, SharedPtrAssumption DEF WeakTokens, ThreadHolds, TypeOK, Shape, WeakAssign
      <3>2. weak'[b] = weak[b]
        BY <1>0, <2>1, SharedPtrAssumption DEF TypeOK, Shape, WeakAssign
      <3> QED
        BY <3>1, <3>2, TokensFinite, CountHandsOver DEF WeakCountExact
  <2>2. CASE wp[w] # b
      <3>1. WeakTokens(b)' = WeakTokens(b)
        BY <1>0, <2>2, SharedPtrAssumption DEF WeakTokens, ThreadHolds, TypeOK, Shape, WeakAssign
      <3>2. weak'[b] = weak[b]
        BY <1>0, <2>2, SharedPtrAssumption DEF TypeOK, Shape, WeakAssign
      <3> QED
        BY <3>1, <3>2 DEF WeakCountExact
  <2> QED
    BY <2>1, <2>2
<1> QED
  BY <1>1, <1>2, <1>3, <1>4, <1>5, <1>6, <1>7, <1>8, <1>9, <1>10


\* The overwritten weak_ptr takes a weak count of its new block.
LEMMA WeakAddrefKeeps ==
  ASSUME IInv, NEW t \in Threads, WeakAddref(t)
  PROVE  IInv'
<1> USE DEF IInv, PtrOf, Strong
<1>0. /\ sp[t] = NULL /\ t \notin Shared /\ blk[t] = NULL
     /\ dst[t] \in Weak /\ wp[dst[t]] = NULL /\ Target(src[t]) \in Blocks
  BY SharedPtrAssumption DEF Shape, TypeOK, Sources, Target, WeakAddref
<1>A. life[Target(src[t])] # "free" /\ weak[Target(src[t])] \in Nat /\ weak[Target(src[t])] >= 1
  <2>1. src[t] \in WeakTokens(Target(src[t]))
    BY <1>0, SharedPtrAssumption DEF WeakTokens, Target, Shape, TypeOK, WeakAddref
  <2>2. life[Target(src[t])] # "free"
    BY <1>0, SharedPtrAssumption DEF Target, NoUseAfterFree, TypeOK, Shape, WeakAddref
  <2> QED
    BY <1>0, <2>1, <2>2, TokenCounted
<1>1. TypeOK'
  BY <1>0, <1>A, SharedPtrAssumption DEF TypeOK, WeakAddref
<1>2. Shape'
  BY <1>0, SharedPtrAssumption DEF TypeOK, Shape, Exclusive, MayWrite, WeakAddref
<1>3. Exclusive'
  BY <1>0, <1>A, SharedPtrAssumption DEF TypeOK, Shape, Exclusive, MayRead, MayWrite, WeakAddref
<1>4. Sources'
  BY <1>0, <1>A, SharedPtrAssumption DEF TypeOK, Shape, Exclusive, Sources, Target, MayRead, MayWrite, WeakAddref
<1>5. NoUseAfterFree'
  BY <1>0, <1>A, SharedPtrAssumption DEF TypeOK, Shape, NoUseAfterFree, WeakAddref
<1>6. LastSteps'
  BY <1>0, <1>A, SharedPtrAssumption DEF TypeOK, Shape, LastSteps, WeakAddref
<1>7. (Unowned /\ Destroying /\ Freeing)'
  BY <1>0, <1>A, SharedPtrAssumption DEF TypeOK, Shape, Unowned, Destroying, Freeing, NoUseAfterFree, WeakAddref
<1>8. Dying'
  <2> SUFFICES ASSUME NEW b \in Blocks, life'[b] = "live", ref'[b] = 0
               PROVE  \E u \in Threads : pc'[u] = "free_value" /\ blk'[u] = b
    BY DEF Dying
  <2>1. life[b] = "live" /\ ref[b] = 0
    BY <1>0, <1>A DEF TypeOK, WeakAddref
  <2>2. PICK u \in Threads : pc[u] = "free_value" /\ blk[u] = b
    BY <2>1 DEF Dying
  <2>3. pc'[u] = "free_value" /\ blk'[u] = b
    BY <1>0, <1>A, <2>2 DEF TypeOK, WeakAddref
  <2> QED
    BY <2>3
<1>9. RefCountExact'
  <2> SUFFICES ASSUME NEW b \in Blocks PROVE ref'[b] = Cardinality(StrongHolders(b)')
    BY DEF RefCountExact
    <2>1. StrongHolders(b)' = StrongHolders(b)
      BY <1>0, <1>A, SharedPtrAssumption DEF StrongHolders, TypeOK, Shape, WeakAddref
    <2>2. ref'[b] = ref[b]
      BY <1>0, <1>A, SharedPtrAssumption DEF TypeOK, Shape, WeakAddref
    <2> QED
      BY <2>1, <2>2 DEF RefCountExact
<1>10. WeakCountExact'
  <2> SUFFICES ASSUME NEW b \in Blocks PROVE weak'[b] = Cardinality(WeakTokens(b)')
    BY DEF WeakCountExact
  <2>1. CASE Target(src[t]) = b
      <3>1. dst[t] \notin WeakTokens(b) /\ WeakTokens(b)' = WeakTokens(b) \cup {dst[t]}
        BY <1>0, <1>A, <2>1, SharedPtrAssumption DEF WeakTokens, ThreadHolds, TypeOK, Shape, WeakAddref
      <3>2. weak'[b] = weak[b] + 1
        BY <1>0, <1>A, <2>1, SharedPtrAssumption DEF TypeOK, Shape, WeakAddref
      <3> QED
        BY <3>1, <3>2, TokensFinite, CountJoins DEF WeakCountExact
  <2>2. CASE Target(src[t]) # b
      <3>1. WeakTokens(b)' = WeakTokens(b)
        BY <1>0, <1>A, <2>2, SharedPtrAssumption DEF WeakTokens, ThreadHolds, TypeOK, Shape, WeakAddref
      <3>2. weak'[b] = weak[b]
        BY <1>0, <1>A, <2>2, SharedPtrAssumption DEF TypeOK, Shape, WeakAddref
      <3> QED
        BY <3>1, <3>2 DEF WeakCountExact
  <2> QED
    BY <2>1, <2>2
<1> QED
  BY <1>1, <1>2, <1>3, <1>4, <1>5, <1>6, <1>7, <1>8, <1>9, <1>10


\* weak_ptr::reset hands the weak count to the thread.
LEMMA WeakResetKeeps ==
  ASSUME IInv, NEW t \in Threads, NEW w \in Weak, WeakReset(t, w)
  PROVE  IInv'
<1> USE DEF IInv, PtrOf, Strong
<1>0. sp[t] = NULL /\ t \notin Shared /\ w \notin Shared /\ w # t /\ blk[t] = NULL /\ wp[w] \in Blocks
  BY SharedPtrAssumption DEF Shape, TypeOK, WeakReset
<1>1. TypeOK'
  BY <1>0, SharedPtrAssumption DEF TypeOK, WeakReset
<1>2. Shape'
  BY <1>0, SharedPtrAssumption DEF TypeOK, Shape, WeakReset
<1>3. Exclusive'
  BY <1>0, SharedPtrAssumption DEF TypeOK, Shape, Exclusive, MayRead, MayWrite, WeakReset
<1>4. Sources'
  BY <1>0, SharedPtrAssumption DEF TypeOK, Shape, Exclusive, Sources, Target, MayRead, MayWrite, WeakReset
<1>5. NoUseAfterFree'
  BY <1>0, SharedPtrAssumption DEF TypeOK, Shape, NoUseAfterFree, WeakReset
<1>6. LastSteps'
  BY <1>0, SharedPtrAssumption DEF TypeOK, Shape, LastSteps, WeakReset
<1>7. (Unowned /\ Destroying /\ Freeing)'
  BY <1>0, SharedPtrAssumption DEF TypeOK, Shape, Unowned, Destroying, Freeing, NoUseAfterFree, WeakReset
<1>8. Dying'
  <2> SUFFICES ASSUME NEW b \in Blocks, life'[b] = "live", ref'[b] = 0
               PROVE  \E u \in Threads : pc'[u] = "free_value" /\ blk'[u] = b
    BY DEF Dying
  <2>1. life[b] = "live" /\ ref[b] = 0
    BY <1>0 DEF TypeOK, WeakReset
  <2>2. PICK u \in Threads : pc[u] = "free_value" /\ blk[u] = b
    BY <2>1 DEF Dying
  <2>3. pc'[u] = "free_value" /\ blk'[u] = b
    BY <1>0, <2>2 DEF TypeOK, WeakReset
  <2> QED
    BY <2>3
<1>9. RefCountExact'
  <2> SUFFICES ASSUME NEW b \in Blocks PROVE ref'[b] = Cardinality(StrongHolders(b)')
    BY DEF RefCountExact
    <2>1. StrongHolders(b)' = StrongHolders(b)
      BY <1>0, SharedPtrAssumption DEF StrongHolders, TypeOK, Shape, WeakReset
    <2>2. ref'[b] = ref[b]
      BY <1>0, SharedPtrAssumption DEF TypeOK, Shape, WeakReset
    <2> QED
      BY <2>1, <2>2 DEF RefCountExact
<1>10. WeakCountExact'
  <2> SUFFICES ASSUME NEW b \in Blocks PROVE weak'[b] = Cardinality(WeakTokens(b)')
    BY DEF WeakCountExact
  <2>1. CASE wp[w] = b
      <3>1. w \in WeakTokens(b) /\ t \notin WeakTokens(b) /\ WeakTokens(b)' = (WeakTokens(b) \ {w}) \cup {t}
        BY <1>0, <2>1, SharedPtrAssumption DEF WeakTokens, ThreadHolds, TypeOK, Shape, WeakReset
      <3>2. weak'[b] = weak[b]
        BY <1>0, <2>1, SharedPtrAssumption DEF TypeOK, Shape, WeakReset
      <3> QED
        BY <3>1, <3>2, TokensFinite, CountHandsOver DEF WeakCountExact
  <2>2. CASE wp[w] # b
      <3>1. WeakTokens(b)' = WeakTokens(b)
        BY <1>0, <2>2, SharedPtrAssumption DEF WeakTokens, ThreadHolds, TypeOK, Shape, WeakReset
      <3>2. weak'[b] = weak[b]
        BY <1>0, <2>2, SharedPtrAssumption DEF TypeOK, Shape, WeakReset
      <3> QED
        BY <3>1, <3>2 DEF WeakCountExact
  <2> QED
    BY <2>1, <2>2
<1> QED
  BY <1>1, <1>2, <1>3, <1>4, <1>5, <1>6, <1>7, <1>8, <1>9, <1>10


\* A move hands weak counts from variable to variable and to the thread.
LEMMA WeakMoveKeeps ==
  ASSUME IInv, NEW t \in Threads, NEW w \in Weak, NEW v \in Weak, WeakMove(t, w, v)
  PROVE  IInv'
<1> USE DEF IInv, PtrOf, Strong
<1>0. sp[t] = NULL /\ t \notin Shared \cup Weak /\ w \notin Shared /\ v \notin Shared /\ v # w /\ blk[t] = NULL
  BY SharedPtrAssumption DEF Shape, TypeOK, WeakMove
<1>1. TypeOK'
  BY <1>0, SharedPtrAssumption DEF TypeOK, WeakMove
<1>2. Shape'
  BY <1>0, SharedPtrAssumption DEF TypeOK, Shape, Exclusive, MayWrite, WeakMove
<1>3. Exclusive'
  BY <1>0, SharedPtrAssumption DEF TypeOK, Shape, Exclusive, MayRead, MayWrite, WeakMove
<1>4. Sources'
  BY <1>0, SharedPtrAssumption DEF TypeOK, Shape, Exclusive, Sources, Target, MayRead, MayWrite, WeakMove
<1>5. NoUseAfterFree'
  BY <1>0, SharedPtrAssumption DEF TypeOK, Shape, NoUseAfterFree, WeakMove
<1>6. LastSteps'
  BY <1>0, SharedPtrAssumption DEF TypeOK, Shape, LastSteps, WeakMove
<1>7. (Unowned /\ Destroying /\ Freeing)'
  BY <1>0, SharedPtrAssumption DEF TypeOK, Shape, Unowned, Destroying, Freeing, NoUseAfterFree, WeakMove
<1>8. Dying'
  <2> SUFFICES ASSUME NEW b \in Blocks, life'[b] = "live", ref'[b] = 0
               PROVE  \E u \in Threads : pc'[u] = "free_value" /\ blk'[u] = b
    BY DEF Dying
  <2>1. life[b] = "live" /\ ref[b] = 0
    BY <1>0 DEF TypeOK, WeakMove
  <2>2. PICK u \in Threads : pc[u] = "free_value" /\ blk[u] = b
    BY <2>1 DEF Dying
  <2>3. pc'[u] = "free_value" /\ blk'[u] = b
    BY <1>0, <2>2 DEF TypeOK, WeakMove
  <2> QED
    BY <2>3
<1>9. RefCountExact'
  <2> SUFFICES ASSUME NEW b \in Blocks PROVE ref'[b] = Cardinality(StrongHolders(b)')
    BY DEF RefCountExact
    <2>1. StrongHolders(b)' = StrongHolders(b)
      BY <1>0, SharedPtrAssumption DEF StrongHolders, TypeOK, Shape, WeakMove
    <2>2. ref'[b] = ref[b]
      BY <1>0, SharedPtrAssumption DEF TypeOK, Shape, WeakMove
    <2> QED
      BY <2>1, <2>2 DEF RefCountExact
<1>10. WeakCountExact'
  <2> SUFFICES ASSUME NEW b \in Blocks PROVE weak'[b] = Cardinality(WeakTokens(b)')
    BY DEF WeakCountExact
  <2>1. CASE wp[w] = b /\ wp[v] = b
      <3>1. v \in WeakTokens(b) /\ t \notin WeakTokens(b) /\ WeakTokens(b)' = (WeakTokens(b) \ {v}) \cup {t}
        BY <1>0, <2>1, SharedPtrAssumption DEF WeakTokens, ThreadHolds, TypeOK, Shape, WeakMove
      <3>2. weak'[b] = weak[b]
        BY <1>0, <2>1, SharedPtrAssumption DEF TypeOK, Shape, WeakMove
      <3> QED
        BY <3>1, <3>2, TokensFinite, CountHandsOver DEF WeakCountExact
  <2>2. CASE wp[w] = b /\ wp[v] # b
      <3>1. w \in WeakTokens(b) /\ t \notin WeakTokens(b) /\ WeakTokens(b)' = (WeakTokens(b) \ {w}) \cup {t}
        BY <1>0, <2>2, SharedPtrAssumption DEF WeakTokens, ThreadHolds, TypeOK, Shape, WeakMove
      <3>2. weak'[b] = weak[b]
        BY <1>0, <2>2, SharedPtrAssumption DEF TypeOK, Shape, WeakMove
      <3> QED
        BY <3>1, <3>2, TokensFinite, CountHandsOver DEF WeakCountExact
  <2>3. CASE wp[w] # b /\ wp[v] = b
      <3>1. v \in WeakTokens(b) /\ w \notin WeakTokens(b) /\ WeakTokens(b)' = (WeakTokens(b) \ {v}) \cup {w}
        BY <1>0, <2>3, SharedPtrAssumption DEF WeakTokens, ThreadHolds, TypeOK, Shape, WeakMove
      <3>2. weak'[b] = weak[b]
        BY <1>0, <2>3, SharedPtrAssumption DEF TypeOK, Shape, WeakMove
      <3> QED
        BY <3>1, <3>2, TokensFinite, CountHandsOver DEF WeakCountExact
  <2>4. CASE wp[w] # b /\ wp[v] # b
      <3>1. WeakTokens(b)' = WeakTokens(b)
        BY <1>0, <2>4, SharedPtrAssumption DEF WeakTokens, ThreadHolds, TypeOK, Shape, WeakMove
      <3>2. weak'[b] = weak[b]
        BY <1>0, <2>4, SharedPtrAssumption DEF TypeOK, Shape, WeakMove
      <3> QED
        BY <3>1, <3>2 DEF WeakCountExact
  <2> QED
    BY <2>1, <2>2, <2>3, <2>4
<1> QED
  BY <1>1, <1>2, <1>3, <1>4, <1>5, <1>6, <1>7, <1>8, <1>9, <1>10


\* weak_ptr::swap exchanges the weak counts of two variables.
LEMMA SwapWeakKeeps ==
  ASSUME IInv, NEW t \in Threads, NEW w \in Weak, NEW v \in Weak, SwapWeak(t, w, v)
  PROVE  IInv'
<1> USE DEF IInv, PtrOf, Strong
<1>0. w \notin Shared \cup Threads /\ v \notin Shared \cup Threads
  BY SharedPtrAssumption DEF Shape, TypeOK, SwapWeak
<1>1. TypeOK'
  BY <1>0, SharedPtrAssumption DEF TypeOK, SwapWeak
<1>2. Shape'
  BY <1>0, SharedPtrAssumption DEF TypeOK, Shape, Exclusive, MayWrite, SwapWeak
<1>3. Exclusive'
  BY <1>0, SharedPtrAssumption DEF TypeOK, Shape, Exclusive, MayRead, MayWrite, SwapWeak
<1>4. Sources'
  BY <1>0, SharedPtrAssumption DEF TypeOK, Shape, Exclusive, Sources, Target, MayRead, MayWrite, SwapWeak
<1>5. NoUseAfterFree'
  BY <1>0, SharedPtrAssumption DEF TypeOK, Shape, NoUseAfterFree, SwapWeak
<1>6. LastSteps'
  BY <1>0, SharedPtrAssumption DEF TypeOK, Shape, LastSteps, SwapWeak
<1>7. (Unowned /\ Destroying /\ Freeing)'
  BY <1>0, SharedPtrAssumption DEF TypeOK, Shape, Unowned, Destroying, Freeing, NoUseAfterFree, SwapWeak
<1>8. Dying'
  <2> SUFFICES ASSUME NEW b \in Blocks, life'[b] = "live", ref'[b] = 0
               PROVE  \E u \in Threads : pc'[u] = "free_value" /\ blk'[u] = b
    BY DEF Dying
  <2>1. life[b] = "live" /\ ref[b] = 0
    BY <1>0 DEF TypeOK, SwapWeak
  <2>2. PICK u \in Threads : pc[u] = "free_value" /\ blk[u] = b
    BY <2>1 DEF Dying
  <2>3. pc'[u] = "free_value" /\ blk'[u] = b
    BY <1>0, <2>2 DEF TypeOK, SwapWeak
  <2> QED
    BY <2>3
<1>9. RefCountExact'
  <2> SUFFICES ASSUME NEW b \in Blocks PROVE ref'[b] = Cardinality(StrongHolders(b)')
    BY DEF RefCountExact
    <2>1. StrongHolders(b)' = StrongHolders(b)
      BY <1>0, SharedPtrAssumption DEF StrongHolders, TypeOK, Shape, SwapWeak
    <2>2. ref'[b] = ref[b]
      BY <1>0, SharedPtrAssumption DEF TypeOK, Shape, SwapWeak
    <2> QED
      BY <2>1, <2>2 DEF RefCountExact
<1>10. WeakCountExact'
  <2> SUFFICES ASSUME NEW b \in Blocks PROVE weak'[b] = Cardinality(WeakTokens(b)')
    BY DEF WeakCountExact
  <2>1. CASE wp[w] = b /\ wp[v] # b
      <3>1. w \in WeakTokens(b) /\ v \notin WeakTokens(b) /\ WeakTokens(b)' = (WeakTokens(b) \ {w}) \cup {v}
        BY <1>0, <2>1, SharedPtrAssumption DEF WeakTokens, ThreadHolds, TypeOK, Shape, SwapWeak
      <3>2. weak'[b] = weak[b]
        BY <1>0, <2>1, SharedPtrAssumption DEF TypeOK, Shape, SwapWeak
      <3> QED
        BY <3>1, <3>2, TokensFinite, CountHandsOver DEF WeakCountExact
  <2>2. CASE wp[w] # b /\ wp[v] = b
      <3>1. v \in WeakTokens(b) /\ w \notin WeakTokens(b) /\ WeakTokens(b)' = (WeakTokens(b) \ {v}) \cup {w}
        BY <1>0, <2>2, SharedPtrAssumption DEF WeakTokens, ThreadHolds, TypeOK, Shape, SwapWeak
      <3>2. weak'[b] = weak[b]
        BY <1>0, <2>2, SharedPtrAssumption DEF TypeOK, Shape, SwapWeak
      <3> QED
        BY <3>1, <3>2, TokensFinite, CountHandsOver DEF WeakCountExact
  <2>3. CASE (wp[w] = b) <=> (wp[v] = b)
      <3>1. WeakTokens(b)' = WeakTokens(b)
        BY <1>0, <2>3, SharedPtrAssumption DEF WeakTokens, ThreadHolds, TypeOK, Shape, SwapWeak
      <3>2. weak'[b] = weak[b]
        BY <1>0, <2>3, SharedPtrAssumption DEF TypeOK, Shape, SwapWeak
      <3> QED
        BY <3>1, <3>2 DEF WeakCountExact
  <2> QED
    BY <2>1, <2>2, <2>3
<1> QED
  BY <1>1, <1>2, <1>3, <1>4, <1>5, <1>6, <1>7, <1>8, <1>9, <1>10

-----------------------------------------------------------------------------
(* The invariant holds, and with it what SharedPtr promises.                  *)

\* The invariant holds before the first call.
LEMMA InitOk == Init => IInv
<1> SUFFICES ASSUME Init PROVE IInv
  OBVIOUS
<1> USE DEF Init, Strong, PtrOf
<1>1. TypeOK
  BY DEF TypeOK
<1>2. RefCountExact
  <2> SUFFICES ASSUME NEW b \in Blocks PROVE ref[b] = Cardinality(StrongHolders(b))
    BY DEF RefCountExact
  <2>1. StrongHolders(b) = {}
    BY SharedPtrAssumption DEF StrongHolders
  <2> QED
    BY <2>1, FS_EmptySet
<1>3. WeakCountExact
  <2> SUFFICES ASSUME NEW b \in Blocks PROVE weak[b] = Cardinality(WeakTokens(b))
    BY DEF WeakCountExact
  <2>1. WeakTokens(b) = {}
    BY SharedPtrAssumption DEF WeakTokens, ThreadHolds
  <2> QED
    BY <2>1, FS_EmptySet
<1>4. NoUseAfterFree /\ Shape /\ Exclusive /\ Sources
  BY DEF NoUseAfterFree, Shape, Exclusive, Sources
<1>5. Unowned /\ Dying /\ Destroying /\ Freeing /\ LastSteps
  BY DEF Unowned, Dying, Destroying, Freeing, LastSteps
<1> QED
  BY <1>1, <1>2, <1>3, <1>4, <1>5 DEF IInv

\* No step of any thread breaks the invariant.
LEMMA NextOk == IInv /\ [Next]_vars => IInv'
<1> SUFFICES ASSUME IInv, [Next]_vars PROVE IInv'
  OBVIOUS
<1>1. CASE UNCHANGED vars
  <2> USE <1>1 DEF vars, IInv
  <2>1. \A b \in Blocks : StrongHolders(b)' = StrongHolders(b) /\ WeakTokens(b)' = WeakTokens(b)
    BY DEF StrongHolders, WeakTokens, ThreadHolds
  <2>2. RefCountExact' /\ WeakCountExact'
    BY <2>1 DEF RefCountExact, WeakCountExact
  <2>3. (TypeOK /\ NoUseAfterFree /\ Shape /\ Exclusive)'
    BY DEF TypeOK, NoUseAfterFree, Shape, Exclusive
  <2>4. (Sources /\ Unowned /\ Dying /\ Destroying /\ Freeing /\ LastSteps)'
    BY DEF Sources, Target, Unowned, Dying, Destroying, Freeing, LastSteps
  <2> QED
    BY <2>2, <2>3, <2>4
<1>2. ASSUME NEW t \in Threads, Call(t) PROVE IInv'
  BY <1>2, CopyAssignKeeps, MoveAssignKeeps, SwapSharedKeeps, ResetKeeps, MakeKeeps, LockLoadKeeps,
    WeakAssignKeeps, WeakResetKeeps, WeakMoveKeeps, SwapWeakKeeps DEF Call
<1>3. ASSUME NEW t \in Threads, Step(t) PROVE IInv'
  BY <1>3, AddrefWeakKeeps, LockTakesKeeps, LockRetriesKeeps, SwapKeeps, ReleaseKeeps,
    FreeValueKeeps, WeakReleaseKeeps, FreeRefCountKeeps, WeakAddrefKeeps DEF Step
<1> QED
  BY <1>1, <1>2, <1>3 DEF Next

\* The inductive invariant, for any number of threads, pointers and blocks.
THEOREM Invariant == SafeSpec => []IInv
BY InitOk, NextOk, PTL DEF SafeSpec

\* The types, among them that no counter ever goes below zero.
THEOREM TypeCorrect == SafeSpec => []TypeOK
<1>1. IInv => TypeOK
  BY DEF IInv
<1> QED
  BY <1>1, Invariant, PTL

\* The strong count is exact at every point of every interleaving.
THEOREM CountsExact == SafeSpec => []RefCountExact
<1>1. IInv => RefCountExact
  BY DEF IInv
<1> QED
  BY <1>1, Invariant, PTL

\* So is the weak count, the share the strong owners have in it included.
THEOREM WeakCountsExact == SafeSpec => []WeakCountExact
<1>1. IInv => WeakCountExact
  BY DEF IInv
<1> QED
  BY <1>1, Invariant, PTL

\* No shared_ptr, weak_ptr or call in progress reaches freed memory, and no
\* shared_ptr reaches a destroyed value.
THEOREM MemorySafe == SafeSpec => []NoUseAfterFree
<1>1. IInv => NoUseAfterFree
  BY DEF IInv
<1> QED
  BY <1>1, Invariant, PTL

\* One thread destroys each value and one frees each block, out of the reach of
\* everybody else.
THEOREM FreedOnce == SafeSpec => []FreedByOne
<1>1. IInv => FreedByOne
  <2> SUFFICES ASSUME IInv, NEW t \in Threads
               PROVE  /\ pc[t] = "free_value" =>
                           /\ StrongHolders(blk[t]) = {}
                           /\ life[blk[t]] = "live"
                           /\ \A u \in Threads \ {t} : pc[u] = "free_value" => blk[u] # blk[t]
                      /\ pc[t] = "free_ref_count_sp" =>
                           /\ life[blk[t]] = "dead"
                           /\ WeakTokens(blk[t]) = {}
                           /\ \A u \in Threads \ {t} : blk[u] # blk[t]
    BY DEF FreedByOne
  <2> USE DEF IInv
  <2>1. pc[t] \in {"free_value", "free_ref_count_sp"} => blk[t] \in Blocks
    BY DEF Shape, TypeOK, PtrOf
  <2>2. ASSUME pc[t] = "free_value" PROVE StrongHolders(blk[t]) = {}
    BY <2>1, <2>2, StrongFinite, FS_EmptySet DEF Destroying, RefCountExact
  <2>3. ASSUME pc[t] = "free_ref_count_sp" PROVE WeakTokens(blk[t]) = {}
    BY <2>1, <2>3, TokensFinite, FS_EmptySet DEF Freeing, WeakCountExact
  <2>4. ASSUME pc[t] = "free_ref_count_sp", NEW u \in Threads \ {t}, blk[u] = blk[t] PROVE FALSE
    <3>1. pc[u] \in {"free_value", "weak_release", "free_ref_count_sp"}
      BY <2>1, <2>4, SharedPtrAssumption DEF Shape
    <3>2. pc[u] = "free_ref_count_sp"
      BY <2>3, <2>4, <3>1 DEF WeakTokens, ThreadHolds
    <3> QED
      BY <2>4, <3>2 DEF LastSteps
  <2> QED
    BY <2>2, <2>3, <2>4 DEF Destroying, Freeing, LastSteps
<1> QED
  BY <1>1, Invariant, PTL

\* shared_from_this through an owner never comes back empty.
THEOREM SharedFromThisOk == SafeSpec => []SharedFromThisSucceeds
<1>1. IInv => SharedFromThisSucceeds
  <2> SUFFICES ASSUME IInv, NEW t \in Threads, pc[t] = "lock", src[t] \in Shared
               PROVE  ref[sp[src[t]]] > 0
    BY DEF SharedFromThisSucceeds
  <2>1. src[t] \in Strong /\ sp[src[t]] # NULL
    BY SharedPtrAssumption DEF IInv, Sources, Target, Strong
  <2> QED
    BY <2>1, OwnerCounted DEF IInv
<1> QED
  BY <1>1, Invariant, PTL

\* Whatever the interleaving of lock() with the last release, a value whose
\* count reached zero is never owned again.
THEOREM NoResurrection == SafeSpec => ExpiredForGood
<1>1. ASSUME IInv, [Next]_vars, NEW b \in Blocks, life[b] # "free", ref[b] = 0
      PROVE  ref'[b] = 0
  <2> USE DEF IInv
  <2>1. ASSUME NEW t \in Threads, NEW g \in Shared, NEW d \in Shared, CopyAssign(t, d, g)
        PROVE  ref'[b] = 0
    <3>1. sp[g] # b
      BY <1>1, OwnerCounted, SharedPtrAssumption DEF Strong
    <3> QED
      BY <1>1, <2>1, <3>1 DEF CopyAssign, TypeOK
  <2>2. ASSUME NEW t \in Threads, NEW d \in Shared, NEW c \in Blocks, Make(t, d, c)
        PROVE  ref'[b] = 0
    BY <1>1, <2>2 DEF Make, TypeOK
  <2>3. ASSUME NEW t \in Threads, LockTakes(t) PROVE ref'[b] = 0
    BY <1>1, <2>3 DEF LockTakes, TypeOK, Shape
  <2>4. ASSUME NEW t \in Threads, Release(t) PROVE ref'[b] = 0
    <3>1. sp[t] # b
      BY <1>1, <2>4, OwnerCounted DEF Strong, Shape, Release
    <3> QED
      BY <1>1, <2>4, <3>1 DEF Release, TypeOK
  <2>5. CASE UNCHANGED ref
    BY <1>1, <2>5
  <2> QED
    BY <1>1, <2>1, <2>2, <2>3, <2>4, <2>5 DEF Next, Call, Step, vars, MoveAssign, SwapShared, Reset,
      LockLoad, WeakAssign, WeakReset, WeakMove, SwapWeak, AddrefWeak, LockRetries, Swap, FreeValue,
      WeakRelease, FreeRefCount, WeakAddref
<1>2. IInv /\ [Next]_vars => [\A b \in Blocks : life[b] # "free" /\ ref[b] = 0 => ref'[b] = 0]_vars
  BY <1>1
<1> QED
  BY <1>2, Invariant, PTL DEF SafeSpec, ExpiredForGood

-----------------------------------------------------------------------------
(* The counted pointers implement plain ownership.                            *)

\* The initial states are initial states of Ownership.
LEMMA InitRefines == Init => O!OInit
BY DEF Init, O!OInit

\* Each step inside a call is one step of Ownership or invisible to it.
LEMMA StepRefines ==
  ASSUME IInv, NEW t \in Threads, Step(t)
  PROVE  [O!ONext]_(O!ovars)
<1> USE DEF IInv, O!ovars
<1>0. t \in Strong
  BY DEF Strong
<1>1. CASE AddrefWeak(t) \/ LockRetries(t) \/ WeakRelease(t)
  BY <1>1 DEF AddrefWeak, LockRetries, WeakRelease
<1>2. CASE LockTakes(t)
  <2>1. src[t] \in Shared \cup Weak /\ Target(src[t]) \in Blocks /\ sp[t] = NULL
    BY <1>2, SharedPtrAssumption DEF LockTakes, Shape, Sources, Target, TypeOK, PtrOf, Strong
  <2>2. sp' = [sp EXCEPT ![t] = Target(src[t])] /\ UNCHANGED <<wp, life>>
    BY <1>2 DEF LockTakes
  <2>3. CASE src[t] \in Shared
    BY <1>0, <2>1, <2>2, <2>3 DEF Target, Strong, O!Share, O!ONext
  <2>4. CASE src[t] \in Weak
    <3>1. PICK h \in Strong : sp[h] = wp[src[t]]
      <4>1. ref[Target(src[t])] # 0
        BY <1>2 DEF LockTakes, Shape
      <4>2. StrongHolders(Target(src[t])) # {}
        BY <2>1, <4>1, FS_EmptySet DEF RefCountExact
      <4> QED
        BY <2>4, <4>2, SharedPtrAssumption DEF StrongHolders, Target
    <3>2. Target(src[t]) = wp[src[t]]
      BY <2>4, SharedPtrAssumption DEF Target
    <3>3. O!Lock(t, src[t])
      BY <2>1, <2>2, <3>1, <3>2 DEF O!Lock, O!Owned
    <3> QED
      BY <1>0, <2>4, <3>3 DEF O!ONext
  <2> QED
    BY <2>1, <2>3, <2>4
<1>3. CASE Swap(t)
  <2>1. dst[t] \in Strong
    BY <1>3 DEF Swap, Shape, Strong
  <2>2. O!Exchange(t, dst[t])
    BY <1>3 DEF Swap, O!Exchange
  <2> QED
    BY <1>0, <2>1, <2>2 DEF O!ONext
<1>4. CASE Release(t)
  <2>1. O!Drop(t)
    BY <1>4 DEF Release, O!Drop
  <2> QED
    BY <1>0, <2>1 DEF O!ONext
<1>5. CASE FreeValue(t)
  <2>1. blk[t] \in Blocks /\ life[blk[t]] = "live" /\ ref[blk[t]] = 0
    BY <1>5, SharedPtrAssumption DEF FreeValue, Shape, Destroying, TypeOK, PtrOf
  <2>2. ~O!Owned(blk[t])
    <3>1. StrongHolders(blk[t]) = {}
      BY <2>1, StrongFinite, FS_EmptySet DEF RefCountExact
    <3> QED
      BY <3>1 DEF StrongHolders, O!Owned
  <2>3. life' = [life EXCEPT ![blk[t]] = "dead"]
    <3>1. t \in WeakTokens(blk[t])
      BY <1>5 DEF WeakTokens, ThreadHolds, FreeValue
    <3>2. ASSUME blk[t] \in SelfWeak PROVE weak[blk[t]] # 1
      <4>1. blk[t] \in WeakTokens(blk[t]) /\ blk[t] # t
        BY <2>1, <3>2, SharedPtrAssumption DEF WeakTokens
      <4> QED
        BY <2>1, <3>1, <4>1, TwoTokensCounted
    <3>3. ~(weak[blk[t]] = 1 /\ blk[t] \in SelfWeak)
      BY <3>2
    <3> QED
      BY <1>5, <3>3 DEF FreeValue
  <2>4. {b \in Blocks : life'[b] = "live"} = {b \in Blocks : life[b] = "live"} \ {blk[t]}
    BY <2>1, <2>3 DEF TypeOK
  <2>5. {b \in Blocks : life'[b] # "free"} = {b \in Blocks : life[b] # "free"}
    BY <2>1, <2>3 DEF TypeOK
  <2>6. \E o \in Blocks : O!Destroy(o)
    BY <1>5, <2>1, <2>2, <2>4, <2>5 DEF FreeValue, O!Destroy
  <2>7. O!ONext
    BY <2>6 DEF O!ONext
  <2> QED
    BY <2>7
<1>6. CASE FreeRefCount(t)
  <2>1. blk[t] \in Blocks /\ life[blk[t]] = "dead" /\ weak[blk[t]] = 0
    BY <1>6, SharedPtrAssumption DEF FreeRefCount, Shape, Freeing, TypeOK, PtrOf
  <2>2. ~O!Owned(blk[t])
    <3>1. ref[blk[t]] = 0
      BY <2>1 DEF Unowned
    <3>2. StrongHolders(blk[t]) = {}
      BY <2>1, <3>1, StrongFinite, FS_EmptySet DEF RefCountExact
    <3> QED
      BY <3>2 DEF StrongHolders, O!Owned
  <2>3. ~O!Watched(blk[t])
    <3>1. WeakTokens(blk[t]) = {}
      BY <2>1, TokensFinite, FS_EmptySet DEF WeakCountExact
    <3> QED
      BY <3>1 DEF WeakTokens, O!Watched
  <2>4. {b \in Blocks : life'[b] = "live"} = {b \in Blocks : life[b] = "live"}
    BY <1>6, <2>1 DEF FreeRefCount, TypeOK
  <2>5. {b \in Blocks : life'[b] # "free"} = {b \in Blocks : life[b] # "free"} \ {blk[t]}
    BY <1>6, <2>1 DEF FreeRefCount, TypeOK
  <2>6. \E o \in Blocks : O!Reclaim(o)
    BY <1>6, <2>1, <2>2, <2>3, <2>4, <2>5 DEF FreeRefCount, O!Reclaim
  <2>7. O!ONext
    BY <2>6 DEF O!ONext
  <2> QED
    BY <2>7
<1>7. CASE WeakAddref(t)
  <2>1. dst[t] \in Weak /\ src[t] \in Shared \cup Weak /\ Target(src[t]) \in Blocks
    BY <1>7, SharedPtrAssumption DEF WeakAddref, Shape, Sources, Target, TypeOK, PtrOf, Strong
  <2>2. O!Owned(Target(src[t])) \/ O!Watched(Target(src[t]))
    BY <2>1 DEF Target, Strong, O!Owned, O!Watched
  <2>3. O!Observe(dst[t], Target(src[t]))
    BY <1>7, <2>2 DEF WeakAddref, O!Observe
  <2> QED
    BY <2>1, <2>3 DEF O!ONext
<1> QED
  BY <1>1, <1>2, <1>3, <1>4, <1>5, <1>6, <1>7 DEF Step

\* So is the first step of each call.
LEMMA CallRefines ==
  ASSUME IInv, NEW t \in Threads, Call(t)
  PROVE  [O!ONext]_(O!ovars)
<1> USE DEF IInv, O!ovars
<1>0. t \in Strong /\ (pc[t] = "idle" => sp[t] = NULL)
  BY DEF Strong, Shape
<1>1. ASSUME NEW d \in Shared, NEW g \in Shared, CopyAssign(t, d, g) PROVE [O!ONext]_(O!ovars)
  <2>1. O!Share(t, g)
    BY <1>0, <1>1 DEF CopyAssign, O!Share
  <2> QED
    BY <1>0, <2>1 DEF O!ONext, Strong
<1>2. ASSUME NEW d \in Shared, NEW g \in Shared, MoveAssign(t, d, g) PROVE [O!ONext]_(O!ovars)
  <2>1. O!Exchange(t, g)
    BY <1>0, <1>2 DEF MoveAssign, O!Exchange
  <2> QED
    BY <1>0, <2>1 DEF O!ONext, Strong
<1>3. ASSUME NEW d \in Shared, NEW g \in Shared, SwapShared(t, d, g) PROVE [O!ONext]_(O!ovars)
  <2>1. O!Exchange(d, g)
    BY <1>3 DEF SwapShared, O!Exchange
  <2> QED
    BY <2>1 DEF O!ONext, Strong
<1>4. ASSUME NEW d \in Shared, Reset(t, d) PROVE [O!ONext]_(O!ovars)
  BY <1>4 DEF Reset
<1>5. ASSUME NEW d \in Shared, NEW c \in Blocks, Make(t, d, c) PROVE [O!ONext]_(O!ovars)
  <2>1. life' = [life EXCEPT ![c] = "live"] /\ life[c] = "free" /\ sp[t] = NULL
    BY <1>0, <1>5 DEF Make
  <2>2. {b \in Blocks : life'[b] = "live"} = {b \in Blocks : life[b] = "live"} \cup {c}
    BY <2>1 DEF TypeOK
  <2>3. {b \in Blocks : life'[b] # "free"} = {b \in Blocks : life[b] # "free"} \cup {c}
    BY <2>1 DEF TypeOK
  <2>4. O!Create(t, c)
    BY <1>5, <2>1, <2>2, <2>3 DEF Make, O!Create
  <2> QED
    BY <1>0, <2>4 DEF O!ONext
<1>6. ASSUME NEW d \in Shared, NEW w \in Shared \cup Weak, LockLoad(t, d, w)
      PROVE  [O!ONext]_(O!ovars)
  BY <1>6 DEF LockLoad
<1>7. ASSUME NEW w \in Weak, NEW g \in Shared \cup Weak, WeakAssign(t, w, g)
      PROVE  [O!ONext]_(O!ovars)
  <2>1. O!Forget(w)
    BY <1>7 DEF WeakAssign, O!Forget
  <2> QED
    BY <2>1 DEF O!ONext
<1>8. ASSUME NEW w \in Weak, WeakReset(t, w) PROVE [O!ONext]_(O!ovars)
  <2>1. O!Forget(w)
    BY <1>8 DEF WeakReset, O!Forget
  <2> QED
    BY <2>1 DEF O!ONext
<1>9. ASSUME NEW w \in Weak, NEW v \in Weak, WeakMove(t, w, v) \/ SwapWeak(t, w, v)
      PROVE  [O!ONext]_(O!ovars)
  <2>1. O!PassOn(w, v)
    BY <1>9 DEF WeakMove, SwapWeak, O!PassOn
  <2> QED
    BY <2>1 DEF O!ONext
<1> QED
  BY <1>1, <1>2, <1>3, <1>4, <1>5, <1>6, <1>7, <1>8, <1>9 DEF Call

\* The safety part of the refinement: every behaviour of the counted pointers is
\* a behaviour of Ownership.
THEOREM Refinement == SafeSpec => O!OSafeSpec
<1>1. ASSUME IInv, [Next]_vars PROVE [O!ONext]_(O!ovars)
  <2>1. CASE UNCHANGED vars
    BY <2>1 DEF vars, O!ovars
  <2> QED
    BY <1>1, <2>1, StepRefines, CallRefines DEF Next
<1> QED
  BY <1>1, Invariant, InitRefines, PTL DEF SafeSpec, O!OSafeSpec
=============================================================================
