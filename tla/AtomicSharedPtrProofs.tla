----------------------- MODULE AtomicSharedPtrProofs -----------------------
(* Proofs about AtomicSharedPtr, for any number of threads, variables and     *)
(* blocks, and either kind of mutex.                                          *)
(*                                                                            *)
(* What a thread holds is not in its state: it follows from what is left of   *)
(* its call.  The inductive invariant says, for some place in some function   *)
(* and some place in a deleter in front of it, that todo is the rest from     *)
(* there, how deep the thread has locked the mutex there, which of its        *)
(* registers own something, and what it has read and still relies on.         *)
EXTENDS AtomicSharedPtr, FiniteSetTheorems, SequenceTheorems, TLAPS

-----------------------------------------------------------------------------
(* Places.                                                                    *)

\* What is left of s from its i-th step on.
Left(s, i) == SubSeq(s, i, Len(s))

Bodies == {"load", "store", "exchange", "compare", "success", "failure", "drop"}

Body(f, c) ==
  CASE f = "load" -> atomic_load(c)
    [] f = "store" -> atomic_store(c)
    [] f = "exchange" -> atomic_exchange(c)
    [] f = "compare" -> atomic_compare_exchange_strong(c)
    [] f = "success" -> Success(c)
    [] f = "failure" -> Failure(c)
    [] f = "drop" -> <<Release("mine")>>

Size(f) ==
  CASE f = "load" -> 6
    [] f = "store" -> 4
    [] f = "exchange" -> 5
    [] f = "compare" -> 2
    [] f = "success" -> 6
    [] f = "failure" -> 6
    [] f = "drop" -> 1

\* A deleter for e from its d-th step on, in front of f from its i-th.
RestAt(f, i, c, d, e) == Left(Deleter(e), d) \o Left(Body(f, c), i)

\* What holds there: the mutex, the registers that may own something, those
\* that do not count yet, and where a release can have put a deleter.
LockedAt(f, i) ==
  \/ f = "load" /\ i \in 2 .. 4
  \/ f \in {"store", "exchange"} /\ i \in 2 .. 3
  \/ f = "compare" /\ i = 2
  \/ f \in {"success", "failure"} /\ i \in 1 .. 5

Depth(f, i, d) == (IF LockedAt(f, i) THEN 1 ELSE 0) + (IF d \in 2 .. 4 THEN 1 ELSE 0)

Used(f, i, d) ==
  {r \in Regs :
     \/ r = "mine"
     \/ r = "arg" /\ f \notin {"load", "drop"} /\ i <= Size(f)
     \/ r = "tmp" /\ f = "load" /\ i \in 3 .. 6
     \/ r = "tmp" /\ f \in {"success", "failure"} /\ i \in 2 .. 4
     \/ r = "del" /\ d \in 3 .. 5}

BorrowedAt(f, i, d) ==
  {r \in Regs :
     \/ r = "tmp" /\ f = "load" /\ i = 3
     \/ r = "tmp" /\ f \in {"success", "failure"} /\ i = 2
     \/ r = "del" /\ d = 3}

Interruptible(f, i) == i = Size(f) + 1 \/ (f \in {"success", "failure"} /\ i = 5)

IsPlace(f, i, c, d, e) ==
  /\ f \in Bodies /\ i \in 1 .. Size(f) + 1 /\ c \in Cells \cup {NULL}
  /\ d \in 1 .. 6 /\ e \in Cells \cup {NULL}
  /\ f # "drop" => c \in Cells
  /\ d # 6 => e \in Cells /\ Interruptible(f, i)

-----------------------------------------------------------------------------
(* What the places are, whatever the state.                                   *)

LEMMA LeftNext ==
  ASSUME NEW S, NEW s \in Seq(S), NEW i \in 1 .. Len(s)
  PROVE  /\ Left(s, i) # <<>> /\ Head(Left(s, i)) = s[i]
         /\ Tail(Left(s, i)) = Left(s, i + 1) /\ Left(s, i) \in Seq(S)
  <1>0. /\ Left(s, i) \in Seq(S) /\ Len(Left(s, i)) = Len(s) - i + 1
        /\ Left(s, i)[1] = s[i]
    BY SubSeqProperties DEF Left
  <1>1. Left(s, i) # <<>> /\ Head(Left(s, i)) = s[i] /\ Left(s, i) \in Seq(S)
    BY <1>0
  <1>2. Len(Left(s, i)) = Len(s) - i + 1 /\ Len(Left(s, i + 1)) = Len(s) - i
    BY DEF Left
  <1>3. Tail(Left(s, i)) \in Seq(S) /\ Left(s, i + 1) \in Seq(S)
    BY <1>1 DEF Left
  <1>4. Len(Tail(Left(s, i))) = Len(Left(s, i + 1))
    BY <1>1, <1>2
  <1>5. \A j \in 1 .. Len(s) - i : Tail(Left(s, i))[j] = Left(s, i + 1)[j]
    BY <1>1, <1>2, <1>3 DEF Left
  <1>6. Tail(Left(s, i)) = Left(s, i + 1)
    BY <1>2, <1>3, <1>4, <1>5, SeqEqual
  <1>7. QED
    BY <1>1, <1>6

LEMMA LeftEnd ==
  ASSUME NEW S, NEW s \in Seq(S)
  PROVE  Left(s, Len(s) + 1) = <<>> /\ Left(s, 1) = s
  BY DEF Left

LEMMA LeftSeq ==
  ASSUME NEW S, NEW s \in Seq(S), NEW i \in 1 .. Len(s) + 1
  PROVE  Left(s, i) \in Seq(S)
  BY DEF Left

LEMMA InFront ==
  ASSUME NEW S, NEW s \in Seq(S), NEW u \in Seq(S)
  PROVE  /\ s # <<>> => s \o u # <<>> /\ Head(s \o u) = Head(s) /\ Tail(s \o u) = Tail(s) \o u
         /\ <<>> \o u = u /\ s \o <<>> = s /\ s \o u \in Seq(S)
  OBVIOUS

AnySteps(c) ==
  Steps \cup {Read(c, "tmp"), Read(c, "del"), Swap(c, "arg"), Compare(c), Assign(c)}

LEMMA BodyType ==
  ASSUME NEW f \in Bodies, NEW c
  PROVE  /\ Len(Body(f, c)) = Size(f) /\ Size(f) \in {1, 2, 4, 5, 6}
         /\ Body(f, c) \in Seq(AnySteps(c))
         /\ f = "drop" \/ c \in Cells => Body(f, c) \in Seq(Steps)
  <1>1. CASE f = "load"
    BY <1>1 DEF Body, Size, atomic_load, AnySteps, Steps, Regs, Lock, Unlock, AddRef, Release, Read, Exchange
  <1>2. CASE f = "store"
    BY <1>2 DEF Body, Size, atomic_store, AnySteps, Steps, Regs, Lock, Unlock, Release, Swap
  <1>3. CASE f = "exchange"
    BY <1>3 DEF Body, Size, atomic_exchange, AnySteps, Steps, Regs, Lock, Unlock, Release, Swap, Exchange
  <1>4. CASE f = "compare"
    BY <1>4 DEF Body, Size, atomic_compare_exchange_strong, AnySteps, Steps, Lock, Compare
  <1>5. CASE f = "success"
    BY <1>5 DEF Body, Size, Success, AnySteps, Steps, Regs, Unlock, AddRef, Release, Copy, Assign
  <1>6. CASE f = "failure"
    BY <1>6 DEF Body, Size, Failure, AnySteps, Steps, Regs, Unlock, AddRef, Release, Read, Exchange
  <1>7. CASE f = "drop"
    BY <1>7 DEF Body, Size, AnySteps, Steps, Regs, Release
  <1>8. QED
    BY <1>1, <1>2, <1>3, <1>4, <1>5, <1>6, <1>7 DEF Bodies

LEMMA DeleterType ==
  ASSUME NEW e
  PROVE  /\ Len(Deleter(e)) = 5 /\ Deleter(e) \in Seq(AnySteps(e))
         /\ e \in Cells => Deleter(e) \in Seq(Steps)
  BY DEF Deleter, AnySteps, Steps, Regs, Lock, Unlock, AddRef, Release, Read

\* The next step at a place, and the place after it.
LEMMA PlaceStep ==
  ASSUME NEW f, NEW i, NEW c, NEW d, NEW e, IsPlace(f, i, c, d, e)
  PROVE  /\ d # 6 => /\ RestAt(f, i, c, d, e) # <<>>
                     /\ Head(RestAt(f, i, c, d, e)) = Deleter(e)[d]
                     /\ Tail(RestAt(f, i, c, d, e)) = RestAt(f, i, c, d + 1, e)
         /\ d = 6 => RestAt(f, i, c, d, e) = Left(Body(f, c), i)
         /\ d = 6 /\ i # Size(f) + 1 =>
              /\ RestAt(f, i, c, d, e) # <<>>
              /\ Head(RestAt(f, i, c, d, e)) = Body(f, c)[i]
              /\ Tail(RestAt(f, i, c, d, e)) = RestAt(f, i + 1, c, d, e)
         /\ d = 6 /\ i = Size(f) + 1 => RestAt(f, i, c, d, e) = <<>>
         /\ RestAt(f, i, c, d, e) \in Seq(Steps)
         /\ RestAt(f, i, c, 1, e) = Deleter(e) \o Left(Body(f, c), i)
  <1> DEFINE S == AnySteps(c) \cup AnySteps(e)
  <1>1. f \in Bodies /\ i \in 1 .. Size(f) + 1 /\ d \in 1 .. 6 /\ Size(f) \in {1, 2, 4, 5, 6}
    BY BodyType DEF IsPlace
  <1>2. Body(f, c) \in Seq(AnySteps(c)) /\ Deleter(e) \in Seq(AnySteps(e))
    BY <1>1, BodyType, DeleterType
  <1>3. Body(f, c) \in Seq(S) /\ Len(Body(f, c)) = Size(f) /\ Deleter(e) \in Seq(S) /\ Len(Deleter(e)) = 5
    BY <1>1, <1>2, BodyType, DeleterType, SeqMonotonic
  <1> HIDE DEF S
  <1>4. Left(Body(f, c), i) \in Seq(S) /\ Left(Deleter(e), d) \in Seq(S)
    <2>1. i \in 1 .. Len(Body(f, c)) + 1 /\ d \in 1 .. Len(Deleter(e)) + 1
      BY <1>1, <1>3
    <2>2. QED
      BY <1>3, <2>1, LeftSeq
  <1>5. Left(Deleter(e), 6) = <<>> /\ Left(Deleter(e), 1) = Deleter(e) /\ Left(Body(f, c), Size(f) + 1) = <<>>
    <2>1. Len(Deleter(e)) + 1 = 6
      BY <1>3
    <2>2. QED
      BY <1>3, <2>1, LeftEnd
  <1>6. ASSUME d # 6
        PROVE  /\ RestAt(f, i, c, d, e) # <<>>
               /\ Head(RestAt(f, i, c, d, e)) = Deleter(e)[d]
               /\ Tail(RestAt(f, i, c, d, e)) = RestAt(f, i, c, d + 1, e)
    <2>1. d \in 1 .. Len(Deleter(e))
      BY <1>1, <1>3, <1>6
    <2>2. /\ Left(Deleter(e), d) # <<>> /\ Head(Left(Deleter(e), d)) = Deleter(e)[d]
          /\ Tail(Left(Deleter(e), d)) = Left(Deleter(e), d + 1)
      BY <1>3, <2>1, LeftNext
    <2>3. /\ Left(Deleter(e), d) \o Left(Body(f, c), i) # <<>>
          /\ Head(Left(Deleter(e), d) \o Left(Body(f, c), i)) = Head(Left(Deleter(e), d))
          /\ Tail(Left(Deleter(e), d) \o Left(Body(f, c), i)) = Tail(Left(Deleter(e), d)) \o Left(Body(f, c), i)
      BY <1>4, <2>2, InFront
    <2>4. QED
      BY <2>2, <2>3 DEF RestAt
  <1>7. ASSUME d = 6
        PROVE  RestAt(f, i, c, d, e) = Left(Body(f, c), i)
    BY <1>4, <1>5, <1>7, InFront DEF RestAt
  <1>8. ASSUME d = 6, i # Size(f) + 1
        PROVE  /\ RestAt(f, i, c, d, e) # <<>>
               /\ Head(RestAt(f, i, c, d, e)) = Body(f, c)[i]
               /\ Tail(RestAt(f, i, c, d, e)) = RestAt(f, i + 1, c, d, e)
    <2>1. i \in 1 .. Len(Body(f, c))
      BY <1>1, <1>3, <1>8
    <2>2. /\ Left(Body(f, c), i) # <<>> /\ Head(Left(Body(f, c), i)) = Body(f, c)[i]
          /\ Tail(Left(Body(f, c), i)) = Left(Body(f, c), i + 1)
      BY <1>3, <2>1, LeftNext
    <2>3. Left(Body(f, c), i + 1) \in Seq(S)
      BY <1>1, <1>3, <1>8, LeftSeq
    <2>4. RestAt(f, i + 1, c, d, e) = Left(Body(f, c), i + 1)
      BY <1>5, <1>8, <2>3, InFront DEF RestAt
    <2>5. QED
      BY <1>7, <1>8, <2>2, <2>4
  <1>9. d = 6 /\ i = Size(f) + 1 => RestAt(f, i, c, d, e) = <<>>
    BY <1>5, <1>7
  <1>10. RestAt(f, i, c, d, e) \in Seq(Steps)
    <2>1. Left(Body(f, c), i) \in Seq(Steps)
      BY <1>1, <1>3, BodyType, LeftSeq DEF IsPlace
    <2>2. CASE d = 6
      BY <1>7, <2>1, <2>2
    <2>3. CASE d # 6
      <3>1. Left(Deleter(e), d) \in Seq(Steps)
        <4>1. e \in Cells /\ Deleter(e) \in Seq(Steps) /\ d \in 1 .. Len(Deleter(e)) + 1
          BY <1>1, <1>3, <2>3, DeleterType DEF IsPlace
        <4>2. QED
          BY <4>1, LeftSeq
      <3>2. QED
        BY <2>1, <3>1, InFront DEF RestAt
    <2>4. QED
      BY <2>2, <2>3
  <1>11. RestAt(f, i, c, 1, e) = Deleter(e) \o Left(Body(f, c), i)
    BY <1>5 DEF RestAt
  <1>12. QED
    BY <1>6, <1>7, <1>8, <1>9, <1>10, <1>11

\* Where a thread borrows: in front of its addrefs.
LEMMA PlaceBorrows ==
  ASSUME NEW f, NEW i, NEW c, NEW d, NEW e, IsPlace(f, i, c, d, e), NEW r \in Regs
  PROVE  (RestAt(f, i, c, d, e) # <<>> /\ Head(RestAt(f, i, c, d, e)) = AddRef(r))
           <=> r \in BorrowedAt(f, i, d)
  <1> DEFINE q == RestAt(f, i, c, d, e)
  <1>1. f \in Bodies /\ i \in 1 .. Size(f) + 1 /\ d \in 1 .. 6 /\ (d # 6 => Interruptible(f, i))
    BY DEF IsPlace
  <1>2. CASE d # 6
    <2>1. q # <<>> /\ Head(q) = Deleter(e)[d]
      BY <1>2, PlaceStep
    <2>2. Deleter(e)[d] = AddRef(r) <=> d = 3 /\ r = "del"
      BY <1>1, <1>2 DEF Deleter, Lock, Unlock, AddRef, Release, Read
    <2>3. ~(f = "load" /\ i = 3) /\ ~(f \in {"success", "failure"} /\ i = 2)
      BY <1>1, <1>2 DEF Interruptible, Size
    <2>4. QED
      BY <2>1, <2>2, <2>3 DEF BorrowedAt
  <1>3. CASE d = 6 /\ i = Size(f) + 1
    <2>1. RestAt(f, i, c, d, e) = <<>>
      BY <1>3, PlaceStep
    <2>2. r \notin BorrowedAt(f, i, d)
      BY <1>1, <1>3 DEF BorrowedAt, Size
    <2>3. QED
      BY <2>1, <2>2
  <1>4. CASE d = 6 /\ i # Size(f) + 1
    <2>1. q # <<>> /\ Head(q) = Body(f, c)[i]
      BY <1>4, PlaceStep
    <2>2. Body(f, c)[i] = AddRef(r) <=> r \in BorrowedAt(f, i, d)
      <3>1. CASE f = "load"
        BY <1>1, <1>4, <3>1 DEF Body, Size, BorrowedAt, atomic_load, Lock, Unlock, AddRef, Release, Read, Exchange
      <3>2. CASE f = "store"
        BY <1>1, <1>4, <3>2 DEF Body, Size, BorrowedAt, atomic_store, Lock, Unlock, AddRef, Release, Swap
      <3>3. CASE f = "exchange"
        BY <1>1, <1>4, <3>3 DEF Body, Size, BorrowedAt, atomic_exchange, Lock, Unlock, AddRef, Release, Swap, Exchange
      <3>4. CASE f = "compare"
        BY <1>1, <1>4, <3>4 DEF Body, Size, BorrowedAt, atomic_compare_exchange_strong, Lock, AddRef, Compare
      <3>5. CASE f = "success"
        BY <1>1, <1>4, <3>5 DEF Body, Size, BorrowedAt, Success, Unlock, AddRef, Release, Copy, Assign
      <3>6. CASE f = "failure"
        BY <1>1, <1>4, <3>6 DEF Body, Size, BorrowedAt, Failure, Unlock, AddRef, Release, Read, Exchange
      <3>7. CASE f = "drop"
        BY <1>1, <1>4, <3>7 DEF Body, Size, BorrowedAt, AddRef, Release
      <3>8. QED
        BY <1>1, <3>1, <3>2, <3>3, <3>4, <3>5, <3>6, <3>7 DEF Bodies
    <2>3. QED
      BY <2>1, <2>2
  <1>5. QED
    BY <1>2, <1>3, <1>4

StepAt(f, i, c, d, e) == IF d # 6 THEN Deleter(e)[d] ELSE Body(f, c)[i]
AtEnd(f, i, d) == d = 6 /\ i = Size(f) + 1

LEMMA BodySteps ==
  ASSUME NEW c
  PROVE  /\ Deleter(c)[1] = Lock /\ Deleter(c)[2] = Read(c, "del") /\ Deleter(c)[3] = AddRef("del")
         /\ Deleter(c)[4] = Unlock /\ Deleter(c)[5] = Release("del")
         /\ Body("load", c)[1] = Lock /\ Body("load", c)[2] = Read(c, "tmp")
         /\ Body("load", c)[3] = AddRef("tmp") /\ Body("load", c)[4] = Unlock
         /\ Body("load", c)[5] = Exchange("tmp", "mine") /\ Body("load", c)[6] = Release("tmp")
         /\ Body("store", c)[1] = Lock /\ Body("store", c)[2] = Swap(c, "arg")
         /\ Body("store", c)[3] = Unlock /\ Body("store", c)[4] = Release("arg")
         /\ Body("exchange", c)[1] = Lock /\ Body("exchange", c)[2] = Swap(c, "arg")
         /\ Body("exchange", c)[3] = Unlock /\ Body("exchange", c)[4] = Exchange("arg", "mine")
         /\ Body("exchange", c)[5] = Release("arg")
         /\ Body("compare", c)[1] = Lock /\ Body("compare", c)[2] = Compare(c)
         /\ Body("success", c)[1] = Copy("arg", "tmp") /\ Body("success", c)[2] = AddRef("tmp")
         /\ Body("success", c)[3] = Assign(c) /\ Body("success", c)[4] = Release("tmp")
         /\ Body("success", c)[5] = Unlock /\ Body("success", c)[6] = Release("arg")
         /\ Body("failure", c)[1] = Read(c, "tmp") /\ Body("failure", c)[2] = AddRef("tmp")
         /\ Body("failure", c)[3] = Exchange("tmp", "mine") /\ Body("failure", c)[4] = Release("tmp")
         /\ Body("failure", c)[5] = Unlock /\ Body("failure", c)[6] = Release("arg")
         /\ Body("drop", c)[1] = Release("mine")
  BY DEF Body, Deleter, atomic_load, atomic_store, atomic_exchange, atomic_compare_exchange_strong,
         Success, Failure

LEMMA StepFields ==
  ASSUME NEW c, NEW q, NEW r
  PROVE  /\ Lock.op = "lock" /\ Unlock.op = "unlock"
         /\ AddRef(r).op = "addref" /\ AddRef(r).r = r
         /\ Release(r).op = "release" /\ Release(r).r = r
         /\ Read(c, r).op = "read" /\ Read(c, r).c = c /\ Read(c, r).r = r
         /\ Swap(c, r).op = "swap" /\ Swap(c, r).c = c /\ Swap(c, r).r = r
         /\ Copy(q, r).op = "copy" /\ Copy(q, r).from = q /\ Copy(q, r).r = r
         /\ Exchange(q, r).op = "exchange" /\ Exchange(q, r).from = q /\ Exchange(q, r).r = r
         /\ Compare(c).op = "compare" /\ Compare(c).c = c
         /\ Assign(c).op = "assign" /\ Assign(c).c = c
  BY DEF Lock, Unlock, AddRef, Release, Read, Swap, Copy, Exchange, Compare, Assign

\* The places of each kind of step.
LEMMA OpPlaces ==
  ASSUME NEW f, NEW i, NEW c, NEW d, NEW e, IsPlace(f, i, c, d, e), ~AtEnd(f, i, d)
  PROVE  LET s == StepAt(f, i, c, d, e)
         IN  /\ s.op = "lock" =>
                  d = 1 \/ (d = 6 /\ f \in {"load", "store", "exchange", "compare"} /\ i = 1)
             /\ s.op = "unlock" =>
                  d = 4 \/ (d = 6 /\ \/ f = "load" /\ i = 4
                                     \/ f \in {"store", "exchange"} /\ i = 3
                                     \/ f \in {"success", "failure"} /\ i = 5)
             /\ s.op = "read" =>
                  \/ d = 2 /\ s = Read(e, "del")
                  \/ d = 6 /\ f = "load" /\ i = 2 /\ s = Read(c, "tmp")
                  \/ d = 6 /\ f = "failure" /\ i = 1 /\ s = Read(c, "tmp")
             /\ s.op = "copy" => d = 6 /\ f = "success" /\ i = 1 /\ s = Copy("arg", "tmp")
             /\ s.op = "addref" =>
                  \/ d = 3 /\ s = AddRef("del")
                  \/ d = 6 /\ f = "load" /\ i = 3 /\ s = AddRef("tmp")
                  \/ d = 6 /\ f \in {"success", "failure"} /\ i = 2 /\ s = AddRef("tmp")
             /\ s.op = "swap" => d = 6 /\ f \in {"store", "exchange"} /\ i = 2 /\ s = Swap(c, "arg")
             /\ s.op = "assign" => d = 6 /\ f = "success" /\ i = 3 /\ s = Assign(c)
             /\ s.op = "exchange" =>
                  \/ d = 6 /\ f = "load" /\ i = 5 /\ s = Exchange("tmp", "mine")
                  \/ d = 6 /\ f = "exchange" /\ i = 4 /\ s = Exchange("arg", "mine")
                  \/ d = 6 /\ f = "failure" /\ i = 3 /\ s = Exchange("tmp", "mine")
             /\ s.op = "compare" => d = 6 /\ f = "compare" /\ i = 2 /\ s = Compare(c)
             /\ s.op = "release" =>
                  \/ d = 5 /\ s = Release("del")
                  \/ d = 6 /\ f = "load" /\ i = 6 /\ s = Release("tmp")
                  \/ d = 6 /\ f = "store" /\ i = 4 /\ s = Release("arg")
                  \/ d = 6 /\ f = "exchange" /\ i = 5 /\ s = Release("arg")
                  \/ d = 6 /\ f \in {"success", "failure"} /\ i = 4 /\ s = Release("tmp")
                  \/ d = 6 /\ f \in {"success", "failure"} /\ i = 6 /\ s = Release("arg")
                  \/ d = 6 /\ f = "drop" /\ i = 1 /\ s = Release("mine")
  <1> USE DEF StepAt
  <1>1. f \in Bodies /\ i \in 1 .. Size(f) + 1 /\ d \in 1 .. 6
    BY DEF IsPlace
  <1>2. CASE d # 6
    <2>1. d \in 1 .. 5
      BY <1>1, <1>2
    <2>2. QED
      BY <1>2, <2>1, BodySteps, StepFields
  <1>3. CASE d = 6
    <2>1. i # Size(f) + 1
      BY <1>3 DEF AtEnd
    <2>2. CASE f = "load"
      <3>1. i \in 1 .. 6
        BY <1>1, <2>1, <2>2 DEF Size
      <3>2. QED
        BY <1>3, <2>2, <3>1, BodySteps, StepFields
    <2>3. CASE f = "store"
      <3>1. i \in 1 .. 4
        BY <1>1, <2>1, <2>3 DEF Size
      <3>2. QED
        BY <1>3, <2>3, <3>1, BodySteps, StepFields
    <2>4. CASE f = "exchange"
      <3>1. i \in 1 .. 5
        BY <1>1, <2>1, <2>4 DEF Size
      <3>2. QED
        BY <1>3, <2>4, <3>1, BodySteps, StepFields
    <2>5. CASE f = "compare"
      <3>1. i \in 1 .. 2
        BY <1>1, <2>1, <2>5 DEF Size
      <3>2. QED
        BY <1>3, <2>5, <3>1, BodySteps, StepFields
    <2>6. CASE f = "success"
      <3>1. i \in 1 .. 6
        BY <1>1, <2>1, <2>6 DEF Size
      <3>2. QED
        BY <1>3, <2>6, <3>1, BodySteps, StepFields
    <2>7. CASE f = "failure"
      <3>1. i \in 1 .. 6
        BY <1>1, <2>1, <2>7 DEF Size
      <3>2. QED
        BY <1>3, <2>7, <3>1, BodySteps, StepFields
    <2>8. CASE f = "drop"
      <3>1. i = 1
        BY <1>1, <2>1, <2>8 DEF Size
      <3>2. QED
        BY <1>3, <2>8, <3>1, BodySteps, StepFields
    <2> HIDE DEF StepAt
    <2>9. QED
      BY <1>1, <2>2, <2>3, <2>4, <2>5, <2>6, <2>7, <2>8, ZenonT(30), SMTT(30) DEF Bodies
  <1> HIDE DEF StepAt
  <1>4. QED
    BY <1>2, <1>3, ZenonT(30), SMTT(30)

-----------------------------------------------------------------------------
(* The inductive invariant.                                                   *)

\* Thread t is there, with the mutex, its registers and what it has read as
\* they are at that place.
At(t, f, i, c, d, e) ==
  /\ todo[t] = RestAt(f, i, c, d, e)
  /\ IF mutex.owner = t THEN mutex.depth = Depth(f, i, d) /\ Depth(f, i, d) > 0
                        ELSE Depth(f, i, d) = 0
  /\ \A r \in Regs \ Used(f, i, d) : reg[t][r] = Empty
  /\ (f = "load" /\ i = 3) \/ (f = "failure" /\ i = 2) => cell[c] = reg[t]["tmp"]
  /\ f = "success" /\ i = 2 => reg[t]["tmp"] = reg[t]["arg"]
  /\ d = 3 => cell[e] = reg[t]["del"]
  /\ f = "success" /\ i \in 1 .. 3 => cell[c].block = reg[t]["mine"].block

Placed(t) == \E f, i, c, d, e : IsPlace(f, i, c, d, e) /\ At(t, f, i, c, d, e)

CellsOf(b) == {c \in Cells : cell[c].block = b}
RegsOf(b) == {x \in Threads \X Regs : reg[x[1]][x[2]].block = b /\ ~Borrowed(x[1], x[2])}

\* CountExact, with the finiteness that makes the cardinalities mean something.
Counted(b) ==
  /\ IsFiniteSet(CellsOf(b)) /\ IsFiniteSet(RegsOf(b))
  /\ count[b] = Cardinality(CellsOf(b)) + Cardinality(RegsOf(b))
  /\ b \in alive <=> count[b] > 0

MutexFree == mutex.owner = NULL => mutex.depth = 0

IInv ==
  /\ TypeOK /\ MutexFree
  /\ \A t \in Threads : Placed(t)
  /\ \A b \in Blocks : Counted(b)

-----------------------------------------------------------------------------
(* What a step of one thread leaves alone.                                    *)

LEMMA DepthIs ==
  ASSUME NEW f, NEW i, NEW d
  PROVE  Depth(f, i, d) \in {0, 1, 2} /\ (Depth(f, i, d) = 0 <=> ~LockedAt(f, i) /\ d \notin 2 .. 4)
  BY DEF Depth

\* A step of another thread, which changes cells and mutex only if it may.
LEMMA Frame ==
  ASSUME NEW u, NEW f, NEW i, NEW c, NEW d, NEW e, At(u, f, i, c, d, e),
         todo'[u] = todo[u], reg'[u] = reg[u],
         mutex.owner = u => mutex' = mutex /\ cell' = cell,
         mutex.owner # u => mutex'.owner # u
  PROVE  At(u, f, i, c, d, e)'
  <1>1. CASE mutex.owner = u
    BY <1>1 DEF At
  <1>2. CASE mutex.owner # u
    <2>1. ~LockedAt(f, i) /\ d \notin 2 .. 4
      BY <1>2, DepthIs DEF At
    <2>2. ~(f = "load" /\ i = 3) /\ ~(f = "failure" /\ i = 2) /\ ~(f = "success" /\ i \in 1 .. 3) /\ d # 3
      BY <2>1 DEF LockedAt
    <2>3. QED
      BY <1>2, <2>2 DEF At
  <1>3. QED
    BY <1>1, <1>2

\* A borrower is in front of its addref.
LEMMA BorrowedIs ==
  ASSUME NEW t, NEW f, NEW i, NEW c, NEW d, NEW e, IsPlace(f, i, c, d, e),
         todo[t] = RestAt(f, i, c, d, e), NEW r \in Regs
  PROVE  Borrowed(t, r) <=> r \in BorrowedAt(f, i, d)
  BY PlaceBorrows DEF Borrowed

LEMMA BorrowedIsNext ==
  ASSUME NEW t, NEW f, NEW i, NEW c, NEW d, NEW e, IsPlace(f, i, c, d, e),
         todo'[t] = RestAt(f, i, c, d, e), NEW r \in Regs
  PROVE  Borrowed(t, r)' <=> r \in BorrowedAt(f, i, d)
  BY PlaceBorrows DEF Borrowed

\* The registers of t that count for b.
Owns(t, b) == {r \in Regs : reg[t][r].block = b /\ ~Borrowed(t, r)}

\* The registers that count for b change as those of the thread that steps do.
LEMMA OwnsChange ==
  ASSUME NEW t \in Threads, NEW b, IsFiniteSet(RegsOf(b)),
         \A u \in Threads \ {t} : todo'[u] = todo[u] /\ reg'[u] = reg[u]
  PROVE  /\ Owns(t, b)' = Owns(t, b) => RegsOf(b)' = RegsOf(b)
         /\ \A r \in Regs \ Owns(t, b) : Owns(t, b)' = Owns(t, b) \cup {r} =>
              IsFiniteSet(RegsOf(b)') /\ Cardinality(RegsOf(b)') = Cardinality(RegsOf(b)) + 1
         /\ \A r \in Owns(t, b) : Owns(t, b)' = Owns(t, b) \ {r} =>
              IsFiniteSet(RegsOf(b)') /\ Cardinality(RegsOf(b)') = Cardinality(RegsOf(b)) - 1
         /\ \A q \in Owns(t, b), r \in Regs \ Owns(t, b) :
              Owns(t, b)' = (Owns(t, b) \ {q}) \cup {r} =>
                IsFiniteSet(RegsOf(b)') /\ Cardinality(RegsOf(b)') = Cardinality(RegsOf(b))
  <1>1. \A u \in Threads, r \in Regs : <<u, r>> \in RegsOf(b) <=> r \in Owns(u, b)
    BY DEF RegsOf, Owns
  <1>2. \A u \in Threads, r \in Regs : <<u, r>> \in RegsOf(b)' <=> r \in Owns(u, b)'
    BY DEF RegsOf, Owns
  <1>0. \A u \in Threads \ {t} : Owns(u, b)' = Owns(u, b)
    BY DEF Owns, Borrowed
  <1>3. RegsOf(b) \subseteq Threads \X Regs /\ RegsOf(b)' \subseteq Threads \X Regs
    BY DEF RegsOf
  <1>4. Cardinality(RegsOf(b)) \in Nat
    BY FS_CardinalityType
  <1>5. ASSUME Owns(t, b)' = Owns(t, b)
        PROVE  RegsOf(b)' = RegsOf(b)
    <2>1. \A u \in Threads : Owns(u, b)' = Owns(u, b)
      BY <1>0, <1>5
    <2>2. \A u \in Threads, r \in Regs : <<u, r>> \in RegsOf(b)' <=> <<u, r>> \in RegsOf(b)
      BY <1>1, <1>2, <2>1
    <2>3. QED
      BY <1>3, <2>2
  <1>6. ASSUME NEW r \in Regs \ Owns(t, b), Owns(t, b)' = Owns(t, b) \cup {r}
        PROVE  IsFiniteSet(RegsOf(b)') /\ Cardinality(RegsOf(b)') = Cardinality(RegsOf(b)) + 1
    <2>1. <<t, r>> \in Threads \X Regs /\ <<t, r>> \notin RegsOf(b)
      BY <1>1
    <2>2. RegsOf(b)' = RegsOf(b) \cup {<<t, r>>}
      BY <1>1, <1>2, <1>0, <1>3, <1>6, <2>1
    <2>3. QED
      BY <2>1, <2>2, FS_AddElement
  <1>7. ASSUME NEW r \in Owns(t, b), Owns(t, b)' = Owns(t, b) \ {r}
        PROVE  IsFiniteSet(RegsOf(b)') /\ Cardinality(RegsOf(b)') = Cardinality(RegsOf(b)) - 1
    <2>1. r \in Regs
      BY DEF Owns
    <2>2. <<t, r>> \in Threads \X Regs /\ <<t, r>> \in RegsOf(b)
      BY <1>1, <2>1
    <2>3. RegsOf(b)' = RegsOf(b) \ {<<t, r>>}
      BY <1>1, <1>2, <1>0, <1>3, <1>7, <2>1, <2>2
    <2>4. QED
      BY <2>2, <2>3, FS_RemoveElement
  <1>8. ASSUME NEW q \in Owns(t, b), NEW r \in Regs \ Owns(t, b),
               Owns(t, b)' = (Owns(t, b) \ {q}) \cup {r}
        PROVE  IsFiniteSet(RegsOf(b)') /\ Cardinality(RegsOf(b)') = Cardinality(RegsOf(b))
    <2>1. q \in Regs /\ q # r
      BY DEF Owns
    <2>2. /\ <<t, q>> \in Threads \X Regs /\ <<t, q>> \in RegsOf(b)
          /\ <<t, r>> \in Threads \X Regs /\ <<t, r>> \notin RegsOf(b)
      BY <1>1, <2>1
    <2>3. RegsOf(b)' = (RegsOf(b) \ {<<t, q>>}) \cup {<<t, r>>}
      BY <1>1, <1>2, <1>0, <1>3, <1>8, <2>1, <2>2
    <2> DEFINE S == RegsOf(b) \ {<<t, q>>}
    <2>4. IsFiniteSet(S) /\ Cardinality(S) = Cardinality(RegsOf(b)) - 1
      BY <2>2, FS_RemoveElement
    <2>5. <<t, r>> \notin S /\ RegsOf(b)' = S \cup {<<t, r>>}
      BY <2>2, <2>3
    <2> HIDE DEF S
    <2>6. IsFiniteSet(S \cup {<<t, r>>}) /\ Cardinality(S \cup {<<t, r>>}) = Cardinality(S) + 1
      BY <2>4, <2>5, FS_AddElement
    <2>7. QED
      BY <1>4, <2>4, <2>5, <2>6
  <1>9. QED
    BY <1>5, <1>6, <1>7, <1>8

\* The cells that lead to b change as the one that is swapped does.
LEMMA CellsChange ==
  ASSUME NEW c \in Cells, NEW b, IsFiniteSet(CellsOf(b)),
         \A x \in Cells \ {c} : cell'[x] = cell[x]
  PROVE  /\ (cell'[c].block = b <=> cell[c].block = b) => CellsOf(b)' = CellsOf(b)
         /\ cell'[c].block = b /\ cell[c].block # b =>
              IsFiniteSet(CellsOf(b)') /\ Cardinality(CellsOf(b)') = Cardinality(CellsOf(b)) + 1
         /\ cell'[c].block # b /\ cell[c].block = b =>
              IsFiniteSet(CellsOf(b)') /\ Cardinality(CellsOf(b)') = Cardinality(CellsOf(b)) - 1
  <1>1. ASSUME cell'[c].block = b <=> cell[c].block = b
        PROVE  CellsOf(b)' = CellsOf(b)
    BY <1>1 DEF CellsOf
  <1>2. ASSUME cell'[c].block = b, cell[c].block # b
        PROVE  IsFiniteSet(CellsOf(b)') /\ Cardinality(CellsOf(b)') = Cardinality(CellsOf(b)) + 1
    <2>1. CellsOf(b)' = CellsOf(b) \cup {c} /\ c \notin CellsOf(b)
      BY <1>2 DEF CellsOf
    <2>2. QED
      BY <2>1, FS_AddElement
  <1>3. ASSUME cell'[c].block # b, cell[c].block = b
        PROVE  IsFiniteSet(CellsOf(b)') /\ Cardinality(CellsOf(b)') = Cardinality(CellsOf(b)) - 1
    <2>1. CellsOf(b)' = CellsOf(b) \ {c} /\ c \in CellsOf(b)
      BY <1>3 DEF CellsOf
    <2>2. QED
      BY <2>1, FS_RemoveElement
  <1>4. QED
    BY <1>1, <1>2, <1>3

\* The place after f, i, d.
NextI(i, d) == IF d = 6 THEN i + 1 ELSE i
NextD(d) == IF d = 6 THEN 6 ELSE d + 1

\* The step thread t is at, and its place after it.
LEMMA Here ==
  ASSUME NEW t, NEW f, NEW i, NEW c, NEW d, NEW e, IsPlace(f, i, c, d, e),
         At(t, f, i, c, d, e), todo[t] # <<>>,
         NEW j, NextI(i, d) = j, NEW n, NextD(d) = n
  PROVE  /\ ~AtEnd(f, i, d) /\ Head(todo[t]) = StepAt(f, i, c, d, e)
         /\ IsPlace(f, j, c, n, e) /\ Tail(todo[t]) = RestAt(f, j, c, n, e)
         /\ f \in Bodies /\ i \in Nat /\ d \in Nat
         /\ d # 6 => Interruptible(f, i)
  <1>1. todo[t] = RestAt(f, i, c, d, e)
    BY DEF At
  <1>2. ~AtEnd(f, i, d)
    BY <1>1, PlaceStep DEF AtEnd
  <1>3. f \in Bodies /\ i \in 1 .. Size(f) + 1 /\ d \in 1 .. 6 /\ Size(f) \in Nat
    BY BodyType DEF IsPlace
  <1>4. CASE d # 6
    <2>1. j = i /\ n = d + 1 /\ n \in 1 .. 6
      BY <1>3, <1>4 DEF NextI, NextD
    <2>2. Head(todo[t]) = StepAt(f, i, c, d, e) /\ Tail(todo[t]) = RestAt(f, j, c, n, e)
      BY <1>1, <1>4, <2>1, PlaceStep DEF StepAt
    <2>3. IsPlace(f, j, c, n, e) /\ Interruptible(f, i)
      BY <1>3, <1>4, <2>1 DEF IsPlace
    <2>4. QED
      BY <1>2, <1>3, <1>4, <2>2, <2>3
  <1>5. CASE d = 6
    <2>1. j = i + 1 /\ n = 6 /\ i # Size(f) + 1
      BY <1>2, <1>5 DEF NextI, NextD, AtEnd
    <2>2. Head(todo[t]) = StepAt(f, i, c, d, e) /\ Tail(todo[t]) = RestAt(f, j, c, n, e)
      BY <1>1, <1>5, <2>1, PlaceStep DEF StepAt
    <2>3. IsPlace(f, j, c, n, e)
      BY <1>3, <1>5, <2>1 DEF IsPlace
    <2>4. QED
      BY <1>2, <1>3, <1>5, <2>2, <2>3
  <1>6. QED
    BY <1>4, <1>5

\* The other threads stay where they are.
LEMMA Others ==
  ASSUME NEW t \in Threads, \A u \in Threads : Placed(u),
         \A u \in Threads \ {t} :
           /\ todo'[u] = todo[u] /\ reg'[u] = reg[u]
           /\ mutex.owner = u => mutex' = mutex /\ cell' = cell
           /\ mutex.owner # u => mutex'.owner # u
  PROVE  \A u \in Threads \ {t} : Placed(u)'
  <1> SUFFICES ASSUME NEW u \in Threads \ {t}
               PROVE  Placed(u)'
    OBVIOUS
  <1>1. PICK f, i, c, d, e : IsPlace(f, i, c, d, e) /\ At(u, f, i, c, d, e)
    BY DEF Placed
  <1>2. At(u, f, i, c, d, e)'
    BY <1>1, Frame
  <1>3. QED
    BY <1>1, <1>2 DEF Placed

\* A register keeps counting for its block unless the step of its thread is
\* about it.
LEMMA OwnsAt ==
  ASSUME NEW t, NEW f, NEW i, NEW c, NEW d, NEW e, IsPlace(f, i, c, d, e), At(t, f, i, c, d, e), NEW b
  PROVE  Owns(t, b) = {r \in Regs : reg[t][r].block = b /\ r \notin BorrowedAt(f, i, d)}
  BY BorrowedIs DEF Owns, At

LEMMA OwnsAtNext ==
  ASSUME NEW t, NEW f, NEW i, NEW c, NEW d, NEW e, IsPlace(f, i, c, d, e),
         todo'[t] = RestAt(f, i, c, d, e), NEW b
  PROVE  Owns(t, b)' = {r \in Regs : reg'[t][r].block = b /\ r \notin BorrowedAt(f, i, d)}
  BY BorrowedIsNext DEF Owns

\* A step that moves nothing and borrows nothing keeps the counts.
LEMMA QuietStep ==
  ASSUME IInv, NEW t \in Threads,
         NEW f, NEW i, NEW c, NEW d, NEW e, IsPlace(f, i, c, d, e), At(t, f, i, c, d, e),
         NEW g, NEW j, NEW cc, NEW n, NEW ee, IsPlace(g, j, cc, n, ee), todo'[t] = RestAt(g, j, cc, n, ee),
         \A u \in Threads \ {t} : todo'[u] = todo[u],
         UNCHANGED <<cell, reg, count, alive>>,
         BorrowedAt(g, j, n) = BorrowedAt(f, i, d),
         NEW b \in Blocks
  PROVE  Counted(b)'
  <1>1. /\ Owns(t, b) = {r \in Regs : reg[t][r].block = b /\ r \notin BorrowedAt(f, i, d)}
        /\ Owns(t, b)' = {r \in Regs : reg'[t][r].block = b /\ r \notin BorrowedAt(g, j, n)}
    BY OwnsAt, OwnsAtNext
  <1>2. Owns(t, b)' = Owns(t, b)
    BY <1>1
  <1>3. Counted(b) /\ CellsOf(b)' = CellsOf(b)
    BY DEF IInv, CellsOf
  <1>4. RegsOf(b)' = RegsOf(b)
    BY <1>2, <1>3, OwnsChange DEF Counted
  <1>5. QED
    BY <1>3, <1>4 DEF Counted

-----------------------------------------------------------------------------
(* The steps.                                                                 *)

LEMMA LockStep ==
  ASSUME IInv, NEW t \in Threads, DoLock(t)
  PROVE  IInv'
  <1>1. PICK f, i, c, d, e : IsPlace(f, i, c, d, e) /\ At(t, f, i, c, d, e)
    BY DEF IInv, Placed
  <1>2. /\ todo[t] # <<>> /\ Head(todo[t]).op = "lock" /\ todo' = [todo EXCEPT ![t] = Tail(@)]
        /\ UNCHANGED <<cell, reg, count, alive>>
        /\ mutex' = [mutex EXCEPT !.owner = t, !.depth = @ + 1]
        /\ mutex.owner = NULL \/ mutex.owner = t
    BY DEF DoLock, Doing, Rest
  <1>3. TypeOK /\ MutexFree /\ t # NULL /\ mutex.depth \in Nat
    BY AtomicAssumption DEF IInv, TypeOK
  <1>4. mutex'.owner = t /\ mutex'.depth = mutex.depth + 1
    BY <1>2, <1>3 DEF TypeOK
  <1>5. TypeOK'
    <2>1. mutex \in [owner : Threads \cup {NULL}, depth : Nat, recursive : Recursive]
      BY <1>3 DEF TypeOK
    <2>2. t \in Threads \cup {NULL} /\ mutex.depth + 1 \in Nat
      BY <1>3
    <2>3. mutex' \in [owner : Threads \cup {NULL}, depth : Nat, recursive : Recursive]
      BY <1>2, <2>1, <2>2
    <2>4. QED
      BY <1>2, <1>3, <2>3, HeadTailProperties DEF TypeOK
  <1>6. \A u \in Threads \ {t} : todo'[u] = todo[u] /\ reg'[u] = reg[u]
    BY <1>2, <1>3 DEF TypeOK
  <1>7. \A u \in Threads \ {t} : Placed(u)'
    <2>1. \A u \in Threads \ {t} : mutex.owner # u /\ mutex'.owner # u
      BY <1>2, <1>4, AtomicAssumption
    <2>2. QED
      BY <1>6, <2>1, Others DEF IInv
  <1> DEFINE j == NextI(i, d)
             n == NextD(d)
  <1>8. /\ ~AtEnd(f, i, d) /\ StepAt(f, i, c, d, e).op = "lock" /\ IsPlace(f, j, c, n, e)
        /\ todo'[t] = RestAt(f, j, c, n, e) /\ f \in Bodies /\ (d # 6 => Interruptible(f, i))
    BY <1>1, <1>2, <1>3, Here DEF TypeOK
  <1>9. \/ d = 1 /\ j = i /\ n = 2
        \/ d = 6 /\ f \in {"load", "store", "exchange", "compare"} /\ i = 1 /\ j = 2 /\ n = 6
    BY <1>1, <1>8, OpPlaces DEF NextI, NextD
  <1> HIDE DEF j, n
  <1>10. /\ Depth(f, j, n) = Depth(f, i, d) + 1 /\ Depth(f, j, n) > 0
        /\ Used(f, j, n) = Used(f, i, d)
        /\ BorrowedAt(f, i, d) = {} /\ BorrowedAt(f, j, n) = {}
    <2>1. CASE d = 1 /\ j = i /\ n = 2
      <3>1. Depth(f, j, n) = Depth(f, i, d) + 1 /\ Depth(f, j, n) > 0
        BY <2>1 DEF Depth
      <3>2. Used(f, j, n) = Used(f, i, d)
        BY <2>1 DEF Used
      <3>3. BorrowedAt(f, i, d) = {} /\ BorrowedAt(f, j, n) = {}
        BY <1>8, <2>1 DEF BorrowedAt, Interruptible, Size, Bodies
      <3>4. QED
        BY <3>1, <3>2, <3>3
    <2>2. CASE d = 6 /\ f \in {"load", "store", "exchange", "compare"} /\ i = 1 /\ j = 2 /\ n = 6
      BY <2>2 DEF Depth, LockedAt, Used, Size, BorrowedAt
    <2>3. QED
      BY <1>9, <2>1, <2>2
  <1>11. At(t, f, j, c, n, e)'
    <2>1. IF mutex.owner = t THEN mutex.depth = Depth(f, i, d) ELSE Depth(f, i, d) = 0
      BY <1>1 DEF At
    <2>2. mutex'.owner = t /\ mutex'.depth = Depth(f, j, n)
      BY <1>2, <1>3, <1>4, <1>10, <2>1 DEF MutexFree
    <2>3. QED
      BY <1>1, <1>2, <1>8, <1>9, <1>10, <2>2 DEF At
  <1>12. \A b \in Blocks : Counted(b)'
    BY <1>1, <1>2, <1>6, <1>8, <1>10, QuietStep
  <1>13. MutexFree'
    BY <1>4, AtomicAssumption DEF MutexFree
  <1>14. QED
    BY <1>5, <1>7, <1>8, <1>11, <1>12, <1>13 DEF IInv, Placed

LEMMA UnlockStep ==
  ASSUME IInv, NEW t \in Threads, DoUnlock(t)
  PROVE  IInv'
  <1>1. PICK f, i, c, d, e : IsPlace(f, i, c, d, e) /\ At(t, f, i, c, d, e)
    BY DEF IInv, Placed
  <1>2. /\ todo[t] # <<>> /\ Head(todo[t]).op = "unlock" /\ todo' = [todo EXCEPT ![t] = Tail(@)]
        /\ UNCHANGED <<cell, reg, count, alive>>
        /\ mutex' = [mutex EXCEPT !.owner = IF mutex.depth = 1 THEN NULL ELSE t, !.depth = @ - 1]
    BY DEF DoUnlock, Doing, Rest
  <1>3. TypeOK /\ MutexFree /\ t # NULL
    BY AtomicAssumption DEF IInv, TypeOK
  <1> DEFINE j == NextI(i, d)
             n == NextD(d)
  <1>4. /\ ~AtEnd(f, i, d) /\ StepAt(f, i, c, d, e).op = "unlock" /\ IsPlace(f, j, c, n, e)
        /\ todo'[t] = RestAt(f, j, c, n, e) /\ f \in Bodies /\ (d # 6 => Interruptible(f, i))
    BY <1>1, <1>2, <1>3, Here DEF TypeOK
  <1>5. \/ d = 4 /\ j = i /\ n = 5
        \/ /\ d = 6 /\ n = 6
           /\ \/ f = "load" /\ i = 4 /\ j = 5
              \/ f \in {"store", "exchange"} /\ i = 3 /\ j = 4
              \/ f \in {"success", "failure"} /\ i = 5 /\ j = 6
    BY <1>1, <1>4, OpPlaces DEF NextI, NextD
  <1> HIDE DEF j, n
  <1>6. /\ Depth(f, i, d) = Depth(f, j, n) + 1
        /\ Used(f, j, n) = Used(f, i, d)
        /\ BorrowedAt(f, i, d) = {} /\ BorrowedAt(f, j, n) = {}
    <2>1. CASE d = 4 /\ j = i /\ n = 5
      <3>1. Depth(f, i, d) = Depth(f, j, n) + 1
        BY <2>1 DEF Depth
      <3>2. Used(f, j, n) = Used(f, i, d)
        BY <2>1 DEF Used
      <3>3. BorrowedAt(f, i, d) = {} /\ BorrowedAt(f, j, n) = {}
        BY <1>4, <2>1 DEF BorrowedAt, Interruptible, Size, Bodies
      <3>4. QED
        BY <3>1, <3>2, <3>3
    <2>2. CASE d # 4
      BY <1>5, <2>2 DEF Depth, LockedAt, Used, Size, BorrowedAt
    <2>3. QED
      BY <2>1, <2>2, <1>5
  <1>7. mutex.owner = t /\ mutex.depth = Depth(f, i, d) /\ Depth(f, j, n) \in {0, 1, 2}
    BY <1>1, <1>6, DepthIs DEF At
  <1>8. mutex'.owner = (IF mutex.depth = 1 THEN NULL ELSE t) /\ mutex'.depth = mutex.depth - 1
    BY <1>2, <1>3 DEF TypeOK
  <1>9. TypeOK'
    <2>1. mutex' \in [owner : Threads \cup {NULL}, depth : Nat, recursive : Recursive]
      <3>1. mutex.depth - 1 \in Nat
        BY <1>6, <1>7
      <3>2. QED
        BY <1>2, <1>3, <3>1 DEF TypeOK
    <2>2. QED
      BY <1>2, <1>3, <2>1, HeadTailProperties DEF TypeOK
  <1>10. \A u \in Threads \ {t} : todo'[u] = todo[u] /\ reg'[u] = reg[u]
    BY <1>2, <1>3 DEF TypeOK
  <1>11. \A u \in Threads \ {t} : Placed(u)'
    <2>1. \A u \in Threads \ {t} : mutex.owner # u /\ mutex'.owner # u
      BY <1>7, <1>8, AtomicAssumption
    <2>2. QED
      BY <1>10, <2>1, Others DEF IInv
  <1>12. At(t, f, j, c, n, e)'
    <2>1. IF mutex'.owner = t THEN mutex'.depth = Depth(f, j, n) /\ Depth(f, j, n) > 0
                              ELSE Depth(f, j, n) = 0
      BY <1>3, <1>6, <1>7, <1>8
    <2>2. QED
      BY <1>1, <1>2, <1>4, <1>5, <1>6, <2>1 DEF At
  <1>13. \A b \in Blocks : Counted(b)'
    BY <1>1, <1>2, <1>4, <1>6, <1>10, QuietStep
  <1>14. MutexFree'
    BY <1>3, <1>7, <1>8 DEF MutexFree
  <1>15. QED
    BY <1>4, <1>9, <1>11, <1>12, <1>13, <1>14 DEF IInv, Placed

LEMMA ReadStep ==
  ASSUME IInv, NEW t \in Threads, DoRead(t)
  PROVE  IInv'
  <1>1. PICK f, i, c, d, e : IsPlace(f, i, c, d, e) /\ At(t, f, i, c, d, e)
    BY DEF IInv, Placed
  <1> DEFINE s == Head(todo[t])
             v == IF s.op = "read" THEN cell[s.c] ELSE reg[t][s.from]
  <1>2. /\ todo[t] # <<>> /\ s.op \in {"read", "copy"} /\ todo' = [todo EXCEPT ![t] = Tail(@)]
        /\ UNCHANGED <<cell, count, alive, mutex>>
        /\ reg' = [reg EXCEPT ![t][s.r] = v]
    BY DEF DoRead, Doing, Rest
  <1>3. TypeOK /\ MutexFree
    BY DEF IInv
  <1> DEFINE j == NextI(i, d)
             n == NextD(d)
  <1>4. /\ ~AtEnd(f, i, d) /\ s = StepAt(f, i, c, d, e) /\ IsPlace(f, j, c, n, e)
        /\ todo'[t] = RestAt(f, j, c, n, e) /\ f \in Bodies /\ (d # 6 => Interruptible(f, i))
    BY <1>1, <1>2, <1>3, Here DEF TypeOK
  <1>5. \/ d = 2 /\ s = Read(e, "del") /\ e \in Cells /\ j = i /\ n = 3
        \/ d = 6 /\ f = "load" /\ i = 2 /\ s = Read(c, "tmp") /\ c \in Cells /\ j = 3 /\ n = 6
        \/ d = 6 /\ f = "failure" /\ i = 1 /\ s = Read(c, "tmp") /\ c \in Cells /\ j = 2 /\ n = 6
        \/ d = 6 /\ f = "success" /\ i = 1 /\ s = Copy("arg", "tmp") /\ j = 2 /\ n = 6
    BY <1>1, <1>2, <1>4, OpPlaces DEF NextI, NextD, IsPlace
  <1> HIDE DEF j, n
  <1>6. /\ \/ d = 2 /\ s.r = "del" /\ v = cell[e] /\ e \in Cells
           \/ d = 6 /\ f \in {"load", "failure"} /\ s.r = "tmp" /\ v = cell[c] /\ c \in Cells
           \/ d = 6 /\ f = "success" /\ s.r = "tmp" /\ v = reg[t]["arg"]
        /\ s.r \in Regs
    BY <1>5, StepFields DEF Regs
  <1>7. v \in Refs
    BY <1>3, <1>6 DEF TypeOK, Regs
  <1> DEFINE r == s.r
  <1>8. /\ Depth(f, j, n) = Depth(f, i, d)
        /\ Used(f, j, n) = Used(f, i, d) \cup {r} /\ r \notin Used(f, i, d)
        /\ BorrowedAt(f, i, d) = {} /\ BorrowedAt(f, j, n) = {r}
    <2>1. CASE d = 2 /\ s = Read(e, "del") /\ j = i /\ n = 3
      <3>0. r = "del"
        BY <2>1, StepFields
      <3>1. Depth(f, j, n) = Depth(f, i, d)
        BY <2>1 DEF Depth
      <3>2. Used(f, j, n) = Used(f, i, d) \cup {r} /\ r \notin Used(f, i, d)
        BY <2>1, <3>0 DEF Used, Regs
      <3>3. BorrowedAt(f, i, d) = {} /\ BorrowedAt(f, j, n) = {r}
        BY <1>4, <2>1, <3>0 DEF BorrowedAt, Interruptible, Size, Bodies, Regs
      <3>4. QED
        BY <3>1, <3>2, <3>3
    <2>2. CASE d # 2
      <3>1. r = "tmp"
        BY <1>5, <2>2, StepFields
      <3>2. QED
        BY <1>5, <2>2, <3>1 DEF Depth, LockedAt, Used, Size, BorrowedAt, Regs
    <2>3. QED
      BY <2>1, <2>2, <1>5
  <1> HIDE DEF s, v
  <1>9. reg[t] \in [Regs -> Refs] /\ reg'[t] = [reg[t] EXCEPT ![r] = v] /\ reg[t][r] = Empty
    BY <1>1, <1>2, <1>3, <1>6, <1>8 DEF TypeOK, At
  <1>10. TypeOK'
    BY <1>2, <1>3, <1>6, <1>7, HeadTailProperties DEF TypeOK
  <1>11. \A u \in Threads \ {t} : todo'[u] = todo[u] /\ reg'[u] = reg[u]
    BY <1>2, <1>3 DEF TypeOK
  <1>12. \A u \in Threads \ {t} : Placed(u)'
    BY <1>2, <1>11, Others DEF IInv
  <1>13. At(t, f, j, c, n, e)'
    <2>1. \A q \in Regs : q # r => reg'[t][q] = reg[t][q]
      BY <1>9
    <2>2. reg'[t][r] = v
      BY <1>6, <1>9
    <2>3. \A q \in Regs \ Used(f, j, n) : reg'[t][q] = Empty
      BY <1>1, <1>8, <2>1 DEF At
    <2>4. /\ (f = "load" /\ j = 3) \/ (f = "failure" /\ j = 2) => cell'[c] = reg'[t]["tmp"]
          /\ f = "success" /\ j = 2 => reg'[t]["tmp"] = reg'[t]["arg"]
          /\ n = 3 => cell'[e] = reg'[t]["del"]
      <3>1. CASE d = 2
        BY <1>2, <1>4, <1>5, <1>6, <2>2, <3>1 DEF Interruptible, Size
      <3>2. CASE d # 2
        BY <1>2, <1>5, <1>6, <2>1, <2>2, <3>2 DEF Regs
      <3>3. QED
        BY <3>1, <3>2
    <2>5. f = "success" /\ j \in 1 .. 3 => cell'[c].block = reg'[t]["mine"].block
      BY <1>1, <1>2, <1>4, <1>5, <1>6, <2>1 DEF At, Regs, Interruptible, Size
    <2>6. QED
      BY <1>1, <1>2, <1>4, <1>8, <2>3, <2>4, <2>5 DEF At
  <1>14. ASSUME NEW b \in Blocks
         PROVE  Counted(b)'
    <2>1. /\ Owns(t, b) = {q \in Regs : reg[t][q].block = b /\ q \notin BorrowedAt(f, i, d)}
          /\ Owns(t, b)' = {q \in Regs : reg'[t][q].block = b /\ q \notin BorrowedAt(f, j, n)}
      BY <1>1, <1>4, OwnsAt, OwnsAtNext
    <2>2. reg[t][r].block # b
      BY <1>9, AtomicAssumption DEF Empty
    <2>3. Owns(t, b)' = Owns(t, b)
      BY <1>8, <1>9, <2>1, <2>2
    <2>4. Counted(b) /\ CellsOf(b)' = CellsOf(b)
      BY <1>2 DEF IInv, CellsOf
    <2>5. RegsOf(b)' = RegsOf(b)
      BY <1>11, <2>3, <2>4, OwnsChange DEF Counted
    <2>6. QED
      BY <1>2, <2>4, <2>5 DEF Counted
  <1>15. QED
    BY <1>2, <1>3, <1>4, <1>10, <1>12, <1>13, <1>14 DEF IInv, Placed, MutexFree

\* A borrowed block is alive: somebody who cannot let go owns it.
LEMMA BorrowedAlive ==
  ASSUME IInv
  PROVE  NeverRevived
  <1> SUFFICES ASSUME NEW t \in Threads, NEW r \in Regs, Borrowed(t, r), reg[t][r].block # NULL
               PROVE  reg[t][r].block \in alive
    BY DEF NeverRevived
  <1> DEFINE b == reg[t][r].block
  <1>1. PICK f, i, c, d, e : IsPlace(f, i, c, d, e) /\ At(t, f, i, c, d, e)
    BY DEF IInv, Placed
  <1>2. TypeOK /\ reg[t][r] \in Refs
    BY DEF IInv, TypeOK
  <1>3. b \in Blocks
    BY <1>2 DEF Refs
  <1>4. /\ r \in BorrowedAt(f, i, d) /\ todo[t] = RestAt(f, i, c, d, e) /\ f \in Bodies
        /\ (d # 6 => Interruptible(f, i) /\ e \in Cells) /\ (f # "drop" => c \in Cells)
    BY <1>1, BorrowedIs DEF At, IsPlace
  <1>5. Counted(b)
    BY <1>3 DEF IInv
  <1>6. Cardinality(CellsOf(b)) \in Nat /\ Cardinality(RegsOf(b)) \in Nat
    BY <1>5, FS_CardinalityType DEF Counted
  <1>7. CASE \E x \in Cells : cell[x].block = b
    <2>1. CellsOf(b) # {}
      BY <1>7 DEF CellsOf
    <2>2. Cardinality(CellsOf(b)) # 0
      BY <1>5, <2>1, FS_EmptySet DEF Counted
    <2>3. QED
      BY <1>5, <1>6, <2>2 DEF Counted
  <1>8. CASE f = "success" /\ i = 2 /\ r = "tmp"
    <2>1. reg[t]["arg"].block = b
      BY <1>1, <1>8 DEF At
    <2>2. ~Borrowed(t, "arg")
      BY <1>1, <1>4, BorrowedIs DEF BorrowedAt, Regs
    <2>3. <<t, "arg">> \in RegsOf(b)
      BY <2>1, <2>2 DEF RegsOf, Regs
    <2>4. Cardinality(RegsOf(b)) # 0
      BY <1>5, <2>3, FS_EmptySet DEF Counted
    <2>5. QED
      BY <1>5, <1>6, <2>4 DEF Counted
  <1>9. \/ d = 3 /\ r = "del"
        \/ f = "load" /\ i = 3 /\ r = "tmp"
        \/ f = "failure" /\ i = 2 /\ r = "tmp"
        \/ f = "success" /\ i = 2 /\ r = "tmp"
    BY <1>4 DEF BorrowedAt
  <1>10. QED
    BY <1>1, <1>4, <1>7, <1>8, <1>9 DEF At

LEMMA AddRefStep ==
  ASSUME IInv, NEW t \in Threads, DoAddRef(t)
  PROVE  IInv'
  <1>1. PICK f, i, c, d, e : IsPlace(f, i, c, d, e) /\ At(t, f, i, c, d, e)
    BY DEF IInv, Placed
  <1> DEFINE s == Head(todo[t])
             o == reg[t][s.r].block
  <1>2. /\ todo[t] # <<>> /\ s.op = "addref" /\ todo' = [todo EXCEPT ![t] = Tail(@)]
        /\ UNCHANGED <<cell, reg, alive, mutex>>
        /\ count' = IF o = NULL THEN count ELSE [count EXCEPT ![o] = @ + 1]
    BY DEF DoAddRef, Doing, Rest
  <1>3. TypeOK /\ MutexFree
    BY DEF IInv
  <1> DEFINE j == NextI(i, d)
             n == NextD(d)
  <1>4. /\ ~AtEnd(f, i, d) /\ s = StepAt(f, i, c, d, e) /\ IsPlace(f, j, c, n, e)
        /\ todo'[t] = RestAt(f, j, c, n, e) /\ f \in Bodies /\ (d # 6 => Interruptible(f, i))
    BY <1>1, <1>2, <1>3, Here DEF TypeOK
  <1>5. \/ d = 3 /\ s = AddRef("del") /\ j = i /\ n = 4
        \/ d = 6 /\ f = "load" /\ i = 3 /\ s = AddRef("tmp") /\ j = 4 /\ n = 6
        \/ d = 6 /\ f \in {"success", "failure"} /\ i = 2 /\ s = AddRef("tmp") /\ j = 3 /\ n = 6
    BY <1>1, <1>2, <1>4, OpPlaces DEF NextI, NextD
  <1> HIDE DEF j, n
  <1> DEFINE r == s.r
  <1>6. /\ \/ d = 3 /\ j = i /\ n = 4 /\ r = "del"
           \/ d = 6 /\ f = "load" /\ i = 3 /\ j = 4 /\ n = 6 /\ r = "tmp"
           \/ d = 6 /\ f \in {"success", "failure"} /\ i = 2 /\ j = 3 /\ n = 6 /\ r = "tmp"
        /\ r \in Regs /\ s = AddRef(r)
    BY <1>5, StepFields DEF Regs
  <1>7. o \in Blocks \cup {NULL} /\ Borrowed(t, r)
    <2>1. reg[t][r] \in Refs
      BY <1>3, <1>6 DEF TypeOK
    <2>2. QED
      BY <1>2, <1>6, <2>1, SMTT(30), ZenonT(30) DEF Refs, Borrowed
  <1> HIDE DEF s
  <1>8. /\ Depth(f, j, n) = Depth(f, i, d)
        /\ Used(f, j, n) = Used(f, i, d)
        /\ BorrowedAt(f, i, d) = {r} /\ BorrowedAt(f, j, n) = {}
    <2>1. CASE d = 3 /\ j = i /\ n = 4 /\ r = "del"
      <3>1. Depth(f, j, n) = Depth(f, i, d)
        BY <2>1 DEF Depth
      <3>2. Used(f, j, n) = Used(f, i, d)
        BY <2>1 DEF Used
      <3>3. BorrowedAt(f, i, d) = {r} /\ BorrowedAt(f, j, n) = {}
        BY <1>4, <2>1 DEF BorrowedAt, Interruptible, Size, Bodies, Regs
      <3>4. QED
        BY <3>1, <3>2, <3>3
    <2>2. CASE d # 3
      BY <1>6, <2>2 DEF Depth, LockedAt, Used, Size, BorrowedAt, Regs
    <2>3. QED
      BY <2>1, <2>2, <1>6
  <1>9. o # NULL => o \in alive
    BY <1>6, <1>7, BorrowedAlive DEF NeverRevived
  <1>10. TypeOK'
    BY <1>2, <1>3, <1>7, HeadTailProperties DEF TypeOK
  <1>11. \A u \in Threads \ {t} : todo'[u] = todo[u] /\ reg'[u] = reg[u]
    BY <1>2, <1>3 DEF TypeOK
  <1>12. \A u \in Threads \ {t} : Placed(u)'
    BY <1>2, <1>11, Others DEF IInv
  <1>13. At(t, f, j, c, n, e)'
    <2>1. f = "success" /\ j \in 1 .. 3 => cell[c].block = reg[t]["mine"].block
      BY <1>1, <1>4, <1>6 DEF At, Interruptible, Size
    <2>2. ~(f = "load" /\ j = 3) /\ ~(f = "failure" /\ j = 2) /\ ~(f = "success" /\ j = 2) /\ n # 3
      BY <1>4, <1>6 DEF Interruptible, Size
    <2>3. QED
      BY <1>1, <1>2, <1>4, <1>8, <2>1, <2>2 DEF At
  <1>14. ASSUME NEW b \in Blocks
         PROVE  Counted(b)'
    <2>1. /\ Owns(t, b) = {q \in Regs : reg[t][q].block = b /\ q \notin BorrowedAt(f, i, d)}
          /\ Owns(t, b)' = {q \in Regs : reg'[t][q].block = b /\ q \notin BorrowedAt(f, j, n)}
      BY <1>1, <1>4, OwnsAt, OwnsAtNext
    <2>2. Counted(b) /\ CellsOf(b)' = CellsOf(b) /\ count[b] \in Nat
      BY <1>2, <1>3 DEF IInv, CellsOf, TypeOK
    <2>3. CASE o = b
      <3>1. Owns(t, b)' = Owns(t, b) \cup {r} /\ r \in Regs \ Owns(t, b)
        BY <1>2, <1>6, <1>8, <2>1, <2>3
      <3>2. IsFiniteSet(RegsOf(b)') /\ Cardinality(RegsOf(b)') = Cardinality(RegsOf(b)) + 1
        BY <1>11, <2>2, <3>1, OwnsChange DEF Counted
      <3>3. b # NULL /\ count'[b] = count[b] + 1
        BY <1>2, <1>3, <2>3, AtomicAssumption DEF TypeOK
      <3>4. Cardinality(CellsOf(b)) \in Nat /\ Cardinality(RegsOf(b)) \in Nat
        BY <2>2, FS_CardinalityType DEF Counted
      <3>5. QED
        BY <1>2, <1>9, <2>2, <2>3, <3>2, <3>3, <3>4 DEF Counted
    <2>4. CASE o # b
      <3>1. Owns(t, b)' = Owns(t, b)
        BY <1>2, <1>8, <2>1, <2>4
      <3>2. RegsOf(b)' = RegsOf(b)
        BY <1>11, <2>2, <3>1, OwnsChange DEF Counted
      <3>3. count'[b] = count[b]
        BY <1>2, <1>3, <1>7, <2>4 DEF TypeOK
      <3>4. QED
        BY <1>2, <2>2, <3>2, <3>3 DEF Counted
    <2>5. QED
      BY <2>3, <2>4
  <1>15. QED
    BY <1>2, <1>3, <1>4, <1>10, <1>12, <1>13, <1>14 DEF IInv, Placed, MutexFree

LEMMA CompareStep ==
  ASSUME IInv, NEW t \in Threads, DoCompare(t)
  PROVE  IInv'
  <1>1. PICK f, i, c, d, e : IsPlace(f, i, c, d, e) /\ At(t, f, i, c, d, e)
    BY DEF IInv, Placed
  <1>2. /\ todo[t] # <<>> /\ Head(todo[t]).op = "compare"
        /\ UNCHANGED <<cell, reg, count, alive, mutex>>
        /\ todo' = [todo EXCEPT ![t] = Tail(@) \o
                      IF cell[Head(todo[t]).c].block = reg[t]["mine"].block
                      THEN Success(Head(todo[t]).c) ELSE Failure(Head(todo[t]).c)]
    BY DEF DoCompare, Doing, equivalent_ownership
  <1>3. TypeOK /\ MutexFree
    BY DEF IInv
  <1> DEFINE j == NextI(i, d)
             n == NextD(d)
  <1>4. /\ ~AtEnd(f, i, d) /\ Head(todo[t]) = StepAt(f, i, c, d, e) /\ IsPlace(f, j, c, n, e)
        /\ Tail(todo[t]) = RestAt(f, j, c, n, e)
    BY <1>1, <1>2, Here
  <1>5. d = 6 /\ f = "compare" /\ i = 2 /\ Head(todo[t]) = Compare(c) /\ j = 3 /\ n = 6 /\ c \in Cells
    BY <1>1, <1>2, <1>4, OpPlaces DEF NextI, NextD, IsPlace
  <1> HIDE DEF j, n
  <1>6. Tail(todo[t]) = <<>> /\ Head(todo[t]).c = c
    <2>1. j = Size(f) + 1
      BY <1>5 DEF Size
    <2>2. RestAt(f, j, c, n, e) = <<>>
      BY <1>4, <1>5, <2>1, PlaceStep
    <2>3. QED
      BY <1>4, <1>5, <2>2, StepFields
  <1>9. PICK g : g = IF cell[c].block = reg[t]["mine"].block THEN "success" ELSE "failure"
    OBVIOUS
  <1>7. IsPlace(g, 1, c, 6, e) /\ g \in {"success", "failure"}
    BY <1>1, <1>5, <1>9 DEF IsPlace, Bodies, Size
  <1>8. todo'[t] = RestAt(g, 1, c, 6, e)
    <2>1. Body(g, c) \in Seq(Steps)
      BY <1>5, <1>7, BodyType DEF Bodies
    <2>2. RestAt(g, 1, c, 6, e) = Left(Body(g, c), 1)
      BY <1>7, PlaceStep
    <2>3. RestAt(g, 1, c, 6, e) = Body(g, c)
      BY <2>1, <2>2, LeftEnd
    <2>4. todo'[t] = <<>> \o Body(g, c)
      BY <1>2, <1>3, <1>6, <1>9 DEF TypeOK, Body
    <2>5. QED
      BY <2>1, <2>3, <2>4, InFront
  <1>10. /\ Depth(g, 1, 6) = Depth(f, i, d)
         /\ Used(g, 1, 6) = Used(f, i, d)
         /\ BorrowedAt(f, i, d) = {} /\ BorrowedAt(g, 1, 6) = {}
    BY <1>5, <1>7 DEF Depth, LockedAt, Used, Size, BorrowedAt
  <1>11. TypeOK'
    <2>1. todo' = [todo EXCEPT ![t] = RestAt(g, 1, c, 6, e)]
      BY <1>2, <1>3, <1>8, ZenonT(30), SMTT(30) DEF TypeOK
    <2>2. RestAt(g, 1, c, 6, e) \in Seq(Steps)
      BY <1>7, PlaceStep
    <2>3. todo' \in [Threads -> Seq(Steps)]
      BY <1>3, <2>1, <2>2 DEF TypeOK
    <2>4. UNCHANGED <<cell, reg, count, alive, mutex>>
      BY <1>2
    <2>5. QED
      BY <1>3, <2>3, <2>4 DEF TypeOK
  <1>12. \A u \in Threads \ {t} : todo'[u] = todo[u] /\ reg'[u] = reg[u]
    BY <1>2, <1>3 DEF TypeOK
  <1>13. \A u \in Threads \ {t} : Placed(u)'
    BY <1>2, <1>12, Others DEF IInv
  <1>14. At(t, g, 1, c, 6, e)'
    <2>1. ~(g = "load" /\ 1 = 3) /\ ~(g = "failure" /\ 1 = 2) /\ ~(g = "success" /\ 1 = 2)
      BY <1>7
    <2>2. g = "success" => cell'[c].block = reg'[t]["mine"].block
      BY <1>2, <1>9
    <2>3. QED
      BY <1>1, <1>2, <1>8, <1>10, <2>1, <2>2 DEF At
  <1>15. ASSUME NEW b \in Blocks
         PROVE  Counted(b)'
    <2>1. UNCHANGED <<cell, reg, count, alive>>
      BY <1>2
    <2>2. /\ BorrowedAt(g, 1, 6) = BorrowedAt(f, i, d)
          /\ \A u \in Threads \ {t} : todo'[u] = todo[u]
      BY <1>10, <1>12
    <2>3. QED
      BY <1>1, <1>7, <1>8, <2>1, <2>2, QuietStep
  <1>16. QED
    BY <1>2, <1>3, <1>7, <1>11, <1>13, <1>14, <1>15 DEF IInv, Placed, MutexFree

LEMMA ExchangeStep ==
  ASSUME IInv, NEW t \in Threads, DoExchange(t)
  PROVE  IInv'
  <1>1. PICK f, i, c, d, e : IsPlace(f, i, c, d, e) /\ At(t, f, i, c, d, e)
    BY DEF IInv, Placed
  <1> DEFINE s == Head(todo[t])
             q == s.from
             r == s.r
  <1>2. /\ todo[t] # <<>> /\ s.op = "exchange" /\ todo' = [todo EXCEPT ![t] = Tail(@)]
        /\ UNCHANGED <<cell, count, alive, mutex>>
        /\ reg' = [reg EXCEPT ![t][q] = reg[t][r], ![t][r] = reg[t][q]]
    BY DEF DoExchange, Doing, Rest
  <1>3. TypeOK /\ MutexFree
    BY DEF IInv
  <1> DEFINE j == NextI(i, d)
             n == NextD(d)
  <1>4. /\ ~AtEnd(f, i, d) /\ s = StepAt(f, i, c, d, e) /\ IsPlace(f, j, c, n, e)
        /\ todo'[t] = RestAt(f, j, c, n, e) /\ f \in Bodies
    BY <1>1, <1>2, <1>3, Here DEF TypeOK
  <1>5. /\ \/ f = "load" /\ i = 5 /\ s = Exchange("tmp", "mine") /\ j = 6
           \/ f = "exchange" /\ i = 4 /\ s = Exchange("arg", "mine") /\ j = 5
           \/ f = "failure" /\ i = 3 /\ s = Exchange("tmp", "mine") /\ j = 4
        /\ d = 6 /\ n = 6
    BY <1>1, <1>2, <1>4, OpPlaces DEF NextI, NextD
  <1> HIDE DEF j, n
  <1>6. q \in {"tmp", "arg"} /\ r = "mine" /\ q \in Regs /\ r \in Regs /\ q # r
    BY <1>5, StepFields DEF Regs
  <1>7. /\ Depth(f, j, n) = Depth(f, i, d)
        /\ Used(f, j, n) = Used(f, i, d) /\ q \in Used(f, i, d) /\ r \in Used(f, i, d)
        /\ BorrowedAt(f, i, d) = {} /\ BorrowedAt(f, j, n) = {}
    <2>1. /\ f = "load" \/ f = "failure" => q = "tmp"
          /\ f = "exchange" => q = "arg"
      BY <1>5, StepFields
    <2>2. QED
      BY <1>5, <1>6, <2>1 DEF Depth, LockedAt, Used, Size, BorrowedAt, Regs
  <1> HIDE DEF s, q, r
  <1>8. /\ reg[t] \in [Regs -> Refs] /\ reg'[t][q] = reg[t][r] /\ reg'[t][r] = reg[t][q]
        /\ \A p \in Regs \ {q, r} : reg'[t][p] = reg[t][p]
        /\ reg' \in [Threads -> [Regs -> Refs]]
    BY <1>2, <1>3, <1>6, SMTT(30), ZenonT(30) DEF TypeOK
  <1>9. TypeOK'
    BY <1>2, <1>3, <1>8, HeadTailProperties DEF TypeOK
  <1>10. \A u \in Threads \ {t} : todo'[u] = todo[u] /\ reg'[u] = reg[u]
    BY <1>2, <1>3, <1>6 DEF TypeOK
  <1>11. \A u \in Threads \ {t} : Placed(u)'
    BY <1>2, <1>10, Others DEF IInv
  <1>12. At(t, f, j, c, n, e)'
    <2>1. \A p \in Regs \ Used(f, j, n) : reg'[t][p] = Empty
      BY <1>1, <1>7, <1>8 DEF At
    <2>2. ~(f = "load" /\ j = 3) /\ ~(f = "failure" /\ j = 2) /\ f # "success" /\ n # 3
      BY <1>5
    <2>3. QED
      BY <1>1, <1>2, <1>4, <1>7, <2>1, <2>2 DEF At
  <1>13. ASSUME NEW b \in Blocks
         PROVE  Counted(b)'
    <2>1. /\ Owns(t, b) = {p \in Regs : reg[t][p].block = b}
          /\ Owns(t, b)' = {p \in Regs : reg'[t][p].block = b}
      BY <1>1, <1>4, <1>7, OwnsAt, OwnsAtNext
    <2>2. Counted(b) /\ CellsOf(b)' = CellsOf(b)
      BY <1>2 DEF IInv, CellsOf
    <2>3. CASE reg[t][q].block = reg[t][r].block
      <3>1. Owns(t, b)' = Owns(t, b)
        BY <1>6, <1>8, <2>1, <2>3
      <3>2. RegsOf(b)' = RegsOf(b)
        BY <1>10, <2>2, <3>1, OwnsChange DEF Counted
      <3>3. QED
        BY <1>2, <2>2, <3>2 DEF Counted
    <2>4. CASE reg[t][q].block = b /\ reg[t][r].block # b
      <3>1. Owns(t, b)' = (Owns(t, b) \ {q}) \cup {r} /\ q \in Owns(t, b) /\ r \in Regs \ Owns(t, b)
        BY <1>6, <1>8, <2>1, <2>4
      <3>2. IsFiniteSet(RegsOf(b)') /\ Cardinality(RegsOf(b)') = Cardinality(RegsOf(b))
        BY <1>10, <2>2, <3>1, OwnsChange DEF Counted
      <3>3. QED
        BY <1>2, <2>2, <3>2 DEF Counted
    <2>5. CASE reg[t][q].block # b /\ reg[t][r].block = b
      <3>1. Owns(t, b)' = (Owns(t, b) \ {r}) \cup {q} /\ r \in Owns(t, b) /\ q \in Regs \ Owns(t, b)
        BY <1>6, <1>8, <2>1, <2>5, ZenonT(60), SMTT(30)
      <3>2. IsFiniteSet(RegsOf(b)') /\ Cardinality(RegsOf(b)') = Cardinality(RegsOf(b))
        BY <1>10, <2>2, <3>1, OwnsChange DEF Counted
      <3>3. QED
        BY <1>2, <2>2, <3>2 DEF Counted
    <2>6. CASE reg[t][q].block # b /\ reg[t][r].block # b
      <3>1. Owns(t, b)' = Owns(t, b)
        BY <1>6, <1>8, <2>1, <2>6
      <3>2. RegsOf(b)' = RegsOf(b)
        BY <1>10, <2>2, <3>1, OwnsChange DEF Counted
      <3>3. QED
        BY <1>2, <2>2, <3>2 DEF Counted
    <2>7. QED
      BY <2>3, <2>4, <2>5, <2>6
  <1>14. QED
    BY <1>2, <1>3, <1>4, <1>9, <1>11, <1>12, <1>13 DEF IInv, Placed, MutexFree

LEMMA SwapStep ==
  ASSUME IInv, NEW t \in Threads, DoSwap(t)
  PROVE  IInv'
  <1>1. PICK f, i, c, d, e : IsPlace(f, i, c, d, e) /\ At(t, f, i, c, d, e)
    BY DEF IInv, Placed
  <1> DEFINE s == Head(todo[t])
             r == IF s.op = "swap" THEN s.r ELSE "tmp"
  <1>2. /\ todo[t] # <<>> /\ s.op \in {"swap", "assign"} /\ todo' = [todo EXCEPT ![t] = Tail(@)]
        /\ UNCHANGED <<count, alive, mutex>>
        /\ cell' = [cell EXCEPT ![s.c] = reg[t][r]]
        /\ reg' = [reg EXCEPT ![t][r] = cell[s.c]]
    BY DEF DoSwap, Doing, Rest
  <1>3. TypeOK /\ MutexFree
    BY DEF IInv
  <1> DEFINE j == NextI(i, d)
             n == NextD(d)
  <1>4. /\ ~AtEnd(f, i, d) /\ s = StepAt(f, i, c, d, e) /\ IsPlace(f, j, c, n, e)
        /\ todo'[t] = RestAt(f, j, c, n, e) /\ f \in Bodies
    BY <1>1, <1>2, <1>3, Here DEF TypeOK
  <1>5. /\ \/ f \in {"store", "exchange"} /\ i = 2 /\ s = Swap(c, "arg") /\ j = 3
           \/ f = "success" /\ i = 3 /\ s = Assign(c) /\ j = 4
        /\ d = 6 /\ n = 6 /\ c \in Cells
    BY <1>1, <1>2, <1>4, OpPlaces DEF NextI, NextD, IsPlace
  <1> HIDE DEF j, n
  <1>6. /\ \/ f \in {"store", "exchange"} /\ i = 2 /\ r = "arg" /\ j = 3
           \/ f = "success" /\ i = 3 /\ r = "tmp" /\ j = 4
        /\ s.c = c /\ r \in Regs
    BY <1>5, StepFields DEF Regs
  <1>7. cell' = [cell EXCEPT ![c] = reg[t][r]] /\ reg' = [reg EXCEPT ![t][r] = cell[c]]
    BY <1>2, <1>6
  <1> HIDE DEF s, r
  <1>8. /\ Depth(f, j, n) = Depth(f, i, d) /\ Depth(f, i, d) # 0
        /\ Used(f, j, n) = Used(f, i, d) /\ r \in Used(f, i, d)
        /\ BorrowedAt(f, i, d) = {} /\ BorrowedAt(f, j, n) = {}
    BY <1>5, <1>6 DEF Depth, LockedAt, Used, Size, BorrowedAt, Regs
  <1>9. mutex.owner = t
    BY <1>1, <1>8 DEF At
  <1>10. /\ reg[t] \in [Regs -> Refs] /\ reg'[t][r] = cell[c]
         /\ \A p \in Regs \ {r} : reg'[t][p] = reg[t][p]
         /\ reg' \in [Threads -> [Regs -> Refs]] /\ cell' \in [Cells -> Refs]
         /\ cell'[c] = reg[t][r] /\ \A x \in Cells \ {c} : cell'[x] = cell[x]
    BY <1>3, <1>5, <1>6, <1>7 DEF TypeOK
  <1>11. TypeOK'
    BY <1>2, <1>3, <1>10, HeadTailProperties DEF TypeOK
  <1>12. \A u \in Threads \ {t} : todo'[u] = todo[u] /\ reg'[u] = reg[u]
    BY <1>2, <1>3, <1>7 DEF TypeOK
  <1>13. \A u \in Threads \ {t} : Placed(u)'
    BY <1>2, <1>9, <1>12, Others DEF IInv
  <1>14. At(t, f, j, c, n, e)'
    <2>1. \A p \in Regs \ Used(f, j, n) : reg'[t][p] = Empty
      BY <1>1, <1>8, <1>10 DEF At
    <2>2. /\ ~(f = "load" /\ j = 3) /\ ~(f = "failure" /\ j = 2)
          /\ ~(f = "success" /\ j = 2) /\ ~(f = "success" /\ j \in 1 .. 3) /\ n # 3
      BY <1>5, <1>6
    <2>3. QED
      BY <1>1, <1>2, <1>4, <1>8, <2>1, <2>2 DEF At
  <1>15. ASSUME NEW b \in Blocks
         PROVE  Counted(b)'
    <2>1. /\ Owns(t, b) = {p \in Regs : reg[t][p].block = b}
          /\ Owns(t, b)' = {p \in Regs : reg'[t][p].block = b}
      BY <1>1, <1>4, <1>8, OwnsAt, OwnsAtNext
    <2>2. /\ Counted(b) /\ IsFiniteSet(CellsOf(b)) /\ IsFiniteSet(RegsOf(b))
          /\ Cardinality(CellsOf(b)) \in Nat /\ Cardinality(RegsOf(b)) \in Nat
      BY FS_CardinalityType DEF IInv, Counted
    <2>3. CASE reg[t][r].block = b <=> cell[c].block = b
      <3>1. Owns(t, b)' = Owns(t, b)
        BY <1>6, <1>10, <2>1, <2>3
      <3>2. RegsOf(b)' = RegsOf(b)
        BY <1>12, <2>2, <3>1, OwnsChange
      <3>3. CellsOf(b)' = CellsOf(b)
        BY <1>5, <1>10, <2>2, <2>3, CellsChange
      <3>4. QED
        BY <1>2, <2>2, <3>2, <3>3 DEF Counted
    <2>4. CASE reg[t][r].block = b /\ cell[c].block # b
      <3>1. Owns(t, b)' = Owns(t, b) \ {r} /\ r \in Owns(t, b)
        BY <1>6, <1>10, <2>1, <2>4
      <3>2. IsFiniteSet(RegsOf(b)') /\ Cardinality(RegsOf(b)') = Cardinality(RegsOf(b)) - 1
        BY <1>12, <2>2, <3>1, OwnsChange
      <3>3. IsFiniteSet(CellsOf(b)') /\ Cardinality(CellsOf(b)') = Cardinality(CellsOf(b)) + 1
        BY <1>5, <1>10, <2>2, <2>4, CellsChange
      <3>4. QED
        BY <1>2, <2>2, <3>2, <3>3 DEF Counted
    <2>5. CASE reg[t][r].block # b /\ cell[c].block = b
      <3>1. Owns(t, b)' = Owns(t, b) \cup {r} /\ r \in Regs \ Owns(t, b)
        BY <1>6, <1>10, <2>1, <2>5
      <3>2. IsFiniteSet(RegsOf(b)') /\ Cardinality(RegsOf(b)') = Cardinality(RegsOf(b)) + 1
        BY <1>12, <2>2, <3>1, OwnsChange
      <3>3. IsFiniteSet(CellsOf(b)') /\ Cardinality(CellsOf(b)') = Cardinality(CellsOf(b)) - 1
        BY <1>5, <1>10, <2>2, <2>5, CellsChange
      <3>4. QED
        BY <1>2, <2>2, <3>2, <3>3 DEF Counted
    <2>6. QED
      BY <2>3, <2>4, <2>5
  <1>16. QED
    BY <1>2, <1>3, <1>4, <1>11, <1>13, <1>14, <1>15 DEF IInv, Placed, MutexFree

LEMMA ReleaseStep ==
  ASSUME IInv, NEW t \in Threads, DoRelease(t)
  PROVE  IInv'
  <1>1. PICK f, i, c, d, e : IsPlace(f, i, c, d, e) /\ At(t, f, i, c, d, e)
    BY DEF IInv, Placed
  <1> DEFINE s == Head(todo[t])
             r == s.r
             o == reg[t][r].block
             last == o # NULL /\ count[o] = 1
  <1>2. /\ todo[t] # <<>> /\ s.op = "release"
        /\ UNCHANGED <<cell, mutex>>
        /\ reg' = [reg EXCEPT ![t][r] = Empty]
        /\ count' = IF o = NULL THEN count ELSE [count EXCEPT ![o] = @ - 1]
        /\ alive' = IF last THEN alive \ {o} ELSE alive
        /\ \/ todo' = [todo EXCEPT ![t] = Tail(@)]
           \/ \E x \in Cells : todo' = [todo EXCEPT ![t] = Deleter(x) \o Tail(@)]
    BY DEF DoRelease, Doing, Rest
  <1>3. TypeOK /\ MutexFree
    BY DEF IInv
  <1>0. todo[t] # <<>> /\ s.op = "release"
    BY <1>2
  <1> DEFINE j == NextI(i, d)
             n == NextD(d)
  <1>4. /\ ~AtEnd(f, i, d) /\ s = StepAt(f, i, c, d, e) /\ IsPlace(f, j, c, n, e)
        /\ Tail(todo[t]) = RestAt(f, j, c, n, e) /\ f \in Bodies /\ (d # 6 => Interruptible(f, i))
    BY <1>0, <1>1, Here, SMTT(30), ZenonT(30)
  <1>5. \/ d = 5 /\ s = Release("del") /\ j = i /\ n = 6
        \/ /\ d = 6 /\ n = 6 /\ j = i + 1
           /\ \/ f = "load" /\ i = 6 /\ s = Release("tmp")
              \/ f = "store" /\ i = 4 /\ s = Release("arg")
              \/ f = "exchange" /\ i = 5 /\ s = Release("arg")
              \/ f \in {"success", "failure"} /\ i = 4 /\ s = Release("tmp")
              \/ f \in {"success", "failure"} /\ i = 6 /\ s = Release("arg")
              \/ f = "drop" /\ i = 1 /\ s = Release("mine")
    <2>1. StepAt(f, i, c, d, e).op = "release"
      BY <1>0, <1>4
    <2>2. QED
      BY <1>1, <1>4, <2>1, OpPlaces, SMTT(30), ZenonT(30) DEF NextI, NextD
  <1> HIDE DEF j, n
  <1>6. /\ \/ d = 5 /\ r = "del" /\ j = i
           \/ /\ d = 6 /\ j = i + 1
              /\ \/ f = "load" /\ i = 6 /\ r = "tmp"
                 \/ f = "store" /\ i = 4 /\ r = "arg"
                 \/ f = "exchange" /\ i = 5 /\ r = "arg"
                 \/ f \in {"success", "failure"} /\ i = 4 /\ r = "tmp"
                 \/ f \in {"success", "failure"} /\ i = 6 /\ r = "arg"
                 \/ f = "drop" /\ i = 1 /\ r = "mine"
        /\ n = 6 /\ r \in Regs
    BY <1>5, StepFields DEF Regs
  <1>7. Interruptible(f, j)
    <2>1. CASE d = 5
      BY <1>4, <1>6, <2>1
    <2>2. CASE d = 6
      BY <1>6, <2>2 DEF Interruptible, Size
    <2>3. QED
      BY <1>6, <2>1, <2>2
  \* The deleter, if there is one, runs in front of what was left.
  <1>8. PICK m, x : /\ IsPlace(f, j, c, m, x) /\ todo'[t] = RestAt(f, j, c, m, x) /\ m \in {1, 6}
                    /\ todo' = [todo EXCEPT ![t] = RestAt(f, j, c, m, x)]
    <2>1. CASE todo' = [todo EXCEPT ![t] = Tail(@)]
      BY <1>3, <1>4, <1>6, <2>1 DEF TypeOK
    <2>2. ASSUME NEW x \in Cells, todo' = [todo EXCEPT ![t] = Deleter(x) \o Tail(@)]
          PROVE  /\ IsPlace(f, j, c, 1, x) /\ todo'[t] = RestAt(f, j, c, 1, x)
                 /\ todo' = [todo EXCEPT ![t] = RestAt(f, j, c, 1, x)]
      <3>1. IsPlace(f, j, c, 1, x)
        BY <1>4, <1>7 DEF IsPlace
      <3>2. RestAt(f, j, c, n, e) = Left(Body(f, c), j)
        BY <1>4, <1>6, PlaceStep
      <3>3. RestAt(f, j, c, 1, x) = Deleter(x) \o Tail(todo[t])
        <4>1. RestAt(f, j, c, 1, x) = Deleter(x) \o Left(Body(f, c), j)
          BY <3>1, PlaceStep
        <4>2. QED
          BY <1>4, <3>2, <4>1
      <3>4. QED
        BY <1>3, <2>2, <3>1, <3>3 DEF TypeOK
    <2>3. \/ todo' = [todo EXCEPT ![t] = Tail(@)]
          \/ \E x \in Cells : todo' = [todo EXCEPT ![t] = Deleter(x) \o Tail(@)]
      BY <1>2, ZenonT(30), SMTT(30)
    <2>4. CASE todo' = [todo EXCEPT ![t] = Tail(@)]
      BY <2>1, <2>4
    <2>5. QED
      BY <2>2, <2>3, <2>4
  <1> HIDE DEF s
  <1>9. /\ Depth(f, j, m) = Depth(f, i, d)
        /\ Used(f, j, m) \cup {r} = Used(f, i, d) \cup {r}
        /\ BorrowedAt(f, i, d) = {} /\ BorrowedAt(f, j, m) = {}
    <2>1. CASE d = 5 /\ r = "del" /\ j = i
      <3>1. Depth(f, j, m) = Depth(f, i, d)
        BY <1>8, <2>1 DEF Depth
      <3>2. Used(f, j, m) \cup {r} = Used(f, i, d) \cup {r}
        BY <1>8, <2>1 DEF Used
      <3>3. BorrowedAt(f, i, d) = {} /\ BorrowedAt(f, j, m) = {}
        BY <1>4, <1>8, <2>1 DEF BorrowedAt, Interruptible, Size, Bodies, Regs
      <3>4. QED
        BY <3>1, <3>2, <3>3
    <2>2. CASE d # 5
      <3>1. Depth(f, j, m) = Depth(f, i, d)
        BY <1>6, <1>8, <2>2 DEF Depth, LockedAt
      <3>2. Used(f, j, m) \cup {r} = Used(f, i, d) \cup {r}
        BY <1>6, <1>8, <2>2 DEF Used, Size, Regs
      <3>3. BorrowedAt(f, i, d) = {} /\ BorrowedAt(f, j, m) = {}
        BY <1>6, <1>8, <2>2 DEF BorrowedAt
      <3>4. QED
        BY <3>1, <3>2, <3>3
    <2>3. QED
      BY <2>1, <2>2, <1>6
  <1>10. /\ reg[t] \in [Regs -> Refs] /\ reg'[t][r] = Empty
         /\ \A p \in Regs \ {r} : reg'[t][p] = reg[t][p]
         /\ reg' \in [Threads -> [Regs -> Refs]]
    BY <1>2, <1>3, <1>6 DEF TypeOK, Refs, Empty
  <1>11. o \in Blocks \cup {NULL}
    BY <1>6, <1>10 DEF Refs
  <1>12. ASSUME o # NULL
         PROVE  count[o] \in Nat \ {0} /\ o \in Blocks /\ r \in Owns(t, o)
    <2>1. Counted(o) /\ o \in Blocks
      BY <1>11, <1>12 DEF IInv
    <2>2. r \in Owns(t, o)
      BY <1>1, <1>6, <1>9, OwnsAt
    <2>3. <<t, r>> \in RegsOf(o)
      BY <2>2 DEF Owns, RegsOf
    <2>4. /\ Cardinality(CellsOf(o)) \in Nat /\ Cardinality(RegsOf(o)) \in Nat
          /\ Cardinality(RegsOf(o)) # 0
      BY <2>1, <2>3, FS_CardinalityType, FS_EmptySet DEF Counted
    <2>5. QED
      BY <2>1, <2>2, <2>4 DEF Counted
  <1>13. TypeOK'
    <2>1. count' \in [Blocks -> Nat] /\ alive' \subseteq Blocks
      BY <1>2, <1>3, <1>12 DEF TypeOK
    <2>2. RestAt(f, j, c, m, x) \in Seq(Steps)
      BY <1>8, PlaceStep
    <2>3. todo' \in [Threads -> Seq(Steps)]
      BY <1>3, <1>8, <2>2 DEF TypeOK
    <2>4. QED
      BY <1>2, <1>3, <1>10, <2>1, <2>3 DEF TypeOK
  <1>14. \A u \in Threads \ {t} : todo'[u] = todo[u] /\ reg'[u] = reg[u]
    BY <1>2, <1>3, <1>8 DEF TypeOK
  <1>15. \A u \in Threads \ {t} : Placed(u)'
    BY <1>2, <1>14, Others DEF IInv
  <1>16. At(t, f, j, c, m, x)'
    <2>1. \A p \in Regs \ Used(f, j, m) : reg'[t][p] = Empty
      BY <1>1, <1>9, <1>10 DEF At
    <2>2. /\ ~(f = "load" /\ j = 3) /\ ~(f = "failure" /\ j = 2)
          /\ ~(f = "success" /\ j = 2) /\ ~(f = "success" /\ j \in 1 .. 3) /\ m # 3
      BY <1>7, <1>8 DEF Interruptible, Size
    <2>3. QED
      BY <1>1, <1>2, <1>8, <1>9, <2>1, <2>2 DEF At
  <1>17. ASSUME NEW b \in Blocks
         PROVE  Counted(b)'
    <2>1. /\ Owns(t, b) = {p \in Regs : reg[t][p].block = b}
          /\ Owns(t, b)' = {p \in Regs : reg'[t][p].block = b}
      <3>1. Owns(t, b) = {p \in Regs : reg[t][p].block = b /\ p \notin BorrowedAt(f, i, d)}
        BY <1>1, OwnsAt
      <3>2. \A p \in Regs : p \in Owns(t, b)' <=> reg'[t][p].block = b /\ p \notin BorrowedAt(f, j, m)
        <4>1. IsPlace(f, j, c, m, x) /\ todo'[t] = RestAt(f, j, c, m, x)
          BY <1>8
        <4>2. \A p \in Regs : Borrowed(t, p)' <=> p \in BorrowedAt(f, j, m)
          BY <4>1, BorrowedIsNext
        <4>3. QED
          BY <4>2 DEF Owns
      <3>3. Owns(t, b)' \subseteq Regs
        BY DEF Owns
      <3>4. QED
        BY <1>9, <3>1, <3>2, <3>3
    <2>2. Counted(b) /\ CellsOf(b)' = CellsOf(b) /\ b # NULL /\ count[b] \in Nat
      BY <1>2, <1>3, AtomicAssumption DEF IInv, CellsOf, TypeOK
    <2>3. CASE o = b
      <3>1. Owns(t, b)' = Owns(t, b) \ {r} /\ r \in Owns(t, b)
        BY <1>10, <1>12, <2>1, <2>2, <2>3 DEF Empty
      <3>2. IsFiniteSet(RegsOf(b)') /\ Cardinality(RegsOf(b)') = Cardinality(RegsOf(b)) - 1
        BY <1>14, <2>2, <3>1, OwnsChange DEF Counted
      <3>3. count'[b] = count[b] - 1 /\ count[b] # 0
        BY <1>2, <1>3, <1>12, <2>2, <2>3 DEF TypeOK
      <3>4. Cardinality(CellsOf(b)) \in Nat /\ Cardinality(RegsOf(b)) \in Nat
        BY <2>2, FS_CardinalityType DEF Counted
      <3>5. b \in alive' <=> count'[b] > 0
        BY <1>2, <2>2, <2>3, <3>3 DEF Counted
      <3>6. QED
        BY <2>2, <3>2, <3>3, <3>4, <3>5 DEF Counted
    <2>4. CASE o # b
      <3>1. Owns(t, b)' = Owns(t, b)
        BY <1>6, <1>10, <2>1, <2>2, <2>4, SMTT(30), ZenonT(30) DEF Empty
      <3>2. RegsOf(b)' = RegsOf(b)
        BY <1>14, <2>2, <3>1, OwnsChange DEF Counted
      <3>3. count'[b] = count[b] /\ (b \in alive' <=> b \in alive)
        BY <1>2, <1>3, <2>4 DEF TypeOK
      <3>4. QED
        BY <2>2, <3>2, <3>3 DEF Counted
    <2>5. QED
      BY <2>3, <2>4
  <1>18. QED
    BY <1>2, <1>3, <1>8, <1>13, <1>15, <1>16, <1>17 DEF IInv, Placed, MutexFree

-----------------------------------------------------------------------------
(* The calls.                                                                 *)

\* Between calls a thread holds nothing but its own shared_ptr.
LEMMA Idle ==
  ASSUME IInv, NEW t \in Threads, todo[t] = <<>>
  PROVE  /\ mutex.owner # t
         /\ \A r \in Regs \ {"mine"} : reg[t][r] = Empty
         /\ \A b : Owns(t, b) = {r \in Regs : reg[t][r].block = b}
  <1>1. PICK f, i, c, d, e : IsPlace(f, i, c, d, e) /\ At(t, f, i, c, d, e)
    BY DEF IInv, Placed
  <1>2. todo[t] = RestAt(f, i, c, d, e)
    BY <1>1 DEF At
  <1>3. d = 6 /\ i = Size(f) + 1 /\ f \in Bodies
    BY <1>1, <1>2, PlaceStep DEF IsPlace
  <1>4. Depth(f, i, d) = 0 /\ Used(f, i, d) = {"mine"}
    <2>1. Size(f) \in Nat
      BY <1>3, BodyType
    <2>2. ~LockedAt(f, i)
      BY <1>3 DEF LockedAt, Size, Bodies
    <2>3. Used(f, i, d) = {"mine"}
      BY <1>3, <2>1 DEF Used, Size, Bodies, Regs
    <2>4. QED
      BY <1>3, <2>2, <2>3 DEF Depth
  <1>5. \A b : Owns(t, b) = {r \in Regs : reg[t][r].block = b}
    BY DEF Owns, Borrowed
  <1>6. QED
    BY <1>1, <1>4, <1>5 DEF At

\* A thread begins a call, with an argument or without.
LEMMA Begin ==
  ASSUME IInv, NEW t \in Threads, todo[t] = <<>>,
         NEW g \in {"load", "store", "exchange", "compare", "drop"}, NEW c \in Cells \cup {NULL},
         g # "drop" => c \in Cells,
         todo' = [todo EXCEPT ![t] = Body(g, c)], UNCHANGED <<cell, mutex>>,
         reg' \in [Threads -> [Regs -> Refs]],
         \A u \in Threads \ {t} : reg'[u] = reg[u],
         \A r \in Regs \ {"mine"} : r # "arg" \/ g \in {"load", "drop"} => reg'[t][r] = Empty
  PROVE  /\ todo' \in [Threads -> Seq(Steps)] /\ cell' \in [Cells -> Refs]
         /\ mutex' \in [owner : Threads \cup {NULL}, depth : Nat, recursive : Recursive] /\ MutexFree'
         /\ \A u \in Threads : Placed(u)'
         /\ \A u \in Threads \ {t} : todo'[u] = todo[u]
  <1>1. TypeOK /\ MutexFree /\ mutex.owner # t
    BY Idle DEF IInv
  <1>2. IsPlace(g, 1, c, 6, NULL) /\ g \in Bodies
    BY DEF IsPlace, Bodies, Size
  <1>3. todo'[t] = RestAt(g, 1, c, 6, NULL)
    <2>1. RestAt(g, 1, c, 6, NULL) = Left(Body(g, c), 1)
      BY <1>2, PlaceStep
    <2>2. Body(g, c) \in Seq(Steps)
      BY <1>2, BodyType
    <2>3. RestAt(g, 1, c, 6, NULL) = Body(g, c)
      BY <2>1, <2>2, LeftEnd
    <2>4. QED
      BY <1>1, <2>3 DEF TypeOK
  <1>4. todo' \in [Threads -> Seq(Steps)]
    BY <1>1, <1>2, BodyType DEF TypeOK
  <1>5. \A u \in Threads \ {t} : todo'[u] = todo[u] /\ reg'[u] = reg[u]
    BY <1>1 DEF TypeOK
  <1>6. \A u \in Threads \ {t} : Placed(u)'
    BY <1>5, Others DEF IInv
  <1>7. Depth(g, 1, 6) = 0 /\ BorrowedAt(g, 1, 6) = {}
    BY DEF Depth, LockedAt, BorrowedAt
  <1>8. \A r \in Regs \ Used(g, 1, 6) : reg'[t][r] = Empty
    <2>1. "mine" \in Used(g, 1, 6) /\ (g \notin {"load", "drop"} => "arg" \in Used(g, 1, 6))
      BY DEF Used, Size, Regs
    <2>2. QED
      BY <2>1
  <1>9. At(t, g, 1, c, 6, NULL)'
    <2>1. /\ ~(g = "load" /\ 1 = 3) /\ ~(g = "failure" /\ 1 = 2)
          /\ ~(g = "success" /\ 1 = 2) /\ g # "success"
      OBVIOUS
    <2>2. QED
      BY <1>1, <1>3, <1>7, <1>8, <2>1 DEF At
  <1>10. Placed(t)'
    BY <1>2, <1>9 DEF Placed
  <1>11. \A u \in Threads : Placed(u)'
    BY <1>6, <1>10
  <1>12. QED
    BY <1>1, <1>4, <1>5, <1>11 DEF TypeOK, MutexFree

\* No call begins with an addref, so all its registers count.
LEMMA BeginOwns ==
  ASSUME TypeOK, NEW t \in Threads,
         NEW g \in {"load", "store", "exchange", "compare", "drop"}, NEW c,
         todo' = [todo EXCEPT ![t] = Body(g, c)], NEW b
  PROVE  Owns(t, b)' = {r \in Regs : reg'[t][r].block = b}
  <1>1. todo'[t] = Body(g, c)
    BY DEF TypeOK
  <1>2. /\ g = "load" => Head(Body(g, c)) = Lock
        /\ g = "store" => Head(Body(g, c)) = Lock
        /\ g = "exchange" => Head(Body(g, c)) = Lock
        /\ g = "compare" => Head(Body(g, c)) = Lock
        /\ g = "drop" => Head(Body(g, c)) = Release("mine")
    BY DEF Body, atomic_load, atomic_store, atomic_exchange, atomic_compare_exchange_strong
  <1>3. \A r \in Regs : Lock # AddRef(r) /\ Release("mine") # AddRef(r)
    BY DEF Lock, AddRef, Release
  <1>4. \A r \in Regs : Head(Body(g, c)) # AddRef(r)
    BY <1>2, <1>3
  <1>5. QED
    BY <1>1, <1>4 DEF Owns, Borrowed

\* A call without an argument that owns something.
LEMMA BareCall ==
  ASSUME IInv, NEW t \in Threads, todo[t] = <<>>,
         NEW g \in {"load", "store", "exchange", "compare", "drop"}, NEW c \in Cells \cup {NULL},
         g # "drop" => c \in Cells,
         todo' = [todo EXCEPT ![t] = Body(g, c)], UNCHANGED <<cell, reg, count, alive, mutex>>
  PROVE  IInv'
  <1>1. TypeOK /\ \A r \in Regs \ {"mine"} : reg[t][r] = Empty
    BY Idle DEF IInv
  <1>2. /\ todo' \in [Threads -> Seq(Steps)] /\ MutexFree'
        /\ \A u \in Threads : Placed(u)'
        /\ \A u \in Threads \ {t} : todo'[u] = todo[u]
    BY <1>1, Begin DEF TypeOK
  <1>3. TypeOK'
    BY <1>1, <1>2 DEF TypeOK
  <1>4. ASSUME NEW b \in Blocks
        PROVE  Counted(b)'
    <2>1. Counted(b) /\ CellsOf(b)' = CellsOf(b)
      BY DEF IInv, CellsOf
    <2>2. Owns(t, b)' = Owns(t, b)
      <3>1. Owns(t, b)' = {r \in Regs : reg'[t][r].block = b}
        BY <1>1, BeginOwns
      <3>2. Owns(t, b) = {r \in Regs : reg[t][r].block = b}
        BY Idle
      <3>3. QED
        BY <3>1, <3>2
    <2>3. RegsOf(b)' = RegsOf(b)
      BY <1>2, <2>1, <2>2, OwnsChange DEF Counted
    <2>4. QED
      BY <2>1, <2>3 DEF Counted
  <1>5. QED
    BY <1>2, <1>3, <1>4 DEF IInv

\* A call whose argument owns o, which is new or owned by the caller.
LEMMA OwningCall ==
  ASSUME IInv, NEW t \in Threads, todo[t] = <<>>,
         NEW g \in {"store", "exchange", "compare"}, NEW c \in Cells,
         todo' = [todo EXCEPT ![t] = Body(g, c)], UNCHANGED <<cell, mutex>>,
         NEW o \in Blocks, NEW v \in Values,
         reg' = [reg EXCEPT ![t]["arg"] = [block |-> o, value |-> v]],
         count' = [count EXCEPT ![o] = @ + 1], alive' = alive \cup {o}
  PROVE  IInv'
  <1>1. TypeOK /\ \A r \in Regs \ {"mine"} : reg[t][r] = Empty
    BY Idle DEF IInv
  <1>2. /\ reg' \in [Threads -> [Regs -> Refs]] /\ reg[t] \in [Regs -> Refs]
        /\ \A u \in Threads \ {t} : reg'[u] = reg[u]
        /\ \A r \in Regs \ {"arg"} : reg'[t][r] = reg[t][r]
        /\ reg'[t]["arg"].block = o /\ "arg" \in Regs
    BY <1>1 DEF TypeOK, Refs, Regs
  <1>3. /\ todo' \in [Threads -> Seq(Steps)] /\ MutexFree'
        /\ \A u \in Threads : Placed(u)'
        /\ \A u \in Threads \ {t} : todo'[u] = todo[u]
    <2>1. \A r \in Regs \ {"mine"} : r # "arg" \/ g \in {"load", "drop"} => reg'[t][r] = Empty
      BY <1>1, <1>2
    <2>2. /\ g \in {"load", "store", "exchange", "compare", "drop"} /\ c \in Cells \cup {NULL}
          /\ reg' \in [Threads -> [Regs -> Refs]] /\ \A u \in Threads \ {t} : reg'[u] = reg[u]
      BY <1>2
    <2>3. QED
      BY <2>1, <2>2, Begin, ZenonT(30), SMTT(30)
  <1>4. TypeOK'
    BY <1>1, <1>2, <1>3 DEF TypeOK
  <1>5. ASSUME NEW b \in Blocks
        PROVE  Counted(b)'
    <2>1. Counted(b) /\ b # NULL /\ count[b] \in Nat /\ CellsOf(b)' = CellsOf(b)
      BY <1>1, AtomicAssumption DEF IInv, TypeOK, CellsOf
    <2>2. Owns(t, b) = {r \in Regs : reg[t][r].block = b}
      BY Idle
    <2>6. Owns(t, b)' = {r \in Regs : reg'[t][r].block = b}
      BY <1>1, BeginOwns
    <2>3. CASE b = o
      <3>1. Owns(t, b)' = Owns(t, b) \cup {"arg"} /\ "arg" \in Regs \ Owns(t, b)
        BY <1>1, <1>2, <2>1, <2>2, <2>3, <2>6 DEF Empty
      <3>2. IsFiniteSet(RegsOf(b)') /\ Cardinality(RegsOf(b)') = Cardinality(RegsOf(b)) + 1
        BY <1>2, <1>3, <2>1, <3>1, OwnsChange DEF Counted
      <3>3. count'[b] = count[b] + 1 /\ b \in alive'
        BY <1>1, <2>3 DEF TypeOK
      <3>4. Cardinality(CellsOf(b)) \in Nat /\ Cardinality(RegsOf(b)) \in Nat
        BY <2>1, FS_CardinalityType DEF Counted
      <3>5. QED
        BY <1>3, <2>1, <3>2, <3>3, <3>4 DEF Counted
    <2>4. CASE b # o
      <3>1. Owns(t, b)' = Owns(t, b)
        BY <1>1, <1>2, <2>1, <2>2, <2>4, <2>6 DEF Empty
      <3>2. RegsOf(b)' = RegsOf(b)
        BY <1>2, <1>3, <2>1, <3>1, OwnsChange DEF Counted
      <3>3. count'[b] = count[b] /\ (b \in alive' <=> b \in alive)
        BY <1>1, <2>4 DEF TypeOK
      <3>4. QED
        BY <1>3, <2>1, <3>2, <3>3 DEF Counted
    <2>5. QED
      BY <2>3, <2>4
  <1>6. QED
    BY <1>3, <1>4, <1>5 DEF IInv

LEMMA CallBody ==
  ASSUME NEW t, NEW c, NEW f \in Functions, CallWith(t, c, f)
  PROVE  /\ todo[t] = <<>> /\ todo' = [todo EXCEPT ![t] = Body(f, c)]
         /\ UNCHANGED <<cell, mutex>> /\ f \in {"store", "exchange", "compare"}
  BY DEF CallWith, Call, Body, Functions

LEMMA StartStep ==
  ASSUME IInv, NEW t \in Threads, Start(t)
  PROVE  IInv'
  <1>1. TypeOK
    BY DEF IInv
  <1>2. CASE Drop(t)
    <2>1. Body("drop", NULL) = <<Release("mine")>>
      BY DEF Body
    <2>2. QED
      BY <1>2, <2>1, BareCall DEF Drop, Call
  <1>3. ASSUME NEW c \in Cells, CallLoad(t, c)
        PROVE  IInv'
    <2>1. Body("load", c) = atomic_load(c)
      BY DEF Body
    <2>2. QED
      BY <1>3, <2>1, BareCall DEF CallLoad, Call
  <1>4. ASSUME NEW c \in Cells, NEW f \in Functions, CallEmpty(t, c, f)
        PROVE  IInv'
    BY <1>4, CallBody, BareCall DEF CallEmpty
  <1>5. ASSUME NEW c \in Cells, NEW f \in Functions, NEW v \in Values, CallAlias(t, c, f, v)
        PROVE  IInv'
    <2> DEFINE o == reg[t]["mine"].block
    <2>1. /\ CallWith(t, c, f) /\ reg[t]["mine"] # Empty /\ alive' = alive
          /\ reg' = [reg EXCEPT ![t]["arg"] = [block |-> o, value |-> v]]
          /\ count' = [count EXCEPT ![o] = @ + 1]
      BY <1>5 DEF CallAlias
    <2>2. /\ todo[t] = <<>> /\ todo' = [todo EXCEPT ![t] = Body(f, c)]
          /\ UNCHANGED <<cell, mutex>> /\ f \in {"store", "exchange", "compare"}
      BY <2>1, CallBody
    <2>3. o \in Blocks /\ "mine" \in Regs
      BY <1>1, <2>1 DEF TypeOK, Regs, Refs, Empty
    <2>4. o \in alive
      <3>1. Counted(o)
        BY <2>3 DEF IInv
      <3>2. <<t, "mine">> \in RegsOf(o)
        BY <2>2, <2>3 DEF RegsOf, Borrowed
      <3>3. /\ Cardinality(CellsOf(o)) \in Nat /\ Cardinality(RegsOf(o)) \in Nat
            /\ Cardinality(RegsOf(o)) # 0
        BY <3>1, <3>2, FS_CardinalityType, FS_EmptySet DEF Counted
      <3>4. QED
        BY <3>1, <3>3 DEF Counted
    <2>5. alive' = alive \cup {o}
      BY <2>1, <2>4
    <2> HIDE DEF o
    <2>6. QED
      BY <2>1, <2>2, <2>3, <2>5, OwningCall
  <1>6. ASSUME NEW c \in Cells, NEW f \in Functions, NEW v \in Values, NEW b \in Blocks,
               CallNew(t, c, f, b, v)
        PROVE  IInv'
    <2>1. /\ CallWith(t, c, f) /\ alive' = alive \cup {b} /\ count[b] = 0
          /\ reg' = [reg EXCEPT ![t]["arg"] = [block |-> b, value |-> v]]
          /\ count' = [count EXCEPT ![b] = 1]
      BY <1>6 DEF CallNew
    <2>2. /\ todo[t] = <<>> /\ todo' = [todo EXCEPT ![t] = Body(f, c)]
          /\ UNCHANGED <<cell, mutex>> /\ f \in {"store", "exchange", "compare"}
      BY <2>1, CallBody
    <2>3. count' = [count EXCEPT ![b] = @ + 1]
      BY <1>1, <2>1 DEF TypeOK
    <2>4. QED
      BY <2>1, <2>2, <2>3, OwningCall
  <1>7. QED
    BY <1>2, <1>3, <1>4, <1>5, <1>6 DEF Start

-----------------------------------------------------------------------------
(* The invariant, and what follows from it.                                   *)

LEMMA InitOk == Init => IInv
  <1> SUFFICES ASSUME Init
               PROVE  IInv
    OBVIOUS
  <1>1. TypeOK /\ MutexFree
    BY AtomicAssumption DEF Init, TypeOK, MutexFree, Refs, Empty
  <1>2. ASSUME NEW t \in Threads
        PROVE  Placed(t)
    <2>1. IsPlace("drop", 2, NULL, 6, NULL)
      BY DEF IsPlace, Bodies, Size
    <2>2. RestAt("drop", 2, NULL, 6, NULL) = <<>>
      <3>1. 2 = Size("drop") + 1
        BY DEF Size
      <3>2. QED
        BY <2>1, <3>1, PlaceStep
    <2>3. Depth("drop", 2, 6) = 0
      BY DEF Depth, LockedAt
    <2>4. At(t, "drop", 2, NULL, 6, NULL)
      BY <2>2, <2>3, AtomicAssumption DEF At, Init
    <2>5. QED
      BY <2>1, <2>4 DEF Placed
  <1>3. ASSUME NEW b \in Blocks
        PROVE  Counted(b)
    <2>1. CellsOf(b) = {} /\ RegsOf(b) = {}
      BY AtomicAssumption DEF Init, CellsOf, RegsOf, Empty
    <2>2. count[b] = 0 /\ alive = {}
      BY DEF Init
    <2>3. QED
      BY <2>1, <2>2, FS_EmptySet DEF Counted
  <1>4. QED
    BY <1>1, <1>2, <1>3 DEF IInv

LEMMA NextStep == IInv /\ [Next]_vars => IInv'
  <1> SUFFICES ASSUME IInv, [Next]_vars
               PROVE  IInv'
    OBVIOUS
  <1>1. CASE UNCHANGED vars
    <2>1. TypeOK' /\ MutexFree'
      BY <1>1 DEF vars, IInv, TypeOK, MutexFree
    <2>2. ASSUME NEW t \in Threads
          PROVE  Placed(t)'
      BY <1>1 DEF vars, IInv, Placed, At
    <2>3. ASSUME NEW b \in Blocks
          PROVE  Counted(b)'
      BY <1>1 DEF vars, IInv, Counted, CellsOf, RegsOf, Borrowed
    <2>4. QED
      BY <2>1, <2>2, <2>3 DEF IInv
  <1>2. ASSUME NEW t \in Threads, Step(t)
        PROVE  IInv'
    BY <1>2, LockStep, UnlockStep, ReadStep, AddRefStep, SwapStep, ExchangeStep, CompareStep,
       ReleaseStep DEF Step
  <1>3. QED
    BY <1>1, <1>2, StartStep DEF Next

LEMMA Inductive == Spec => []IInv
  BY InitOk, NextStep, PTL DEF Spec

\* At every moment of every execution the mutex has at most one owner, counts
\* are not negative and what is left of a call is made of its steps.
THEOREM TypeCorrect == Spec => []TypeOK
  <1>1. IInv => TypeOK
    BY DEF IInv
  <1>2. QED
    BY <1>1, Inductive, PTL

\* However the steps of atomic_load, atomic_store, atomic_exchange, the
\* compare-exchanges and deleters interleave, a count is the number of
\* shared_ptrs, shared or local, that own the block, and the object dies with
\* the last of them.
THEOREM CountsExact == Spec => []CountExact
  <1>1. IInv => CountExact
    BY DEF IInv, Counted, CountExact, CellsOf, RegsOf
  <1>2. QED
    BY <1>1, Inductive, PTL

\* Between the two halves of a copy, the pointers and addref, the block that
\* was read stays alive: no thread revives an object that is being destroyed.
THEOREM NotRevived == Spec => []NeverRevived
  BY BorrowedAlive, Inductive, PTL

\* When a compare-exchange assigns, the variable still holds what it compared.
THEOREM ReplacesWhatItCompared == Spec => []ReplacesCompared
  <1>1. IInv => ReplacesCompared
    <2> SUFFICES ASSUME IInv, NEW t \in Threads, Doing(t, "assign")
                 PROVE  cell[Head(todo[t]).c].block = reg[t]["mine"].block
      BY DEF ReplacesCompared
    <2>1. PICK f, i, c, d, e : IsPlace(f, i, c, d, e) /\ At(t, f, i, c, d, e)
      BY DEF IInv, Placed
    <2>2. ~AtEnd(f, i, d) /\ Head(todo[t]) = StepAt(f, i, c, d, e) /\ Head(todo[t]).op = "assign"
      BY <2>1, Here DEF Doing
    <2>3. f = "success" /\ i = 3 /\ Head(todo[t]) = Assign(c)
      BY <2>1, <2>2, OpPlaces
    <2>4. Head(todo[t]).c = c
      BY <2>3, StepFields
    <2>5. QED
      BY <2>1, <2>3, <2>4 DEF At
  <1>2. QED
    BY <1>1, Inductive, PTL
=============================================================================
