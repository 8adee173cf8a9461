------------------------------ MODULE Holders ------------------------------
(* What holds one object or none, in a buffer of its own with a tag that says *)
(* what is in it (include/EASTL): optional (optional.h), variant (variant.h)  *)
(* and expected (expected.h); any (any.h) and function                        *)
(* (internal/function_detail.h), which also put what does not fit elsewhere.  *)
(* At the grain of the construction, assignment and destruction of the object.*)
(*                                                                            *)
(* obj[c] is a holder: tag, the type of what it holds or Nothing (engaged,    *)
(* mIndex, mHasValue, m_handler, mMgrFuncPtr), and elem, what its memory has. *)
(* A call works on a memory (see Elements) with the buffer of the holder at   *)
(* Mine, that of another at Theirs, and what is allocated from New on; m.tag   *)
(* has the tags.  Built as CMakeLists.txt:94 does, without the changes of      *)
(* EA_DEPRECATIONS_FOR_2025_APRIL.                                            *)
EXTENDS Elements, Calls

CONSTANT
  Programs   \* what a behaviour may do: kind, the class; objs, the holders;
             \* values, what they are given; moves and throws, the types with a
             \* move constructor, which does not throw, and those whose copies may

VARIABLES
  prog,    \* the program: a member of Programs
  obj,
  fault,   \* a step was undefined, or something was left behind
  call     \* the last call and its result, as in Sequence

vars == <<prog, obj, fault, call>>

\* The first digit of an element is its type: the alternatives 1 and 2 of a
\* variant, T and E of an expected, a small and a large class.
TypeOf(x) == x \div 10
Nothing == 0

Is(kinds) == prog.kind \in kinds
InPlace == {"optional", "variant", "expected"}

\* A variant and an expected begin with a default constructed T.
Init ==
  /\ prog \in Programs
  /\ \/ /\ Is({"optional", "any", "function"})
        /\ obj = [c \in prog.objs |-> [tag |-> Nothing, elem |-> Raw]]
        /\ call = Quiet
     \/ /\ Is({"variant", "expected"})
        /\ obj = [c \in prog.objs |-> [tag |-> 1, elem |-> 10]]
        /\ call = Constructed(<<10>>)
  /\ fault = FALSE

Contents(c) == IF obj[c].tag = Nothing THEN <<>> ELSE <<obj[c].elem>>

-----------------------------------------------------------------------------
(* The memory a call works on.                                                *)
Mine == 0  Theirs == 1  Heap == New .. New + 3

\* The small buffer takes the small class, any only if its move does not throw.
Fits(t) ==
  \/ Is(InPlace)
  \/ Is({"any"}) /\ t = 1 /\ t \in prog.moves
  \/ Is({"function"}) /\ t = 1

Pointer(c, a) == IF obj[c].tag = Nothing \/ Fits(obj[c].tag) THEN obj[c].elem ELSE a
Pointee(c) == IF obj[c].tag = Nothing \/ Fits(obj[c].tag) THEN NoMemory ELSE obj[c].elem

Frame(c, d, vals, f) ==
  [slot |-> (Mine :> Pointer(c, New)) @@ (Theirs :> Pointer(d, New + 1))
              @@ (New :> Pointee(c)) @@ (New + 1 :> IF d = c THEN NoMemory ELSE Pointee(d))
              @@ [a \in Heap |-> NoMemory] @@ Arguments(vals),
   tag |-> (Mine :> obj[c].tag) @@ (Theirs :> obj[d].tag) @@ (Temp :> Nothing) @@ (Saved :> Nothing),
   moves |-> TRUE, fuse |-> f, threw |-> FALSE, fault |-> FALSE]

\* An element of type t is made at a, or assigned to the one there, from another,
\* copied or moved.
Typed(m, t) ==
  [m EXCEPT !.moves = t \in prog.moves, !.fuse = IF t \in prog.throws THEN @ ELSE 0]
Again(x, m, t) == [x EXCEPT !.fuse = IF t \in prog.throws THEN @ ELSE m.fuse]
Make(m, a, from, t, moving) ==
  Again(IF moving THEN Move(Typed(m, t), a, from) ELSE Copy(Typed(m, t), a, from), m, t)
Give(m, a, from, t, moving) ==
  Again(IF moving THEN MoveAssign(Typed(m, t), a, from) ELSE CopyAssign(Typed(m, t), a, from), m, t)

\* eastl::swap.
SwapElements(m, a, b, t) ==
  EndLocal(Give(Give(Make(m, Temp, a, t, TRUE), a, b, t, TRUE), b, Temp, t, TRUE), Temp)

Tagged(m, b, t) == IF m.threw THEN m ELSE [m EXCEPT !.tag[b] = t]

\* In a catch block.
Caught(x, Do(_)) == [Do([x EXCEPT !.threw = FALSE]) EXCEPT !.threw = TRUE]

-----------------------------------------------------------------------------
(* optional and variant. *)

\* optional: reset(), = nullopt, the destructor; variant: destroy() and npos.
Reset(m, b) == IF m.tag[b] = Nothing THEN m ELSE [Destroy(m, b) EXCEPT !.tag[b] = Nothing]

\* The tag is Nothing from the end of the old object to that of the new one's
\* construction.
Emplace(m, b, t, from, moving) == Tagged(Make(Reset(m, b), b, from, t, moving), b, t)

\* The copy and move constructors of these and of expected: the tag first.
ConstructFrom(m, b, o, moving) ==
  LET x == [m EXCEPT !.tag[b] = m.tag[o]]
  IN  IF m.tag[o] = Nothing THEN x ELSE Make(x, b, o, m.tag[o], moving)

\* optional: = value.
AssignTo(m, b, from, t, moving) ==
  IF m.tag[b] # Nothing THEN Give(m, b, from, t, moving)
  ELSE Tagged(Make(m, b, from, t, moving), b, t)

\* The copy and move assignments of optional, from an optional<U> too.
OptionalAssignFrom(m, b, o, moving) ==
  IF m.tag[o] = Nothing THEN Reset(m, b) ELSE AssignTo(m, b, o, m.tag[o], moving)

\* Through a variant of its own if the copy may throw and a move does not.
VariantAssignFrom(m, b, o, moving) ==
  LET t == m.tag[o]
  IN  IF t = Nothing THEN Reset(m, b)
      ELSE IF moving \/ t \notin prog.throws \/ t \notin prog.moves THEN Emplace(m, b, t, o, moving)
      ELSE Reset(Emplace(ConstructFrom(m, Temp, o, FALSE), b, t, Temp, TRUE), Temp)

\* variant: = value, which does not change mIndex before the new object is there.
VariantConvert(m, b, t, from, moving) ==
  LET x == IF m.tag[b] = Nothing THEN m ELSE Destroy(m, b)
  IN  Tagged(Make(x, b, from, t, moving), b, t)

\* An empty holder takes what the other has.
HandOver(m, b, o) ==
  LET x == Make(m, b, o, m.tag[o], TRUE)
  IN  IF x.threw THEN x ELSE [Destroy(x, o) EXCEPT !.tag[b] = m.tag[o], !.tag[o] = Nothing]

OptionalSwap(m, b, o) ==
  IF m.tag[b] = Nothing
  THEN IF m.tag[o] = Nothing THEN m ELSE HandOver(m, b, o)
  ELSE IF m.tag[o] = Nothing THEN HandOver(m, o, b) ELSE SwapElements(m, b, o, m.tag[b])

VariantSwap(m, b, o) ==
  LET t == m.tag[b]  u == m.tag[o]
      x == Emplace(Make(m, Temp, b, t, TRUE), b, u, o, TRUE)
  IN  IF t # Nothing /\ u # Nothing THEN EndLocal(Emplace(x, o, t, Temp, TRUE), Temp)
      ELSE OptionalSwap(m, b, o)

-----------------------------------------------------------------------------
(* expected: mValue if the tag is 1, else mError. *)
Other(t) == 3 - t

\* Another object in place of the one there: as the types allow without losing
\* both.
ReInit(m, b, t, from, moving) ==
  LET first == Make(m, Temp, from, t, moving)
      saved == Destroy(Make(m, Temp, b, Other(t), TRUE), b)
      new == Make(saved, b, from, t, moving)
      back == Caught(new, LAMBDA x : Make(x, b, Temp, Other(t), TRUE))
  IN  IF t \notin prog.throws \/ (moving /\ t \in prog.moves)
      THEN Make(Destroy(m, b), b, from, t, moving)
      ELSE IF t \in prog.moves
      THEN IF first.threw THEN first ELSE EndLocal(Make(Destroy(first, b), b, Temp, t, TRUE), Temp)
      ELSE EndLocal(IF new.threw THEN back ELSE new, Temp)

\* AssignFrom, = value and = unexpected.
ExpectedAssign(m, b, t, from, moving) ==
  IF m.tag[b] = t THEN Give(m, b, from, t, moving) ELSE Tagged(ReInit(m, b, t, from, moving), b, t)

\* For a T whose construction does not throw.
ExpectedEmplace(m, b, t, from, moving) ==
  Make([Destroy(m, b) EXCEPT !.tag[b] = t], b, from, t, moving)

\* One has a value and one an error: that of type t, at k, waits in a local.
SwapUnlike(m, k, j, t) ==
  LET x == Destroy(Make(m, Temp, k, t, TRUE), k)
      y == Make(x, k, j, Other(t), TRUE)
      back == Caught(y, LAMBDA z : Make(z, k, Temp, t, TRUE))
  IN  IF y.threw THEN EndLocal(back, Temp)
      ELSE [EndLocal(Make(Destroy(y, j), j, Temp, t, TRUE), Temp)
              EXCEPT !.tag[k] = Other(t), !.tag[j] = t]

ExpectedSwap(m, b, o) ==
  LET kept == IF 2 \in prog.moves THEN 2 ELSE 1
  IN  IF m.tag[b] = m.tag[o] THEN SwapElements(m, b, o, m.tag[b])
      ELSE IF m.tag[b] = kept THEN SwapUnlike(m, b, o, kept) ELSE SwapUnlike(m, o, b, kept)

-----------------------------------------------------------------------------
(* any and function: an object of its type at b, or at the address b holds. *)
Place(m, b, t) == IF Fits(t) THEN b ELSE m.slot[b]
Free(m) == CHOOSE a \in Heap : m.slot[a] = NoMemory

\* storage_handler::construct, CreateFunctor and CopyFunctor.
Store(m, b, t, from, moving) ==
  LET a == Free(m)
      x == Make([m EXCEPT !.slot[a] = Raw, !.fault = @ \/ m.slot[b] # Raw], a, from, t, moving)
  IN  IF Fits(t) THEN Make(m, b, from, t, moving)
      ELSE IF x.threw THEN x ELSE [x EXCEPT !.slot[b] = a]

\* storage_handler::destroy and DestructFunctor, without their tags.
Unstore(m, b, t) ==
  LET a == m.slot[b]
  IN  IF Fits(t) THEN Destroy(m, b) ELSE [Destroy(m, a) EXCEPT !.slot = [@ EXCEPT ![a] = NoMemory, ![b] = Raw]]

AnyReset(m, b) ==
  IF m.tag[b] = Nothing THEN m ELSE [Unstore(m, b, m.tag[b]) EXCEPT !.tag[b] = Nothing]

\* MOVE: a new object from the old one, which it destroys.
AnyMove(m, o, to) ==
  LET t == m.tag[o]  x == Store(m, to, t, Place(m, o, t), TRUE)
  IN  [Unstore(x, o, t) EXCEPT !.tag[o] = Nothing, !.tag[to] = t]

AnyEmplace(m, b, t, from, moving) == Tagged(Store(AnyReset(m, b), b, t, from, moving), b, t)

\* The copy and move constructors.
AnyConstruct(m, b, o, moving) ==
  LET t == m.tag[o]
  IN  IF t = Nothing THEN m
      ELSE IF moving THEN AnyMove(m, o, b)
      ELSE Tagged(Store(m, b, t, Place(m, o, t), FALSE), b, t)

AnySwap(m, b, o) ==
  LET one == IF m.tag[o] = Nothing THEN m ELSE AnyMove(m, o, Saved)
      two == IF m.tag[b] = Nothing THEN one ELSE AnyMove(one, b, o)
  IN  IF b = o THEN m
      ELSE IF m.tag[o] = Nothing \/ m.tag[b] # Nothing
      THEN IF two.tag[Saved] = Nothing THEN two ELSE AnyMove(two, Saved, b)
      ELSE AnyMove(m, o, b)

\* any(...).swap(*this), and the end of what was held before.
SwappedIn(x, b) == IF x.threw THEN x ELSE AnyReset(AnySwap(x, Temp, b), Temp)
AnyAssign(m, b, t, from, moving) == SwappedIn(Tagged(Store(m, Temp, t, from, moving), Temp, t), b)
AnyAssignFrom(m, b, o, moving) == SwappedIn(AnyConstruct(m, Temp, o, moving), b)

\* Destroy(): mMgrFuncPtr is what it was, until the next functor is there.
FunctionDestroy(m, b) == IF m.tag[b] = Nothing THEN m ELSE Unstore(m, b, m.tag[b])
FunctionReset(m, b) == [FunctionDestroy(m, b) EXCEPT !.tag[b] = Nothing]
FunctionAssign(m, b, t, from, moving) == Tagged(Store(FunctionDestroy(m, b), b, t, from, moving), b, t)

\* MGROPS_MOVE_FUNCTOR: a functor elsewhere stays where it is.
MoveFunctor(m, o, to, t) ==
  IF Fits(t) THEN Destroy(Make(m, to, o, t, TRUE), o)
  ELSE [m EXCEPT !.slot = [@ EXCEPT ![to] = m.slot[o], ![o] = Raw], !.fault = @ \/ m.slot[to] # Raw]

\* Copy and Move, on a holder without a functor.
FunctionTake(m, b, o, moving) ==
  LET t == m.tag[o]
      x == IF moving THEN MoveFunctor(m, o, b, t) ELSE Store(m, b, t, Place(m, o, t), FALSE)
      y == [(IF t = Nothing THEN m ELSE x) EXCEPT !.tag[b] = t]
  IN  IF moving THEN [y EXCEPT !.tag[o] = Nothing] ELSE y

FunctionAssignFrom(m, b, o, moving) ==
  IF b = o THEN m ELSE FunctionTake(FunctionDestroy(m, b), b, o, moving)

FunctionSwap(m, b, o) ==
  LET t == m.tag[b]  u == m.tag[o]
      x == IF u = Nothing THEN m ELSE MoveFunctor(m, o, Temp, u)
      y == IF t = Nothing THEN x ELSE MoveFunctor(x, b, o, t)
      z == IF u = Nothing THEN y ELSE MoveFunctor(y, Temp, b, u)
  IN  IF b = o THEN m ELSE [z EXCEPT !.tag[b] = u, !.tag[o] = t]

-----------------------------------------------------------------------------
(* The calls. *)

Left(m, b) == [tag |-> m.tag[b], elem |-> IF m.tag[b] = Nothing THEN m.slot[b] ELSE m.slot[Place(m, b, m.tag[b])]]

\* What is allocated is what the holders point to.
Held(m, others) ==
  {m.slot[b] : b \in {x \in {Mine} \cup others : m.tag[x] # Nothing /\ ~Fits(m.tag[x])}}

\* The call returns, or an exception leaves it with failed.
FinishTwo(c, d, m, done, failed) ==
  LET others == IF d = c THEN {} ELSE {Theirs}
  IN  /\ obj' = [x \in prog.objs |->
                   IF x = c THEN Left(m, Mine) ELSE IF x = d THEN Left(m, Theirs) ELSE obj[x]]
      /\ fault' = (\/ fault \/ m.fault
                   \/ \E a \in {Temp, Saved} : m.slot[a] # Raw
                   \/ {a \in Heap : m.slot[a] # NoMemory} # Held(m, others))
      /\ call' = IF m.threw THEN failed ELSE done
      /\ UNCHANGED prog

Finish(c, m, done, failed) == FinishTwo(c, c, m, done, failed)

Fuses == IF prog.throws = {} THEN {0} ELSE {0, 1}

\* = value, in the kinds that keep what they have when it throws; the others do
\* not promise that (variant.h:48).
AssignValue(c, x) ==
  \E arg \in {LValue, RValue}, f \in Fuses :
    LET m == Frame(c, c, <<x>>, f)  t == TypeOf(x)  moving == arg = RValue
    IN  \/ Is({"optional"}) /\ Finish(c, AssignTo(m, Mine, arg, t, moving), Assigned(c, <<x>>), Quiet)
        \/ Is({"expected"}) /\ Finish(c, ExpectedAssign(m, Mine, t, arg, moving), Assigned(c, <<x>>), Quiet)
        \/ Is({"any"}) /\ Finish(c, AnyAssign(m, Mine, t, arg, moving), Assigned(c, <<x>>), Quiet)
        \/ Is({"variant"}) /\ f = 0 /\ Finish(c, VariantConvert(m, Mine, t, arg, moving), Assigned(c, <<x>>), Quiet)
        \/ Is({"function"}) /\ f = 0 /\ Finish(c, FunctionAssign(m, Mine, t, arg, moving), Assigned(c, <<x>>), Quiet)

\* emplace, and the constructors from a value of a holder that is new.
EmplaceValue(c, x) ==
  \E arg \in {LValue, RValue}, f \in Fuses :
    LET m == Frame(c, c, <<x>>, f)  t == TypeOf(x)  moving == arg = RValue
        done == Assigned(c, <<x>>)  empty == Assigned(c, <<>>)
    IN  \/ Is({"optional", "variant"}) /\ Finish(c, Emplace(m, Mine, t, arg, moving), done, empty)
        \/ /\ Is({"expected"}) /\ t = 1 /\ (t \notin prog.throws \/ (moving /\ t \in prog.moves))
           /\ Finish(c, ExpectedEmplace(m, Mine, t, arg, moving), done, empty)
        \/ Is({"any"}) /\ Finish(c, AnyEmplace(m, Mine, t, arg, moving), done, empty)

\* reset, = nullopt, = nullptr.
Clear(c) ==
  LET m == Frame(c, c, <<Raw>>, 0)
  IN  \/ Is({"optional"}) /\ Finish(c, Reset(m, Mine), Assigned(c, <<>>), Quiet)
      \/ Is({"any"}) /\ Finish(c, AnyReset(m, Mine), Assigned(c, <<>>), Quiet)
      \/ Is({"function"}) /\ Finish(c, FunctionReset(m, Mine), Assigned(c, <<>>), Quiet)

\* = of another holder, or of the same; of a variant, another.
AssignFrom(c, d) ==
  \E moving \in BOOLEAN, f \in Fuses :
    LET m == Frame(c, d, <<Raw>>, f)  o == IF d = c THEN Mine ELSE Theirs
        done == IF d = c THEN Quiet ELSE IF moving THEN Taken(c, d) ELSE Assigned(c, Contents(d))
    IN  /\ f = 1 => Is({"optional", "expected", "any"}) /\ ~moving
        /\ \/ Is({"optional"}) /\ FinishTwo(c, d, OptionalAssignFrom(m, Mine, o, moving), done, Quiet)
           \/ Is({"expected"}) /\ FinishTwo(c, d, ExpectedAssign(m, Mine, m.tag[o], o, moving), done, Quiet)
           \/ Is({"variant"}) /\ c # d /\ FinishTwo(c, d, VariantAssignFrom(m, Mine, o, moving), done, Quiet)
           \/ Is({"any"}) /\ FinishTwo(c, d, AnyAssignFrom(m, Mine, o, moving), done, Quiet)
           \/ Is({"function"}) /\ FinishTwo(c, d, FunctionAssignFrom(m, Mine, o, moving), done, Quiet)

\* The end of one, and a new one from another.
Rebuild(c, d) ==
  \E moving \in BOOLEAN :
    LET m == Frame(c, d, <<Raw>>, 0)
        done == IF moving THEN Taken(c, d) ELSE Assigned(c, Contents(d))
    IN  /\ c # d
        /\ \/ Is(InPlace) /\ FinishTwo(c, d, ConstructFrom(Reset(m, Mine), Mine, Theirs, moving), done, Quiet)
           \/ Is({"any"}) /\ FinishTwo(c, d, AnyConstruct(AnyReset(m, Mine), Mine, Theirs, moving), done, Quiet)
           \/ Is({"function"}) /\ FinishTwo(c, d, FunctionTake(FunctionReset(m, Mine), Mine, Theirs, moving), done, Quiet)

\* Two of an expected with the same tag swap their objects, which is theirs to do.
Swap(c, d) ==
  \E f \in Fuses :
    LET m == Frame(c, d, <<Raw>>, f)  o == IF d = c THEN Mine ELSE Theirs
        done == IF d = c THEN Quiet ELSE Swapped(c, d)
    IN  /\ f = 1 => Is({"optional", "expected"}) /\ obj[c].tag # obj[d].tag
        /\ \/ Is({"optional"}) /\ FinishTwo(c, d, OptionalSwap(m, Mine, o), done, Quiet)
           \/ Is({"variant"}) /\ c # d /\ FinishTwo(c, d, VariantSwap(m, Mine, o), done, Quiet)
           \/ Is({"expected"}) /\ FinishTwo(c, d, ExpectedSwap(m, Mine, o), done, Quiet)
           \/ Is({"any"}) /\ FinishTwo(c, d, AnySwap(m, Mine, o), done, Quiet)
           \/ Is({"function"}) /\ FinishTwo(c, d, FunctionSwap(m, Mine, o), done, Quiet)

Next ==
  \E c \in prog.objs :
    \/ \E x \in prog.values : AssignValue(c, x) \/ EmplaceValue(c, x)
    \/ Clear(c)
    \/ \E d \in prog.objs : AssignFrom(c, d) \/ Rebuild(c, d) \/ Swap(c, d)

-----------------------------------------------------------------------------
\* A holder has one object alive, of the type its tag names, or none: what an
\* exception cuts short is destroyed once or restored, and what is allocated has
\* one owner (expected.h:312-345, 633-719, optional.h:759-808, variant.h:850-905,
\* any.h:410-520, internal/function_detail.h:560-700).
StorageExact ==
  /\ ~fault
  /\ \A c \in prog.objs :
       IF obj[c].tag = Nothing THEN obj[c].elem = Raw
       ELSE \/ obj[c].elem = Moved
            \/ obj[c].elem \in prog.values /\ TypeOf(obj[c].elem) = obj[c].tag
=============================================================================
