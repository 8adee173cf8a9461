----------------------------- MODULE MCAtomics -----------------------------
(* Small instances for TLC of AtomicSharedPtr (two threads, one variable and  *)
(* two objects, the deleter of one of which loads the variable again, under   *)
(* either kind of mutex) and of Atomic: programs of two to four threads, among *)
(* them the ones that the documentation of atomic.h discusses.  Only one of   *)
(* the two moves.                                                             *)
EXTENDS AtomicSharedPtr

CONSTANTS t1, t2, c1, b1, b2

TwoThreads == {t1, t2}
OneCell == {c1}
TwoBlocks == {b1, b2}
OneValue == {"p"}
OneLoader == {b1}

-----------------------------------------------------------------------------
(* Programs.                                                                  *)
Locations == {"x", "y", "z", "data", "none"}
Widths == {32, 64, 128}

Op(op, l, o, v) ==
  [type |-> "integral", op |-> op, on |-> l, width |-> 32, order |-> o, arg |-> v,
   failure |-> IF o = "release" THEN "relaxed" ELSE o, expected |-> 0, via |-> 0]

St(l, o, v) == Op("store", l, o, v)
Ld(l, o) == Op("load", l, o, 0)
Add(l, o) == Op("fetch_add", l, o, 1)
Xchg(l, o, v) == Op("exchange", l, o, v)
Cas(l, o, old, v) == [Op("compare_exchange_strong", l, o, v) EXCEPT !.expected = old]
Fence(o) == Op("thread_fence", "none", o, 0)
Wr(v) == Op("write", "data", "data", v)
Rd == Op("read", "data", "data", 0)

At(w, threads) ==
  [t \in DOMAIN threads |-> [c \in DOMAIN threads[t] |->
     [threads[t][c] EXCEPT !.width = IF threads[t][c].order = "data" THEN 32 ELSE w]]]

Program(threads, v) ==
  [threads |-> threads, start |-> [l \in Locations |-> IF l = "x" THEN v ELSE 0]]

\* Data published in x, and who looks for it there.
Publishing ==
  {<<St("x", "release", 1)>>, <<St("x", "seq_cst", 1)>>, <<Xchg("x", "release", 1)>>,
   <<Op("sub_fetch", "x", "acq_rel", 1)>>, <<Cas("x", "release", 0, 1)>>,
   <<Fence("release"), St("x", "relaxed", 1)>>, <<Fence("acq_rel"), Add("x", "relaxed")>>}
Looking ==
  {<<Ld("x", "acquire")>>, <<Ld("x", "seq_cst")>>, <<Xchg("x", "acquire", 2)>>,
   <<Op("xor_fetch", "x", "acq_rel", 3)>>, <<Cas("x", "acquire", 1, 2)>>,
   <<[Cas("x", "acq_rel", 0, 2) EXCEPT !.failure = "acquire"]>>,
   <<Ld("x", "relaxed"), Fence("acquire")>>, <<Ld("x", "relaxed"), Fence("seq_cst")>>,
   <<Ld("x", "relaxed"), Op("acquire_fence", "x", "acquire", 0)>>}

MessagePassing ==
  {<< <<Wr(1)>> \o p, l \o <<Rd>> >> : p \in Publishing, l \in Looking}
    \cup {<< <<Wr(1)>> \o p, <<Ld("x", "read_depends"), [Rd EXCEPT !.via = 1]>> >> : p \in Publishing}

\* The second is what ref_count_sp::release does (shared_ptr.h:163).
ReleaseSequences ==
  {<< <<Wr(1), St("x", "release", 1), St("x", "relaxed", 3)>>, <<Ld("x", "acquire"), Rd>> >>,
   << <<Rd, Op("fetch_sub", "x", "release", 1)>>,
      <<Op("fetch_sub", "x", "release", 1), Op("acquire_fence", "x", "acquire", 0), Wr(2)>> >>,
   << <<Wr(1), St("x", "release", 1)>>, <<Add("x", "relaxed")>>, <<Ld("x", "acquire"), Rd>> >>}

Writes(l) == {St(l, "seq_cst", 1), Add(l, "seq_cst")}
StoreBuffering ==
  {<< <<a, Ld("y", "seq_cst")>>, <<b, Ld("x", "seq_cst")>> >> : a \in Writes("x"), b \in Writes("y")}
    \cup {<< <<St("x", "relaxed", 1), Fence("seq_cst"), Ld("y", "relaxed")>>,
             <<St("y", "relaxed", 1), Fence("seq_cst"), Ld("x", "relaxed")>> >>,
          << <<St("x", "release", 1), Ld("y", "acquire")>>, <<St("y", "release", 1), Ld("x", "acquire")>> >>}

\* Independent reads, causality from write to read and from read to write,
\* and the second example with fetch_add of atomic.h:1583.
Documented ==
  {<< <<St("x", "seq_cst", 1)>>, <<Ld("x", "seq_cst"), Ld("y", "seq_cst")>>,
      <<St("y", "seq_cst", 1)>>, <<Ld("y", "seq_cst"), Ld("x", "seq_cst")>> >>,
   << <<St("x", "relaxed", 1)>>, <<Ld("x", "relaxed"), St("y", "release", 1)>>,
      <<Ld("y", "acquire"), Ld("x", "relaxed")>> >>,
   << <<St("x", "relaxed", 1), St("y", "release", 1)>>, <<Ld("y", "acquire"), St("z", "release", 1)>>,
      <<Ld("z", "acquire"), Ld("x", "relaxed")>> >>,
   << <<St("x", "relaxed", 1)>>, <<Ld("x", "relaxed"), Fence("seq_cst"), Ld("y", "relaxed")>>,
      <<St("y", "relaxed", 1), Fence("seq_cst"), Ld("x", "relaxed")>> >>,
   << <<St("z", "relaxed", 2), Add("x", "seq_cst"), St("y", "relaxed", 1)>>,
      <<Ld("y", "relaxed"), Add("x", "seq_cst"), Ld("z", "relaxed")>> >>}

\* Coherence, and orders of stores.
Stores ==
  {<< <<St("x", "relaxed", 1), St("x", "relaxed", 2)>>, <<Ld("x", "relaxed"), Ld("x", "relaxed")>> >>,
   << <<St("x", "seq_cst", 1), St("y", "seq_cst", 1)>>, <<St("y", "seq_cst", 2), St("x", "seq_cst", 2)>> >>,
   << <<St("x", "seq_cst", 1), St("y", "seq_cst", 1)>>, <<St("y", "seq_cst", 2), Ld("x", "seq_cst")>> >>}

Litmus == {Program(At(w, threads), 0) : w \in Widths,
             threads \in MessagePassing \cup ReleaseSequences \cup StoreBuffering \cup Documented \cup Stores}

-----------------------------------------------------------------------------
(* Each operation against others on the same location.                        *)
Operations ==
  {Op(op, "x", o, 5) : o \in {"relaxed", "seq_cst"},
     op \in {"fetch_add", "add_fetch", "fetch_sub", "sub_fetch", "fetch_and", "and_fetch",
             "fetch_or", "or_fetch", "fetch_xor", "xor_fetch", "exchange", "store"}}
  \cup {Op(op, "x", "seq_cst", 5) : op \in {"++_", "_++", "--_", "_--", "+=", "-=", "&=", "|=", "^=", "="}}
  \cup {[Op(op, "x", o, 5) EXCEPT !.expected = 6] : o \in {"relaxed", "seq_cst"},
          op \in {"compare_exchange_strong", "compare_exchange_weak"}}

OnPointer ==
  {[Op(op, "x", "seq_cst", 3) EXCEPT !.type = "pointer"] :
     op \in {"fetch_add", "add_fetch", "fetch_sub", "sub_fetch", "++_", "_++", "--_", "_--", "+=", "-=", "exchange"}}

\* The functions that are not members, without an order.
OnFunctions ==
  {Op(op, "x", "none", 5) : op \in {"atomic_fetch_add", "atomic_add_fetch", "atomic_fetch_sub", "atomic_sub_fetch",
     "atomic_fetch_and", "atomic_and_fetch", "atomic_fetch_or", "atomic_or_fetch",
     "atomic_fetch_xor", "atomic_xor_fetch", "atomic_exchange", "atomic_store"}}
  \cup {[Op(op, "x", "none", 5) EXCEPT !.expected = 6] : op \in {"atomic_compare_exchange_strong", "atomic_compare_exchange_weak"}}

OnFlag(op, o) == [Op(op, "x", o, 0) EXCEPT !.type = "flag"]

Contention ==
  {Program(At(w, << <<op>>, <<other>>, <<Ld("x", "relaxed")>> >>), 6) : w \in Widths,
     op \in Operations \cup OnFunctions, other \in {Xchg("x", "relaxed", 9), St("x", "release", 9)}}
  \cup {Program(<< <<op>>, <<Add("x", "relaxed")>> >>, 6) : op \in OnPointer}
  \cup {Program(<< <<OnFlag("test_and_set", "acquire")>>, <<OnFlag("test_and_set", "acquire"), OnFlag("clear", "release")>>,
                   <<OnFlag("test", "relaxed")>> >>, 0),
           Program(<< <<OnFlag("atomic_flag_test_and_set", "none")>>, <<OnFlag("atomic_flag_clear", "none")>>,
                      <<OnFlag("atomic_flag_test", "none"), Op("atomic_load", "x", "none", 0)>> >>, 0)}

-----------------------------------------------------------------------------
VARIABLES build, program, window, history, out

machine == <<build, program, window, history, out>>

Idle == [threads |-> <<>>, start |-> <<>>]

A == INSTANCE Atomic WITH Programs <- Litmus \cup Contention \cup {Idle}

MCInit == Init /\ A!Init /\ (program = Idle => build = [compiler |-> "gcc", arch |-> "x64"])

\* All may wait for a thread that waits for itself: this is no other deadlock.
Hung == \E t \in Threads : WaitsForItself(t)

MCNext ==
  \/ program = Idle /\ Next /\ UNCHANGED machine
  \/ program # Idle /\ A!Next /\ UNCHANGED vars
  \/ Hung /\ UNCHANGED <<vars, machine>>

MCSpec == MCInit /\ [][MCNext]_<<vars, machine>> /\ Fairness

\* The shared_ptrs alone, for the run with std::mutex only.
StdMutexSpec == MCInit /\ program = Idle /\ [][MCNext]_<<vars, machine>>

OperationsWhole == A!OperationsWhole
Coherent == A!Coherent
SequentiallyConsistent == A!SequentiallyConsistent
=============================================================================
