---------------------------- MODULE MCHashtable ----------------------------
(* The hash tables that own their nodes and the intrusive ones.  A behaviour  *)
(* uses one kind.                                                             *)
EXTENDS Hashtable

CONSTANTS t1, t2, a1, a2, a3

VARIABLES
  intrusive,       \* whether this behaviour uses intrusive tables
  links, cursor    \* as in IntrusiveHashtable

\* The front of gPrimeNumberArray.
SmallPrimes == {2, 3, 5, 7, 11, 13, 17, 19, 23, 29}

TwoTables == {t1, t2}
ThreeArrays == {a1, a2, a3}

\* Nodes 1 and 2 hold key 1, nodes 3 and 4 key 2, the others a key each.  Keys 1
\* and 2 meet in a table of two buckets, 1 and 3 in one of five.
EightNodes == 1 .. 8
NodeKeys == <<1, 1, 2, 2, 3, 4, 5, 6>>
Hashes == <<0, 2, 5, 7, 1, 12>>

One == [p |-> 1, q |-> 1]
Two == [p |-> 2, q |-> 1]

\* One table of five nodes, with collisions, everything a caller sets, a hash
\* that throws, and a range that is longer than its reservation has room for.
Alone(unique) ==
  [tables |-> {t1}, nodes |-> 1 .. 5, unique |-> unique, buffer |-> 0, loads |-> {Two},
   counts |-> {2, 3}, ranges |-> {<<1, 2, 1>>, <<1, 2, 1, 3, 2>>}, clears |-> BOOLEAN, throws |-> {"hash"}]

\* Two tables that are copied, moved and swapped.
Pair(unique, throws) ==
  [tables |-> TwoTables, nodes |-> 1 .. 3, unique |-> unique, buffer |-> 0, loads |-> {},
   counts |-> {3}, ranges |-> {<<1, 2>>}, clears |-> {TRUE}, throws |-> throws]

\* A set that grows from nothing to six elements and is left to the policy.
Growth == [tables |-> {t1}, nodes |-> {1, 3, 5, 6, 7, 8}, unique |-> TRUE, buffer |-> 0,
           loads |-> {Two}, counts |-> {}, ranges |-> {<<1, 2>>}, clears |-> {TRUE}, throws |-> {}]

\* Two fixed tables with room for three buckets, and an allocator that may fail.
FixedPair == [tables |-> TwoTables, nodes |-> 1 .. 4, unique |-> FALSE, buffer |-> 3, loads |-> {},
              counts |-> {}, ranges |-> {<<1, 2>>}, clears |-> {TRUE}, throws |-> {"alloc"}]

\* Two intrusive tables of two buckets, with keys that meet in one of them.
Strangers(unique) == [Pair(unique, {}) EXCEPT !.nodes = {1, 2, 3, 5}]
Intrusives == {Strangers(TRUE), Strangers(FALSE)}

AllPrograms ==
  {Alone(TRUE), Alone(FALSE), Pair(TRUE, {}), Pair(FALSE, {"hash"}), Growth, FixedPair} \cup Intrusives

\* Two tables whose allocator may fail, from the shared empty array on.
ThrowingPair == [Pair(TRUE, {"alloc"}) EXCEPT !.counts = {}, !.ranges = {}]
OneProgram == {ThrowingPair}

-----------------------------------------------------------------------------
H == INSTANCE IntrusiveHashtable WITH kBucketCount <- 2, unique <- Unique

Start == Init /\ H!IInit /\ intrusive = (prog \in Intrusives)

Step ==
  /\ UNCHANGED intrusive
  /\ \/ ~intrusive /\ Next /\ UNCHANGED <<links, cursor>>
     \/ intrusive /\ UNCHANGED vars /\ H!INext(prog.nodes)

TablesSpec == Start /\ [][Step]_<<vars, intrusive, links, cursor>>

\* Iteration visits mnElementCount nodes and then the sentinel, a search for a
\* key begins in the bucket that has it, and equal_range and erase(key) find
\* equal keys side by side, after any mixture of insertions, rehashes, copies
\* and swaps (hashtable.h:281-298, 2170-2190, 2466-2484, 2978-2994, 3077-3102);
\* so the searches are right (1205-1252, 2023-2163), equality is that of bags, and
\* validate() (3119-3163) never fails.  In an intrusive table, iterators go on
\* working while other nodes come and go (intrusive_hashtable.h:150-174, 763-909).
TablesExact ==
  /\ ChainsExact
  /\ intrusive => H!ITablesExact(prog.nodes) /\ H!CursorExact

\* The tables are unordered containers of the nodes in their chains: a rehash,
\* inside an insertion or by itself, is invisible, and only what is erased,
\* cleared or lost to an exception goes (hashtable.h:2212-2329, 2919-3014,
\* intrusive_hashtable.h:527-536, 763-925).
C == INSTANCE UnorderedContainer
       WITH Owners <- Tables, Items <- Nodes, unique <- Unique,
            elements <- [t \in Tables |-> IF intrusive THEN H!Elements(t) ELSE Holds(t)]
ImplementsContainer == C!CSpec
=============================================================================
