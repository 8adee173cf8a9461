------------------------------- MODULE Calls -------------------------------
(* How a container module tells the Sequence it implements which call was     *)
(* made last: what was asked for, and what was returned.                      *)

Inserted(c, at, values) ==
  [op |-> "insert", of |-> c, at |-> at, values |-> values, result |-> at]
Erased(c, from, to) == [op |-> "erase", of |-> c, at |-> from, to |-> to, result |-> from]
ErasedUnsorted(c, at) == [op |-> "erase_unsorted", of |-> c, at |-> at, result |-> at]
Replaced(c, from, to, values) ==
  [op |-> "replace", of |-> c, at |-> from, to |-> to, values |-> values]
Removed(c, gone) == [op |-> "remove", of |-> c, gone |-> gone]
RemovedUnsorted(c, gone) == [op |-> "remove_unsorted", of |-> c, gone |-> gone]
Constructed(values) == [op |-> "construct", values |-> values]
Assigned(c, values) == [op |-> "assign", of |-> c, values |-> values]
Swapped(c, d) == [op |-> "swap", of |-> c, with |-> d]
Taken(c, d) == [op |-> "take", of |-> c, with |-> d]

\* A call that threw, or that only concerns the memory.
Quiet == [op |-> "none"]
=============================================================================
