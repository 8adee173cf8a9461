--------------------------- MODULE NodeAllocator ---------------------------
(* What an EASTL allocator promises to the container that owns it: a block it *)
(* hands out is not in use, until the container gives it back                 *)
(* (include/EASTL/allocator.h, include/EASTL/internal/fixed_pool.h).          *)
EXTENDS Integers

CONSTANT Memory   \* every block the allocator could hand out

VARIABLES
  out,   \* the blocks the container holds
  held   \* how many blocks it was handed and did not give back

avars == <<out, held>>

AInit == out = {} /\ held = 0

Grant(p) == p \notin out /\ out' = out \cup {p} /\ held' = held + 1
Return(p) == p \in out /\ out' = out \ {p} /\ held' = held - 1
\* reset_lose_memory: the container forgets everything it holds.
Lose == out' = {} /\ held' = 0

ANext == Lose \/ \E p \in Memory : Grant(p) \/ Return(p)

ASpec == AInit /\ [][ANext]_avars
=============================================================================
