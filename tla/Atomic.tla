------------------------------- MODULE Atomic -------------------------------
(* eastl::atomic (include/EASTL/atomic.h, internal/atomic): what each call    *)
(* compiles to for a compiler and a processor, a machine that runs the result *)
(* out of order, and what the documentation of atomic.h promises of the       *)
(* executions.                                                                *)
(*                                                                            *)
(* A program gives each thread a sequence of calls.  window has, by thread,   *)
(* the instructions yet to be executed; one may be executed before those in   *)
(* front of it as far as the compiler or the processor may reorder them       *)
(* (MayPass).  history has the writes of each location in the order they took *)
(* effect, and out what each call has read.  A value has four bits in two     *)
(* halves, which an access that is not atomic reads one by one; a width of 32 *)
(* stands for 8 and 16 bits too.                                              *)
EXTENDS Integers, SequencesExt, Bitwise, TLC

CONSTANT Programs

VARIABLES
  build,    \* the compiler and the processor
  program,  \* the calls of each thread, and what the locations hold at first
  window,   \* by thread, the instructions yet to be executed
  history,  \* by location, its writes in the order they took effect
  out       \* by call, what has been read, where from, and if it compared equal

vars == <<build, program, window, history, out>>

-----------------------------------------------------------------------------
(* Builds: MSVC, or GCC and Clang, for each processor with code of its own.   *)
Builds ==
  [compiler : {"msvc"}, arch : {"x86", "x64", "arm32", "arm64"}]
    \cup [compiler : {"gcc"}, arch : {"x64", "arm64"}]

X86(b) == b.arch \in {"x86", "x64"}
ARM(b) == b.arch \in {"arm32", "arm64"}
MSVC(b) == b.compiler = "msvc"
GCC(b) == b.compiler = "gcc"
PointerWidth(b) == IF b.arch \in {"x64", "arm64"} THEN 64 ELSE 32

Modulus == 16
Low(v) == v % 4
High(v) == v - Low(v)
Negate(v) == (0 - v) % Modulus

\* What an operation makes of an old value, or returns.
Apply(f, old, v) ==
  CASE f = "add" -> (old + v) % Modulus
    [] f = "sub" -> (old - v) % Modulus
    [] f = "and" -> old & v
    [] f = "or"  -> old | v
    [] f = "xor" -> old ^^ v
    [] f = "set" -> v
    [] f = "old" -> old

-----------------------------------------------------------------------------
(* Instructions.  "load" and "store" are volatile accesses, "read" and        *)
(* "write" those of other data; "low" and "high" read the halves of a value.  *)
(* "rmw", "cas" and "loop" are interlocked; "loop" compares with what the     *)
(* call has read so far and is repeated until that succeeds.  A "barrier"     *)
(* binds the compiler, a "fence" the processor too.  acq keeps what follows   *)
(* behind an instruction, rel what precedes before it.                        *)
Plain(i) == [i |-> i, acq |-> FALSE, rel |-> FALSE]

COMPILER_BARRIER == Plain("barrier")
CPU_MB == Plain("fence")

\* Full barriers, but for the _nf, _acq and _rel forms that ARM has; the
\* builtins of GCC order what their argument says.
Interlocked(b, i, order) ==
  LET full == X86(b) \/ order \in {"acq_rel", "seq_cst"}
  IN  [i |-> i, acq |-> full \/ order = "acquire", rel |-> full \/ order = "release"]

\* What a call is made of, how its interlocked instruction changes the value
\* with which operand, and what the call returns from what was read and arg.
Impl(code, f, operand, ret, arg) ==
  [code |-> code, f |-> f, operand |-> operand, ret |-> ret, arg |-> arg]

NotImplemented == Impl(<<>>, "", 0, "", 0)

Access(code, v) == Impl(code, "set", v, "old", v)
Fencing(code) == Impl(code, "old", 0, "old", 0)

\* The implementation of the processor is preferred to the compiler's.
CHOOSE_OP_IMPL(compiler, arch, compilerImpl, archImpl) ==
  CASE arch -> archImpl
    [] compiler /\ ~arch -> compilerImpl
    [] OTHER -> NotImplemented

-----------------------------------------------------------------------------
(* Compare-exchange.  The macros with one order choose that of a failure.     *)
FailureOrder ==
  [relaxed |-> "relaxed", acquire |-> "acquire", release |-> "relaxed",
   acq_rel |-> "acquire", seq_cst |-> "seq_cst"]

COMPILER_CMPXCHG_STRONG_ORDER(s) == FailureOrder[s]
COMPILER_CMPXCHG_WEAK_ORDER(s) == FailureOrder[s]
ARCH_CMPXCHG_STRONG_ORDER(s) == FailureOrder[s]
ARCH_CMPXCHG_WEAK_ORDER(s) == FailureOrder[s]

ARCH_CMPXCHG_STRONG_AVAILABLE(b, w) == GCC(b) /\ b.arch = "x64" /\ w = 128
ARCH_CMPXCHG_WEAK_AVAILABLE(b, w) == GCC(b) /\ b.arch = "x64" /\ w = 128
COMPILER_CMPXCHG_STRONG_AVAILABLE(b, w) == w = 128 => PointerWidth(b) = 64
COMPILER_CMPXCHG_WEAK_AVAILABLE(b, w) == w = 128 => PointerWidth(b) = 64

\* lock cmpxchg16b
X86_CMPXCHG_STRONG(b, v, s) == Access(<<Interlocked(b, "cas", s)>>, v)
MSVC_CMPXCHG_STRONG(b, v, s) == Access(<<Interlocked(b, "cas", s)>>, v)
GCC_CMPXCHG_STRONG(b, v, s) == Access(<<Interlocked(b, "cas", s)>>, v)
GCC_CMPXCHG_WEAK(b, v, s) ==
  Access(<<Interlocked(b, IF ARM(b) THEN "weak" ELSE "cas", s)>>, v)

CMPXCHG_STRONG(b, w, v, s) ==
  CHOOSE_OP_IMPL(COMPILER_CMPXCHG_STRONG_AVAILABLE(b, w), ARCH_CMPXCHG_STRONG_AVAILABLE(b, w),
    IF MSVC(b) THEN MSVC_CMPXCHG_STRONG(b, v, s) ELSE GCC_CMPXCHG_STRONG(b, v, s),
    X86_CMPXCHG_STRONG(b, v, s))

MSVC_CMPXCHG_WEAK(b, w, v, s) == CMPXCHG_STRONG(b, w, v, s)
X86_CMPXCHG_WEAK(b, w, v, s) == CMPXCHG_STRONG(b, w, v, s)

CMPXCHG_WEAK(b, w, v, s) ==
  CHOOSE_OP_IMPL(COMPILER_CMPXCHG_WEAK_AVAILABLE(b, w), ARCH_CMPXCHG_WEAK_AVAILABLE(b, w),
    IF MSVC(b) THEN MSVC_CMPXCHG_WEAK(b, w, v, s) ELSE GCC_CMPXCHG_WEAK(b, v, s),
    X86_CMPXCHG_WEAK(b, w, v, s))

-----------------------------------------------------------------------------
(* Operations that a processor has for half the width only are loops around   *)
(* its compare-exchange: 64 bits on x86, 128 on x64.  The value expected is   *)
(* first loaded, or read by halves that need not fit together.                *)
OP_64_IMPL(b, order) == <<Plain("load"), Interlocked(b, "loop", order)>>
OP_128_IMPL(b, order) == <<Plain("low"), Plain("high"), Interlocked(b, "loop", order)>>

X86Op(b, w, order, desired, ret, v) ==
  Impl(IF w = 64 THEN OP_64_IMPL(b, order) ELSE OP_128_IMPL(b, order), desired, v, ret, v)
MsvcOp(b, order, intrinsic, operand, ret, v) ==
  Impl(<<Interlocked(b, "rmw", order)>>, intrinsic, operand, ret, v)
GccOp(b, order, builtin, ret, v) ==
  Impl(<<Interlocked(b, "rmw", order)>>, builtin, v, ret, v)

X86_FETCH_ADD(b, w, v, o) == X86Op(b, w, o, "add", "old", v)
X86_FETCH_SUB(b, w, v, o) == X86Op(b, w, o, "sub", "old", v)
X86_FETCH_AND(b, w, v, o) == X86Op(b, w, o, "and", "old", v)
X86_FETCH_OR(b, w, v, o) == X86Op(b, w, o, "or", "old", v)
X86_FETCH_XOR(b, w, v, o) == X86Op(b, w, o, "xor", "old", v)
X86_ADD_FETCH(b, w, v, o) == X86Op(b, w, o, "add", "add", v)
X86_SUB_FETCH(b, w, v, o) == X86Op(b, w, o, "sub", "sub", v)
X86_AND_FETCH(b, w, v, o) == X86Op(b, w, o, "and", "and", v)
X86_OR_FETCH(b, w, v, o) == X86Op(b, w, o, "or", "or", v)
X86_XOR_FETCH(b, w, v, o) == X86Op(b, w, o, "xor", "xor", v)
X86_EXCHANGE(b, w, v, o) == X86Op(b, w, o, "set", "old", v)

\* The intrinsics of MSVC return the old value, and there is none to subtract.
MSVC_FETCH_ADD(b, v, o) == MsvcOp(b, o, "add", v, "old", v)
MSVC_FETCH_SUB(b, v, o) == MsvcOp(b, o, "add", Negate(v), "old", v)
MSVC_FETCH_AND(b, v, o) == MsvcOp(b, o, "and", v, "old", v)
MSVC_FETCH_OR(b, v, o) == MsvcOp(b, o, "or", v, "old", v)
MSVC_FETCH_XOR(b, v, o) == MsvcOp(b, o, "xor", v, "old", v)
MSVC_ADD_FETCH(b, v, o) == MsvcOp(b, o, "add", v, "add", v)
\* Mutant: what is returned is computed from the operand that was negated.
MSVC_SUB_FETCH_Adds(b, v, o) == MsvcOp(b, o, "add", Negate(v), "sub", Negate(v))
MSVC_SUB_FETCH(b, v, o) == MsvcOp(b, o, "add", Negate(v), "sub", v)
MSVC_AND_FETCH(b, v, o) == MsvcOp(b, o, "and", v, "and", v)
MSVC_OR_FETCH(b, v, o) == MsvcOp(b, o, "or", v, "or", v)
MSVC_XOR_FETCH(b, v, o) == MsvcOp(b, o, "xor", v, "xor", v)
MSVC_EXCHANGE(b, w, v, o) ==
  IF w = 128 THEN Impl(OP_128_IMPL(b, o), "set", v, "old", v) ELSE MsvcOp(b, o, "set", v, "old", v)

GCC_FETCH_ADD(b, v, o) == GccOp(b, o, "add", "old", v)
GCC_FETCH_SUB(b, v, o) == GccOp(b, o, "sub", "old", v)
GCC_FETCH_AND(b, v, o) == GccOp(b, o, "and", "old", v)
GCC_FETCH_OR(b, v, o) == GccOp(b, o, "or", "old", v)
GCC_FETCH_XOR(b, v, o) == GccOp(b, o, "xor", "old", v)
GCC_ADD_FETCH(b, v, o) == GccOp(b, o, "add", "add", v)
GCC_SUB_FETCH(b, v, o) == GccOp(b, o, "sub", "sub", v)
GCC_AND_FETCH(b, v, o) == GccOp(b, o, "and", "and", v)
GCC_OR_FETCH(b, v, o) == GccOp(b, o, "or", "or", v)
GCC_XOR_FETCH(b, v, o) == GccOp(b, o, "xor", "xor", v)
GCC_EXCHANGE(b, v, o) == GccOp(b, o, "set", "old", v)

\* Where the headers of the processor and of the compiler define an operation.
X86Emulates(b, w) == \/ MSVC(b) /\ b.arch = "x86" /\ w = 64
                     \/ GCC(b) /\ b.arch = "x64" /\ w = 128
CompilerHas(b, w) == w = 128 => GCC(b) /\ PointerWidth(b) = 64

ARCH_FETCH_ADD_AVAILABLE(b, w) == X86Emulates(b, w)
ARCH_FETCH_SUB_AVAILABLE(b, w) == X86Emulates(b, w)
ARCH_FETCH_AND_AVAILABLE(b, w) == X86Emulates(b, w)
ARCH_FETCH_OR_AVAILABLE(b, w) == X86Emulates(b, w)
ARCH_FETCH_XOR_AVAILABLE(b, w) == X86Emulates(b, w)
ARCH_ADD_FETCH_AVAILABLE(b, w) == X86Emulates(b, w)
ARCH_SUB_FETCH_AVAILABLE(b, w) == X86Emulates(b, w)
ARCH_AND_FETCH_AVAILABLE(b, w) == X86Emulates(b, w)
ARCH_OR_FETCH_AVAILABLE(b, w) == X86Emulates(b, w)
ARCH_XOR_FETCH_AVAILABLE(b, w) == X86Emulates(b, w)
ARCH_EXCHANGE_AVAILABLE(b, w) == X86Emulates(b, w)

COMPILER_FETCH_ADD_AVAILABLE(b, w) == CompilerHas(b, w)
COMPILER_FETCH_SUB_AVAILABLE(b, w) == CompilerHas(b, w)
COMPILER_FETCH_AND_AVAILABLE(b, w) == CompilerHas(b, w)
COMPILER_FETCH_OR_AVAILABLE(b, w) == CompilerHas(b, w)
COMPILER_FETCH_XOR_AVAILABLE(b, w) == CompilerHas(b, w)
COMPILER_ADD_FETCH_AVAILABLE(b, w) == CompilerHas(b, w)
COMPILER_SUB_FETCH_AVAILABLE(b, w) == CompilerHas(b, w)
COMPILER_AND_FETCH_AVAILABLE(b, w) == CompilerHas(b, w)
COMPILER_OR_FETCH_AVAILABLE(b, w) == CompilerHas(b, w)
COMPILER_XOR_FETCH_AVAILABLE(b, w) == CompilerHas(b, w)
COMPILER_EXCHANGE_AVAILABLE(b, w) == w = 128 => PointerWidth(b) = 64

FETCH_ADD(b, w, v, o) ==
  CHOOSE_OP_IMPL(COMPILER_FETCH_ADD_AVAILABLE(b, w), ARCH_FETCH_ADD_AVAILABLE(b, w),
    IF MSVC(b) THEN MSVC_FETCH_ADD(b, v, o) ELSE GCC_FETCH_ADD(b, v, o), X86_FETCH_ADD(b, w, v, o))
FETCH_SUB(b, w, v, o) ==
  CHOOSE_OP_IMPL(COMPILER_FETCH_SUB_AVAILABLE(b, w), ARCH_FETCH_SUB_AVAILABLE(b, w),
    IF MSVC(b) THEN MSVC_FETCH_SUB(b, v, o) ELSE GCC_FETCH_SUB(b, v, o), X86_FETCH_SUB(b, w, v, o))
FETCH_AND(b, w, v, o) ==
  CHOOSE_OP_IMPL(COMPILER_FETCH_AND_AVAILABLE(b, w), ARCH_FETCH_AND_AVAILABLE(b, w),
    IF MSVC(b) THEN MSVC_FETCH_AND(b, v, o) ELSE GCC_FETCH_AND(b, v, o), X86_FETCH_AND(b, w, v, o))
FETCH_OR(b, w, v, o) ==
  CHOOSE_OP_IMPL(COMPILER_FETCH_OR_AVAILABLE(b, w), ARCH_FETCH_OR_AVAILABLE(b, w),
    IF MSVC(b) THEN MSVC_FETCH_OR(b, v, o) ELSE GCC_FETCH_OR(b, v, o), X86_FETCH_OR(b, w, v, o))
FETCH_XOR(b, w, v, o) ==
  CHOOSE_OP_IMPL(COMPILER_FETCH_XOR_AVAILABLE(b, w), ARCH_FETCH_XOR_AVAILABLE(b, w),
    IF MSVC(b) THEN MSVC_FETCH_XOR(b, v, o) ELSE GCC_FETCH_XOR(b, v, o), X86_FETCH_XOR(b, w, v, o))
ADD_FETCH(b, w, v, o) ==
  CHOOSE_OP_IMPL(COMPILER_ADD_FETCH_AVAILABLE(b, w), ARCH_ADD_FETCH_AVAILABLE(b, w),
    IF MSVC(b) THEN MSVC_ADD_FETCH(b, v, o) ELSE GCC_ADD_FETCH(b, v, o), X86_ADD_FETCH(b, w, v, o))
SUB_FETCH(b, w, v, o) ==
  CHOOSE_OP_IMPL(COMPILER_SUB_FETCH_AVAILABLE(b, w), ARCH_SUB_FETCH_AVAILABLE(b, w),
    IF MSVC(b) THEN MSVC_SUB_FETCH(b, v, o) ELSE GCC_SUB_FETCH(b, v, o), X86_SUB_FETCH(b, w, v, o))
AND_FETCH(b, w, v, o) ==
  CHOOSE_OP_IMPL(COMPILER_AND_FETCH_AVAILABLE(b, w), ARCH_AND_FETCH_AVAILABLE(b, w),
    IF MSVC(b) THEN MSVC_AND_FETCH(b, v, o) ELSE GCC_AND_FETCH(b, v, o), X86_AND_FETCH(b, w, v, o))
OR_FETCH(b, w, v, o) ==
  CHOOSE_OP_IMPL(COMPILER_OR_FETCH_AVAILABLE(b, w), ARCH_OR_FETCH_AVAILABLE(b, w),
    IF MSVC(b) THEN MSVC_OR_FETCH(b, v, o) ELSE GCC_OR_FETCH(b, v, o), X86_OR_FETCH(b, w, v, o))
XOR_FETCH(b, w, v, o) ==
  CHOOSE_OP_IMPL(COMPILER_XOR_FETCH_AVAILABLE(b, w), ARCH_XOR_FETCH_AVAILABLE(b, w),
    IF MSVC(b) THEN MSVC_XOR_FETCH(b, v, o) ELSE GCC_XOR_FETCH(b, v, o), X86_XOR_FETCH(b, w, v, o))
EXCHANGE(b, w, v, o) ==
  CHOOSE_OP_IMPL(COMPILER_EXCHANGE_AVAILABLE(b, w), ARCH_EXCHANGE_AVAILABLE(b, w),
    IF MSVC(b) THEN MSVC_EXCHANGE(b, w, v, o) ELSE GCC_EXCHANGE(b, v, o), X86_EXCHANGE(b, w, v, o))

-----------------------------------------------------------------------------
(* Loads and stores.  On x86 a load of 128 bits is a compare-exchange with    *)
(* zero, on ARM one that is repeated until it has written back what it read.  *)
X86_LOAD(b, w, o) ==
  CASE w = 128 -> Fencing(<<Interlocked(b, "rmw", o)>>)
    [] w # 128 /\ o = "relaxed" -> Fencing(<<Plain("load")>>)
    [] OTHER -> Fencing(<<Plain("load"), COMPILER_BARRIER>>)

\* The macros for 64 bits on ARM32 use one that is not defined there.
ARM_LOAD(b, w, o) ==
  CASE w = 128 -> Fencing(OP_128_IMPL(b, o))
    [] w = 64 /\ b.arch = "arm32" -> NotImplemented
    [] o = "relaxed" /\ (w = 32 \/ (w = 64 /\ b.arch = "arm64")) -> Fencing(<<Plain("load")>>)
    [] OTHER -> Fencing(<<Plain("load"), CPU_MB>>)

GCC_LOAD(o) == Fencing(<<[Plain("load") EXCEPT !.acq = o # "relaxed"]>>)

ARCH_LOAD_AVAILABLE(b, w) == MSVC(b) \/ (X86(b) /\ w = 128)
COMPILER_LOAD_AVAILABLE(b, w) == GCC(b)

LOAD(b, w, o) ==
  CHOOSE_OP_IMPL(COMPILER_LOAD_AVAILABLE(b, w), ARCH_LOAD_AVAILABLE(b, w),
    GCC_LOAD(o), IF X86(b) THEN X86_LOAD(b, w, o) ELSE ARM_LOAD(b, w, o))

LOAD_READ_DEPENDS(b, w) == IF w = 128 THEN NotImplemented ELSE LOAD(b, w, "relaxed")

\* Mutant: the 64 bit store of x86 leaves the fence to the processor.
X86_STORE_Unfenced(b, w, v, o) ==
  CASE w = 128 -> EXCHANGE(b, w, v, o)
    [] w # 128 /\ o = "relaxed" -> Access(<<Plain("store")>>, v)
    [] w # 128 /\ (o = "release" \/ (w = 64 /\ o = "seq_cst" /\ b.arch = "x86")) ->
         Access(<<COMPILER_BARRIER, Plain("store")>>, v)
    [] OTHER -> EXCHANGE(b, w, v, o)

\* A sequentially consistent store is an exchange, but for 64 bits on x86.
X86_STORE(b, w, v, o) ==
  CASE w = 128 -> EXCHANGE(b, w, v, o)
    [] w # 128 /\ o = "relaxed" -> Access(<<Plain("store")>>, v)
    [] w # 128 /\ o = "release" -> Access(<<COMPILER_BARRIER, Plain("store")>>, v)
    [] w = 64 /\ o = "seq_cst" /\ b.arch = "x86" ->
         Access(<<COMPILER_BARRIER, Plain("store"), CPU_MB>>, v)
    [] OTHER -> EXCHANGE(b, w, v, o)

\* Mutant: the barrier of a release is behind the store.
ARM_STORE_Behind(b, w, v, o) ==
  CASE w = 128 \/ (w = 64 /\ b.arch = "arm32") -> EXCHANGE(b, w, v, o)
    [] OTHER -> Access(IF o = "relaxed" THEN <<Plain("store")>> ELSE <<Plain("store"), CPU_MB>>, v)

ARM_STORE(b, w, v, o) ==
  CASE w = 128 \/ (w = 64 /\ b.arch = "arm32") -> EXCHANGE(b, w, v, o)
    [] OTHER -> Access(CASE o = "relaxed" -> <<Plain("store")>>
                         [] o = "release" -> <<CPU_MB, Plain("store")>>
                         [] o = "seq_cst" -> <<CPU_MB, Plain("store"), CPU_MB>>, v)

GCC_STORE(b, v, o) ==
  IF X86(b) /\ o = "seq_cst" THEN GCC_EXCHANGE(b, v, o)
  ELSE Access(<<[Plain("store") EXCEPT !.rel = o # "relaxed"]>>, v)

ARCH_STORE_AVAILABLE(b, w) == MSVC(b) \/ (X86(b) /\ w = 128)
COMPILER_STORE_AVAILABLE(b, w) == GCC(b)

STORE(b, w, v, o) ==
  CHOOSE_OP_IMPL(COMPILER_STORE_AVAILABLE(b, w), ARCH_STORE_AVAILABLE(b, w),
    GCC_STORE(b, v, o), IF X86(b) THEN X86_STORE(b, w, v, o) ELSE ARM_STORE(b, w, v, o))

-----------------------------------------------------------------------------
(* Fences.                                                                    *)
X86_THREAD_FENCE(o) ==
  Fencing(CASE o = "relaxed" -> <<>> [] o = "seq_cst" -> <<CPU_MB>> [] OTHER -> <<COMPILER_BARRIER>>)

ARM_THREAD_FENCE(o) == Fencing(IF o = "relaxed" THEN <<>> ELSE <<CPU_MB>>)

GCC_THREAD_FENCE(b, o) == IF X86(b) THEN X86_THREAD_FENCE(o) ELSE ARM_THREAD_FENCE(o)

ARCH_THREAD_FENCE_AVAILABLE(b, o) == MSVC(b) \/ (X86(b) /\ o = "seq_cst")
COMPILER_THREAD_FENCE_AVAILABLE(b, o) == GCC(b)

THREAD_FENCE(b, o) ==
  CHOOSE_OP_IMPL(COMPILER_THREAD_FENCE_AVAILABLE(b, o), ARCH_THREAD_FENCE_AVAILABLE(b, o),
    GCC_THREAD_FENCE(b, o), IF X86(b) THEN X86_THREAD_FENCE(o) ELSE ARM_THREAD_FENCE(o))

X86_ACQUIRE_FENCE == Fencing(<<COMPILER_BARRIER>>)
ARM_ACQUIRE_FENCE(b, w) == LOAD(b, w, "acquire")

ACQUIRE_FENCE(b, w) == IF X86(b) THEN X86_ACQUIRE_FENCE ELSE ARM_ACQUIRE_FENCE(b, w)

-----------------------------------------------------------------------------
(* The classes.  A call says what is called on which location (op, on), its   *)
(* width, order (and that of a failure) and arguments, and in via the call of *)
(* its thread that has loaded the address, if any.  The functions that are    *)
(* not members forward to these.                                              *)
StandaloneCompare ==
  [atomic_compare_exchange_strong |-> "compare_exchange_strong",
   atomic_compare_exchange_weak |-> "compare_exchange_weak"]

StandaloneBits ==
  [atomic_fetch_xor |-> "fetch_xor", atomic_xor_fetch |-> "xor_fetch",
   atomic_fetch_or |-> "fetch_or", atomic_or_fetch |-> "or_fetch",
   atomic_fetch_and |-> "fetch_and", atomic_and_fetch |-> "and_fetch"]

StandaloneArithmetic ==
  [atomic_fetch_sub |-> "fetch_sub", atomic_sub_fetch |-> "sub_fetch",
   atomic_fetch_add |-> "fetch_add", atomic_add_fetch |-> "add_fetch"]

StandaloneAccess ==
  [atomic_exchange |-> "exchange", atomic_load |-> "load", atomic_store |-> "store"]

StandaloneFlag ==
  [atomic_flag_test_and_set |-> "test_and_set", atomic_flag_clear |-> "clear",
   atomic_flag_test |-> "test"]

Standalone ==
  StandaloneCompare @@ StandaloneBits @@ StandaloneArithmetic @@ StandaloneAccess @@ StandaloneFlag

\* The member that is called; with no order it is sequentially consistent.
Member(call) ==
  [call EXCEPT !.op = IF @ \in DOMAIN Standalone THEN Standalone[@] ELSE @,
               !.order = IF @ = "none" THEN "seq_cst" ELSE @]

As(call, op, arg) == [call EXCEPT !.op = op, !.arg = arg, !.order = "seq_cst"]

IntegralOperator(call) ==
  CASE call.op = "++_" -> As(call, "add_fetch", 1)
    [] call.op = "_++" -> As(call, "fetch_add", 1)
    [] call.op = "--_" -> As(call, "sub_fetch", 1)
    [] call.op = "_--" -> As(call, "fetch_sub", 1)
    [] call.op = "+="  -> As(call, "add_fetch", call.arg)
    [] call.op = "-="  -> As(call, "sub_fetch", call.arg)
    [] call.op = "&="  -> As(call, "and_fetch", call.arg)
    [] call.op = "|="  -> As(call, "or_fetch", call.arg)
    [] call.op = "^="  -> As(call, "xor_fetch", call.arg)
    [] OTHER -> call

\* Pointers count objects: the integer that is added is multiplied.
SizeOf == 2
PointerOperator(b, call) ==
  LET as(op, arg) == [As(call, op, arg * SizeOf) EXCEPT !.width = PointerWidth(b)]
  IN  CASE call.op = "++_" -> as("add_fetch", 1)
        [] call.op = "_++" -> as("fetch_add", 1)
        [] call.op = "--_" -> as("sub_fetch", 1)
        [] call.op = "_--" -> as("fetch_sub", 1)
        [] call.op = "+="  -> as("add_fetch", call.arg)
        [] call.op = "-="  -> as("sub_fetch", call.arg)
        [] call.op \in {"fetch_add", "add_fetch", "fetch_sub", "sub_fetch"} ->
             [as(call.op, call.arg) EXCEPT !.order = call.order]
        [] OTHER -> [call EXCEPT !.width = PointerWidth(b)]

FlagMember(call) ==
  CASE call.op = "test_and_set" -> [call EXCEPT !.op = "exchange", !.arg = 1]
    [] call.op = "clear"        -> [call EXCEPT !.op = "store", !.arg = 0]
    [] call.op = "test"         -> [call EXCEPT !.op = "load"]

Operator(b, call) ==
  CASE call.type = "integral" -> IntegralOperator(call)
    [] call.type = "pointer"  -> PointerOperator(b, call)
    [] call.type = "flag"     -> FlagMember(call)

BaseCompareExchange(b, call) ==
  IF call.op = "compare_exchange_weak" THEN CMPXCHG_WEAK(b, call.width, call.arg, call.order)
  ELSE CMPXCHG_STRONG(b, call.width, call.arg, call.order)

BaseWidth(b, call) ==
  LET w == call.width  v == call.arg  o == call.order
  IN  CASE call.op = "load" /\ o = "read_depends" -> LOAD_READ_DEPENDS(b, w)
        [] call.op = "load" /\ o # "read_depends" -> LOAD(b, w, o)
        [] call.op \in {"store", "="} -> STORE(b, w, v, o)
        [] call.op = "exchange" -> EXCHANGE(b, w, v, o)
        [] call.op \in {"compare_exchange_weak", "compare_exchange_strong"} -> BaseCompareExchange(b, call)

IntegralWidth(b, call) ==
  LET w == call.width  v == call.arg  o == call.order
  IN  CASE call.op = "fetch_add" -> FETCH_ADD(b, w, v, o)
        [] call.op = "add_fetch" -> ADD_FETCH(b, w, v, o)
        [] call.op = "fetch_sub" -> FETCH_SUB(b, w, v, o)
        [] call.op = "sub_fetch" -> SUB_FETCH(b, w, v, o)
        [] call.op = "fetch_and" -> FETCH_AND(b, w, v, o)
        [] call.op = "and_fetch" -> AND_FETCH(b, w, v, o)
        [] call.op = "fetch_or"  -> FETCH_OR(b, w, v, o)
        [] call.op = "or_fetch"  -> OR_FETCH(b, w, v, o)
        [] call.op = "fetch_xor" -> FETCH_XOR(b, w, v, o)
        [] call.op = "xor_fetch" -> XOR_FETCH(b, w, v, o)
        [] call.op = "acquire_fence" -> ACQUIRE_FENCE(b, w)
        [] OTHER -> BaseWidth(b, call)

\* What a call is made of; read and write access data that is not atomic.
Code(b, call) ==
  CASE call.op = "read"  -> Fencing(<<Plain("read")>>)
    [] call.op = "write" -> Access(<<Plain("write")>>, call.arg)
    [] call.op = "thread_fence" -> THREAD_FENCE(b, call.order)
    [] OTHER -> IntegralWidth(b, Operator(b, Member(call)))

-----------------------------------------------------------------------------
(* The machine.  All threads share one memory, an interlocked instruction is  *)
(* one step, and a thread reads its own writes before the others do.          *)
ThreadIds == DOMAIN program.threads
CallOf(t, c) == program.threads[t][c]
Start == <<0, 0>>

Loads == {"load", "read", "low", "high"}
Stores == {"store", "write"}
Data == {"read", "write", "low", "high"}
Fences == {"barrier", "fence"}

Numbered(code, c) == [n \in DOMAIN code |-> [c |-> c] @@ code[n]]

\* Fences in front have nothing to keep apart.
Remaining(w) ==
  LET real == {n \in DOMAIN w : w[n].i \notin Fences}
  IN  IF real = {} THEN <<>> ELSE SubSeq(w, Min(real), Len(w))

Init ==
  /\ program \in Programs
  /\ build \in {b \in Builds : \A t \in ThreadIds : \A c \in DOMAIN program.threads[t] :
                                 Code(b, CallOf(t, c)) # NotImplemented}
  /\ window = [t \in ThreadIds |-> Remaining(FlattenSeq(
                 [c \in DOMAIN program.threads[t] |-> Numbered(Code(build, CallOf(t, c)).code, c)]))]
  /\ history = [l \in DOMAIN program.start |-> <<[by |-> Start, val |-> program.start[l]]>>]
  /\ out = [t \in ThreadIds |-> [c \in DOMAIN program.threads[t] |->
              [val |-> 0, from |-> Start, ok |-> FALSE]]]

\* Instruction n of a thread may be executed before m, which is in front of it:
\* if the compiler moves an access to data, or the processor lets a load pass a
\* store (x86) or anything that does not depend on it (ARM).
MayPass(t, m, n) ==
  LET w == window[t]
      a == w[m]
      b == w[n]
      unfenced(kinds) == \A k \in (m + 1) .. (n - 1) : w[k].i \notin kinds
  IN  \/ a.i \in Fences
      \/ /\ ~a.acq /\ ~b.rel /\ CallOf(t, b.c).via # a.c
         /\ \/ CallOf(t, a.c).on # CallOf(t, b.c).on
            \/ a.i \in Stores /\ b.i \in Loads
            \/ a.i = "low" /\ b.i = "high" /\ a.c = b.c
         /\ \/ {a.i, b.i} \cap Data # {} /\ unfenced(Fences)
            \/ X86(build) /\ a.i \in Stores /\ b.i \in Loads /\ unfenced({"fence"})
            \/ ARM(build) /\ ~(a.rel /\ b.acq) /\ unfenced({"fence"})

Ready(t, n, kinds) ==
  /\ window[t][n].i \in kinds
  /\ \A m \in 1 .. (n - 1) : MayPass(t, m, n)
  /\ window' = [window EXCEPT ![t] = Remaining(SubSeq(@, 1, n - 1) \o SubSeq(@, n + 1, Len(@)))]

Seen(t, n) ==
  LET w == window[t]
      l == CallOf(t, w[n].c).on
      own == {m \in 1 .. (n - 1) : w[m].i \in Stores /\ CallOf(t, w[m].c).on = l}
      c == w[Max(own)].c
  IN  IF own = {} THEN history[l][Len(history[l])]
      ELSE [by |-> <<t, c>>, val |-> Code(build, CallOf(t, c)).operand]

Wrote(t, c, v) ==
  history' = [history EXCEPT ![CallOf(t, c).on] = Append(@, [by |-> <<t, c>>, val |-> v])]

HasRead(t, c, w, ok) == out' = [out EXCEPT ![t][c] = [val |-> w.val, from |-> w.by, ok |-> ok]]

Load(t, n) ==
  /\ Ready(t, n, {"load", "read"})
  /\ HasRead(t, window[t][n].c, Seen(t, n), TRUE)
  /\ UNCHANGED <<build, program, history>>

LoadHalf(t, n) ==
  LET c == window[t][n].c
      v == Seen(t, n).val
      was == out[t][c].val
  IN  /\ Ready(t, n, {"low", "high"})
      /\ out' = [out EXCEPT ![t][c].val =
           IF window[t][n].i = "low" THEN High(was) + Low(v) ELSE High(v) + Low(was)]
      /\ UNCHANGED <<build, program, history>>

Store(t, n) ==
  LET c == window[t][n].c
  IN  /\ Ready(t, n, Stores)
      /\ Wrote(t, c, Code(build, CallOf(t, c)).operand)
      /\ UNCHANGED <<build, program, out>>

\* What was read is written back by a load, which changes nothing.
ReadModifyWrite(t, n) ==
  LET c == window[t][n].c
      impl == Code(build, CallOf(t, c))
      old == Seen(t, n)
  IN  /\ Ready(t, n, {"rmw", "loop"})
      /\ window[t][n].i = "loop" => out[t][c].val = old.val
      /\ HasRead(t, c, old, TRUE)
      /\ IF impl.f = "old" THEN UNCHANGED history
         ELSE Wrote(t, c, Apply(impl.f, old.val, impl.operand))
      /\ UNCHANGED <<build, program>>

\* A compare-exchange that fails leaves the value for the next one.
Repeat(t, n) ==
  LET c == window[t][n].c
  IN  /\ window[t][n].i = "loop" /\ \A m \in 1 .. (n - 1) : MayPass(t, m, n)
      /\ out[t][c].val # Seen(t, n).val
      /\ HasRead(t, c, Seen(t, n), FALSE)
      /\ UNCHANGED <<build, program, window, history>>

CompareExchange(t, n) ==
  LET c == window[t][n].c
      equal == Seen(t, n).val = CallOf(t, c).expected
  IN  /\ Ready(t, n, {"cas", "weak"})
      /\ HasRead(t, c, Seen(t, n), equal)
      /\ IF equal THEN Wrote(t, c, Code(build, CallOf(t, c)).operand) ELSE UNCHANGED history
      /\ UNCHANGED <<build, program>>

FailSpuriously(t, n) ==
  /\ Ready(t, n, {"weak"})
  /\ HasRead(t, window[t][n].c, Seen(t, n), FALSE)
  /\ UNCHANGED <<build, program, history>>

Finished == \A t \in ThreadIds : window[t] = <<>>

Done == Finished /\ UNCHANGED vars

Next ==
  \/ \E t \in ThreadIds : \E n \in DOMAIN window[t] :
       \/ Load(t, n) \/ LoadHalf(t, n) \/ Store(t, n)
       \/ ReadModifyWrite(t, n) \/ Repeat(t, n)
       \/ CompareExchange(t, n) \/ FailSpuriously(t, n)
  \/ Done

Spec == Init /\ [][Next]_vars

-----------------------------------------------------------------------------
(* What atomic.h promises.  First of each operation alone: the new value and  *)
(* what is returned, from the old value.                                      *)
Amount(call) ==
  (IF call.op \in {"++_", "_++", "--_", "_--"} THEN 1 ELSE call.arg)
    * (IF call.type = "pointer" THEN SizeOf ELSE 1)

Adding == {"fetch_add", "add_fetch", "++_", "_++", "+=", "atomic_fetch_add", "atomic_add_fetch"}
Subtracting == {"fetch_sub", "sub_fetch", "--_", "_--", "-=", "atomic_fetch_sub", "atomic_sub_fetch"}
Anding == {"fetch_and", "and_fetch", "&=", "atomic_fetch_and", "atomic_and_fetch"}
Oring == {"fetch_or", "or_fetch", "|=", "atomic_fetch_or", "atomic_or_fetch"}
Xoring == {"fetch_xor", "xor_fetch", "^=", "atomic_fetch_xor", "atomic_xor_fetch"}

Effect(call, old) ==
  CASE call.op \in Adding -> (old + Amount(call)) % Modulus
    [] call.op \in Subtracting -> (old - Amount(call)) % Modulus
    [] call.op \in Anding -> old & call.arg
    [] call.op \in Oring -> old | call.arg
    [] call.op \in Xoring -> old ^^ call.arg
    [] call.op \in {"test_and_set", "atomic_flag_test_and_set"} -> 1
    [] call.op \in {"clear", "atomic_flag_clear"} -> 0
    [] OTHER -> call.arg

Fetching == {"fetch_add", "fetch_sub", "fetch_and", "fetch_or", "fetch_xor", "_++", "_--",
  "exchange", "test_and_set", "atomic_fetch_add", "atomic_fetch_sub", "atomic_fetch_and",
  "atomic_fetch_or", "atomic_fetch_xor", "atomic_exchange", "atomic_flag_test_and_set"}
Writing == {"store", "=", "clear", "write", "atomic_store", "atomic_flag_clear"}
Reading == {"load", "test", "read", "atomic_load", "atomic_flag_test"}
Comparing == {"compare_exchange_strong", "compare_exchange_weak",
  "atomic_compare_exchange_strong", "atomic_compare_exchange_weak"}
WeaklyComparing == {"compare_exchange_weak", "atomic_compare_exchange_weak"}
Fencings == {"thread_fence", "acquire_fence"}

Returned(t, c) ==
  LET impl == Code(build, CallOf(t, c)) IN Apply(impl.ret, out[t][c].val, impl.arg)

Events == {e \in ThreadIds \X (1 .. 4) : e[2] \in DOMAIN program.threads[e[1]]}
CallBy(e) == program.threads[e[1]][e[2]]
On(e) == CallBy(e).on
Writes(e) == {n \in DOMAIN history[On(e)] : history[On(e)][n].by = e}
ReadFrom(e) == {n \in DOMAIN history[On(e)] : history[On(e)][n].by = out[e[1]][e[2]].from}

\* Every operation takes effect once and as a whole (include/EASTL/atomic.h:174
\* names the widths): what it writes it makes of the value just before, what it
\* returns is that value or the new one, a load has a value that was written,
\* and a compare-exchange fails for another value, or in its weak form.
OperationsWhole ==
  Finished => \A e \in {e \in Events : CallBy(e).op \notin Fencings} :
    LET call == CallBy(e)
        H == history[call.on]
        n == Min(Writes(e))
        read == out[e[1]][e[2]]
        whole == \E m \in ReadFrom(e) : H[m].val = read.val
        replaces == /\ Cardinality(Writes(e)) = 1
                    /\ H[n].val = Effect(call, H[n - 1].val)
    IN  CASE call.op \in Writing   -> replaces
          [] call.op \in Reading   -> Writes(e) = {} /\ whole
          [] call.op \in Fetching  -> replaces /\ Returned(e[1], e[2]) = H[n - 1].val
          [] call.op \in Comparing ->
               /\ whole
               /\ IF read.ok THEN replaces /\ H[n - 1].val = read.val /\ read.val = call.expected
                  ELSE /\ Writes(e) = {}
                       /\ read.val = call.expected => call.op \in WeaklyComparing
          [] OTHER -> replaces /\ Returned(e[1], e[2]) = H[n].val

-----------------------------------------------------------------------------
(* Then of an execution: the relations of the C++11 memory model, as sets of  *)
(* pairs of events.                                                           *)
Then(r, s) == {<<p[1][1], p[2][2]>> : p \in {q \in r \X s : q[1][2] = q[2][1]}}
Closure(r) == LET r2 == r \cup Then(r, r)  r4 == r2 \cup Then(r2, r2) IN r4 \cup Then(r4, r4)

Order(e) ==
  LET call == CallBy(e)
  IN  CASE call.order = "none" -> "seq_cst"
        [] call.order # "none" /\ call.op \in Comparing /\ ~out[e[1]][e[2]].ok -> call.failure
        [] OTHER -> call.order
Acquires(e) == Order(e) \in {"acquire", "acq_rel", "seq_cst"}
Releases(e) == Order(e) \in {"release", "acq_rel", "seq_cst"}

WriteEvents == {e \in Events : Writes(e) # {}}
ReadEvents == {e \in Events : CallBy(e).op \notin Writing \cup Fencings}
FenceEvents == {e \in Events : CallBy(e).op = "thread_fence"}

Precedes(d, e) == d[1] = e[1] /\ d[2] < e[2]
SequencedBefore == {p \in Events \X Events : Precedes(p[1], p[2])}
ReadsFrom == {p \in WriteEvents \X ReadEvents : out[p[2][1]][p[2][2]].from = p[1]}
SameLocation(r) == {p \in r : On(p[1]) = On(p[2])}
ModificationOrder ==
  {p \in SameLocation(WriteEvents \X WriteEvents) : Max(Writes(p[1])) < Min(Writes(p[2]))}
FromRead ==
  {p \in SameLocation(ReadEvents \X WriteEvents) :
     p[1] # p[2] /\ \A n \in ReadFrom(p[1]) : n < Min(Writes(p[2]))}

\* A release store and the writes after it that are of its thread or change
\* what they read, up to the first that is not (atomic.h:1235).
ReleaseSequence(w) ==
  LET of(m) == history[On(w)][m].by
  IN  {of(m) : m \in {m \in DOMAIN history[On(w)] :
         /\ m >= Max(Writes(w))
         /\ \A k \in Max(Writes(w)) .. m : of(k)[1] = w[1] \/ of(k) \in ReadEvents}}

Releasing(w) == {e \in {w} : Releases(w)}
  \cup {f \in FenceEvents : Releases(f) /\ Precedes(f, w)}
Acquiring(r) == {e \in {r} : Acquires(r)}
  \cup {f \in FenceEvents : Acquires(f) /\ Precedes(r, f)}
  \cup {f \in Events : CallBy(f).op = "acquire_fence" /\ On(f) = On(r) /\ Precedes(r, f)}

Headed == {p \in WriteEvents \X ReadEvents :
             On(p[1]) = On(p[2]) /\ out[p[2][1]][p[2][2]].from \in ReleaseSequence(p[1])}

SynchronizesWith == UNION {Releasing(p[1]) \X Acquiring(p[2]) : p \in Headed}

\* A load that reads dependencies orders what is accessed through its result.
DependsOn ==
  LET through(r) == {e \in Events : e[1] = r[1] /\ CallBy(e).via = r[2]}
  IN  UNION {Releasing(p[1]) \X through(p[2]) : p \in {p \in Headed : Order(p[2]) = "read_depends"}}

Synchronized == Closure(SequencedBefore \cup SynchronizesWith)
HappensBefore == Synchronized \cup DependsOn \cup Then(Synchronized, DependsOn)

\* Where two accesses race and one is of data, nothing is promised.
Races ==
  LET hb == HappensBefore
      data == {e \in Events : CallBy(e).order = "data"}
  IN  \E p \in SameLocation(data \X data) :
        /\ p[1] # p[2] /\ p \notin hb /\ <<p[2], p[1]>> \notin hb
        /\ {p[1], p[2]} \cap WriteEvents # {}

Communication == Closure(ReadsFrom \cup ModificationOrder \cup FromRead)

\* What happens before an access is not read, written or overwritten after it:
\* the coherence of atomic.h:1447, and that data published by a release, or
\* through a pointer, is seen by who acquires it (atomic.h:1094, 1164, 1372).
Coherent ==
  LET communicated == Communication
  IN  Finished /\ ~Races => \A p \in HappensBefore : <<p[2], p[1]>> \notin communicated

\* There is a single order of the sequentially consistent operations and fences
\* that all threads agree on (atomic.h:1640, with the fences of C++20 that
\* atomic.h:1697 describes), in the form of the repaired C++11 model.
SequentiallyConsistent ==
  LET hb == Synchronized
      id(S) == {<<e, e>> : e \in S}
      apart == SequencedBefore \ SameLocation(SequencedBefore)
      before == SequencedBefore \cup Then(apart, Then(hb, apart)) \cup SameLocation(hb)
                  \cup ModificationOrder \cup FromRead
      S == {e \in Events : Order(e) = "seq_cst"}
      F == S \cap FenceEvents
      first == id(S) \cup {p \in hb : p[1] \in F}
      last == id(S) \cup {p \in hb : p[2] \in F}
      fences == {p \in hb \cup Then(hb, Then(Communication, hb)) : {p[1], p[2]} \subseteq F}
      total == Closure(Then(first, Then(before, last)) \cup fences)
  IN  Finished /\ ~Races => \A e \in S : <<e, e>> \notin total
=============================================================================
