----------------------------- MODULE MemBarrier -----------------------------
(***************************************************************************)
(* The asymmetric memory-barrier strategies of the hazard-pointer SMR     *)
(* (asymmetric_membar, asymmetric_global_membar in hp.cpp) and the Linux  *)
(* membarrier(2) system call they rely on.  check_membarrier_available() *)
(* probes the kernel once and caches the answer in the class's static     *)
(* membarrier_available_; call_membarrier() then issues the heavyweight   *)
(* fence that lets the guard-publishing side go without one.              *)
(*                                                                         *)
(* The kernel is one of a small set of variants (no membarrier syscall,    *)
(* or a syscall supporting some of the commands).  The int result of the  *)
(* syscall is kept as its two's-complement bit pattern, so that -1 and  *)
(* the bit tests on it behave as in the C++ code.                         *)
(***************************************************************************)
EXTENDS Integers, FiniteSets, FiniteSetsExt, Bitwise

VARIABLES
    kernel,                 \* the running kernel's membarrier support
    registered,             \* the process registered for private expedited
    membarrier_available_,  \* the static flag of each strategy class
    rejected                \* fences the kernel refused (history)

mbVars == <<kernel, registered, membarrier_available_, rejected>>

MEMBARRIER_CMD_QUERY == 0
MEMBARRIER_CMD_SHARED == 1
CDS_MEMBARRIER_CMD_PRIVATE_EXPEDITED == 8
CDS_MEMBARRIER_CMD_REGISTER_PRIVATE_EXPEDITED == 16

MemBars == {"asymmetric_membar", "asymmetric_global_membar"}

\* The command each strategy's call_membarrier() issues.
FenceCmd(m) ==
    IF m = "asymmetric_membar" THEN CDS_MEMBARRIER_CMD_PRIVATE_EXPEDITED
                               ELSE MEMBARRIER_CMD_SHARED

\* An int as its two's-complement bit pattern.  The width is narrowed from
\* 32 to 16 bits (TLC's own integers are 32-bit): every command bit lies
\* below bit 5, so -1 and the & tests are the same.
IntWidth == 16
ToInt(x) == x % 2^IntWidth

\* Linux before 4.3 has no membarrier (every call fails with ENOSYS); 4.3
\* supports SHARED; 4.14 adds the private expedited command and its
\* registration; nohz_full kernels do not offer SHARED.
KernelVariants ==
    {[present |-> FALSE, cmds |-> {}]}
    \cup {[present |-> TRUE, cmds |-> c] :
            c \in {{MEMBARRIER_CMD_SHARED},
                   {MEMBARRIER_CMD_SHARED, CDS_MEMBARRIER_CMD_PRIVATE_EXPEDITED,
                    CDS_MEMBARRIER_CMD_REGISTER_PRIVATE_EXPEDITED},
                   {CDS_MEMBARRIER_CMD_PRIVATE_EXPEDITED,
                    CDS_MEMBARRIER_CMD_REGISTER_PRIVATE_EXPEDITED}}}

\* membarrier(cmd, 0) as the kernel answers it: QUERY returns the mask of
\* supported commands; an unsupported command, or private expedited before
\* registration (EPERM), returns -1.
membarrier(cmd) ==
    CASE ~kernel.present                              -> -1
      [] cmd = MEMBARRIER_CMD_QUERY                   -> SumSet(kernel.cmds)
      [] cmd \notin kernel.cmds                       -> -1
      [] cmd = CDS_MEMBARRIER_CMD_PRIVATE_EXPEDITED /\ ~registered -> -1
      [] OTHER                                        -> 0

\* What a successful registration leaves behind in the kernel.
RegisterEffect ==
    registered' = (registered \/ membarrier(CDS_MEMBARRIER_CMD_REGISTER_PRIVATE_EXPEDITED) = 0)

MBInit ==
    /\ kernel \in KernelVariants
    /\ registered = FALSE
    /\ membarrier_available_ = [m \in MemBars |-> FALSE]
    /\ rejected = 0

\* asymmetric_membar::check_membarrier_available(): the query must succeed
\* and report private expedited, and the registration (made only then,
\* && short-circuits) must succeed.
CheckPrivate ==
    LET res == ToInt(membarrier(MEMBARRIER_CMD_QUERY))
        supported == ~(res = ToInt(-1) \/ (res & CDS_MEMBARRIER_CMD_PRIVATE_EXPEDITED) = 0)
    IN  /\ IF supported THEN RegisterEffect ELSE UNCHANGED registered
        /\ membarrier_available_' = [membarrier_available_ EXCEPT !["asymmetric_membar"] =
              supported /\ membarrier(CDS_MEMBARRIER_CMD_REGISTER_PRIVATE_EXPEDITED) = 0]
        /\ UNCHANGED <<kernel, rejected>>

\* asymmetric_global_membar::check_membarrier_available().
CheckGlobal ==
    LET res == ToInt(membarrier(MEMBARRIER_CMD_QUERY))
    IN  /\ membarrier_available_' = [membarrier_available_ EXCEPT !["asymmetric_global_membar"] =
              ~(res = ToInt(-1) \/ (res & MEMBARRIER_CMD_SHARED) = 0)]
        /\ UNCHANGED <<kernel, registered, rejected>>

\* Mutant: the res == -1 test is dropped; -1 has every bit set.
check_membarrier_available_noMinusOne(m) ==
    LET res == ToInt(membarrier(MEMBARRIER_CMD_QUERY))
        bitOk(cmd) == (res & cmd) # 0
    IN  /\ UNCHANGED <<kernel, rejected>>
        /\ IF m = "asymmetric_membar"
          THEN /\ IF bitOk(CDS_MEMBARRIER_CMD_PRIVATE_EXPEDITED) THEN RegisterEffect
                                                                 ELSE UNCHANGED registered
               /\ membarrier_available_' = [membarrier_available_ EXCEPT ![m] =
                     bitOk(CDS_MEMBARRIER_CMD_PRIVATE_EXPEDITED)
                     /\ membarrier(CDS_MEMBARRIER_CMD_REGISTER_PRIVATE_EXPEDITED) = 0]
          ELSE /\ membarrier_available_' = [membarrier_available_ EXCEPT ![m] =
                     bitOk(MEMBARRIER_CMD_SHARED)]
               /\ UNCHANGED registered

check_membarrier_available(m) ==
    IF m = "asymmetric_membar" THEN CheckPrivate ELSE CheckGlobal

\* call_membarrier(): assert(membarrier_available_) (the caller only takes
\* this path when the flag is set), then the fence command; a result other
\* than 0 means no fence was executed.
call_membarrier(m) ==
    /\ membarrier_available_[m]
    /\ rejected' = IF membarrier(FenceCmd(m)) = 0 THEN rejected ELSE rejected + 1
    /\ UNCHANGED <<kernel, registered, membarrier_available_>>

MBTypeOK ==
    /\ kernel \in KernelVariants
    /\ registered \in BOOLEAN
    /\ membarrier_available_ \in [MemBars -> BOOLEAN]
    /\ rejected \in Nat

\* Every heavyweight fence a scan issues through call_membarrier() is
\* executed by the kernel: the probe of check_membarrier_available() sets
\* the flag only when the command will be accepted, whatever the kernel
\* (no syscall, SHARED only, private expedited only).
FenceExecuted == rejected = 0

====
