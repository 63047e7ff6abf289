\* Two client threads, one of which initializes the SMR (the documented
\* external serialization of construct), a custom allocator pair that may be
\* installed at any time, both barrier strategies, and a debug build: an
\* assert() that fails ends the program, so a stopped state is no deadlock.
CONSTANTS
    t1 = t1
    t2 = t2
    default_alloc = default_alloc
    custom_alloc = custom_alloc
    Threads <- MC_Threads
    Allocators <- MC_Allocators
    Initializers = {t1}
    NDEBUG = FALSE
    ScanType = "classic"
    MemBarsUsed = {"asymmetric_membar", "asymmetric_global_membar"}
    MaxBlocks = 5
SPECIFICATION FairSpec
INVARIANT TypeOK FreedByOwnAllocator NoLeak FenceExecuted RecordsReachable
CHECK_DEADLOCK FALSE
PROPERTY PrependCompletes
