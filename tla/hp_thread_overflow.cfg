\* max_thread_count is 1 and the retired capacity is raised to 2 * H * T = 2,
\* but alloc_thread_data never refuses a second attached thread: two guards
\* then pin a full buffer.
CONSTANTS
    t1 = t1
    t2 = t2
    t3 = t3
    Threads <- MC_Threads
    Addrs = {2, 4, 6}
    HazardPtrCount = 1
    MaxThreadCount = 1
    MaxRetiredPtrCount = 0
    ScanType = "inplace"
    MaxRecords = 2
SYMMETRY ThreadSymmetry
SPECIFICATION Spec
INVARIANT NoCapacityFault
