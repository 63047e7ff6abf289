\* Three threads share two records; an odd address (7) makes inplace_scan fall back to classic_scan.
CONSTANTS
    t1 = t1
    t2 = t2
    t3 = t3
    Threads <- MC_Threads3
    Addrs = {2, 4, 7}
    HazardPtrCount = 1
    MaxThreadCount = 3
    MaxRetiredPtrCount = 4
    ScanType = "inplace"
    MaxRecords = 2
SPECIFICATION Spec
SYMMETRY ThreadSymmetry3
VIEW LiveView
INVARIANT DisposedAtMostOnce
INVARIANT RetiredHeldOnce
INVARIANT FreeHintSound
INVARIANT ExclusiveOwnership
