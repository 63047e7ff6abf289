\* nMaxRetiredPtrCount = H * T: the overflow paths run until the fatal error stops the program; what holds up to then.
CONSTANTS
    t1 = t1
    t2 = t2
    t3 = t3
    Threads <- MC_Threads
    Addrs = {2, 4, 6}
    HazardPtrCount = 1
    MaxThreadCount = 2
    MaxRetiredPtrCount = 2
    ScanType = "inplace"
    MaxRecords = 3
SPECIFICATION Spec
SYMMETRY ThreadSymmetry
INVARIANT DisposedAtMostOnce
PROPERTY RefinesSafeReclamation
\* a fatal capacity error ends the program
CHECK_DEADLOCK FALSE
PROPERTY RefinesRecordRegistry
