\* Classic scan: entries are neither lost, duplicated nor freed twice, despite the line-70 test.
CONSTANTS
    t1 = t1
    t2 = t2
    t3 = t3
    Threads <- MC_Threads
    Addrs = {2, 4, 6}
    HazardPtrCount = 1
    MaxThreadCount = 2
    MaxRetiredPtrCount = 3
    ScanType = "classic"
    MaxRecords = 3
SPECIFICATION Spec
SYMMETRY ThreadSymmetry
INVARIANT DisposedAtMostOnce
INVARIANT RetiredHeldOnce
\* a fatal capacity error (reachable through the line-70 test) ends the program
CHECK_DEADLOCK FALSE
