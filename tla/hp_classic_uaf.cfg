\* Classic scan: does it ever free a node that a guard still publishes?
CONSTANTS
    t1 = t1
    t2 = t2
    t3 = t3
    Threads <- MC_Threads
    Addrs = {2, 4, 6}
    HazardPtrCount = 1
    MaxThreadCount = 2
    MaxRetiredPtrCount = 3
    ScanType = "classic"
    MaxRecords = 3
SPECIFICATION Spec
SYMMETRY ThreadSymmetry
PROPERTY RefinesSafeReclamation
