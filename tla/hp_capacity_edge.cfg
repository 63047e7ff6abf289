\* nMaxRetiredPtrCount = H * T exactly: calc_retired_size keeps it, and the buffer can stay full after a scan.
CONSTANTS
    t1 = t1
    t2 = t2
    t3 = t3
    Threads <- MC_Threads
    Addrs = {2, 4, 6}
    HazardPtrCount = 1
    MaxThreadCount = 2
    MaxRetiredPtrCount = 2
    ScanType = "inplace"
    MaxRecords = 3
SPECIFICATION Spec
SYMMETRY ThreadSymmetry
INVARIANT NoCapacityFault
