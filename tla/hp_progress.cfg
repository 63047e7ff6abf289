\* Every call under way returns when its thread keeps being scheduled (no symmetry: liveness).
CONSTANTS
    t1 = t1
    t2 = t2
    t3 = t3
    Threads <- MC_Threads
    Addrs = {2, 4}
    HazardPtrCount = 1
    MaxThreadCount = 2
    MaxRetiredPtrCount = 3
    ScanType = "inplace"
    MaxRecords = 3
SPECIFICATION FairSpec
PROPERTY OperationsComplete
