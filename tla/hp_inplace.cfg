\* In-place scan, capacity above H * T: the configuration the code is meant for.
CONSTANTS
    t1 = t1
    t2 = t2
    Threads <- MC_Threads
    Addrs = {2, 4, 6}
    HazardPtrCount = 1
    MaxThreadCount = 2
    MaxRetiredPtrCount = 3
    ScanType = "inplace"
    MaxRecords = 3
SPECIFICATION CompSpec
SYMMETRY ThreadSymmetry
INVARIANT TypeOK
INVARIANT DisposedAtMostOnce
INVARIANT RetiredHeldOnce
INVARIANT FreeHintSound
INVARIANT NoCapacityFault
PROPERTY RefinesSafeReclamation
PROPERTY ScanKeepsOnlyGuarded
