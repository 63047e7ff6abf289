\* Spec 8.5 (recycling): two threads attach, both detach, one re-attaches.
CONSTANTS
    t1 = t1
    t2 = t2
    Threads <- MC_Threads
    Addrs = {2, 4}
    HazardPtrCount = 1
    MaxThreadCount = 2
    MaxRetiredPtrCount = 3
    ScanType = "inplace"
    MaxRecords = 2
SPECIFICATION RecSpec
PROPERTY RecyclesOwnRecord
