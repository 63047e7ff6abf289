CONSTANTS
    Addrs = {2, 4, 6, 8}
    MaxRetired = 4
    MaxGuards = 3
SPECIFICATION Spec
INVARIANT InplaceScanCorrect
