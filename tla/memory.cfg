SPECIFICATION Spec
CONSTANTS
    p1 = p1
    p2 = p2
    Pids = {p1, p2}
    Nobody = Nobody
    OS_RESERVED = 2
    NUM_PARTITIONS = 3
    PARTITION_SIZE = 2
    MEM_SIZE = 8
    Offsets <- MCOffsets
    Sizes = {0, 1, 2, 3, 5}
INVARIANTS
    StackInside
    
    SystemUntouched
