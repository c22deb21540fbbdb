SPECIFICATION Spec
CONSTANTS
    MAX_PROCESSES = 3
    NUM_PARTITIONS = 4
    QUANTUM_TICKS = 2
    MaxSleep = 1
    prog1 = prog1
    prog2 = prog2
    prog3 = prog3
    big = big
    missing = missing
    empty = empty
    Programs = {prog1, prog2, prog3, big, missing}
    Size <- MCSize
    Unreadable = {missing}
    DISK_TRACKS = 4
    TRACK_WORDS = 3
    PARTITION_SIZE = 2
    Effects = {"PLAIN", "SVC"}
    IdleEffects = {"PLAIN", "RETRN"}
    Calls = {"EXIT", "SLEEP"}
    Commands = {"apagar", "reiniciar"}
    MaxIrqs = 1
SYMMETRY Symmetry
INVARIANTS
    ReadyQueueExact
    PartitionsOwned
PROPERTIES
    KeepsPromise
