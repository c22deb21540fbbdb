SPECIFICATION FairSpec
CONSTANTS
    MAX_PROCESSES = 2
    NUM_PARTITIONS = 2
    QUANTUM_TICKS = 2
    MaxSleep = 2
    prog1 = prog1
    prog2 = prog2
    prog3 = prog3
    big = big
    missing = missing
    empty = empty
    Programs = {prog1}
    Size <- MCSize
    Unreadable = {}
    DISK_TRACKS = 3
    TRACK_WORDS = 3
    PARTITION_SIZE = 2
    Effects = {"PLAIN", "SVC", "FAULT"}
    IdleEffects = {"PLAIN", "RETRN"}
    Calls = {"EXIT", "SLEEP"}
    Commands = {}
    MaxIrqs = 1
PROPERTIES
    EverySleeperWakes
