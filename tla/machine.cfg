SPECIFICATION Spec
CONSTANTS
    MAX_PROCESSES = 3
    NUM_PARTITIONS = 2
    QUANTUM_TICKS = 2
    MaxSleep = 1
    prog1 = prog1
    prog2 = prog2
    prog3 = prog3
    big = big
    missing = missing
    empty = empty
    Programs = {prog1}
    Size <- MCSize
    Unreadable = {}
    DISK_TRACKS = 2
    TRACK_WORDS = 3
    PARTITION_SIZE = 2
    Effects = {"PLAIN", "SVC", "FAULT", "FETCH", "PRIVILEGED", "STOP", "HAB", "DHAB", "SDMAON"}
    IdleEffects = {"PLAIN", "SVC", "FAULT", "FETCH", "PRIVILEGED", "HAB", "DHAB", "STOP", "SDMAON", "RETRN", "CHMOD"}
    Calls = {"EXIT", "SLEEP"}
    Commands = {"reiniciar"}
    MaxIrqs = 2
INVARIANTS
    TypeOK
    UserModeOwnsCpu
    WorkConserving
    OneRunning
    SecondDequeueUnreached
