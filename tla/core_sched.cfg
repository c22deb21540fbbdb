SPECIFICATION FairSpec
CONSTANTS
    MAX_PROCESSES = 4
    NUM_PARTITIONS = 4
    QUANTUM_TICKS = 2
    MaxSleep = 3
    prog1 = prog1
    prog2 = prog2
    prog3 = prog3
    big = big
    missing = missing
    empty = empty
    Programs = {prog1}
    Size <- MCSize
    Unreadable = {}
    DISK_TRACKS = 3
    TRACK_WORDS = 3
    PARTITION_SIZE = 2
    Effects = {"PLAIN", "SVC", "FAULT", "PRIVILEGED"}
    IdleEffects = {"PLAIN", "RETRN", "HAB"}
    Calls = {"EXIT", "PRINT", "READ", "SLEEP", "UNKNOWN"}
    Commands = {}
    MaxIrqs = 1
INVARIANTS
    ReadyQueueExact
    AlarmSet
    SavedContexts
    TrapsHitTheirProcess
PROPERTIES
    WaitersUntouched
    NoOvertaking
    TurnsAreWhole
    TrapsNotOverwritten
    ReadyRuns
    SleepersWake
    KeepsPromise
