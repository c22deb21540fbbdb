SPECIFICATION Spec
CONSTANTS
    Programs <- MCPrograms
    Image <- MCImage
    MAX_WORDS_BUFFER = 4
    MAX_FILE_TABLE = 3
    DISK_TRACKS = 3
    DISK_CYLINDERS = 2
    DISK_SECTORS = 2
    WORD_DIGITS = 2
    MaxTrack = 3
    Scribbles = {8}
    Targets <- MCTargets
INVARIANTS
    FilesIntact
    LoadedAsWritten
