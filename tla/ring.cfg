SPECIFICATION Spec
CONSTANTS
    MAX_PROCESSES = 3
INVARIANTS
    RingShape
PROPERTIES
    ImplementsFifo
