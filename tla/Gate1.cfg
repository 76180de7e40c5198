\* verify() over every lineage history of two actors with four events inside
\* the markers, and over every log of three markers with arbitrary numbering
SPECIFICATION Spec
CONSTANTS
    HOST_ACTOR_RANGE_START = 5
    VM_ACTOR_ID = 6
    HOST_ACTOR_ID = 7
    NO_PARENT = 9
    MaxInterior = 4
    Logs <- MCLogs
INVARIANTS
    Gate1Exact
    OkIsWellFormed
    OmissionVisible
CHECK_DEADLOCK FALSE
