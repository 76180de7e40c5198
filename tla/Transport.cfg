\* two calls over every pair of streams of up to three frames; payloads of up
\* to two bytes pass, two events or four bytes fill a call
SPECIFICATION ReadSpec
CONSTANTS
    HOST_ACTOR_RANGE_START = 5
    VM_ACTOR_ID = 6
    HOST_ACTOR_ID = 7
    NO_PARENT = 9
    Streams <- MCStreams
    MaxFrames = 3
    max_events = 2
    max_total_bytes = 4
    MAX_FRAME_PAYLOAD = 2
    MaxNotes = 2
    MaxReads = 2
INVARIANTS
    ClaimsExact
    StatsAddUp
PROPERTY ReadReturns
CHECK_DEADLOCK FALSE
