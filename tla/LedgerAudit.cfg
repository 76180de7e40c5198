\* six events, each of the content of its number, in up to three blocks; trees
\* of one to six leaves; callers offer every sequence number, also wrong ones
SPECIFICATION Spec
CONSTANTS
    MAX_SEQUENCE = 9
    MAX_PAYLOAD_BYTES = 2
    Contents <- MCContents
    MaxEvents = 6
    MaxBlocks = 3
    Offered <- MCOffered
INVARIANTS
    GenuineVerifies
    AcceptedUpToHead
    CheckpointPinsHistory
    ProofsExact
    BytesAreExact
PROPERTY ImplementsAppendOnlyLog
CHECK_DEADLOCK FALSE
