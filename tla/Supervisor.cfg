\* three calls of record_guest_claim with automatic and explicit ids; the
\* third automatic id falls into the host band
SPECIFICATION SupSpec
CONSTANTS
    GUEST_ACTOR_BASE = 1
    HOST_ACTOR_RANGE_START = 3
    VM_ACTOR_ID = 4
    HOST_ACTOR_ID = 5
    NO_PARENT = 6
    ClaimTypes = {"PROCESS_SPAWN", "PROCESS_EXIT", "TOOL_CALL", "RUN_END"}
    ClaimPayloads = {}
    ExplicitActors = {1, 4, 5}
    MaxClaims = 3
    MaxDecisions = 1
INVARIANTS
    SupTypeOK
    HostLineageClean
    LedgerShowsVm
    ProvenanceKept
    EndsTornDown
PROPERTIES
    RecordOnlyGrows
    BootedIsDestroyed
CHECK_DEADLOCK FALSE
