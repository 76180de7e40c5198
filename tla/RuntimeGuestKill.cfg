\* the claim that guest claims never cause a kill
SPECIFICATION Spec
CONSTANTS
    GUEST_ACTOR_BASE = 1
    HOST_ACTOR_RANGE_START = 3
    VM_ACTOR_ID = 4
    HOST_ACTOR_ID = 5
    NO_PARENT = 6
    ClaimTypes = {"PROCESS_SPAWN", "TOOL_CALL"}
    ClaimPayloads <- MCPayloads
    ExplicitActors = {1}
    MaxClaims = 1
    MaxDecisions = 0
    MaxObservations = 0
    Requests <- AllRequests
    Gaps = {1}
    DenialConfig <- MCDenials
    MutationConfig <- MCMutations
    CapabilityPolicy <- MCPolicy
    Reported <- MCReported
    Digests = {"d0", "d1"}
    PathPolicy <- MCPathPolicy
    Captured <- MCCaptured
    SortedPaths <- MCSortedPaths
    Approved = {"python"}
    Binaries = {"python", "dropped"}
    MaxSpawnCalls = 0
    MaxHookCalls = 1
INVARIANT GuestClaimsNeverKill
CHECK_DEADLOCK FALSE
