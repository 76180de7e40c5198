\* the claim that L9 counts a timeout like any other refusal: up to three
\* decisions, every refusal outside the window of the burst
SPECIFICATION Spec
CONSTANTS
    GUEST_ACTOR_BASE = 1
    HOST_ACTOR_RANGE_START = 3
    VM_ACTOR_ID = 4
    HOST_ACTOR_ID = 5
    NO_PARENT = 6
    ClaimTypes = {}
    ClaimPayloads <- MCPayloads
    ExplicitActors = {}
    MaxClaims = 0
    MaxDecisions = 3
    MaxObservations = 0
    Requests <- AllRequests
    Gaps = {5}
    DenialConfig <- MCDenials
    MutationConfig <- MCMutations
    CapabilityPolicy <- MCPolicy
    Reported <- MCReported
    Digests = {"d0", "d1"}
    PathPolicy <- MCPathPolicy
    Captured <- MCCaptured
    SortedPaths <- MCSortedPaths
    Approved = {"python"}
    Binaries = {"python", "dropped"}
    MaxSpawnCalls = 0
    MaxHookCalls = 3
INVARIANT TimeoutCountsAsRefusal
CHECK_DEADLOCK FALSE
