\* four calls of the hook in any mixture: claims under automatic and explicit
\* ids, decisions at a patient pace, file changes in every region, spawns
SPECIFICATION Spec
CONSTANTS
    GUEST_ACTOR_BASE = 1
    HOST_ACTOR_RANGE_START = 3
    VM_ACTOR_ID = 4
    HOST_ACTOR_ID = 5
    NO_PARENT = 6
    ClaimTypes = {"PROCESS_SPAWN", "PROCESS_EXIT", "CAPABILITY_REQUEST"}
    ClaimPayloads <- MCPayloads
    ExplicitActors = {1, 5}
    MaxClaims = 3
    MaxDecisions = 3
    MaxObservations = 3
    Requests <- AllRequests
    Gaps = {5}
    DenialConfig <- MCDenials
    MutationConfig <- MCMutations
    CapabilityPolicy <- MCPolicy
    Reported <- MCReported
    Digests = {"d0", "d1"}
    PathPolicy <- MCPathPolicy
    Captured <- MCCaptured
    SortedPaths <- MCSortedPaths
    Approved = {"python"}
    Binaries = {"python", "dropped"}
    MaxSpawnCalls = 2
    MaxHookCalls = 4
INVARIANTS
    BrokerHistoryRecorded
    AllowedMeansContained
    QuietRunAllowed
    MapIsReplay
    SilentDriftAccounted
    DriftIsExact
CHECK_DEADLOCK FALSE
