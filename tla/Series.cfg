\* the authorizer: one root and two more actors, at most two approved binaries
\* and a stranger, two tokens, four attempts
\* the kill switch: five decisions, at gaps that keep, reach and leave the
\* window, and evaluations in between with up to four unexplained mutations
SPECIFICATION SeriesSpec
CONSTANTS
    Roots = {1}
    Actors = {1, 2, 3}
    Approvable = {"python", "bash"}
    Binaries = {"python", "bash", "dropped"}
    MaxTokens = 2
    MaxAttempts = 4
    DenialConfig <- MCDenials
    MutationConfig <- MCMutations
    Gaps = {1, 2}
    Evidences <- MCEvidences
    MaxDecisions = 5
    MaxMutations = 4
INVARIANTS
    SpawnsEarned
    LineageReachesRoot
    UnusedTokenRedeemable
    BurstCountExact
    PatientProbeTrips
    ThirdMutationKills
CHECK_DEADLOCK FALSE
