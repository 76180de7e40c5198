\* two reference runs of up to three requests: four intervals at most, steady
\* ones and spread ones; gaps of a candidate on both sides of every mean
SPECIFICATION Spec
CONSTANTS
    Capability = {"read", "write", "net"}
    ReferenceRuns <- MCReferenceRuns
    CandidateRuns <- MCCandidateRuns
    ZThreshold = 4
    MaxRuns = 2
INVARIANTS
    ReferenceRunsAreClean
    UnflaggedIsStitched
CHECK_DEADLOCK FALSE
