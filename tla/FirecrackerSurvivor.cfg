\* the claim that a VM nobody tore down is seen in the ledger
SPECIFICATION Spec
CONSTANTS
    RunIds = {"run-0001", "run-0002"}
    Paths = {"kernel", "rootfs", "newer", "overlay"}
    Images <- MCImages
    Specs <- MCSpecs
    ConfigDirs = {"none", "/tmp"}
    MaxRuns = 1
    GUEST_ACTOR_BASE = 1
    HOST_ACTOR_RANGE_START = 3
    VM_ACTOR_ID = 4
    HOST_ACTOR_ID = 5
    NO_PARENT = 6
INVARIANT SurvivorIsUnterminated
CHECK_DEADLOCK FALSE
