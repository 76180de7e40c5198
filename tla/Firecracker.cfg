\* two runs on one backend, any pair of specs, with and without a directory for
\* the config
SPECIFICATION Spec
CONSTANTS
    RunIds = {"run-0001", "run-0002"}
    Paths = {"kernel", "rootfs", "newer", "overlay"}
    Images <- MCImages
    Specs <- MCSpecs
    ConfigDirs = {"none", "/tmp"}
    MaxRuns = 2
    GUEST_ACTOR_BASE = 1
    HOST_ACTOR_RANGE_START = 3
    VM_ACTOR_ID = 4
    HOST_ACTOR_ID = 5
    NO_PARENT = 6
INVARIANTS
    BootedIsMeasured
    NoStateCarried
    NothingPersists
    GuaranteesHold
    AliveIsOwned
PROPERTIES
    ImplementsSupervisor
    EveryVmDies
CHECK_DEADLOCK FALSE
