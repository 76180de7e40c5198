----------------------------- MODULE FirecrackerRun -----------------------------
(***************************************************************************)
(* Supervisor.run() on a FirecrackerBackend: several runs, one after the   *)
(* other, on one backend.  The statements that only write the ledger are   *)
(* the ones of Supervisor.tla; each call into the backend is replaced by   *)
(* what FirecrackerBackend does, and the whole is shown to implement       *)
(* Supervisor.tla, whose backend keeps the contract of VmBackend, for as   *)
(* long as the kernel carries out what it is asked (`failed`).             *)
(***************************************************************************)
EXTENDS Firecracker, FiniteSets

CONSTANTS
    Specs,                     \* the VmSpecs callers hand in
    ConfigDirs,                \* the config_dir they pass, or None
    MaxRuns,                   \* bound: runs on the backend
    HOST_ACTOR_RANGE_START, VM_ACTOR_ID, HOST_ACTOR_ID, NO_PARENT, GUEST_ACTOR_BASE

None == "none"

ASSUME FirecrackerRunAssumption ==
    /\ \A s \in Specs : {s.rootfs, s.overlay} \subseteq DiskSpecs(Paths) /\ s.kernel_image \in Paths
    /\ ConfigDirs \subseteq Directories \cup {None}
    /\ MaxRuns \in Nat

VARIABLES
    pc, blocks, pending, next_sequence, seq, host_events, guest_events,
    next_guest_actor, claims, vm_spawned, result, exc, destroys,   \* as in Supervisor
    spec, config_dir,          \* the arguments of the run
    kernel_digest, rootfs_digest,
    proc,                      \* the process of this run, 0 before it is booted
    killing,                   \* inside wait(timeout=10), after a kill
    runs,                      \* runs begun
    failed,                    \* history: a kill took more than 10 s, or unlink failed
    before                     \* history: the files when the run began

ledgerVars == <<blocks, pending, next_sequence>>
countVars == <<seq, host_events, guest_events, next_guest_actor, claims>>
localVars == <<vm_spawned, result, exc, destroys>>
argVars == <<spec, config_dir, runs, before>>
digestVars == <<kernel_digest, rootfs_digest>>
supVars == <<ledgerVars, countVars, localVars>>
vars == <<pc, supVars, argVars, digestVars, proc, killing, failed, fcVars>>

\* The VM as the supervisor sees it: it has one until its process is reaped.
VmSeen ==
    IF proc = 0 THEN "absent"
    ELSE IF processes[proc].state = "reaped" THEN "stopped" ELSE "running"

\* The overlay of this run: a file at its path that was not there before.
OverlaySeen == exists(spec.overlay.path) /\ files[spec.overlay.path] # before[spec.overlay.path]

S == INSTANCE Supervisor WITH
        vm <- VmSeen, overlay <- OverlaySeen,
        ClaimTypes <- {}, ClaimPayloads <- {}, ExplicitActors <- {},
        MaxClaims <- 0, MaxDecisions <- 0

Init ==
    /\ FirecrackerInit
    /\ pc = "validate"
    /\ blocks = <<>> /\ pending = <<>> /\ next_sequence = 0
    /\ seq = 0 /\ host_events = 0 /\ guest_events = 0 /\ claims = 0
    /\ next_guest_actor = GUEST_ACTOR_BASE
    /\ vm_spawned = FALSE /\ exc = None /\ destroys = 0
    /\ result = [state |-> "created", timed_out |-> FALSE]
    /\ kernel_digest = Zeros /\ rootfs_digest = Zeros
    /\ proc = 0 /\ killing = FALSE
    /\ spec \in Specs /\ config_dir \in ConfigDirs
    /\ runs = 1 /\ failed = FALSE /\ before = files

\* A new Supervisor on the same backend.
NextRun ==
    /\ S!Finished /\ runs < MaxRuns
    /\ pc' = "validate"
    /\ blocks' = <<>> /\ pending' = <<>> /\ next_sequence' = 0
    /\ seq' = 0 /\ host_events' = 0 /\ guest_events' = 0 /\ claims' = 0
    /\ next_guest_actor' = GUEST_ACTOR_BASE
    /\ vm_spawned' = FALSE /\ exc' = None /\ destroys' = 0
    /\ result' = [state |-> "created", timed_out |-> FALSE]
    /\ kernel_digest' = Zeros /\ rootfs_digest' = Zeros
    /\ proc' = 0 /\ killing' = FALSE
    /\ spec' \in Specs /\ config_dir' \in ConfigDirs
    /\ runs' = runs + 1 /\ before' = files
    /\ UNCHANGED <<failed, fcVars>>

-------------------------------------------------------------------------------
\* The statements that do not touch the backend.
OffBackend(step) ==
    /\ UNCHANGED <<argVars, digestVars, proc, killing, failed, fcVars>>
    /\ step

Validate == OffBackend(S!Validate) /\ (pc' = "run_begin" <=> validate(spec))

LedgerStep ==
    \/ OffBackend(S!BeginRun) \/ OffBackend(S!SpawnHost) \/ OffBackend(S!RecordImages)
    \/ OffBackend(S!SpawnVm) \/ OffBackend(S!ExitVm) \/ OffBackend(S!RecordTimeout)
    \/ OffBackend(S!ExitHost) \/ OffBackend(S!EndRun) \/ OffBackend(S!Seal)

\* The try block.
Measure ==
    /\ pc = "measure_image" /\ pc' = "record_images"
    /\ measure_image(spec.kernel_image, kernel_digest')
    /\ measure_image(spec.rootfs.path, rootfs_digest')
    /\ UNCHANGED <<supVars, argVars, proc, killing, failed, fcVars>>

PrepareOverlay ==
    /\ pc = "prepare_overlay" /\ pc' = "write_config"
    /\ prepare_overlay(spec.overlay.path)
    /\ UNCHANGED <<configs, processes, _procs>>
    /\ UNCHANGED <<supVars, argVars, digestVars, proc, killing, failed>>

\* Written only when the caller names a directory; read in any case.
cfg_path == <<IF config_dir = None THEN "/tmp" ELSE config_dir, spec.run_id>>

WriteConfig_Once ==
    /\ pc = "write_config" /\ pc' = "spawn_vm"
    /\ configs' = IF config_dir = None \/ configs[cfg_path] # NoConfig THEN configs
                  ELSE [configs EXCEPT ![cfg_path] = build_firecracker_config(spec)]
    /\ UNCHANGED <<files, inodes, processes, _procs>>
    /\ UNCHANGED <<supVars, argVars, digestVars, proc, killing, failed>>
WriteConfig ==
    /\ pc = "write_config" /\ pc' = "spawn_vm"
    /\ configs' = IF config_dir = None THEN configs
                  ELSE [configs EXCEPT ![cfg_path] = build_firecracker_config(spec)]
    /\ UNCHANGED <<files, inodes, processes, _procs>>
    /\ UNCHANGED <<supVars, argVars, digestVars, proc, killing, failed>>

Boot ==
    /\ pc = "boot" /\ pc' = "hook"
    /\ boot(spec.run_id, cfg_path)
    /\ proc' = Len(processes) + 1
    /\ UNCHANGED <<files, inodes, configs>>
    /\ UNCHANGED <<supVars, argVars, digestVars, killing, failed>>

Hook == OffBackend(S!HookEnds)

\* An exception in one of these calls; prepare_overlay and write_text may
\* have got half-way.
Raises ==
    /\ pc \in {"measure_image", "prepare_overlay", "write_config", "boot"}
    /\ pc = "write_config" => config_dir # None
    /\ \/ UNCHANGED fcVars
       \/ /\ pc = "prepare_overlay"
          /\ unlink(spec.overlay.path) \/ prepare_overlay(spec.overlay.path)
          /\ IF files'[spec.overlay.path] = 0 THEN UNCHANGED inodes ELSE TRUE
          /\ UNCHANGED <<configs, processes, _procs>>
       \/ /\ pc = "write_config"
          /\ configs' = [configs EXCEPT ![cfg_path] = NoConfig]
          /\ UNCHANGED <<files, inodes, processes, _procs>>
    /\ pc' = "destroy" /\ exc' = "error"
    /\ UNCHANGED <<ledgerVars, countVars, vm_spawned, result, destroys>>
    /\ UNCHANGED <<argVars, digestVars, proc, killing, failed>>

-------------------------------------------------------------------------------
\* FirecrackerBackend.wait.  That a VM ends, is killed at its deadline, or
\* outlives the ten seconds after a kill, is not the program's choice; the
\* last raises out of wait().
handle == _procs[spec.run_id]

VmResult_NoTimeout == [state |-> IF killing THEN "killed" ELSE "exited", timed_out |-> FALSE]
VmResult == [state |-> IF killing THEN "killed" ELSE "exited", timed_out |-> killing]

WaitReturns ==
    /\ pc = "wait" /\ ~Alive(handle)
    /\ reap(handle)
    /\ result' = VmResult
    /\ killing' = FALSE /\ pc' = "destroy"
    /\ UNCHANGED <<files, inodes, configs, _procs, ledgerVars, countVars, vm_spawned, exc>>
    /\ UNCHANGED <<destroys, argVars, digestVars, proc, failed>>

WaitExpires_Never == FALSE /\ UNCHANGED vars
WaitExpires ==
    /\ pc = "wait" /\ Alive(handle) /\ ~killing
    /\ kill(handle)
    /\ killing' = TRUE
    /\ UNCHANGED <<pc, files, inodes, configs, _procs>>
    /\ UNCHANGED <<supVars, argVars, digestVars, proc, failed>>

WaitRaises ==
    /\ pc = "wait" /\ Alive(handle) /\ killing
    /\ pc' = "destroy" /\ exc' = "error"
    /\ killing' = FALSE /\ failed' = TRUE
    /\ UNCHANGED <<fcVars, ledgerVars, countVars, vm_spawned, result, destroys>>
    /\ UNCHANGED <<argVars, digestVars, proc>>

\* FirecrackerBackend.destroy: it forgets the process first, and neither a
\* process that survives the kill nor an overlay that cannot be unlinked is
\* reported to anybody.
DestroyKills ==
    /\ pc = "destroy" /\ handle # 0 /\ Alive(handle)
    /\ kill(handle)
    /\ _procs' = [_procs EXCEPT ![spec.run_id] = 0]
    /\ killing' = TRUE
    /\ UNCHANGED <<pc, files, inodes, configs>>
    /\ UNCHANGED <<supVars, argVars, digestVars, proc, failed>>

DiscardOverlay_OfBooted ==
    IF proc = 0 THEN UNCHANGED <<files, failed>>
    ELSE unlink(spec.overlay.path) /\ failed' = (failed \/ Alive(proc))
DiscardOverlay ==
    \/ unlink(spec.overlay.path) /\ failed' = (failed \/ (proc # 0 /\ Alive(proc)))
    \/ exists(spec.overlay.path) /\ failed' = TRUE /\ UNCHANGED files

DestroyEnds ==
    /\ pc = "destroy" /\ pc' = "exit_vm"
    /\ handle # 0 => ~Alive(handle)
    /\ IF proc = 0 THEN UNCHANGED processes ELSE reap(proc)
    /\ _procs' = [_procs EXCEPT ![spec.run_id] = 0]
    /\ DiscardOverlay
    /\ destroys' = destroys + 1
    /\ killing' = FALSE
    /\ UNCHANGED <<inodes, configs, ledgerVars, countVars, vm_spawned, result, exc>>
    /\ UNCHANGED <<argVars, digestVars, proc>>

-------------------------------------------------------------------------------
Vm(p) == VmStep(p) /\ UNCHANGED <<pc, supVars, argVars, digestVars, proc, killing, failed>>

RunStep ==
    \/ Validate \/ LedgerStep \/ Measure \/ PrepareOverlay \/ WriteConfig \/ Boot \/ Hook
    \/ Raises \/ WaitReturns \/ WaitExpires \/ WaitRaises \/ DestroyKills \/ DestroyEnds

Next == RunStep \/ NextRun \/ \E p \in DOMAIN processes : Vm(p)

\* The program goes on, its waits have deadlines, and a kill arrives in the
\* end.  A VM is never obliged to end by itself.
Spec ==
    /\ Init /\ [][Next]_vars
    /\ WF_vars(RunStep)
    /\ \A p \in 1..MaxRuns : WF_vars(p \in DOMAIN processes /\ KernelKills(p) /\ UNCHANGED
            <<pc, supVars, argVars, digestVars, proc, killing, failed>>)

-------------------------------------------------------------------------------
\* As long as kills and unlink succeed, a run on Firecracker is a run of
\* Supervisor.tla, whose backend keeps the contract of VmBackend: every
\* exception, timeout and VM that ends early goes its way through run().
ImplementsSupervisor ==
    /\ S!SupInit
    /\ [][failed' \/ S!SupNext \/ (S!Finished /\ (S!SupInit)')]_(S!supVars)

\* The images a VM runs are the ones whose digests its ledger holds, however
\* many runs came before with the same run id, as long as the caller names a
\* directory for the config (measure_image: "the run is bound to an exact
\* image").
BootedIsMeasured ==
    config_dir # None /\ proc # 0 /\ Alive(proc) =>
        /\ processes[proc].kernel = kernel_digest
        /\ processes[proc].rootfs = rootfs_digest

\* A VM finds nothing on its overlay that it has not written itself, even if
\* the overlay of an earlier run at the same path was never removed or its VM
\* is still running (prepare_overlay: "reuse would carry state across runs").
NoStateCarried ==
    config_dir # None /\ proc # 0 /\ Alive(proc) =>
        inodes[processes[proc].overlay] \in {Zeros, WrittenBy(proc)}

\* A run that ended, however it ended, has left the host's files as they were
\* but for the one at its overlay path, and no guest's data anywhere
\* (describe_guarantees: "nothing persists").
NothingPersists ==
    S!Finished /\ ~failed =>
        /\ files = IF destroys = 0 THEN before ELSE [before EXCEPT ![spec.overlay.path] = 0]
        /\ \A path \in Paths : \A p \in DOMAIN processes : data(path) # WrittenBy(p)

\* What describe_guarantees promises of a run holds of every VM alive, also of
\* one that was booted from a config left over by an earlier run: configs are
\* written only after validate().
GuaranteesHold ==
    \A p \in DOMAIN processes : Alive(p) =>
        LET config == processes[p].config IN
        /\ config.drives["rootfs"].is_read_only
        /\ config.drives["rootfs"].path_on_host # config.drives["overlay"].path_on_host
        /\ config.vcpu_count <= MAX_VCPUS /\ config.mem_size_mib <= MAX_MEM_MIB
        /\ config.boot_args \cap BannedArgs = {}

\* No VM is out of reach: one that runs and has not been killed is the VM of
\* the current run, in its try block, where destroy() will find it under its
\* run id.
AliveIsOwned ==
    \A p \in DOMAIN processes : Alive(p) /\ ~processes[p].signalled =>
        p = proc /\ handle = p /\ pc \in {"hook", "wait", "destroy"}

\* Every VM comes to an end, also one that stands still on a full pipe.
EveryVmDies ==
    \A p \in 1..MaxRuns :
        (p \in DOMAIN processes /\ Alive(p)) ~> ~(p \in DOMAIN processes /\ Alive(p))

-------------------------------------------------------------------------------
\* supervisor.py: "a VM that is never torn down shows up as an
\* UNTERMINATED_ACTOR rather than as nothing".  A claim of the documentation
\* that the code does not keep: destroy() reports no failure, so run() records
\* the exit of a VM that may still be running.
SurvivorIsUnterminated ==
    S!Finished /\ proc # 0 /\ Alive(proc) =>
        \E k \in DOMAIN S!Recorded :
            S!Recorded[k].actor = VM_ACTOR_ID /\ S!IsDormantSpawn(S!Recorded, k)
===============================================================================
