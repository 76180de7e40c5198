------------------------------ MODULE Supervisor ------------------------------
(***************************************************************************)
(* containment/supervisor.py: one call of Supervisor.run() and everything  *)
(* that can happen while it is on the stack.  The call is sequential; what *)
(* interleaves with it is the caller's hook, which runs inside wait() and  *)
(* records guest claims and broker decisions in any order, and the backend *)
(* and the hook failing at any of their calls.                             *)
(*                                                                         *)
(* pc names the next statement of run().  The ledger is the one of         *)
(* Ledger.tla; timestamps are left out (Gate1.tla has them), and a payload *)
(* is reduced to the two bytes a later stage reads, the capability and     *)
(* whether it was granted.                                                 *)
(***************************************************************************)
EXTENDS Lineage, FiniteSets

CONSTANTS
    GUEST_ACTOR_BASE,          \* first automatic guest actor id
    ClaimTypes,                \* event types the guest reports
    ExplicitActors,            \* actor ids a caller passes explicitly
    ClaimPayloads,             \* what a guest writes into a capability request
    MaxClaims,                 \* bound: calls of record_guest_claim in a run
    MaxDecisions               \* bound: broker decisions recorded in a run

None == "none"
Capability == {"NET_EGRESS", "PACKAGE_INSTALL", "FILE_WRITE", "PROCESS_SPAWN",
               "RAW_SYSCALL", "PRIVILEGE_RAISE"}
Payload == [cap : Capability \cup {None}, granted : BOOLEAN]
NoPayload == [cap |-> None, granted |-> FALSE]

ASSUME SupervisorAssumption ==
    /\ GUEST_ACTOR_BASE \in Nat
    /\ ClaimTypes \subseteq EventType
    /\ ExplicitActors \subseteq Nat \ {NO_PARENT}
    /\ ClaimPayloads \subseteq Payload
    /\ MaxClaims \in Nat
    /\ MaxDecisions \in Nat

VARIABLES
    pc,                        \* the next statement of run()
    blocks, pending, next_sequence,             \* self._ledger
    seq,                       \* self._seq
    host_events, guest_events, \* self._host_events, self._guest_events
    next_guest_actor,          \* self._next_guest_actor
    claims,                    \* calls of record_guest_claim so far
    vm_spawned, result,        \* locals of run()
    exc,                       \* the exception in flight
    vm, overlay, destroys      \* the backend: process, overlay file, destroy() calls

ledgerVars == <<blocks, pending, next_sequence>>
countVars  == <<seq, host_events, guest_events, next_guest_actor, claims>>
localVars  == <<vm_spawned, result, exc>>
backendVars == <<vm, overlay, destroys>>
supVars == <<pc, ledgerVars, countVars, localVars, backendVars>>

L == INSTANCE Ledger

Event == [type : EventType, sequence : Nat, actor : Nat, parent : Nat,
          cap : Capability \cup {None}, granted : BOOLEAN]

\* The run's record: what is staged until it is sealed, then the block.
Recorded == IF blocks = <<>> THEN pending ELSE blocks[1].events

Record(type, actor, parent, cap, granted) ==
    /\ L!append([type |-> type, sequence |-> seq, actor |-> actor, parent |-> parent,
                 cap |-> cap, granted |-> granted])
    /\ seq' = seq + 1

_emit_host(type, actor, parent, cap, granted) ==
    /\ Record(type, actor, parent, cap, granted)
    /\ host_events' = host_events + 1
    /\ UNCHANGED <<guest_events, next_guest_actor, claims>>

EmitPlain(type, actor, parent) == _emit_host(type, actor, parent, None, FALSE)

SupInit ==
    /\ pc = "validate"
    /\ L!LedgerInit
    /\ seq = 0 /\ host_events = 0 /\ guest_events = 0 /\ claims = 0
    /\ next_guest_actor = GUEST_ACTOR_BASE
    /\ vm_spawned = FALSE
    /\ result = [state |-> "created", timed_out |-> FALSE]
    /\ exc = None
    /\ vm = "absent" /\ overlay = FALSE /\ destroys = 0

-------------------------------------------------------------------------------
\* Before the try block.  Whether the spec passes IsolationPolicy.validate is
\* the caller's doing; a refused one raises before anything exists.
Validate ==
    /\ pc = "validate"
    /\ \/ pc' = "run_begin" /\ UNCHANGED exc
       \/ pc' = "reraise" /\ exc' = "policy"
    /\ UNCHANGED <<ledgerVars, countVars, vm_spawned, result, backendVars>>

BeginRun ==
    /\ pc = "run_begin" /\ pc' = "spawn_host"
    /\ EmitPlain("RUN_BEGIN", HOST_ACTOR_ID, NO_PARENT)
    /\ UNCHANGED <<localVars, backendVars>>

SpawnHost ==
    /\ pc = "spawn_host" /\ pc' = "measure_image"
    /\ EmitPlain("PROCESS_SPAWN", HOST_ACTOR_ID, NO_PARENT)
    /\ UNCHANGED <<localVars, backendVars>>

\* The try block.
Measure ==
    /\ pc = "measure_image" /\ pc' = "record_images"
    /\ UNCHANGED <<ledgerVars, countVars, localVars, backendVars>>

RecordImages ==
    /\ pc = "record_images" /\ pc' = "prepare_overlay"
    /\ EmitPlain("FILE_MUTATION", HOST_ACTOR_ID, NO_PARENT)
    /\ UNCHANGED <<localVars, backendVars>>

PrepareOverlay ==
    /\ pc = "prepare_overlay" /\ pc' = "write_config"
    /\ overlay' = TRUE
    /\ UNCHANGED <<ledgerVars, countVars, localVars, vm, destroys>>

WriteConfig ==
    /\ pc = "write_config" /\ pc' = "spawn_vm"
    /\ UNCHANGED <<ledgerVars, countVars, localVars, backendVars>>

SpawnVm ==
    /\ pc = "spawn_vm" /\ pc' = "boot"
    /\ EmitPlain("PROCESS_SPAWN", VM_ACTOR_ID, HOST_ACTOR_ID)
    /\ vm_spawned' = TRUE
    /\ UNCHANGED <<result, exc, backendVars>>

Boot ==
    /\ pc = "boot" /\ pc' = "hook"
    /\ vm' = "running"
    /\ UNCHANGED <<ledgerVars, countVars, localVars, overlay, destroys>>

Wait_Destroyed ==
    /\ pc = "wait" /\ pc' = "destroy"
    /\ result' = [state |-> "destroyed", timed_out |-> FALSE]
    /\ vm' = "stopped"
    /\ UNCHANGED <<ledgerVars, countVars, vm_spawned, exc, overlay, destroys>>
Wait ==
    /\ pc = "wait" /\ pc' = "destroy"
    /\ \E timed_out \in BOOLEAN :
          result' = [state |-> IF timed_out THEN "killed" ELSE "exited",
                     timed_out |-> timed_out]
    /\ vm' = "stopped"
    /\ UNCHANGED <<ledgerVars, countVars, vm_spawned, exc, overlay, destroys>>

\* Any call into the backend, or writing the config file, may raise.  An
\* overlay that was being prepared may be left behind.
BackendFails_Escapes ==
    /\ pc \in {"measure_image", "prepare_overlay", "write_config", "boot", "wait"}
    /\ pc' = IF pc \in {"boot", "wait"} THEN "exit_vm" ELSE "destroy"
    /\ exc' = "error"
    /\ IF pc = "prepare_overlay" THEN overlay' \in BOOLEAN ELSE UNCHANGED overlay
    /\ UNCHANGED <<ledgerVars, countVars, vm_spawned, result, vm, destroys>>
BackendFails ==
    /\ pc \in {"measure_image", "prepare_overlay", "write_config", "boot", "wait"}
    /\ pc' = "destroy"
    /\ exc' = "error"
    /\ IF pc = "prepare_overlay" THEN overlay' \in BOOLEAN ELSE UNCHANGED overlay
    /\ UNCHANGED <<ledgerVars, countVars, vm_spawned, result, vm, destroys>>

-------------------------------------------------------------------------------
\* Inside wait(): the hook.  A guest may write anything into a capability
\* request, also what names no capability (None).
Payloads(type) == IF type = "CAPABILITY_REQUEST" THEN ClaimPayloads ELSE {NoPayload}

\* record_guest_claim with an automatic or an explicit actor id.
GuestClaim_NoBandCheck(type, automatic, actor) ==
    /\ \E p \in Payloads(type) : Record(type, actor, NO_PARENT, p.cap, p.granted)
    /\ next_guest_actor' = next_guest_actor + (IF automatic THEN 1 ELSE 0)
    /\ guest_events' = guest_events + 1
    /\ UNCHANGED <<host_events, pc, exc>>
GuestClaim(type, automatic, actor) ==
    /\ ~is_host_observed(actor)
    /\ \E p \in Payloads(type) : Record(type, actor, NO_PARENT, p.cap, p.granted)
    /\ next_guest_actor' = next_guest_actor + (IF automatic THEN 1 ELSE 0)
    /\ guest_events' = guest_events + 1
    /\ UNCHANGED <<host_events, pc, exc>>

\* The id is in the host band: PolicyViolation, which the hook handles or
\* lets through.  The automatic counter has moved by then.
GuestClaimRefused(automatic, actor) ==
    /\ is_host_observed(actor)
    /\ next_guest_actor' = next_guest_actor + (IF automatic THEN 1 ELSE 0)
    /\ \/ UNCHANGED <<pc, exc>>
       \/ pc' = "destroy" /\ exc' = "policy"
    /\ UNCHANGED <<ledgerVars, seq, host_events, guest_events>>

record_guest_claim ==
    /\ pc = "hook" /\ claims < MaxClaims
    /\ claims' = claims + 1
    /\ \E automatic \in BOOLEAN :
       \E actor \in (IF automatic THEN {next_guest_actor} ELSE ExplicitActors) :
          \/ \E type \in ClaimTypes : GuestClaim(type, automatic, actor)
          \/ GuestClaimRefused(automatic, actor)
    /\ UNCHANGED <<vm_spawned, result, backendVars>>

\* emit_host_event, with the one type its only user, the broker, emits.
emit_host_event(cap, granted) ==
    /\ pc = "hook"
    /\ _emit_host("CAPABILITY_REQUEST", HOST_ACTOR_ID, NO_PARENT, cap, granted)
    /\ UNCHANGED <<pc, localVars, backendVars>>

HookEnds ==
    /\ pc = "hook"
    /\ \/ pc' = "wait" /\ UNCHANGED exc
       \/ pc' = "destroy" /\ exc' = "error"
    /\ UNCHANGED <<ledgerVars, countVars, vm_spawned, result, backendVars>>

-------------------------------------------------------------------------------
\* The finally block.  destroy() does not raise, by contract.
Destroy ==
    /\ pc = "destroy" /\ pc' = "exit_vm"
    /\ vm' = IF vm = "running" THEN "stopped" ELSE vm
    /\ overlay' = FALSE
    /\ destroys' = destroys + 1
    /\ UNCHANGED <<ledgerVars, countVars, localVars>>

ExitVm_Always ==
    /\ pc = "exit_vm" /\ pc' = "record_timeout"
    /\ EmitPlain("PROCESS_EXIT", VM_ACTOR_ID, HOST_ACTOR_ID)
    /\ UNCHANGED <<localVars, backendVars>>
ExitVm ==
    /\ pc = "exit_vm" /\ pc' = "record_timeout"
    /\ IF vm_spawned THEN EmitPlain("PROCESS_EXIT", VM_ACTOR_ID, HOST_ACTOR_ID)
       ELSE UNCHANGED <<ledgerVars, countVars>>
    /\ UNCHANGED <<localVars, backendVars>>

RecordTimeout ==
    /\ pc = "record_timeout" /\ pc' = "exit_host"
    /\ IF result.timed_out
       THEN _emit_host("CAPABILITY_REQUEST", HOST_ACTOR_ID, NO_PARENT, "PROCESS_SPAWN", FALSE)
       ELSE UNCHANGED <<ledgerVars, countVars>>
    /\ UNCHANGED <<localVars, backendVars>>

ExitHost ==
    /\ pc = "exit_host" /\ pc' = "run_end"
    /\ EmitPlain("PROCESS_EXIT", HOST_ACTOR_ID, NO_PARENT)
    /\ UNCHANGED <<localVars, backendVars>>

EndRun ==
    /\ pc = "run_end" /\ pc' = "seal"
    /\ EmitPlain("RUN_END", HOST_ACTOR_ID, NO_PARENT)
    /\ UNCHANGED <<localVars, backendVars>>

Seal ==
    /\ pc = "seal"
    /\ pc' = IF exc = None THEN "report" ELSE "reraise"
    /\ L!seal_block
    /\ UNCHANGED <<countVars, localVars, backendVars>>

-------------------------------------------------------------------------------
\* The statements of run() and the end of the hook, which are bound to happen
\* because the backend's calls and the hook return; claims are not.
RunStep ==
    \/ Validate \/ BeginRun \/ SpawnHost \/ Measure \/ RecordImages \/ PrepareOverlay
    \/ WriteConfig \/ SpawnVm \/ Boot \/ Wait \/ BackendFails \/ HookEnds
    \/ Destroy \/ ExitVm \/ RecordTimeout \/ ExitHost \/ EndRun \/ Seal

Finished == pc \in {"report", "reraise"}

\* On its own, the supervisor has a broker whose decisions are arbitrary;
\* host_events is 4 when the hook starts.
BrokerDecides ==
    /\ host_events < 4 + MaxDecisions
    /\ \E cap \in Capability, granted \in BOOLEAN : emit_host_event(cap, granted)

SupNext == RunStep \/ record_guest_claim \/ BrokerDecides

SupSpec == SupInit /\ [][SupNext]_supVars /\ WF_supVars(RunStep)

-------------------------------------------------------------------------------
\* The variables hold what their names say.
SupTypeOK ==
    /\ pc \in {"validate", "run_begin", "spawn_host", "measure_image", "record_images",
               "prepare_overlay", "write_config", "spawn_vm", "boot", "hook", "wait",
               "destroy", "exit_vm", "record_timeout", "exit_host", "run_end", "seal",
               "report", "reraise"}
    /\ pending \in Seq(Event)
    /\ next_sequence \in Nat
    /\ seq \in Nat /\ host_events \in Nat /\ guest_events \in Nat
    /\ next_guest_actor \in Nat /\ claims \in Nat
    /\ vm_spawned \in BOOLEAN
    /\ result \in [state : {"created", "exited", "killed"}, timed_out : BOOLEAN]
    /\ exc \in {None, "policy", "error"}
    /\ vm \in {"absent", "running", "stopped"}
    /\ overlay \in BOOLEAN /\ destroys \in Nat

\* Whatever stage fails and whatever the guest claims, the host's own story is
\* structurally sound: Gate 1 finds nothing wrong with an event of the host
\* band, and neither the supervisor nor the VM is left live at the close
\* (run() with its finally block against gate1.verify).
HostEventsClean ==
    \A i \in DOMAIN Recorded :
        is_host_observed(Recorded[i].actor) => LineageCode(Recorded, i) = "NONE"

HostNeverDormant ==
    Finished => \A i \in DOMAIN Recorded :
        is_host_observed(Recorded[i].actor) => ~IsDormantSpawn(Recorded, i)

HostLineageClean == HostEventsClean /\ HostNeverDormant

\* No VM runs behind the ledger's back: while its process exists the ledger
\* already holds its images and an open spawn of it, and the exit of a VM is
\* recorded only once it has been destroyed (measure before boot, record
\* before boot, destroy before exit).
LedgerShowsVm ==
    /\ vm = "running" =>
          /\ LiveBefore(Recorded, Len(Recorded) + 1, VM_ACTOR_ID)
          /\ \E i, j \in DOMAIN Recorded :
                /\ i < j
                /\ Recorded[i].type = "FILE_MUTATION"
                /\ Recorded[i].actor = HOST_ACTOR_ID
                /\ IsSpawn(Recorded, j, VM_ACTOR_ID)
    /\ ExitedBefore(Recorded, Len(Recorded) + 1, VM_ACTOR_ID) => destroys > 0

\* Provenance survives: the events of the host band are exactly those the
\* supervisor counted as its own, the rest exactly the accepted claims, and
\* the supervisor's numbering never departs from the ledger's.
CountedAs(host) ==
    Cardinality({i \in DOMAIN Recorded : is_host_observed(Recorded[i].actor) = host})
ProvenanceKept ==
    /\ CountedAs(TRUE) = host_events
    /\ CountedAs(FALSE) = guest_events
    /\ seq = next_sequence
    /\ seq = Len(Recorded)

\* A run that began ends torn down, destroyed once, and with a sealed record
\* that closes with RUN_END; a refused spec has left no trace at all.
EndsTornDown ==
    Finished =>
        IF Recorded = <<>>
        THEN exc = "policy" /\ vm = "absent" /\ ~overlay /\ destroys = 0
        ELSE /\ vm # "running" /\ ~overlay /\ destroys = 1
             /\ pending = <<>>
             /\ Recorded[Len(Recorded)].type = "RUN_END"

\* What was recorded once stays recorded, at its place, through sealing and
\* through every failure path.
RecordOnlyGrows ==
    [][/\ Len(Recorded) <= Len(Recorded')
       /\ \A i \in DOMAIN Recorded : Recorded'[i] = Recorded[i]]_supVars

\* Once a VM runs it is eventually gone, with its overlay, and the run sealed.
BootedIsDestroyed ==
    vm = "running" ~> vm = "stopped" /\ ~overlay /\ Finished /\ blocks # <<>>
===============================================================================
