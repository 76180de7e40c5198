-------------------------------- MODULE Runtime --------------------------------
(***************************************************************************)
(* containment/runtime.py: Runtime.execute(), which composes the layers.   *)
(* It adds to the supervisor's run what the hook reaches through its       *)
(* RunContext, the broker (broker.py), the spawn authorizer (identity.py)  *)
(* and the environment monitor (envstate.py), and what follows the run:    *)
(* Gate 1, the evidence, the kill switch, the verdict and the drift.       *)
(*                                                                         *)
(* A RuntimeConfig is the constants below.  Gate 1 enters as the           *)
(* definitions Gate1.tla shows its scan to compute, without I1 to I3: no   *)
(* later stage reads those codes.                                          *)
(***************************************************************************)
EXTENDS Supervisor, Policy, RateTrigger

CONSTANTS
    CapabilityPolicy,          \* the broker's policy
    Requests,                  \* what the hook asks the broker for
    DenialConfig, MutationConfig,
    Gaps,                      \* clock units that may pass before a request
    MaxObservations,           \* bound: file changes observed in a run
    Reported, Digests, PathPolicy, Captured, SortedPaths,    \* the monitor's
    Approved, Binaries,        \* the authorizer's; digests the hook asks for
    MaxSpawnCalls,             \* bound: tokens issued and spawns asked for
    MaxHookCalls               \* bound: all of these and the claims together

ASSUME RuntimeAssumption ==
    /\ \A r \in Requests : r.capability \in Capability
    /\ Gaps \subseteq Nat
    /\ DenialConfig.window \in Nat /\ MutationConfig.window \in Nat
    /\ Reported \subseteq Seq(STRING)
    /\ MaxObservations \in Nat /\ MaxSpawnCalls \in Nat /\ MaxHookCalls \in Nat
    /\ Approved \subseteq Binaries
    /\ Captured \in Seq(Seq(STRING) \X Digests) /\ SortedPaths \in Seq(Seq(STRING))

VARIABLES
    clock, tracker, history,   \* the broker: clock, tracker, decisions
    current, observations,     \* the monitor
    issued, live_actors, denials,        \* the authorizer
    trigger, counter, tripped, kill_verdict,     \* the kill switch
    verdict, drift             \* of the report; "" while there is none

brokerVars == <<clock, tracker, history>>
monitorVars == <<current, observations>>
authVars == <<issued, live_actors, denials>>
killVars == <<trigger, counter, tripped, kill_verdict>>
reportVars == <<verdict, drift>>
vars == <<supVars, brokerVars, monitorVars, authVars, killVars, reportVars>>

M == INSTANCE EnvMonitor
K == INSTANCE KillSwitch
A == INSTANCE SpawnAuthorizer WITH approved <- Approved, sealed <- TRUE
D == INSTANCE Drift

Init ==
    /\ SupInit
    /\ clock = 0 /\ tracker = NewTracker /\ history = <<>>
    /\ M!MonitorInit
    /\ K!KillInit
    /\ issued = <<>> /\ denials = <<>>
    /\ live_actors = {HOST_ACTOR_ID, VM_ACTOR_ID}    \* register_root, twice
    /\ verdict = "" /\ drift = {}

HookMayCall ==
    claims + Len(history) + Len(observations) + Len(issued) + Len(denials) < MaxHookCalls

-------------------------------------------------------------------------------
\* Broker.request, the whole of it: decide, count, record, remember.
request_SilentAllow(req, now) ==
    LET decision == evaluate(CapabilityPolicy, req) IN
    /\ clock' = now
    /\ tracker' = record(DenialConfig, tracker, decision # "ALLOW", now)
    /\ IF is_granted(decision) THEN UNCHANGED supVars
       ELSE emit_host_event(req.capability, FALSE)
    /\ history' = Append(history,
          [request |-> req, decision |-> decision, at |-> now,
           signal |-> [instantaneous |-> instantaneous(DenialConfig, tracker'),
                       cumulative |-> cumulative(DenialConfig, tracker')]])
request(req, now) ==
    LET decision == evaluate(CapabilityPolicy, req) IN
    /\ clock' = now
    /\ tracker' = record(DenialConfig, tracker, decision # "ALLOW", now)
    /\ emit_host_event(req.capability, is_granted(decision))
    /\ history' = Append(history,
          [request |-> req, decision |-> decision, at |-> now,
           signal |-> [instantaneous |-> instantaneous(DenialConfig, tracker'),
                       cumulative |-> cumulative(DenialConfig, tracker')]])

BrokerRequest ==
    /\ Len(history) < MaxDecisions /\ HookMayCall
    /\ \E req \in Requests, gap \in Gaps : request(req, clock + gap)
    /\ UNCHANGED <<monitorVars, authVars, killVars, reportVars>>

\* The hook hands the monitor a change of a file, with the paths the broker
\* has granted by then.
GrantedWrites ==
    {history[k].request.resource :
        k \in {j \in DOMAIN history : /\ history[j].request.capability = "FILE_WRITE"
                                      /\ is_granted(history[j].decision)}}

FileChange ==
    /\ pc = "hook" /\ Len(observations) < MaxObservations /\ HookMayCall
    /\ \E path \in Reported, after \in Digests \cup {M!Absent} :
          /\ M!At(current, M!normalise(path)) # after
          /\ M!observe(path, after, clock, GrantedWrites)
    /\ UNCHANGED <<supVars, brokerVars, authVars, killVars, reportVars>>

\* The hook uses the authorizer for the VM's processes.
SpawnCall ==
    /\ pc = "hook" /\ Len(issued) + Len(denials) < MaxSpawnCalls /\ HookMayCall
    /\ \/ \E binary \in Binaries : A!issue(VM_ACTOR_ID, binary)
       \/ \E binary \in Binaries, token \in {A!NoToken} \cup DOMAIN issued :
             A!authorize(VM_ACTOR_ID, GUEST_ACTOR_BASE, binary, token)
    /\ UNCHANGED <<supVars, brokerVars, monitorVars, killVars, reportVars>>

Lifecycle == RunStep /\ UNCHANGED <<brokerVars, monitorVars, authVars, killVars, reportVars>>

Claim ==
    /\ HookMayCall
    /\ record_guest_claim
    /\ UNCHANGED <<brokerVars, monitorVars, authVars, killVars, reportVars>>

-------------------------------------------------------------------------------
\* Evidence.from_run over the sealed record.
GrantRecorded_AnyActor ==
    \E k \in DOMAIN Recorded : Recorded[k].cap = "PRIVILEGE_RAISE" /\ Recorded[k].granted
GrantRecorded ==
    \/ \E k \in DOMAIN Recorded :
          /\ is_host_observed(Recorded[k].actor)
          /\ Recorded[k].type = "CAPABILITY_REQUEST"
          /\ Recorded[k].cap = "PRIVILEGE_RAISE" /\ Recorded[k].granted
    \/ \E k \in DOMAIN history :
          /\ history[k].request.capability = "PRIVILEGE_RAISE"
          /\ is_granted(history[k].decision)

\* None, as the empty set, when nothing was ever requested.
_last_signal == IF history = <<>> THEN {} ELSE {history[Len(history)].signal}

from_run_NoDormant ==
    [containment_failed |-> M!containment_failed,
     fatal_gate1_codes |-> {v.code : v \in LineageViolations(Recorded)},
     dormant_actors |-> 0,
     privilege_escalation_granted |-> GrantRecorded,
     denial_signal |-> _last_signal,
     unexplained_mutations |-> Cardinality(M!by_verdict("UNEXPLAINED"))]
from_run ==
    [containment_failed |-> M!containment_failed,
     fatal_gate1_codes |->
        {v.code : v \in LineageViolations(Recorded)} \cap K!FATAL_GATE1_CODES,
     dormant_actors |-> Cardinality(DormantViolations(Recorded)),
     privilege_escalation_granted |-> GrantRecorded,
     denial_signal |-> _last_signal,
     unexplained_mutations |-> Cardinality(M!by_verdict("UNEXPLAINED"))]

\* A run that returned is judged, and the report carries the verdict and, for
\* a human reader, the drift.
Judge ==
    /\ pc = "report" /\ pc' = "done"
    /\ K!evaluate(from_run)
    /\ verdict' = IF K!ReasonsFor(from_run) # {} THEN "killed" ELSE "allowed"
    /\ drift' = D!evaluate_ledger(Recorded)
    /\ UNCHANGED <<ledgerVars, countVars, localVars, backendVars, brokerVars, monitorVars,
                   authVars>>

\* A run that raised is not judged: execute()'s two handlers.
Fail ==
    /\ pc = "reraise" /\ pc' = "done"
    /\ verdict' = IF exc = "policy" THEN "failed" ELSE "killed"
    /\ UNCHANGED drift
    /\ UNCHANGED <<ledgerVars, countVars, localVars, backendVars, brokerVars, monitorVars,
                   authVars, killVars>>

Next == Lifecycle \/ Claim \/ BrokerRequest \/ FileChange \/ SpawnCall \/ Judge \/ Fail

Spec == Init /\ [][Next]_vars

-------------------------------------------------------------------------------
\* The two records of the broker agree: the capability events of the host in
\* the ledger are the decisions of the history, one for one and in order, and
\* a timeout adds its own at the end (Broker.request through emit_host_event,
\* against Supervisor.run).
HostCapabilities ==
    {i \in DOMAIN Recorded :
        Recorded[i].type = "CAPABILITY_REQUEST" /\ is_host_observed(Recorded[i].actor)}
Position(i) == Cardinality({j \in HostCapabilities : j <= i})
BrokerHistoryRecorded ==
    /\ Cardinality(HostCapabilities) - Len(history) \in {0, 1}
    /\ Cardinality(HostCapabilities) > Len(history) => result.timed_out
    /\ \A i \in HostCapabilities : Position(i) \in DOMAIN history =>
          /\ Recorded[i].cap = history[Position(i)].request.capability
          /\ Recorded[i].granted = is_granted(history[Position(i)].decision)

Files == {SortedPaths[k] : k \in DOMAIN SortedPaths}
ReadOnly(p) == \/ M!_under(p, PathPolicy.immutable_prefixes)
               \/ ~M!_under(p, PathPolicy.mutable_prefixes \cup PathPolicy.ephemeral_prefixes)
ChangesOf(p) == {k \in DOMAIN observations : observations[k].path = p}

\* What "allowed" rests on, in terms of what happened and not of any layer's
\* signal: the run returned, the VM and its overlay are gone, every actor of
\* the record has a complete life, no file outside the writable regions was
\* ever touched, not even to be put back, few files changed unexplained, and
\* the last decisions are not all refusals.
AllowedMeansContained ==
    verdict = "allowed" =>
        /\ exc = None /\ vm = "stopped" /\ ~overlay /\ pending = <<>>
        /\ \A k \in DOMAIN Recorded :
              LineageCode(Recorded, k) = "NONE" /\ ~IsDormantSpawn(Recorded, k)
        /\ \A p \in Files : ReadOnly(p) =>
              ChangesOf(p) = {} /\ M!At(current, p) = M!At(M!Baseline, p)
        /\ Cardinality(M!by_verdict("UNEXPLAINED")) < MutationConfig.burst
        /\ Len(history) >= 3 =>
              \E k \in (Len(history) - 2)..Len(history) : is_granted(history[k].decision)

\* No layer kills on its own account: a run that returned, whose guest claims
\* are in order, with fewer refusals than any trigger needs, a timeout counted
\* among them, and only explained file changes, is allowed, whatever the guest
\* says it was granted (Supervisor.run and Evidence.from_run against
\* KillSwitch.evaluate).
Refusals ==
    Cardinality({k \in DOMAIN history : ~is_granted(history[k].decision)})
    + IF result.timed_out THEN 1 ELSE 0
GuestInOrder ==
    \A k \in DOMAIN Recorded : ~is_host_observed(Recorded[k].actor) =>
        LineageCode(Recorded, k) = "NONE" /\ ~IsDormantSpawn(Recorded, k)
QuietRunAllowed ==
    /\ pc = "done" /\ exc = None
    /\ GuestInOrder
    /\ Refusals < 3
    /\ \A k \in DOMAIN observations : observations[k].verdict = "EXPECTED"
    => verdict = "allowed"

\* The report accuses a guest exactly of what its claims and the broker's
\* decisions disagree on: of an outcome it claims and the broker never gave,
\* and of a capability it was asked for and keeps quiet about; a lie repeated
\* is not confirmed by itself.  The supervisor's timeout counts as one more
\* refusal (DriftMonitor.evaluate_ledger over the ledger of Runtime.execute,
\* against Broker.history).
Decided(c) ==
    {is_granted(history[k].decision) : k \in {j \in DOMAIN history : history[j].request.capability = c}}
    \cup {FALSE : t \in {x \in {c} : result.timed_out /\ x = "PROCESS_SPAWN"}}
Claimed(c) ==
    {Recorded[k].granted : k \in {j \in DOMAIN Recorded :
        /\ Recorded[j].cap = c /\ ~is_host_observed(Recorded[j].actor)}}
DriftIsExact ==
    pc = "done" /\ exc = None =>
        {f.capability : f \in drift} =
            {c \in Capability : IF Claimed(c) = {} THEN Decided(c) # {}
                               ELSE Claimed(c) \ Decided(c) # {}}

\* The monitor's incremental map is what replaying its observations over the
\* baseline gives: the last change of a path decides, a deletion included, and
\* a path without one is as captured.  And comparing the roots of the two
\* Merkle trees tells whether any file differs, in content, by being new or by
\* being gone (EnvironmentMonitor.observe, current_root and drifted).
MapIsReplay ==
    LET captured == M!Baseline IN
    /\ \A p \in Files :
          M!At(current, p) =
              IF ChangesOf(p) = {} THEN M!At(captured, p)
              ELSE observations[CHOOSE k \in ChangesOf(p) :
                                   \A j \in ChangesOf(p) : j <= k].after
    /\ M!drifted <=> \E p \in Files : M!At(current, p) # M!At(captured, p)

\* A drift L7 does not complain about is accounted for: a path that differs
\* from the baseline is in a writable region, however the collector spelt it,
\* and if it is not ephemeral the broker had granted it, under any spelling,
\* before every change of it; a grant that comes later excuses nothing
\* (EnvironmentMonitor.observe joined with Broker).
GrantedBy(p, time) ==
    \E k \in DOMAIN history :
        /\ history[k].request.capability = "FILE_WRITE"
        /\ M!normalise(history[k].request.resource) = p
        /\ is_granted(history[k].decision)
        /\ history[k].at <= time
SilentDriftAccounted ==
    LET captured == M!Baseline IN
    M!by_verdict("IMPOSSIBLE") \cup M!by_verdict("UNEXPLAINED") = {} =>
        \A p \in Files : M!At(current, p) # M!At(captured, p) =>
            /\ ~ReadOnly(p)
            /\ M!_under(p, PathPolicy.mutable_prefixes) =>
                 \A k \in ChangesOf(p) : GrantedBy(p, observations[k].timestamp)

-------------------------------------------------------------------------------
\* Claims of the documentation that the code does not keep; each has a run of
\* its own that shows how.

\* killswitch.py: "guest claims can neither cause nor prevent a kill".  A kill
\* for broken lineage or a dormant actor has a host event behind it.
HostOnly == SelectSeq(Recorded, LAMBDA e : is_host_observed(e.actor))
GuestClaimsNeverKill ==
    verdict = "killed" /\ exc = None =>
        \/ kill_verdict.reasons \ {"UNATTRIBUTED_ACTION", "DORMANT_PROCESS"} # {}
        \/ LineageViolations(HostOnly) \cup DormantViolations(HostOnly) # {}

\* runtime.py: FAILED is "an unsafe spec ... refused before anything is
\* created", "nothing ran".
FailedMeansNothingRan == verdict = "failed" => vm = "absent" /\ Recorded = <<>>

\* supervisor.py: a timeout is recorded "so L9 can count it like any other
\* refusal".  Three refusals in a row kill, so three in a row at the end of what
\* the host recorded do, the timeout's own among them.
RefusedAtEnd(n) ==
    LET count == Cardinality(HostCapabilities) IN
    /\ count >= n
    /\ \A i \in HostCapabilities : Position(i) > count - n => ~Recorded[i].granted
TimeoutCountsAsRefusal ==
    pc = "done" /\ exc = None /\ RefusedAtEnd(3) => verdict = "killed"
===============================================================================
