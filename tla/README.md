# AMES: models, checks and proofs

AMES runs an untrusted agent in a microVM, records what happens in an
append-only ledger, verifies the record and decides whether the run is
`allowed`, `killed` or `failed`. This directory holds TLA+ modules of that
system, the TLC configurations that check them on small instances, and TLAPS
proofs of what the components promise for every value of the constants. Paths below are relative to the repository root.

## 1. The system

| component | code | state | operations |
|---|---|---|---|
| events | `ames/events.py` | none | event types, capabilities, actor ids |
| canonical encoding | `ames/canonical.py` | none | encode, decode |
| commitments | `ames/commit.py` | none | `commit`, `merkle_root`, `merkle_proof`, `verify_proof` |
| ledger | `ames/ledger.py` | `_blocks`, `_pending`, `_next_sequence` | `append`, `seal_block`, `checkpoint`, `verify_chain` |
| Gate 1 (L8) | `ames/gate1.py` | none between calls; `live`, `exited` inside | `verify` |
| VM spec | `containment/vmspec.py` | none | `IsolationPolicy.validate`, `is_host_observed` |
| backends | `containment/backend.py` | `_procs`; on the host: VM processes, overlay and config files | `measure_image`, `prepare_overlay`, `boot`, `wait`, `destroy` |
| supervisor (L1) | `containment/supervisor.py` | ledger, `_seq`, two counts, next guest id | `run`, `record_guest_claim`, `emit_host_event` |
| policy (L2) | `containment/policy.py` | none | `evaluate` |
| broker (L2) | `containment/broker.py` | `DenialTracker`, `history` | `request`, `record` |
| authorizer (L3/L4) | `containment/identity.py` | allowlist, issued tokens, live actors, denials | `approve`, `seal`, `register_root`, `issue`, `authorize`, `note_exit` |
| fingerprint (L5) | `containment/fingerprint.py` | capabilities, transitions, intervals, `sealed` | `absorb`, `seal`, `evaluate` |
| drift (L6) | `containment/drift.py` | none | `evaluate_ledger` |
| environment (L7) | `containment/envstate.py` | file map, observations | `observe`, `containment_failed`, `drifted` |
| kill switch (L9) | `containment/killswitch.py` | mutation trigger, latch, last verdict | `Evidence.from_run`, `evaluate` |
| runtime | `containment/runtime.py` | one of each of the above per call | `execute` |
| transport | `containment/transport.py` | statistics | `read` |
| validation (L0) | `validation/` | none | scenarios that drive the layers |

**Interaction.** `Runtime.execute` builds a supervisor, broker, authorizer and
monitor and calls `Supervisor.run`. That calls the backend stage by stage; in
the middle of `wait()` the caller's hook runs, with access to the supervisor
(guest claims), the broker (decisions, which it emits into the supervisor's
ledger), the monitor and the authorizer. After `run` returns, Gate 1 verifies
the sealed record, `Evidence.from_run` collects host-side facts, the kill
switch judges them, and drift and fingerprint are computed for the report.

**What is hard here.** The program is single-threaded, so it has no data races;
what is hard is order and failure. Any stage of `run` may raise, and the
`finally` block has to leave a complete record. The hook mixes calls of five
components in any order while they share one sequence counter, one ledger and
one history. Evidence is collected from state that accumulates, forgets
(windows), or is overwritten (last signal). Two rate triggers keep state across
calls. Under the backend lies a host that does not obey at once: a killed
process lives on for a while, a file outlives its name, and what an earlier run
left at a path is still there. A reader of guest frames stops at six different
conditions. All 38 hazards are listed in `PROJECT.json` with the line where
each bites and the properties that cover it.

**What makes each component correct**, in one line each: the ledger is
append-only and dense, an altered copy is refused up to its head, and an
inclusion proof shows its own event only; bytes and events are one to one;
Gate 1 reports exactly the violations and accepts exactly the well-formed runs;
a run is torn down, sealed and lineage-clean whatever fails; a VM runs what was
measured, on an overlay nobody used before, and ends; broker history and ledger
tell the same story; a patient prober trips the EWMA and a burst the window; a
token buys one spawn of a live parent; the monitor's map is the replay of its
observations and a failure is not forgotten; the kill switch latches; a reader
returns exactly the frames before the one that stops it; drift names exactly
the capabilities on which the two accounts disagree.

## 2. Modules

| module | models | built on |
|---|---|---|
| `AmesEvents` | event types and actor bands | |
| `Canonical` | the encoding of events | |
| `Commit` | digests, the Merkle tree, inclusion proofs | |
| `Lineage` | rules I4 and I5 of Gate 1 as operators over a record | `AmesEvents` |
| `Gate1`, `MCGate1` | the scan of `verify`, loop by loop | `Lineage` |
| `AppendOnlyLog` | abstract: a numbered log that only grows | |
| `Ledger` | the operations of `ledger.py` | `Commit` |
| `LedgerAudit`, `MCLedgerAudit` | a writer, exported checkpoints, altered copies; refines `AppendOnlyLog` | `Ledger`, `Canonical` |
| `Supervisor` | one `run()` with its hook, its failures and the backend's contract | `Lineage`, `Ledger` |
| `VmSpec` | `validate` and `build_firecracker_config` | |
| `Firecracker` | `FirecrackerBackend` and the host under it | `VmSpec` |
| `FirecrackerRun`, `MCFirecracker` | `run()` on that backend, run after run; refines `Supervisor` | `Firecracker` |
| `Policy` | `CapabilityPolicy.evaluate` | |
| `RateTrigger` | `DenialTracker`, also L9's mutation trigger | |
| `KillSwitch` | one kill switch | `RateTrigger` |
| `KillSwitchSeries` | tracker and kill switch over many calls | `KillSwitch` |
| `EnvMonitor` | the environment monitor | `Commit` |
| `SpawnAuthorizer`, `SpawnSeries` | the authorizer, and a series of calls of it | |
| `MCSeries` | a series of calls of one of the two | `SpawnSeries`, `KillSwitchSeries` |
| `Drift` | extractors and `DriftMonitor.evaluate` | `AmesEvents` |
| `Runtime`, `MCRuntime` | `execute()`: the layers composed | `Supervisor`, `Policy`, `EnvMonitor`, `KillSwitch`, `SpawnAuthorizer`, `Drift` |
| `Transport`, `MCTransport` | `GuestEventReader.read` | `AmesEvents` |
| `Fingerprint`, `MCFingerprint` | the behaviour baseline | |
| `DataProofs` | lemmas: induction over numbers, what the tracker holds, that a Merkle root determines its leaves, what a fold of the library computes | `RateTrigger`, `Commit` |
| `Gate1Proofs`, `SupervisorProofs`, `FirecrackerProofs` | theorems about the module of the name | `Gate1`, `Supervisor`, `FirecrackerRun` |
| `SeriesProofs` | theorems about the authorizer, and about the trackers and the kill switch | `SpawnSeries`, `KillSwitchSeries`, `DataProofs` |
| `ObservationProofs` | theorems about the reader of guest frames and the behaviour baseline | `Transport`, `Fingerprint`, `DataProofs` |
| `LedgerProofs` | theorems about the ledger and copies of it | `LedgerAudit`, `DataProofs` |
| `RuntimeProofs` | theorems about `execute()` as a whole | `Runtime`, `SupervisorProofs`, `DataProofs` |

A component with state is a module of VARIABLES and operators named after the
methods; a module that "runs" it (`...Series`, `LedgerAudit`, `FirecrackerRun`,
`Runtime`) adds the callers. A name ending in `_Something` next to a definition
(for example `prepare_overlay_Truncates`) is a plausible bug of it; no
specification uses it. Each is substituted for the definition in turn to see
that a property notices.

### State and actions against the code

*Supervisor.* `pc` names the next statement of `run()`. The actions are in the
order of the code: `Validate` (line 135), `BeginRun`, `SpawnHost`, then the try
block `Measure` to `Wait`, then `Destroy`, `ExitVm`, `RecordTimeout`,
`ExitHost`, `EndRun`, `Seal`. `BackendFails` is the exception at any backend
call or at writing the config; it goes to `Destroy`, as the `finally` block
does. While `pc = "hook"` the hook may record guest claims (automatic or
explicit id, refused in the host band) and broker decisions, and may let a
refusal or an exception of its own escape. `seq` (supervisor) and
`next_sequence` (ledger) are both kept, because the code keeps both. The two
guest counters move as in the code: the automatic counter before the check.

*Firecracker.* The host is two things the backend works on. `files` maps a path
to an inode and `inodes` to data, so an unlinked overlay lives on under the VM
that has it open, and overwriting a file differs from making a new one.
`processes` holds every VM ever started: running, exited or reaped, signalled
or not, blocked on a full pipe or not; `_procs` is the backend's own table. A VM writes its
overlay, fills its console, halts, or does none of it; `KernelKills` is the
moment a kill arrives. Deadlines have no clock: `WaitExpires` and `WaitRaises`
may happen whenever the process is still alive. `FirecrackerRun` takes the
statements of `run()` that only write the ledger from `Supervisor` and replaces
each backend call by what the code does, one half-done case per exception
included. `NextRun` is a new supervisor on the same backend and the same host,
possibly with the same run id, overlay and config path.

*Ledger.* A digest is a term, the pair of its domain and what it was computed
from: collisions are assumed away, domains and the shape of the tree are not.
A tree over n leaves is computed level by level with the odd node promoted. The
model of what can happen to a copy (`LedgerAudit.Copies`) edits events with and
without recomputing the header's root and count, relabels heights and counts,
cuts, drops and swaps blocks, and reseals the last block. In `Canonical` bytes
are cells, one per header field and one per payload byte, so the widths of
fields are not modelled and their ranges are.

*Gate 1.* One action per loop iteration of each branch. `found` is the set of
`[code, at]`; messages are left out. `Runtime` uses the rules of `Lineage`,
which the run `Gate1` shows the scan to compute.

*Rate trigger.* The EWMA is an exact rational with denominator 20^n instead of
a float, and its threshold a number of twentieths. For up to six decisions none
of its values lies within rounding distance of a threshold used here.

*Environment.* A path is the sequence of its segments and `normalise` resolves
empty, `.` and `..` segments; prefixes are compared segment by segment, as
`_under` does by the slash it appends. The baseline is computed from what was
captured, and roots are Merkle roots over the sorted files.

*Spawn authorizer.* Before the list is sealed the image build approves
binaries; afterwards it does not change, and only then an authorizer exists.
`exits` and `spawns` are histories for the properties.

*Runtime.* The configuration is the constants; the variables are those of the
composed modules. `Judge` is everything after a run that returned, `Fail` the
two handlers of `execute`. Timestamps of the ledger are left out (Gate 1's own
module has them), and Gate 1's codes for numbering and time are not computed
because nothing after Gate 1 reads them.

*Drift and fingerprint.* One capability and outcome per event. The z-score test
is squared and multiplied out, so it is exact over integers; a z-score within
rounding distance of the threshold may fall on the other side of it in the
code's floats.

*Transport.* One step is one iteration of the loop of `read`. A frame is its
type, the length its header claims and how much of it is present; `offset`
counts frames instead of bytes.

## 3. Runs

| run | instance | states | shows |
|---|---|---|---|
| `Gate1` | 2 actors, 4 events between markers; all 3-event logs of markers, 3 numbers, 2 times | 581k | `Gate1Exact`, `OkIsWellFormed`, `OmissionVisible` |
| `LedgerAudit` | 6 events in up to 3 blocks, every offered number | 183k | `GenuineVerifies`, `AcceptedUpToHead`, `CheckpointPinsHistory`, `ProofsExact`, `BytesAreExact`, `ImplementsAppendOnlyLog` |
| `Supervisor` | 3 claims, 1 decision, host band starting at the third automatic id | 419k | `HostLineageClean`, `LedgerShowsVm`, `ProvenanceKept`, `EndsTornDown`, `RecordOnlyGrows`, `BootedIsDestroyed`, `SupTypeOK` |
| `Firecracker` | 2 runs on one backend, each with one of 23 specs, with or without a config directory | 203k | `BootedIsMeasured`, `NoStateCarried`, `NothingPersists`, `GuaranteesHold`, `AliveIsOwned`, `ImplementsSupervisor`, `EveryVmDies` |
| `Series` | authorizer: 3 actors, 3 binaries (up to 2 approved), 2 tokens, 4 attempts; kill switch: 5 decisions, window 2 with gaps 1 and 2, 4 mutations | 199k | `SpawnsEarned`, `LineageReachesRoot`, `UnusedTokenRedeemable`, `BurstCountExact`, `PatientProbeTrips`, `ThirdMutationKills` |
| `Transport` | 2 reads of streams of up to 3 frames, caps 2 events, 4 bytes, 2 bytes a frame | 256k | `ClaimsExact`, `StatsAddUp`, `ReadReturns` |
| `Fingerprint` | 2 reference runs of up to 3 requests, clock steps -1, 4, 6 | 15k | `ReferenceRunsAreClean`, `UnflaggedIsStitched` |
| `Runtime` | 4 hook calls in any mixture, 3 requests, one file of each region, two of them under detours | 2.72M | `BrokerHistoryRecorded`, `AllowedMeansContained`, `QuietRunAllowed`, `MapIsReplay`, `SilentDriftAccounted`, `DriftIsExact` |
| `RuntimeGuestKill`, `RuntimeRefusal`, `RuntimeTimeout`, `FirecrackerSurvivor` | one hook call; one; three decisions; one run | | a claim of a comment refuted, see 6 |

**Why the bounds are enough for the interesting cases.** Gate 1 decides per
actor and per parent link, so two actors with four events give every order of
spawn, exit, action, respawn and orphaning. A ledger of three blocks has a
first, a middle and a head block; six events in blocks of any size give trees
of one to six leaves, among them those with a node promoted on the first level
(three leaves), on the second (six) and twice (five).
The supervisor's third automatic id is the first of the host band, so the
refusal and the moved counter happen. On Firecracker two runs are what one run
can leave to the next: an overlay, a config, a VM that will not die; the specs
are three good ones that share run id, overlay or image with each other, one
whose overlay is the kernel, and one that breaks each rule of the validator by
itself. Five decisions at gaps 1 and 2 against a window of 2 leave denials
inside, at and outside the window; three denials reach the EWMA threshold of
0.35, four mutations exceed the budget of three. Transport's caps are reached
exactly and passed by one within three frames. In `Runtime` four calls allow
three decisions and a file change, or claims, decisions and spawns mixed; the
actor ids used for guests can collide with each other and (refused) with the
host.

In the run `Series` a behaviour calls the authorizer or the tracker and kill
switch, never both: they share no state, so mixing their calls would show
nothing more.

`CHECK_DEADLOCK FALSE` stands in every configuration because every modelled
procedure ends (a run, a scan, a series of bounded calls).

**Fairness.** `SupSpec` has weak fairness of `RunStep`, the statements of
`run()` and the end of the hook: it is sequential code, `wait()` has a timeout,
and the hook is assumed to return. Guest claims and decisions are not fair:
nothing obliges a guest to speak. `FirecrackerRun` has weak fairness of the
program's statements, whose waits all have deadlines, and of the arrival of a
kill; a VM is never obliged to halt, so `EveryVmDies` rests on the deadline and
on `destroy` alone. `Transport` has weak fairness of the loop body once a call
has begun, and none for starting a call. The other specifications state safety
only and have no fairness.

**Refinement.** `Supervisor` lets its backend do what `VmBackend` documents:
`destroy()` does not raise and leaves neither the process nor the overlay.
`ImplementsSupervisor` shows that `run()` on `FirecrackerBackend` behaves like
that for as long as `failed` is false, that is, until a kill takes more than
ten seconds or an unlink fails; the VM the supervisor sees is gone when its
process is reaped. From then on the contract is broken silently (section 6).
So what the runs and proofs say of `Supervisor` and `Runtime` holds on
Firecracker up to such a failure.

## 4. Proofs

A theorem here holds for every value of the constants that the `ASSUME`s of the
modules admit: any sets of ids, requests, specs, paths and events, and any
bounds on calls, runs and lengths. Each states a property that a run checks on
a small instance, except the inductive invariants themselves. The shape is
always the same: an invariant `Inv` is shown of `Init` and kept by every action
(one lemma or one step per action), and the property follows from it.

**Supervisor** (`SupervisorProofs`). `TypeCorrect`, `HostLineageIsClean`,
`ProvenanceIsKept`, `LedgerAlwaysShowsVm`, `RunsEndTornDown`,
`RecordAlwaysGrows`. `HostLineageClean` is not inductive: that the exit of the
VM is not an `EXIT_WITHOUT_SPAWN` depends on `vm_spawned` and on `pc`. `Inv`
adds where the record is (`RecordPlace`: staged until the last statement, then
in one block), which host actors are live at which statement (`HostState`,
`VmState`), and that only the supervisor and the VM appear in the host band
(`BandIsHosts`, which the check in `record_guest_claim` provides). `RunInv`
adds the counters, the backend's state (`Backend`) and what the record of a
refused, a running and a finished run looks like (`Story`). Actions that record
go through `RecordAppends` and `EmitKeeps`; appending an event keeps the verdict
of Gate 1 on every earlier one. The proofs do not use the bound on decisions:
their step is `RunNext`, so that `RuntimeProofs` can use them.

**Gate 1** (`Gate1Proofs`). `ScanIsExact`: for every log, of any length, what
the scan reports is what the rules of `Lineage` and of the markers say.
The invariant of each loop says what has been found of the events already seen,
and that `live` and `exited` are what those events made them. From it
`AcceptedIsWellFormed` (both directions) and `OmissionsShow`, the sentence of
the docstring, by comparing the numbers of a log with one missing.

**Ledger** (`LedgerProofs`, `DataProofs`). `RootInjective`: two lists of leaves
with the same Merkle root are the same, also in length, although an odd node
moves up as it is. Nothing commits to the number of leaves, but depth along left
children (`HasDepth`) gives it away: on level h every node but the last is h
deep, the last is less deep exactly if it was moved up (`Shaped`, `PairedLast`),
and the root is as deep as the level that is the first with one node. So a level
determines the one below it (`PairedInjective`), down to the leaves.
On it rests `HeadPinsChain`: two chains of one length whose blocks all pass
`BlockOK` and whose heads are equal are equal block by block, from the last to
the first. `LedgerInvariant` says what a ledger is at any time: every block
passes (`Sealed`), the history and what is pending are numbered without a gap
(`Counted`), each exported checkpoint is that of the chain as it was at some
height (`Remembered`), and an audit saw a possible copy (`Examined`). It
gives `GenuineAlwaysVerifies`, and with `HeadPinsChain` also
`AcceptedIsGenuineUpToHead` and `CheckpointAlwaysPins`: `CopiesWellFormed`
shows that every alteration leaves a sequence of blocks of events, and that is
all the proof uses of the alterations: the theorems say what `verify_chain`
accepts, not what the editor may try. `LedgerImplementsLog` is the refinement of
`AppendOnlyLog`: a seal appends what was pending to `all_events`, and every
other step is a stutter. `BytesAlwaysExact`: decoding inverts encoding, accepted
bytes are those of what they decode to (`DecodedIsEncoded`), and streams
determine their histories (`StreamTells`), since the length of a payload comes
before it and so no event's bytes are the beginning of another's.
`InclusionProofsExact`, for any bytes and trees of any size: the nodes above a
leaf, one in each level, are each the one below or what one step of the proof
makes of it (`OneUp`, `PathIs`), so climbing from the leaf by its own proof ends
at the root (`ProofClimbs`); and two climbs that end at one node by the same
last steps began at one node (`ClimbsMeet`), which is a leaf only at the bottom.

**Spawn authorizer** (`SeriesProofs`). `EverySpawnEarned`, `LineageIsRooted`,
`TokensStayRedeemable`. Needed besides: that used tokens are accounted for by
the spawns one by one (`TokensAccounted`), and that whoever is live, spawned or
holds a token was born (`LiveAreBorn`, `SpawnersWereLive`, `HoldersWereBorn`).

**Firecracker** (`FirecrackerProofs`). `AliveAreOwned`, `NothingIsCarried`,
`GuaranteesAlwaysHold`, `RunsLeaveNothing`, `BootedAreMeasured` and
`RefinesSupervisor`, for any number of runs on one backend. The invariant says
that images keep their inode until an overlay is put over one (`ImagesIntact`),
that no overlay inode is used twice (`OverlayFresh`, `MachinesApart`), what is
at the config's path (`ConfigInPlace`), and where a run's process is known
(`HandleKnown`). The refinement maps each statement of `run()` to the statement
of `Supervisor` of that name and everything the host does by itself to a
stutter, until `failed`. `BootedAreMeasured` has the hypothesis `RootfsApart`:
no run's overlay lies where another run's rootfs is. It is needed and the code
does not check it: an overlay that could not be removed would be measured as
the next run's rootfs, and its VM might still write it. `KernelIsMeasured` shows
that the kernel needs no such hypothesis.

**Trackers and kill switch** (`SeriesProofs`). `BurstIsExact` for every
window, pace and length: the times kept are sorted and are the denials inside
the window, which needs that what was pruned earlier is outside every later
window. `PatientProbeIsKilled` for every threshold up to 7/20 (the default is
0.35): a row of three denials puts the EWMA at 0.385 or more whatever came
before. `BudgetSpansEvaluations` for every burst b with 1 <= b <= window + 1:
the mutation trigger is fed one tick per mutation, so its "seconds" are
mutations, and a burst larger than the window holds would never fire (the
defaults are 3 and 60). What the tracker is after n ticks is recursive in n; it
is proved by induction in the form `DataProofs` gives it, a set of numbers that
contains 0 and the successor of each member contains all. That lemma is itself
proved, from the cardinalities of finite sets.

**Transport** (`ObservationProofs`). `ReaderInvariant`: what has been taken of
the stream so far stops nothing, the claims are its permitted frames, the byte
count is its total, and the statistics are the sums over the calls that returned
plus the call on the stack. A prefix that stops nothing and ends at the stream's
end or at a frame that stops the call is the longest one (`TakenIs`); this gives
`ClaimsAlwaysExact` for any streams, caps and number of calls, and with it
`StatsAlwaysAddUp`.

**Fingerprint** (`ObservationProofs`). `ProfileInvariant`: the baseline knows
every capability, step and interval of the runs it absorbed and no step besides.
`UnflaggedAlwaysStitched` follows at once. `ReferenceRunsAlwaysClean` also needs
that no number of n can lie further than (n-1)/sqrt(n) standard deviations from
the mean of all n: `DeviationBound`, by the inequality of Cauchy and Schwarz for
the other n - 1 numbers, in integers and by induction on n.

**Runtime** (`RuntimeProofs`). The invariant `Runs` is `RunInv` up to the last
step together with what each layer keeps: `Outcome` (which exits an exception
or a timeout can have), `BrokerTypes`, `MonitorKept` (the map replays the
observations, and each verdict tells the region and an earlier grant),
`RecordKept` (the host's capability events in the ledger agree with the history
one for one, a timeout aside) and `Undecided`. `Over` says what the last step
leaves, `TrackerKept` what the tracker owes to the history. From these:

* `MapAlwaysReplays` and `SilentDriftIsAccounted`; they rest on
  `NormaliseSettles`, that normalising a normalised path changes nothing, which
  is an induction over the segments of a path. That the roots of two maps differ
  exactly when a file does (`RootTells`) follows from `RootInjective` and from
  the fold of `EnvMonitor.root` visiting every path that holds a file;
* `HistoryIsRecorded` and `DriftReportIsExact`;
* `AllowedIsContained`, for denial thresholds up to 7/20 and mutation bursts of
  at most window + 1;
* `QuietRunsAllowed`, where a timeout is one of the refusals, for denial bursts
  of at least 3 and thresholds of at least 6/20. On the way `NothingRaised`: no
  run's evidence ever has `privilege_escalation_granted`, since the policy never
  grants `PRIVILEGE_RAISE` and a timeout is recorded as a refusal.

The defaults of the code (window 60, burst 5, threshold 0.35; window 60,
burst 3) satisfy all hypotheses. The EWMA of the proofs is exact; the code's
float does not matter to them, because three denials give at least 0.385
and two in all at most 0.278, both far from the thresholds they are compared
with.

**From which assumptions.** Apart from those named, the `ASSUME`s of the
modules: the actor bands of `AmesEvents` and the host band of `Supervisor`,
requests with capabilities of the enumeration, windows and gaps that are natural
numbers, callers' events that are events with payloads of numbers, captured files whose contents are digests, disks and
kernels at paths of the host. TLC evaluates every one of them on its instance.

**Model-checked only.**

* The liveness properties (`BootedIsDestroyed`, `EveryVmDies`, `ReadReturns`):
  fairness and ENABLED are beyond the prover.

Every other property of the passing runs is the statement of a theorem.

## 5. Not modelled

* The payload builders and decoders of `ames/canonical.py` and
  `ames/events.py`, and the byte widths of fields: they format and parse, and
  no later stage reads more of a payload than the two bytes the models carry.
* Hash collisions, and guessing of tokens.
* Texts: violation messages, `summary`, `kill_payload`, `pending_rebuild`,
  `binary_hash_from_spawn_payload`.
* A granted write path that is not absolute, or a reported one: `normalise`
  raises for it, out of `observe`.
* Reports to the monitor of a file that has not changed, and events that
  `Event` itself refuses or whose payload digest is zero.
* The fingerprint's evaluation inside `execute`: it is advisory and comes after
  the verdict; `Fingerprint` checks it on its own.
* Everything of Firecracker itself beyond what its config says it opens, and
  two runs at the same time on one backend: nothing in the code starts them.
* `validation/` (L0): a harness without state whose scenarios are single
  behaviours of the layers the runs enumerate; `examples/`, `scripts/` and the
  vectors.

## 6. Where code and comments disagree

Each of the first four has a run that finds the counterexample.

1. `containment/killswitch.py:34-35` says guest claims can neither cause nor
   prevent a kill. Gate 1 runs over all events, so one claimed action of an
   unspawned guest actor kills the run (`RuntimeGuestKill`).
2. `containment/runtime.py:232-234` says a FAILED run never ran. A refused
   guest claim escaping the hook raises the same exception after boot
   (`RuntimeRefusal`).
3. `containment/supervisor.py:139-142` says a VM that is never torn down shows
   up as an `UNTERMINATED_ACTOR`. `FirecrackerBackend.destroy` swallows a kill
   that did not work (`containment/backend.py:219`), and `run()` records the
   exit of the VM in any case (lines 183-187), so the record of a VM that still
   runs is complete (`FirecrackerSurvivor`).
4. `containment/supervisor.py:190-191` records a timeout "so L9 can count it
   like any other refusal". It goes to the ledger only; L9 reads the broker's
   last signal, which never saw it. After two refusals in a row and a timeout the
   record ends with three refusals and the run is allowed (`RuntimeTimeout`),
   where a third refused request kills. `QuietRunAllowed` counts the
   timeout among the refusals, as the comment does, so it promises nothing of
   such a run.

Read in the code, stated here, without a run of their own:

* `containment/runtime.py:392-394` says the last signal is the accumulated
  value. That holds for the EWMA; the burst flag is forgotten with its window.
  With the default thresholds the EWMA still kills after the window has passed,
  until three granted requests have brought it below its threshold.
* With `config_dir=None`, `run()` writes no config and boots from
  `/tmp/fc-<run_id>.json` whatever is there: nothing, and the VM ends at once
  with an error, or the config of an earlier run. `BootedIsMeasured` and
  `NoStateCarried` are therefore stated for callers that name a directory; `GuaranteesHold` is not
  so restricted, because configs are written only after `validate`.
* `validate` compares the overlay's path with the rootfs only. A spec whose
  overlay is its kernel image is accepted, the image is measured and then
  replaced by an empty overlay and removed at the end; the VM does not boot.
  `NothingPersists` allows the loss of the spec's own overlay path.
* `containment/identity.py:225` records denials "for L9 to read"; `Evidence`
  has no field for them.
* `SpawnAuthorizer` lets an id that has exited become live again as a later
  spawn's child (`tests/test_identity.py:172-173` accepts it), which Gate 1
  would report.
* `containment/broker.py:75-77` means to stop dilution by harmless requests by
  updating the EWMA on allows too; each allow multiplies it by 0.85, which is
  that dilution.
* `verify_chain` compares the checkpoint's digest only at equal height; a longer
  chain with another history is accepted.
* `MAX_EVENTS_PER_RUN` is enforced per call of `read`.
* After a timeout even a guest that reported everything it saw gets a drift
  finding unless it happened to claim a refused `PROCESS_SPAWN`; `DriftIsExact`
  counts the timeout as one more refusal.

## 7. Plan

Order of the work: the record (events, encoding, commitments, Gate 1, ledger),
the supervisor that writes it, the backend below it, the layers the hook drives
(broker, monitor, authorizer), the kill switch, their composition, the advisory
layers and the transport. All of that is in place, and every safety property of
the passing runs is proved as well as checked. What could still be stated and
proved:

1. `Runtime` on `FirecrackerRun`: the theorems about `execute()` carried over to
   the real backend along `RefinesSupervisor`, up to the first failed kill or
   unlink.
2. `Runtime` with the ledger's timestamps, so that Gate 1's rules about numbers
   and times are part of the composition too.
