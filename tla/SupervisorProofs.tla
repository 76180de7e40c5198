---------------------------- MODULE SupervisorProofs ----------------------------
(***************************************************************************)
(* For every number of claims and decisions, every choice of actor ids and *)
(* every failing call: the variables of a run are well typed, the host's   *)
(* own lineage in the record is clean, the record only grows, each event   *)
(* in it is counted once on the side it came from, no VM runs that the     *)
(* record does not show, and a run ends torn down.                         *)
(*                                                                         *)
(* The first part is about any record: what one more event does to the     *)
(* lineage rules, nothing to the events already there, and to the state of *)
(* an actor at the end only what a spawn or an exit of that actor says.    *)
(***************************************************************************)
EXTENDS Supervisor, FiniteSetTheorems, TLAPS

\* The log's own length: who is live now.
Spawned(log, a) == SpawnedBefore(log, Len(log) + 1, a)
Exited(log, a) == ExitedBefore(log, Len(log) + 1, a)
Live(log, a) == Spawned(log, a) /\ ~Exited(log, a)

\* An appended event leaves the earlier ones in place.
LEMMA AppendKeeps ==
    ASSUME NEW S, NEW log \in Seq(S), NEW e \in S
    PROVE  /\ Append(log, e) \in Seq(S)
           /\ Len(log) \in Nat
           /\ DOMAIN log = 1..Len(log)
           /\ Len(Append(log, e)) = Len(log) + 1
           /\ DOMAIN Append(log, e) = 1..(Len(log) + 1)
           /\ Append(log, e)[Len(log) + 1] = e
           /\ \A j \in 1..Len(log) : Append(log, e)[j] = log[j]
  OBVIOUS

\* What was spawned before an event of the log was so in the longer log.
LEMMA SpawnedStable ==
    ASSUME NEW S, NEW log \in Seq(S), NEW e \in S, NEW a,
           NEW i \in 1..(Len(log) + 1)
    PROVE  SpawnedBefore(Append(log, e), i, a) <=> SpawnedBefore(log, i, a)
  BY AppendKeeps DEF SpawnedBefore, IsSpawn

\* Nor does the longer log say anything else about the exits before it.
LEMMA ExitedStable ==
    ASSUME NEW S, NEW log \in Seq(S), NEW e \in S, NEW a,
           NEW i \in 1..(Len(log) + 1)
    PROVE  ExitedBefore(Append(log, e), i, a) <=> ExitedBefore(log, i, a)
  <1> DEFINE long == Append(log, e)
  <1>1. \A k \in DOMAIN log : k \in DOMAIN long /\ long[k] = log[k]
                              /\ k \in 1..(Len(log) + 1)
    BY AppendKeeps
  <1>2. \A k \in DOMAIN long : k < i => k \in DOMAIN log
    BY AppendKeeps
  <1>3. \A k \in DOMAIN log : SpawnedBefore(long, k, a) <=> SpawnedBefore(log, k, a)
    BY <1>1, SpawnedStable
  <1> HIDE DEF long
  <1>4. ExitedBefore(long, i, a) <=> ExitedBefore(log, i, a)
    BY <1>1, <1>2, <1>3 DEF ExitedBefore, IsExit
  <1> QED  BY <1>4 DEF long

\* The rules judge an event by what came before it.
LEMMA CodeStable ==
    ASSUME NEW S, NEW log \in Seq(S), NEW e \in S, NEW i \in 1..Len(log)
    PROVE  LineageCode(Append(log, e), i) = LineageCode(log, i)
  <1> DEFINE long == Append(log, e)
  <1>1. long[i] = log[i] /\ i \in 1..(Len(log) + 1)
    BY AppendKeeps
  <1>2. LiveBefore(long, i, log[i].actor) <=> LiveBefore(log, i, log[i].actor)
    BY <1>1, SpawnedStable, ExitedStable DEF LiveBefore
  <1>3. ExitedBefore(long, i, log[i].actor) <=> ExitedBefore(log, i, log[i].actor)
    BY <1>1, ExitedStable
  <1>4. IsOrphan(long, i) <=> IsOrphan(log, i)
    BY <1>1, SpawnedStable, ExitedStable DEF LiveBefore, IsOrphan
  <1> HIDE DEF long
  <1>5. LineageCode(long, i) = LineageCode(log, i)
    BY <1>1, <1>2, <1>3, <1>4 DEF LineageCode
  <1> QED  BY <1>5 DEF long

\* Only a spawn of the actor itself makes it spawned.
LEMMA SpawnedAppend ==
    ASSUME NEW S, NEW log \in Seq(S), NEW e \in S, NEW a
    PROVE  Spawned(Append(log, e), a)
             <=> Spawned(log, a) \/ (e.type = "PROCESS_SPAWN" /\ e.actor = a)
  BY AppendKeeps DEF Spawned, SpawnedBefore, IsSpawn

\* Only an exit of the actor itself, after its spawn, makes it exited.
LEMMA ExitedAppend ==
    ASSUME NEW S, NEW log \in Seq(S), NEW e \in S, NEW a
    PROVE  Exited(Append(log, e), a)
             <=> Exited(log, a) \/ (e.type = "PROCESS_EXIT" /\ e.actor = a /\ Spawned(log, a))
  <1> DEFINE long == Append(log, e)
             n == Len(log) + 1
  <1>1. DOMAIN long = DOMAIN log \cup {n} /\ n \notin DOMAIN log /\ Len(long) = n
        /\ n \in Nat /\ \A k \in DOMAIN long : k \in Nat
    BY AppendKeeps
  <1>2. \A k \in DOMAIN log : long[k] = log[k] /\ k < n /\ k < n + 1 /\ k \in 1..n
    BY AppendKeeps
  <1>3. long[n] = e /\ n < n + 1
    BY AppendKeeps
  <1>4. \A k \in DOMAIN log : SpawnedBefore(long, k, a) <=> SpawnedBefore(log, k, a)
    BY <1>2, SpawnedStable
  <1>5. SpawnedBefore(long, n, a) <=> SpawnedBefore(log, n, a)
    BY AppendKeeps, SpawnedStable
  <1>6. ExitedBefore(log, n, a) <=>
          \E k \in DOMAIN log : IsExit(log, k, a) /\ SpawnedBefore(log, k, a)
    BY <1>2 DEF ExitedBefore
  <1>7. ExitedBefore(long, n + 1, a) <=>
          \E k \in DOMAIN long : IsExit(long, k, a) /\ SpawnedBefore(long, k, a)
    BY <1>1, <1>2, <1>3 DEF ExitedBefore
  <1> HIDE DEF long, n
  <1>8. ExitedBefore(long, n + 1, a) <=>
          ExitedBefore(log, n, a)
          \/ (e.type = "PROCESS_EXIT" /\ e.actor = a /\ SpawnedBefore(log, n, a))
    BY <1>1, <1>2, <1>3, <1>4, <1>5, <1>6, <1>7 DEF IsExit
  <1> QED  BY <1>1, <1>8 DEF long, n, Exited, Spawned

\* Exits presuppose spawns.
LEMMA ExitedWasSpawned ==
    ASSUME NEW log, NEW a
    PROVE  Exited(log, a) => Spawned(log, a)
  BY DEF Exited, Spawned, ExitedBefore, SpawnedBefore

\* Nobody is spawned in an empty log.
LEMMA EmptyLog ==
    ASSUME NEW a
    PROVE  ~Spawned(<<>>, a) /\ ~Exited(<<>>, a)
  BY DEF Exited, Spawned, ExitedBefore, SpawnedBefore

\* The code of the event that was just appended, from the state before it.
LEMMA CodeOfAppended ==
    ASSUME NEW S, NEW log \in Seq(S), NEW e \in S,
           \/ e.type \in Markers
           \/ e.type \in ActionTypes /\ Live(log, e.actor)
           \/ e.type = "PROCESS_EXIT" /\ Live(log, e.actor)
           \/ /\ e.type = "PROCESS_SPAWN" /\ ~Spawned(log, e.actor)
              /\ e.parent = NO_PARENT \/ Live(log, e.parent)
    PROVE  LineageCode(Append(log, e), Len(log) + 1) = "NONE"
  <1> DEFINE long == Append(log, e)
             n == Len(log) + 1
  <1>1. long[n] = e /\ n \in 1..n
    BY AppendKeeps
  <1>2. \A a : LiveBefore(long, n, a) <=> Live(log, a)
    BY <1>1, SpawnedStable, ExitedStable DEF LiveBefore, Live, Spawned, Exited
  <1>3. \A a : ExitedBefore(long, n, a) <=> Exited(log, a)
    BY <1>1, ExitedStable DEF Exited
  <1>4. ~Spawned(log, e.actor) => ~Exited(log, e.actor)
    BY ExitedWasSpawned
  <1> HIDE DEF long, n
  <1>5. LineageCode(long, n) = "NONE"
    BY <1>1, <1>2, <1>3, <1>4 DEF LineageCode, IsOrphan, Live, Markers, ActionTypes
  <1> QED  BY <1>5 DEF long, n

-------------------------------------------------------------------------------
H == HOST_ACTOR_ID
V == VM_ACTOR_ID

Unsealed == pc \notin {"report", "reraise"}
BeforeVm == {"validate", "run_begin", "spawn_host", "measure_image", "record_images",
             "prepare_overlay", "write_config", "spawn_vm"}
WithVm == {"boot", "hook", "wait"}
HostUp == {"measure_image", "record_images", "prepare_overlay", "write_config", "spawn_vm",
           "boot", "hook", "wait", "destroy", "exit_vm", "record_timeout", "exit_host"}

\* Where the record is: staged until the last statement, then in one block.
RecordPlace ==
    /\ Unsealed => blocks = <<>>
    /\ ~Unsealed => pending = <<>>
    /\ Recorded \in Seq(Event)

\* What pc and vm_spawned say of the two actors of the host band.
HostState ==
    /\ pc \in {"validate", "run_begin"} => Recorded = <<>>
    /\ pc = "spawn_host" => ~Spawned(Recorded, H)
    /\ pc \in HostUp => Live(Recorded, H)
    /\ pc \in {"run_end", "seal"} => Exited(Recorded, H)
    /\ Finished => Recorded = <<>> \/ Exited(Recorded, H)

VmState ==
    /\ pc \in BeforeVm => ~vm_spawned
    /\ pc \in WithVm => vm_spawned
    /\ ~vm_spawned => ~Spawned(Recorded, V)
    /\ vm_spawned /\ pc \in WithVm \cup {"destroy", "exit_vm"} => Live(Recorded, V)
    /\ vm_spawned /\ pc \notin WithVm \cup {"destroy", "exit_vm"} => Exited(Recorded, V)

\* Nobody but the supervisor writes into the host band, and as these two only.
BandIsHosts ==
    \A i \in DOMAIN Recorded : is_host_observed(Recorded[i].actor) => Recorded[i].actor \in {H, V}

\* A run whose broker decides as often as it is asked: SupNext without the
\* bound it has for TLC, which Runtime.tla replaces by the broker itself.
AnyDecision == \E cap \in Capability, granted \in BOOLEAN : emit_host_event(cap, granted)
RunNext == RunStep \/ record_guest_claim \/ AnyDecision

Inv == SupTypeOK /\ RecordPlace /\ HostState /\ VmState /\ BandIsHosts /\ HostEventsClean

-------------------------------------------------------------------------------
\* Record is one append to the run's record, and nothing else of the ledger.
LEMMA RecordAppends ==
    ASSUME SupTypeOK, RecordPlace, Unsealed,
           pc' \notin {"report", "reraise"},
           NEW type \in EventType, NEW actor \in Nat, NEW parent \in Nat,
           NEW cap \in Capability \cup {None}, NEW granted \in BOOLEAN,
           Record(type, actor, parent, cap, granted)
    PROVE  /\ \E e \in Event :
                 /\ e.type = type /\ e.actor = actor /\ e.parent = parent
                 /\ e.cap = cap /\ e.granted = granted
                 /\ Recorded' = Append(Recorded, e)
           /\ RecordPlace'
           /\ pending' \in Seq(Event) /\ next_sequence' \in Nat /\ seq' \in Nat
  <1> DEFINE e == [type |-> type, sequence |-> seq, actor |-> actor, parent |-> parent,
                   cap |-> cap, granted |-> granted]
  <1>1. e \in Event
    BY DEF Event, SupTypeOK
  <1>2. pending' = Append(pending, e) /\ next_sequence' = next_sequence + 1
        /\ blocks' = blocks /\ seq' = seq + 1
    BY DEF Record, L!append
  <1>3. Recorded = pending /\ Recorded' = pending'
    BY <1>2 DEF Recorded, RecordPlace, Unsealed
  <1>4. pending' \in Seq(Event)
    BY <1>1, <1>2 DEF SupTypeOK
  <1>5. RecordPlace'
    BY <1>2, <1>3, <1>4 DEF RecordPlace, Unsealed
  <1>6. e.type = type /\ e.actor = actor /\ e.parent = parent /\ e.cap = cap /\ e.granted = granted
    OBVIOUS
  <1> HIDE DEF e
  <1>7. \E x \in Event : x.type = type /\ x.actor = actor /\ x.parent = parent
                         /\ x.cap = cap /\ x.granted = granted /\ Recorded' = Append(Recorded, x)
    BY <1>1, <1>2, <1>3, <1>6
  <1> QED  BY <1>2, <1>4, <1>5, <1>7 DEF SupTypeOK

\* An event of the host band that the rules accept, or one outside the band,
\* leaves the host's lineage clean.
LEMMA CleanAppend ==
    ASSUME NEW log \in Seq(Event), NEW e \in Event, Recorded = log,
           Recorded' = Append(log, e), BandIsHosts, HostEventsClean,
           \/ ~is_host_observed(e.actor)
           \/ /\ e.actor \in {H, V}
              /\ \/ e.type \in Markers
                 \/ e.type \in ActionTypes \cup {"PROCESS_EXIT"} /\ Live(log, e.actor)
                 \/ /\ e.type = "PROCESS_SPAWN" /\ ~Spawned(log, e.actor)
                    /\ e.parent = NO_PARENT \/ Live(log, e.parent)
    PROVE  BandIsHosts' /\ HostEventsClean'
  <1> DEFINE long == Append(log, e)
             n == Len(log) + 1
  <1>1. DOMAIN long = 1..n /\ DOMAIN log = 1..Len(log) /\ Len(log) \in Nat
        /\ long[n] = e /\ \A i \in 1..Len(log) : long[i] = log[i]
    BY AppendKeeps
  <1>2. \A i \in 1..Len(log) : LineageCode(long, i) = LineageCode(log, i)
    BY CodeStable
  <1>3. is_host_observed(e.actor) => LineageCode(long, n) = "NONE"
    BY CodeOfAppended
  <1>4. \A i \in 1..n : i \in 1..Len(log) \/ i = n
    BY <1>1
  <1> HIDE DEF long, n
  <1>5. BandIsHosts'
    BY <1>1, <1>4 DEF BandIsHosts, long, H, V
  <1>6. HostEventsClean'
    BY <1>1, <1>2, <1>3, <1>4 DEF HostEventsClean, long
  <1> QED  BY <1>5, <1>6

\* What one _emit_host leaves behind, when the rules accept the event.
Emitted(type, actor) ==
    /\ RecordPlace' /\ BandIsHosts' /\ HostEventsClean'
    /\ pending' \in Seq(Event) /\ next_sequence' \in Nat /\ seq' \in Nat
    /\ host_events' \in Nat
    /\ UNCHANGED <<guest_events, next_guest_actor, claims>>
    /\ \A a : Spawned(Recorded', a)
                <=> Spawned(Recorded, a) \/ (type = "PROCESS_SPAWN" /\ actor = a)
    /\ \A a : Exited(Recorded', a)
                <=> \/ Exited(Recorded, a)
                    \/ type = "PROCESS_EXIT" /\ actor = a /\ Spawned(Recorded, a)

\* What the lineage rules accept of a host actor.
Accepted(type, actor, parent) ==
    \/ type \in Markers
    \/ type \in ActionTypes \cup {"PROCESS_EXIT"} /\ Live(Recorded, actor)
    \/ /\ type = "PROCESS_SPAWN" /\ ~Spawned(Recorded, actor)
       /\ parent = NO_PARENT \/ Live(Recorded, parent)

\* An emission the rules accept keeps the record, its place and its lineage.
LEMMA EmitKeeps ==
    ASSUME Inv, Unsealed, pc' \notin {"report", "reraise"},
           NEW type \in EventType, NEW actor \in {H, V}, NEW parent \in Nat,
           NEW cap \in Capability \cup {None}, NEW granted \in BOOLEAN,
           _emit_host(type, actor, parent, cap, granted), Accepted(type, actor, parent)
    PROVE  Emitted(type, actor)
  <1>1. actor \in Nat
    BY HostBandAssumption DEF H, V
  <1>2. Record(type, actor, parent, cap, granted) /\ host_events' = host_events + 1
        /\ UNCHANGED <<guest_events, next_guest_actor, claims>>
    BY DEF _emit_host
  <1>3. PICK e \in Event : e.type = type /\ e.actor = actor /\ e.parent = parent
                           /\ Recorded' = Append(Recorded, e)
    BY <1>1, <1>2, RecordAppends DEF Inv
  <1>4. RecordPlace' /\ pending' \in Seq(Event) /\ next_sequence' \in Nat /\ seq' \in Nat
    BY <1>1, <1>2, RecordAppends DEF Inv
  <1>5. Recorded \in Seq(Event)
    BY DEF Inv, RecordPlace
  <1>6. BandIsHosts' /\ HostEventsClean'
    BY <1>3, <1>5, CleanAppend DEF Inv, Accepted
  <1>7. \A a : Spawned(Recorded', a)
                 <=> Spawned(Recorded, a) \/ (type = "PROCESS_SPAWN" /\ actor = a)
    BY <1>3, <1>5, SpawnedAppend
  <1>8. \A a : Exited(Recorded', a)
                 <=> \/ Exited(Recorded, a)
                     \/ type = "PROCESS_EXIT" /\ actor = a /\ Spawned(Recorded, a)
    BY <1>3, <1>5, ExitedAppend
  <1>9. host_events' \in Nat
    BY <1>2 DEF Inv, SupTypeOK
  <1> QED  BY <1>2, <1>4, <1>6, <1>7, <1>8, <1>9 DEF Emitted

\* A step that records nothing leaves the record as it is.
LEMMA UnrecordedKeeps ==
    ASSUME Inv, Unsealed, UNCHANGED ledgerVars, pc' \notin {"report", "reraise"}
    PROVE  /\ Recorded' = Recorded /\ RecordPlace' /\ BandIsHosts' /\ HostEventsClean'
           /\ UNCHANGED <<pending, next_sequence>>
  <1>1. Recorded' = Recorded
    BY DEF Recorded, ledgerVars
  <1>2. RecordPlace'
    BY <1>1 DEF Inv, RecordPlace, ledgerVars, Unsealed
  <1>3. BandIsHosts' /\ HostEventsClean'
    BY <1>1 DEF Inv, BandIsHosts, HostEventsClean
  <1> QED  BY <1>1, <1>2, <1>3 DEF ledgerVars

\* The host band's two actors.
LEMMA BandFacts ==
    /\ H \in Nat /\ V \in Nat /\ NO_PARENT \in Nat /\ H # V
    /\ is_host_observed(H) /\ is_host_observed(V)
  BY HostBandAssumption DEF H, V, is_host_observed

-------------------------------------------------------------------------------
\* The invariant holds at the start ...
THEOREM InitInv == SupInit => Inv
  <1> SUFFICES ASSUME SupInit PROVE Inv
    OBVIOUS
  <1> USE DEF SupInit, L!LedgerInit
  <1>1. Recorded = <<>> /\ Recorded \in Seq(Event)
    BY DEF Recorded
  <1>2. SupTypeOK
    <2>1. pending \in Seq(Event)
      OBVIOUS
    <2>2. result \in [state : {"created", "exited", "killed"}, timed_out : BOOLEAN]
      OBVIOUS
    <2> QED  BY <2>1, <2>2, SupervisorAssumption DEF SupTypeOK
  <1>3. RecordPlace
    BY <1>1 DEF RecordPlace, Unsealed
  <1>4. HostState
    BY <1>1 DEF HostState, HostUp, Finished
  <1>5. VmState
    BY <1>1, EmptyLog DEF VmState, BeforeVm, WithVm
  <1>6. BandIsHosts /\ HostEventsClean
    BY <1>1 DEF BandIsHosts, HostEventsClean
  <1> QED  BY <1>2, <1>3, <1>4, <1>5, <1>6 DEF Inv

\* ... and every statement of run(), every claim and every decision keeps it.

\* The start marker needs no live actor.
LEMMA BeginRunKeeps == ASSUME Inv, BeginRun PROVE Inv'
  <1>1. Unsealed /\ pc' \notin {"report", "reraise"}
        /\ _emit_host("RUN_BEGIN", H, NO_PARENT, None, FALSE)
    BY DEF BeginRun, EmitPlain, Unsealed, H, V
  <1>2. Accepted("RUN_BEGIN", H, NO_PARENT)
    BY BandFacts
    DEF Inv, HostState, VmState, HostUp, BeforeVm, WithVm, Accepted, Live, Markers, ActionTypes,
        BeginRun
  <1>3. Emitted("RUN_BEGIN", H)
    BY <1>1, <1>2, EmitKeeps, BandFacts DEF EventType, Markers, LifecycleTypes, ActionTypes
  <1>4. SupTypeOK'
    BY <1>3 DEF BeginRun, Emitted, Inv, SupTypeOK, localVars, backendVars
  <1>5. HostState'
    BY <1>3, BandFacts, ExitedWasSpawned, EmptyLog
    DEF BeginRun, Emitted, Inv, HostState, HostUp, Finished, Live
  <1>6. VmState'
    BY <1>3, BandFacts, ExitedWasSpawned
    DEF BeginRun, Emitted, Inv, VmState, BeforeVm, WithVm, Live, localVars
  <1> QED  BY <1>3, <1>4, <1>5, <1>6 DEF Emitted, Inv

\* The supervisor spawns itself once, as a root.
LEMMA SpawnHostKeeps == ASSUME Inv, SpawnHost PROVE Inv'
  <1>1. Unsealed /\ pc' \notin {"report", "reraise"}
        /\ _emit_host("PROCESS_SPAWN", H, NO_PARENT, None, FALSE)
    BY DEF SpawnHost, EmitPlain, Unsealed, H, V
  <1>2. Accepted("PROCESS_SPAWN", H, NO_PARENT)
    BY BandFacts
    DEF Inv, HostState, VmState, HostUp, BeforeVm, WithVm, Accepted, Live, Markers, ActionTypes,
        SpawnHost
  <1>3. Emitted("PROCESS_SPAWN", H)
    BY <1>1, <1>2, EmitKeeps, BandFacts DEF EventType, Markers, LifecycleTypes, ActionTypes
  <1>4. SupTypeOK'
    BY <1>3 DEF SpawnHost, Emitted, Inv, SupTypeOK, localVars, backendVars
  <1>5. HostState'
    BY <1>3, BandFacts, ExitedWasSpawned, EmptyLog
    DEF SpawnHost, Emitted, Inv, HostState, HostUp, Finished, Live
  <1>6. VmState'
    BY <1>3, BandFacts, ExitedWasSpawned
    DEF SpawnHost, Emitted, Inv, VmState, BeforeVm, WithVm, Live, localVars
  <1> QED  BY <1>3, <1>4, <1>5, <1>6 DEF Emitted, Inv

\* The image digests are recorded by the live supervisor.
LEMMA RecordImagesKeeps == ASSUME Inv, RecordImages PROVE Inv'
  <1>1. Unsealed /\ pc' \notin {"report", "reraise"}
        /\ _emit_host("FILE_MUTATION", H, NO_PARENT, None, FALSE)
    BY DEF RecordImages, EmitPlain, Unsealed, H, V
  <1>2. Accepted("FILE_MUTATION", H, NO_PARENT)
    BY BandFacts
    DEF Inv, HostState, VmState, HostUp, BeforeVm, WithVm, Accepted, Live, Markers, ActionTypes,
        RecordImages
  <1>3. Emitted("FILE_MUTATION", H)
    BY <1>1, <1>2, EmitKeeps, BandFacts DEF EventType, Markers, LifecycleTypes, ActionTypes
  <1>4. SupTypeOK'
    BY <1>3 DEF RecordImages, Emitted, Inv, SupTypeOK, localVars, backendVars
  <1>5. HostState'
    BY <1>3, BandFacts, ExitedWasSpawned, EmptyLog
    DEF RecordImages, Emitted, Inv, HostState, HostUp, Finished, Live
  <1>6. VmState'
    BY <1>3, BandFacts, ExitedWasSpawned
    DEF RecordImages, Emitted, Inv, VmState, BeforeVm, WithVm, Live, localVars
  <1> QED  BY <1>3, <1>4, <1>5, <1>6 DEF Emitted, Inv

\* The VM is spawned once, by the live supervisor.
LEMMA SpawnVmKeeps == ASSUME Inv, SpawnVm PROVE Inv'
  <1>1. Unsealed /\ pc' \notin {"report", "reraise"}
        /\ _emit_host("PROCESS_SPAWN", V, H, None, FALSE)
    BY DEF SpawnVm, EmitPlain, Unsealed, H, V
  <1>2. Accepted("PROCESS_SPAWN", V, H)
    BY BandFacts
    DEF Inv, HostState, VmState, HostUp, BeforeVm, WithVm, Accepted, Live, Markers, ActionTypes,
        SpawnVm
  <1>3. Emitted("PROCESS_SPAWN", V)
    BY <1>1, <1>2, EmitKeeps, BandFacts DEF EventType, Markers, LifecycleTypes, ActionTypes
  <1>4. SupTypeOK'
    BY <1>3 DEF SpawnVm, Emitted, Inv, SupTypeOK, localVars, backendVars
  <1>5. HostState'
    BY <1>3, BandFacts, ExitedWasSpawned, EmptyLog
    DEF SpawnVm, Emitted, Inv, HostState, HostUp, Finished, Live
  <1>6. VmState'
    BY <1>3, BandFacts, ExitedWasSpawned
    DEF SpawnVm, Emitted, Inv, VmState, BeforeVm, WithVm, Live, localVars
  <1> QED  BY <1>3, <1>4, <1>5, <1>6 DEF Emitted, Inv

\* The supervisor exits while it is live.
LEMMA ExitHostKeeps == ASSUME Inv, ExitHost PROVE Inv'
  <1>1. Unsealed /\ pc' \notin {"report", "reraise"}
        /\ _emit_host("PROCESS_EXIT", H, NO_PARENT, None, FALSE)
    BY DEF ExitHost, EmitPlain, Unsealed, H, V
  <1>2. Accepted("PROCESS_EXIT", H, NO_PARENT)
    BY BandFacts
    DEF Inv, HostState, VmState, HostUp, BeforeVm, WithVm, Accepted, Live, Markers, ActionTypes,
        ExitHost
  <1>3. Emitted("PROCESS_EXIT", H)
    BY <1>1, <1>2, EmitKeeps, BandFacts DEF EventType, Markers, LifecycleTypes, ActionTypes
  <1>4. SupTypeOK'
    BY <1>3 DEF ExitHost, Emitted, Inv, SupTypeOK, localVars, backendVars
  <1>5. HostState'
    BY <1>3, BandFacts, ExitedWasSpawned, EmptyLog
    DEF ExitHost, Emitted, Inv, HostState, HostUp, Finished, Live
  <1>6. VmState'
    BY <1>3, BandFacts, ExitedWasSpawned
    DEF ExitHost, Emitted, Inv, VmState, BeforeVm, WithVm, Live, localVars
  <1> QED  BY <1>3, <1>4, <1>5, <1>6 DEF Emitted, Inv

\* The end marker needs no live actor.
LEMMA EndRunKeeps == ASSUME Inv, EndRun PROVE Inv'
  <1>1. Unsealed /\ pc' \notin {"report", "reraise"}
        /\ _emit_host("RUN_END", H, NO_PARENT, None, FALSE)
    BY DEF EndRun, EmitPlain, Unsealed, H, V
  <1>2. Accepted("RUN_END", H, NO_PARENT)
    BY BandFacts
    DEF Inv, HostState, VmState, HostUp, BeforeVm, WithVm, Accepted, Live, Markers, ActionTypes,
        EndRun
  <1>3. Emitted("RUN_END", H)
    BY <1>1, <1>2, EmitKeeps, BandFacts DEF EventType, Markers, LifecycleTypes, ActionTypes
  <1>4. SupTypeOK'
    BY <1>3 DEF EndRun, Emitted, Inv, SupTypeOK, localVars, backendVars
  <1>5. HostState'
    BY <1>3, BandFacts, ExitedWasSpawned, EmptyLog
    DEF EndRun, Emitted, Inv, HostState, HostUp, Finished, Live
  <1>6. VmState'
    BY <1>3, BandFacts, ExitedWasSpawned
    DEF EndRun, Emitted, Inv, VmState, BeforeVm, WithVm, Live, localVars
  <1> QED  BY <1>3, <1>4, <1>5, <1>6 DEF Emitted, Inv

\* Measuring the images records nothing.
LEMMA MeasureKeeps == ASSUME Inv, Measure PROVE Inv'
  <1>1. Unsealed /\ pc' \notin {"report", "reraise"} /\ UNCHANGED ledgerVars
    BY DEF Measure, Unsealed
  <1>2. /\ Recorded' = Recorded /\ RecordPlace' /\ BandIsHosts' /\ HostEventsClean'
        /\ UNCHANGED <<pending, next_sequence>>
    BY <1>1, UnrecordedKeeps
  <1>3. SupTypeOK'
    BY <1>2 DEF Measure, Inv, SupTypeOK, countVars, localVars, backendVars
  <1>4. HostState'
    BY <1>2 DEF Measure, Inv, HostState, HostUp, Finished
  <1>5. VmState'
    BY <1>2 DEF Measure, Inv, VmState, BeforeVm, WithVm, localVars
  <1> QED  BY <1>2, <1>3, <1>4, <1>5 DEF Inv

\* Nor does creating the overlay,
LEMMA PrepareOverlayKeeps == ASSUME Inv, PrepareOverlay PROVE Inv'
  <1>1. Unsealed /\ pc' \notin {"report", "reraise"} /\ UNCHANGED ledgerVars
    BY DEF PrepareOverlay, Unsealed
  <1>2. /\ Recorded' = Recorded /\ RecordPlace' /\ BandIsHosts' /\ HostEventsClean'
        /\ UNCHANGED <<pending, next_sequence>>
    BY <1>1, UnrecordedKeeps
  <1>3. SupTypeOK'
    BY <1>2 DEF PrepareOverlay, Inv, SupTypeOK, countVars, localVars, backendVars
  <1>4. HostState'
    BY <1>2 DEF PrepareOverlay, Inv, HostState, HostUp, Finished
  <1>5. VmState'
    BY <1>2 DEF PrepareOverlay, Inv, VmState, BeforeVm, WithVm, localVars
  <1> QED  BY <1>2, <1>3, <1>4, <1>5 DEF Inv

\* nor writing the config file,
LEMMA WriteConfigKeeps == ASSUME Inv, WriteConfig PROVE Inv'
  <1>1. Unsealed /\ pc' \notin {"report", "reraise"} /\ UNCHANGED ledgerVars
    BY DEF WriteConfig, Unsealed
  <1>2. /\ Recorded' = Recorded /\ RecordPlace' /\ BandIsHosts' /\ HostEventsClean'
        /\ UNCHANGED <<pending, next_sequence>>
    BY <1>1, UnrecordedKeeps
  <1>3. SupTypeOK'
    BY <1>2 DEF WriteConfig, Inv, SupTypeOK, countVars, localVars, backendVars
  <1>4. HostState'
    BY <1>2 DEF WriteConfig, Inv, HostState, HostUp, Finished
  <1>5. VmState'
    BY <1>2 DEF WriteConfig, Inv, VmState, BeforeVm, WithVm, localVars
  <1> QED  BY <1>2, <1>3, <1>4, <1>5 DEF Inv

\* nor booting, after the spawn was recorded,
LEMMA BootKeeps == ASSUME Inv, Boot PROVE Inv'
  <1>1. Unsealed /\ pc' \notin {"report", "reraise"} /\ UNCHANGED ledgerVars
    BY DEF Boot, Unsealed
  <1>2. /\ Recorded' = Recorded /\ RecordPlace' /\ BandIsHosts' /\ HostEventsClean'
        /\ UNCHANGED <<pending, next_sequence>>
    BY <1>1, UnrecordedKeeps
  <1>3. SupTypeOK'
    BY <1>2 DEF Boot, Inv, SupTypeOK, countVars, localVars, backendVars
  <1>4. HostState'
    BY <1>2 DEF Boot, Inv, HostState, HostUp, Finished
  <1>5. VmState'
    BY <1>2 DEF Boot, Inv, VmState, BeforeVm, WithVm, localVars
  <1> QED  BY <1>2, <1>3, <1>4, <1>5 DEF Inv

\* nor waiting for the VM,
LEMMA WaitKeeps == ASSUME Inv, Wait PROVE Inv'
  <1>1. Unsealed /\ pc' \notin {"report", "reraise"} /\ UNCHANGED ledgerVars
    BY DEF Wait, Unsealed
  <1>2. /\ Recorded' = Recorded /\ RecordPlace' /\ BandIsHosts' /\ HostEventsClean'
        /\ UNCHANGED <<pending, next_sequence>>
    BY <1>1, UnrecordedKeeps
  <1>3. SupTypeOK'
    <2>1. result' \in [state : {"created", "exited", "killed"}, timed_out : BOOLEAN]
      BY DEF Wait
    <2> QED  BY <1>2, <2>1 DEF Wait, Inv, SupTypeOK, countVars
  <1>4. HostState'
    BY <1>2 DEF Wait, Inv, HostState, HostUp, Finished
  <1>5. VmState'
    BY <1>2 DEF Wait, Inv, VmState, BeforeVm, WithVm, localVars
  <1> QED  BY <1>2, <1>3, <1>4, <1>5 DEF Inv

\* nor a failing backend call, which goes to the finally block,
LEMMA BackendFailsKeeps == ASSUME Inv, BackendFails PROVE Inv'
  <1>1. Unsealed /\ pc' \notin {"report", "reraise"} /\ UNCHANGED ledgerVars
    BY DEF BackendFails, Unsealed
  <1>2. /\ Recorded' = Recorded /\ RecordPlace' /\ BandIsHosts' /\ HostEventsClean'
        /\ UNCHANGED <<pending, next_sequence>>
    BY <1>1, UnrecordedKeeps
  <1>3. SupTypeOK'
    BY <1>2 DEF BackendFails, Inv, SupTypeOK, countVars, localVars, backendVars
  <1>4. HostState'
    BY <1>2 DEF BackendFails, Inv, HostState, HostUp, Finished
  <1>5. VmState'
    BY <1>2 DEF BackendFails, Inv, VmState, BeforeVm, WithVm, localVars
  <1> QED  BY <1>2, <1>3, <1>4, <1>5 DEF Inv

\* nor the end of the hook,
LEMMA HookEndsKeeps == ASSUME Inv, HookEnds PROVE Inv'
  <1>1. Unsealed /\ pc' \notin {"report", "reraise"} /\ UNCHANGED ledgerVars
    BY DEF HookEnds, Unsealed
  <1>2. /\ Recorded' = Recorded /\ RecordPlace' /\ BandIsHosts' /\ HostEventsClean'
        /\ UNCHANGED <<pending, next_sequence>>
    BY <1>1, UnrecordedKeeps
  <1>3. SupTypeOK'
    BY <1>2 DEF HookEnds, Inv, SupTypeOK, countVars, localVars, backendVars
  <1>4. HostState'
    BY <1>2 DEF HookEnds, Inv, HostState, HostUp, Finished
  <1>5. VmState'
    BY <1>2 DEF HookEnds, Inv, VmState, BeforeVm, WithVm, localVars
  <1> QED  BY <1>2, <1>3, <1>4, <1>5 DEF Inv

\* nor the teardown.
LEMMA DestroyKeeps == ASSUME Inv, Destroy PROVE Inv'
  <1>1. Unsealed /\ pc' \notin {"report", "reraise"} /\ UNCHANGED ledgerVars
    BY DEF Destroy, Unsealed
  <1>2. /\ Recorded' = Recorded /\ RecordPlace' /\ BandIsHosts' /\ HostEventsClean'
        /\ UNCHANGED <<pending, next_sequence>>
    BY <1>1, UnrecordedKeeps
  <1>3. SupTypeOK'
    <2>1. vm' \in {"absent", "running", "stopped"} /\ destroys' \in Nat
      BY DEF Destroy, Inv, SupTypeOK
    <2>2. overlay' \in BOOLEAN
      BY DEF Destroy
    <2> QED  BY <1>2, <2>1, <2>2 DEF Destroy, Inv, SupTypeOK, countVars, localVars
  <1>4. HostState'
    BY <1>2 DEF Destroy, Inv, HostState, HostUp, Finished
  <1>5. VmState'
    BY <1>2 DEF Destroy, Inv, VmState, BeforeVm, WithVm, localVars
  <1> QED  BY <1>2, <1>3, <1>4, <1>5 DEF Inv

\* The VM exits if it was spawned, and then while it is live.
LEMMA ExitVmKeeps == ASSUME Inv, ExitVm PROVE Inv'
  <1>1. Unsealed /\ pc' \notin {"report", "reraise"} /\ UNCHANGED localVars
    BY DEF ExitVm, Unsealed
  <1>2. CASE vm_spawned
    <2>1. _emit_host("PROCESS_EXIT", V, H, None, FALSE)
      BY <1>2 DEF ExitVm, EmitPlain, H, V
    <2>2. Accepted("PROCESS_EXIT", V, H)
      BY <1>2 DEF ExitVm, Inv, HostState, VmState, HostUp, WithVm, Accepted, ActionTypes
    <2>3. Emitted("PROCESS_EXIT", V)
      BY <1>1, <2>1, <2>2, EmitKeeps, BandFacts
      DEF EventType, LifecycleTypes, ActionTypes, Capability
    <2>4. SupTypeOK'
      BY <2>3 DEF ExitVm, Emitted, Inv, SupTypeOK, localVars, backendVars
    <2>5. HostState'
      BY <2>3, BandFacts DEF ExitVm, Emitted, Inv, HostState, HostUp, Finished, Live
    <2>6. VmState'
      BY <1>2, <2>3, BandFacts, ExitedWasSpawned
      DEF ExitVm, Emitted, Inv, VmState, BeforeVm, WithVm, Live, localVars
    <2> QED  BY <2>3, <2>4, <2>5, <2>6 DEF Emitted, Inv
  <1>3. CASE ~vm_spawned
    <2>1. UNCHANGED <<ledgerVars, countVars>>
      BY <1>3 DEF ExitVm
    <2>2. /\ Recorded' = Recorded /\ RecordPlace' /\ BandIsHosts' /\ HostEventsClean'
          /\ UNCHANGED <<pending, next_sequence>>
      BY <1>1, <2>1, UnrecordedKeeps
    <2>3. SupTypeOK'
      BY <2>1, <2>2 DEF ExitVm, Inv, SupTypeOK, countVars, localVars, backendVars
    <2>4. HostState'
      BY <2>2 DEF ExitVm, Inv, HostState, HostUp, Finished
    <2>5. VmState'
      BY <1>3, <2>2 DEF ExitVm, Inv, VmState, BeforeVm, WithVm, localVars
    <2> QED  BY <2>2, <2>3, <2>4, <2>5 DEF Inv
  <1> QED  BY <1>2, <1>3

\* A timeout is recorded by the supervisor, which is still live.
LEMMA RecordTimeoutKeeps == ASSUME Inv, RecordTimeout PROVE Inv'
  <1>1. Unsealed /\ pc' \notin {"report", "reraise"} /\ UNCHANGED localVars
    BY DEF RecordTimeout, Unsealed
  <1>2. CASE result.timed_out
    <2>1. _emit_host("CAPABILITY_REQUEST", H, NO_PARENT, "PROCESS_SPAWN", FALSE)
      BY <1>2 DEF RecordTimeout, EmitPlain, H, V
    <2>2. Accepted("CAPABILITY_REQUEST", H, NO_PARENT)
      BY <1>2 DEF RecordTimeout, Inv, HostState, VmState, HostUp, WithVm, Accepted, ActionTypes
    <2>3. Emitted("CAPABILITY_REQUEST", H)
      BY <1>1, <2>1, <2>2, EmitKeeps, BandFacts
      DEF EventType, LifecycleTypes, ActionTypes, Capability
    <2>4. SupTypeOK'
      BY <2>3 DEF RecordTimeout, Emitted, Inv, SupTypeOK, localVars, backendVars
    <2>5. HostState'
      BY <2>3, BandFacts DEF RecordTimeout, Emitted, Inv, HostState, HostUp, Finished, Live
    <2>6. VmState'
      BY <1>2, <2>3, BandFacts, ExitedWasSpawned
      DEF RecordTimeout, Emitted, Inv, VmState, BeforeVm, WithVm, Live, localVars
    <2> QED  BY <2>3, <2>4, <2>5, <2>6 DEF Emitted, Inv
  <1>3. CASE ~result.timed_out
    <2>1. UNCHANGED <<ledgerVars, countVars>>
      BY <1>3 DEF RecordTimeout
    <2>2. /\ Recorded' = Recorded /\ RecordPlace' /\ BandIsHosts' /\ HostEventsClean'
          /\ UNCHANGED <<pending, next_sequence>>
      BY <1>1, <2>1, UnrecordedKeeps
    <2>3. SupTypeOK'
      BY <2>1, <2>2 DEF RecordTimeout, Inv, SupTypeOK, countVars, localVars, backendVars
    <2>4. HostState'
      BY <2>2 DEF RecordTimeout, Inv, HostState, HostUp, Finished
    <2>5. VmState'
      BY <1>3, <2>2 DEF RecordTimeout, Inv, VmState, BeforeVm, WithVm, localVars
    <2> QED  BY <2>2, <2>3, <2>4, <2>5 DEF Inv
  <1> QED  BY <1>2, <1>3

\* A refused spec ends the run before anything is recorded.
LEMMA ValidateKeeps == ASSUME Inv, Validate PROVE Inv'
  <1>1. Recorded = <<>> /\ blocks = <<>> /\ pending = <<>>
    BY DEF Validate, Inv, HostState, RecordPlace, Unsealed, Recorded
  <1>2. Recorded' = Recorded /\ UNCHANGED ledgerVars
    BY DEF Validate, Recorded, ledgerVars
  <1>3. RecordPlace' /\ BandIsHosts' /\ HostEventsClean'
    BY <1>1, <1>2 DEF Inv, RecordPlace, BandIsHosts, HostEventsClean, ledgerVars
  <1>4. SupTypeOK'
    BY <1>2 DEF Validate, Inv, SupTypeOK, ledgerVars, countVars, backendVars
  <1>5. HostState'
    BY <1>1, <1>2 DEF Validate, HostState, HostUp, Finished
  <1>6. VmState'
    BY <1>1, <1>2, EmptyLog DEF Validate, Inv, VmState, BeforeVm, WithVm
  <1> QED  BY <1>3, <1>4, <1>5, <1>6 DEF Inv

\* The hook: a broker decision is an event of the live supervisor ...
LEMMA DecisionKeeps == ASSUME Inv, AnyDecision PROVE Inv'
  <1>1. PICK cap \in Capability, granted \in BOOLEAN : emit_host_event(cap, granted)
    BY DEF AnyDecision
  <1>2. Unsealed /\ pc' \notin {"report", "reraise"}
        /\ _emit_host("CAPABILITY_REQUEST", H, NO_PARENT, cap, granted)
        /\ pc = "hook" /\ UNCHANGED <<pc, localVars, backendVars>>
    BY <1>1 DEF emit_host_event, Unsealed, H
  <1>3. Accepted("CAPABILITY_REQUEST", H, NO_PARENT)
    BY <1>2 DEF Inv, HostState, HostUp, Accepted, ActionTypes
  <1>4. Emitted("CAPABILITY_REQUEST", H)
    BY <1>2, <1>3, EmitKeeps, BandFacts DEF EventType, ActionTypes
  <1>5. SupTypeOK'
    BY <1>2, <1>4 DEF Emitted, Inv, SupTypeOK, localVars, backendVars
  <1>6. HostState'
    BY <1>2, <1>4 DEF Emitted, Inv, HostState, HostUp, Finished, Live
  <1>7. VmState'
    BY <1>2, <1>4 DEF Emitted, Inv, VmState, BeforeVm, WithVm, Live, localVars
  <1> QED  BY <1>4, <1>5, <1>6, <1>7 DEF Emitted, Inv

\* ... a claim is an event outside the host band, whatever it says ...
LEMMA GuestClaimKeeps ==
    ASSUME Inv, pc = "hook", NEW type \in EventType, NEW automatic \in BOOLEAN,
           NEW actor \in Nat, GuestClaim(type, automatic, actor),
           claims' = claims + 1, UNCHANGED <<vm_spawned, result, backendVars>>
    PROVE  Inv'
  <1>1. /\ ~is_host_observed(actor) /\ guest_events' = guest_events + 1
        /\ \E p \in Payloads(type) : Record(type, actor, NO_PARENT, p.cap, p.granted)
        /\ UNCHANGED <<host_events, pc, exc>>
        /\ next_guest_actor' = next_guest_actor + (IF automatic THEN 1 ELSE 0)
    BY DEF GuestClaim
  <1>2. PICK cap \in Capability \cup {None}, granted \in BOOLEAN :
           Record(type, actor, NO_PARENT, cap, granted)
    <2>1. PICK p \in Payloads(type) : Record(type, actor, NO_PARENT, p.cap, p.granted)
      BY <1>1
    <2>2. p \in Payload
      <3>1. NoPayload \in Payload
        BY DEF NoPayload, Payload
      <3>2. ClaimPayloads \subseteq Payload
        BY SupervisorAssumption
      <3>3. Payloads(type) \subseteq Payload
        BY <3>1, <3>2, Zenon DEF Payloads
      <3> QED  BY <2>1, <3>3
    <2>3. p.cap \in Capability \cup {None} /\ p.granted \in BOOLEAN
      BY <2>2 DEF Payload
    <2> QED  BY <2>1, <2>3, Zenon
  <1>3. Unsealed /\ pc' \notin {"report", "reraise"} /\ Recorded \in Seq(Event)
    BY <1>1 DEF Unsealed, Inv, RecordPlace
  <1>4. /\ \E e \in Event : /\ e.type = type /\ e.actor = actor /\ e.parent = NO_PARENT
                           /\ e.cap = cap /\ e.granted = granted
                           /\ Recorded' = Append(Recorded, e)
        /\ RecordPlace'
        /\ pending' \in Seq(Event) /\ next_sequence' \in Nat /\ seq' \in Nat
    BY <1>2, <1>3, BandFacts, RecordAppends DEF Inv
  <1>5. PICK e \in Event : e.type = type /\ e.actor = actor /\ Recorded' = Append(Recorded, e)
    BY <1>4
  <1>6. BandIsHosts' /\ HostEventsClean'
    BY <1>1, <1>3, <1>5, CleanAppend DEF Inv
  <1>7. actor # H /\ actor # V
    BY <1>1, BandFacts
  <1>8. /\ Spawned(Recorded', H) <=> Spawned(Recorded, H)
        /\ Exited(Recorded', H) <=> Exited(Recorded, H)
        /\ Spawned(Recorded', V) <=> Spawned(Recorded, V)
        /\ Exited(Recorded', V) <=> Exited(Recorded, V)
    BY <1>3, <1>5, <1>7, SpawnedAppend, ExitedAppend
  <1>9. SupTypeOK'
    <2>1. next_guest_actor' \in Nat /\ guest_events' \in Nat /\ claims' \in Nat
      BY <1>1 DEF Inv, SupTypeOK
    <2> QED  BY <1>1, <1>4, <2>1 DEF Inv, SupTypeOK, backendVars
  <1>10. HostState'
    BY <1>1, <1>8 DEF Inv, HostState, HostUp, Finished, Live
  <1>11. VmState'
    BY <1>1, <1>8 DEF Inv, VmState, BeforeVm, WithVm, Live
  <1> QED  BY <1>4, <1>6, <1>9, <1>10, <1>11 DEF Inv

\* ... and one inside it is not recorded.
LEMMA GuestClaimRefusedKeeps ==
    ASSUME Inv, pc = "hook", NEW automatic \in BOOLEAN, NEW actor \in Nat,
           GuestClaimRefused(automatic, actor),
           claims' = claims + 1, UNCHANGED <<vm_spawned, result, backendVars>>
    PROVE  Inv'
  <1>1. Unsealed /\ pc' \in {"hook", "destroy"} /\ exc' \in {exc, "policy"}
        /\ UNCHANGED <<ledgerVars, seq, host_events, guest_events>>
        /\ next_guest_actor' = next_guest_actor + (IF automatic THEN 1 ELSE 0)
    BY DEF GuestClaimRefused, Unsealed
  <1>2. /\ Recorded' = Recorded /\ RecordPlace' /\ BandIsHosts' /\ HostEventsClean'
        /\ UNCHANGED <<pending, next_sequence>>
    BY <1>1, UnrecordedKeeps
  <1>3. SupTypeOK'
    <2>1. next_guest_actor' \in Nat /\ claims' \in Nat
      BY <1>1 DEF Inv, SupTypeOK
    <2> QED  BY <1>1, <1>2, <2>1 DEF Inv, SupTypeOK, backendVars
  <1>4. HostState'
    BY <1>1, <1>2 DEF Inv, HostState, HostUp, Finished
  <1>5. VmState'
    BY <1>1, <1>2 DEF Inv, VmState, BeforeVm, WithVm
  <1> QED  BY <1>2, <1>3, <1>4, <1>5 DEF Inv

\* Every call of record_guest_claim is one or the other.
LEMMA ClaimKeeps == ASSUME Inv, record_guest_claim PROVE Inv'
  <1>1. pc = "hook" /\ claims' = claims + 1 /\ UNCHANGED <<vm_spawned, result, backendVars>>
    BY DEF record_guest_claim
  <1>2. PICK automatic \in BOOLEAN :
           \E actor \in (IF automatic THEN {next_guest_actor} ELSE ExplicitActors) :
              \/ \E type \in ClaimTypes : GuestClaim(type, automatic, actor)
              \/ GuestClaimRefused(automatic, actor)
    BY DEF record_guest_claim
  <1>a. PICK actor \in (IF automatic THEN {next_guest_actor} ELSE ExplicitActors) :
           \/ \E type \in ClaimTypes : GuestClaim(type, automatic, actor)
           \/ GuestClaimRefused(automatic, actor)
    BY <1>2
  <1>3. actor \in Nat /\ ClaimTypes \subseteq EventType
    BY SupervisorAssumption DEF Inv, SupTypeOK
  <1>4. CASE \E type \in ClaimTypes : GuestClaim(type, automatic, actor)
    BY <1>1, <1>3, <1>4, GuestClaimKeeps
  <1>5. CASE GuestClaimRefused(automatic, actor)
    BY <1>1, <1>3, <1>5, GuestClaimRefusedKeeps
  <1> QED  BY <1>a, <1>4, <1>5

\* Sealing moves the record into the block and changes nothing of it.
LEMMA SealKeeps == ASSUME Inv, Seal PROVE Inv'
  <1>1. pc = "seal" /\ pc' \in {"report", "reraise"} /\ L!seal_block
        /\ UNCHANGED <<countVars, localVars, backendVars>>
    BY DEF Seal
  <1>2. blocks = <<>> /\ Recorded = pending /\ pending \in Seq(Event)
    BY <1>1 DEF Inv, SupTypeOK, RecordPlace, Unsealed, Recorded
  <1>3. blocks' = Append(<<>>, L!NewBlock(<<>>, pending)) /\ pending' = <<>>
        /\ next_sequence' = next_sequence
    BY <1>1, <1>2 DEF L!seal_block
  <1>4. Recorded' = Recorded
    BY <1>2, <1>3 DEF Recorded, L!NewBlock
  <1>5. RecordPlace' /\ BandIsHosts' /\ HostEventsClean'
    BY <1>1, <1>2, <1>3, <1>4 DEF Inv, RecordPlace, BandIsHosts, HostEventsClean, Unsealed
  <1>6. SupTypeOK'
    BY <1>1, <1>3 DEF Inv, SupTypeOK, countVars, localVars, backendVars
  <1>7. HostState'
    BY <1>1, <1>4 DEF Inv, HostState, HostUp, Finished
  <1>8. VmState'
    BY <1>1, <1>4 DEF Inv, VmState, BeforeVm, WithVm, localVars
  <1> QED  BY <1>5, <1>6, <1>7, <1>8 DEF Inv

\* Every step of a run keeps the invariant, and stuttering does.
THEOREM StepInv == Inv /\ [RunNext]_supVars => Inv'
  <1> SUFFICES ASSUME Inv, [RunNext]_supVars PROVE Inv'
    OBVIOUS
  <1>1. CASE RunStep
    BY <1>1, ValidateKeeps, BeginRunKeeps, SpawnHostKeeps, MeasureKeeps, RecordImagesKeeps,
       PrepareOverlayKeeps, WriteConfigKeeps, SpawnVmKeeps, BootKeeps, WaitKeeps,
       BackendFailsKeeps, HookEndsKeeps, DestroyKeeps, ExitVmKeeps, RecordTimeoutKeeps,
       ExitHostKeeps, EndRunKeeps, SealKeeps DEF RunStep
  <1>2. CASE record_guest_claim
    BY <1>2, ClaimKeeps
  <1>3. CASE AnyDecision
    BY <1>3, DecisionKeeps
  <1>4. CASE UNCHANGED supVars
    BY <1>4 DEF supVars, ledgerVars, countVars, localVars, backendVars, Inv, SupTypeOK,
       RecordPlace, Unsealed, HostState, Finished, VmState, BandIsHosts, HostEventsClean, Recorded
  <1> QED  BY <1>1, <1>2, <1>3, <1>4 DEF RunNext

-------------------------------------------------------------------------------
\* The bound on decisions only leaves steps out.
LEMMA BoundedRun == [SupNext]_supVars => [RunNext]_supVars
  BY DEF SupNext, RunNext, BrokerDecides, AnyDecision

\* So it always holds.
THEOREM InvHolds == SupSpec => []Inv
  <1> QED  BY InitInv, StepInv, BoundedRun, PTL DEF SupSpec

\* The variables of a run always hold what their names say.
THEOREM TypeCorrect == SupSpec => []SupTypeOK
  <1>1. Inv => SupTypeOK
    BY DEF Inv
  <1> QED  BY <1>1, InvHolds, PTL

\* The parts of the host's lineage are in the invariant.
LEMMA InvIsClean == Inv => HostLineageClean
  <1>1. ASSUME Inv, Finished, NEW i \in DOMAIN Recorded, is_host_observed(Recorded[i].actor)
        PROVE  ~IsDormantSpawn(Recorded, i)
    <2> DEFINE a == Recorded[i].actor
    <2>1. a = H \/ a = V
      BY <1>1 DEF Inv, BandIsHosts
    <2>2. Recorded # <<>>
      BY <1>1
    <2>3. CASE a = H
      BY <1>1, <2>2, <2>3 DEF Inv, HostState, IsDormantSpawn, LiveBefore, Exited
    <2>4. CASE a = V
      BY <1>1, <2>4 DEF Inv, VmState, WithVm, Finished, IsDormantSpawn, LiveBefore, Exited, Spawned
    <2> QED  BY <2>1, <2>3, <2>4
  <1> QED  BY <1>1 DEF Inv, HostLineageClean, HostNeverDormant

\* Whatever fails and whatever the guest claims, in any number: Gate 1 finds
\* nothing wrong with an event of the host band, and no actor of the host band
\* is live when the run is over.
THEOREM HostLineageIsClean == SupSpec => []HostLineageClean
  BY InvIsClean, InvHolds, PTL

-------------------------------------------------------------------------------
\* One step puts at most one event into the record, and counts it.
GrowsBy(type, actor) ==
    \E e \in Event :
        /\ e.type = type /\ e.actor = actor
        /\ Recorded' = Append(Recorded, e)
        /\ seq' = seq + 1 /\ next_sequence' = next_sequence + 1
        /\ IF is_host_observed(actor)
           THEN host_events' = host_events + 1 /\ guest_events' = guest_events
           ELSE host_events' = host_events /\ guest_events' = guest_events + 1
Still == UNCHANGED <<Recorded, seq, next_sequence, host_events, guest_events>>

\* What of the backend exists at which statement.
BeforeDestroy == BeforeVm \cup WithVm \cup {"destroy"}
AfterDestroy == {"exit_vm", "record_timeout", "exit_host", "run_end", "seal"}
Backend ==
    /\ pc \in BeforeVm \cup {"boot"} => vm = "absent"
    /\ pc \in BeforeVm \ {"write_config", "spawn_vm"} => ~overlay
    /\ pc \in BeforeDestroy => destroys = 0
    /\ pc \in AfterDestroy => destroys = 1 /\ vm # "running" /\ ~overlay
    /\ vm = "running" => vm_spawned

\* What the record shows by then.
Measured ==
    \E i \in DOMAIN Recorded :
        Recorded[i].type = "FILE_MUTATION" /\ Recorded[i].actor = H
MeasuredThenSpawned ==
    \E i, j \in DOMAIN Recorded :
        /\ i < j
        /\ Recorded[i].type = "FILE_MUTATION" /\ Recorded[i].actor = H
        /\ IsSpawn(Recorded, j, V)
Closed == Recorded # <<>> /\ Recorded[Len(Recorded)].type = "RUN_END"

Refused == Recorded = <<>> /\ exc = "policy" /\ vm = "absent" /\ ~overlay /\ destroys = 0
TornDown == Closed /\ vm # "running" /\ ~overlay /\ destroys = 1

Story ==
    /\ pc \in {"prepare_overlay", "write_config", "spawn_vm"} => Measured
    /\ vm_spawned => MeasuredThenSpawned
    /\ pc = "seal" => Closed
    /\ Finished => Refused \/ TornDown

RunInv == Inv /\ ProvenanceKept /\ Backend /\ Story

-------------------------------------------------------------------------------
\* Record is one event more, numbered alike by the supervisor and the ledger.
LEMMA RecordGrows ==
    ASSUME Inv, Unsealed, pc' \notin {"report", "reraise"},
           NEW type \in EventType, NEW actor \in Nat, NEW parent \in Nat,
           NEW cap \in Capability \cup {None}, NEW granted \in BOOLEAN,
           Record(type, actor, parent, cap, granted),
           IF is_host_observed(actor)
           THEN host_events' = host_events + 1 /\ guest_events' = guest_events
           ELSE host_events' = host_events /\ guest_events' = guest_events + 1
    PROVE  GrowsBy(type, actor)
  <1>1. \E e \in Event : /\ e.type = type /\ e.actor = actor /\ e.parent = parent
                         /\ Recorded' = Append(Recorded, e)
    BY RecordAppends DEF Inv
  <1>2. seq' = seq + 1 /\ next_sequence' = next_sequence + 1
    BY DEF Record, L!append
  <1> QED  BY <1>1, <1>2 DEF GrowsBy

\* What the supervisor emits, as itself or as its VM, counts as its own.
LEMMA EmitGrows ==
    ASSUME Inv, Unsealed, pc' \notin {"report", "reraise"},
           NEW type \in EventType, NEW actor \in {H, V}, NEW parent \in Nat,
           NEW cap \in Capability \cup {None}, NEW granted \in BOOLEAN,
           _emit_host(type, actor, parent, cap, granted)
    PROVE  GrowsBy(type, actor)
  <1>1. actor \in Nat /\ is_host_observed(actor)
    BY BandFacts
  <1>2. Record(type, actor, parent, cap, granted) /\ host_events' = host_events + 1
        /\ guest_events' = guest_events
    BY DEF _emit_host
  <1> QED  BY <1>1, <1>2, RecordGrows

\* The same of an event without a payload.
LEMMA PlainGrows ==
    ASSUME Inv, Unsealed, pc' \notin {"report", "reraise"},
           NEW type \in EventType, NEW actor \in {H, V}, NEW parent \in Nat,
           EmitPlain(type, actor, parent)
    PROVE  GrowsBy(type, actor)
  BY EmitGrows DEF EmitPlain

\* A step that touches neither the ledger nor the counters.
LEMMA QuietIsStill ==
    ASSUME UNCHANGED ledgerVars, UNCHANGED <<seq, host_events, guest_events>>
    PROVE  Still
  BY DEF Still, Recorded, ledgerVars

\* A claim counts as the guest's, or is not recorded.
LEMMA ClaimGrows ==
    ASSUME Inv, record_guest_claim
    PROVE  Still \/ \E type \in EventType, actor \in Nat : GrowsBy(type, actor)
  <1>1. PICK automatic \in BOOLEAN :
           \E actor \in (IF automatic THEN {next_guest_actor} ELSE ExplicitActors) :
              \/ \E type \in ClaimTypes : GuestClaim(type, automatic, actor)
              \/ GuestClaimRefused(automatic, actor)
    BY DEF record_guest_claim
  <1>2. PICK actor \in (IF automatic THEN {next_guest_actor} ELSE ExplicitActors) :
           \/ \E type \in ClaimTypes : GuestClaim(type, automatic, actor)
           \/ GuestClaimRefused(automatic, actor)
    BY <1>1
  <1>3. actor \in Nat /\ ClaimTypes \subseteq EventType
    BY SupervisorAssumption DEF Inv, SupTypeOK
  <1>4. ASSUME NEW type \in ClaimTypes, GuestClaim(type, automatic, actor)
        PROVE  GrowsBy(type, actor)
    <2>1. /\ ~is_host_observed(actor) /\ guest_events' = guest_events + 1
          /\ host_events' = host_events /\ pc' = pc /\ pc = "hook"
      BY <1>4 DEF GuestClaim, record_guest_claim
    <2>2. PICK p \in Payloads(type) : Record(type, actor, NO_PARENT, p.cap, p.granted)
      BY <1>4 DEF GuestClaim
    <2>3. Payloads(type) \subseteq Payload
      <3>1. NoPayload \in Payload
        BY DEF NoPayload, Payload
      <3>2. ClaimPayloads \subseteq Payload
        BY SupervisorAssumption
      <3> QED  BY <3>1, <3>2, Zenon DEF Payloads
    <2>4. p.cap \in Capability \cup {None} /\ p.granted \in BOOLEAN
      BY <2>2, <2>3 DEF Payload
    <2>5. Unsealed /\ pc' \notin {"report", "reraise"}
      BY <2>1 DEF Unsealed
    <2>6. type \in EventType /\ NO_PARENT \in Nat
      BY <1>3, BandFacts
    <2> QED  BY <1>3, <2>1, <2>2, <2>4, <2>5, <2>6, RecordGrows
  <1>5. CASE GuestClaimRefused(automatic, actor)
    BY <1>5, QuietIsStill DEF GuestClaimRefused
  <1> QED  BY <1>2, <1>3, <1>4, <1>5

\* Sealing leaves the record alone.
LEMMA SealIsStill == ASSUME Inv, Seal PROVE Still
  <1>1. pc = "seal" /\ L!seal_block /\ UNCHANGED countVars
    BY DEF Seal
  <1>2. blocks = <<>> /\ Recorded = pending
    BY <1>1 DEF Inv, RecordPlace, Unsealed, Recorded
  <1>3. blocks' = Append(<<>>, L!NewBlock(<<>>, pending)) /\ next_sequence' = next_sequence
    BY <1>1, <1>2 DEF L!seal_block
  <1>4. Recorded' = Recorded
    BY <1>2, <1>3 DEF Recorded, L!NewBlock
  <1> QED  BY <1>1, <1>3, <1>4 DEF Still, countVars

\* Which event each statement of run() records, if any.
LEMMA StatementGrows ==
    ASSUME Inv, RunStep
    PROVE  /\ RecordImages => GrowsBy("FILE_MUTATION", H)
           /\ SpawnVm => GrowsBy("PROCESS_SPAWN", V)
           /\ EndRun => GrowsBy("RUN_END", H)
           /\ Still \/ \E type \in EventType, actor \in Nat : GrowsBy(type, actor)
  <1> USE BandFacts DEF EventType, Markers, LifecycleTypes, ActionTypes
  <1>1. CASE BeginRun
    <2>1. GrowsBy("RUN_BEGIN", H)
      BY <1>1, PlainGrows DEF BeginRun, Unsealed, H
    <2> QED  BY <1>1, <2>1 DEF BeginRun, RecordImages, SpawnVm, EndRun
  <1>2. CASE SpawnHost
    <2>1. GrowsBy("PROCESS_SPAWN", H)
      BY <1>2, PlainGrows DEF SpawnHost, Unsealed, H
    <2> QED  BY <1>2, <2>1 DEF SpawnHost, RecordImages, SpawnVm, EndRun
  <1>3. CASE RecordImages
    <2>1. GrowsBy("FILE_MUTATION", H)
      BY <1>3, PlainGrows DEF RecordImages, Unsealed, H
    <2> QED  BY <1>3, <2>1 DEF RecordImages, SpawnVm, EndRun
  <1>4. CASE SpawnVm
    <2>1. GrowsBy("PROCESS_SPAWN", V)
      BY <1>4, PlainGrows DEF SpawnVm, Unsealed, H, V
    <2> QED  BY <1>4, <2>1 DEF RecordImages, SpawnVm, EndRun
  <1>5. CASE ExitVm
    <2>1. CASE vm_spawned
      <3>1. GrowsBy("PROCESS_EXIT", V)
        BY <1>5, <2>1, PlainGrows DEF ExitVm, Unsealed, H, V
      <3> QED  BY <1>5, <3>1 DEF ExitVm, RecordImages, SpawnVm, EndRun
    <2>2. CASE ~vm_spawned
      BY <1>5, <2>2, QuietIsStill DEF ExitVm, RecordImages, SpawnVm, EndRun, countVars
    <2> QED  BY <2>1, <2>2
  <1>6. CASE RecordTimeout
    <2>1. CASE result.timed_out
      <3>1. GrowsBy("CAPABILITY_REQUEST", H)
        BY <1>6, <2>1, EmitGrows DEF RecordTimeout, Unsealed, H, Capability
      <3> QED  BY <1>6, <3>1 DEF RecordTimeout, RecordImages, SpawnVm, EndRun
    <2>2. CASE ~result.timed_out
      BY <1>6, <2>2, QuietIsStill DEF RecordTimeout, RecordImages, SpawnVm, EndRun, countVars
    <2> QED  BY <2>1, <2>2
  <1>7. CASE ExitHost
    <2>1. GrowsBy("PROCESS_EXIT", H)
      BY <1>7, PlainGrows DEF ExitHost, Unsealed, H
    <2> QED  BY <1>7, <2>1 DEF ExitHost, RecordImages, SpawnVm, EndRun
  <1>8. CASE EndRun
    <2>1. GrowsBy("RUN_END", H)
      BY <1>8, PlainGrows DEF EndRun, Unsealed, H
    <2> QED  BY <1>8, <2>1 DEF RecordImages, SpawnVm, EndRun
  <1>9. CASE Seal
    BY <1>9, SealIsStill DEF Seal, RecordImages, SpawnVm, EndRun
  <1>10. CASE Validate \/ Measure \/ PrepareOverlay \/ WriteConfig \/ Boot
    BY <1>10, QuietIsStill
    DEF Validate, Measure, PrepareOverlay, WriteConfig, Boot, countVars,
        RecordImages, SpawnVm, EndRun
  <1>11. CASE Wait \/ BackendFails \/ HookEnds \/ Destroy
    BY <1>11, QuietIsStill
    DEF Wait, BackendFails, HookEnds, Destroy, countVars, RecordImages, SpawnVm, EndRun
  <1> QED  BY <1>1, <1>2, <1>3, <1>4, <1>5, <1>6, <1>7, <1>8, <1>9, <1>10, <1>11 DEF RunStep

\* In all, a step of a run records one event or none.
LEMMA StepGrows ==
    ASSUME Inv, [RunNext]_supVars
    PROVE  Still \/ \E type \in EventType, actor \in Nat : GrowsBy(type, actor)
  <1>1. CASE AnyDecision
    <2>1. PICK cap \in Capability, granted \in BOOLEAN : emit_host_event(cap, granted)
      BY <1>1 DEF AnyDecision
    <2>2. GrowsBy("CAPABILITY_REQUEST", H)
      BY <2>1, EmitGrows, BandFacts DEF emit_host_event, Unsealed, H, EventType, ActionTypes
    <2> QED  BY <2>2, BandFacts DEF EventType, ActionTypes
  <1>2. CASE UNCHANGED supVars
    BY <1>2, QuietIsStill DEF supVars, countVars
  <1> QED  BY <1>1, <1>2, StatementGrows, ClaimGrows DEF RunNext

-------------------------------------------------------------------------------
\* The indices of a log's host events, or of the others.
OnSide(log, host) == {i \in DOMAIN log : is_host_observed(log[i].actor) = host}

\* One index more to count, on the side of the new event.
LEMMA CountAppended ==
    ASSUME NEW log \in Seq(Event), NEW e \in Event, NEW host \in BOOLEAN
    PROVE  /\ Cardinality(OnSide(log, host)) \in Nat
           /\ Cardinality(OnSide(Append(log, e), host)) =
                 IF is_host_observed(e.actor) = host
                 THEN Cardinality(OnSide(log, host)) + 1
                 ELSE Cardinality(OnSide(log, host))
  <1> DEFINE n == Len(log) + 1
  <1>1. /\ Len(log) \in Nat /\ DOMAIN log = 1..Len(log) /\ DOMAIN Append(log, e) = 1..n
        /\ Append(log, e)[n] = e /\ \A j \in 1..Len(log) : Append(log, e)[j] = log[j]
    BY AppendKeeps
  <1>2. IsFiniteSet(1..Len(log))
    BY <1>1, FS_Interval
  <1>3. IsFiniteSet(OnSide(log, host)) /\ n \notin OnSide(log, host)
    BY <1>1, <1>2, FS_Subset DEF OnSide
  <1>4. /\ Cardinality(OnSide(log, host)) \in Nat
        /\ Cardinality(OnSide(log, host) \cup {n}) = Cardinality(OnSide(log, host)) + 1
    BY <1>3, FS_CardinalityType, FS_AddElement
  <1>5. OnSide(Append(log, e), host) =
           IF is_host_observed(e.actor) = host THEN OnSide(log, host) \cup {n}
           ELSE OnSide(log, host)
    BY <1>1 DEF OnSide
  <1> QED  BY <1>4, <1>5

\* Nothing is counted twice or on the wrong side, and no number is skipped.
LEMMA CountsKept ==
    ASSUME Inv, ProvenanceKept,
           Still \/ \E type \in EventType, actor \in Nat : GrowsBy(type, actor)
    PROVE  ProvenanceKept'
  <1>1. CASE Still
    BY <1>1 DEF Still, ProvenanceKept, CountedAs
  <1>2. ASSUME NEW type \in EventType, NEW actor \in Nat, GrowsBy(type, actor)
        PROVE  ProvenanceKept'
    <2>1. PICK e \in Event : e.actor = actor /\ Recorded' = Append(Recorded, e)
      BY <1>2 DEF GrowsBy
    <2>2. Recorded \in Seq(Event) /\ Len(Recorded') = Len(Recorded) + 1
      BY <2>1, AppendKeeps DEF Inv, RecordPlace
    <2>3. /\ CountedAs(TRUE) = Cardinality(OnSide(Recorded, TRUE))
          /\ CountedAs(FALSE) = Cardinality(OnSide(Recorded, FALSE))
          /\ CountedAs(TRUE)' = Cardinality(OnSide(Recorded', TRUE))
          /\ CountedAs(FALSE)' = Cardinality(OnSide(Recorded', FALSE))
      BY DEF CountedAs, OnSide
    <2>4. /\ CountedAs(TRUE)' = IF is_host_observed(actor) = TRUE THEN CountedAs(TRUE) + 1
                                ELSE CountedAs(TRUE)
          /\ CountedAs(FALSE)' = IF is_host_observed(actor) = FALSE THEN CountedAs(FALSE) + 1
                                 ELSE CountedAs(FALSE)
      BY <2>1, <2>2, <2>3, CountAppended
    <2>5. CountedAs(TRUE)' = host_events' /\ CountedAs(FALSE)' = guest_events'
      <3>1. CASE is_host_observed(actor)
        BY <1>2, <2>4, <3>1 DEF GrowsBy, ProvenanceKept
      <3>2. CASE ~is_host_observed(actor)
        <4>1. is_host_observed(actor) = FALSE
          BY <3>2 DEF is_host_observed
        <4> QED  BY <1>2, <2>4, <4>1 DEF GrowsBy, ProvenanceKept
      <3> QED  BY <3>1, <3>2
    <2>6. seq' = next_sequence' /\ seq' = Len(Recorded')
      BY <1>2, <2>2 DEF GrowsBy, ProvenanceKept
    <2> QED  BY <2>5, <2>6 DEF ProvenanceKept
  <1> QED  BY <1>1, <1>2

\* What the record shows it goes on showing.
LEMMA StoryStays ==
    ASSUME Inv, Still \/ \E type \in EventType, actor \in Nat : GrowsBy(type, actor)
    PROVE  /\ Len(Recorded) <= Len(Recorded')
           /\ \A i \in DOMAIN Recorded : i \in DOMAIN Recorded' /\ Recorded'[i] = Recorded[i]
           /\ Measured => Measured'
           /\ MeasuredThenSpawned => MeasuredThenSpawned'
  <1>1. Recorded \in Seq(Event)
    BY DEF Inv, RecordPlace
  <1>2. /\ Len(Recorded) <= Len(Recorded')
        /\ \A i \in DOMAIN Recorded : i \in DOMAIN Recorded' /\ Recorded'[i] = Recorded[i]
    <2>1. CASE Still
      BY <1>1, <2>1 DEF Still
    <2>2. ASSUME NEW type \in EventType, NEW actor \in Nat, GrowsBy(type, actor)
          PROVE  /\ Len(Recorded) <= Len(Recorded')
                 /\ \A i \in DOMAIN Recorded : i \in DOMAIN Recorded' /\ Recorded'[i] = Recorded[i]
      <3>1. PICK e \in Event : Recorded' = Append(Recorded, e)
        BY <2>2 DEF GrowsBy
      <3> QED  BY <1>1, <3>1, AppendKeeps
    <2> QED  BY <2>1, <2>2
  <1>3. Measured => Measured'
    BY <1>2 DEF Measured, H
  <1>4. MeasuredThenSpawned => MeasuredThenSpawned'
    BY <1>2 DEF MeasuredThenSpawned, IsSpawn, H, V
  <1> QED  BY <1>2, <1>3, <1>4

\* The backend's process, overlay and teardown follow the statements.
LEMMA BackendKept ==
    ASSUME Inv, Backend, [RunNext]_supVars
    PROVE  Backend'
  <1> USE DEF Backend, BeforeVm, WithVm, BeforeDestroy, AfterDestroy
  <1>1. CASE Validate \/ BeginRun \/ SpawnHost \/ Measure \/ RecordImages \/ PrepareOverlay
    BY <1>1
    DEF Validate, BeginRun, SpawnHost, Measure, RecordImages, PrepareOverlay, backendVars,
        localVars, Inv, VmState
  <1>2. CASE WriteConfig \/ SpawnVm \/ Boot \/ Wait \/ HookEnds
    BY <1>2
    DEF WriteConfig, SpawnVm, Boot, Wait, HookEnds, backendVars, localVars, Inv, VmState
  <1>3. CASE BackendFails
    BY <1>3 DEF BackendFails, Inv, VmState
  <1>4. CASE Destroy
    <2>1. destroys' = 1 /\ vm' # "running" /\ ~overlay' /\ pc' = "exit_vm"
      BY <1>4 DEF Destroy
    <2> QED  BY <2>1
  <1>8. CASE ExitVm \/ RecordTimeout \/ ExitHost \/ EndRun \/ Seal
    <2>1. /\ pc \in AfterDestroy /\ UNCHANGED <<vm_spawned, vm, overlay, destroys>>
          /\ pc' \in AfterDestroy \cup {"report", "reraise"}
      BY <1>8 DEF ExitVm, RecordTimeout, ExitHost, EndRun, Seal, backendVars, localVars
    <2> QED  BY <2>1
  <1>5. CASE record_guest_claim
    <2>1. pc = "hook" /\ pc' \in {"hook", "destroy"} /\ UNCHANGED <<vm_spawned, backendVars>>
      BY <1>5 DEF record_guest_claim, GuestClaim, GuestClaimRefused
    <2> QED  BY <2>1 DEF backendVars
  <1>6. CASE AnyDecision
    BY <1>6 DEF AnyDecision, emit_host_event, localVars, backendVars
  <1>7. CASE UNCHANGED supVars
    BY <1>7 DEF supVars, localVars, backendVars
  <1> QED  BY <1>1, <1>2, <1>3, <1>4, <1>5, <1>6, <1>7, <1>8 DEF RunNext, RunStep

\* The record tells the images before the VM, and closes with RUN_END.
LEMMA StoryKept ==
    ASSUME Inv, Backend, Story, [RunNext]_supVars
    PROVE  Story'
  <1>1. Measured => Measured'
    BY StepGrows, StoryStays
  <1>2. MeasuredThenSpawned => MeasuredThenSpawned'
    BY StepGrows, StoryStays
  <1>3. CASE Validate
    <2>1. Recorded' = Recorded /\ Recorded = <<>> /\ ~vm_spawned
      BY <1>3 DEF Validate, Inv, HostState, VmState, BeforeVm, ledgerVars, Recorded
    <2> QED  BY <1>3, <2>1
             DEF Validate, Story, Finished, Refused, Backend, BeforeVm, BeforeDestroy, backendVars
  <1>4. CASE RecordImages
    <2>1. PICK e \in Event : e.type = "FILE_MUTATION" /\ e.actor = H
                             /\ Recorded' = Append(Recorded, e)
      BY <1>4, StatementGrows DEF GrowsBy, RunStep
    <2>2. Measured'
      BY <2>1, AppendKeeps DEF Measured, Inv, RecordPlace, H
    <2> QED  BY <1>4, <2>2 DEF RecordImages, Story, Finished, Inv, VmState, BeforeVm, localVars
  <1>5. CASE SpawnVm
    <2>1. PICK e \in Event : e.type = "PROCESS_SPAWN" /\ e.actor = V
                             /\ Recorded' = Append(Recorded, e)
      BY <1>5, StatementGrows DEF GrowsBy, RunStep
    <2>2. PICK i \in DOMAIN Recorded :
             Recorded[i].type = "FILE_MUTATION" /\ Recorded[i].actor = H
      BY <1>5 DEF SpawnVm, Story, Measured
    <2>3. /\ i \in DOMAIN Recorded' /\ Recorded'[i] = Recorded[i] /\ i < Len(Recorded')
          /\ Len(Recorded') \in DOMAIN Recorded' /\ Recorded'[Len(Recorded')] = e
      BY <2>1, <2>2, AppendKeeps DEF Inv, RecordPlace
    <2>4. MeasuredThenSpawned'
      BY <2>1, <2>2, <2>3 DEF MeasuredThenSpawned, IsSpawn, H, V
    <2> QED  BY <1>5, <2>4 DEF SpawnVm, Story, Finished
  <1>6. CASE EndRun
    <2>1. PICK e \in Event : e.type = "RUN_END" /\ Recorded' = Append(Recorded, e)
      BY <1>6, StatementGrows DEF GrowsBy, RunStep
    <2>2. Closed'
      BY <2>1, AppendKeeps DEF Closed, Inv, RecordPlace
    <2> QED  BY <1>2, <1>6, <2>2 DEF EndRun, Story, Finished, localVars
  <1>7. CASE Seal
    <2>1. Recorded' = Recorded /\ Closed
      BY <1>7, SealIsStill DEF Seal, Still, Story
    <2>2. TornDown'
      BY <1>7, <2>1 DEF Seal, TornDown, Closed, Backend, AfterDestroy, backendVars
    <2> QED  BY <1>2, <1>7, <2>2 DEF Seal, Story, Finished, localVars
  <1>8. CASE BeginRun \/ SpawnHost \/ Measure
    BY <1>2, <1>8 DEF BeginRun, SpawnHost, Measure, Story, Finished, localVars
  <1>9. CASE PrepareOverlay \/ WriteConfig \/ Boot \/ Wait \/ BackendFails
    <2>1. pc' \in {"write_config", "spawn_vm"} => Measured
      BY <1>9 DEF PrepareOverlay, WriteConfig, Boot, Wait, BackendFails, Story
    <2>2. vm_spawned' = vm_spawned
          /\ pc' \notin {"prepare_overlay", "seal", "report", "reraise"}
      BY <1>9 DEF PrepareOverlay, WriteConfig, Boot, Wait, BackendFails, localVars
    <2> QED  BY <1>1, <1>2, <2>1, <2>2 DEF Story, Finished
  <1>10. CASE HookEnds \/ Destroy \/ ExitVm \/ RecordTimeout \/ ExitHost
    <2>1. vm_spawned' = vm_spawned
          /\ pc' \in {"wait", "destroy", "exit_vm", "record_timeout", "exit_host", "run_end"}
      BY <1>10 DEF HookEnds, Destroy, ExitVm, RecordTimeout, ExitHost, localVars
    <2> QED  BY <1>2, <2>1 DEF Story, Finished
  <1>11. CASE record_guest_claim
    <2>1. pc' \in {"hook", "destroy"} /\ vm_spawned' = vm_spawned
      BY <1>11 DEF record_guest_claim, GuestClaim, GuestClaimRefused
    <2> QED  BY <1>2, <2>1 DEF Story, Finished
  <1>12. CASE AnyDecision
    BY <1>2, <1>12 DEF AnyDecision, emit_host_event, localVars, Story, Finished
  <1>13. CASE UNCHANGED supVars
    <2>1. Recorded' = Recorded
      BY <1>13 DEF supVars, ledgerVars, Recorded
    <2> QED  BY <1>13, <2>1
             DEF supVars, localVars, backendVars, Story, Finished, Measured,
                 MeasuredThenSpawned, Closed, Refused, TornDown, IsSpawn
  <1> QED  BY <1>3, <1>4, <1>5, <1>6, <1>7, <1>8, <1>9, <1>10, <1>11, <1>12, <1>13
           DEF RunNext, RunStep

-------------------------------------------------------------------------------
\* The run's invariant holds at the start, when nothing is recorded ...
THEOREM InitRunInv == SupInit => RunInv
  <1> SUFFICES ASSUME SupInit PROVE RunInv
    OBVIOUS
  <1>1. Recorded = <<>> /\ seq = 0 /\ next_sequence = 0 /\ host_events = 0 /\ guest_events = 0
    BY DEF SupInit, L!LedgerInit, Recorded
  <1>2. CountedAs(TRUE) = 0 /\ CountedAs(FALSE) = 0
    BY <1>1, FS_EmptySet DEF CountedAs
  <1>3. ProvenanceKept
    BY <1>1, <1>2 DEF ProvenanceKept
  <1>4. Backend
    BY DEF SupInit, Backend, BeforeVm, WithVm, BeforeDestroy, AfterDestroy
  <1>5. Story
    BY DEF SupInit, Story, Finished
  <1> QED  BY <1>3, <1>4, <1>5, InitInv DEF RunInv

\* ... and every step keeps it.
THEOREM StepRunInv == RunInv /\ [RunNext]_supVars => RunInv'
  <1> SUFFICES ASSUME RunInv, [RunNext]_supVars PROVE RunInv'
    OBVIOUS
  <1> QED  BY StepInv, StepGrows, CountsKept, BackendKept, StoryKept DEF RunInv

\* So it always holds.
THEOREM RunInvHolds == SupSpec => []RunInv
  <1> QED  BY InitRunInv, StepRunInv, BoundedRun, PTL DEF SupSpec

\* The host band's events are exactly those the supervisor counted as its
\* own, the others exactly the accepted claims, and the supervisor's numbers
\* are the ledger's, however many claims and decisions there are.
THEOREM ProvenanceIsKept == SupSpec => []ProvenanceKept
  <1>1. RunInv => ProvenanceKept
    BY DEF RunInv
  <1> QED  BY <1>1, RunInvHolds, PTL

\* While a VM runs, the record shows its images and then its open spawn; its
\* exit is recorded after the teardown only.
THEOREM LedgerAlwaysShowsVm == SupSpec => []LedgerShowsVm
  <1> SUFFICES ASSUME RunInv PROVE LedgerShowsVm
    BY RunInvHolds, PTL
  <1>1. pc \in BeforeVm \cup WithVm \cup {"destroy"} \cup AfterDestroy \cup {"report", "reraise"}
    BY DEF RunInv, Inv, SupTypeOK, BeforeVm, WithVm, AfterDestroy
  <1>2. ASSUME vm = "running"
        PROVE  vm_spawned /\ pc \in WithVm \cup {"destroy", "exit_vm"}
    BY <1>1, <1>2 DEF RunInv, Backend, Story, Finished, Refused, TornDown
  <1>3. vm = "running" => Live(Recorded, V)
    BY <1>2 DEF RunInv, Inv, VmState
  <1>4. vm = "running" => MeasuredThenSpawned
    BY <1>2 DEF RunInv, Story
  <1>5. ASSUME Exited(Recorded, V) PROVE destroys > 0
    <2>1. vm_spawned /\ Recorded # <<>>
      BY <1>5, ExitedWasSpawned, EmptyLog DEF RunInv, Inv, VmState
    <2>2. pc \notin BeforeVm /\ pc \notin WithVm \cup {"destroy", "exit_vm"}
      BY <1>5, <2>1 DEF RunInv, Inv, VmState, Live
    <2>3. destroys = 1
      BY <1>1, <2>1, <2>2 DEF RunInv, Backend, Story, Finished, Refused, TornDown
    <2> QED  BY <2>3
  <1> QED  BY <1>3, <1>4, <1>5
           DEF LedgerShowsVm, LiveBefore, Live, Spawned, Exited, MeasuredThenSpawned, H, V

\* A run that began ends torn down, destroyed once, with a sealed record that
\* closes with RUN_END, whatever failed; a refused spec leaves no trace.
THEOREM RunsEndTornDown == SupSpec => []EndsTornDown
  <1>1. RunInv => EndsTornDown
    BY DEF RunInv, Inv, RecordPlace, Unsealed, Story, Finished, Refused, TornDown, Closed,
       EndsTornDown
  <1> QED  BY <1>1, RunInvHolds, PTL

\* No step drops, moves or rewrites an event of the record.
THEOREM RecordAlwaysGrows == SupSpec => RecordOnlyGrows
  <1>1. Inv /\ [RunNext]_supVars
        => [/\ Len(Recorded) <= Len(Recorded')
            /\ \A i \in DOMAIN Recorded : Recorded'[i] = Recorded[i]]_supVars
    BY StepGrows, StoryStays
  <1> QED  BY <1>1, InvHolds, BoundedRun, PTL DEF SupSpec, RecordOnlyGrows
===============================================================================
