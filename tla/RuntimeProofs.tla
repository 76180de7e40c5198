----------------------------- MODULE RuntimeProofs -----------------------------
(***************************************************************************)
(* For every policy, every configuration of the triggers that the code's   *)
(* defaults satisfy and every number of hook calls: what "allowed" rests   *)
(* on, that no layer kills on its own account, that the ledger tells what  *)
(* the broker decided, and what the monitor and the drift report say.      *)
(***************************************************************************)
EXTENDS Runtime, SupervisorProofs, DataProofs

-------------------------------------------------------------------------------
\* So normalise takes a path segment by segment.
LEMMA NormaliseSteps ==
    ASSUME NEW Segments, NEW path \in Seq(Segments)
    PROVE  \E F : /\ F[0] = <<>>
                  /\ \A k \in Nat : k + 1 \in 1..Len(path) => F[k + 1] = Resolve(F[k], path[k + 1])
                  /\ M!normalise(path) = F[Len(path)]
  <1> DEFINE n == Len(path)
             Direct(iter) == iter = [s \in SUBSET (1..n) |->
                                IF s = {} THEN <<>>
                                ELSE Resolve(iter[s \ {M!Max(s)}], path[M!Max(s)])]
             fold == CHOOSE iter : Direct(iter)
  <1>1. n \in Nat /\ DOMAIN path = 1..n
    OBVIOUS
  <1>2. M!normalise(path) = fold[1..n]
    BY <1>1 DEF M!normalise, M!FoldLeft, M!MapThenFoldSet, M!Front, Resolve
  <1> HIDE DEF n
  <1>3. \A folded, item : Step(OfPath, folded, item) = Resolve(folded, item)
    BY DEF Step, OfPath
  <1>4. \A iter : Direct(iter) <=> IsFold(iter, OfPath, <<>>, path, 1..n)
    <2>1. \A s : M!Max(s) = Max(s)
      BY DEF M!Max, Max
    <2> QED  BY <1>3, <2>1, Zenon DEF IsFold
  <1> HIDE DEF Direct
  <1>5. IsFold(fold, OfPath, <<>>, path, 1..n)
    <2>1. \E iter : Direct(iter)
      BY <1>1, <1>4, FoldExists
    <2> QED  BY <1>4, <2>1
  <1> HIDE DEF fold
  <1>6. PICK F : GoesOver(F, OfPath, <<>>, path, n) /\ F[n] = fold[1..n]
    BY <1>1, <1>5, FoldSteps
  <1> QED  BY <1>2, <1>3, <1>6 DEF n, GoesOver

\* A segment that names something.
Ordinary(segment) == segment \notin {"", ".", ".."}

\* Only an ordinary segment makes a path longer, and does so.
LEMMA ResolveCases ==
    ASSUME NEW p, NEW segment
    PROVE  /\ Ordinary(segment) => Resolve(p, segment) = Append(p, segment)
           /\ ~Ordinary(segment) =>
                 \/ Resolve(p, segment) = p
                 \/ Resolve(p, segment) = <<>>
                 \/ p # <<>> /\ Resolve(p, segment) = SubSeq(p, 1, Len(p) - 1)
  <1>1. CASE Ordinary(segment)
    BY <1>1, Zenon DEF Resolve, Ordinary
  <1>2. CASE segment \in {"", "."}
    BY <1>2, Zenon DEF Resolve, Ordinary
  <1>3. CASE segment \notin {"", "."} /\ segment = ".."
    BY <1>3, Zenon DEF Resolve, Ordinary
  <1>4. Ordinary(segment) \/ segment \in {"", "."} \/ (segment \notin {"", "."} /\ segment = "..")
    BY Zenon DEF Ordinary
  <1> QED  BY <1>1, <1>2, <1>3, <1>4

\* A path with nothing left to resolve.
Clean(Segments, p) == p \in Seq(Segments) /\ \A k \in 1..Len(p) : Ordinary(p[k])

\* One more segment leaves it so ...
LEMMA ResolveClean ==
    ASSUME NEW Segments, NEW p, Clean(Segments, p), NEW segment \in Segments
    PROVE  Clean(Segments, Resolve(p, segment))
  <1>1. p \in Seq(Segments) /\ Len(p) \in Nat
    BY DEF Clean
  <1>2. CASE Ordinary(segment)
    <2>1. Resolve(p, segment) = Append(p, segment)
      BY <1>2, ResolveCases
    <2>2. /\ Append(p, segment) \in Seq(Segments) /\ Len(Append(p, segment)) = Len(p) + 1
          /\ \A k \in 1..Len(p) : Append(p, segment)[k] = p[k]
          /\ Append(p, segment)[Len(p) + 1] = segment
      BY <1>1, AppendProperties
    <2> QED  BY <1>1, <1>2, <2>1, <2>2 DEF Clean
  <1>3. CASE Resolve(p, segment) = p
    BY <1>3
  <1>4. CASE Resolve(p, segment) = <<>>
    BY <1>4 DEF Clean
  <1>5. CASE p # <<>> /\ Resolve(p, segment) = SubSeq(p, 1, Len(p) - 1)
    <2>1. Len(p) >= 1
      BY <1>1, <1>5
    <2>2. /\ SubSeq(p, 1, Len(p) - 1) \in Seq(Segments)
          /\ Len(SubSeq(p, 1, Len(p) - 1)) = Len(p) - 1
          /\ \A k \in 1..(Len(p) - 1) : SubSeq(p, 1, Len(p) - 1)[k] = p[k]
      <3>1. \A k \in 1..(Len(p) - 1) : p[k] \in Segments /\ 1 + k - 1 = k
        BY <1>1, <2>1
      <3>2. Len(p) - 1 \in Nat /\ (Len(p) - 1) - 1 + 1 = Len(p) - 1
        BY <1>1, <2>1
      <3> QED  BY <3>1, <3>2, SubSeqProperties
    <2> QED  BY <1>1, <1>5, <2>2 DEF Clean
  <1> QED  BY <1>2, <1>3, <1>4, <1>5, ResolveCases

\* ... so a normalised path is.
LEMMA NormaliseIsClean ==
    ASSUME NEW Segments, NEW path \in Seq(Segments)
    PROVE  Clean(Segments, M!normalise(path))
  <1>1. PICK F :
           /\ F[0] = <<>>
           /\ \A k \in Nat : k + 1 \in 1..Len(path) => F[k + 1] = Resolve(F[k], path[k + 1])
           /\ M!normalise(path) = F[Len(path)]
    BY NormaliseSteps
  <1> DEFINE Good == {k \in Nat : k <= Len(path) => Clean(Segments, F[k])}
  <1>2. 0 \in Good
    <2>1. Clean(Segments, <<>>)
      BY DEF Clean
    <2>2. F[0] = <<>>
      BY <1>1
    <2>3. Clean(Segments, F[0])
      BY <2>1, <2>2, Zenon
    <2> QED  BY <2>3
  <1>3. ASSUME NEW k \in Nat, k \in Good
        PROVE  k + 1 \in Good
    <2> SUFFICES ASSUME k + 1 <= Len(path) PROVE Clean(Segments, F[k + 1])
      OBVIOUS
    <2>1. k + 1 \in 1..Len(path) /\ Len(path) \in Nat
      OBVIOUS
    <2>2. F[k + 1] = Resolve(F[k], path[k + 1])
      BY <1>1, <2>1
    <2>3. Clean(Segments, F[k]) /\ path[k + 1] \in Segments
      BY <1>3, <2>1
    <2> QED  BY <2>2, <2>3, ResolveClean
  <1>4. Len(path) \in Nat
    OBVIOUS
  <1>5. Len(path) \in Good
    <2> HIDE DEF Good
    <2> QED  BY <1>2, <1>3, <1>4, Induction
  <1> QED  BY <1>1, <1>4, <1>5

\* Normalising leaves it alone.
LEMMA CleanIsNormal ==
    ASSUME NEW Segments, NEW p, Clean(Segments, p)
    PROVE  M!normalise(p) = p
  <1>1. p \in Seq(Segments) /\ Len(p) \in Nat /\ \A k \in 1..Len(p) : Ordinary(p[k])
    BY DEF Clean
  <1>2. PICK F :
           /\ F[0] = <<>>
           /\ \A k \in Nat : k + 1 \in 1..Len(p) => F[k + 1] = Resolve(F[k], p[k + 1])
           /\ M!normalise(p) = F[Len(p)]
    BY <1>1, NormaliseSteps
  <1> DEFINE Same(s, k) == s \in Seq(Segments) /\ Len(s) = k /\ \A j \in 1..k : s[j] = p[j]
             Good == {k \in Nat : k <= Len(p) => Same(F[k], k)}
  <1>3. 0 \in Good
    <2>1. Same(<<>>, 0)
      OBVIOUS
    <2>2. F[0] = <<>>
      BY <1>2
    <2> HIDE DEF Same
    <2>3. Same(F[0], 0)
      BY <2>1, <2>2, Zenon
    <2> QED  BY <2>3
  <1>4. ASSUME NEW k \in Nat, k \in Good
        PROVE  k + 1 \in Good
    <2> SUFFICES ASSUME k + 1 <= Len(p) PROVE Same(F[k + 1], k + 1)
      OBVIOUS
    <2>1. k + 1 \in 1..Len(p)
      BY <1>1
    <2>2. F[k + 1] = Resolve(F[k], p[k + 1])
      BY <1>2, <2>1
    <2>3. Ordinary(p[k + 1]) /\ p[k + 1] \in Segments
      BY <1>1, <2>1
    <2>4. F[k + 1] = Append(F[k], p[k + 1])
      BY <2>2, <2>3, ResolveCases
    <2>5. F[k] \in Seq(Segments) /\ Len(F[k]) = k /\ \A j \in 1..k : F[k][j] = p[j]
      BY <1>1, <1>4
    <2> DEFINE s == F[k]
               e == p[k + 1]
    <2> HIDE DEF s, e
    <2>6. s \in Seq(Segments) /\ Len(s) = k /\ e \in Segments /\ \A j \in 1..k : s[j] = p[j]
      BY <2>3, <2>5 DEF s, e
    <2>7. /\ Append(s, e) \in Seq(Segments) /\ Len(Append(s, e)) = k + 1
          /\ \A j \in 1..k : Append(s, e)[j] = s[j]
          /\ Append(s, e)[k + 1] = e
      BY <2>6, AppendProperties
    <2>8. \A j \in 1..(k + 1) : Append(s, e)[j] = p[j]
      <3> SUFFICES ASSUME NEW j \in 1..(k + 1) PROVE Append(s, e)[j] = p[j]
        OBVIOUS
      <3>1. CASE j = k + 1
        BY <2>7, <3>1 DEF e
      <3>2. CASE j \in 1..k
        BY <2>6, <2>7, <3>2
      <3>3. j = k + 1 \/ j \in 1..k
        OBVIOUS
      <3> QED  BY <3>1, <3>2, <3>3, Zenon
    <2> QED  BY <2>4, <2>7, <2>8 DEF s, e
  <1>5. Len(p) \in Good
    <2> HIDE DEF Good
    <2> QED  BY <1>1, <1>3, <1>4, Induction
  <1>6. Same(F[Len(p)], Len(p))
    BY <1>1, <1>5
  <1>7. F[Len(p)] = p
    BY <1>1, <1>6
  <1> QED  BY <1>2, <1>7

\* A normalised path is its own normal form (envstate.py relies on it: an
\* observation normalises its path, and classify does so again).
LEMMA NormaliseSettles ==
    ASSUME NEW Segments, NEW path \in Seq(Segments)
    PROVE  M!normalise(M!normalise(path)) = M!normalise(path)
  BY NormaliseIsClean, CleanIsNormal

-------------------------------------------------------------------------------
\* The steps of a run, seen from the supervisor: one of its own, one that
\* leaves it alone, or the last one.
LEMMA OneStep ==
    ASSUME [Next]_vars
    PROVE  \/ pc # "done" /\ [RunNext]_supVars /\ UNCHANGED <<killVars, reportVars>>
           \/ Judge \/ Fail
           \/ UNCHANGED vars
  <1>1. CASE Lifecycle
    <2>1. RunStep /\ UNCHANGED <<killVars, reportVars>>
      BY <1>1 DEF Lifecycle
    <2>2. pc # "done"
      BY <2>1
      DEF RunStep, Validate, BeginRun, SpawnHost, Measure, RecordImages, PrepareOverlay,
          WriteConfig, SpawnVm, Boot, Wait, BackendFails, HookEnds, Destroy, ExitVm,
          RecordTimeout, ExitHost, EndRun, Seal
    <2> QED  BY <2>1, <2>2 DEF RunNext
  <1>2. CASE Claim
    BY <1>2 DEF Claim, record_guest_claim, RunNext
  <1>3. CASE BrokerRequest
    <2>1. PICK req \in Requests, gap \in Gaps : request(req, clock + gap)
      BY <1>3 DEF BrokerRequest
    <2>2. emit_host_event(req.capability, is_granted(evaluate(CapabilityPolicy, req)))
      BY <2>1 DEF request
    <2>3. req.capability \in Capability /\ is_granted(evaluate(CapabilityPolicy, req)) \in BOOLEAN
      BY RuntimeAssumption DEF is_granted
    <2>4. AnyDecision
      BY <2>2, <2>3 DEF AnyDecision
    <2>5. pc # "done" /\ UNCHANGED <<killVars, reportVars>>
      BY <1>3, <2>2 DEF BrokerRequest, emit_host_event
    <2> QED  BY <2>4, <2>5 DEF RunNext
  <1>4. CASE FileChange \/ SpawnCall
    BY <1>4 DEF FileChange, SpawnCall
  <1> QED  BY <1>1, <1>2, <1>3, <1>4 DEF Next

\* Until the last step everything proved of the supervisor holds.
LiveRun == pc # "done" => RunInv

\* It does at the start and after every step.
LEMMA LiveRunHolds == (Init => LiveRun) /\ (LiveRun /\ [Next]_vars => LiveRun')
  <1>1. Init => LiveRun
    BY InitRunInv DEF Init, LiveRun
  <1>2. ASSUME LiveRun, [Next]_vars
        PROVE  LiveRun'
    <2>1. CASE pc # "done" /\ [RunNext]_supVars
      BY <1>2, <2>1, StepRunInv DEF LiveRun
    <2>2. CASE Judge \/ Fail
      BY <2>2 DEF Judge, Fail, LiveRun
    <2>3. CASE UNCHANGED vars
      <3>1. CASE pc = "done"
        BY <2>3, <3>1 DEF LiveRun, vars, supVars
      <3>2. CASE pc # "done"
        <4>1. UNCHANGED supVars
          BY <2>3 DEF vars
        <4> QED  BY <1>2, <3>2, <4>1, StepRunInv DEF LiveRun
      <3> QED  BY <3>1, <3>2
    <2> QED  BY <1>2, <2>1, <2>2, <2>3, OneStep
  <1> QED  BY <1>1, <1>2

\* Nothing is decided about the run before its last step.
Undecided ==
    pc # "done" =>
        /\ trigger = NewTracker /\ counter = 0 /\ tripped = FALSE
        /\ verdict = "" /\ drift = {}

\* Only the last step decides.
LEMMA UndecidedHolds == (Init => Undecided) /\ (Undecided /\ [Next]_vars => Undecided')
  <1>1. Init => Undecided
    BY DEF Init, Undecided, K!KillInit, K!NewTracker, NewTracker
  <1>2. ASSUME Undecided, [Next]_vars
        PROVE  Undecided'
    <2>1. CASE pc # "done" /\ UNCHANGED <<killVars, reportVars>>
      BY <1>2, <2>1 DEF Undecided, killVars, reportVars
    <2>2. CASE Judge \/ Fail
      BY <2>2 DEF Judge, Fail, Undecided
    <2>3. CASE UNCHANGED vars
      BY <1>2, <2>3 DEF Undecided, vars, supVars, killVars, reportVars
    <2> QED  BY <1>2, <2>1, <2>2, <2>3, OneStep
  <1> QED  BY <1>1, <1>2

\* A run that returns has had its VM run and stopped, and no exception; what
\* raises or times out does so once, in the try block.
Outcome ==
    /\ pc \in BeforeVm \cup WithVm => exc = None /\ ~result.timed_out
    /\ pc \in {"hook", "wait"} => vm = "running"
    /\ pc \notin BeforeVm \cup WithVm /\ exc = None => vm = "stopped"
    /\ pc = "report" => exc = None
    /\ pc = "reraise" => exc # None

\* A claim goes on in the hook, or ends it with a PolicyViolation.
LEMMA ClaimControl ==
    ASSUME record_guest_claim
    PROVE  /\ pc = "hook" /\ result' = result /\ vm' = vm
           /\ (pc' = pc /\ exc' = exc) \/ (pc' = "destroy" /\ exc' = "policy")
  <1>1. pc = "hook" /\ result' = result /\ vm' = vm
    BY DEF record_guest_claim, backendVars
  <1>2. PICK automatic \in BOOLEAN :
           \E actor \in (IF automatic THEN {next_guest_actor} ELSE ExplicitActors) :
              \/ \E type \in ClaimTypes : GuestClaim(type, automatic, actor)
              \/ GuestClaimRefused(automatic, actor)
    BY DEF record_guest_claim
  <1>3. ASSUME NEW type, NEW actor, GuestClaim(type, automatic, actor)
        PROVE  pc' = pc /\ exc' = exc
    BY <1>3, Zenon DEF GuestClaim
  <1>4. ASSUME NEW actor, GuestClaimRefused(automatic, actor)
        PROVE  (pc' = pc /\ exc' = exc) \/ (pc' = "destroy" /\ exc' = "policy")
    BY <1>4, Zenon DEF GuestClaimRefused
  <1>5. (pc' = pc /\ exc' = exc) \/ (pc' = "destroy" /\ exc' = "policy")
    BY <1>2, <1>3, <1>4, Zenon
  <1> QED  BY <1>1, <1>5

\* It is so at the start and after every step.
LEMMA OutcomeHolds == (Init => Outcome) /\ (Outcome /\ [Next]_vars => Outcome')
  <1>1. Init => Outcome
    <2>1. Init => pc = "validate" /\ exc = None /\ ~result.timed_out
      <3> SUFFICES ASSUME Init PROVE pc = "validate" /\ exc = None /\ ~result.timed_out
        OBVIOUS
      <3>1. SupInit
        BY Zenon DEF Init
      <3> QED  BY <3>1 DEF SupInit
    <2> QED  BY <2>1 DEF Outcome, BeforeVm, WithVm
  <1>2. ASSUME Outcome, [Next]_vars
        PROVE  Outcome'
    <2> USE <1>2 DEF Outcome, BeforeVm, WithVm
    <2>1. CASE RunStep
      <3> USE DEF localVars, backendVars
      <3>1. CASE Validate \/ BeginRun \/ SpawnHost \/ Measure \/ RecordImages
        BY <3>1 DEF Validate, BeginRun, SpawnHost, Measure, RecordImages, None
      <3>2. CASE PrepareOverlay \/ WriteConfig \/ SpawnVm \/ Boot
        BY <3>2 DEF PrepareOverlay, WriteConfig, SpawnVm, Boot
      <3>3. CASE Wait \/ BackendFails \/ HookEnds
        BY <3>3 DEF Wait, BackendFails, HookEnds, None
      <3>4. CASE Destroy \/ ExitVm \/ RecordTimeout
        BY <3>4 DEF Destroy, ExitVm, RecordTimeout
      <3>5. CASE ExitHost \/ EndRun \/ Seal
        BY <3>5 DEF ExitHost, EndRun, Seal
      <3> QED  BY <2>1, <3>1, <3>2, <3>3, <3>4, <3>5 DEF RunStep
    <2>2. CASE record_guest_claim
      <3>1. pc = "hook" /\ result' = result /\ vm' = vm
            /\ ((pc' = pc /\ exc' = exc) \/ (pc' = "destroy" /\ exc' = "policy"))
        BY <2>2, ClaimControl
      <3> QED  BY <3>1 DEF None
    <2>3. CASE AnyDecision
      BY <2>3 DEF AnyDecision, emit_host_event, localVars, backendVars
    <2>4. CASE UNCHANGED supVars
      BY <2>4 DEF supVars, localVars, backendVars
    <2>5. CASE Judge \/ Fail
      BY <2>5 DEF Judge, Fail, localVars, backendVars
    <2>6. CASE UNCHANGED vars
      BY <2>6, <2>4 DEF vars
    <2> QED  BY <2>1, <2>2, <2>3, <2>4, <2>5, <2>6, OneStep DEF RunNext
  <1> QED  BY <1>1, <1>2

-------------------------------------------------------------------------------
\* A request is decided by the policy, in one of its three ways.
Decision == [request : Requests, decision : {"ALLOW", "DENY", "DEFER_TO_REBUILD"}, at : Nat,
             signal : [instantaneous : BOOLEAN, cumulative : BOOLEAN]]

\* What request appends to the history.
SignalOf(t) == [instantaneous |-> instantaneous(DenialConfig, t),
                cumulative |-> cumulative(DenialConfig, t)]

\* The policy always decides.
LEMMA PolicyDecides ==
    ASSUME NEW policy, NEW req
    PROVE  evaluate(policy, req) \in {"ALLOW", "DENY", "DEFER_TO_REBUILD"}
  BY DEF evaluate

\* A signal is a pair of answers.
LEMMA SignalTyped ==
    ASSUME NEW t
    PROVE  SignalOf(t) \in [instantaneous : BOOLEAN, cumulative : BOOLEAN]
  <1>1. instantaneous(DenialConfig, t) \in BOOLEAN
    BY DEF instantaneous
  <1>2. cumulative(DenialConfig, t) \in BOOLEAN
    BY DEF cumulative
  <1> QED  BY <1>1, <1>2 DEF SignalOf

\* The history keeps each decision with the time it was taken at, none of
\* them ahead of the clock.
BrokerTypes ==
    /\ clock \in Nat /\ history \in Seq(Decision)
    /\ \A k \in DOMAIN history :
          /\ history[k].at <= clock
          /\ history[k].decision = evaluate(CapabilityPolicy, history[k].request)

\* Broker.request, on the history.
LEMMA RequestAppends ==
    ASSUME BrokerTypes, NEW req \in Requests, NEW gap \in Gaps, request(req, clock + gap)
    PROVE  /\ clock' \in Nat /\ clock <= clock'
           /\ \E d \in Decision :
                 /\ d.request = req /\ d.decision = evaluate(CapabilityPolicy, req)
                 /\ d.at = clock' /\ d.signal = SignalOf(tracker')
                 /\ history' = Append(history, d)
  <1>1. clock' = clock + gap /\ gap \in Nat
    BY RuntimeAssumption DEF request
  <1>2. clock' \in Nat /\ clock <= clock'
    BY <1>1 DEF BrokerTypes
  <1> DEFINE dec == evaluate(CapabilityPolicy, req)
             sig == SignalOf(tracker')
             d == [request |-> req, decision |-> dec, at |-> clock', signal |-> sig]
  <1>3. history' = Append(history, d)
    BY <1>1 DEF request, SignalOf
  <1>4. dec \in {"ALLOW", "DENY", "DEFER_TO_REBUILD"}
    BY PolicyDecides
  <1>5. sig \in [instantaneous : BOOLEAN, cumulative : BOOLEAN]
    BY SignalTyped
  <1> HIDE DEF dec, sig
  <1>6. d \in Decision
    BY <1>2, <1>4, <1>5 DEF Decision
  <1>7. d.request = req /\ d.decision = dec /\ d.at = clock' /\ d.signal = sig
    OBVIOUS
  <1> HIDE DEF d
  <1>8. \E x \in Decision :
           /\ x.request = req /\ x.decision = dec /\ x.at = clock' /\ x.signal = sig
           /\ history' = Append(history, x)
    BY <1>3, <1>6, <1>7
  <1> QED  BY <1>2, <1>8 DEF dec, sig

\* A step is a request, or the broker is left alone.
LEMMA BrokerStep ==
    ASSUME [Next]_vars
    PROVE  \/ UNCHANGED brokerVars
           \/ /\ \E req \in Requests, gap \in Gaps : request(req, clock + gap)
              /\ BrokerRequest
              /\ UNCHANGED <<monitorVars, authVars, killVars, reportVars>>
  BY DEF Next, Lifecycle, Claim, BrokerRequest, FileChange, SpawnCall, Judge, Fail, vars

\* The history is typed, in every step.
LEMMA BrokerTypesHold ==
    (Init => BrokerTypes) /\ (BrokerTypes /\ [Next]_vars => BrokerTypes')
  <1>1. Init => BrokerTypes
    <2>1. Init => clock = 0 /\ history = <<>>
      BY DEF Init
    <2> QED  BY <2>1 DEF BrokerTypes
  <1>2. ASSUME BrokerTypes, [Next]_vars
        PROVE  BrokerTypes'
    <2>1. CASE UNCHANGED brokerVars
      BY <1>2, <2>1 DEF BrokerTypes, brokerVars
    <2>2. ASSUME NEW req \in Requests, NEW gap \in Gaps, request(req, clock + gap)
          PROVE  BrokerTypes'
      <3>1. clock' \in Nat /\ clock <= clock'
        BY <1>2, <2>2, RequestAppends
      <3>2. PICK d \in Decision :
               /\ d.request = req /\ d.decision = evaluate(CapabilityPolicy, req)
               /\ d.at = clock' /\ history' = Append(history, d)
        BY <1>2, <2>2, RequestAppends
      <3>3. history \in Seq(Decision) /\ clock \in Nat
        BY <1>2 DEF BrokerTypes
      <3>4. /\ history' \in Seq(Decision) /\ DOMAIN history = 1..Len(history)
            /\ DOMAIN history' = 1..(Len(history) + 1) /\ Len(history) \in Nat
            /\ history'[Len(history) + 1] = d
            /\ \A j \in 1..Len(history) : history'[j] = history[j]
        BY <3>2, <3>3, AppendProperties
      <3>5. ASSUME NEW k \in DOMAIN history'
            PROVE  /\ history'[k].at <= clock'
                   /\ history'[k].decision = evaluate(CapabilityPolicy, history'[k].request)
        <4>1. CASE k = Len(history) + 1
          BY <3>1, <3>2, <3>4, <4>1
        <4>2. CASE k \in 1..Len(history)
          <5>1. history'[k] = history[k] /\ history[k] \in Decision
            BY <3>3, <3>4, <4>2
          <5>2. /\ history[k].at <= clock /\ history[k].at \in Nat
                /\ history[k].decision = evaluate(CapabilityPolicy, history[k].request)
            BY <1>2, <3>4, <4>2, <5>1 DEF BrokerTypes, Decision
          <5> QED  BY <3>1, <3>3, <5>1, <5>2
        <4> QED  BY <3>4, <4>1, <4>2
      <3> QED  BY <3>1, <3>4, <3>5 DEF BrokerTypes
    <2> QED  BY <1>2, <2>1, <2>2, BrokerStep
  <1> QED  BY <1>1, <1>2

-------------------------------------------------------------------------------
\* The files a change can name, and what the monitor keeps of one.
NormalPaths == {M!normalise(r) : r \in Reported}
Observation == [path : NormalPaths, after : Digests \cup {M!Absent}, timestamp : Nat,
                verdict : {"IMPOSSIBLE", "UNEXPLAINED", "EXPECTED"}]

\* One entry of a map changes, and no other.
LEMMA AtChanged ==
    ASSUME NEW map, NEW path, NEW digest, NEW p
    PROVE  M!At(M!Changed(map, path, digest), p) = IF p = path THEN digest ELSE M!At(map, p)
  <1>1. CASE digest = M!Absent
    BY <1>1 DEF M!At, M!Changed
  <1>2. CASE digest # M!Absent
    <2> DEFINE new == [q \in DOMAIN map \cup {path} |-> IF q = path THEN digest ELSE map[q]]
    <2>1. M!Changed(map, path, digest) = new
      BY <1>2 DEF M!Changed
    <2>2. CASE p = path
      BY <2>1, <2>2 DEF M!At
    <2>3. CASE p # path
      BY <2>1, <2>3 DEF M!At
    <2> QED  BY <2>2, <2>3
  <1> QED  BY <1>1, <1>2

\* No path of a file map stands for a file that is not there.
NoAbsent(map) == \A p \in DOMAIN map : map[p] # M!Absent

\* Neither after one more change ...
LEMMA ChangedNoAbsent ==
    ASSUME NEW map, NoAbsent(map), NEW path, NEW digest
    PROVE  NoAbsent(M!Changed(map, path, digest))
  <1>1. CASE digest = M!Absent
    BY <1>1 DEF NoAbsent, M!Changed
  <1>2. CASE digest # M!Absent
    BY <1>2 DEF NoAbsent, M!Changed
  <1> QED  BY <1>1, <1>2

\* ... nor in the baseline.
LEMMA BaselineNoAbsent == NoAbsent(M!Baseline)
  <1> DEFINE n == Len(Captured)
             first == [p \in {} |-> M!Absent]
             Direct(iter) == iter = [s \in SUBSET (1..n) |->
                                IF s = {} THEN first
                                ELSE M!Changed(iter[s \ {M!Max(s)}],
                                               M!normalise(Captured[M!Max(s)][1]),
                                               Captured[M!Max(s)][2])]
             fold == CHOOSE iter : Direct(iter)
             of == OfMap([path \in Seq(STRING) |-> M!normalise(path)], M!Absent)
  <1>1. n \in Nat /\ DOMAIN Captured = 1..n /\ \A k \in 1..n : Captured[k][1] \in Seq(STRING)
    BY RuntimeAssumption
  <1>2. M!Baseline = fold[1..n]
    BY <1>1 DEF M!Baseline, M!FoldLeft, M!MapThenFoldSet
  <1>3. NoAbsent(first)
    BY DEF NoAbsent
  <1> HIDE DEF n, first
  <1>4. \A folded : \A k \in 1..n : Step(of, folded, Captured[k]) =
                          M!Changed(folded, M!normalise(Captured[k][1]), Captured[k][2])
    BY <1>1 DEF Step, OfMap, Put, M!Changed
  <1> HIDE DEF of
  <1>5. ASSUME NEW iter
        PROVE  Direct(iter) <=> IsFold(iter, of, first, Captured, 1..n)
    <2>1. \A s \in SUBSET (1..n) : s # {} => Max(s) \in 1..n /\ M!Max(s) = Max(s)
      BY <1>1, MaxWithin DEF M!Max, Max
    <2>2. \A s \in SUBSET (1..n) : s # {} =>
             M!Changed(iter[s \ {M!Max(s)}], M!normalise(Captured[M!Max(s)][1]), Captured[M!Max(s)][2])
             = Step(of, iter[s \ {Max(s)}], Captured[Max(s)])
      BY <1>4, <2>1
    <2>3. \A s \in SUBSET (1..n) :
             (IF s = {} THEN first
              ELSE M!Changed(iter[s \ {M!Max(s)}], M!normalise(Captured[M!Max(s)][1]), Captured[M!Max(s)][2]))
             = (IF s = {} THEN first ELSE Step(of, iter[s \ {Max(s)}], Captured[Max(s)]))
      BY <2>2
    <2> QED  BY <2>3, Zenon DEF IsFold
  <1> HIDE DEF Direct
  <1>6. IsFold(fold, of, first, Captured, 1..n)
    <2>1. \E iter : Direct(iter)
      BY <1>1, <1>5, FoldExists
    <2> QED  BY <1>5, <2>1
  <1> HIDE DEF fold
  <1>7. PICK F : GoesOver(F, of, first, Captured, n) /\ F[n] = fold[1..n]
    BY <1>1, <1>6, FoldSteps
  <1> DEFINE Right == {k \in Nat : k <= n => NoAbsent(F[k])}
  <1>8. 0 \in Right
    BY <1>3, <1>7 DEF GoesOver
  <1>9. ASSUME NEW k \in Nat, k \in Right
        PROVE  k + 1 \in Right
    <2> SUFFICES ASSUME k + 1 <= n
                 PROVE  NoAbsent(F[k + 1])
      OBVIOUS
    <2>1. k + 1 \in 1..n /\ NoAbsent(F[k])
      BY <1>1, <1>9
    <2>2. F[k + 1] = M!Changed(F[k], M!normalise(Captured[k + 1][1]), Captured[k + 1][2])
      BY <1>4, <1>7, <2>1 DEF GoesOver
    <2> QED  BY <2>1, <2>2, ChangedNoAbsent
  <1> HIDE DEF Right
  <1>10. n \in Right
    BY <1>1, <1>8, <1>9, Induction
  <1> QED  BY <1>1, <1>2, <1>7, <1>10 DEF Right

\* What Len(SortedPaths) files add to the leaves, one by one.
LeavesUpTo(F, map) ==
    /\ F[0] = <<>>
    /\ \A k \in Nat : k + 1 \in 1..Len(SortedPaths) =>
          F[k + 1] = IF SortedPaths[k + 1] \in DOMAIN map
                     THEN Append(F[k], M!FileLeaf(map, SortedPaths[k + 1])) ELSE F[k]

\* The root is the root of what they add.
LEMMA RootOf ==
    ASSUME NEW map
    PROVE  \E F : LeavesUpTo(F, map) /\ M!root(map) = merkle_root(F[Len(SortedPaths)])
  <1> DEFINE n == Len(SortedPaths)
             Direct(iter) == iter = [s \in SUBSET (1..n) |->
                                IF s = {} THEN <<>>
                                ELSE IF SortedPaths[M!Max(s)] \in DOMAIN map
                                     THEN Append(iter[s \ {M!Max(s)}],
                                                 M!FileLeaf(map, SortedPaths[M!Max(s)]))
                                     ELSE iter[s \ {M!Max(s)}]]
             fold == CHOOSE iter : Direct(iter)
             of == OfLeaves([p \in DOMAIN map |-> M!FileLeaf(map, p)])
  <1>1. n \in Nat /\ DOMAIN SortedPaths = 1..n
    BY RuntimeAssumption
  <1>2. M!root(map) = M!merkle_root(fold[1..n])
    BY <1>1 DEF M!root, M!FoldLeft, M!MapThenFoldSet
  <1>3. \A x : M!merkle_root(x) = merkle_root(x)
    BY DEF M!merkle_root, merkle_root, M!Levels, Levels, M!Paired, Paired, M!Node, Node,
           M!Leaf, Leaf, M!commit, commit, M!ZERO_DIGEST, ZERO_DIGEST, M!Last, Last
  <1> HIDE DEF n
  <1>4. \A folded, item : Step(of, folded, item) =
            IF item \in DOMAIN map THEN Append(folded, M!FileLeaf(map, item)) ELSE folded
    BY DEF Step, OfLeaves
  <1> HIDE DEF of
  <1>5. ASSUME NEW iter
        PROVE  Direct(iter) <=> IsFold(iter, of, <<>>, SortedPaths, 1..n)
    <2>1. \A s : (IF SortedPaths[M!Max(s)] \in DOMAIN map
                  THEN Append(iter[s \ {M!Max(s)}], M!FileLeaf(map, SortedPaths[M!Max(s)]))
                  ELSE iter[s \ {M!Max(s)}])
                 = Step(of, iter[s \ {Max(s)}], SortedPaths[Max(s)])
      <3>1. \A s : M!Max(s) = Max(s)
        BY DEF M!Max, Max
      <3> QED  BY <1>4, <3>1
    <2> QED  BY <2>1, Zenon DEF IsFold
  <1> HIDE DEF Direct
  <1>6. IsFold(fold, of, <<>>, SortedPaths, 1..n)
    <2>1. \E iter : Direct(iter)
      BY <1>1, <1>5, FoldExists
    <2> QED  BY <1>5, <2>1
  <1> HIDE DEF fold
  <1>7. PICK F : GoesOver(F, of, <<>>, SortedPaths, n) /\ F[n] = fold[1..n]
    BY <1>1, <1>6, FoldSteps
  <1>8. LeavesUpTo(F, map)
    BY <1>4, <1>7, Zenon DEF LeavesUpTo, GoesOver, n
  <1> QED  BY <1>2, <1>3, <1>7, <1>8 DEF n

\* x is in a sequence.
Holds(items, x) == \E j \in 1..Len(items) : items[j] = x

\* The leaves are those of the files that the map has.
LEMMA LeavesOf ==
    ASSUME NEW map, NEW F, LeavesUpTo(F, map)
    PROVE  /\ F[Len(SortedPaths)] \in Seq({M!FileLeaf(map, p) : p \in Files})
           /\ \A x : Holds(F[Len(SortedPaths)], x) <=>
                        \E p \in Files : p \in DOMAIN map /\ x = M!FileLeaf(map, p)
  <1> DEFINE n == Len(SortedPaths)
             S == {M!FileLeaf(map, p) : p \in Files}
             Added(k, x) == \E j \in 1..k : /\ SortedPaths[j] \in DOMAIN map
                                            /\ x = M!FileLeaf(map, SortedPaths[j])
             Right == {k \in Nat : k <= n => /\ F[k] \in Seq(S)
                                             /\ \A x : Holds(F[k], x) <=> Added(k, x)}
  <1>1. n \in Nat /\ DOMAIN SortedPaths = 1..n /\ \A k \in 1..n : SortedPaths[k] \in Files
    BY RuntimeAssumption DEF Files
  <1>2. 0 \in Right
    <2>1. F[0] = <<>>
      BY DEF LeavesUpTo
    <2>2. Len(F[0]) = 0 /\ F[0] \in Seq(S) /\ 1..0 = {}
      <3> HIDE DEF S
      <3> QED  BY <2>1
    <2>3. \A x : ~Holds(F[0], x)
      BY <2>2, Zenon DEF Holds
    <2>4. \A x : ~Added(0, x)
      BY <2>2
    <2> QED  BY <2>2, <2>3, <2>4
  <1>3. ASSUME NEW k \in Nat, k \in Right
        PROVE  k + 1 \in Right
    <2> SUFFICES ASSUME k + 1 <= n
                 PROVE  F[k + 1] \in Seq(S) /\ \A x : Holds(F[k + 1], x) <=> Added(k + 1, x)
      OBVIOUS
    <2> DEFINE p == SortedPaths[k + 1]
               y == M!FileLeaf(map, p)
    <2>1. k + 1 \in 1..n /\ F[k] \in Seq(S) /\ \A x : Holds(F[k], x) <=> Added(k, x)
      BY <1>1, <1>3
    <2>2. y \in S
      BY <1>1, <2>1
    <2>3. F[k + 1] = IF p \in DOMAIN map THEN Append(F[k], y) ELSE F[k]
      BY <2>1 DEF LeavesUpTo
    <2>4. \A x : Added(k + 1, x) <=> Added(k, x) \/ (p \in DOMAIN map /\ x = y)
      <3>1. 1..(k + 1) = (1..k) \cup {k + 1}
        OBVIOUS
      <3> QED  BY <3>1
    <2> HIDE DEF n, S, Added, y, p
    <2>5. CASE p \in DOMAIN map
      <3>1. F[k + 1] = Append(F[k], y)
        BY <2>3, <2>5
      <3>2. /\ F[k + 1] \in Seq(S) /\ Len(F[k + 1]) = Len(F[k]) + 1 /\ F[k + 1][Len(F[k]) + 1] = y
            /\ \A j \in 1..Len(F[k]) : F[k + 1][j] = F[k][j]
        BY <2>1, <2>2, <3>1, AppendProperties
      <3>3. Len(F[k]) \in Nat /\ 1..(Len(F[k]) + 1) = (1..Len(F[k])) \cup {Len(F[k]) + 1}
        BY <2>1
      <3>4. ASSUME NEW x
            PROVE  Holds(F[k + 1], x) <=> Holds(F[k], x) \/ x = y
        <4> DEFINE l == Len(F[k])
        <4>1. /\ Len(F[k + 1]) = l + 1 /\ F[k + 1][l + 1] = y
              /\ \A j \in 1..l : F[k + 1][j] = F[k][j]
              /\ 1..(l + 1) = (1..l) \cup {l + 1}
          BY <3>2, <3>3
        <4>2. Holds(F[k + 1], x) <=> \E j \in (1..l) \cup {l + 1} : F[k + 1][j] = x
          BY <4>1, Zenon DEF Holds
        <4>3. Holds(F[k], x) <=> \E j \in 1..l : F[k][j] = x
          BY DEF Holds
        <4> HIDE DEF l
        <4> QED  BY <4>1, <4>2, <4>3, Zenon
      <3> QED  BY <2>1, <2>4, <2>5, <3>2, <3>4
    <2>6. CASE p \notin DOMAIN map
      BY <2>1, <2>3, <2>4, <2>6
    <2> QED  BY <2>5, <2>6
  <1>4. n \in Right
    <2> HIDE DEF Right
    <2> QED  BY <1>1, <1>2, <1>3, Induction
  <1>5. \A x : Added(n, x) <=> \E p \in Files : p \in DOMAIN map /\ x = M!FileLeaf(map, p)
    BY <1>1 DEF Files
  <1> HIDE DEF Added
  <1> QED  BY <1>1, <1>4, <1>5

\* Two maps with the same root have the same files, with the same contents ...
LEMMA SameRootSameFiles ==
    ASSUME NEW a, NEW b, M!root(a) = M!root(b), NEW p \in Files, p \in DOMAIN a
    PROVE  p \in DOMAIN b /\ b[p] = a[p]
  <1>1. PICK F : LeavesUpTo(F, a) /\ M!root(a) = merkle_root(F[Len(SortedPaths)])
    BY RootOf
  <1>2. PICK G : LeavesUpTo(G, b) /\ M!root(b) = merkle_root(G[Len(SortedPaths)])
    BY RootOf
  <1> DEFINE f == F[Len(SortedPaths)]
             g == G[Len(SortedPaths)]
  <1>3. f \in Seq({M!FileLeaf(a, q) : q \in Files}) /\
        \A x : Holds(f, x) <=> \E q \in Files : q \in DOMAIN a /\ x = M!FileLeaf(a, q)
    BY <1>1, LeavesOf
  <1>4. g \in Seq({M!FileLeaf(b, q) : q \in Files}) /\
        \A x : Holds(g, x) <=> \E q \in Files : q \in DOMAIN b /\ x = M!FileLeaf(b, q)
    BY <1>2, LeavesOf
  <1>5. merkle_root(f) = merkle_root(g)
    BY <1>1, <1>2
  <1> HIDE DEF f, g
  <1>6. f = g
    <2>1. Tupled(f, Len(f)) /\ Tupled(g, Len(g))
      BY <1>3, <1>4, SeqTupled
    <2> QED  BY <1>5, <2>1, RootInjective
  <1>7. PICK q \in Files : q \in DOMAIN b /\ M!FileLeaf(a, p) = M!FileLeaf(b, q)
    BY <1>3, <1>4, <1>6
  <1>8. p = q /\ a[p] = b[q]
    BY <1>7 DEF M!FileLeaf, M!commit
  <1> QED  BY <1>7, <1>8

\* ... and the other way round, so comparing the roots tells whether any differs.
LEMMA RootTells ==
    ASSUME NEW a, NoAbsent(a), NEW b, NoAbsent(b)
    PROVE  M!root(a) = M!root(b) <=> \A p \in Files : M!At(a, p) = M!At(b, p)
  <1>1. ASSUME M!root(a) = M!root(b), NEW p \in Files
        PROVE  M!At(a, p) = M!At(b, p)
    <2>1. p \in DOMAIN a => p \in DOMAIN b /\ b[p] = a[p]
      BY <1>1, SameRootSameFiles
    <2>2. p \in DOMAIN b => p \in DOMAIN a /\ a[p] = b[p]
      BY <1>1, SameRootSameFiles
    <2> QED  BY <2>1, <2>2 DEF M!At
  <1>2. ASSUME \A p \in Files : M!At(a, p) = M!At(b, p)
        PROVE  M!root(a) = M!root(b)
    <2> DEFINE n == Len(SortedPaths)
    <2>1. PICK F : LeavesUpTo(F, a) /\ M!root(a) = merkle_root(F[n])
      BY RootOf
    <2>2. PICK G : LeavesUpTo(G, b) /\ M!root(b) = merkle_root(G[n])
      BY RootOf
    <2>3. n \in Nat /\ \A k \in 1..n : SortedPaths[k] \in Files
      BY RuntimeAssumption DEF Files
    <2>4. ASSUME NEW p \in Files
          PROVE  (p \in DOMAIN a <=> p \in DOMAIN b) /\ (p \in DOMAIN a => a[p] = b[p])
      BY <1>2 DEF M!At, NoAbsent
    <2> DEFINE Same == {k \in Nat : k <= n => F[k] = G[k]}
    <2>5. 0 \in Same
      BY <2>1, <2>2 DEF LeavesUpTo
    <2>6. ASSUME NEW k \in Nat, k \in Same
          PROVE  k + 1 \in Same
      <3> SUFFICES ASSUME k + 1 <= n
                   PROVE  F[k + 1] = G[k + 1]
        OBVIOUS
      <3> DEFINE p == SortedPaths[k + 1]
      <3>1. k + 1 \in 1..n /\ F[k] = G[k] /\ p \in Files
        BY <2>3, <2>6
      <3>2. F[k + 1] = IF p \in DOMAIN a THEN Append(F[k], M!FileLeaf(a, p)) ELSE F[k]
        BY <2>1, <3>1 DEF LeavesUpTo
      <3>3. G[k + 1] = IF p \in DOMAIN b THEN Append(G[k], M!FileLeaf(b, p)) ELSE G[k]
        BY <2>2, <3>1 DEF LeavesUpTo
      <3> HIDE DEF p
      <3>4. p \in DOMAIN a => M!FileLeaf(a, p) = M!FileLeaf(b, p)
        BY <2>4, <3>1 DEF M!FileLeaf
      <3> QED  BY <2>4, <3>1, <3>2, <3>3, <3>4
    <2> HIDE DEF Same
    <2>7. n \in Same
      BY <2>3, <2>5, <2>6, Induction
    <2> QED  BY <2>1, <2>2, <2>3, <2>7 DEF Same
  <1> QED  BY <1>1, <1>2

\* A normal path is one.
LEMMA NormalPathsSettle ==
    ASSUME NEW p \in NormalPaths
    PROVE  M!normalise(p) = p
  <1>1. PICK r \in Reported : p = M!normalise(r)
    BY DEF NormalPaths
  <1>2. r \in Seq(STRING)
    BY RuntimeAssumption
  <1> QED  BY <1>1, <1>2, NormaliseSettles

\* What a verdict on a path says of its region and of the grants.
LEMMA JudgeSays ==
    ASSUME NEW p, M!normalise(p) = p, NEW granted
    PROVE  LET verd == M!Judge(p, granted)
           IN  /\ verd \in {"IMPOSSIBLE", "UNEXPLAINED", "EXPECTED"}
               /\ verd = "IMPOSSIBLE" <=> ReadOnly(p)
               /\ verd = "EXPECTED" /\ M!_under(p, PathPolicy.mutable_prefixes) =>
                     p \in {M!normalise(q) : q \in granted}
  <1> DEFINE I == M!_under(p, PathPolicy.immutable_prefixes)
             U == M!_under(p, PathPolicy.mutable_prefixes)
             F == M!_under(p, PathPolicy.ephemeral_prefixes)
             G == {M!normalise(q) : q \in granted}
             cls == M!classify(p)
             verd == M!Judge(p, granted)
  <1>1. cls = IF I THEN "IMMUTABLE" ELSE IF U THEN "MUTABLE" ELSE IF F THEN "EPHEMERAL"
              ELSE "IMMUTABLE"
    BY Zenon DEF M!classify
  <1>2. verd = CASE cls = "IMMUTABLE" -> "IMPOSSIBLE"
                 [] cls = "EPHEMERAL" -> "EXPECTED"
                 [] OTHER -> IF p \in G THEN "EXPECTED" ELSE "UNEXPLAINED"
    BY DEF M!Judge
  <1>3. ReadOnly(p) <=> I \/ ~(U \/ F)
    BY DEF ReadOnly, M!_under
  <1> HIDE DEF I, U, F, G, cls, verd
  <1>4. CASE I \/ ~(U \/ F)
    <2>1. cls = "IMMUTABLE"
      BY <1>1, <1>4
    <2>2. verd = "IMPOSSIBLE"
      BY <1>2, <2>1
    <2> QED  BY <1>3, <1>4, <2>2 DEF verd, U, G
  <1>5. CASE ~I /\ U
    <2>1. cls = "MUTABLE"
      BY <1>1, <1>5
    <2>2. verd = IF p \in G THEN "EXPECTED" ELSE "UNEXPLAINED"
      BY <1>2, <2>1
    <2>3. verd = "EXPECTED" => p \in G
      BY <2>2
    <2>4. verd = "EXPECTED" \/ verd = "UNEXPLAINED"
      BY <2>2
    <2> QED  BY <1>3, <1>5, <2>3, <2>4 DEF verd, U, G
  <1>6. CASE ~I /\ ~U /\ F
    <2>1. cls = "EPHEMERAL"
      BY <1>1, <1>6
    <2>2. verd = "EXPECTED"
      BY <1>2, <2>1
    <2> QED  BY <1>3, <1>6, <2>2 DEF verd, U, G
  <1> QED  BY <1>4, <1>5, <1>6

\* EnvironmentMonitor.observe, on the observations.
LEMMA ObserveAppends ==
    ASSUME NEW path \in Reported, NEW after \in Digests \cup {M!Absent}, clock \in Nat,
           NEW granted, M!observe(path, after, clock, granted)
    PROVE  \E o \in Observation :
              /\ o.path = M!normalise(path) /\ o.after = after /\ o.timestamp = clock
              /\ o.verdict = M!Judge(M!normalise(path), granted)
              /\ observations' = Append(observations, o)
              /\ current' = M!Changed(current, o.path, o.after)
  <1> DEFINE p == M!normalise(path)
             verd == M!Judge(p, granted)
             o == [path |-> p, after |-> after, timestamp |-> clock, verdict |-> verd]
  <1>1. observations' = Append(observations, o) /\ current' = M!Changed(current, p, after)
    BY DEF M!observe
  <1>2. p \in NormalPaths
    BY DEF NormalPaths
  <1>3. verd \in {"IMPOSSIBLE", "UNEXPLAINED", "EXPECTED"}
    <2> HIDE DEF p
    <2> QED  BY <1>2, NormalPathsSettle, JudgeSays
  <1> HIDE DEF p, verd
  <1>4. o \in Observation
    BY <1>2, <1>3 DEF Observation
  <1>5. o.path = p /\ o.after = after /\ o.timestamp = clock /\ o.verdict = verd
    OBVIOUS
  <1> HIDE DEF o
  <1> QED  BY <1>1, <1>4, <1>5 DEF p, verd

\* A step is an observation, or the monitor is left alone.
LEMMA MonitorStep ==
    ASSUME [Next]_vars
    PROVE  \/ UNCHANGED monitorVars
           \/ /\ \E path \in Reported, after \in Digests \cup {M!Absent} :
                    M!observe(path, after, clock, GrantedWrites)
              /\ UNCHANGED <<supVars, brokerVars, authVars, killVars, reportVars>>
  BY DEF Next, Lifecycle, Claim, BrokerRequest, FileChange, SpawnCall, Judge, Fail, vars

\* The map follows the last change of each file ...
Replayed ==
    \A p \in Files :
       IF ChangesOf(p) = {} THEN M!At(current, p) = M!At(M!Baseline, p)
       ELSE \E k \in ChangesOf(p) : /\ \A j \in ChangesOf(p) : j <= k
                                    /\ M!At(current, p) = observations[k].after

\* ... and each verdict tells the region, and a grant that came before.
Judged ==
    \A k \in DOMAIN observations :
       /\ observations[k].verdict = "IMPOSSIBLE" <=> ReadOnly(observations[k].path)
       /\ /\ observations[k].verdict = "EXPECTED"
          /\ M!_under(observations[k].path, PathPolicy.mutable_prefixes)
          => GrantedBy(observations[k].path, observations[k].timestamp)

MonitorKept == observations \in Seq(Observation) /\ Replayed /\ Judged /\ NoAbsent(current)

\* A grant stays in the history.
LEMMA GrantStays ==
    ASSUME BrokerTypes, [Next]_vars, NEW p, NEW time, GrantedBy(p, time)
    PROVE  GrantedBy(p, time)'
  <1>1. PICK k \in DOMAIN history :
            /\ history[k].request.capability = "FILE_WRITE"
            /\ M!normalise(history[k].request.resource) = p
            /\ is_granted(history[k].decision)
            /\ history[k].at <= time
    BY DEF GrantedBy
  <1>2. k \in DOMAIN history' /\ history'[k] = history[k]
    <2>1. CASE UNCHANGED brokerVars
      BY <2>1 DEF brokerVars
    <2>2. ASSUME NEW req \in Requests, NEW gap \in Gaps, request(req, clock + gap)
          PROVE  k \in DOMAIN history' /\ history'[k] = history[k]
      <3>1. PICK d \in Decision : history' = Append(history, d)
        BY <2>2, RequestAppends
      <3>2. history \in Seq(Decision)
        BY DEF BrokerTypes
      <3> QED  BY <3>1, <3>2, AppendProperties
    <2> QED  BY <2>1, <2>2, BrokerStep
  <1> QED  BY <1>1, <1>2 DEF GrantedBy

\* A change of a file is its last one, of another file it changes nothing.
LEMMA ReplayStep ==
    ASSUME MonitorKept, NEW o \in Observation,
           observations' = Append(observations, o),
           current' = M!Changed(current, o.path, o.after)
    PROVE  Replayed'
  <1> DEFINE n == Len(observations)
  <1>1. /\ n \in Nat /\ DOMAIN observations = 1..n /\ DOMAIN observations' = 1..(n + 1)
        /\ observations'[n + 1] = o /\ \A j \in 1..n : observations'[j] = observations[j]
    BY AppendProperties DEF MonitorKept
  <1> SUFFICES ASSUME NEW p \in Files
               PROVE  IF ChangesOf(p)' = {} THEN M!At(current', p) = M!At(M!Baseline, p)
                      ELSE \E k \in ChangesOf(p)' : /\ \A j \in ChangesOf(p)' : j <= k
                                                    /\ M!At(current', p) = observations'[k].after
    BY DEF Replayed
  <1> HIDE DEF n
  <1>2. M!At(current', p) = IF p = o.path THEN o.after ELSE M!At(current, p)
    BY AtChanged
  <1>3. CASE p = o.path
    <2>1. n + 1 \in ChangesOf(p)' /\ \A j \in ChangesOf(p)' : j <= n + 1
      BY <1>1, <1>3 DEF ChangesOf
    <2>2. M!At(current', p) = observations'[n + 1].after
      BY <1>1, <1>2, <1>3
    <2> QED  BY <2>1, <2>2
  <1>4. CASE p # o.path
    <2>1. ChangesOf(p)' = ChangesOf(p)
      BY <1>1, <1>4 DEF ChangesOf
    <2>2. M!At(current', p) = M!At(current, p)
      BY <1>2, <1>4
    <2>3. \A k \in ChangesOf(p) : observations'[k] = observations[k]
      BY <1>1 DEF ChangesOf
    <2> QED  BY <2>1, <2>2, <2>3 DEF MonitorKept, Replayed
  <1> QED  BY <1>3, <1>4

\* What is granted to the monitor was decided by then.
LEMMA WriteGranted ==
    ASSUME BrokerTypes, NEW p, p \in {M!normalise(q) : q \in GrantedWrites}
    PROVE  GrantedBy(p, clock)
  <1>1. PICK k \in DOMAIN history :
            /\ history[k].request.capability = "FILE_WRITE"
            /\ is_granted(history[k].decision)
            /\ p = M!normalise(history[k].request.resource)
    BY DEF GrantedWrites
  <1>2. history[k].at <= clock
    BY DEF BrokerTypes
  <1> QED  BY <1>1, <1>2 DEF GrantedBy

\* The observation that is added is judged so, the others stay so.
LEMMA JudgedStep ==
    ASSUME BrokerTypes, [Next]_vars, MonitorKept, UNCHANGED brokerVars, NEW o \in Observation,
           observations' = Append(observations, o), o.timestamp = clock,
           o.verdict = M!Judge(o.path, GrantedWrites)
    PROVE  Judged'
  <1> DEFINE n == Len(observations)
  <1>1. /\ n \in Nat /\ DOMAIN observations = 1..n /\ DOMAIN observations' = 1..(n + 1)
        /\ observations'[n + 1] = o /\ \A j \in 1..n : observations'[j] = observations[j]
    BY AppendProperties DEF MonitorKept
  <1> HIDE DEF n
  <1>2. PICK p \in NormalPaths : o.path = p
    BY DEF Observation
  <1>3. M!normalise(p) = p
    BY NormalPathsSettle
  <1>4. /\ o.verdict = "IMPOSSIBLE" <=> ReadOnly(p)
        /\ o.verdict = "EXPECTED" /\ M!_under(p, PathPolicy.mutable_prefixes) =>
              p \in {M!normalise(q) : q \in GrantedWrites}
    BY <1>2, <1>3, JudgeSays
  <1>5. PICK time \in Nat : o.timestamp = time /\ clock = time
    BY DEF Observation
  <1>6. o.verdict = "EXPECTED" /\ M!_under(p, PathPolicy.mutable_prefixes) => GrantedBy(p, time)
    BY <1>4, <1>5, WriteGranted
  <1>7. GrantedBy(p, time) => GrantedBy(p, time)'
    BY GrantStays
  <1> SUFFICES ASSUME NEW k \in 1..(n + 1)
               PROVE  /\ observations'[k].verdict = "IMPOSSIBLE" <=> ReadOnly(observations'[k].path)
                      /\ /\ observations'[k].verdict = "EXPECTED"
                         /\ M!_under(observations'[k].path, PathPolicy.mutable_prefixes)
                         => GrantedBy(observations[k].path, observations[k].timestamp)'
    BY <1>1 DEF Judged
  <1>8. CASE k = n + 1
    <2>1. observations'[k].path = p /\ observations'[k].timestamp = time
          /\ observations'[k].verdict = o.verdict
      BY <1>1, <1>2, <1>5, <1>8
    <2> QED  BY <1>4, <1>6, <1>7, <2>1 DEF GrantedBy
  <1>9. CASE k \in 1..n
    <2>1. observations'[k] = observations[k] /\ observations[k] \in Observation
      BY <1>1, <1>9 DEF MonitorKept
    <2>2. PICK x \in Observation : observations'[k] = x /\ observations[k] = x
      BY <2>1
    <2>3. /\ x.verdict = "IMPOSSIBLE" <=> ReadOnly(x.path)
          /\ x.verdict = "EXPECTED" /\ M!_under(x.path, PathPolicy.mutable_prefixes)
                => GrantedBy(x.path, x.timestamp)
      BY <1>1, <1>9, <2>2 DEF MonitorKept, Judged
    <2>4. GrantedBy(x.path, x.timestamp) => GrantedBy(x.path, x.timestamp)'
      BY GrantStays
    <2> QED  BY <2>2, <2>3, <2>4 DEF GrantedBy
  <1>10. k = n + 1 \/ k \in 1..n
    BY <1>1
  <1> QED  BY <1>8, <1>9, <1>10

\* The monitor's part holds in every step.
LEMMA MonitorHolds ==
    (Init => MonitorKept) /\ (BrokerTypes /\ MonitorKept /\ [Next]_vars => MonitorKept')
  <1>1. Init => MonitorKept
    <2>1. Init => current = M!Baseline /\ observations = <<>>
      BY DEF Init, M!MonitorInit
    <2>2. observations = <<>> => \A p : ChangesOf(p) = {}
      BY DEF ChangesOf
    <2>3. Init => NoAbsent(current)
      BY <2>1, BaselineNoAbsent
    <2> QED  BY <2>1, <2>2, <2>3 DEF MonitorKept, Replayed, Judged
  <1>2. ASSUME BrokerTypes, MonitorKept, [Next]_vars
        PROVE  MonitorKept'
    <2>1. CASE UNCHANGED monitorVars
      <3>1. observations' = observations /\ current' = current
        BY <2>1 DEF monitorVars
      <3>2. Replayed'
        BY <1>2, <3>1 DEF MonitorKept, Replayed, ChangesOf
      <3>3. Judged'
        <4> SUFFICES ASSUME NEW k \in DOMAIN observations
              PROVE  /\ observations[k].verdict = "IMPOSSIBLE" <=> ReadOnly(observations[k].path)
                     /\ /\ observations[k].verdict = "EXPECTED"
                        /\ M!_under(observations[k].path, PathPolicy.mutable_prefixes)
                        => GrantedBy(observations[k].path, observations[k].timestamp)'
          BY <3>1 DEF Judged
        <4>1. observations[k] \in Observation
          BY <1>2 DEF MonitorKept
        <4>2. PICK x \in Observation : observations[k] = x
          BY <4>1
        <4>3. GrantedBy(x.path, x.timestamp) => GrantedBy(x.path, x.timestamp)'
          BY <1>2, GrantStays
        <4> QED  BY <1>2, <3>1, <4>2, <4>3 DEF MonitorKept, Judged, GrantedBy
      <3>4. NoAbsent(current)'
        BY <1>2, <3>1 DEF MonitorKept, NoAbsent
      <3> QED  BY <1>2, <3>1, <3>2, <3>3, <3>4 DEF MonitorKept
    <2>2. ASSUME NEW path \in Reported, NEW after \in Digests \cup {M!Absent},
                 M!observe(path, after, clock, GrantedWrites), UNCHANGED brokerVars
          PROVE  MonitorKept'
      <3>1. PICK o \in Observation :
               /\ o.path = M!normalise(path) /\ o.timestamp = clock
               /\ o.verdict = M!Judge(M!normalise(path), GrantedWrites)
               /\ observations' = Append(observations, o)
               /\ current' = M!Changed(current, o.path, o.after)
        BY <1>2, <2>2, ObserveAppends DEF BrokerTypes
      <3>2. observations' \in Seq(Observation)
        BY <1>2, <3>1, AppendProperties DEF MonitorKept
      <3>3. Replayed'
        BY <1>2, <3>1, ReplayStep
      <3>4. Judged'
        BY <1>2, <2>2, <3>1, JudgedStep
      <3>5. NoAbsent(current)'
        BY <1>2, <3>1, ChangedNoAbsent DEF MonitorKept, NoAbsent
      <3> QED  BY <3>2, <3>3, <3>4, <3>5 DEF MonitorKept
    <2> QED  BY <1>2, <2>1, <2>2, MonitorStep
  <1> QED  BY <1>1, <1>2

\* The changes of a file have one that is last.
LEMMA LastChange ==
    ASSUME MonitorKept, NEW p, NEW k \in ChangesOf(p), \A j \in ChangesOf(p) : j <= k
    PROVE  (CHOOSE x \in ChangesOf(p) : \A j \in ChangesOf(p) : j <= x) = k
  <1>1. DOMAIN observations = 1..Len(observations) /\ Len(observations) \in Nat
    BY DEF MonitorKept
  <1>2. ChangesOf(p) \subseteq Nat
    BY <1>1 DEF ChangesOf
  <1>3. \A x \in ChangesOf(p) : (\A j \in ChangesOf(p) : j <= x) => x = k
    BY <1>2
  <1> QED  BY <1>3

\* The two parts hold in every run.
LEMMA MonitorInvHolds == Spec => [](BrokerTypes /\ MonitorKept)
  <1>1. Init => BrokerTypes /\ MonitorKept
    BY BrokerTypesHold, MonitorHolds
  <1>2. BrokerTypes /\ MonitorKept /\ [Next]_vars => (BrokerTypes /\ MonitorKept)'
    BY BrokerTypesHold, MonitorHolds
  <1> QED  BY <1>1, <1>2, PTL DEF Spec

\* The monitor's incremental map is what replaying its observations over the
\* baseline gives, and comparing the roots of the two trees tells whether any
\* file differs (EnvironmentMonitor.observe, current_root and drifted), for every
\* spelling of a path, every number of files and changes and every baseline.
THEOREM MapAlwaysReplays == Spec => []MapIsReplay
  <1>1. ASSUME BrokerTypes, MonitorKept
        PROVE  MapIsReplay
    <2>1. ASSUME NEW p \in Files
          PROVE  M!At(current, p) =
                    IF ChangesOf(p) = {} THEN M!At(M!Baseline, p)
                    ELSE observations[CHOOSE k \in ChangesOf(p) :
                                         \A j \in ChangesOf(p) : j <= k].after
      <3>1. CASE ChangesOf(p) = {}
        BY <1>1, <3>1 DEF MonitorKept, Replayed
      <3>2. CASE ChangesOf(p) # {}
        <4>1. PICK k \in ChangesOf(p) : /\ \A j \in ChangesOf(p) : j <= k
                                        /\ M!At(current, p) = observations[k].after
          BY <1>1, <3>2 DEF MonitorKept, Replayed
        <4>2. (CHOOSE x \in ChangesOf(p) : \A j \in ChangesOf(p) : j <= x) = k
          BY <1>1, <4>1, LastChange
        <4> QED  BY <3>2, <4>1, <4>2
      <3> QED  BY <3>1, <3>2
    <2>2. M!drifted <=> \E p \in Files : M!At(current, p) # M!At(M!Baseline, p)
      <3>1. NoAbsent(current) /\ NoAbsent(M!Baseline)
        BY <1>1, BaselineNoAbsent DEF MonitorKept
      <3> QED  BY <3>1, RootTells DEF M!drifted
    <2> QED  BY <2>1, <2>2 DEF MapIsReplay
  <1>2. BrokerTypes /\ MonitorKept => MapIsReplay
    BY <1>1
  <1> QED  BY <1>2, MonitorInvHolds, PTL

\* A verdict that does not complain is "EXPECTED".
LEMMA ExpectedOnly ==
    ASSUME MonitorKept, M!by_verdict("IMPOSSIBLE") \cup M!by_verdict("UNEXPLAINED") = {},
           NEW k \in DOMAIN observations
    PROVE  observations[k].verdict = "EXPECTED"
  <1>1. observations[k].verdict \in {"IMPOSSIBLE", "UNEXPLAINED", "EXPECTED"}
    <2>1. observations[k] \in Observation
      BY DEF MonitorKept
    <2> QED  BY <2>1 DEF Observation
  <1>2. observations[k].verdict # "IMPOSSIBLE" /\ observations[k].verdict # "UNEXPLAINED"
    BY DEF M!by_verdict
  <1> QED  BY <1>1, <1>2

\* A drift the monitor does not complain about is in a writable region, and
\* where it has to be was granted before every change, under any spelling
\* (EnvironmentMonitor.observe joined with Broker).
THEOREM SilentDriftIsAccounted == Spec => []SilentDriftAccounted
  <1>1. BrokerTypes /\ MonitorKept => SilentDriftAccounted
    <2> SUFFICES ASSUME MonitorKept,
                        M!by_verdict("IMPOSSIBLE") \cup M!by_verdict("UNEXPLAINED") = {},
                        NEW p \in Files, M!At(current, p) # M!At(M!Baseline, p)
                 PROVE  /\ ~ReadOnly(p)
                        /\ M!_under(p, PathPolicy.mutable_prefixes) =>
                              \A k \in ChangesOf(p) : GrantedBy(p, observations[k].timestamp)
      BY DEF SilentDriftAccounted
    <2>1. ChangesOf(p) # {}
      BY DEF MonitorKept, Replayed
    <2>2. ASSUME NEW k \in ChangesOf(p)
          PROVE  /\ ~ReadOnly(p)
                 /\ M!_under(p, PathPolicy.mutable_prefixes) =>
                       GrantedBy(p, observations[k].timestamp)
      <3>1. k \in DOMAIN observations /\ observations[k].path = p
        BY DEF ChangesOf
      <3>2. observations[k].verdict = "EXPECTED"
        BY <3>1, ExpectedOnly
      <3> QED  BY <3>1, <3>2 DEF MonitorKept, Judged
    <2> QED  BY <2>1, <2>2
  <1> QED  BY <1>1, MonitorInvHolds, PTL

-------------------------------------------------------------------------------
\* The host's capability events of any record, and their order among them.
IsHostCapability(e) == e.type = "CAPABILITY_REQUEST" /\ is_host_observed(e.actor)
HostCapabilitiesOf(log) == {i \in DOMAIN log : IsHostCapability(log[i])}
PositionIn(log, i) == Cardinality({j \in HostCapabilitiesOf(log) : j <= i})

\* One event more is one more of them, in the last position, or none.
LEMMA HostCapabilityAppended ==
    ASSUME NEW log \in Seq(Event), NEW e \in Event
    PROVE  LET long == Append(log, e)
               n == Len(log)
               count == Cardinality(HostCapabilitiesOf(log))
           IN  /\ n \in Nat /\ count \in Nat
               /\ DOMAIN log = 1..n /\ HostCapabilitiesOf(log) \subseteq 1..n
               /\ \A i \in 1..n : PositionIn(long, i) = PositionIn(log, i)
               /\ \A i \in HostCapabilitiesOf(log) : PositionIn(log, i) <= count
               /\ ~IsHostCapability(e) => HostCapabilitiesOf(long) = HostCapabilitiesOf(log)
               /\ IsHostCapability(e) =>
                     /\ HostCapabilitiesOf(long) = HostCapabilitiesOf(log) \cup {n + 1}
                     /\ Cardinality(HostCapabilitiesOf(long)) = count + 1
                     /\ PositionIn(long, n + 1) = count + 1
  <1> DEFINE long == Append(log, e)
             n == Len(log)
             Caps == HostCapabilitiesOf(log)
             LongCaps == HostCapabilitiesOf(long)
  <1>1. /\ n \in Nat /\ DOMAIN log = 1..n /\ DOMAIN long = 1..(n + 1)
        /\ long[n + 1] = e /\ \A j \in 1..n : long[j] = log[j]
    BY AppendKeeps
  <1>2. Caps \in SUBSET (1..n)
    BY <1>1 DEF HostCapabilitiesOf
  <1>3. IsFiniteSet(Caps) /\ Cardinality(Caps) \in Nat
        /\ Cardinality(Caps \cup {n + 1}) = Cardinality(Caps) + 1
    BY <1>1, <1>2, PositionsFinite
  <1>4. LongCaps = IF IsHostCapability(e) THEN Caps \cup {n + 1} ELSE Caps
    <2> HIDE DEF long, n
    <2>1. CASE IsHostCapability(e)
      BY <1>1, <2>1 DEF HostCapabilitiesOf
    <2>2. CASE ~IsHostCapability(e)
      BY <1>1, <2>2 DEF HostCapabilitiesOf
    <2> QED  BY <2>1, <2>2
  <1> HIDE DEF long, n, Caps, LongCaps
  <1>5. \A i \in 1..n : {j \in LongCaps : j <= i} = {j \in Caps : j <= i}
    BY <1>1, <1>2, <1>4
  <1>6. \A i \in 1..n : PositionIn(long, i) = PositionIn(log, i)
    BY <1>5 DEF PositionIn, LongCaps, Caps
  <1>7. ASSUME NEW i \in Caps
        PROVE  PositionIn(log, i) <= Cardinality(Caps)
    <2>1. {j \in Caps : j <= i} \in SUBSET Caps
      OBVIOUS
    <2>2. Cardinality({j \in Caps : j <= i}) <= Cardinality(Caps)
      BY <1>3, <2>1, FS_Subset
    <2> QED  BY <2>2 DEF PositionIn, Caps
  <1>8. ASSUME IsHostCapability(e)
        PROVE  PositionIn(long, n + 1) = Cardinality(Caps) + 1
    <2>1. {j \in LongCaps : j <= n + 1} = Caps \cup {n + 1}
      <3>1. LongCaps = Caps \cup {n + 1}
        BY <1>4, <1>8
      <3>2. \A j \in LongCaps : j \in Int /\ j <= n + 1
        BY <1>1, <1>2, <3>1
      <3> QED  BY <3>1, <3>2
    <2> QED  BY <1>3, <2>1 DEF PositionIn, LongCaps
  <1> QED  BY <1>1, <1>2, <1>3, <1>4, <1>6, <1>7, <1>8 DEF long, n, Caps, LongCaps

\* What a step adds to the record: nothing the broker answers for, and a
\* capability in a capability request only ...
Aside(e) == ~IsHostCapability(e) /\ (e.type # "CAPABILITY_REQUEST" => e.cap = None)
AddsAside == Recorded' = Recorded \/ \E e \in Event : Aside(e) /\ Recorded' = Append(Recorded, e)

\* ... or a decision, the broker's or the supervisor's on a timeout.
AddsDecision(cap, granted) ==
    \E e \in Event : /\ IsHostCapability(e) /\ e.cap = cap /\ e.granted = granted
                     /\ Recorded' = Append(Recorded, e)
TimesOut == RecordTimeout /\ result.timed_out

\* A lifecycle event of the supervisor.
LEMMA PlainAdds ==
    ASSUME Inv, Unsealed, pc' \notin {"report", "reraise"},
           NEW type \in EventType, type # "CAPABILITY_REQUEST",
           NEW actor \in {H, V}, NEW parent \in Nat, EmitPlain(type, actor, parent)
    PROVE  AddsAside
  <1>1. actor \in Nat
    BY BandFacts
  <1>2. Record(type, actor, parent, None, FALSE)
    BY DEF EmitPlain, _emit_host
  <1>3. PICK e \in Event : e.type = type /\ e.cap = None /\ Recorded' = Append(Recorded, e)
    <2>1. PICK cap \in Capability \cup {None}, granted \in BOOLEAN :
             cap = None /\ Record(type, actor, parent, cap, granted)
      BY <1>2, Zenon
    <2>2. \E e \in Event :
             /\ e.type = type /\ e.actor = actor /\ e.parent = parent
             /\ e.cap = cap /\ e.granted = granted /\ Recorded' = Append(Recorded, e)
      BY <1>1, <2>1, RecordAppends DEF Inv
    <2> QED  BY <2>1, <2>2
  <1>4. Aside(e)
    BY <1>3 DEF Aside, IsHostCapability
  <1> QED  BY <1>3, <1>4 DEF AddsAside

\* A decision of the host.
LEMMA EmitAdds ==
    ASSUME Inv, Unsealed, pc' \notin {"report", "reraise"},
           NEW cap \in Capability, NEW granted \in BOOLEAN,
           _emit_host("CAPABILITY_REQUEST", H, NO_PARENT, cap, granted)
    PROVE  AddsDecision(cap, granted)
  <1>1. Record("CAPABILITY_REQUEST", H, NO_PARENT, cap, granted)
    BY DEF _emit_host
  <1>2. H \in Nat /\ NO_PARENT \in Nat /\ is_host_observed(H)
    BY BandFacts
  <1>3. "CAPABILITY_REQUEST" \in EventType /\ cap \in Capability \cup {None}
    BY DEF EventType, ActionTypes
  <1>4. PICK e \in Event :
           /\ e.type = "CAPABILITY_REQUEST" /\ e.actor = H
           /\ e.cap = cap /\ e.granted = granted /\ Recorded' = Append(Recorded, e)
    BY <1>1, <1>2, <1>3, RecordAppends DEF Inv
  <1>5. IsHostCapability(e)
    BY <1>2, <1>4 DEF IsHostCapability
  <1> QED  BY <1>4, <1>5 DEF AddsDecision

\* The statements of run().
LEMMA StatementAdds ==
    ASSUME Inv, RunStep
    PROVE  IF TimesOut THEN AddsDecision("PROCESS_SPAWN", FALSE) ELSE AddsAside
  <1> USE BandFacts DEF EventType, Markers, LifecycleTypes, ActionTypes
  <1>1. CASE RecordTimeout
    <2>1. CASE result.timed_out
      <3>1. /\ Unsealed /\ pc' \notin {"report", "reraise"}
            /\ _emit_host("CAPABILITY_REQUEST", H, NO_PARENT, "PROCESS_SPAWN", FALSE)
        BY <1>1, <2>1 DEF RecordTimeout, Unsealed, H
      <3> QED  BY <1>1, <2>1, <3>1, EmitAdds DEF TimesOut, Capability
    <2>2. CASE ~result.timed_out
      BY <1>1, <2>2 DEF RecordTimeout, TimesOut, AddsAside, Recorded, ledgerVars
    <2> QED  BY <2>1, <2>2
  <1>2. ASSUME ~RecordTimeout
        PROVE  AddsAside
    <2>1. CASE BeginRun
      BY <2>1, PlainAdds DEF BeginRun, Unsealed, H
    <2>2. CASE SpawnHost
      BY <2>2, PlainAdds DEF SpawnHost, Unsealed, H
    <2>3. CASE RecordImages
      BY <2>3, PlainAdds DEF RecordImages, Unsealed, H
    <2>4. CASE SpawnVm
      BY <2>4, PlainAdds DEF SpawnVm, Unsealed, H, V
    <2>5. CASE ExitVm
      <3>1. CASE vm_spawned
        BY <2>5, <3>1, PlainAdds DEF ExitVm, Unsealed, H, V
      <3>2. CASE ~vm_spawned
        BY <2>5, <3>2 DEF ExitVm, AddsAside, Recorded, ledgerVars
      <3> QED  BY <3>1, <3>2
    <2>6. CASE ExitHost
      BY <2>6, PlainAdds DEF ExitHost, Unsealed, H
    <2>7. CASE EndRun
      BY <2>7, PlainAdds DEF EndRun, Unsealed, H
    <2>8. CASE Seal
      BY <2>8, SealIsStill DEF Still, AddsAside
    <2>9. CASE Validate \/ Measure \/ PrepareOverlay \/ WriteConfig \/ Boot
      BY <2>9 DEF Validate, Measure, PrepareOverlay, WriteConfig, Boot, AddsAside, Recorded,
                  ledgerVars
    <2>10. CASE Wait \/ BackendFails \/ HookEnds \/ Destroy
      BY <2>10 DEF Wait, BackendFails, HookEnds, Destroy, AddsAside, Recorded, ledgerVars
    <2> QED  BY <1>2, <2>1, <2>2, <2>3, <2>4, <2>5, <2>6, <2>7, <2>8, <2>9, <2>10 DEF RunStep
  <1> QED  BY <1>1, <1>2 DEF TimesOut

\* A claim is never in the host band, and names a capability in a capability
\* request only.
LEMMA ClaimAdds == ASSUME Inv, record_guest_claim PROVE AddsAside
  <1>1. PICK automatic \in BOOLEAN :
           \E actor \in (IF automatic THEN {next_guest_actor} ELSE ExplicitActors) :
              \/ \E type \in ClaimTypes : GuestClaim(type, automatic, actor)
              \/ GuestClaimRefused(automatic, actor)
    BY DEF record_guest_claim
  <1>2. PICK actor \in (IF automatic THEN {next_guest_actor} ELSE ExplicitActors) :
           \/ \E type \in ClaimTypes : GuestClaim(type, automatic, actor)
           \/ GuestClaimRefused(automatic, actor)
    BY <1>1
  <1>3. actor \in Nat /\ ClaimTypes \subseteq EventType
    BY SupervisorAssumption DEF Inv, SupTypeOK
  <1>4. ASSUME NEW type \in ClaimTypes, GuestClaim(type, automatic, actor)
        PROVE  AddsAside
    <2>1. ~is_host_observed(actor) /\ pc' = pc /\ pc = "hook"
      BY <1>4 DEF GuestClaim, record_guest_claim
    <2>2. PICK p \in Payloads(type) : Record(type, actor, NO_PARENT, p.cap, p.granted)
      BY <1>4 DEF GuestClaim
    <2>3. p \in Payload
      <3>1. NoPayload \in Payload
        BY DEF NoPayload, Payload
      <3>2. ClaimPayloads \subseteq Payload
        BY SupervisorAssumption
      <3>3. Payloads(type) \subseteq Payload
        BY <3>1, <3>2, Zenon DEF Payloads
      <3> QED  BY <2>2, <3>3
    <2>4. p.cap \in Capability \cup {None} /\ p.granted \in BOOLEAN
      BY <2>3 DEF Payload
    <2>5. type # "CAPABILITY_REQUEST" => p.cap = None
      <3> SUFFICES ASSUME type # "CAPABILITY_REQUEST" PROVE p.cap = None
        OBVIOUS
      <3>1. p = NoPayload
        BY <2>2, Zenon DEF Payloads
      <3> QED  BY <3>1 DEF NoPayload
    <2>6. Unsealed /\ pc' \notin {"report", "reraise"}
      BY <2>1 DEF Unsealed
    <2>7. type \in EventType /\ NO_PARENT \in Nat
      BY <1>3, BandFacts
    <2>8. PICK cap \in Capability \cup {None}, granted \in BOOLEAN :
             cap = p.cap /\ granted = p.granted
      BY <2>4
    <2>9. PICK e \in Event : /\ e.type = type /\ e.actor = actor /\ e.cap = cap
                             /\ Recorded' = Append(Recorded, e)
      <3>1. Record(type, actor, NO_PARENT, cap, granted)
        BY <2>2, <2>8, Zenon
      <3>2. \E e \in Event :
               /\ e.type = type /\ e.actor = actor /\ e.parent = NO_PARENT
               /\ e.cap = cap /\ e.granted = granted /\ Recorded' = Append(Recorded, e)
        BY <1>3, <2>6, <2>7, <3>1, RecordAppends DEF Inv
      <3> QED  BY <3>2
    <2>10. Aside(e)
      BY <2>1, <2>5, <2>8, <2>9 DEF Aside, IsHostCapability
    <2> QED  BY <2>9, <2>10 DEF AddsAside
  <1>5. CASE GuestClaimRefused(automatic, actor)
    BY <1>5 DEF GuestClaimRefused, AddsAside, Recorded, ledgerVars
  <1> QED  BY <1>2, <1>4, <1>5

\* A decision of the broker is recorded as such.
LEMMA RequestAdds ==
    ASSUME Inv, NEW cap \in Capability, NEW granted \in BOOLEAN, emit_host_event(cap, granted)
    PROVE  AddsDecision(cap, granted)
  <1>1. /\ Unsealed /\ pc' \notin {"report", "reraise"}
        /\ _emit_host("CAPABILITY_REQUEST", H, NO_PARENT, cap, granted)
    BY DEF emit_host_event, Unsealed, H
  <1> QED  BY <1>1, EmitAdds

\* A record agrees with a history: the host's capability events are its
\* decisions in their order, and on a timeout one refusal more.
Same(e, d) == e.cap = d.request.capability /\ e.granted = is_granted(d.decision)
Refusal(e) == e.cap = "PROCESS_SPAWN" /\ e.granted = FALSE
Agree(log, hist, timed) ==
    /\ Cardinality(HostCapabilitiesOf(log)) = Len(hist) + (IF timed THEN 1 ELSE 0)
    /\ \A i \in HostCapabilitiesOf(log) :
          PositionIn(log, i) \in 1..Len(hist) => Same(log[i], hist[PositionIn(log, i)])
    /\ \A i \in HostCapabilitiesOf(log) :
          (\E k \in 1..Len(hist) : Same(log[i], hist[k])) \/ (timed /\ Refusal(log[i]))
    /\ \A k \in 1..Len(hist) : \E i \in HostCapabilitiesOf(log) : Same(log[i], hist[k])
    /\ timed => \E i \in HostCapabilitiesOf(log) : Refusal(log[i])

\* Other events do not disturb the agreement ...
LEMMA AsideAgrees ==
    ASSUME NEW log \in Seq(Event), NEW e \in Event, Aside(e),
           NEW hist \in Seq(Decision), NEW timed \in BOOLEAN, Agree(log, hist, timed)
    PROVE  Agree(Append(log, e), hist, timed)
  <1> DEFINE long == Append(log, e)
             Caps == HostCapabilitiesOf(log)
             n == Len(log)
  <1>1. /\ HostCapabilitiesOf(long) = Caps /\ Caps \subseteq 1..n
        /\ \A i \in 1..n : PositionIn(long, i) = PositionIn(log, i)
    BY HostCapabilityAppended DEF Aside
  <1>2. \A i \in 1..n : long[i] = log[i]
    BY AppendKeeps
  <1> HIDE DEF long, n
  <1> QED  BY <1>1, <1>2 DEF Agree, long

\* ... a decision that is recorded and remembered extends both ...
LEMMA DecisionAgrees ==
    ASSUME NEW log \in Seq(Event), NEW e \in Event, IsHostCapability(e),
           NEW hist \in Seq(Decision), NEW d \in Decision, Same(e, d),
           Agree(log, hist, FALSE)
    PROVE  Agree(Append(log, e), Append(hist, d), FALSE)
  <1> DEFINE long == Append(log, e)
             more == Append(hist, d)
             Caps == HostCapabilitiesOf(log)
             n == Len(log)
             m == Len(hist)
  <1>1. /\ n \in Nat /\ Caps \subseteq 1..n
        /\ \A i \in 1..n : PositionIn(long, i) = PositionIn(log, i)
        /\ \A i \in Caps : PositionIn(log, i) <= Cardinality(Caps)
        /\ HostCapabilitiesOf(long) = Caps \cup {n + 1}
        /\ Cardinality(HostCapabilitiesOf(long)) = Cardinality(Caps) + 1
        /\ PositionIn(long, n + 1) = Cardinality(Caps) + 1
    BY HostCapabilityAppended
  <1>2. long[n + 1] = e /\ \A i \in 1..n : long[i] = log[i]
    BY AppendKeeps
  <1>3. m \in Nat /\ Len(more) = m + 1 /\ more[m + 1] = d /\ \A k \in 1..m : more[k] = hist[k]
    BY AppendProperties
  <1>4. /\ Cardinality(Caps) = m
        /\ \A i \in Caps : PositionIn(log, i) \in 1..m => Same(log[i], hist[PositionIn(log, i)])
        /\ \A i \in Caps : \E k \in 1..m : Same(log[i], hist[k])
        /\ \A k \in 1..m : \E i \in Caps : Same(log[i], hist[k])
    BY <1>3 DEF Agree
  <1> HIDE DEF long, more, n, m, Caps
  <1>5. \A k \in 1..(m + 1) : k \in 1..m \/ k = m + 1
    BY <1>3
  <1>6. Cardinality(HostCapabilitiesOf(long)) = Len(more)
    BY <1>1, <1>3, <1>4
  <1>7. ASSUME NEW i \in Caps \cup {n + 1}, PositionIn(long, i) \in 1..(m + 1)
        PROVE  Same(long[i], more[PositionIn(long, i)])
    <2>1. CASE i = n + 1
      BY <1>1, <1>2, <1>3, <1>4, <2>1
    <2>2. CASE i \in Caps
      <3>1. PositionIn(long, i) = PositionIn(log, i) /\ PositionIn(log, i) <= m /\ long[i] = log[i]
        BY <1>1, <1>2, <1>4, <2>2
      <3>2. PositionIn(log, i) \in 1..m
        BY <1>3, <1>7, <3>1
      <3> QED  BY <1>3, <1>4, <2>2, <3>1, <3>2
    <2> QED  BY <2>1, <2>2
  <1>8. ASSUME NEW i \in Caps \cup {n + 1}
        PROVE  \E k \in 1..(m + 1) : Same(long[i], more[k])
    <2>1. CASE i = n + 1
      BY <1>2, <1>3, <2>1
    <2>2. CASE i \in Caps
      <3>1. PICK k \in 1..m : Same(log[i], hist[k])
        BY <1>4, <2>2
      <3>2. k \in 1..(m + 1) /\ more[k] = hist[k] /\ long[i] = log[i]
        BY <1>1, <1>2, <1>3, <2>2
      <3> QED  BY <3>1, <3>2
    <2> QED  BY <2>1, <2>2
  <1>9. ASSUME NEW k \in 1..(m + 1)
        PROVE  \E i \in Caps \cup {n + 1} : Same(long[i], more[k])
    <2>1. CASE k = m + 1
      BY <1>2, <1>3, <2>1
    <2>2. CASE k \in 1..m
      <3>1. PICK i \in Caps : Same(log[i], hist[k])
        BY <1>4, <2>2
      <3>2. more[k] = hist[k] /\ long[i] = log[i]
        BY <1>1, <1>2, <1>3, <2>2
      <3> QED  BY <3>1, <3>2
    <2> QED  BY <1>5, <2>1, <2>2
  <1>10. Len(more) = Len(more) + (IF FALSE THEN 1 ELSE 0)
    BY <1>3
  <1>11. Agree(long, more, FALSE)
    BY <1>1, <1>3, <1>6, <1>7, <1>8, <1>9, <1>10 DEF Agree
  <1> QED  BY <1>11 DEF long, more

\* ... and a timeout is the refusal after the last decision.
LEMMA TimeoutAgrees ==
    ASSUME NEW log \in Seq(Event), NEW e \in Event, IsHostCapability(e), Refusal(e),
           NEW hist \in Seq(Decision), Agree(log, hist, FALSE)
    PROVE  Agree(Append(log, e), hist, TRUE)
  <1> DEFINE long == Append(log, e)
             Caps == HostCapabilitiesOf(log)
             n == Len(log)
             m == Len(hist)
  <1>1. /\ n \in Nat /\ Caps \subseteq 1..n
        /\ \A i \in 1..n : PositionIn(long, i) = PositionIn(log, i)
        /\ HostCapabilitiesOf(long) = Caps \cup {n + 1}
        /\ Cardinality(HostCapabilitiesOf(long)) = Cardinality(Caps) + 1
        /\ PositionIn(long, n + 1) = Cardinality(Caps) + 1
    BY HostCapabilityAppended
  <1>2. long[n + 1] = e /\ \A i \in 1..n : long[i] = log[i]
    BY AppendKeeps
  <1>3. m \in Nat
    OBVIOUS
  <1>4. /\ Cardinality(Caps) = m
        /\ \A i \in Caps : PositionIn(log, i) \in 1..m => Same(log[i], hist[PositionIn(log, i)])
        /\ \A i \in Caps : \E k \in 1..m : Same(log[i], hist[k])
        /\ \A k \in 1..m : \E i \in Caps : Same(log[i], hist[k])
    BY <1>3 DEF Agree
  <1> HIDE DEF long, n, m, Caps
  <1>5. Cardinality(HostCapabilitiesOf(long)) = m + 1
    BY <1>1, <1>4
  <1>6. ASSUME NEW i \in Caps \cup {n + 1}, PositionIn(long, i) \in 1..m
        PROVE  Same(long[i], hist[PositionIn(long, i)])
    <2>1. i # n + 1
      BY <1>1, <1>3, <1>4, <1>6
    <2> QED  BY <1>1, <1>2, <1>4, <1>6, <2>1
  <1>7. ASSUME NEW i \in Caps \cup {n + 1}
        PROVE  (\E k \in 1..m : Same(long[i], hist[k])) \/ Refusal(long[i])
    BY <1>1, <1>2, <1>4
  <1>8. ASSUME NEW k \in 1..m
        PROVE  \E i \in Caps \cup {n + 1} : Same(long[i], hist[k])
    BY <1>1, <1>2, <1>4
  <1> QED  BY <1>1, <1>2, <1>5, <1>6, <1>7, <1>8 DEF Agree, long, m

\* From which statement on a timeout is in the record.
TimeoutAt == {"exit_host", "run_end", "seal", "report", "reraise", "done"}
TimeoutRecorded == result.timed_out /\ pc \in TimeoutAt

RecordKept ==
    /\ Recorded \in Seq(Event)
    /\ TimeoutRecorded => Agree(Recorded, history, TRUE)
    /\ ~TimeoutRecorded => Agree(Recorded, history, FALSE)
    /\ \A i \in DOMAIN Recorded :
          Recorded[i].type # "CAPABILITY_REQUEST" => Recorded[i].cap = None

\* Which statements record it.
LEMMA TimeoutStep ==
    ASSUME Outcome, RunStep
    PROVE  IF TimesOut THEN ~TimeoutRecorded /\ TimeoutRecorded'
           ELSE TimeoutRecorded' <=> TimeoutRecorded
  <1> USE DEF TimesOut, TimeoutRecorded, TimeoutAt, Outcome, BeforeVm, WithVm, localVars
  <1>1. CASE Validate \/ BeginRun \/ SpawnHost \/ Measure \/ RecordImages
    BY <1>1 DEF Validate, BeginRun, SpawnHost, Measure, RecordImages, RecordTimeout
  <1>2. CASE PrepareOverlay \/ WriteConfig \/ SpawnVm \/ Boot
    BY <1>2 DEF PrepareOverlay, WriteConfig, SpawnVm, Boot, RecordTimeout
  <1>3. CASE Wait \/ BackendFails \/ HookEnds
    BY <1>3 DEF Wait, BackendFails, HookEnds, RecordTimeout
  <1>4. CASE Destroy \/ ExitVm \/ RecordTimeout
    BY <1>4 DEF Destroy, ExitVm, RecordTimeout
  <1>5. CASE ExitHost \/ EndRun \/ Seal
    BY <1>5 DEF ExitHost, EndRun, Seal, RecordTimeout
  <1> QED  BY <1>1, <1>2, <1>3, <1>4, <1>5 DEF RunStep

\* What a step does to record and history together.
BothKept == AddsAside /\ history' = history /\ (TimeoutRecorded' <=> TimeoutRecorded)
BothExtended ==
    /\ ~TimeoutRecorded /\ ~TimeoutRecorded'
    /\ \E d \in Decision : /\ AddsDecision(d.request.capability, is_granted(d.decision))
                           /\ history' = Append(history, d)
TimeoutAdded ==
    /\ AddsDecision("PROCESS_SPAWN", FALSE) /\ history' = history
    /\ ~TimeoutRecorded /\ TimeoutRecorded'

\* Broker.request extends both, all else at most the record.
LEMMA RecordStep ==
    ASSUME LiveRun, BrokerTypes, Outcome, [Next]_vars
    PROVE  BothKept \/ BothExtended \/ TimeoutAdded
  <1>1. CASE Lifecycle
    <2>1. RunStep /\ history' = history
      BY <1>1 DEF Lifecycle, brokerVars
    <2>2. pc # "done"
      BY <2>1
      DEF RunStep, Validate, BeginRun, SpawnHost, Measure, RecordImages, PrepareOverlay,
          WriteConfig, SpawnVm, Boot, Wait, BackendFails, HookEnds, Destroy, ExitVm,
          RecordTimeout, ExitHost, EndRun, Seal
    <2>3. Inv
      BY <2>2 DEF LiveRun, RunInv
    <2>4. CASE TimesOut
      BY <2>1, <2>3, <2>4, StatementAdds, TimeoutStep DEF TimeoutAdded
    <2>5. CASE ~TimesOut
      BY <2>1, <2>3, <2>5, StatementAdds, TimeoutStep DEF BothKept
    <2> QED  BY <2>4, <2>5
  <1>2. CASE Claim
    <2>1. record_guest_claim /\ history' = history
      BY <1>2 DEF Claim, brokerVars
    <2>2. pc = "hook" /\ result' = result /\ (pc' = pc \/ pc' = "destroy")
      BY <2>1, ClaimControl
    <2>3. TimeoutRecorded' <=> TimeoutRecorded
      BY <2>2 DEF TimeoutRecorded, TimeoutAt
    <2>4. Inv
      BY <2>2 DEF LiveRun, RunInv
    <2> QED  BY <2>1, <2>3, <2>4, ClaimAdds DEF BothKept
  <1>3. CASE BrokerRequest
    <2>1. PICK req \in Requests, gap \in Gaps : request(req, clock + gap)
      BY <1>3 DEF BrokerRequest
    <2>2. emit_host_event(req.capability, is_granted(evaluate(CapabilityPolicy, req)))
      BY <2>1 DEF request
    <2>3. req.capability \in Capability /\ is_granted(evaluate(CapabilityPolicy, req)) \in BOOLEAN
      BY RuntimeAssumption DEF is_granted
    <2>4. pc = "hook" /\ pc' = "hook"
      BY <2>2 DEF emit_host_event
    <2>5. Inv /\ ~TimeoutRecorded /\ ~TimeoutRecorded'
      BY <2>4 DEF LiveRun, RunInv, TimeoutRecorded, TimeoutAt
    <2>6. AddsDecision(req.capability, is_granted(evaluate(CapabilityPolicy, req)))
      BY <2>2, <2>3, <2>5, RequestAdds
    <2>7. PICK d \in Decision : /\ d.request = req /\ d.decision = evaluate(CapabilityPolicy, req)
                                /\ history' = Append(history, d)
      BY <2>1, RequestAppends
    <2>8. AddsDecision(d.request.capability, is_granted(d.decision))
      BY <2>6, <2>7, Zenon
    <2> QED  BY <2>5, <2>7, <2>8 DEF BothExtended
  <1>4. CASE UNCHANGED <<ledgerVars, localVars, history>> /\ (pc' = pc \/ Judge \/ Fail)
    <2>1. Recorded' = Recorded
      BY <1>4 DEF Recorded, ledgerVars
    <2>2. TimeoutRecorded' <=> TimeoutRecorded
      BY <1>4 DEF TimeoutRecorded, TimeoutAt, Judge, Fail, localVars
    <2> QED  BY <1>4, <2>1, <2>2 DEF BothKept, AddsAside
  <1>5. CASE FileChange \/ SpawnCall \/ UNCHANGED vars
    BY <1>4, <1>5 DEF FileChange, SpawnCall, vars, supVars, brokerVars
  <1>6. CASE Judge \/ Fail
    BY <1>4, <1>6 DEF Judge, Fail, brokerVars
  <1> QED  BY <1>1, <1>2, <1>3, <1>5, <1>6 DEF Next

\* The agreement holds in every step.
LEMMA RecordKeptHolds ==
    /\ Init => RecordKept
    /\ LiveRun /\ BrokerTypes /\ Outcome /\ RecordKept /\ [Next]_vars => RecordKept'
  <1>1. Init => RecordKept
    <2> SUFFICES ASSUME Init PROVE RecordKept
      OBVIOUS
    <2>1. SupInit /\ history = <<>>
      BY Zenon DEF Init
    <2>2. Recorded = <<>> /\ ~TimeoutRecorded
      BY <2>1 DEF SupInit, L!LedgerInit, Recorded, TimeoutRecorded, TimeoutAt
    <2>3. HostCapabilitiesOf(Recorded) = {} /\ Len(history) = 0
      BY <2>1, <2>2 DEF HostCapabilitiesOf
    <2>4. Agree(Recorded, history, FALSE)
      BY <2>3, FS_EmptySet DEF Agree
    <2>5. Recorded \in Seq(Event) /\ DOMAIN Recorded = {}
      BY <2>2
    <2>6. \A i \in DOMAIN Recorded :
             Recorded[i].type # "CAPABILITY_REQUEST" => Recorded[i].cap = None
      BY <2>5, Zenon
    <2> QED  BY <2>2, <2>4, <2>5, <2>6, Zenon DEF RecordKept
  <1>2. ASSUME LiveRun, BrokerTypes, Outcome, RecordKept, [Next]_vars
        PROVE  RecordKept'
    <2> DEFINE Named(log) == \A i \in DOMAIN log :
                                log[i].type # "CAPABILITY_REQUEST" => log[i].cap = None
    <2>1. Recorded \in Seq(Event) /\ history \in Seq(Decision) /\ Named(Recorded)
      BY <1>2 DEF RecordKept, BrokerTypes
    <2>2. ASSUME NEW e \in Event, e.type # "CAPABILITY_REQUEST" => e.cap = None,
                 Recorded' = Append(Recorded, e)
          PROVE  Recorded' \in Seq(Event) /\ Named(Recorded')
      BY <2>1, <2>2, AppendKeeps
    <2>3. CASE BothKept
      <3>1. CASE Recorded' = Recorded
        <4>1. history' = history /\ (TimeoutRecorded' <=> TimeoutRecorded)
          BY <2>3 DEF BothKept
        <4> QED  BY <1>2, <3>1, <4>1 DEF RecordKept
      <3>2. ASSUME NEW e \in Event, Aside(e), Recorded' = Append(Recorded, e)
            PROVE  RecordKept'
        <4>1. Recorded' \in Seq(Event) /\ Named(Recorded')
          BY <2>2, <3>2 DEF Aside
        <4>2. history' = history /\ (TimeoutRecorded' <=> TimeoutRecorded)
          BY <2>3 DEF BothKept
        <4>3. CASE TimeoutRecorded
          <5>1. Agree(Recorded', history', TRUE)
            BY <1>2, <2>1, <3>2, <4>2, <4>3, AsideAgrees DEF RecordKept
          <5> QED  BY <4>1, <4>2, <4>3, <5>1 DEF RecordKept
        <4>4. CASE ~TimeoutRecorded
          <5>1. Agree(Recorded', history', FALSE)
            BY <1>2, <2>1, <3>2, <4>2, <4>4, AsideAgrees DEF RecordKept
          <5> QED  BY <4>1, <4>2, <4>4, <5>1 DEF RecordKept
        <4> QED  BY <4>3, <4>4
      <3> QED  BY <2>3, <3>1, <3>2 DEF BothKept, AddsAside
    <2>4. CASE BothExtended
      <3>1. PICK d \in Decision : /\ AddsDecision(d.request.capability, is_granted(d.decision))
                                  /\ history' = Append(history, d)
        BY <2>4 DEF BothExtended
      <3>2. PICK e \in Event : IsHostCapability(e) /\ Same(e, d) /\ Recorded' = Append(Recorded, e)
        BY <3>1 DEF AddsDecision, Same
      <3>3. ~TimeoutRecorded /\ ~TimeoutRecorded' /\ Agree(Recorded, history, FALSE)
        BY <1>2, <2>4 DEF BothExtended, RecordKept
      <3>4. Agree(Recorded', history', FALSE)
        BY <2>1, <3>1, <3>2, <3>3, DecisionAgrees
      <3>5. Recorded' \in Seq(Event) /\ Named(Recorded')
        BY <2>2, <3>2 DEF IsHostCapability
      <3> QED  BY <3>3, <3>4, <3>5 DEF RecordKept
    <2>5. CASE TimeoutAdded
      <3>1. PICK e \in Event : IsHostCapability(e) /\ Refusal(e) /\ Recorded' = Append(Recorded, e)
        BY <2>5 DEF TimeoutAdded, AddsDecision, Refusal
      <3>2. /\ ~TimeoutRecorded /\ TimeoutRecorded' /\ Agree(Recorded, history, FALSE)
            /\ history' = history
        BY <1>2, <2>5 DEF TimeoutAdded, RecordKept
      <3>3. Agree(Recorded', history', TRUE)
        BY <2>1, <3>1, <3>2, TimeoutAgrees
      <3>4. Recorded' \in Seq(Event) /\ Named(Recorded')
        BY <2>2, <3>1 DEF IsHostCapability
      <3> QED  BY <3>2, <3>3, <3>4 DEF RecordKept
    <2> QED  BY <1>2, <2>3, <2>4, <2>5, RecordStep
  <1> QED  BY <1>1, <1>2

\* What holds in every run of everything up to its last step.
Runs == LiveRun /\ Outcome /\ BrokerTypes /\ MonitorKept /\ RecordKept /\ Undecided

\* It is an invariant.
LEMMA RunsHolds == Spec => []Runs
  <1>1. Init => Runs
    BY LiveRunHolds, OutcomeHolds, BrokerTypesHold, MonitorHolds, RecordKeptHolds,
       UndecidedHolds DEF Runs
  <1>2. Runs /\ [Next]_vars => Runs'
    BY LiveRunHolds, OutcomeHolds, BrokerTypesHold, MonitorHolds, RecordKeptHolds,
       UndecidedHolds DEF Runs
  <1> QED  BY <1>1, <1>2, PTL DEF Spec

\* The ledger's host capability events and the broker's history are the same
\* decisions in the same order, whatever the guest records in between, and
\* only a timeout adds one (Broker.request and Supervisor.run).
THEOREM HistoryIsRecorded == Spec => []BrokerHistoryRecorded
  <1>1. Runs => BrokerHistoryRecorded
    <2> SUFFICES ASSUME Runs PROVE BrokerHistoryRecorded
      OBVIOUS
    <2>1. HostCapabilities = HostCapabilitiesOf(Recorded)
          /\ \A i : Position(i) = PositionIn(Recorded, i)
      BY DEF HostCapabilities, HostCapabilitiesOf, IsHostCapability, Position, PositionIn
    <2>2. history \in Seq(Decision) /\ DOMAIN history = 1..Len(history) /\ Len(history) \in Nat
      BY DEF Runs, BrokerTypes
    <2>3. CASE TimeoutRecorded
      <3>1. Agree(Recorded, history, TRUE)
        BY <2>3 DEF Runs, RecordKept
      <3>2. result.timed_out
        BY <2>3 DEF TimeoutRecorded
      <3>3. Cardinality(HostCapabilitiesOf(Recorded)) = Len(history) + 1
        BY <3>1 DEF Agree
      <3> QED  BY <2>1, <2>2, <3>1, <3>2, <3>3 DEF BrokerHistoryRecorded, Agree, Same
    <2>4. CASE ~TimeoutRecorded
      <3>1. Agree(Recorded, history, FALSE)
        BY <2>4 DEF Runs, RecordKept
      <3>2. Cardinality(HostCapabilitiesOf(Recorded)) = Len(history)
        BY <2>2, <3>1 DEF Agree
      <3> QED  BY <2>1, <2>2, <3>1, <3>2 DEF BrokerHistoryRecorded, Agree, Same
    <2> QED  BY <2>3, <2>4
  <1> QED  BY <1>1, RunsHolds, PTL

-------------------------------------------------------------------------------
\* The report on the drift, capability by capability: it depends on the
\* outcomes each side tells of one.
LEMMA FindingsOf ==
    ASSUME NEW S, NEW host, NEW guest,
           \A o \in host \cup guest : o.capability \in S
    PROVE  {f.capability : f \in D!evaluate(host, guest)} =
              {c \in S : IF D!OutcomesOf(guest, c) = {} THEN D!OutcomesOf(host, c) # {}
                         ELSE D!OutcomesOf(guest, c) \ D!OutcomesOf(host, c) # {}}
  <1> DEFINE Hosts == D!Mentioned(host)
             Guests == D!Mentioned(guest)
             Differ == {x \in Hosts \cap Guests :
                           D!OutcomesOf(guest, x) \ D!OutcomesOf(host, x) # {}}
  <1>1. /\ \A c : c \in Hosts <=> D!OutcomesOf(host, c) # {}
        /\ \A c : c \in Guests <=> D!OutcomesOf(guest, c) # {}
        /\ Hosts \subseteq S /\ Guests \subseteq S
    BY DEF D!Mentioned, D!OutcomesOf
  <1>2. {f.capability : f \in D!evaluate(host, guest)} =
           (Hosts \ Guests) \cup (Guests \ Hosts) \cup Differ
    <2>1. D!evaluate(host, guest) =
             {D!Finding(c, "UNNARRATED") : c \in Hosts \ Guests}
             \cup {D!Finding(c, "UNCONFIRMED") : c \in Guests \ Hosts}
             \cup {D!Finding(c, "OUTCOME_MISMATCH") : c \in Differ}
      BY Zenon DEF D!evaluate
    <2> HIDE DEF Hosts, Guests, Differ
    <2>2. {f.capability : f \in
             {D!Finding(c, "UNNARRATED") : c \in Hosts \ Guests}
             \cup {D!Finding(c, "UNCONFIRMED") : c \in Guests \ Hosts}
             \cup {D!Finding(c, "OUTCOME_MISMATCH") : c \in Differ}} =
           (Hosts \ Guests) \cup (Guests \ Hosts) \cup Differ
      <3>1. \A c, r : D!Finding(c, r).capability = c
        BY DEF D!Finding
      <3> QED  BY <3>1
    <2> QED  BY <2>1, <2>2, Zenon
  <1> HIDE DEF Hosts, Guests
  <1> QED  BY <1>1, <1>2

\* What the host tells of a capability, in the record.
HostTold(c) ==
    {Recorded[i].granted : i \in {j \in HostCapabilitiesOf(Recorded) : Recorded[j].cap = c}}

\* The two extractors, against the record.
LEMMA ToldOf ==
    ASSUME Recorded \in Seq(Event), NEW c \in Capability,
           \A i \in DOMAIN Recorded :
              Recorded[i].type # "CAPABILITY_REQUEST" => Recorded[i].cap = None
    PROVE  /\ D!OutcomesOf(D!observations_from_ledger(Recorded), c) = HostTold(c)
           /\ D!OutcomesOf(D!narrative_from_ledger(Recorded), c) = Claimed(c)
  <1>1. \A a : D!is_host_observed(a) <=> is_host_observed(a)
    BY DEF D!is_host_observed, is_host_observed
  <1>2. c # None
    BY DEF Capability, None
  <1>a. \A e : D!Outcome(e).capability = e.cap /\ D!Outcome(e).granted = e.granted
    BY DEF D!Outcome
  <1> DEFINE Hosts == {j \in D!Readable(Recorded) : D!is_host_observed(Recorded[j].actor)}
             Guests == {j \in D!Readable(Recorded) : ~D!is_host_observed(Recorded[j].actor)}
  <1>3. {j \in Hosts : Recorded[j].cap = c} =
           {j \in HostCapabilitiesOf(Recorded) : Recorded[j].cap = c}
    BY <1>1 DEF D!Readable, HostCapabilitiesOf, IsHostCapability
  <1>4. {j \in Guests : Recorded[j].cap = c} =
           {j \in DOMAIN Recorded : Recorded[j].cap = c /\ ~is_host_observed(Recorded[j].actor)}
    BY <1>1, <1>2 DEF D!Readable
  <1>5. D!OutcomesOf(D!observations_from_ledger(Recorded), c) = HostTold(c)
    <2>1. D!observations_from_ledger(Recorded) = {D!Outcome(Recorded[k]) : k \in Hosts}
      BY DEF D!observations_from_ledger
    <2> HIDE DEF Hosts
    <2>2. D!OutcomesOf({D!Outcome(Recorded[k]) : k \in Hosts}, c) =
             {Recorded[k].granted : k \in {j \in Hosts : Recorded[j].cap = c}}
      BY <1>a DEF D!OutcomesOf
    <2> QED  BY <1>3, <2>1, <2>2, Zenon DEF HostTold
  <1>6. D!OutcomesOf(D!narrative_from_ledger(Recorded), c) = Claimed(c)
    <2>1. D!narrative_from_ledger(Recorded) = {D!Outcome(Recorded[k]) : k \in Guests}
      BY DEF D!narrative_from_ledger
    <2> HIDE DEF Guests
    <2>2. D!OutcomesOf({D!Outcome(Recorded[k]) : k \in Guests}, c) =
             {Recorded[k].granted : k \in {j \in Guests : Recorded[j].cap = c}}
      BY <1>a DEF D!OutcomesOf
    <2> QED  BY <1>4, <2>1, <2>2, Zenon DEF Claimed
  <1> QED  BY <1>5, <1>6

\* In a run that is over the host tells what was decided.
LEMMA ToldIsDecided ==
    ASSUME Runs, pc = "done", NEW c \in Capability
    PROVE  HostTold(c) = Decided(c)
  <1> DEFINE Caps == HostCapabilitiesOf(Recorded)
             Extra == {FALSE : t \in {x \in {c} : result.timed_out /\ x = "PROCESS_SPAWN"}}
             Answers == {is_granted(history[k].decision) :
                            k \in {j \in DOMAIN history : history[j].request.capability = c}}
  <1>1. DOMAIN history = 1..Len(history)
    BY DEF Runs, BrokerTypes
  <1>2. TimeoutRecorded <=> result.timed_out
    BY DEF TimeoutRecorded, TimeoutAt
  <1>3. /\ \A i \in Caps : \/ \E k \in 1..Len(history) : Same(Recorded[i], history[k])
                           \/ result.timed_out /\ Refusal(Recorded[i])
        /\ \A k \in 1..Len(history) : \E i \in Caps : Same(Recorded[i], history[k])
        /\ result.timed_out => \E i \in Caps : Refusal(Recorded[i])
    <2>1. CASE TimeoutRecorded
      BY <1>2, <2>1 DEF Runs, RecordKept, Agree
    <2>2. CASE ~TimeoutRecorded
      BY <1>2, <2>2 DEF Runs, RecordKept, Agree
    <2> QED  BY <2>1, <2>2
  <1> HIDE DEF Caps
  <1>4. HostTold(c) \subseteq Answers \cup Extra
    <2> SUFFICES ASSUME NEW i \in Caps, Recorded[i].cap = c
                 PROVE  Recorded[i].granted \in Answers \cup Extra
      BY DEF HostTold, Caps
    <2>1. CASE \E k \in 1..Len(history) : Same(Recorded[i], history[k])
      <3>1. PICK k \in 1..Len(history) : Same(Recorded[i], history[k])
        BY <2>1
      <3>2. history[k].request.capability = c /\ Recorded[i].granted = is_granted(history[k].decision)
        BY <3>1 DEF Same
      <3> QED  BY <1>1, <3>2, Zenon
    <2>2. CASE result.timed_out /\ Refusal(Recorded[i])
      <3>1. c = "PROCESS_SPAWN" /\ Recorded[i].granted = FALSE
        BY <2>2 DEF Refusal
      <3> QED  BY <2>2, <3>1, Zenon
    <2> QED  BY <1>3, <2>1, <2>2
  <1>5. Answers \subseteq HostTold(c)
    <2> SUFFICES ASSUME NEW k \in 1..Len(history), history[k].request.capability = c
                 PROVE  is_granted(history[k].decision) \in HostTold(c)
      BY <1>1, Zenon
    <2>1. PICK i \in Caps : Same(Recorded[i], history[k])
      BY <1>3
    <2>2. Recorded[i].cap = c /\ Recorded[i].granted = is_granted(history[k].decision)
      BY <2>1 DEF Same
    <2> QED  BY <2>2, Zenon DEF HostTold, Caps
  <1>6. Extra \subseteq HostTold(c)
    <2> SUFFICES ASSUME result.timed_out, c = "PROCESS_SPAWN" PROVE FALSE \in HostTold(c)
      BY Zenon
    <2>1. PICK i \in Caps : Refusal(Recorded[i])
      BY <1>3
    <2>2. Recorded[i].cap = c /\ Recorded[i].granted = FALSE
      BY <2>1 DEF Refusal
    <2> QED  BY <2>2, Zenon DEF HostTold, Caps
  <1>7. Decided(c) = Answers \cup Extra
    BY Zenon DEF Decided
  <1> HIDE DEF Answers, Extra
  <1> QED  BY <1>4, <1>5, <1>6, <1>7

-------------------------------------------------------------------------------
\* The kill switch records with the tracker the broker uses.
LEMMA SameTracker ==
    ASSUME NEW config, NEW t, NEW denied, NEW now
    PROVE  K!record(config, t, denied, now) = record(config, t, denied, now)
  BY DEF K!record, record, K!Prune, Prune, K!Min, Min, K!AlphaNum, AlphaNum, K!AlphaDen, AlphaDen

\* Its trigger after some unexplained changes.
LEMMA SameTrigger ==
    ASSUME NEW n
    PROVE  K!TriggerAfter(n) = AfterTicks(MutationConfig, counter, trigger, n)
  BY SameTracker DEF K!TriggerAfter, AfterTicks

\* The reasons against a run: the kill switch judges once, with a new trigger.
ReasonsAgainst ==
    K!AbsoluteReasons(from_run)
    \cup K!AccumulatingReasons(from_run,
            AfterTicks(MutationConfig, 0, NewTracker, from_run.unexplained_mutations))

\* What a run that is over leaves behind.
Over ==
    pc = "done" =>
        /\ exc # None => verdict # "allowed"
        /\ exc = None =>
              /\ verdict = IF ReasonsAgainst = {} THEN "allowed" ELSE "killed"
              /\ drift = D!evaluate_ledger(Recorded)
              /\ ~overlay /\ pending = <<>>
              /\ HostEventsClean
              /\ \A i \in DOMAIN Recorded :
                    is_host_observed(Recorded[i].actor) => ~IsDormantSpawn(Recorded, i)

\* The evidence is a function of record, history and observations.
LEMMA SameEvidence ==
    ASSUME UNCHANGED <<Recorded, history, observations>>
    PROVE  ReasonsAgainst' = ReasonsAgainst
  <1>1. from_run' = from_run
    BY DEF from_run, M!containment_failed, M!by_verdict, GrantRecorded, _last_signal
  <1> QED  BY <1>1 DEF ReasonsAgainst

\* The last step leaves it so, and no step comes after.
LEMMA OverHolds == (Init => Over) /\ (Runs /\ Over /\ [Next]_vars => Over')
  <1>1. Init => Over
    <2>1. Init => pc = "validate"
      BY DEF Init, SupInit
    <2> QED  BY <2>1 DEF Over
  <1>2. ASSUME Runs, Over, [Next]_vars
        PROVE  Over'
    <2>1. CASE Judge
      <3>1. pc = "report" /\ exc = None /\ exc' = exc
        BY <1>2, <2>1 DEF Judge, Runs, Outcome, localVars
      <3>2. RunInv
        BY <1>2, <3>1 DEF Runs, LiveRun
      <3>3. ~overlay /\ pending = <<>>
        BY <3>1, <3>2 DEF RunInv, Inv, RecordPlace, Unsealed, Story, Finished, Refused, TornDown, None
      <3>4. HostEventsClean
            /\ \A i \in DOMAIN Recorded :
                  is_host_observed(Recorded[i].actor) => ~IsDormantSpawn(Recorded, i)
        BY <3>1, <3>2, InvIsClean DEF RunInv, HostLineageClean, HostNeverDormant, Finished
      <3>5. UNCHANGED <<Recorded, history, observations, overlay, pending>>
        BY <2>1 DEF Judge, Recorded, ledgerVars, backendVars, brokerVars, monitorVars
      <3>6. ReasonsAgainst' = ReasonsAgainst
        BY <3>5, SameEvidence
      <3>7. K!ReasonsFor(from_run) = ReasonsAgainst
        <4>1. trigger = NewTracker /\ counter = 0
          BY <1>2, <3>1 DEF Runs, Undecided
        <4> QED  BY <4>1, SameTrigger DEF K!ReasonsFor, ReasonsAgainst
      <3>8. verdict' = IF ReasonsAgainst = {} THEN "allowed" ELSE "killed"
        BY <2>1, <3>7 DEF Judge
      <3>9. drift' = D!evaluate_ledger(Recorded)
        BY <2>1 DEF Judge
      <3>10. HostEventsClean'
        BY <3>4, <3>5 DEF HostEventsClean
      <3> QED  BY <3>1, <3>3, <3>4, <3>5, <3>6, <3>8, <3>9, <3>10 DEF Over
    <2>2. CASE Fail
      <3>1. exc # None /\ exc' = exc /\ verdict' # "allowed"
        BY <1>2, <2>2 DEF Fail, Runs, Outcome, localVars
      <3> QED  BY <3>1 DEF Over
    <2>3. CASE pc' # "done"
      BY <2>3 DEF Over
    <2>4. CASE pc = "done" /\ UNCHANGED vars
      <3>1. UNCHANGED <<pc, exc, verdict, drift, Recorded, history, observations, overlay, pending>>
        BY <2>4 DEF vars, supVars, reportVars, Recorded, ledgerVars, localVars, backendVars,
                    brokerVars, monitorVars
      <3>2. ReasonsAgainst' = ReasonsAgainst
        BY <3>1, SameEvidence
      <3>3. HostEventsClean' <=> HostEventsClean
        BY <3>1 DEF HostEventsClean
      <3> QED  BY <1>2, <3>1, <3>2, <3>3 DEF Over
    <2>5. CASE pc # "done" /\ [RunNext]_supVars
      <3>1. SupTypeOK'
        BY <1>2, <2>5, StepRunInv DEF Runs, LiveRun, RunInv, Inv
      <3>2. pc' # "done"
        BY <3>1 DEF SupTypeOK
      <3> QED  BY <2>3, <3>2
    <2>6. CASE pc # "done" /\ UNCHANGED vars
      BY <2>3, <2>6 DEF vars, supVars
    <2> QED  BY <1>2, <2>1, <2>2, <2>4, <2>5, <2>6, OneStep
  <1> QED  BY <1>1, <1>2

\* The invariant of the whole run.
LEMMA WholeRunHolds == Spec => [](Runs /\ Over)
  <1>1. Init => Over
    BY OverHolds
  <1>2. Runs /\ Over /\ [Next]_vars => Over'
    BY OverHolds
  <1> QED  BY <1>1, <1>2, RunsHolds, PTL DEF Spec

\* The report on the drift accuses a guest exactly of what its claims and the
\* decisions of the host disagree on, however many there are of each
\* (DriftMonitor.evaluate_ledger against Broker.history).
THEOREM DriftReportIsExact == Spec => []DriftIsExact
  <1>1. Runs /\ Over => DriftIsExact
    <2> SUFFICES ASSUME Runs, Over, pc = "done", exc = None
                 PROVE  {f.capability : f \in drift} =
                           {c \in Capability : IF Claimed(c) = {} THEN Decided(c) # {}
                                               ELSE Claimed(c) \ Decided(c) # {}}
      BY DEF DriftIsExact
    <2> DEFINE host == D!observations_from_ledger(Recorded)
               guest == D!narrative_from_ledger(Recorded)
    <2>1. drift = D!evaluate(host, guest)
      BY DEF Over, D!evaluate_ledger
    <2>2. \A o \in host \cup guest : o.capability \in Capability
      <3>1. \A e : D!Outcome(e).capability = e.cap
        BY DEF D!Outcome
      <3>2. \A k \in D!Readable(Recorded) : Recorded[k].cap \in Capability
        BY DEF D!Readable
      <3> QED  BY <3>1, <3>2 DEF D!observations_from_ledger, D!narrative_from_ledger
    <2>3. \A c \in Capability : D!OutcomesOf(host, c) = Decided(c) /\ D!OutcomesOf(guest, c) = Claimed(c)
      BY ToldOf, ToldIsDecided DEF Runs, RecordKept
    <2> HIDE DEF host, guest
    <2>4. {f.capability : f \in D!evaluate(host, guest)} =
             {c \in Capability : IF D!OutcomesOf(guest, c) = {} THEN D!OutcomesOf(host, c) # {}
                                 ELSE D!OutcomesOf(guest, c) \ D!OutcomesOf(host, c) # {}}
      BY <2>2, FindingsOf
    <2> QED  BY <2>1, <2>3, <2>4
  <1> QED  BY <1>1, WholeRunHolds, PTL

-------------------------------------------------------------------------------
\* The refusals of a history, and those at its end.
RefusedOf(hist) == {k \in 1..Len(hist) : ~is_granted(hist[k].decision)}
RefusedLast(hist, n) ==
    Len(hist) >= n /\ \A k \in (Len(hist) - n + 1)..Len(hist) : ~is_granted(hist[k].decision)

\* What the tracker keeps of a history: not more refusals than there were, and
\* an EWMA between those of as many at the end and as many in all.
Fits(t, hist) ==
    /\ t.times \in Seq(Nat) /\ Ewma(t)
    /\ Len(t.times) <= Cardinality(RefusedOf(hist))
    /\ Cardinality(RefusedOf(hist)) = 0 => NoneInAll(t)
    /\ Cardinality(RefusedOf(hist)) <= 1 => OneInAll(t)
    /\ Cardinality(RefusedOf(hist)) <= 2 => TwoInAll(t)
    /\ RefusedLast(hist, 1) => RowOfOne(t)
    /\ RefusedLast(hist, 2) => RowOfTwo(t)
    /\ RefusedLast(hist, 3) => RowOfThree(t)

\* A refusal is one more, a grant is none and ends every row of refusals.
LEMMA RefusalsAppended ==
    ASSUME NEW hist \in Seq(Decision), NEW d \in Decision
    PROVE  LET more == Append(hist, d)
               count == Cardinality(RefusedOf(hist))
           IN  /\ count \in Nat
               /\ is_granted(d.decision) =>
                     /\ Cardinality(RefusedOf(more)) = count
                     /\ \A n \in {1, 2, 3} : ~RefusedLast(more, n)
               /\ ~is_granted(d.decision) =>
                     /\ Cardinality(RefusedOf(more)) = count + 1
                     /\ RefusedLast(more, 2) => RefusedLast(hist, 1)
                     /\ RefusedLast(more, 3) => RefusedLast(hist, 2)
  <1> DEFINE more == Append(hist, d)
             m == Len(hist)
             R == RefusedOf(hist)
             g(k) == is_granted(more[k].decision)
  <1>1. m \in Nat /\ Len(more) = m + 1 /\ more[m + 1] = d /\ \A k \in 1..m : more[k] = hist[k]
    BY AppendProperties
  <1>2. R \in SUBSET (1..m)
    BY DEF RefusedOf
  <1>3. Cardinality(R) \in Nat /\ Cardinality(R \cup {m + 1}) = Cardinality(R) + 1
    BY <1>1, <1>2, PositionsFinite
  <1>4. (g(m + 1) <=> is_granted(d.decision))
        /\ \A k \in 1..m : g(k) <=> is_granted(hist[k].decision)
    BY <1>1
  <1>5. RefusedOf(more) = {k \in 1..(m + 1) : ~g(k)}
    BY <1>1 DEF RefusedOf
  <1>6. R = {k \in 1..m : ~g(k)}
    BY <1>4 DEF RefusedOf
  <1>7. \A n \in {1, 2, 3} :
           RefusedLast(more, n) <=> m + 1 >= n /\ \A k \in (m + 1 - n + 1)..(m + 1) : ~g(k)
    BY <1>1 DEF RefusedLast
  <1>8. \A n \in {1, 2} :
           m >= n /\ (\A k \in (m - n + 1)..m : ~g(k)) => RefusedLast(hist, n)
    <2> SUFFICES ASSUME NEW n \in {1, 2}, m >= n, \A k \in (m - n + 1)..m : ~g(k)
                 PROVE  RefusedLast(hist, n)
      OBVIOUS
    <2>1. \A k \in (m - n + 1)..m : k \in 1..m
      BY <1>1
    <2> QED  BY <1>4, <2>1 DEF RefusedLast
  <1> HIDE DEF more, m, R, g
  <1>9. CASE is_granted(d.decision)
    <2>1. RefusedOf(more) = R
      BY <1>1, <1>4, <1>5, <1>6, <1>9
    <2>2. \A n \in {1, 2, 3} : ~RefusedLast(more, n)
      <3>1. g(m + 1)
        BY <1>4, <1>9
      <3>2. \A n \in {1, 2, 3} : m + 1 >= n => m + 1 \in (m + 1 - n + 1)..(m + 1)
        BY <1>1
      <3> QED  BY <1>7, <3>1, <3>2
    <2> QED  BY <1>3, <1>9, <2>1, <2>2 DEF more, R
  <1>10. CASE ~is_granted(d.decision)
    <2>1. RefusedOf(more) = R \cup {m + 1}
      BY <1>1, <1>4, <1>5, <1>6, <1>10
    <2>2. RefusedLast(more, 2) => RefusedLast(hist, 1)
      <3> SUFFICES ASSUME RefusedLast(more, 2) PROVE RefusedLast(hist, 1)
        OBVIOUS
      <3>1. m + 1 >= 2 /\ \A k \in m..(m + 1) : ~g(k)
        BY <1>1, <1>7
      <3>2. m >= 1 /\ \A k \in (m - 1 + 1)..m : ~g(k)
        BY <1>1, <3>1
      <3> QED  BY <1>8, <3>2
    <2>3. RefusedLast(more, 3) => RefusedLast(hist, 2)
      <3> SUFFICES ASSUME RefusedLast(more, 3) PROVE RefusedLast(hist, 2)
        OBVIOUS
      <3>1. m + 1 >= 3 /\ \A k \in (m - 1)..(m + 1) : ~g(k)
        BY <1>1, <1>7
      <3>2. m >= 2 /\ \A k \in (m - 2 + 1)..m : ~g(k)
        BY <1>1, <3>1
      <3> QED  BY <1>8, <3>2
    <2> QED  BY <1>3, <1>10, <2>1, <2>2, <2>3 DEF more, R
  <1> QED  BY <1>9, <1>10

\* The times a tracker holds after one more decision.
LEMMA TimesAfter ==
    ASSUME NEW t, t.times \in Seq(Nat), NEW denied \in BOOLEAN, NEW now \in Nat
    PROVE  LET after == record(DenialConfig, t, denied, now)
           IN  /\ after.times \in Seq(Nat)
               /\ Len(after.times) <= Len(t.times) + (IF denied THEN 1 ELSE 0)
  <1> DEFINE times == t.times
             told == Told(times, denied, now)
             kept == Prune(told, now, DenialConfig.window)
  <1>1. record(DenialConfig, t, denied, now).times = kept
    BY TimesOfRecord
  <1>2. times \in Seq(Nat)
    OBVIOUS
  <1> HIDE DEF times
  <1>3. told \in Seq(Nat) /\ Len(told) = Len(times) + (IF denied THEN 1 ELSE 0)
    BY <1>2, ToldIs
  <1>4. DenialConfig.window \in Nat
    BY RuntimeAssumption
  <1> HIDE DEF told
  <1>5. kept \in Seq(Nat) /\ Len(kept) <= Len(told)
    BY <1>3, <1>4, PrunedIs
  <1> HIDE DEF kept
  <1> QED  BY <1>1, <1>3, <1>5 DEF times

\* The tracker still fits after a refusal ...
LEMMA FitsRefusal ==
    ASSUME NEW t, NEW hist \in Seq(Decision), Fits(t, hist),
           NEW d \in Decision, ~is_granted(d.decision), NEW now \in Nat
    PROVE  Fits(record(DenialConfig, t, TRUE, now), Append(hist, d))
  <1> DEFINE after == record(DenialConfig, t, TRUE, now)
             more == Append(hist, d)
             count == Cardinality(RefusedOf(hist))
  <1>1. /\ Ewma(after) /\ RowOfOne(after)
        /\ RowOfOne(t) => RowOfTwo(after)
        /\ RowOfTwo(t) => RowOfThree(after)
        /\ NoneInAll(t) => OneInAll(after)
        /\ OneInAll(t) => TwoInAll(after)
    BY Denied DEF Fits
  <1>2. after.times \in Seq(Nat) /\ Len(after.times) <= Len(t.times) + 1
    BY TimesAfter DEF Fits
  <1>3. /\ count \in Nat /\ Cardinality(RefusedOf(more)) = count + 1
        /\ RefusedLast(more, 2) => RefusedLast(hist, 1)
        /\ RefusedLast(more, 3) => RefusedLast(hist, 2)
    BY RefusalsAppended
  <1>4. Len(t.times) \in Nat /\ Len(t.times) <= count
    BY DEF Fits
  <1>5. Len(after.times) \in Nat
    <2>1. PICK s \in Seq(Nat) : after.times = s
      BY <1>2
    <2> QED  BY <2>1, LenProperties
  <1> HIDE DEF after, more, count
  <1>6. Len(after.times) <= Cardinality(RefusedOf(more))
    BY <1>2, <1>3, <1>4, <1>5
  <1>7. /\ count = 0 => NoneInAll(t)
        /\ count <= 1 => OneInAll(t)
        /\ RefusedLast(hist, 1) => RowOfOne(t)
        /\ RefusedLast(hist, 2) => RowOfTwo(t)
    BY DEF Fits, count
  <1>8. /\ Cardinality(RefusedOf(more)) # 0
        /\ Cardinality(RefusedOf(more)) <= 1 => count = 0
        /\ Cardinality(RefusedOf(more)) <= 2 => count <= 1
    BY <1>3
  <1>9. Fits(after, more)
    BY <1>1, <1>2, <1>3, <1>6, <1>7, <1>8 DEF Fits
  <1> QED  BY <1>9 DEF after, more

\* ... and after a grant.
LEMMA FitsGrant ==
    ASSUME NEW t, NEW hist \in Seq(Decision), Fits(t, hist),
           NEW d \in Decision, is_granted(d.decision), NEW now \in Nat
    PROVE  Fits(record(DenialConfig, t, FALSE, now), Append(hist, d))
  <1> DEFINE after == record(DenialConfig, t, FALSE, now)
             more == Append(hist, d)
             count == Cardinality(RefusedOf(hist))
  <1>1. /\ Ewma(after)
        /\ NoneInAll(t) => NoneInAll(after)
        /\ OneInAll(t) => OneInAll(after)
        /\ TwoInAll(t) => TwoInAll(after)
    BY Granted DEF Fits
  <1>2. after.times \in Seq(Nat) /\ Len(after.times) <= Len(t.times) + 0
    BY TimesAfter DEF Fits
  <1>3. /\ count \in Nat /\ Cardinality(RefusedOf(more)) = count
        /\ \A n \in {1, 2, 3} : ~RefusedLast(more, n)
    BY RefusalsAppended
  <1>4. Len(t.times) \in Nat /\ Len(t.times) <= count
    BY DEF Fits
  <1>5. Len(after.times) \in Nat
    <2>1. PICK s \in Seq(Nat) : after.times = s
      BY <1>2
    <2> QED  BY <2>1, LenProperties
  <1> HIDE DEF after, more, count
  <1>6. Len(after.times) <= Cardinality(RefusedOf(more))
    BY <1>2, <1>3, <1>4, <1>5
  <1>7. /\ count = 0 => NoneInAll(t)
        /\ count <= 1 => OneInAll(t)
        /\ count <= 2 => TwoInAll(t)
    BY DEF Fits, count
  <1>8. ~RefusedLast(more, 1) /\ ~RefusedLast(more, 2) /\ ~RefusedLast(more, 3)
    BY <1>3
  <1>9. Fits(after, more)
    BY <1>1, <1>2, <1>3, <1>6, <1>7, <1>8 DEF Fits
  <1> QED  BY <1>9 DEF after, more

\* The broker's tracker fits its history, and the last signal is of both.
TrackerKept ==
    /\ Fits(tracker, history)
    /\ history # <<>> => history[Len(history)].signal = SignalOf(tracker)

\* It does at the start and after every request.
LEMMA TrackerHolds ==
    (Init => TrackerKept) /\ (BrokerTypes /\ TrackerKept /\ [Next]_vars => TrackerKept')
  <1>1. Init => TrackerKept
    <2> SUFFICES ASSUME Init PROVE TrackerKept
      OBVIOUS
    <2>1. history = <<>> /\ tracker = NewTracker
      BY DEF Init
    <2>2. RefusedOf(history) = {} /\ Cardinality({}) = 0
      BY <2>1, FS_EmptySet DEF RefusedOf
    <2>3. /\ tracker.times = <<>> /\ Len(tracker.times) = 0 /\ tracker.times \in Seq(Nat)
          /\ tracker.num = 0 /\ tracker.den = 1
      BY <2>1 DEF NewTracker
    <2>4. ~RefusedLast(history, 1) /\ ~RefusedLast(history, 2) /\ ~RefusedLast(history, 3)
      BY <2>1 DEF RefusedLast
    <2>5. Ewma(tracker) /\ NoneInAll(tracker) /\ OneInAll(tracker) /\ TwoInAll(tracker)
      BY <2>3 DEF Ewma, NoneInAll, OneInAll, TwoInAll
    <2>6. Fits(tracker, history)
      BY <2>2, <2>3, <2>4, <2>5 DEF Fits
    <2> QED  BY <2>1, <2>6 DEF TrackerKept
  <1>2. ASSUME BrokerTypes, TrackerKept, [Next]_vars
        PROVE  TrackerKept'
    <2>1. CASE UNCHANGED brokerVars
      <3>1. tracker' = tracker /\ history' = history
        BY <2>1 DEF brokerVars
      <3> QED  BY <1>2, <3>1 DEF TrackerKept
    <2>2. ASSUME NEW req \in Requests, NEW gap \in Gaps, request(req, clock + gap)
          PROVE  TrackerKept'
      <3>1. PICK d \in Decision :
               /\ d.request = req /\ d.decision = evaluate(CapabilityPolicy, req)
               /\ d.at = clock' /\ d.signal = SignalOf(tracker')
               /\ history' = Append(history, d)
        BY <1>2, <2>2, RequestAppends
      <3>2. history \in Seq(Decision) /\ clock' \in Nat /\ clock' = clock + gap
        BY <1>2, <2>2, RequestAppends DEF BrokerTypes, request
      <3>3. tracker' = record(DenialConfig, tracker, d.decision # "ALLOW", clock')
        BY <2>2, <3>1, <3>2, Zenon DEF request
      <3>4. Fits(tracker', history')
        <4>1. CASE is_granted(d.decision)
          <5>1. tracker' = record(DenialConfig, tracker, FALSE, clock')
            BY <3>3, <4>1 DEF record, is_granted
          <5> QED  BY <1>2, <3>1, <3>2, <4>1, <5>1, FitsGrant DEF TrackerKept
        <4>2. CASE ~is_granted(d.decision)
          <5>1. tracker' = record(DenialConfig, tracker, TRUE, clock')
            BY <3>3, <4>2 DEF record, is_granted
          <5> QED  BY <1>2, <3>1, <3>2, <4>2, <5>1, FitsRefusal DEF TrackerKept
        <4> QED  BY <4>1, <4>2
      <3>5. history' # <<>> /\ history'[Len(history')] = d
        BY <3>1, <3>2, AppendProperties
      <3> QED  BY <3>1, <3>4, <3>5 DEF TrackerKept
    <2> QED  BY <1>2, <2>1, <2>2, BrokerStep
  <1> QED  BY <1>1, <1>2

\* With it the invariant is complete.
LEMMA AllHolds == Spec => [](Runs /\ Over /\ TrackerKept)
  <1>1. Runs => BrokerTypes
    BY DEF Runs
  <1>2. Init => TrackerKept
    BY TrackerHolds
  <1>3. BrokerTypes /\ TrackerKept /\ [Next]_vars => TrackerKept'
    BY TrackerHolds
  <1> QED  BY <1>1, <1>2, <1>3, WholeRunHolds, PTL DEF Spec

\* A run with no reason against it was over without an exception.
LEMMA AllowedHasNoReason ==
    ASSUME Runs, Over
    PROVE  verdict = "allowed" => pc = "done" /\ exc = None /\ ReasonsAgainst = {}
  <1> SUFFICES ASSUME verdict = "allowed"
               PROVE  pc = "done" /\ exc = None /\ ReasonsAgainst = {}
    OBVIOUS
  <1>1. pc = "done"
    BY DEF Runs, Undecided
  <1>2. exc = None
    BY <1>1 DEF Over
  <1>3. verdict = IF ReasonsAgainst = {} THEN "allowed" ELSE "killed"
    BY <1>1, <1>2 DEF Over
  <1> QED  BY <1>1, <1>2, <1>3

\* What no reason against a run means, reason by reason.
LEMMA NoReason ==
    LET n == Cardinality(M!by_verdict("UNEXPLAINED"))
        t == AfterTicks(MutationConfig, 0, NewTracker, n)
    IN  ReasonsAgainst = {} <=>
           /\ ~M!containment_failed
           /\ ~GrantRecorded
           /\ {v.code : v \in LineageViolations(Recorded)} \cap K!FATAL_GATE1_CODES = {}
           /\ ~(Cardinality(DormantViolations(Recorded)) > 0)
           /\ history # <<>> => ~history[Len(history)].signal.instantaneous
           /\ history # <<>> => ~history[Len(history)].signal.cumulative
           /\ ~(n > 0 /\ instantaneous(MutationConfig, t))
           /\ ~(n > 0 /\ cumulative(MutationConfig, t))
  <1> DEFINE n == Cardinality(M!by_verdict("UNEXPLAINED"))
             t == AfterTicks(MutationConfig, 0, NewTracker, n)
             failed == M!containment_failed
             fatal == {v.code : v \in LineageViolations(Recorded)} \cap K!FATAL_GATE1_CODES
             dormant == Cardinality(DormantViolations(Recorded))
  <1>1. /\ from_run.containment_failed = failed
        /\ from_run.privilege_escalation_granted = GrantRecorded
        /\ from_run.fatal_gate1_codes = fatal
        /\ from_run.dormant_actors = dormant
        /\ from_run.denial_signal = _last_signal
        /\ from_run.unexplained_mutations = n
    BY Zenon DEF from_run
  <1>2. /\ K!instantaneous(MutationConfig, t) <=> instantaneous(MutationConfig, t)
        /\ K!cumulative(MutationConfig, t) <=> cumulative(MutationConfig, t)
    BY DEF K!instantaneous, instantaneous, K!cumulative, cumulative, K!AlphaDen, AlphaDen
  <1>3. /\ (\E s \in _last_signal : s.instantaneous)
              <=> (history # <<>> /\ history[Len(history)].signal.instantaneous)
        /\ (\E s \in _last_signal : s.cumulative)
              <=> (history # <<>> /\ history[Len(history)].signal.cumulative)
    BY DEF _last_signal
  <1> HIDE DEF n, t, failed, fatal, dormant
  <1>5. K!AbsoluteReasons(from_run) = {} <=>
           ~failed /\ ~GrantRecorded /\ fatal = {} /\ ~(dormant > 0)
    BY <1>1 DEF K!AbsoluteReasons, K!When
  <1>6. K!AccumulatingReasons(from_run, t) = {} <=>
           /\ ~(\E s \in _last_signal : s.instantaneous)
           /\ ~(\E s \in _last_signal : s.cumulative)
           /\ ~(n > 0 /\ K!instantaneous(MutationConfig, t))
           /\ ~(n > 0 /\ K!cumulative(MutationConfig, t))
    BY <1>1 DEF K!AccumulatingReasons, K!When
  <1>7. ReasonsAgainst = K!AbsoluteReasons(from_run) \cup K!AccumulatingReasons(from_run, t)
    BY <1>1, Zenon DEF ReasonsAgainst, t
  <1>8. ReasonsAgainst = {} <=>
           K!AbsoluteReasons(from_run) = {} /\ K!AccumulatingReasons(from_run, t) = {}
    BY <1>7
  <1> QED  BY <1>2, <1>3, <1>5, <1>6, <1>8 DEF n, t, failed, fatal, dormant

-------------------------------------------------------------------------------
\* Every code of the lineage rules is a fatal one.
LEMMA CodeIsFatal ==
    ASSUME NEW log \in Seq(Event), NEW k \in DOMAIN log, LineageCode(log, k) # "NONE"
    PROVE  LineageCode(log, k) \in K!FATAL_GATE1_CODES
  <1>1. log[k].type \in EventType
    <2>1. log[k] \in Event
      OBVIOUS
    <2> QED  BY <2>1 DEF Event
  <1> QED  BY <1>1 DEF LineageCode, K!FATAL_GATE1_CODES, EventType, LifecycleTypes

\* A record nothing fatal is found in has only complete lives.
LEMMA NothingFatal ==
    ASSUME NEW log \in Seq(Event)
    PROVE  /\ {v.code : v \in LineageViolations(log)} \cap K!FATAL_GATE1_CODES = {}
                 <=> \A k \in DOMAIN log : LineageCode(log, k) = "NONE"
           /\ ~(Cardinality(DormantViolations(log)) > 0)
                 <=> \A k \in DOMAIN log : ~IsDormantSpawn(log, k)
  <1> DEFINE Codes == {v.code : v \in LineageViolations(log)}
             Dormant == {j \in DOMAIN log : IsDormantSpawn(log, j)}
             f == [i \in Dormant |-> [code |-> "UNTERMINATED_ACTOR", at |-> i]]
  <1>1. Codes = {LineageCode(log, i) : i \in {j \in DOMAIN log : LineageCode(log, j) # "NONE"}}
    <2> DEFINE J == {j \in DOMAIN log : LineageCode(log, j) # "NONE"}
               Found(i) == [code |-> LineageCode(log, i), at |-> i]
    <2>1. \A i : Found(i).code = LineageCode(log, i)
      OBVIOUS
    <2>2. LineageViolations(log) = {Found(i) : i \in J}
      BY Zenon DEF LineageViolations
    <2> HIDE DEF J, Found
    <2>3. {v.code : v \in {Found(i) : i \in J}} = {LineageCode(log, i) : i \in J}
      BY <2>1
    <2> QED  BY <2>2, <2>3, Zenon DEF J
  <1>2. \A k \in DOMAIN log : LineageCode(log, k) # "NONE" =>
           LineageCode(log, k) \in Codes \cap K!FATAL_GATE1_CODES
    BY <1>1, CodeIsFatal
  <1>3. Codes \cap K!FATAL_GATE1_CODES = {} <=> \A k \in DOMAIN log : LineageCode(log, k) = "NONE"
    <2> HIDE DEF Codes
    <2>1. ASSUME \A k \in DOMAIN log : LineageCode(log, k) = "NONE"
          PROVE  Codes = {}
      BY <1>1, <2>1
    <2> QED  BY <1>2, <2>1
  <1>4. IsFiniteSet(Dormant)
    <2>1. DOMAIN log = 1..Len(log) /\ Len(log) \in Nat
      OBVIOUS
    <2>2. Dormant \in SUBSET (1..Len(log))
      BY <2>1
    <2> QED  BY <2>1, <2>2, PositionsFinite
  <1>5. DormantViolations(log) = {f[i] : i \in Dormant}
    BY DEF DormantViolations
  <1>6. IsFiniteSet(DormantViolations(log))
    <2> HIDE DEF Dormant
    <2>1. \A v \in DormantViolations(log) : \E i \in Dormant : f[i] = v
      BY <1>5
    <2>2. \A i \in Dormant : f[i] \in DormantViolations(log)
      BY <1>5
    <2>3. f \in [Dormant -> DormantViolations(log)]
      BY <2>2
    <2>4. f \in Surjection(Dormant, DormantViolations(log))
      BY <2>1, <2>3 DEF Surjection
    <2> QED  BY <1>4, <2>4, FS_Surjection
  <1>7. ~(Cardinality(DormantViolations(log)) > 0) <=> DormantViolations(log) = {}
    <2>1. Cardinality(DormantViolations(log)) \in Nat
      BY <1>6, FS_CardinalityType
    <2> QED  BY <1>6, <2>1, FS_EmptySet
  <1>8. DormantViolations(log) = {} <=> Dormant = {}
    <2> HIDE DEF Dormant, f
    <2> QED  BY <1>5
  <1>9. Dormant = {} <=> \A k \in DOMAIN log : ~IsDormantSpawn(log, k)
    OBVIOUS
  <1> HIDE DEF Codes, Dormant, f
  <1> QED  BY <1>3, <1>7, <1>8, <1>9 DEF Codes

\* The unexplained changes are finitely many.
LEMMA UnexplainedFinite ==
    ASSUME MonitorKept, NEW verd
    PROVE  IsFiniteSet(M!by_verdict(verd)) /\ Cardinality(M!by_verdict(verd)) \in Nat
  <1>1. DOMAIN observations = 1..Len(observations) /\ Len(observations) \in Nat
    BY DEF MonitorKept
  <1>2. M!by_verdict(verd) \in SUBSET (1..Len(observations))
    BY <1>1 DEF M!by_verdict
  <1> QED  BY <1>1, <1>2, PositionsFinite

\* As many changes as the burst, all at once, are a burst.
LEMMA BurstReached ==
    ASSUME NEW n \in Nat, MutationConfig.burst \in 1..(MutationConfig.window + 1),
           n >= MutationConfig.burst
    PROVE  n > 0 /\ instantaneous(MutationConfig, AfterTicks(MutationConfig, 0, NewTracker, n))
  <1>1. PICK window \in Nat : MutationConfig.window = window
    BY RuntimeAssumption
  <1>2. PICK b \in 1..(window + 1) : MutationConfig.burst = b
    BY <1>1
  <1>3. NewTracker.times = Ticks(window, 0)
    <2>1. NewTracker.times = <<>>
      BY DEF NewTracker
    <2>2. Ticks(window, 0) = <<>>
      <3>1. KeptOf(window, 0) = 0
        BY DEF KeptOf
      <3>2. Ticks(window, 0) \in Seq(Int) /\ Len(Ticks(window, 0)) = 0
        BY <3>1 DEF Ticks
      <3> QED  BY <3>2
    <2> QED  BY <2>1, <2>2
  <1> DEFINE t == AfterTicks(MutationConfig, 0, NewTracker, n)
  <1>4. t.times = Ticks(window, n)
    <2>1. t.times = Ticks(window, 0 + n)
      BY <1>1, <1>3, TicksRecorded
    <2>2. 0 + n = n
      OBVIOUS
    <2> QED  BY <2>1, <2>2
  <1> HIDE DEF t
  <1>5. Len(Ticks(window, n)) = KeptOf(window, n)
    BY DEF Ticks, KeptOf
  <1>6. KeptOf(window, n) >= b
    BY <1>2 DEF KeptOf
  <1>7. Len(t.times) >= MutationConfig.burst
    BY <1>2, <1>4, <1>5, <1>6
  <1> QED  BY <1>2, <1>7 DEF instantaneous, t

\* "allowed" means contained: the run returned, the VM and its overlay are
\* gone, every recorded actor has a complete life, nothing outside the writable
\* regions was touched, fewer changes than the burst are unexplained, and the
\* last three decisions are not all refusals (KillSwitch.evaluate over
\* Evidence.from_run).  It takes a denial threshold of at most 7 twentieths and
\* a mutation burst that the window can hold, one change being one tick.
THEOREM AllowedIsContained ==
    ASSUME DenialConfig.threshold \in 0..7,
           MutationConfig.burst \in 1..(MutationConfig.window + 1)
    PROVE  Spec => []AllowedMeansContained
  <1>1. Runs /\ Over /\ TrackerKept => AllowedMeansContained
    <2> SUFFICES ASSUME Runs, Over, TrackerKept, verdict = "allowed"
                 PROVE  AllowedMeansContained
      BY DEF AllowedMeansContained
    <2> DEFINE n == Cardinality(M!by_verdict("UNEXPLAINED"))
               t == AfterTicks(MutationConfig, 0, NewTracker, n)
    <2>1. pc = "done" /\ exc = None /\ ReasonsAgainst = {}
      BY AllowedHasNoReason
    <2>2. /\ ~M!containment_failed
          /\ {v.code : v \in LineageViolations(Recorded)} \cap K!FATAL_GATE1_CODES = {}
          /\ ~(Cardinality(DormantViolations(Recorded)) > 0)
          /\ history # <<>> => ~history[Len(history)].signal.cumulative
          /\ ~(n > 0 /\ instantaneous(MutationConfig, t))
      <3> HIDE DEF n, t
      <3> QED  BY <2>1, NoReason, Zenon DEF n, t
    <2>3. vm = "stopped" /\ ~overlay /\ pending = <<>>
      <3>1. vm = "stopped"
        BY <2>1 DEF Runs, Outcome, BeforeVm, WithVm
      <3>2. ~overlay /\ pending = <<>>
        BY <2>1 DEF Over
      <3> QED  BY <3>1, <3>2
    <2>4. \A k \in DOMAIN Recorded :
             LineageCode(Recorded, k) = "NONE" /\ ~IsDormantSpawn(Recorded, k)
      <3>1. Recorded \in Seq(Event)
        BY DEF Runs, RecordKept
      <3> QED  BY <2>2, <3>1, NothingFatal
    <2>5. ASSUME NEW p \in Files, ReadOnly(p)
          PROVE  ChangesOf(p) = {} /\ M!At(current, p) = M!At(M!Baseline, p)
      <3>1. M!by_verdict("IMPOSSIBLE") = {}
        BY <2>2 DEF M!containment_failed
      <3>2. \A k \in DOMAIN observations : observations[k].verdict # "IMPOSSIBLE"
        BY <3>1 DEF M!by_verdict
      <3>3. \A k \in DOMAIN observations : observations[k].path # p
        BY <2>5, <3>2 DEF Runs, MonitorKept, Judged
      <3>4. ChangesOf(p) = {}
        BY <3>3 DEF ChangesOf
      <3> QED  BY <3>4 DEF Runs, MonitorKept, Replayed
    <2>6. n < MutationConfig.burst
      <3>1. PICK window \in Nat : MutationConfig.window = window
        BY RuntimeAssumption
      <3>2. PICK b \in 1..(window + 1) : MutationConfig.burst = b
        BY <3>1
      <3>3. n \in Nat
        BY UnexplainedFinite DEF Runs
      <3> HIDE DEF n
      <3>4. ~(n >= MutationConfig.burst)
        BY <2>2, <3>3, BurstReached DEF t
      <3> QED  BY <3>2, <3>3, <3>4
    <2>7. ASSUME Len(history) >= 3
          PROVE  \E k \in (Len(history) - 2)..Len(history) : is_granted(history[k].decision)
      <3> SUFFICES ASSUME \A k \in (Len(history) - 2)..Len(history) :
                             ~is_granted(history[k].decision)
                   PROVE  FALSE
        OBVIOUS
      <3>1. history \in Seq(Decision) /\ Len(history) \in Nat
        BY DEF Runs, BrokerTypes
      <3>2. history # <<>> /\ Len(history) - 3 + 1 = Len(history) - 2
        BY <2>7, <3>1
      <3>3. RefusedLast(history, 3)
        BY <2>7, <3>2 DEF RefusedLast
      <3>4. RowOfThree(tracker) /\ Ewma(tracker)
        BY <3>3 DEF TrackerKept, Fits
      <3>5. cumulative(DenialConfig, tracker)
        BY <3>4, ThreeReach
      <3>6. history[Len(history)].signal = SignalOf(tracker)
        BY <3>2 DEF TrackerKept
      <3>7. history[Len(history)].signal.cumulative
        BY <3>5, <3>6 DEF SignalOf
      <3> QED  BY <2>2, <3>2, <3>7
    <2> HIDE DEF n, t
    <2> QED  BY <2>1, <2>3, <2>4, <2>5, <2>6, <2>7 DEF AllowedMeansContained, n
  <1> QED  BY <1>1, AllHolds, PTL

\* Nothing in the record or in the history grants a privilege: the policy
\* never allows it and a timeout records a refusal.
LEMMA NothingRaised ==
    ASSUME Runs
    PROVE  ~GrantRecorded
  <1>1. \A k \in DOMAIN history :
           history[k].request.capability = "PRIVILEGE_RAISE" => ~is_granted(history[k].decision)
    <2> SUFFICES ASSUME NEW k \in DOMAIN history,
                        history[k].request.capability = "PRIVILEGE_RAISE"
                 PROVE  ~is_granted(history[k].decision)
      OBVIOUS
    <2>1. history[k].decision = evaluate(CapabilityPolicy, history[k].request)
      BY DEF Runs, BrokerTypes
    <2>2. evaluate(CapabilityPolicy, history[k].request) = "DENY"
      BY DEF evaluate, NEVER_IN_RUN, DEFERRED
    <2> QED  BY <2>1, <2>2 DEF is_granted
  <1>2. ASSUME NEW i \in DOMAIN Recorded,
               is_host_observed(Recorded[i].actor), Recorded[i].type = "CAPABILITY_REQUEST",
               Recorded[i].cap = "PRIVILEGE_RAISE", Recorded[i].granted
        PROVE  FALSE
    <2>1. i \in HostCapabilitiesOf(Recorded)
      BY <1>2 DEF HostCapabilitiesOf, IsHostCapability
    <2>2. \/ \E k \in 1..Len(history) : Same(Recorded[i], history[k])
          \/ Refusal(Recorded[i])
      <3>1. CASE TimeoutRecorded
        BY <2>1, <3>1 DEF Runs, RecordKept, Agree
      <3>2. CASE ~TimeoutRecorded
        BY <2>1, <3>2 DEF Runs, RecordKept, Agree
      <3> QED  BY <3>1, <3>2
    <2>3. ~Refusal(Recorded[i])
      <3>1. "PRIVILEGE_RAISE" # "PROCESS_SPAWN"
        OBVIOUS
      <3> QED  BY <1>2, <3>1, Zenon DEF Refusal
    <2>4. PICK k \in 1..Len(history) : Same(Recorded[i], history[k])
      BY <2>2, <2>3
    <2>5. history[k].request.capability = "PRIVILEGE_RAISE" /\ is_granted(history[k].decision)
      BY <1>2, <2>4, Zenon DEF Same
    <2>6. k \in DOMAIN history
      BY DEF Runs, BrokerTypes
    <2> QED  BY <1>1, <2>5, <2>6
  <1> QED  BY <1>1, <1>2, Zenon DEF GrantRecorded

\* No layer kills on its own account: a run that returned, whose guest claims
\* are in order, with fewer than three refusals, a timeout among them, and only
\* explained changes, is allowed (KillSwitch.evaluate over Evidence.from_run).
\* It takes a denial burst of at least 3 and a threshold of at least 6
\* twentieths.
THEOREM QuietRunsAllowed ==
    ASSUME DenialConfig.burst \in Nat, DenialConfig.burst >= 3,
           DenialConfig.threshold \in Nat, DenialConfig.threshold >= 6
    PROVE  Spec => []QuietRunAllowed
  <1>1. Runs /\ Over /\ TrackerKept => QuietRunAllowed
    <2> SUFFICES ASSUME Runs, Over, TrackerKept, pc = "done", exc = None, GuestInOrder,
                        Refusals < 3,
                        \A k \in DOMAIN observations : observations[k].verdict = "EXPECTED"
                 PROVE  verdict = "allowed"
      BY DEF QuietRunAllowed
    <2> DEFINE n == Cardinality(M!by_verdict("UNEXPLAINED"))
               t == AfterTicks(MutationConfig, 0, NewTracker, n)
    <2>1. ~M!containment_failed
      <3>1. "EXPECTED" # "IMPOSSIBLE"
        OBVIOUS
      <3> QED  BY <3>1 DEF M!containment_failed, M!by_verdict
    <2>2. ~(n > 0)
      <3>1. "EXPECTED" # "UNEXPLAINED"
        OBVIOUS
      <3>2. M!by_verdict("UNEXPLAINED") = {}
        BY <3>1 DEF M!by_verdict
      <3>3. n = 0
        BY <3>2, FS_EmptySet
      <3> QED  BY <3>3
    <2>3. /\ {v.code : v \in LineageViolations(Recorded)} \cap K!FATAL_GATE1_CODES = {}
          /\ ~(Cardinality(DormantViolations(Recorded)) > 0)
      <3>1. Recorded \in Seq(Event)
        BY DEF Runs, RecordKept
      <3>2. \A k \in DOMAIN Recorded : is_host_observed(Recorded[k].actor) =>
               LineageCode(Recorded, k) = "NONE" /\ ~IsDormantSpawn(Recorded, k)
        BY DEF Over, HostEventsClean
      <3>3. \A k \in DOMAIN Recorded :
               LineageCode(Recorded, k) = "NONE" /\ ~IsDormantSpawn(Recorded, k)
        BY <3>2 DEF GuestInOrder
      <3> QED  BY <3>1, <3>3, NothingFatal
    <2>4. ASSUME history # <<>>
          PROVE  /\ ~history[Len(history)].signal.instantaneous
                 /\ ~history[Len(history)].signal.cumulative
      <3>1. DOMAIN history = 1..Len(history) /\ Len(history) \in Nat
        BY DEF Runs, BrokerTypes
      <3>2. RefusedOf(history) = {k \in DOMAIN history : ~is_granted(history[k].decision)}
        BY <3>1 DEF RefusedOf
      <3>3. PICK count \in Nat : Cardinality(RefusedOf(history)) = count
        BY <3>1, PositionsFinite DEF RefusedOf
      <3>4. count <= 2
        <4> DEFINE timeouts == IF result.timed_out THEN 1 ELSE 0
        <4>1. timeouts \in {0, 1}
          OBVIOUS
        <4>2. Refusals = count + timeouts
          BY <3>2, <3>3 DEF Refusals
        <4> HIDE DEF timeouts
        <4> QED  BY <4>1, <4>2
      <3>5. Ewma(tracker) /\ TwoInAll(tracker)
        BY <3>3, <3>4 DEF TrackerKept, Fits
      <3>6. ~cumulative(DenialConfig, tracker)
        BY <3>5, TwoDoNotReach
      <3>7. PICK times \in Seq(Nat) : tracker.times = times
        BY DEF TrackerKept, Fits
      <3>8. Len(times) \in Nat /\ Len(times) <= 2
        BY <3>3, <3>4, <3>7 DEF TrackerKept, Fits
      <3>9. ~instantaneous(DenialConfig, tracker)
        BY <3>7, <3>8 DEF instantaneous
      <3>10. history[Len(history)].signal = SignalOf(tracker)
        BY <2>4 DEF TrackerKept
      <3> QED  BY <3>6, <3>9, <3>10 DEF SignalOf
    <2> HIDE DEF n, t
    <2>5. ReasonsAgainst = {}
      BY <2>1, <2>2, <2>3, <2>4, NothingRaised, NoReason, Zenon DEF n, t
    <2> QED  BY <2>5 DEF Over
  <1> QED  BY <1>1, AllHolds, PTL
================================================================================
