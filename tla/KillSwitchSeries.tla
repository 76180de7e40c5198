---------------------------- MODULE KillSwitchSeries ----------------------------
(***************************************************************************)
(* The two rate triggers together: the broker's DenialTracker, fed with    *)
(* decisions at any pace of a monotonic clock, and one KillSwitch, which   *)
(* is given the tracker's last signal and any other evidence, again and    *)
(* again, and counts unexplained mutations with a trigger of its own.      *)
(***************************************************************************)
EXTENDS KillSwitch

CONSTANTS
    DenialConfig,              \* [window, burst, threshold] of the broker's tracker
    Gaps,                      \* clock units between two decisions
    Evidences,                 \* the other evidence one evaluation may be given
    MaxDecisions,              \* bound: decisions recorded
    MaxMutations               \* bound: unexplained mutations in all evaluations

ASSUME SeriesAssumption ==
    /\ Gaps \subseteq Nat
    /\ DenialConfig.window \in Nat /\ MutationConfig.window \in Nat
    /\ \A e \in Evidences : e.unexplained_mutations \in Nat
    /\ MaxDecisions \in Nat /\ MaxMutations \in Nat

VARIABLES
    tracker, now,              \* the tracker, time.monotonic()
    history                    \* the decisions so far: [denied, at]

trackerVars == <<tracker, now, history>>
vars == <<killVars, trackerVars>>

Init ==
    /\ KillInit
    /\ tracker = NewTracker /\ now = 0 /\ history = <<>>

Decide ==
    /\ Len(history) < MaxDecisions
    /\ \E denied \in BOOLEAN, gap \in Gaps :
          /\ now' = now + gap
          /\ tracker' = record(DenialConfig, tracker, denied, now')
          /\ history' = Append(history, [denied |-> denied, at |-> now'])
    /\ UNCHANGED killVars

\* The signal record returned last, None before the first decision.
LastSignal ==
    IF history = <<>> THEN {}
    ELSE {[instantaneous |-> instantaneous(DenialConfig, tracker),
           cumulative |-> cumulative(DenialConfig, tracker)]}

Given(e, signal) ==
    [containment_failed |-> e.containment_failed,
     fatal_gate1_codes |-> e.fatal_gate1_codes,
     dormant_actors |-> e.dormant_actors,
     privilege_escalation_granted |-> e.privilege_escalation_granted,
     denial_signal |-> signal,
     unexplained_mutations |-> e.unexplained_mutations]

Evaluate ==
    /\ \E e \in Evidences :
          /\ counter + e.unexplained_mutations <= MaxMutations
          /\ evaluate(Given(e, LastSignal))
    /\ UNCHANGED trackerVars

\* Evidence the evaluator cannot read; from_run never builds any.
EvaluatorRaises == evaluate_raises /\ UNCHANGED trackerVars

Next == Decide \/ Evaluate \/ EvaluatorRaises

Spec == Init /\ [][Next]_vars

-------------------------------------------------------------------------------
\* The burst count is exactly the number of denials not older than the window
\* at the last decision: pruning at the head only loses none that still counts
\* and keeps none that no longer does (DenialTracker.record).
BurstCountExact ==
    history # <<>> =>
        Len(tracker.times) =
            Cardinality({k \in DOMAIN history :
                            history[k].denied /\ history[k].at >= now - DenialConfig.window})

\* "An accumulating EWMA that a slow, steady probe still drives upward": three
\* denials in a row make the next evaluation kill, at every pace, whatever was
\* decided before them and whatever else the evidence says.
Patient == 3
PatientProbeTrips ==
    /\ Len(history) >= Patient
    /\ \A k \in (Len(history) - Patient + 1)..Len(history) : history[k].denied
    => \A e \in Evidences : "DENIAL_SUSTAINED" \in ReasonsFor(Given(e, LastSignal))

\* "Once tripped, always tripped", and the mutation budget spans evaluations:
\* the third unexplained mutation trips the switch, whether the three come in
\* one evidence or in three, and no clean evidence later resets it
\* (KillSwitch.evaluate).
ThirdMutationKills == counter >= MutationConfig.burst => tripped /\ kill_verdict.kill
===============================================================================
