------------------------------- MODULE KillSwitch -------------------------------
(***************************************************************************)
(* containment/killswitch.py: the evaluation of one Evidence and the       *)
(* state a KillSwitch keeps between evaluations, the mutation trigger with *)
(* its tick counter and the latch.                                         *)
(*                                                                         *)
(* Evidence is [containment_failed, fatal_gate1_codes, dormant_actors,     *)
(* privilege_escalation_granted, denial_signal, unexplained_mutations];    *)
(* denial_signal is a set, empty for None, of [instantaneous, cumulative]. *)
(***************************************************************************)
EXTENDS RateTrigger

CONSTANT MutationConfig        \* [window, burst, threshold] of the constructor

VARIABLES
    trigger,                   \* _mutation_trigger
    counter,                   \* _counter
    tripped,                   \* _tripped
    kill_verdict               \* _verdict: [kill, reasons]

killVars == <<trigger, counter, tripped, kill_verdict>>

FATAL_GATE1_CODES ==
    {"UNATTRIBUTED_ACTION", "ACTION_AFTER_EXIT", "ORPHAN_SPAWN",
     "EXIT_WITHOUT_SPAWN", "DOUBLE_SPAWN", "RESPAWN_AFTER_EXIT"}

NoVerdict == [kill |-> FALSE, reasons |-> {}]

KillInit ==
    /\ trigger = NewTracker /\ counter = 0
    /\ tripped = FALSE /\ kill_verdict = NoVerdict

\* One record per unexplained mutation, each at the next tick.
TriggerAfter(n) ==
    LET after[k \in 0..n] ==
          IF k = 0 THEN trigger ELSE record(MutationConfig, after[k - 1], TRUE, counter + k)
    IN  after[n]

When(condition, reason) == IF condition THEN {reason} ELSE {}

AbsoluteReasons(e) ==
    When(e.containment_failed, "CONTAINMENT_FAILURE")
    \cup When(e.privilege_escalation_granted, "PRIVILEGE_ESCALATION")
    \cup When(e.fatal_gate1_codes # {}, "UNATTRIBUTED_ACTION")
    \cup When(e.dormant_actors > 0, "DORMANT_PROCESS")

AccumulatingReasons(e, t) ==
    When(\E s \in e.denial_signal : s.instantaneous, "DENIAL_BURST")
    \cup When(\E s \in e.denial_signal : s.cumulative, "DENIAL_SUSTAINED")
    \cup When(e.unexplained_mutations > 0 /\ instantaneous(MutationConfig, t), "MUTATION_BURST")
    \cup When(e.unexplained_mutations > 0 /\ cumulative(MutationConfig, t), "MUTATION_SUSTAINED")

ReasonsFor(e) ==
    AbsoluteReasons(e) \cup AccumulatingReasons(e, TriggerAfter(e.unexplained_mutations))

Decided(reasons) ==
    IF reasons # {}
    THEN tripped' = TRUE /\ kill_verdict' = [kill |-> TRUE, reasons |-> reasons]
    ELSE UNCHANGED <<tripped, kill_verdict>>

evaluate_FreshTrigger(e) ==
    /\ Decided(AbsoluteReasons(e) \cup AccumulatingReasons(e,
          IF e.unexplained_mutations = 0 THEN trigger
          ELSE record(MutationConfig, NewTracker, TRUE, counter)))
    /\ counter' = counter + e.unexplained_mutations
    /\ trigger' = NewTracker
evaluate(e) ==
    /\ Decided(ReasonsFor(e))
    /\ trigger' = TriggerAfter(e.unexplained_mutations)
    /\ counter' = counter + e.unexplained_mutations

\* The evaluator raises: fail closed.
evaluate_raises ==
    /\ Decided({"EVALUATOR_FAILURE"})
    /\ UNCHANGED <<trigger, counter>>
===============================================================================
