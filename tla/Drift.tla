---------------------------------- MODULE Drift ----------------------------------
(***************************************************************************)
(* containment/drift.py: the comparison, after a run, of what the host     *)
(* decided about capability requests with what the guest says it asked     *)
(* for.  A log is the sequence of the recorded events, each with the       *)
(* capability and the outcome its payload names, or with a cap outside     *)
(* Capability if it names none.  The extraction of the host's side is the  *)
(* one of containment/fingerprint.py.                                      *)
(***************************************************************************)
EXTENDS AmesEvents

CONSTANT Capability

Outcome(e) == [capability |-> e.cap, granted |-> e.granted]

\* The two extractors differ in the side they keep; neither raises on a
\* payload it cannot read.
Readable(log) ==
    {k \in DOMAIN log : log[k].type = "CAPABILITY_REQUEST" /\ log[k].cap \in Capability}

observations_from_ledger_Merged(log) == {Outcome(log[k]) : k \in Readable(log)}
observations_from_ledger(log) ==
    {Outcome(log[k]) : k \in {j \in Readable(log) : is_host_observed(log[j].actor)}}
narrative_from_ledger(log) ==
    {Outcome(log[k]) : k \in {j \in Readable(log) : ~is_host_observed(log[j].actor)}}

Mentioned(side) == {o.capability : o \in side}
OutcomesOf(side, c) == {o.granted : o \in {x \in side : x.capability = c}}
Finding(c, reason) == [capability |-> c, reason |-> reason]

\* DriftMonitor.evaluate, capability by capability.
evaluate(host, guest) ==
    {Finding(c, "UNNARRATED") : c \in Mentioned(host) \ Mentioned(guest)}
    \cup {Finding(c, "UNCONFIRMED") : c \in Mentioned(guest) \ Mentioned(host)}
    \cup {Finding(c, "OUTCOME_MISMATCH") :
             c \in {x \in Mentioned(host) \cap Mentioned(guest) :
                       OutcomesOf(guest, x) \ OutcomesOf(host, x) # {}}}

evaluate_ledger(log) == evaluate(observations_from_ledger(log), narrative_from_ledger(log))
===============================================================================
