------------------------------- MODULE Fingerprint -------------------------------
(***************************************************************************)
(* containment/fingerprint.py: the profile of an agent's behaviour, built  *)
(* from reference runs, sealed, and then compared with candidate runs.  A  *)
(* run is the sequence of the capability decisions the host observed       *)
(* (Drift's observations_from_ledger); their "granted" flag is left out,   *)
(* for neither absorb nor evaluate reads it.  The mean and the standard    *)
(* deviation are exact here: their test is multiplied out to integers.     *)
(***************************************************************************)
EXTENDS Integers, Sequences, SequencesExt

CONSTANTS
    Capability,
    ReferenceRuns,             \* what an operator may absorb
    CandidateRuns,             \* what may be evaluated
    ZThreshold,                \* evaluate's z_threshold, 4.0 unless the caller says else
    MaxRuns                    \* bound: reference runs absorbed

ASSUME FingerprintAssumption ==
    /\ ReferenceRuns \cup CandidateRuns \subseteq Seq([capability : Capability, timestamp_ns : Int])
    /\ ZThreshold \in Nat \ {0} /\ MaxRuns \in Nat

VARIABLES
    capabilities, transitions, intervals_ns, runs_absorbed, sealed,
    references                 \* history: the runs absorbed

profile == <<capabilities, transitions, intervals_ns, runs_absorbed>>
vars == <<capabilities, transitions, intervals_ns, runs_absorbed, sealed, references>>

-------------------------------------------------------------------------------
Steps(run) == 1..(Len(run) - 1)
Pair(run, k) == <<run[k].capability, run[k + 1].capability>>
Gap(run, k) == run[k + 1].timestamp_ns - run[k].timestamp_ns

\* A clock that went back gives no interval.
Intervals(run) ==
    FoldLeft(LAMBDA gaps, gap : IF gap >= 0 THEN Append(gaps, gap) ELSE gaps,
             <<>>, [k \in Steps(run) |-> Gap(run, k)])

Sum(s) == FoldLeft(LAMBDA a, b : a + b, 0, s)
samples == Len(intervals_ns)
Total == Sum(intervals_ns)

\* samples times the sum of the squared deviations from the mean, so zero iff
\* the baseline is perfectly steady.
Spread == samples * Sum([k \in 1..samples |-> intervals_ns[k] * intervals_ns[k]]) - Total * Total

\* samples times the distance of a gap from the mean.
Deviation(gap) == samples * gap - Total

\* abs(z) >= z_threshold, without the square root; a steady baseline has no
\* scale, and fewer than two intervals give no verdict.
cadence_outlier(gap) ==
    /\ gap >= 0 /\ samples >= 2
    /\ IF Spread > 0
       THEN Deviation(gap) * Deviation(gap) * (samples - 1)
            >= ZThreshold * ZThreshold * samples * Spread
       ELSE Deviation(gap) # 0

SequenceVerdict(run, k) ==
    [novel_capability |-> run[k].capability \notin capabilities,
     novel_transition |-> k > 1 /\ Pair(run, k - 1) \notin transitions,
     cadence_outlier  |-> k > 1 /\ cadence_outlier(Gap(run, k - 1))]

\* One verdict per observation; callable on a sealed baseline only.
evaluate(run) == [k \in DOMAIN run |-> SequenceVerdict(run, k)]

flagged(verdict) ==
    verdict.novel_capability \/ verdict.novel_transition \/ verdict.cadence_outlier

-------------------------------------------------------------------------------
Init ==
    /\ capabilities = {} /\ transitions = {} /\ intervals_ns = <<>>
    /\ runs_absorbed = 0 /\ sealed = FALSE
    /\ references = <<>>

\* An empty run changes nothing, and a sealed baseline refuses.
absorb_AcrossRuns(run) ==
    /\ ~sealed /\ run # <<>>
    /\ capabilities' = capabilities \cup {run[k].capability : k \in DOMAIN run}
    /\ transitions' = transitions \cup {Pair(run, k) : k \in Steps(run)}
          \cup {<<Last(r).capability, Head(run).capability>> :
                   r \in {references[j] : j \in {runs_absorbed} \ {0}}}
    /\ intervals_ns' = intervals_ns \o Intervals(run)
    /\ runs_absorbed' = runs_absorbed + 1
    /\ references' = Append(references, run)
    /\ UNCHANGED sealed
absorb_LastTimingOnly(run) ==
    /\ ~sealed /\ run # <<>>
    /\ capabilities' = capabilities \cup {run[k].capability : k \in DOMAIN run}
    /\ transitions' = transitions \cup {Pair(run, k) : k \in Steps(run)}
    /\ intervals_ns' = Intervals(run)
    /\ runs_absorbed' = runs_absorbed + 1
    /\ references' = Append(references, run)
    /\ UNCHANGED sealed
absorb(run) ==
    /\ ~sealed /\ run # <<>>
    /\ capabilities' = capabilities \cup {run[k].capability : k \in DOMAIN run}
    /\ transitions' = transitions \cup {Pair(run, k) : k \in Steps(run)}
    /\ intervals_ns' = intervals_ns \o Intervals(run)
    /\ runs_absorbed' = runs_absorbed + 1
    /\ references' = Append(references, run)
    /\ UNCHANGED sealed

seal ==
    /\ runs_absorbed # 0
    /\ sealed' = TRUE
    /\ UNCHANGED <<profile, references>>

Absorb == runs_absorbed < MaxRuns /\ \E run \in ReferenceRuns : absorb(run)

Next == Absorb \/ seal

Spec == Init /\ [][Next]_vars

-------------------------------------------------------------------------------
\* A run the baseline was built from is wholly unflagged, its timing included,
\* as long as the pool is so small that no sample can lie ZThreshold standard
\* deviations from the mean it is itself part of: (samples-1)/sqrt(samples) < ZThreshold,
\* with the default 4.0 up to 17 intervals.  Absorbing more runs takes nothing
\* back from an earlier one.
ReferenceRunsAreClean ==
    sealed /\ (samples = 0 \/ (samples - 1) * (samples - 1) < ZThreshold * ZThreshold * samples) =>
        \A j \in DOMAIN references : \A k \in DOMAIN references[j] :
            ~flagged(evaluate(references[j])[k])

\* What no reference run did is novel: a candidate without a novel capability
\* or transition is stitched together from steps that happened WITHIN one
\* reference run each, never across the boundary of two; whatever its pacing.
UnflaggedIsStitched ==
    sealed => \A run \in CandidateRuns :
        (\A k \in DOMAIN run : ~evaluate(run)[k].novel_capability /\ ~evaluate(run)[k].novel_transition)
        => \A k \in Steps(run) : \E j \in DOMAIN references :
              \E i \in Steps(references[j]) : Pair(references[j], i) = Pair(run, k)
===============================================================================
