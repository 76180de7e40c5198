--------------------------------- MODULE Gate1 ---------------------------------
(***************************************************************************)
(* ames/gate1.py: verify() as the scan it is.  It walks one log four times *)
(* (sequence numbers, timestamps, run markers, lineage) and then looks at  *)
(* who is still live.  Each loop iteration is a step; `found` collects     *)
(* every violation, as the code does, instead of stopping at the first.    *)
(*                                                                         *)
(* A violation is [code, at]: `at` is the position of the event whose      *)
(* sequence number the code reports.                                       *)
(***************************************************************************)
EXTENDS Lineage

CONSTANT Logs                  \* the logs verify() is called on

Event == [type : EventType, sequence : Nat, timestamp : Nat,
          actor : Nat, parent : Nat]

ASSUME LogsAssumption == Logs \subseteq Seq(Event)

VARIABLES
    log,                       \* the argument `events`
    require_run_markers,       \* the keyword argument
    pc,                        \* the loop being run
    i,                         \* position of the next event of that loop
    expected,                  \* I1: next sequence number
    last_ts,                   \* I2: largest timestamp so far
    live,                      \* I4: live actor -> position of its spawn
    exited,                    \* I4: actors that exited
    found                      \* the violations so far

vars == <<log, require_run_markers, pc, i, expected, last_ts, live, exited, found>>

Report(code, at) == found' = found \cup {[code |-> code, at |-> at]}

Put(f, k, v) == [x \in DOMAIN f \cup {k} |-> IF x = k THEN v ELSE f[x]]
Drop(f, k)   == [x \in DOMAIN f \ {k} |-> f[x]]

Init ==
    /\ log \in Logs
    /\ require_run_markers \in BOOLEAN
    /\ pc = IF log = <<>> THEN "done" ELSE "sequence"
    /\ i = 1
    /\ expected = IF log = <<>> THEN 0 ELSE log[1].sequence
    /\ last_ts = IF log = <<>> THEN 0 ELSE log[1].timestamp
    /\ live = [a \in {} |-> 0]
    /\ exited = {}
    /\ found = {}

-------------------------------------------------------------------------------
\* I1.  After a gap the scan resynchronises on the number it saw.
SequenceStep ==
    /\ pc = "sequence" /\ i <= Len(log)
    /\ IF log[i].sequence # expected THEN Report("SEQ_GAP", i) ELSE UNCHANGED found
    /\ expected' = log[i].sequence + 1
    /\ i' = i + 1
    /\ UNCHANGED <<log, require_run_markers, pc, last_ts, live, exited>>

\* I2.  Equal timestamps are permitted; the maximum so far is remembered.
TimeStep_LastSeen ==
    /\ pc = "time" /\ i <= Len(log)
    /\ IF log[i].timestamp < last_ts THEN Report("TIME_REGRESSION", i) ELSE UNCHANGED found
    /\ last_ts' = log[i].timestamp
    /\ i' = i + 1
    /\ UNCHANGED <<log, require_run_markers, pc, expected, live, exited>>
TimeStep ==
    /\ pc = "time" /\ i <= Len(log)
    /\ IF log[i].timestamp < last_ts
       THEN Report("TIME_REGRESSION", i) /\ UNCHANGED last_ts
       ELSE last_ts' = log[i].timestamp /\ UNCHANGED found
    /\ i' = i + 1
    /\ UNCHANGED <<log, require_run_markers, pc, expected, live, exited>>

\* I3.  What the run markers are reported for, at most two codes per event.
MarkerViolations ==
    {[code |-> "NO_RUN_BEGIN", at |-> k] :
        k \in {1} \cap {j \in DOMAIN log : log[j].type # "RUN_BEGIN"}}
    \cup
    {[code |-> "NO_RUN_END", at |-> k] :
        k \in {Len(log)} \cap {j \in DOMAIN log : log[j].type # "RUN_END"}}
    \cup
    {[code |-> "NESTED_RUN_MARKER", at |-> k] :
        k \in {j \in DOMAIN log : j > 1 /\ j < Len(log) /\ log[j].type \in Markers}}

MarkerStep ==
    /\ pc = "markers"
    /\ found' = IF require_run_markers THEN found \cup MarkerViolations ELSE found
    /\ pc' = "lineage" /\ i' = 1
    /\ UNCHANGED <<log, require_run_markers, expected, last_ts, live, exited>>

NextLoop ==
    /\ pc \in {"sequence", "time", "lineage"} /\ i > Len(log)
    /\ pc' = CASE pc = "sequence" -> "time" [] pc = "time" -> "markers"
               [] pc = "lineage" -> "close"
    /\ i' = 1
    /\ UNCHANGED <<log, require_run_markers, expected, last_ts, live, exited, found>>

-------------------------------------------------------------------------------
\* I4.  One step per event, by type.  LineageFrame is what all of them share.
LineageFrame ==
    /\ pc = "lineage" /\ i <= Len(log)
    /\ i' = i + 1
    /\ UNCHANGED <<log, require_run_markers, pc, expected, last_ts>>

RejectedSpawn ==
    /\ LineageFrame
    /\ log[i].type = "PROCESS_SPAWN"
    /\ \/ log[i].actor \in DOMAIN live /\ Report("DOUBLE_SPAWN", i)
       \/ /\ log[i].actor \notin DOMAIN live
          /\ log[i].actor \in exited
          /\ Report("RESPAWN_AFTER_EXIT", i)
    /\ UNCHANGED <<live, exited>>

\* An orphan is reported and still becomes live.
AcceptedSpawn ==
    /\ LineageFrame
    /\ log[i].type = "PROCESS_SPAWN"
    /\ log[i].actor \notin DOMAIN live \cup exited
    /\ IF log[i].parent # NO_PARENT /\ log[i].parent \notin DOMAIN live
       THEN Report("ORPHAN_SPAWN", i)
       ELSE UNCHANGED found
    /\ live' = Put(live, log[i].actor, i)
    /\ UNCHANGED exited

Exit_Forgotten ==
    /\ LineageFrame
    /\ log[i].type = "PROCESS_EXIT"
    /\ IF log[i].actor \in DOMAIN live
       THEN /\ live' = Drop(live, log[i].actor)
            /\ UNCHANGED <<found, exited>>
       ELSE /\ Report("EXIT_WITHOUT_SPAWN", i)
            /\ UNCHANGED <<live, exited>>
Exit ==
    /\ LineageFrame
    /\ log[i].type = "PROCESS_EXIT"
    /\ IF log[i].actor \in DOMAIN live
       THEN /\ exited' = exited \cup {log[i].actor}
            /\ live' = Drop(live, log[i].actor)
            /\ UNCHANGED found
       ELSE /\ Report("EXIT_WITHOUT_SPAWN", i)
            /\ UNCHANGED <<live, exited>>

Marker ==
    /\ LineageFrame
    /\ log[i].type \in Markers
    /\ UNCHANGED <<live, exited, found>>

Act ==
    /\ LineageFrame
    /\ log[i].type \in ActionTypes
    /\ IF log[i].actor \in DOMAIN live THEN UNCHANGED found
       ELSE Report(IF log[i].actor \in exited THEN "ACTION_AFTER_EXIT"
                                              ELSE "UNATTRIBUTED_ACTION", i)
    /\ UNCHANGED <<live, exited>>

\* I5, the whole closing loop: one violation per live actor, at its spawn.
Close_Silent ==
    /\ pc = "close" /\ pc' = "done"
    /\ UNCHANGED <<log, require_run_markers, i, expected, last_ts, live, exited, found>>
Close ==
    /\ pc = "close"
    /\ found' = found \cup
          {[code |-> "UNTERMINATED_ACTOR", at |-> live[a]] : a \in DOMAIN live}
    /\ pc' = "done"
    /\ UNCHANGED <<log, require_run_markers, i, expected, last_ts, live, exited>>

Next ==
    \/ SequenceStep \/ TimeStep \/ MarkerStep \/ NextLoop
    \/ RejectedSpawn \/ AcceptedSpawn \/ Exit \/ Marker \/ Act
    \/ Close

Spec == Init /\ [][Next]_vars

-------------------------------------------------------------------------------
\* The result of verify() as a definition over the finished log.
SequenceViolations(l) ==
    {[code |-> "SEQ_GAP", at |-> k] :
        k \in {j \in DOMAIN l : j > 1 /\ l[j].sequence # l[j-1].sequence + 1}}

TimeViolations(l) ==
    {[code |-> "TIME_REGRESSION", at |-> k] :
        k \in {j \in DOMAIN l : \E h \in DOMAIN l : h < j /\ l[j].timestamp < l[h].timestamp}}

Expected ==
    SequenceViolations(log) \cup TimeViolations(log)
    \cup (IF require_run_markers THEN MarkerViolations ELSE {})
    \cup LineageViolations(log) \cup DormantViolations(log)

\* What a well-formed run is, said without any scan: numbered without holes,
\* in time order, inside one pair of markers, and every actor that does
\* anything has exactly one spawn, before all its other events, exactly one
\* exit, after them, and lies inside its parent's life.
Dense(l) == \A k \in DOMAIN l : k > 1 => l[k].sequence = l[k-1].sequence + 1
InTimeOrder(l) == \A h, k \in DOMAIN l : h < k => l[h].timestamp <= l[k].timestamp
Enclosed(l) ==
    /\ l[1].type = "RUN_BEGIN"
    /\ l[Len(l)].type = "RUN_END"
    /\ \A k \in DOMAIN l : l[k].type \in Markers => k \in {1, Len(l)}

Life(l, s, x, a) ==           \* a lives from its only spawn s to its only exit x
    /\ s < x
    /\ \A k \in DOMAIN l :
         /\ IsSpawn(l, k, a) <=> k = s
         /\ IsExit(l, k, a) <=> k = x
         /\ l[k].actor = a /\ l[k].type \notin Markers => s <= k /\ k <= x

Balanced(l) ==
    \A k \in DOMAIN l : l[k].type \notin Markers =>
        \E s, x \in DOMAIN l :
            /\ Life(l, s, x, l[k].actor)
            /\ l[s].parent # NO_PARENT =>
                 \E ps, px \in DOMAIN l :
                    /\ IsSpawn(l, ps, l[s].parent) /\ ps < s
                    /\ Life(l, ps, px, l[s].parent) /\ s < px

WellFormed(l) == l # <<>> => Dense(l) /\ InTimeOrder(l) /\ Enclosed(l) /\ Balanced(l)

Without(l, k) == [j \in 1..(Len(l) - 1) |-> IF j < k THEN l[j] ELSE l[j + 1]]
Renumbered(l) == [j \in DOMAIN l |-> [l[j] EXCEPT !.sequence = j]]

-------------------------------------------------------------------------------
\* The scan reports exactly the violations the log has: each of them, at its
\* event, under the code the rules give it, and no other (gate1.verify).
Gate1Exact == pc = "done" => found = Expected

\* verify() accepts a log if and only if it is a well-formed run: the
\* incremental bookkeeping of live and exited actors decides the declarative
\* shape, orphans, respawns and dormant actors included (Gate1Result.ok).
OkIsWellFormed ==
    pc = "done" /\ require_run_markers => (found = {} <=> WellFormed(log))

\* What the module's docstring promises: from an accepted run no event can be
\* left out unnoticed, and renumbering the rest hides nothing of the lineage
\* and no marker; only an action can be left out that way.
OmissionVisible ==
    pc = "done" /\ require_run_markers /\ found = {} =>
        \A k \in DOMAIN log :
            /\ ~WellFormed(Without(log, k))
            /\ log[k].type \notin ActionTypes => ~WellFormed(Renumbered(Without(log, k)))
===============================================================================
