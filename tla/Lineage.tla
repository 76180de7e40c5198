-------------------------------- MODULE Lineage --------------------------------
(***************************************************************************)
(* Gate 1's lineage rules (I4, I5 of ames/gate1.py) as a definition over a *)
(* finished log instead of a scan: what the scan calls live or exited at   *)
(* an event is a fact about the events before it.  Gate1.tla models the    *)
(* scan itself and shows that the two agree; the runtime's model uses      *)
(* these definitions as the result of the scan.                            *)
(***************************************************************************)
EXTENDS AmesEvents

IsSpawn(log, i, a) == log[i].type = "PROCESS_SPAWN" /\ log[i].actor = a
IsExit(log, i, a)  == log[i].type = "PROCESS_EXIT" /\ log[i].actor = a

SpawnedBefore(log, i, a) ==
    \E j \in DOMAIN log : j < i /\ IsSpawn(log, j, a)

\* An exit counts only when a spawn came before it; an actor that exited is
\* never live again, whatever is recorded later.
ExitedBefore(log, i, a) ==
    \E k \in DOMAIN log : k < i /\ IsExit(log, k, a) /\ SpawnedBefore(log, k, a)

LiveBefore(log, i, a) == SpawnedBefore(log, i, a) /\ ~ExitedBefore(log, i, a)

IsOrphan(log, i) ==
    log[i].parent # NO_PARENT /\ ~LiveBefore(log, i, log[i].parent)

\* The violation Gate 1 reports for event i, or "NONE".
LineageCode(log, i) ==
    LET e == log[i]
        live == LiveBefore(log, i, e.actor)
        exited == ExitedBefore(log, i, e.actor)
    IN  CASE e.type = "PROCESS_SPAWN" /\ live -> "DOUBLE_SPAWN"
          [] e.type = "PROCESS_SPAWN" /\ exited -> "RESPAWN_AFTER_EXIT"
          [] e.type = "PROCESS_SPAWN" /\ ~live /\ ~exited ->
                IF IsOrphan(log, i) THEN "ORPHAN_SPAWN" ELSE "NONE"
          [] e.type = "PROCESS_EXIT" ->
                IF live THEN "NONE" ELSE "EXIT_WITHOUT_SPAWN"
          [] e.type \in Markers -> "NONE"
          [] e.type \in ActionTypes ->
                IF live THEN "NONE"
                ELSE IF exited THEN "ACTION_AFTER_EXIT" ELSE "UNATTRIBUTED_ACTION"

\* The spawn that made its actor live, if that actor is still live at the
\* end of the log.
IsDormantSpawn(log, i) ==
    /\ log[i].type = "PROCESS_SPAWN"
    /\ ~SpawnedBefore(log, i, log[i].actor)
    /\ LiveBefore(log, Len(log) + 1, log[i].actor)

LineageViolations(log) ==
    {[code |-> LineageCode(log, i), at |-> i] :
        i \in {j \in DOMAIN log : LineageCode(log, j) # "NONE"}}

DormantViolations(log) ==
    {[code |-> "UNTERMINATED_ACTOR", at |-> i] :
        i \in {j \in DOMAIN log : IsDormantSpawn(log, j)}}
===============================================================================
