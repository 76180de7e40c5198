-------------------------------- MODULE MCSeries --------------------------------
(***************************************************************************)
(* The two components that are called again and again, each with a series  *)
(* of calls of its own.  They share no state, so a behaviour calls one of  *)
(* them only, and no product of the two is explored.                       *)
(***************************************************************************)
EXTENDS SpawnSeries, KillSwitchSeries

SeriesInit == SpawnInit /\ Init
SeriesNext ==
    \/ SpawnNext /\ Init /\ UNCHANGED vars
    \/ Next /\ SpawnInit /\ UNCHANGED spawnVars
SeriesSpec == SeriesInit /\ [][SeriesNext]_<<spawnVars, vars>>

-------------------------------------------------------------------------------
\* The evidence and the thresholds of the kill switch.
MCDenials == [window |-> 2, burst |-> 3, threshold |-> 7]
MCMutations == [window |-> 60, burst |-> 3, threshold |-> 6]

Clean == [containment_failed |-> FALSE, fatal_gate1_codes |-> {}, dormant_actors |-> 0,
          privilege_escalation_granted |-> FALSE, unexplained_mutations |-> 0]

\* one absolute fault at a time, or none or all, and up to two mutations
MCFaults ==
    {Clean,
     [Clean EXCEPT !.containment_failed = TRUE],
     [Clean EXCEPT !.fatal_gate1_codes = {"ORPHAN_SPAWN"}],
     [Clean EXCEPT !.dormant_actors = 1],
     [Clean EXCEPT !.privilege_escalation_granted = TRUE],
     [containment_failed |-> TRUE, fatal_gate1_codes |-> {"ORPHAN_SPAWN"},
      dormant_actors |-> 1, privilege_escalation_granted |-> TRUE,
      unexplained_mutations |-> 0]}
MCEvidences == {[f EXCEPT !.unexplained_mutations = n] : f \in MCFaults, n \in 0..2}
===============================================================================
