-------------------------------- MODULE MCGate1 --------------------------------
(***************************************************************************)
(* Small logs for Gate1: every lineage history of up to MaxInterior events *)
(* of two actors between a pair of markers, and every short log of         *)
(* arbitrary numbering, timestamps and markers.                            *)
(***************************************************************************)
EXTENDS Gate1

CONSTANT MaxInterior

SeqsUpTo(S, n) == UNION {[1..m -> S] : m \in 0..n}

Actors == {1, 2}

Ev(type, actor, parent) ==
    [type |-> type, sequence |-> 0, timestamp |-> 0, actor |-> actor, parent |-> parent]

LineageEvents ==
    {Ev("PROCESS_SPAWN", a, p) : a \in Actors, p \in Actors \cup {NO_PARENT}}
    \cup {Ev(t, a, NO_PARENT) : t \in {"PROCESS_EXIT", "TOOL_CALL"}, a \in Actors}

Bracket(s) ==
    Renumbered(<<Ev("RUN_BEGIN", HOST_ACTOR_ID, NO_PARENT)>> \o s
               \o <<Ev("RUN_END", HOST_ACTOR_ID, NO_PARENT)>>)

LineageLogs == {Bracket(s) : s \in SeqsUpTo(LineageEvents, MaxInterior)}

OrderEvents ==
    {[Ev(t, HOST_ACTOR_ID, NO_PARENT) EXCEPT !.sequence = n, !.timestamp = ts] :
        t \in {"RUN_BEGIN", "RUN_END"}, n \in 0..2, ts \in 0..1}

OrderLogs == SeqsUpTo(OrderEvents, 3)

MCLogs == LineageLogs \cup OrderLogs
===============================================================================
