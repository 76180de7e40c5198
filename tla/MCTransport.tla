------------------------------ MODULE MCTransport ------------------------------
EXTENDS Transport

CONSTANT MaxFrames             \* bound: frames in a stream

Whole(t, n) == [type |-> t, plen |-> n, whole |-> "all"]
MCFrames == {Whole("TOOL_CALL", 0), Whole("TOOL_CALL", 2), Whole("PROCESS_SPAWN", 1),
             Whole("RUN_END", 1), Whole(Unknown, 2)}
MCTails == {Whole("TOOL_CALL", 3), [type |-> "TOOL_CALL", plen |-> 1, whole |-> "header"],
            [type |-> "TOOL_CALL", plen |-> 1, whole |-> "payload"]}

MCStreams ==
    UNION {[1..n -> MCFrames] : n \in 0..MaxFrames}
    \cup UNION {{Append(s, f) : s \in [1..n -> MCFrames], f \in MCTails} :
                   n \in 0..(MaxFrames - 1)}
===============================================================================
