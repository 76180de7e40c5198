----------------------------- MODULE MCFingerprint -----------------------------
EXTENDS Fingerprint

Run(caps, gaps) ==
    [k \in DOMAIN caps |->
        [capability |-> caps[k], timestamp_ns |-> 10 + Sum(SubSeq(gaps, 1, k - 1))]]

Runs(caps, gaps, len) ==
    {Run(c, g) : c \in [1..len -> caps], g \in [1..(len - 1) -> gaps]}

\* an agent that reads and writes, with a clock that may step back
MCReferenceRuns ==
    {<<>>} \cup UNION {Runs({"read", "write"}, {-1, 4, 6}, len) : len \in 1..3}

\* candidates that may also reach for the network
MCCandidateRuns == {<<>>} \cup UNION {Runs({"read", "write", "net"}, {5}, len) : len \in 1..3}

===============================================================================
