----------------------------- MODULE AppendOnlyLog -----------------------------
(***************************************************************************)
(* What the ledger promises its readers: the committed history is a        *)
(* sequence of events that only ever grows at its end, by whole batches,   *)
(* and event number k is the k-th event of it.                             *)
(***************************************************************************)
EXTENDS Naturals, Sequences

CONSTANT Events                \* records with a field `sequence`

VARIABLE committed

Numbered(s) == \A k \in DOMAIN s : s[k].sequence = k - 1

Init == committed = <<>>

Commit ==
    /\ Len(committed') > Len(committed)
    /\ SubSeq(committed', 1, Len(committed)) = committed
    /\ \A k \in DOMAIN committed' : committed'[k] \in Events
    /\ Numbered(committed')

Next == Commit

Spec == Init /\ [][Next]_committed
===============================================================================
