------------------------------ MODULE LedgerAudit ------------------------------
(***************************************************************************)
(* A ledger in use: one writer stages and seals, checkpoints are exported  *)
(* to a place outside the ledger, and from time to time a stored copy of   *)
(* the chain is verified, with a checkpoint or without.  The stored copy   *)
(* may have suffered any single alteration of Copies, the kinds            *)
(* tests/test_tamper.py goes through one by one.                           *)
(***************************************************************************)
EXTENDS Ledger, Canonical

CONSTANTS
    Offered,                   \* the events callers try to stage
    Contents,                  \* what distinguishes two events with one number
    MaxEvents, MaxBlocks       \* bounds on the ledger's length

VARIABLES
    exported,                  \* checkpoints held outside the ledger
    audited                    \* the copy verified since the last step, and the outcome

vars == <<blocks, pending, next_sequence, exported, audited>>

Event(n, c) == [event_type |-> c.event_type, sequence |-> n, timestamp_ns |-> c.timestamp_ns,
                actor_id |-> c.actor_id, parent_id |-> c.parent_id, payload |-> c.payload]

ASSUME OfferedAssumption ==
    /\ \A ev \in Offered : IsEvent(ev) /\ \E c \in Contents : ev = Event(ev.sequence, c)
    /\ \A c \in Contents : IsEvent(Event(0, c)) /\ c.payload \in Seq(Nat)
    /\ MaxEvents \in 0..MAX_SEQUENCE /\ MaxBlocks \in Nat

NoAudit == [copy |-> <<>>, against |-> {}, accepted |-> FALSE]

Init == LedgerInit /\ exported = {} /\ audited = NoAudit

Stage ==
    /\ next_sequence < MaxEvents
    /\ \E ev \in Offered : append(ev)
    /\ audited' = NoAudit
    /\ UNCHANGED exported

Seal ==
    /\ Len(blocks) < MaxBlocks
    /\ seal_block
    /\ audited' = NoAudit
    /\ UNCHANGED exported

Export ==
    /\ exported' = exported \cup {checkpoint(blocks)}
    /\ audited' = NoAudit
    /\ UNCHANGED ledgerVars

-------------------------------------------------------------------------------
\* A block whose events were replaced, with the commitments left as they were
\* or recomputed by whoever replaced them.
Rewritten(block, events) ==
    {[block EXCEPT !.events = events],
     [block EXCEPT !.events = events, !.header.events_root = recompute_root(events),
                   !.header.event_count = Len(events)]}

Edited(block) ==
    (UNION {Rewritten(block, [block.events EXCEPT ![k] = Event(@.sequence, c)]) :
               k \in DOMAIN block.events, c \in Contents})
    \cup (UNION {Rewritten(block, SubSeq(block.events, 1, k)) : k \in 0..Len(block.events)})
    \cup Rewritten(block, Append(block.events, Last(block.events)))

Relabelled(block) ==
    {[block EXCEPT !.header.event_count = n] : n \in 0..MaxEvents}
    \cup {[block EXCEPT !.header.height = n] : n \in 0..MaxBlocks}

AlteredInPlace(chain) ==
    UNION {{[chain EXCEPT ![b] = x] : x \in Edited(chain[b]) \cup Relabelled(chain[b])} :
              b \in DOMAIN chain}

Truncated(chain) == {SubSeq(chain, 1, n) : n \in 0..Len(chain)}

Rearranged(chain) ==
    {RemoveAt(chain, b) : b \in DOMAIN chain}
    \cup {[chain EXCEPT ![b] = chain[c], ![c] = chain[b]] : b, c \in DOMAIN chain}

\* The last block thrown away and another one sealed in its place.
Resealed(chain) ==
    IF chain = <<>> THEN {} ELSE
    {Append(Front(chain), NewBlock(Front(chain), x.events)) : x \in Edited(Last(chain))}

Copies(chain) == AlteredInPlace(chain) \cup Truncated(chain) \cup Rearranged(chain)
                 \cup Resealed(chain)

Audit ==
    /\ audited = NoAudit
    /\ \E copy \in Copies(blocks), cps \in {{}} \cup {{cp} : cp \in exported} :
          audited' = [copy |-> copy, against |-> cps, accepted |-> verify_chain(copy, cps)]
    /\ UNCHANGED <<ledgerVars, exported>>

Next == Stage \/ Seal \/ Export \/ Audit

Spec == Init /\ [][Next]_vars

-------------------------------------------------------------------------------
\* The chain the writer holds always verifies, also against every checkpoint
\* exported at any earlier time (Ledger.verify_chain on an untouched ledger).
GenuineVerifies ==
    verify_chain(blocks, {}) /\ \A cp \in exported : verify_chain(blocks, {cp})

\* Without a checkpoint: a copy that still ends in a genuine block and is
\* accepted is that genuine chain up to there, event by event.  So an
\* alteration below the head is noticed and only a cut tail, or a new last
\* block, is not (ledger.py: "linkage alone cannot catch").
AcceptedUpToHead ==
    /\ audited.accepted
    /\ audited.copy # <<>>
    /\ Len(audited.copy) <= Len(blocks)
    /\ head_digest(audited.copy) = digest(blocks[Len(audited.copy)])
    => audited.copy = SubSeq(blocks, 1, Len(audited.copy))

\* With a checkpoint of the height the copy has: accepted means genuine, to
\* the last event.  With one above it: a truncated copy is refused.
CheckpointPinsHistory ==
    audited.accepted =>
        \A cp \in audited.against :
            /\ Len(audited.copy) >= cp.height
            /\ Len(audited.copy) = cp.height /\ cp.height <= Len(blocks) =>
                 audited.copy = SubSeq(blocks, 1, cp.height)

\* An inclusion proof shows exactly what it was made for: the one of each
\* event of a block verifies against the block's root, and no proof taken from
\* the tree, whole or cut short from below, verifies for anything that is not
\* the event at its place, be it another event or the bytes of an inner node
\* (commit.merkle_proof and verify_proof; the odd node is promoted, and a
\* leaf is hashed in a domain of its own).
InnerBytes(leaves) ==
    UNION {LET level == Levels(leaves)[h]
           IN  {<<level[2 * k - 1], level[2 * k]>> : k \in 1..(Len(level) \div 2)} :
              h \in 0..Len(leaves)}
ProofsExact ==
    blocks # <<>> /\ pending = <<>> =>
        LET leaves == Leaves(Last(blocks).events)
            root == Last(blocks).header.events_root
            proofs == [k \in DOMAIN leaves |-> merkle_proof(leaves, k - 1)]
        IN  \A k \in DOMAIN leaves : \A from \in 1..(Len(proofs[k]) + 1) :
            \A bytes \in {<<leaf>> : leaf \in ToSet(leaves)} \cup InnerBytes(leaves) :
                verify_proof(bytes, SubSeq(proofs[k], from, Len(proofs[k])), root)
                <=> from = 1 /\ bytes = <<leaves[k]>>

\* Bytes and events are one to one: what was encoded decodes to itself; bytes
\* that differ from an encoding in one field, by a byte more or less, are
\* refused or are the encoding of what they decode to, so nothing can hide in
\* them; and two histories with the same stream of bytes are the same
\* (canonical.decode_event: "rejects malformed input rather than guessing").
Damaged(raw) ==
    {[raw EXCEPT ![k] = v] : k \in DOMAIN raw, v \in 0..MAX_SEQUENCE}
    \cup {SubSeq(raw, 1, k) : k \in 0..Len(raw)}
    \cup {Append(raw, 1), raw \o raw}
BytesAreExact ==
    /\ pending # <<>> =>
          LET raw == encode_event(Last(pending)) IN
          /\ decode_event(raw) = {Last(pending)}
          /\ \A bytes \in Damaged(raw) : \A ev \in decode_event(bytes) : encode_event(ev) = bytes
    /\ audited # NoAudit =>
          (encode_stream(all_events(audited.copy)) = encode_stream(all_events(blocks))
           => all_events(audited.copy) = all_events(blocks))

\* Readers of the committed history see an append-only numbered log.
Log == INSTANCE AppendOnlyLog
          WITH committed <- all_events(blocks), Events <- Offered
ImplementsAppendOnlyLog == Log!Spec
===============================================================================
