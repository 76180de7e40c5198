-------------------------------- MODULE Ledger --------------------------------
(***************************************************************************)
(* ames/ledger.py: the append-only, hash-linked ledger, and verify_chain.  *)
(*                                                                         *)
(* Digests are the terms of Commit.tla, and a checkpoint and a header are  *)
(* the bytes they are encoded to.  Two different values therefore never    *)
(* have the same digest, and a digest can be recomputed from what it       *)
(* commits to by anyone who holds it, as with a real hash.  The timestamp  *)
(* of a block is left out.                                                 *)
(***************************************************************************)
EXTENDS Commit

VARIABLES
    blocks,                    \* _blocks
    pending,                   \* _pending
    next_sequence              \* _next_sequence

ledgerVars == <<blocks, pending, next_sequence>>

GENESIS_PREV == ZERO_DIGEST

Leaves(events) == [k \in DOMAIN events |-> event_digest(events[k])]
recompute_root(events) == merkle_root(Leaves(events))
digest(block) == commit("AMES_V1_BLOCK", <<block.header>>)
head_digest(chain) == IF chain = <<>> THEN GENESIS_PREV ELSE digest(Last(chain))

LedgerInit == blocks = <<>> /\ pending = <<>> /\ next_sequence = 0

\* A number other than the next one raises SequenceError: the step is not
\* possible and nothing changes.
append_AnySequence(event) ==
    /\ event.sequence >= next_sequence
    /\ pending' = Append(pending, event)
    /\ next_sequence' = event.sequence + 1
    /\ UNCHANGED blocks
append(event) ==
    /\ event.sequence = next_sequence
    /\ pending' = Append(pending, event)
    /\ next_sequence' = next_sequence + 1
    /\ UNCHANGED blocks

NewBlock_Unlinked(chain, events) ==
    [header |-> [height |-> Len(chain), prev_hash |-> GENESIS_PREV,
                 event_count |-> Len(events), events_root |-> recompute_root(events)],
     events |-> events]
NewBlock(chain, events) ==
    [header |-> [height      |-> Len(chain),
                 prev_hash   |-> head_digest(chain),
                 event_count |-> Len(events),
                 events_root |-> recompute_root(events)],
     events |-> events]

seal_block_LosesLast ==
    /\ pending # <<>>
    /\ blocks' = Append(blocks, NewBlock(blocks, Front(pending)))
    /\ pending' = <<>>
    /\ UNCHANGED next_sequence
seal_block ==
    /\ pending # <<>>
    /\ blocks' = Append(blocks, NewBlock(blocks, pending))
    /\ pending' = <<>>
    /\ UNCHANGED next_sequence

\* Committed events only: what is pending is not part of any run's record.
all_events(chain) == FlattenSeq([b \in DOMAIN chain |-> chain[b].events])

CheckpointDigest(height, head) == commit("AMES_V1_CHECKPOINT", <<height, head>>)
checkpoint(chain) ==
    [height |-> Len(chain), head_digest |-> head_digest(chain),
     digest |-> CheckpointDigest(Len(chain), head_digest(chain))]

CheckpointIntact(cp) == cp.digest = CheckpointDigest(cp.height, cp.head_digest)

-------------------------------------------------------------------------------
\* verify_chain: the walk over the blocks (it stops at the first bad one, so
\* the chain is accepted exactly when every block passes every test) ...
BlockOK_IgnoresLink(chain, b) ==
    LET block == chain[b] IN
    /\ block.header.height = b - 1
    /\ block.header.event_count = Len(block.events)
    /\ block.header.events_root = recompute_root(block.events)
BlockOK(chain, b) ==
    LET block == chain[b] IN
    /\ block.header.height = b - 1
    /\ block.header.prev_hash = head_digest(SubSeq(chain, 1, b - 1))
    /\ block.header.event_count = Len(block.events)
    /\ block.header.events_root = recompute_root(block.events)

SequencesOK(chain) ==
    LET events == all_events(chain) IN
    \A k \in DOMAIN events : events[k].sequence = k - 1

\* ... and then the checkpoint, if one is given.  The head is compared only
\* when the heights are equal.
CheckpointOK_HeightOnly(chain, cp) ==
    CheckpointIntact(cp) /\ Len(chain) >= cp.height
CheckpointOK(chain, cp) ==
    /\ CheckpointIntact(cp)
    /\ Len(chain) >= cp.height
    /\ Len(chain) = cp.height => head_digest(chain) = cp.head_digest

verify_chain(chain, cps) ==     \* cps: no checkpoint, or the one given
    /\ \A b \in DOMAIN chain : BlockOK(chain, b)
    /\ SequencesOK(chain)
    /\ \A cp \in cps : CheckpointOK(chain, cp)
===============================================================================
