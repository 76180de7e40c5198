--------------------------------- MODULE Commit ---------------------------------
(***************************************************************************)
(* ames/commit.py: the commitment primitive, the Merkle tree over a        *)
(* block's events and the inclusion proofs taken from it.                  *)
(*                                                                         *)
(* A hash without collisions is a term: the digest of some bytes is the    *)
(* pair of its domain and those bytes.  Bytes are a tuple of the values    *)
(* they were put together from, digests or others, and the bytes of an     *)
(* event are the event (Canonical.tla: encode_event is one to one).        *)
(***************************************************************************)
EXTENDS Naturals, Sequences, SequencesExt

ZERO_DIGEST == <<"ZERO">>

commit_NoDomain(domain, bytes) == <<"AMES_V1", bytes>>
commit(domain, bytes) == <<domain, bytes>>

event_digest(event) == commit("AMES_V1_EVENT", <<event>>)
Node(left, right) == commit("AMES_V1_MERKLE_NODE", <<left, right>>)
Leaf(bytes) == commit("AMES_V1_MERKLE_LEAF", bytes)

\* The tree, level by level from the leaves up: neighbours are paired, and the
\* last node of an odd level moves up as it is.  The loop ends at a level of
\* one node; pairing leaves that alone, so it is also the last of these levels.
Paired(level) ==
    [k \in 1..(Len(level) \div 2) |-> Node(level[2 * k - 1], level[2 * k])]
    \o IF Len(level) % 2 = 1 THEN <<Last(level)>> ELSE <<>>

\* Each level is what pairing makes of the one below it; the CHOOSE has TLC
\* evaluate the one below once, and not once for every use.
Levels(leaves) ==
    LET level[h \in 0..Len(leaves)] ==
          IF h = 0 THEN [k \in 1..Len(leaves) |-> Leaf(<<leaves[k]>>)]
          ELSE CHOOSE next \in {Paired(below) : below \in {level[h - 1]}} : TRUE
    IN  level

merkle_root(leaves) ==
    IF leaves = <<>> THEN ZERO_DIGEST ELSE Levels(leaves)[Len(leaves)][1]

\* The sibling of the node with an index counted from 0; a promoted node has
\* none.
Sibling(level, index) ==
    IF index >= 2 * (Len(level) \div 2) THEN <<>>
    ELSE IF index % 2 = 0 THEN <<[sibling |-> level[index + 2], is_right |-> TRUE]>>
         ELSE <<[sibling |-> level[index], is_right |-> FALSE]>>

\* Where the node above a leaf is, level by level.  The index of a promoted node
\* is halved too, for it is even.
Places(index, height) ==
    LET place[h \in 0..height] == IF h = 0 THEN index ELSE place[h - 1] \div 2 IN place

merkle_proof(leaves, index) ==
    FlattenSeq([h \in 1..Len(leaves) |->
                   Sibling(Levels(leaves)[h - 1], Places(index, Len(leaves))[h - 1])])

verify_proof(bytes, proof, root) ==
    root = FoldLeft(LAMBDA node, step : IF step.is_right THEN Node(node, step.sibling)
                                        ELSE Node(step.sibling, node),
                    Leaf(bytes), proof)
===============================================================================
