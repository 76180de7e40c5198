------------------------------ MODULE SpawnSeries ------------------------------
(***************************************************************************)
(* A SpawnAuthorizer from the image build through a run: binaries are      *)
(* approved and the list sealed, then tokens are issued, presented by      *)
(* anyone for anything, presented again, and actors exit in between.       *)
(***************************************************************************)
EXTENDS SpawnAuthorizer

CONSTANTS
    Roots,                     \* actors registered without a token
    Actors,                    \* every actor id
    Approvable,                \* digests the image build may approve
    Binaries,                  \* digests a spawn may be asked for
    MaxTokens, MaxAttempts     \* bounds: tokens issued, spawns asked for

ASSUME SpawnAssumption ==
    /\ Roots \subseteq Actors
    /\ Approvable \subseteq Binaries
    /\ MaxTokens \in Nat /\ MaxAttempts \in Nat

VARIABLES
    spawns,                    \* what was authorized: [parent, child, binary, token]
    exits                      \* [actor, after]: after how many of these spawns

spawnVars == <<policyVars, authVars, spawns, exits>>

SpawnInit == PolicyInit /\ AuthInit /\ spawns = <<>> /\ exits = {}

Build ==
    /\ ~sealed
    /\ seal \/ \E binary \in Approvable \ approved : approve(binary)
    /\ UNCHANGED <<authVars, spawns, exits>>

RegisterRoot ==
    /\ sealed
    /\ \E actor \in Roots \ (live_actors \cup {x.actor : x \in exits}) : register_root(actor)
    /\ UNCHANGED <<policyVars, spawns, exits>>

Issue ==
    /\ sealed /\ Len(issued) < MaxTokens
    /\ \E parent \in Actors, binary \in Binaries : issue(parent, binary)
    /\ UNCHANGED <<policyVars, spawns, exits>>

Authorize ==
    /\ sealed /\ Len(spawns) + Len(denials) < MaxAttempts
    /\ \E parent, child \in Actors, binary \in Binaries, token \in 0..MaxTokens :
          /\ authorize(parent, child, binary, token)
          /\ spawns' = IF denials' # denials THEN spawns
                       ELSE Append(spawns, [parent |-> parent, child |-> child,
                                            binary |-> binary, token |-> token])
    /\ UNCHANGED <<policyVars, exits>>

NoteExit ==
    /\ \E actor \in live_actors :
          /\ note_exit(actor)
          /\ exits' = exits \cup {[actor |-> actor, after |-> Len(spawns)]}
    /\ UNCHANGED <<policyVars, spawns>>

SpawnNext == Build \/ RegisterRoot \/ Issue \/ Authorize \/ NoteExit

SpawnSpec == SpawnInit /\ [][SpawnNext]_spawnVars

-------------------------------------------------------------------------------
\* "Parent -> Signature -> Spawn token -> Allowed": every authorized spawn was
\* of a binary the build approved, by the actor and for the binary its token was
\* issued for, and no two spawns used the same token (SpawnAuthorizer.authorize).
SpawnsEarned ==
    /\ \A k \in DOMAIN spawns :
          LET s == spawns[k] IN
          /\ s.binary \in approved
          /\ issued[s.token].parent_actor = s.parent
          /\ issued[s.token].binary_hash = s.binary
    /\ \A j, k \in DOMAIN spawns : spawns[j].token = spawns[k].token => j = k

\* Lineage chains back to a root and never through a dead parent: whoever is
\* live, and whoever spawned or was issued a token, is a root or the child of an
\* earlier spawn, and has not exited since, whenever its token was issued.  An
\* id that has exited lives again only as the child of a later spawn.
Gone(actor, k) ==              \* at the time of spawn k
    \E x \in exits : /\ x.actor = actor /\ x.after < k
                     /\ \A j \in (x.after + 1)..(k - 1) : spawns[j].child # actor
LineageReachesRoot ==
    LET Born(k) == Roots \cup {spawns[j].child : j \in {i \in DOMAIN spawns : i < k}}
        now == Len(spawns) + 1
    IN
    /\ \A actor \in live_actors : actor \in Born(now) /\ ~Gone(actor, now)
    /\ \A k \in DOMAIN spawns :
          spawns[k].parent \in Born(k) /\ ~Gone(spawns[k].parent, k)
    /\ \A t \in DOMAIN issued : issued[t].parent_actor \in Born(now)

\* A refusal costs the rightful holder nothing: a token no spawn has used is
\* still good for its parent, while that parent is live, and its binary,
\* however often others were refused with it.
UnusedTokenRedeemable ==
    \A t \in DOMAIN issued :
        /\ issued[t].parent_actor \in live_actors
        /\ \A k \in DOMAIN spawns : spawns[k].token # t
        => _authorize_inner(issued[t].parent_actor, issued[t].binary_hash, t) = Authorized
===============================================================================
