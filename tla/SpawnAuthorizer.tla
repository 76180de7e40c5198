---------------------------- MODULE SpawnAuthorizer ----------------------------
(***************************************************************************)
(* containment/identity.py: BinaryPolicy, the allowlist of the image       *)
(* build, and the SpawnAuthorizer over it, which refuses one not sealed.   *)
(* A token is the position at which it was issued: 32 random bytes never   *)
(* repeat and are never guessed, so a forged token is one never issued.    *)
(***************************************************************************)
EXTENDS Naturals, Sequences

VARIABLES
    approved, sealed,          \* the BinaryPolicy: binary digests, no more of them
    issued,                    \* _issued: [parent_actor, binary_hash, consumed]
    live_actors,               \* _live_actors
    denials                    \* why each refused spawn was refused

policyVars == <<approved, sealed>>
authVars == <<issued, live_actors, denials>>

NoToken == 0                   \* token=None
Authorized == "authorized"

PolicyInit == approved = {} /\ sealed = FALSE
AuthInit == issued = <<>> /\ live_actors = {} /\ denials = <<>>

\* IdentityError once sealed.
approve(binary) ==
    /\ ~sealed
    /\ approved' = approved \cup {binary}
    /\ UNCHANGED sealed

seal ==
    /\ sealed' = TRUE
    /\ UNCHANGED approved

register_root(actor) ==
    /\ live_actors' = live_actors \cup {actor}
    /\ UNCHANGED <<issued, denials>>

note_exit(actor) ==
    /\ live_actors' = live_actors \ {actor}
    /\ UNCHANGED <<issued, denials>>

\* IdentityError for an unapproved binary or a parent that is not live.
issue(parent, binary) ==
    /\ binary \in approved
    /\ parent \in live_actors
    /\ issued' = Append(issued, [parent_actor |-> parent, binary_hash |-> binary,
                                 consumed |-> FALSE])
    /\ UNCHANGED <<live_actors, denials>>

\* The first check that fails names the denial.
_authorize_inner_AnyParent(parent, binary, token) ==
    IF binary \notin approved THEN "UNKNOWN_BINARY"
    ELSE IF token = NoToken THEN "NO_TOKEN"
    ELSE IF token \notin DOMAIN issued THEN "UNKNOWN_TOKEN"
    ELSE IF issued[token].consumed THEN "TOKEN_REPLAY"
    ELSE IF issued[token].parent_actor # parent THEN "PARENT_MISMATCH"
    ELSE IF issued[token].binary_hash # binary THEN "BINARY_MISMATCH"
    ELSE Authorized
_authorize_inner(parent, binary, token) ==
    IF binary \notin approved THEN "UNKNOWN_BINARY"
    ELSE IF token = NoToken THEN "NO_TOKEN"
    ELSE IF token \notin DOMAIN issued THEN "UNKNOWN_TOKEN"
    ELSE IF issued[token].consumed THEN "TOKEN_REPLAY"
    ELSE IF issued[token].parent_actor # parent THEN "PARENT_MISMATCH"
    ELSE IF issued[token].binary_hash # binary THEN "BINARY_MISMATCH"
    ELSE IF parent \notin live_actors THEN "DEAD_PARENT"
    ELSE Authorized

\* Nothing is asked of the child's id: it may be live or have exited.
authorize_BurnsOnRefusal(parent, child, binary, token) ==
    LET verdict == _authorize_inner(parent, binary, token) IN
    /\ issued' = IF token \in DOMAIN issued THEN [issued EXCEPT ![token].consumed = TRUE]
                 ELSE issued
    /\ live_actors' = IF verdict = Authorized THEN live_actors \cup {child} ELSE live_actors
    /\ denials' = IF verdict = Authorized THEN denials ELSE Append(denials, verdict)
authorize_Reusable(parent, child, binary, token) ==
    LET verdict == _authorize_inner(parent, binary, token) IN
    /\ live_actors' = IF verdict = Authorized THEN live_actors \cup {child} ELSE live_actors
    /\ denials' = IF verdict = Authorized THEN denials ELSE Append(denials, verdict)
    /\ UNCHANGED issued
authorize(parent, child, binary, token) ==
    LET verdict == _authorize_inner(parent, binary, token) IN
    IF verdict = Authorized
    THEN /\ issued' = [issued EXCEPT ![token].consumed = TRUE]
         /\ live_actors' = live_actors \cup {child}
         /\ UNCHANGED denials
    ELSE /\ denials' = Append(denials, verdict)
         /\ UNCHANGED <<issued, live_actors>>
===============================================================================
