------------------------------ MODULE AmesEvents ------------------------------
(***************************************************************************)
(* The vocabulary every component shares: event types, actor ids and the   *)
(* band of ids that is reserved for what the host saw itself               *)
(* (ames/events.py, containment/vmspec.py).                                *)
(*                                                                         *)
(* Actor ids are numbers, as in the code; the 64-bit values of the code    *)
(* (0xFF..00, 0xFF..FD, 0xFF..FE, 0xFF..FF) are constants here, because    *)
(* only their order matters.                                               *)
(***************************************************************************)
EXTENDS Naturals, Sequences

CONSTANTS
    HOST_ACTOR_RANGE_START,   \* first id of the reserved host band
    VM_ACTOR_ID,              \* the microVM
    HOST_ACTOR_ID,            \* the supervisor process
    NO_PARENT                 \* parent of a root actor; never an actor itself

ASSUME HostBandAssumption ==
    /\ HOST_ACTOR_RANGE_START \in Nat
    /\ VM_ACTOR_ID \in Nat
    /\ HOST_ACTOR_ID \in Nat
    /\ NO_PARENT \in Nat
    /\ HOST_ACTOR_RANGE_START <= VM_ACTOR_ID
    /\ VM_ACTOR_ID < HOST_ACTOR_ID
    /\ HOST_ACTOR_ID < NO_PARENT

Markers == {"RUN_BEGIN", "RUN_END"}

LifecycleTypes == {"PROCESS_SPAWN", "PROCESS_EXIT"}

\* Everything else is an action some live actor must answer for.
ActionTypes == {"FILE_MUTATION", "NETWORK_REQUEST", "TOOL_CALL",
                "CAPABILITY_REQUEST", "MEMORY_MAP"}

EventType == Markers \cup LifecycleTypes \cup ActionTypes

\* Provenance is decided by the actor id alone: the band is out of the
\* guest's reach because record_guest_claim refuses it.
is_host_observed(actor) == actor >= HOST_ACTOR_RANGE_START
===============================================================================
