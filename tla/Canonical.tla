------------------------------- MODULE Canonical -------------------------------
(***************************************************************************)
(* ames/canonical.py: the bytes of an event.  A byte string is a sequence  *)
(* of cells, one for each fixed-width field of the header (of 41 bytes)    *)
(* and one for each byte of the payload; an IntEnum is its number.         *)
(***************************************************************************)
EXTENDS Naturals, Sequences, SequencesExt

CONSTANTS
    MAX_SEQUENCE,              \* 2^64 - 1, which is also NO_PARENT
    MAX_PAYLOAD_BYTES

EventTypeCodes == 1..7 \cup {126, 127}

HEADER_SIZE == 7
_RESERVED_V1 == 0

\* Event.__post_init__: no other event can be constructed.
IsEvent(ev) ==
    /\ ev.event_type \in EventTypeCodes
    /\ {ev.sequence, ev.timestamp_ns, ev.actor_id, ev.parent_id} \subseteq 0..MAX_SEQUENCE
    /\ Len(ev.payload) <= MAX_PAYLOAD_BYTES
    /\ ev.actor_id # MAX_SEQUENCE

encode_event(ev) ==
    <<ev.event_type, ev.sequence, ev.timestamp_ns, ev.actor_id, ev.parent_id,
      Len(ev.payload), _RESERVED_V1>> \o ev.payload

encode_stream(events) == FlattenSeq([k \in DOMAIN events |-> encode_event(events[k])])

\* The event, or none for bytes that are refused.
Body(raw) == SubSeq(raw, HEADER_SIZE + 1, Len(raw))
Parsed(raw) ==
    [event_type |-> raw[1], sequence |-> raw[2], timestamp_ns |-> raw[3],
     actor_id |-> raw[4], parent_id |-> raw[5], payload |-> Body(raw)]

decode_event_AnyReserved(raw) ==
    IF Len(raw) < HEADER_SIZE \/ Len(Body(raw)) # raw[6] THEN {}
    ELSE {ev \in {Parsed(raw)} : IsEvent(ev)}
decode_event(raw) ==
    IF \/ Len(raw) < HEADER_SIZE
       \/ raw[7] # _RESERVED_V1
       \/ Len(Body(raw)) # raw[6]
    THEN {}
    ELSE {ev \in {Parsed(raw)} : IsEvent(ev)}
===============================================================================
