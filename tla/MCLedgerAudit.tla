---------------------------- MODULE MCLedgerAudit ------------------------------
(***************************************************************************)
(* Event number n has content n; an alteration may give an event any other *)
(* content.                                                                *)
(***************************************************************************)
EXTENDS LedgerAudit

Content(n) == [event_type |-> IF n % 2 = 0 THEN 5 ELSE 126,
               timestamp_ns |-> 7, actor_id |-> 1, parent_id |-> MAX_SEQUENCE,
               payload |-> IF n % 3 = 0 THEN <<>> ELSE <<5, 1>>]
MCContents == {Content(n) : n \in 0..3}
MCOffered == {Event(n, Content(n)) : n \in 0..MaxEvents}
===============================================================================
