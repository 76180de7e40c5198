------------------------------- MODULE Transport -------------------------------
(***************************************************************************)
(* containment/transport.py: GuestEventReader.  read() parses one stream   *)
(* of frames into claims, one loop iteration per step; the caps hold       *)
(* within a call, the statistics add up over the calls.                    *)
(*                                                                         *)
(* A stream is the sequence of the frames the parser will see:             *)
(*   type     an EventType, or Unknown for a byte that is none             *)
(*   plen     the length its header claims                                 *)
(*   whole    "all", or what the stream is cut in: "header", "payload";    *)
(*            only the last frame is cut                                   *)
(***************************************************************************)
EXTENDS AmesEvents, SequencesExt

CONSTANTS
    Streams,                   \* the streams read() is called on
    max_events, max_total_bytes,
    MAX_FRAME_PAYLOAD,
    MaxNotes,                  \* 100: rejection reasons kept
    MaxReads                   \* bound: calls of read() on one reader

Unknown == "unknown"
Frame == [type : EventType \cup {Unknown}, plen : Nat, whole : {"all", "header", "payload"}]

ASSUME TransportAssumption ==
    /\ Streams \subseteq Seq(Frame)
    /\ \A s \in Streams : \A k \in DOMAIN s : s[k].whole # "all" => k = Len(s)
    /\ max_events \in Nat /\ max_total_bytes \in Nat
    /\ MAX_FRAME_PAYLOAD \in Nat /\ MaxNotes \in Nat /\ MaxReads \in Nat

GUEST_PERMITTED == EventType \ Markers

VARIABLES
    stream, offset, total, claims,     \* the locals of read(); offset counts frames
    reading,                   \* whether a call is on the stack
    stats,                     \* TransportStats
    returned                   \* what each finished call read and returned

readVars == <<stream, offset, total, claims, reading, stats, returned>>

ReadInit ==
    /\ stream = <<>> /\ offset = 0 /\ total = 0 /\ claims = <<>>
    /\ reading = FALSE
    /\ stats = [frames_accepted |-> 0, frames_rejected |-> 0,
                bytes_accepted |-> 0, rejections |-> <<>>]
    /\ returned = <<>>

BeginRead ==
    /\ ~reading /\ Len(returned) < MaxReads
    /\ stream' \in Streams
    /\ offset' = 0 /\ total' = 0 /\ claims' = <<>>
    /\ reading' = TRUE
    /\ UNCHANGED <<stats, returned>>

reject(reason) ==
    stats' = [stats EXCEPT !.frames_rejected = @ + 1,
                           !.rejections = IF Len(@) < MaxNotes THEN Append(@, reason) ELSE @]

Return ==
    /\ reading' = FALSE
    /\ returned' = Append(returned, [stream |-> stream, claims |-> claims])

-------------------------------------------------------------------------------
\* One iteration.  Next frame, with the tests the code makes before taking it.
Current == stream[offset + 1]
Iterating == reading /\ offset < Len(stream)
HeaderRead == Iterating /\ Len(claims) < max_events /\ Current.whole # "header"
PayloadRead_CountsAccepted ==
    /\ HeaderRead
    /\ Current.plen <= MAX_FRAME_PAYLOAD
    /\ Current.whole = "all"
    /\ offset' = offset + 1
    /\ total' = IF Current.type \in GUEST_PERMITTED THEN total + Current.plen ELSE total
PayloadRead ==
    /\ HeaderRead
    /\ Current.plen <= MAX_FRAME_PAYLOAD
    /\ Current.whole = "all"
    /\ offset' = offset + 1
    /\ total' = total + Current.plen

\* What ends the call early: break, with the reason.
StopReason ==
    IF Len(claims) >= max_events THEN "event cap"
    ELSE IF Current.whole = "header" THEN "truncated header"
    ELSE IF Current.plen > MAX_FRAME_PAYLOAD THEN "oversized payload"
    ELSE "payload past end"

StopUnread ==
    /\ Iterating
    /\ \/ Len(claims) >= max_events
       \/ Current.whole # "all"
       \/ Current.plen > MAX_FRAME_PAYLOAD
    /\ reject(StopReason)
    /\ Return
    /\ UNCHANGED <<stream, offset, total, claims>>

StopAtTotal_Silent ==
    /\ PayloadRead
    /\ total' > max_total_bytes
    /\ Return
    /\ UNCHANGED <<stream, claims, stats>>
StopAtTotal ==
    /\ PayloadRead
    /\ total' > max_total_bytes
    /\ reject("byte cap")
    /\ Return
    /\ UNCHANGED <<stream, claims>>

\* A frame that is skipped: continue.
Skip_InPlace ==
    /\ HeaderRead
    /\ Current.plen <= MAX_FRAME_PAYLOAD
    /\ Current.whole = "all"
    /\ Current.type \notin GUEST_PERMITTED
    /\ UNCHANGED readVars
Skip ==
    /\ PayloadRead
    /\ total' <= max_total_bytes
    /\ Current.type \notin GUEST_PERMITTED
    /\ reject(IF Current.type = Unknown THEN "unknown type" ELSE "host-only")
    /\ UNCHANGED <<stream, claims, reading, returned>>

Accept ==
    /\ PayloadRead
    /\ total' <= max_total_bytes
    /\ Current.type \in GUEST_PERMITTED
    /\ claims' = Append(claims, Current)
    /\ stats' = [stats EXCEPT !.frames_accepted = @ + 1,
                              !.bytes_accepted = @ + Current.plen]
    /\ UNCHANGED <<stream, reading, returned>>

EndOfStream ==
    /\ reading /\ offset >= Len(stream)
    /\ Return
    /\ UNCHANGED <<stream, offset, total, claims, stats>>

Iterate == StopUnread \/ StopAtTotal \/ Skip \/ Accept \/ EndOfStream

ReadNext == BeginRead \/ Iterate

ReadSpec == ReadInit /\ [][ReadNext]_readVars /\ WF_readVars(Iterate)

-------------------------------------------------------------------------------
\* read() without a loop: the frames up to the first one that stops it, the
\* permitted ones among them.
Permitted(s) ==
    FoldLeft(LAMBDA kept, f : IF f.type \in GUEST_PERMITTED THEN Append(kept, f) ELSE kept, <<>>, s)
SumOf(numbers) == FoldLeft(LAMBDA a, b : a + b, 0, numbers)
BytesOf(s) == SumOf([k \in DOMAIN s |-> s[k].plen])
Readable(s) ==
    {n \in 0..Len(s) :
        \A k \in 1..n :
            /\ Len(Permitted(SubSeq(s, 1, k - 1))) < max_events
            /\ s[k].whole = "all"
            /\ s[k].plen <= MAX_FRAME_PAYLOAD
            /\ BytesOf(SubSeq(s, 1, k)) <= max_total_bytes}
ReadPrefix(s) == SubSeq(s, 1, Max(Readable(s)))

\* A call returns exactly the permitted frames before the first one that stops
\* it, whichever of the six tests that is (GuestEventReader.read).
ClaimsExact ==
    \A r \in DOMAIN returned : returned[r].claims = Permitted(ReadPrefix(returned[r].stream))

\* The statistics account for every frame and byte over all calls: accepted is
\* what was returned, and each frame taken off a stream was accepted or
\* rejected, with at most one more rejection for the frame that stopped a call.
Taken(s) == Max(Readable(s))
SumOver(Op(_)) == SumOf([r \in DOMAIN returned |-> Op(returned[r])])
StatsAddUp ==
    ~reading =>
        LET taken == SumOver(LAMBDA r : Taken(r.stream))
            stopped == Cardinality({r \in DOMAIN returned :
                                       Taken(returned[r].stream) < Len(returned[r].stream)})
        IN  /\ stats.frames_accepted = SumOver(LAMBDA r : Len(r.claims))
            /\ stats.bytes_accepted = SumOver(LAMBDA r : BytesOf(r.claims))
            /\ stats.frames_accepted + stats.frames_rejected = taken + stopped

\* Every call returns: no stream keeps the parser going or makes it raise.
ReadReturns == reading ~> ~reading
===============================================================================
