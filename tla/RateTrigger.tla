------------------------------ MODULE RateTrigger ------------------------------
(***************************************************************************)
(* containment/broker.py: DenialTracker, the burst-plus-EWMA detector that *)
(* L2 uses for denied requests and L9, under the name RateTrigger, for     *)
(* unexplained mutations.  A tracker is a value here, record a function.   *)
(*                                                                         *)
(* The EWMA is the rational num/den with alpha = 3/20, exact where the     *)
(* code rounds to a float: no EWMA of up to six decisions lies within      *)
(* rounding distance of a threshold used here.  Six decisions are also     *)
(* what fits TLC's 32-bit numbers (20^7 = 1.28e9 < 2^31 < 20^8), with      *)
(* thresholds counted in twentieths: 0.35 is 7, 0.30 is 6.                 *)
(***************************************************************************)
EXTENDS Integers, Sequences, FiniteSetsExt

\* A configuration: [window, burst, threshold] where threshold is in twentieths.
AlphaNum == 3
AlphaDen == 20

NewTracker == [times |-> <<>>, num |-> 0, den |-> 1]

\* The while loop: entries leave at the head, as long as the head is older
\* than the window; one exactly as old as the window stays.
Prune_DropsBoundary(times, now, window) ==
    LET young == {k \in DOMAIN times : now - times[k] < window}
    IN  IF young = {} THEN <<>> ELSE SubSeq(times, Min(young), Len(times))
Prune(times, now, window) ==
    LET young == {k \in DOMAIN times : now - times[k] <= window}
    IN  IF young = {} THEN <<>> ELSE SubSeq(times, Min(young), Len(times))

record_WindowedEwma(config, tracker, denied, now) ==
    LET times == Prune(IF denied THEN Append(tracker.times, now) ELSE tracker.times,
                       now, config.window)
    IN  [times |-> times,
         num |-> (IF denied /\ Len(times) > 1 THEN AlphaNum * tracker.den ELSE 0)
                   + (AlphaDen - AlphaNum) * tracker.num,
         den |-> AlphaDen * tracker.den]
record(config, tracker, denied, now) ==
    LET times == IF denied THEN Append(tracker.times, now) ELSE tracker.times
    IN  [times |-> Prune(times, now, config.window),
         num |-> (IF denied THEN AlphaNum * tracker.den ELSE 0)
                   + (AlphaDen - AlphaNum) * tracker.num,
         den |-> AlphaDen * tracker.den]

\* What record returns besides the new state: a DenialSignal.
instantaneous(config, tracker) == Len(tracker.times) >= config.burst
cumulative(config, tracker) == AlphaDen * tracker.num >= config.threshold * tracker.den
===============================================================================
