------------------------------ MODULE Gate1Proofs ------------------------------
(***************************************************************************)
(* For every set of logs, of any length: the scan of Gate 1 reports        *)
(* exactly the violations the rules define over the finished log.          *)
(***************************************************************************)
EXTENDS Gate1, TLAPS

\* The violations among the first m events.
UpTo(V, m) == {v \in V : v.at <= m}

MarkerPart == IF require_run_markers THEN MarkerViolations ELSE {}

\* What the loops remember of the events before event k: the largest
\* timestamp, and who is live (since which spawn) or exited.
TimeKnown(k) ==
    /\ \A h \in DOMAIN log : h < k => log[h].timestamp <= last_ts
    /\ \E h \in DOMAIN log : (h < k \/ h = 1) /\ log[h].timestamp = last_ts
LineageKnown(k) ==
    /\ \A a : a \in DOMAIN live <=> LiveBefore(log, k, a)
    /\ \A a : a \in exited <=> ExitedBefore(log, k, a)
    /\ \A a \in DOMAIN live :
          /\ live[a] \in DOMAIN log /\ IsSpawn(log, live[a], a)
          /\ ~SpawnedBefore(log, live[a], a)

\* Where each loop has got to.
TypeOK ==
    /\ log \in Seq(Event) /\ require_run_markers \in BOOLEAN
    /\ pc \in {"sequence", "time", "markers", "lineage", "close", "done"}
    /\ pc # "done" => log # <<>>
    /\ i \in 1..(Len(log) + 1)
    /\ expected \in Nat /\ last_ts \in Nat

InSequence ==
    /\ found = UpTo(SequenceViolations(log), i - 1)
    /\ expected = IF i = 1 THEN log[1].sequence ELSE log[i - 1].sequence + 1
    /\ last_ts = log[1].timestamp
InTime ==
    /\ found = SequenceViolations(log) \cup UpTo(TimeViolations(log), i - 1)
    /\ TimeKnown(i)
InMarkers ==
    found = SequenceViolations(log) \cup TimeViolations(log)
InLineage ==
    /\ found = SequenceViolations(log) \cup TimeViolations(log) \cup MarkerPart
               \cup UpTo(LineageViolations(log), i - 1)
    /\ LineageKnown(i)
AtClose ==
    /\ found = SequenceViolations(log) \cup TimeViolations(log) \cup MarkerPart
               \cup LineageViolations(log)
    /\ LineageKnown(Len(log) + 1)

Inv ==
    /\ TypeOK
    /\ pc \in {"sequence", "time", "markers"} => DOMAIN live = {} /\ exited = {}
    /\ pc = "sequence" => InSequence
    /\ pc = "time" => InTime
    /\ pc = "markers" => InMarkers
    /\ pc = "lineage" => InLineage
    /\ pc = "close" => AtClose
    /\ Gate1Exact

-------------------------------------------------------------------------------
\* What event k says of its actor is known behind it.
LEMMA LineageStep ==
    ASSUME NEW l \in Seq(Event), NEW k \in 1..Len(l), NEW a
    PROVE  /\ SpawnedBefore(l, k + 1, a) <=> SpawnedBefore(l, k, a) \/ IsSpawn(l, k, a)
           /\ ExitedBefore(l, k + 1, a)
                <=> ExitedBefore(l, k, a) \/ (IsExit(l, k, a) /\ SpawnedBefore(l, k, a))
  <1>1. DOMAIN l = 1..Len(l) /\ \A j \in DOMAIN l : j < k + 1 <=> j < k \/ j = k
    OBVIOUS
  <1>2. SpawnedBefore(l, k + 1, a) <=> SpawnedBefore(l, k, a) \/ IsSpawn(l, k, a)
    BY <1>1 DEF SpawnedBefore
  <1>3. ExitedBefore(l, k + 1, a)
           <=> ExitedBefore(l, k, a) \/ (IsExit(l, k, a) /\ SpawnedBefore(l, k, a))
    BY <1>1 DEF ExitedBefore
  <1> QED  BY <1>2, <1>3

\* Nobody is known before the first event, and exits presuppose spawns.
LEMMA LineageStart ==
    ASSUME NEW l \in Seq(Event), NEW a
    PROVE  ~SpawnedBefore(l, 1, a) /\ ~ExitedBefore(l, 1, a) /\ ~LiveBefore(l, 1, a)
  BY DEF SpawnedBefore, ExitedBefore, LiveBefore

\* Whoever has exited was spawned first.
LEMMA ExitedMeansSpawned ==
    ASSUME NEW l \in Seq(Event), NEW k \in 1..(Len(l) + 1), NEW a, ExitedBefore(l, k, a)
    PROVE  SpawnedBefore(l, k, a)
  BY DEF SpawnedBefore, ExitedBefore

\* What one event's number adds to the violations among the events so far.
LEMMA SequenceUpTo ==
    ASSUME NEW l \in Seq(Event), NEW m \in 1..Len(l)
    PROVE  /\ UpTo(SequenceViolations(l), 0) = {}
           /\ UpTo(SequenceViolations(l), Len(l)) = SequenceViolations(l)
           /\ UpTo(SequenceViolations(l), m) = UpTo(SequenceViolations(l), m - 1) \cup
                 (IF m > 1 /\ l[m].sequence # l[m - 1].sequence + 1
                  THEN {[code |-> "SEQ_GAP", at |-> m]} ELSE {})
  <1>1. Len(l) \in Nat /\ DOMAIN l = 1..Len(l) /\ m \in DOMAIN l
    OBVIOUS
  <1>2. \A v \in SequenceViolations(l) : v.at \in 1..Len(l)
    BY <1>1 DEF SequenceViolations
  <1>3. {v \in SequenceViolations(l) : v.at = m} =
           IF m > 1 /\ l[m].sequence # l[m - 1].sequence + 1
           THEN {[code |-> "SEQ_GAP", at |-> m]} ELSE {}
    BY <1>1 DEF SequenceViolations
  <1>4. \A v \in SequenceViolations(l) : v.at <= m <=> v.at <= m - 1 \/ v.at = m
    BY <1>1, <1>2
  <1>5. UpTo(SequenceViolations(l), 0) = {} /\ UpTo(SequenceViolations(l), Len(l)) = SequenceViolations(l)
    BY <1>1, <1>2 DEF UpTo
  <1>6. UpTo(SequenceViolations(l), m) = UpTo(SequenceViolations(l), m - 1) \cup {v \in SequenceViolations(l) : v.at = m}
    BY <1>4 DEF UpTo
  <1> QED  BY <1>3, <1>5, <1>6

\* The same for one more event's timestamp.
LEMMA TimeUpTo ==
    ASSUME NEW l \in Seq(Event), NEW m \in 1..Len(l)
    PROVE  /\ UpTo(TimeViolations(l), 0) = {}
           /\ UpTo(TimeViolations(l), Len(l)) = TimeViolations(l)
           /\ UpTo(TimeViolations(l), m) = UpTo(TimeViolations(l), m - 1) \cup
                 (IF \E h \in DOMAIN l : h < m /\ l[m].timestamp < l[h].timestamp
                  THEN {[code |-> "TIME_REGRESSION", at |-> m]} ELSE {})
  <1>1. Len(l) \in Nat /\ DOMAIN l = 1..Len(l) /\ m \in DOMAIN l
    OBVIOUS
  <1>2. \A v \in TimeViolations(l) : v.at \in 1..Len(l)
    BY <1>1 DEF TimeViolations
  <1>3. {v \in TimeViolations(l) : v.at = m} =
           IF \E h \in DOMAIN l : h < m /\ l[m].timestamp < l[h].timestamp
           THEN {[code |-> "TIME_REGRESSION", at |-> m]} ELSE {}
    BY <1>1 DEF TimeViolations
  <1>4. \A v \in TimeViolations(l) : v.at <= m <=> v.at <= m - 1 \/ v.at = m
    BY <1>1, <1>2
  <1>5. UpTo(TimeViolations(l), 0) = {} /\ UpTo(TimeViolations(l), Len(l)) = TimeViolations(l)
    BY <1>1, <1>2 DEF UpTo
  <1>6. UpTo(TimeViolations(l), m) = UpTo(TimeViolations(l), m - 1) \cup {v \in TimeViolations(l) : v.at = m}
    BY <1>4 DEF UpTo
  <1> QED  BY <1>3, <1>5, <1>6

\* The same for the lineage rules.
LEMMA LineageUpTo ==
    ASSUME NEW l \in Seq(Event), NEW m \in 1..Len(l)
    PROVE  /\ UpTo(LineageViolations(l), 0) = {}
           /\ UpTo(LineageViolations(l), Len(l)) = LineageViolations(l)
           /\ UpTo(LineageViolations(l), m) = UpTo(LineageViolations(l), m - 1) \cup
                 (IF LineageCode(l, m) # "NONE"
                  THEN {[code |-> LineageCode(l, m), at |-> m]} ELSE {})
  <1>1. Len(l) \in Nat /\ DOMAIN l = 1..Len(l) /\ m \in DOMAIN l
    OBVIOUS
  <1>2. \A v \in LineageViolations(l) : v.at \in 1..Len(l)
    BY <1>1 DEF LineageViolations
  <1>3. {v \in LineageViolations(l) : v.at = m} =
           IF LineageCode(l, m) # "NONE"
           THEN {[code |-> LineageCode(l, m), at |-> m]} ELSE {}
    BY <1>1 DEF LineageViolations
  <1>4. \A v \in LineageViolations(l) : v.at <= m <=> v.at <= m - 1 \/ v.at = m
    BY <1>1, <1>2
  <1>5. UpTo(LineageViolations(l), 0) = {} /\ UpTo(LineageViolations(l), Len(l)) = LineageViolations(l)
    BY <1>1, <1>2 DEF UpTo
  <1>6. UpTo(LineageViolations(l), m) = UpTo(LineageViolations(l), m - 1) \cup {v \in LineageViolations(l) : v.at = m}
    BY <1>4 DEF UpTo
  <1> QED  BY <1>3, <1>5, <1>6
-------------------------------------------------------------------------------
\* The scan starts with nothing found and nobody known.
THEOREM InitInv == Init => Inv
  <1> SUFFICES ASSUME Init PROVE Inv
    OBVIOUS
  <1> USE DEF Init
  <1>1. log \in Seq(Event)
    BY LogsAssumption
  <1>2. CASE log = <<>>
    <2>1. found = Expected
      BY <1>2
      DEF Expected, SequenceViolations, TimeViolations, MarkerViolations, LineageViolations,
          DormantViolations
    <2>2. TypeOK
      BY <1>1, <1>2 DEF TypeOK
    <2> QED  BY <1>2, <2>1, <2>2 DEF Inv, Gate1Exact
  <1>3. CASE log # <<>>
    <2>1. Len(log) \in Nat /\ 1 \in 1..Len(log) /\ log[1] \in Event
      BY <1>1, <1>3
    <2>2. log[1].sequence \in Nat /\ log[1].timestamp \in Nat
      BY <2>1 DEF Event
    <2>3. TypeOK
      BY <1>1, <1>3, <2>1, <2>2 DEF TypeOK
    <2>4. UpTo(SequenceViolations(log), 0) = {}
      BY <1>1, <2>1, SequenceUpTo
    <2>5. InSequence
      BY <1>3, <2>4 DEF InSequence
    <2> QED  BY <1>3, <2>3, <2>5 DEF Inv, Gate1Exact
  <1> QED  BY <1>2, <1>3

\* Facts every step starts from.
LEMMA Frame ==
    ASSUME Inv, pc # "done"
    PROVE  /\ log \in Seq(Event) /\ Len(log) \in Nat /\ DOMAIN log = 1..Len(log)
           /\ 1 \in 1..Len(log)
           /\ \A k \in 1..Len(log) : /\ log[k].sequence \in Nat /\ log[k].timestamp \in Nat
                                     /\ log[k].type \in EventType
  <1>1. log \in Seq(Event) /\ log # <<>>
    BY DEF Inv, TypeOK
  <1>2. \A k \in 1..Len(log) : log[k] \in Event
    BY <1>1
  <1> QED  BY <1>1, <1>2 DEF Event

\* I1: the expected number is one more than the last one seen.
LEMMA SequenceKeeps == ASSUME Inv, SequenceStep PROVE Inv'
  <1>1. /\ pc = "sequence" /\ i \in 1..Len(log) /\ i' = i + 1 /\ expected' = log[i].sequence + 1
        /\ UNCHANGED <<log, require_run_markers, pc, last_ts, live, exited>>
    BY DEF SequenceStep, Inv, TypeOK
  <1>2. UpTo(SequenceViolations(log), i) = UpTo(SequenceViolations(log), i - 1) \cup
           (IF i > 1 /\ log[i].sequence # log[i - 1].sequence + 1
            THEN {[code |-> "SEQ_GAP", at |-> i]} ELSE {})
    BY <1>1, Frame, SequenceUpTo
  <1>3. log[i].sequence # expected <=> i > 1 /\ log[i].sequence # log[i - 1].sequence + 1
    BY <1>1 DEF Inv, InSequence
  <1>4. found' = UpTo(SequenceViolations(log), i)
    BY <1>1, <1>2, <1>3 DEF SequenceStep, Report, Inv, InSequence
  <1>5. InSequence'
    BY <1>1, <1>4 DEF InSequence, Inv
  <1>6. TypeOK'
    BY <1>1, Frame DEF Inv, TypeOK
  <1> QED  BY <1>1, <1>5, <1>6 DEF Inv, Gate1Exact

\* I2: an event is late exactly if it is earlier than the largest timestamp.
LEMMA TimeKeeps == ASSUME Inv, TimeStep PROVE Inv'
  <1>1. /\ pc = "time" /\ i \in 1..Len(log) /\ i' = i + 1
        /\ UNCHANGED <<log, require_run_markers, pc, expected, live, exited>>
    BY DEF TimeStep, Inv, TypeOK
  <1>2. UpTo(TimeViolations(log), i) = UpTo(TimeViolations(log), i - 1) \cup
           (IF \E h \in DOMAIN log : h < i /\ log[i].timestamp < log[h].timestamp
            THEN {[code |-> "TIME_REGRESSION", at |-> i]} ELSE {})
    BY <1>1, Frame, TimeUpTo
  <1>3. TimeKnown(i) /\ last_ts \in Nat
    BY <1>1 DEF Inv, InTime, TypeOK
  <1>4. log[i].timestamp < last_ts
           <=> \E h \in DOMAIN log : h < i /\ log[i].timestamp < log[h].timestamp
    BY <1>1, <1>3, Frame DEF TimeKnown
  <1>5. found' = SequenceViolations(log) \cup UpTo(TimeViolations(log), i)
    BY <1>1, <1>2, <1>4 DEF TimeStep, Report, Inv, InTime
  <1>6. last_ts' = IF log[i].timestamp < last_ts THEN last_ts ELSE log[i].timestamp
    BY DEF TimeStep
  <1>7. /\ \A h \in DOMAIN log : h < i + 1 => log[h].timestamp <= last_ts'
        /\ \E h \in DOMAIN log : (h < i + 1 \/ h = 1) /\ log[h].timestamp = last_ts'
    BY <1>1, <1>3, <1>6, Frame DEF TimeKnown
  <1>8. InTime'
    BY <1>1, <1>5, <1>7 DEF InTime, TimeKnown
  <1>9. TypeOK'
    BY <1>1, <1>6, Frame DEF Inv, TypeOK
  <1> QED  BY <1>1, <1>8, <1>9 DEF Inv, Gate1Exact

\* I3: the markers' violations, all at once.
LEMMA MarkerKeeps == ASSUME Inv, MarkerStep PROVE Inv'
  <1>1. /\ pc = "markers" /\ pc' = "lineage" /\ i' = 1
        /\ UNCHANGED <<log, require_run_markers, expected, last_ts, live, exited>>
        /\ found' = IF require_run_markers THEN found \cup MarkerViolations ELSE found
    BY DEF MarkerStep
  <1>2. MarkerPart' = MarkerPart
    BY <1>1 DEF MarkerPart, MarkerViolations
  <1>3. UpTo(LineageViolations(log), 0) = {}
    BY <1>1, Frame, LineageUpTo
  <1>4. found' = SequenceViolations(log) \cup TimeViolations(log) \cup MarkerPart
    BY <1>1 DEF Inv, InMarkers, MarkerPart
  <1>5. LineageKnown(1)
    BY <1>1, Frame, LineageStart DEF Inv, LineageKnown
  <1>6. LineageKnown(1)'
    BY <1>1, <1>5 DEF LineageKnown
  <1>7. InLineage'
    BY <1>1, <1>2, <1>3, <1>4, <1>6 DEF InLineage
  <1>8. TypeOK'
    BY <1>1, Frame DEF Inv, TypeOK
  <1> QED  BY <1>1, <1>7, <1>8 DEF Inv, Gate1Exact

\* Between the loops.
LEMMA NextLoopKeeps == ASSUME Inv, NextLoop PROVE Inv'
  <1>1. /\ pc \in {"sequence", "time", "lineage"} /\ i = Len(log) + 1 /\ i' = 1
        /\ pc' = CASE pc = "sequence" -> "time" [] pc = "time" -> "markers"
                   [] pc = "lineage" -> "close"
        /\ UNCHANGED <<log, require_run_markers, expected, last_ts, live, exited, found>>
    BY DEF NextLoop, Inv, TypeOK
  <1>2. TypeOK'
    BY <1>1, Frame DEF Inv, TypeOK
  <1>3. i - 1 = Len(log)
    BY <1>1, Frame
  <1>4. CASE pc = "sequence"
    <2>1. found = SequenceViolations(log) /\ last_ts = log[1].timestamp
      BY <1>1, <1>3, <1>4, Frame, SequenceUpTo DEF Inv, InSequence
    <2>2. UpTo(TimeViolations(log), 0) = {}
      BY <1>4, Frame, TimeUpTo
    <2>3. TimeKnown(1)
      BY <1>4, <2>1, Frame DEF TimeKnown
    <2>4. TimeKnown(1)'
      BY <1>1, <2>3 DEF TimeKnown
    <2>5. InTime'
      BY <1>1, <2>1, <2>2, <2>4 DEF InTime
    <2> QED  BY <1>1, <1>2, <1>4, <2>5 DEF Inv, Gate1Exact
  <1>5. CASE pc = "time"
    <2>1. found = SequenceViolations(log) \cup TimeViolations(log)
      BY <1>1, <1>3, <1>5, Frame, TimeUpTo DEF Inv, InTime
    <2> QED  BY <1>1, <1>2, <1>5, <2>1 DEF Inv, Gate1Exact, InMarkers
  <1>6. CASE pc = "lineage"
    <2>1. found = SequenceViolations(log) \cup TimeViolations(log) \cup MarkerPart
                  \cup LineageViolations(log)
      BY <1>1, <1>3, <1>6, Frame, LineageUpTo DEF Inv, InLineage
    <2>2. LineageKnown(Len(log) + 1)
      BY <1>1, <1>6 DEF Inv, InLineage
    <2>3. AtClose'
      BY <1>1, <2>1, <2>2 DEF AtClose, LineageKnown, MarkerPart, MarkerViolations
    <2> QED  BY <1>1, <1>2, <1>6, <2>3 DEF Inv, Gate1Exact
  <1> QED  BY <1>1, <1>4, <1>5, <1>6
-------------------------------------------------------------------------------
\* The rules' verdict on the next event, from what the scan knows.
LEMMA CodeFromKnown ==
    ASSUME LineageKnown(i)
    PROVE  LET a == log[i].actor IN
           /\ log[i].type = "PROCESS_SPAWN" =>
                 LineageCode(log, i) =
                    IF a \in DOMAIN live THEN "DOUBLE_SPAWN"
                    ELSE IF a \in exited THEN "RESPAWN_AFTER_EXIT"
                    ELSE IF log[i].parent # NO_PARENT /\ log[i].parent \notin DOMAIN live
                         THEN "ORPHAN_SPAWN" ELSE "NONE"
           /\ log[i].type = "PROCESS_EXIT" =>
                 LineageCode(log, i) = IF a \in DOMAIN live THEN "NONE" ELSE "EXIT_WITHOUT_SPAWN"
           /\ log[i].type \in Markers => LineageCode(log, i) = "NONE"
           /\ log[i].type \in ActionTypes =>
                 LineageCode(log, i) =
                    IF a \in DOMAIN live THEN "NONE"
                    ELSE IF a \in exited THEN "ACTION_AFTER_EXIT" ELSE "UNATTRIBUTED_ACTION"
  <1>1. \A a : /\ a \in DOMAIN live <=> LiveBefore(log, i, a)
               /\ a \in exited <=> ExitedBefore(log, i, a)
               /\ ~(LiveBefore(log, i, a) /\ ExitedBefore(log, i, a))
    BY DEF LineageKnown, LiveBefore
  <1> QED  BY <1>1 DEF LineageCode, IsOrphan, Markers, ActionTypes

\* What a step of the lineage loop has to do.
LEMMA LineageAdvance ==
    ASSUME Inv, LineageFrame,
           \A a : a \in DOMAIN live' <=> LiveBefore(log, i + 1, a),
           \A a : a \in exited' <=> ExitedBefore(log, i + 1, a),
           \A a \in DOMAIN live' : /\ live'[a] \in DOMAIN log /\ IsSpawn(log, live'[a], a)
                                   /\ ~SpawnedBefore(log, live'[a], a),
           found' = IF LineageCode(log, i) = "NONE" THEN found
                    ELSE found \cup {[code |-> LineageCode(log, i), at |-> i]}
    PROVE  Inv'
  <1>1. /\ pc = "lineage" /\ i \in 1..Len(log) /\ i' = i + 1
        /\ UNCHANGED <<log, require_run_markers, pc, expected, last_ts>>
    BY DEF LineageFrame, Inv, TypeOK
  <1>2. UpTo(LineageViolations(log), i) = UpTo(LineageViolations(log), i - 1) \cup
           (IF LineageCode(log, i) # "NONE"
            THEN {[code |-> LineageCode(log, i), at |-> i]} ELSE {})
    BY <1>1, Frame, LineageUpTo
  <1>3. MarkerPart' = MarkerPart
    BY <1>1 DEF MarkerPart, MarkerViolations
  <1>4. found' = SequenceViolations(log) \cup TimeViolations(log) \cup MarkerPart
                 \cup UpTo(LineageViolations(log), i)
    BY <1>1, <1>2 DEF Inv, InLineage
  <1>5. LineageKnown(i)'
    BY <1>1 DEF LineageKnown
  <1>6. i' - 1 = i
    BY <1>1
  <1>7. InLineage'
    BY <1>1, <1>3, <1>4, <1>5, <1>6 DEF InLineage
  <1>8. TypeOK'
    BY <1>1, Frame DEF Inv, TypeOK
  <1> QED  BY <1>1, <1>7, <1>8 DEF Inv, Gate1Exact

\* What is known where a step of the lineage loop starts.
LEMMA LineageFacts ==
    ASSUME Inv, LineageFrame
    PROVE  /\ LineageKnown(i) /\ i \in 1..Len(log) /\ log \in Seq(Event) /\ DOMAIN log = 1..Len(log)
           /\ \A a : /\ SpawnedBefore(log, i + 1, a)
                           <=> SpawnedBefore(log, i, a) \/ IsSpawn(log, i, a)
                     /\ ExitedBefore(log, i + 1, a)
                           <=> ExitedBefore(log, i, a)
                               \/ (IsExit(log, i, a) /\ SpawnedBefore(log, i, a))
                     /\ ExitedBefore(log, i, a) => SpawnedBefore(log, i, a)
  <1>1. pc = "lineage" /\ i \in 1..Len(log)
    BY DEF LineageFrame, Inv, TypeOK
  <1>2. LineageKnown(i)
    BY <1>1 DEF Inv, InLineage
  <1>3. log \in Seq(Event) /\ DOMAIN log = 1..Len(log) /\ i \in 1..(Len(log) + 1)
    BY <1>1, Frame
  <1>4. ASSUME NEW a
        PROVE  /\ SpawnedBefore(log, i + 1, a)
                     <=> SpawnedBefore(log, i, a) \/ IsSpawn(log, i, a)
               /\ ExitedBefore(log, i + 1, a)
                     <=> ExitedBefore(log, i, a)
                         \/ (IsExit(log, i, a) /\ SpawnedBefore(log, i, a))
    BY <1>1, <1>3, LineageStep
  <1>5. \A a : ExitedBefore(log, i, a) => SpawnedBefore(log, i, a)
    BY <1>3, ExitedMeansSpawned
  <1> QED  BY <1>1, <1>2, <1>3, <1>4, <1>5

\* A spawn of a known actor is reported and changes nothing.
LEMMA RejectedSpawnKeeps == ASSUME Inv, RejectedSpawn PROVE Inv'
  <1>1. /\ LineageFrame /\ log[i].type = "PROCESS_SPAWN" /\ UNCHANGED <<live, exited>>
        /\ log[i].actor \in DOMAIN live \/ log[i].actor \in exited
    BY DEF RejectedSpawn
  <1>2. \A a : a \in DOMAIN live' <=> LiveBefore(log, i + 1, a)
    BY <1>1, LineageFacts DEF LineageKnown, LiveBefore, IsSpawn, IsExit
  <1>3. \A a : a \in exited' <=> ExitedBefore(log, i + 1, a)
    BY <1>1, LineageFacts DEF LineageKnown, IsExit
  <1>4. \A a \in DOMAIN live' : /\ live'[a] \in DOMAIN log /\ IsSpawn(log, live'[a], a)
                                /\ ~SpawnedBefore(log, live'[a], a)
    BY <1>1, LineageFacts DEF LineageKnown
  <1>5. found' = found \cup {[code |-> LineageCode(log, i), at |-> i]}
        /\ LineageCode(log, i) # "NONE"
    BY <1>1, LineageFacts, CodeFromKnown DEF RejectedSpawn, Report
  <1> QED  BY <1>1, <1>2, <1>3, <1>4, <1>5, LineageAdvance

\* The first spawn of an actor makes it live from there on, an orphan too.
LEMMA AcceptedSpawnKeeps == ASSUME Inv, AcceptedSpawn PROVE Inv'
  <1> DEFINE actor == log[i].actor
  <1>1. /\ LineageFrame /\ log[i].type = "PROCESS_SPAWN" /\ UNCHANGED exited
        /\ actor \notin DOMAIN live /\ actor \notin exited
        /\ DOMAIN live' = DOMAIN live \cup {actor} /\ live'[actor] = i
        /\ \A a \in DOMAIN live : live'[a] = live[a]
    BY DEF AcceptedSpawn, Put
  <1>2. ~SpawnedBefore(log, i, actor)
    BY <1>1, LineageFacts DEF LineageKnown, LiveBefore
  <1>3. \A a : a \in DOMAIN live' <=> LiveBefore(log, i + 1, a)
    BY <1>1, <1>2, LineageFacts DEF LineageKnown, LiveBefore, IsSpawn, IsExit
  <1>4. \A a : a \in exited' <=> ExitedBefore(log, i + 1, a)
    BY <1>1, LineageFacts DEF LineageKnown, IsExit
  <1>5. \A a \in DOMAIN live' : /\ live'[a] \in DOMAIN log /\ IsSpawn(log, live'[a], a)
                                /\ ~SpawnedBefore(log, live'[a], a)
    BY <1>1, <1>2, LineageFacts DEF LineageKnown, IsSpawn
  <1>6. found' = IF LineageCode(log, i) = "NONE" THEN found
                 ELSE found \cup {[code |-> LineageCode(log, i), at |-> i]}
    BY <1>1, LineageFacts, CodeFromKnown DEF AcceptedSpawn, Report
  <1> QED  BY <1>1, <1>3, <1>4, <1>5, <1>6, LineageAdvance

\* An exit of a live actor ends its life; any other one is reported.
LEMMA ExitKeeps == ASSUME Inv, Exit PROVE Inv'
  <1> DEFINE actor == log[i].actor
  <1>1. LineageFrame /\ log[i].type = "PROCESS_EXIT"
    BY DEF Exit
  <1>2. CASE actor \in DOMAIN live
    <2>1. /\ exited' = exited \cup {actor} /\ found' = found
          /\ DOMAIN live' = DOMAIN live \ {actor} /\ \A a \in DOMAIN live' : live'[a] = live[a]
      BY <1>2 DEF Exit, Drop
    <2>2. \A a : a \in DOMAIN live' <=> LiveBefore(log, i + 1, a)
      BY <1>1, <1>2, <2>1, LineageFacts DEF LineageKnown, LiveBefore, IsSpawn, IsExit
    <2>3. \A a : a \in exited' <=> ExitedBefore(log, i + 1, a)
      BY <1>1, <1>2, <2>1, LineageFacts DEF LineageKnown, LiveBefore, IsExit
    <2>4. \A a \in DOMAIN live' : /\ live'[a] \in DOMAIN log /\ IsSpawn(log, live'[a], a)
                                  /\ ~SpawnedBefore(log, live'[a], a)
      BY <2>1, LineageFacts, <1>1 DEF LineageKnown
    <2>5. LineageCode(log, i) = "NONE"
      BY <1>1, <1>2, LineageFacts, CodeFromKnown
    <2> QED  BY <1>1, <2>1, <2>2, <2>3, <2>4, <2>5, LineageAdvance
  <1>3. CASE actor \notin DOMAIN live
    <2>1. UNCHANGED <<live, exited>> /\ found' = found \cup {[code |-> "EXIT_WITHOUT_SPAWN", at |-> i]}
      BY <1>3 DEF Exit, Report
    <2>2. \A a : a \in DOMAIN live' <=> LiveBefore(log, i + 1, a)
      BY <1>1, <1>3, <2>1, LineageFacts DEF LineageKnown, LiveBefore, IsSpawn, IsExit
    <2>3. \A a : a \in exited' <=> ExitedBefore(log, i + 1, a)
      BY <1>1, <1>3, <2>1, LineageFacts DEF LineageKnown, LiveBefore, IsExit
    <2>4. \A a \in DOMAIN live' : /\ live'[a] \in DOMAIN log /\ IsSpawn(log, live'[a], a)
                                  /\ ~SpawnedBefore(log, live'[a], a)
      BY <2>1, LineageFacts, <1>1 DEF LineageKnown
    <2>5. LineageCode(log, i) = "EXIT_WITHOUT_SPAWN"
      BY <1>1, <1>3, LineageFacts, CodeFromKnown
    <2> QED  BY <1>1, <2>1, <2>2, <2>3, <2>4, <2>5, LineageAdvance
  <1> QED  BY <1>2, <1>3

\* Neither a marker nor an action changes anyone's state.
LEMMA QuietKeeps == ASSUME Inv, Marker \/ Act PROVE Inv'
  <1>1. /\ LineageFrame /\ UNCHANGED <<live, exited>>
        /\ log[i].type \in Markers \cup ActionTypes
    BY DEF Marker, Act
  <1>2. \A a : ~IsSpawn(log, i, a) /\ ~IsExit(log, i, a)
    BY <1>1 DEF IsSpawn, IsExit, Markers, ActionTypes
  <1>3. \A a : a \in DOMAIN live' <=> LiveBefore(log, i + 1, a)
    BY <1>1, <1>2, LineageFacts DEF LineageKnown, LiveBefore
  <1>4. \A a : a \in exited' <=> ExitedBefore(log, i + 1, a)
    BY <1>1, <1>2, LineageFacts DEF LineageKnown
  <1>5. \A a \in DOMAIN live' : /\ live'[a] \in DOMAIN log /\ IsSpawn(log, live'[a], a)
                                /\ ~SpawnedBefore(log, live'[a], a)
    BY <1>1, LineageFacts DEF LineageKnown
  <1>6. found' = IF LineageCode(log, i) = "NONE" THEN found
                 ELSE found \cup {[code |-> LineageCode(log, i), at |-> i]}
    <2>1. CASE Marker
      BY <1>1, <2>1, LineageFacts, CodeFromKnown DEF Marker
    <2>2. CASE Act
      BY <1>1, <2>2, LineageFacts, CodeFromKnown DEF Act, Report
    <2> QED  BY <2>1, <2>2
  <1> QED  BY <1>1, <1>3, <1>4, <1>5, <1>6, LineageAdvance

\* I5: the spawns of those still live are the dormant ones.
LEMMA CloseKeeps == ASSUME Inv, Close PROVE Inv'
  <1>1. /\ pc = "close" /\ pc' = "done"
        /\ UNCHANGED <<log, require_run_markers, i, expected, last_ts, live, exited>>
        /\ found' = found \cup {[code |-> "UNTERMINATED_ACTOR", at |-> live[a]] : a \in DOMAIN live}
    BY DEF Close
  <1>2. LineageKnown(Len(log) + 1) /\ DOMAIN log = 1..Len(log)
    BY <1>1, Frame DEF Inv, AtClose
  <1>3. \A a \in DOMAIN live : /\ live[a] \in DOMAIN log /\ IsDormantSpawn(log, live[a])
    BY <1>2 DEF LineageKnown, IsDormantSpawn, IsSpawn
  <1>4. \A j \in DOMAIN log : IsDormantSpawn(log, j) =>
           log[j].actor \in DOMAIN live /\ live[log[j].actor] = j
    <2> SUFFICES ASSUME NEW j \in DOMAIN log, IsDormantSpawn(log, j)
                 PROVE  log[j].actor \in DOMAIN live /\ live[log[j].actor] = j
      OBVIOUS
    <2> DEFINE k == live[log[j].actor]
    <2>1. log[j].actor \in DOMAIN live /\ IsSpawn(log, j, log[j].actor)
          /\ ~SpawnedBefore(log, j, log[j].actor)
      BY <1>2 DEF IsDormantSpawn, LineageKnown, IsSpawn
    <2>2. k \in DOMAIN log /\ IsSpawn(log, k, log[j].actor) /\ ~SpawnedBefore(log, k, log[j].actor)
      BY <1>2, <2>1 DEF LineageKnown
    <2>3. ~(k < j) /\ ~(j < k)
      BY <2>1, <2>2 DEF SpawnedBefore
    <2>4. k = j
      BY <1>2, <2>2, <2>3
    <2> QED  BY <2>1, <2>4
  <1>5. {[code |-> "UNTERMINATED_ACTOR", at |-> live[a]] : a \in DOMAIN live} = DormantViolations(log)
    BY <1>3, <1>4 DEF DormantViolations
  <1>6. found' = Expected
    BY <1>1, <1>5 DEF Inv, AtClose, Expected, MarkerPart
  <1>7. Expected' = Expected
    BY <1>1 DEF Expected, MarkerViolations
  <1>8. TypeOK'
    BY <1>1 DEF Inv, TypeOK
  <1> QED  BY <1>1, <1>6, <1>7, <1>8 DEF Inv, Gate1Exact

\* Every step of the scan keeps the invariant, and stuttering does.
THEOREM StepInv == Inv /\ [Next]_vars => Inv'
  <1> SUFFICES ASSUME Inv, [Next]_vars PROVE Inv'
    OBVIOUS
  <1>1. CASE UNCHANGED vars
    BY <1>1
    DEF vars, Inv, TypeOK, InSequence, InTime, InMarkers, InLineage, AtClose, TimeKnown,
        LineageKnown, MarkerPart, MarkerViolations, Gate1Exact, Expected
  <1> QED  BY <1>1, SequenceKeeps, TimeKeeps, MarkerKeeps, NextLoopKeeps, RejectedSpawnKeeps,
              AcceptedSpawnKeeps, ExitKeeps, QuietKeeps, CloseKeeps DEF Next

\* The invariant of the scan.
THEOREM InvHolds == Spec => []Inv
  <1> QED  BY InitInv, StepInv, PTL DEF Spec

\* verify() reports exactly the violations of the finished log, each at its
\* event and under its code, whatever log it is given.
THEOREM ScanIsExact == Spec => []Gate1Exact
  <1>1. Inv => Gate1Exact
    BY DEF Inv
  <1> QED  BY <1>1, InvHolds, PTL
-------------------------------------------------------------------------------
\* What kind of thing an event is.
LEMMA EventFields ==
    ASSUME NEW l \in Seq(Event)
    PROVE  /\ Len(l) \in Nat /\ DOMAIN l = 1..Len(l)
           /\ \A k \in DOMAIN l : /\ l[k].type \in EventType
                                  /\ l[k].sequence \in Nat /\ l[k].timestamp \in Nat
  <1>1. \A k \in DOMAIN l : l[k] \in Event
    OBVIOUS
  <1> QED  BY <1>1 DEF Event

\* An actor's only spawn and only exit say all there is of its state.
LEMMA LifeMeans ==
    ASSUME NEW l \in Seq(Event), NEW s \in DOMAIN l, NEW x \in DOMAIN l, NEW a,
           Life(l, s, x, a), NEW k \in Nat
    PROVE  /\ SpawnedBefore(l, k, a) <=> s < k
           /\ ExitedBefore(l, k, a) <=> x < k
           /\ LiveBefore(l, k, a) <=> s < k /\ k <= x
  <1>1. /\ DOMAIN l = 1..Len(l) /\ s < x
        /\ \A j \in DOMAIN l : (IsSpawn(l, j, a) <=> j = s) /\ (IsExit(l, j, a) <=> j = x)
    BY DEF Life
  <1>2. \A j \in Nat : SpawnedBefore(l, j, a) <=> s < j
    BY <1>1 DEF SpawnedBefore
  <1>3. ExitedBefore(l, k, a) <=> x < k
    BY <1>1, <1>2 DEF ExitedBefore
  <1> QED  BY <1>1, <1>2, <1>3 DEF LiveBefore

\* If the rules accept every event and nobody is left live, everyone who does
\* anything has one life, inside its parent's.
LEMMA CleanIsBalanced ==
    ASSUME NEW l \in Seq(Event), \A k \in DOMAIN l : LineageCode(l, k) = "NONE",
           \A k \in DOMAIN l : ~IsDormantSpawn(l, k)
    PROVE  Balanced(l)
  <1>1. DOMAIN l = 1..Len(l) /\ Len(l) \in Nat
        /\ \A k \in DOMAIN l : l[k].type \in EventType
    BY EventFields
  <1>2. ASSUME NEW k \in DOMAIN l
        PROVE  /\ l[k].type = "PROCESS_SPAWN" => /\ ~SpawnedBefore(l, k, l[k].actor)
                                                 /\ ~IsOrphan(l, k)
               /\ l[k].type \in {"PROCESS_EXIT"} \cup ActionTypes => LiveBefore(l, k, l[k].actor)
    BY DEF LineageCode, LiveBefore, Markers, ActionTypes
  <1>3. \A j, k \in DOMAIN l : \A a : IsSpawn(l, j, a) /\ IsSpawn(l, k, a) => j = k
    <2>1. \A j, k \in DOMAIN l : \A a : IsSpawn(l, j, a) /\ IsSpawn(l, k, a) => ~(j < k)
      BY <1>2 DEF IsSpawn, SpawnedBefore
    <2> QED  BY <1>1, <2>1
  <1>4. \A j, k \in DOMAIN l : \A a : IsExit(l, j, a) /\ IsExit(l, k, a) => j = k
    <2>1. \A j, k \in DOMAIN l : \A a : IsExit(l, j, a) /\ IsExit(l, k, a) => ~(j < k)
      BY <1>2 DEF IsExit, ExitedBefore, LiveBefore
    <2> QED  BY <1>1, <2>1
  <1>5. ASSUME NEW s \in DOMAIN l, NEW a, IsSpawn(l, s, a)
        PROVE  \E x \in DOMAIN l : Life(l, s, x, a)
    <2>1. ~LiveBefore(l, Len(l) + 1, a) /\ SpawnedBefore(l, Len(l) + 1, a)
      BY <1>1, <1>2, <1>5 DEF IsDormantSpawn, IsSpawn, SpawnedBefore
    <2>2. PICK x \in DOMAIN l : IsExit(l, x, a) /\ SpawnedBefore(l, x, a)
      BY <2>1 DEF LiveBefore, ExitedBefore
    <2>3. s < x
      BY <1>3, <1>5, <2>2 DEF SpawnedBefore
    <2>4. ASSUME NEW k \in DOMAIN l, l[k].actor = a, l[k].type \notin Markers
          PROVE  s <= k /\ k <= x
      <3>1. CASE l[k].type = "PROCESS_SPAWN"
        BY <1>1, <1>3, <1>5, <2>3, <2>4, <3>1 DEF IsSpawn
      <3>2. CASE l[k].type = "PROCESS_EXIT"
        BY <1>1, <1>4, <2>2, <2>3, <2>4, <3>2 DEF IsExit
      <3>3. CASE l[k].type \in ActionTypes
        <4>1. SpawnedBefore(l, k, a) /\ ~ExitedBefore(l, k, a)
          BY <1>2, <2>4, <3>3 DEF LiveBefore
        <4>2. s < k
          BY <1>3, <1>5, <4>1 DEF SpawnedBefore
        <4>3. ~(x < k)
          BY <2>2, <4>1 DEF ExitedBefore
        <4> QED  BY <1>1, <4>2, <4>3
      <3> QED  BY <1>1, <2>4, <3>1, <3>2, <3>3 DEF EventType, LifecycleTypes
    <2> QED  BY <1>3, <1>4, <1>5, <2>2, <2>3, <2>4 DEF Life
  <1>6. ASSUME NEW k \in DOMAIN l, l[k].type \notin Markers
        PROVE  \E s \in DOMAIN l : IsSpawn(l, s, l[k].actor)
    BY <1>1, <1>2, <1>6 DEF IsSpawn, LiveBefore, SpawnedBefore, EventType, LifecycleTypes
  <1>7. ASSUME NEW s \in DOMAIN l, l[s].type = "PROCESS_SPAWN", l[s].parent # NO_PARENT
        PROVE  \E ps, px \in DOMAIN l : /\ IsSpawn(l, ps, l[s].parent) /\ ps < s
                                        /\ Life(l, ps, px, l[s].parent) /\ s < px
    <2> DEFINE p == l[s].parent
    <2>1. SpawnedBefore(l, s, p) /\ ~ExitedBefore(l, s, p)
      BY <1>2, <1>7 DEF IsOrphan, LiveBefore
    <2>2. PICK ps \in DOMAIN l : ps < s /\ IsSpawn(l, ps, p)
      BY <2>1 DEF SpawnedBefore
    <2>3. PICK px \in DOMAIN l : Life(l, ps, px, p)
      BY <1>5, <2>2
    <2>4. ~(px < s)
      <3>1. s \in Nat
        BY <1>1
      <3>2. ExitedBefore(l, s, p) <=> px < s
        BY <2>3, <3>1, LifeMeans
      <3> QED  BY <2>1, <3>2
    <2>5. px # s
      BY <1>7, <2>3 DEF Life, IsExit
    <2> QED  BY <1>1, <2>2, <2>3, <2>4, <2>5
  <1> QED  BY <1>5, <1>6, <1>7 DEF Balanced, IsSpawn

\* If everyone has one life, inside its parent's, the rules accept every event
\* and nobody is left live.
LEMMA BalancedIsClean ==
    ASSUME NEW l \in Seq(Event), Balanced(l), NEW k \in DOMAIN l
    PROVE  LineageCode(l, k) = "NONE" /\ ~IsDormantSpawn(l, k)
  <1>1. DOMAIN l = 1..Len(l) /\ Len(l) \in Nat /\ l[k].type \in EventType
        /\ k \in Nat /\ k <= Len(l)
    BY EventFields
  <1>2. CASE l[k].type \in Markers
    BY <1>2 DEF LineageCode, IsDormantSpawn, Markers, ActionTypes
  <1>3. CASE l[k].type \notin Markers
    <2> DEFINE a == l[k].actor
    <2>1. PICK s \in DOMAIN l, x \in DOMAIN l :
             /\ Life(l, s, x, a)
             /\ l[s].parent # NO_PARENT =>
                  \E ps, px \in DOMAIN l :
                     /\ IsSpawn(l, ps, l[s].parent) /\ ps < s
                     /\ Life(l, ps, px, l[s].parent) /\ s < px
      BY <1>3 DEF Balanced
    <2>2. /\ SpawnedBefore(l, k, a) <=> s < k
          /\ ExitedBefore(l, k, a) <=> x < k
          /\ LiveBefore(l, k, a) <=> s < k /\ k <= x
          /\ ~LiveBefore(l, Len(l) + 1, a)
      <3>1. Len(l) + 1 \in Nat /\ x < Len(l) + 1
        BY <1>1
      <3>2. Life(l, s, x, a)
        BY <2>1
      <3> HIDE DEF a
      <3>3. LiveBefore(l, Len(l) + 1, a) <=> s < Len(l) + 1 /\ Len(l) + 1 <= x
        BY <3>1, <3>2, LifeMeans
      <3>4. /\ SpawnedBefore(l, k, a) <=> s < k
            /\ ExitedBefore(l, k, a) <=> x < k
            /\ LiveBefore(l, k, a) <=> s < k /\ k <= x
        BY <1>1, <3>2, LifeMeans
      <3> QED  BY <1>1, <3>1, <3>3, <3>4
    <2>3. /\ s < x /\ s <= k /\ k <= x
          /\ l[k].type = "PROCESS_SPAWN" <=> k = s
          /\ l[k].type = "PROCESS_EXIT" <=> k = x
      BY <1>3, <2>1 DEF Life, IsSpawn, IsExit
    <2>4. l[k].type = "PROCESS_SPAWN" => ~IsOrphan(l, k)
      <3> SUFFICES ASSUME k = s, l[s].parent # NO_PARENT PROVE LiveBefore(l, s, l[s].parent)
        BY <2>3 DEF IsOrphan
      <3>1. PICK ps \in DOMAIN l, px \in DOMAIN l :
               ps < s /\ Life(l, ps, px, l[s].parent) /\ s < px
        BY <2>1
      <3>2. s \in Nat /\ s <= px
        BY <1>1, <3>1
      <3> QED  BY <3>1, <3>2, LifeMeans
    <2>5. LineageCode(l, k) = "NONE"
      <3>1. CASE l[k].type = "PROCESS_SPAWN"
        BY <1>1, <2>2, <2>3, <2>4, <3>1 DEF LineageCode, Markers, ActionTypes
      <3>2. CASE l[k].type = "PROCESS_EXIT"
        BY <1>1, <2>2, <2>3, <3>2 DEF LineageCode, Markers, ActionTypes
      <3>3. CASE l[k].type \in ActionTypes
        BY <1>1, <2>2, <2>3, <3>3 DEF LineageCode, Markers, ActionTypes
      <3> QED  BY <1>1, <1>3, <3>1, <3>2, <3>3 DEF EventType, LifecycleTypes
    <2>6. ~IsDormantSpawn(l, k)
      BY <2>2 DEF IsDormantSpawn
    <2> QED  BY <2>5, <2>6
  <1> QED  BY <1>2, <1>3

\* The markers' violations are absent exactly from an enclosed run.
LEMMA MarkersEnclose ==
    ASSUME log \in Seq(Event), log # <<>>
    PROVE  MarkerViolations = {} <=> Enclosed(log)
  <1>1. Len(log) \in Nat \ {0} /\ DOMAIN log = 1..Len(log)
    OBVIOUS
  <1>2. MarkerViolations = {} <=>
           /\ {1} \cap {j \in DOMAIN log : log[j].type # "RUN_BEGIN"} = {}
           /\ {Len(log)} \cap {j \in DOMAIN log : log[j].type # "RUN_END"} = {}
           /\ {j \in DOMAIN log : j > 1 /\ j < Len(log) /\ log[j].type \in Markers} = {}
    BY DEF MarkerViolations
  <1>3. 1 \in DOMAIN log /\ Len(log) \in DOMAIN log
    BY <1>1
  <1>4. \A j \in DOMAIN log : ~(j > 1 /\ j < Len(log)) <=> j \in {1, Len(log)}
    BY <1>1
  <1> QED  BY <1>2, <1>3, <1>4 DEF Enclosed

\* At the end of the scan, no violation is found in exactly the well-formed
\* runs.
LEMMA CleanIsWellFormed == ASSUME Inv PROVE OkIsWellFormed
  <1> SUFFICES ASSUME pc = "done", require_run_markers PROVE found = {} <=> WellFormed(log)
    BY DEF OkIsWellFormed
  <1>1. found = SequenceViolations(log) \cup TimeViolations(log) \cup MarkerViolations
                \cup LineageViolations(log) \cup DormantViolations(log)
    BY DEF Inv, Gate1Exact, Expected
  <1>2. log \in Seq(Event) /\ DOMAIN log = 1..Len(log) /\ Len(log) \in Nat
        /\ \A k \in DOMAIN log : log[k].timestamp \in Nat
    BY EventFields DEF Inv, TypeOK
  <1>3. CASE log = <<>>
    BY <1>1, <1>3
    DEF WellFormed, SequenceViolations, TimeViolations, MarkerViolations, LineageViolations,
        DormantViolations
  <1>4. CASE log # <<>>
    <2>1. SequenceViolations(log) = {} <=> Dense(log)
      BY DEF SequenceViolations, Dense
    <2>2. TimeViolations(log) = {} <=> InTimeOrder(log)
      <3>1. TimeViolations(log) = {} <=>
               \A j \in DOMAIN log : \A h \in DOMAIN log :
                  ~(h < j /\ log[j].timestamp < log[h].timestamp)
        BY DEF TimeViolations
      <3>2. \A h, j \in DOMAIN log : ~(log[j].timestamp < log[h].timestamp)
                                        <=> log[h].timestamp <= log[j].timestamp
        BY <1>2
      <3> QED  BY <3>1, <3>2 DEF InTimeOrder
    <2>3. MarkerViolations = {} <=> Enclosed(log)
      BY <1>2, <1>4, MarkersEnclose
    <2>4. LineageViolations(log) = {} <=> \A k \in DOMAIN log : LineageCode(log, k) = "NONE"
      BY DEF LineageViolations
    <2>5. DormantViolations(log) = {} <=> \A k \in DOMAIN log : ~IsDormantSpawn(log, k)
      BY DEF DormantViolations
    <2>6. LineageViolations(log) = {} /\ DormantViolations(log) = {} <=> Balanced(log)
      BY <1>2, <2>4, <2>5, CleanIsBalanced, BalancedIsClean
    <2> QED  BY <1>1, <1>4, <2>1, <2>2, <2>3, <2>6 DEF WellFormed
  <1> QED  BY <1>3, <1>4

\* verify() accepts a log, markers required, exactly if it is a well-formed
\* run: what the scan remembers decides the shape no scan is needed to state.
THEOREM AcceptedIsWellFormed == Spec => []OkIsWellFormed
  BY InvHolds, CleanIsWellFormed, PTL
-------------------------------------------------------------------------------
\* A function on 1..n is a sequence of length n.
LEMMA LenOf ==
    ASSUME NEW S, NEW n \in Nat, NEW f \in [1..n -> S]
    PROVE  f \in Seq(S) /\ Len(f) = n
  OBVIOUS

\* A log without its event k.
LEMMA WithoutIs ==
    ASSUME NEW l \in Seq(Event), NEW k \in DOMAIN l, Len(l) > 1
    PROVE  /\ Without(l, k) # <<>> /\ Len(Without(l, k)) = Len(l) - 1
           /\ DOMAIN Without(l, k) = 1..(Len(l) - 1)
           /\ \A j \in DOMAIN Without(l, k) :
                 Without(l, k)[j] = IF j < k THEN l[j] ELSE l[j + 1]
  <1>1. Len(l) - 1 \in Nat /\ 1 \in 1..(Len(l) - 1)
    OBVIOUS
  <1> DEFINE w == Without(l, k)
  <1>2. DOMAIN w = 1..(Len(l) - 1)
        /\ \A j \in DOMAIN w : w[j] = IF j < k THEN l[j] ELSE l[j + 1]
    BY DEF Without
  <1>3. Len(w) = Len(l) - 1
    <2>1. w \in [1..(Len(l) - 1) -> Event]
      <3>1. \A j \in 1..(Len(l) - 1) : (IF j < k THEN l[j] ELSE l[j + 1]) \in Event
        OBVIOUS
      <3> QED  BY <3>1 DEF Without
    <2> HIDE DEF w
    <2> QED  BY <1>1, <2>1, LenOf
  <1>4. w # <<>>
    BY <1>1, <1>2
  <1> QED  BY <1>2, <1>3, <1>4

\* Renumbering changes no type and no actor.
LEMMA RenumberedIs ==
    ASSUME NEW w, NEW n \in Nat, DOMAIN w = 1..n, NEW r, r = Renumbered(w),
           \A j \in DOMAIN w : w[j] \in Event
    PROVE  /\ DOMAIN r = 1..n /\ Len(r) = n
           /\ \A j \in DOMAIN r : r[j].type = w[j].type /\ r[j].actor = w[j].actor
  <1>1. r \in [1..n -> Event]
    BY DEF Renumbered, Event
  <1>2. Len(r) = n
    BY <1>1, LenOf
  <1> QED  BY <1>2 DEF Renumbered, Event

\* Neither end of an enclosed run can be cut off.
LEMMA EndsShow ==
    ASSUME NEW l \in Seq(Event), Len(l) > 1, Enclosed(l), NEW k \in {1, Len(l)},
           NEW w, DOMAIN w = 1..(Len(l) - 1), Len(w) = Len(l) - 1,
           \A j \in DOMAIN w : w[j].type = IF j < k THEN l[j].type ELSE l[j + 1].type
    PROVE  ~Enclosed(w)
  <1>1. Len(l) \in Nat /\ DOMAIN l = 1..Len(l) /\ 1 \in DOMAIN w /\ Len(w) \in DOMAIN w
    OBVIOUS
  <1>2. CASE k = 1
    <2>1. w[1].type = l[2].type /\ 2 \in DOMAIN l
      BY <1>1, <1>2
    <2>2. l[2].type # "RUN_BEGIN"
      BY <1>1, <2>1 DEF Enclosed, Markers
    <2> QED  BY <2>1, <2>2 DEF Enclosed
  <1>3. CASE k = Len(l)
    <2>1. w[Len(w)].type = l[Len(l) - 1].type /\ Len(l) - 1 \in DOMAIN l /\ Len(l) - 1 # Len(l)
      BY <1>1, <1>3
    <2>2. l[Len(l) - 1].type # "RUN_END"
      BY <1>1, <2>1 DEF Enclosed, Markers
    <2> QED  BY <2>1, <2>2 DEF Enclosed
  <1> QED  BY <1>2, <1>3

\* A spawn or an exit that is cut out is missed by what is left of its actor.
LEMMA LifeShows ==
    ASSUME NEW l \in Seq(Event), NEW k \in DOMAIN l, Balanced(l),
           l[k].type \in LifecycleTypes,
           NEW w, DOMAIN w = 1..(Len(l) - 1),
           \A j \in DOMAIN w : /\ w[j].type = IF j < k THEN l[j].type ELSE l[j + 1].type
                               /\ w[j].actor = IF j < k THEN l[j].actor ELSE l[j + 1].actor
    PROVE  ~Balanced(w)
  <1> DEFINE a == l[k].actor
  <1>1. Len(l) \in Nat /\ DOMAIN l = 1..Len(l) /\ k \in 1..Len(l)
    OBVIOUS
  <1>2. l[k].type \notin Markers
    BY DEF Markers, LifecycleTypes
  <1>3. PICK s \in DOMAIN l, x \in DOMAIN l : Life(l, s, x, a)
    BY <1>2 DEF Balanced
  <1>4. s < x /\ \A j \in DOMAIN l : /\ l[j].type = "PROCESS_SPAWN" /\ l[j].actor = a <=> j = s
                                     /\ l[j].type = "PROCESS_EXIT" /\ l[j].actor = a <=> j = x
    BY <1>3 DEF Life, IsSpawn, IsExit
  <1> HIDE DEF a
  <1>5. k = s \/ k = x
    BY <1>4 DEF LifecycleTypes, a
  <1>6. ASSUME NEW j \in DOMAIN w
        PROVE  \E h \in DOMAIN l : /\ h # k /\ w[j].type = l[h].type /\ w[j].actor = l[h].actor
    BY <1>1
  <1>7. CASE k = s
    <2>1. x - 1 \in DOMAIN w /\ w[x - 1].actor = a /\ w[x - 1].type = "PROCESS_EXIT"
      BY <1>1, <1>4, <1>7
    <2>2. \A j \in DOMAIN w : ~IsSpawn(w, j, a)
      BY <1>4, <1>6, <1>7 DEF IsSpawn
    <2>3. ASSUME Balanced(w) PROVE \E j \in DOMAIN w : IsSpawn(w, j, a)
      BY <2>1, <2>3 DEF Balanced, Life, Markers
    <2> QED  BY <2>2, <2>3
  <1>8. CASE k = x
    <2>1. s \in DOMAIN w /\ w[s].actor = a /\ w[s].type = "PROCESS_SPAWN"
      BY <1>1, <1>4, <1>8
    <2>2. \A j \in DOMAIN w : ~IsExit(w, j, a)
      BY <1>4, <1>6, <1>8 DEF IsExit
    <2>3. ASSUME Balanced(w) PROVE \E j \in DOMAIN w : IsExit(w, j, a)
      BY <2>1, <2>3 DEF Balanced, Life, Markers
    <2> QED  BY <2>2, <2>3
  <1> QED  BY <1>5, <1>7, <1>8

\* No event can be left out of a well-formed run as it is numbered, and no
\* marker, spawn or exit out of one that is numbered anew.
LEMMA GapShows ==
    ASSUME NEW l \in Seq(Event), l # <<>>, WellFormed(l), NEW k \in DOMAIN l
    PROVE  /\ ~WellFormed(Without(l, k))
           /\ l[k].type \notin ActionTypes => ~WellFormed(Renumbered(Without(l, k)))
  <1> DEFINE w == Without(l, k)
             r == Renumbered(w)
  <1>1. Len(l) \in Nat /\ DOMAIN l = 1..Len(l) /\ k \in 1..Len(l)
        /\ \A j \in DOMAIN l : l[j] \in Event
    OBVIOUS
  <1>2. Dense(l) /\ Enclosed(l) /\ Balanced(l)
    BY DEF WellFormed
  <1>3. Len(l) > 1
    BY <1>1, <1>2 DEF Enclosed
  <1>4. /\ w # <<>> /\ Len(w) = Len(l) - 1 /\ DOMAIN w = 1..(Len(l) - 1)
        /\ \A j \in DOMAIN w : w[j] = IF j < k THEN l[j] ELSE l[j + 1]
    BY <1>3, WithoutIs
  <1>5. \A j \in DOMAIN w : w[j] \in Event
    BY <1>1, <1>4
  <1> HIDE DEF w
  <1>6. /\ DOMAIN r = 1..(Len(l) - 1) /\ Len(r) = Len(l) - 1
        /\ \A j \in DOMAIN r : r[j].type = w[j].type /\ r[j].actor = w[j].actor
    <2>1. Len(l) - 1 \in Nat
      BY <1>1, <1>3
    <2> QED  BY <1>4, <1>5, <2>1, RenumberedIs
  <1>7. r # <<>>
    BY <1>1, <1>3, <1>6
  <1> HIDE DEF r
  <1>8. CASE k \in {1, Len(l)}
    <2>1. ~Enclosed(w)
      BY <1>2, <1>3, <1>4, <1>8, EndsShow
    <2>2. ~Enclosed(r)
      BY <1>2, <1>3, <1>4, <1>6, <1>7, <1>8, EndsShow
    <2> QED  BY <1>4, <1>7, <2>1, <2>2 DEF WellFormed, w, r
  <1>9. CASE k \notin {1, Len(l)}
    <2>1. k - 1 \in DOMAIN l /\ k - 1 \in DOMAIN w /\ k \in DOMAIN w /\ k + 1 \in DOMAIN l
          /\ w[k - 1] = l[k - 1] /\ w[k] = l[k + 1] /\ k > 1
      BY <1>1, <1>3, <1>4, <1>9
    <2>2. l[k].sequence = l[k - 1].sequence + 1 /\ l[k + 1].sequence = l[k].sequence + 1
          /\ l[k - 1].sequence \in Nat
      <3>1. (k + 1) - 1 = k /\ k + 1 > 1
        BY <1>1
      <3>2. l[k + 1].sequence = l[(k + 1) - 1].sequence + 1
        BY <1>2, <2>1, <3>1 DEF Dense
      <3>3. l[k - 1] \in Event
        BY <1>1, <2>1
      <3> QED  BY <1>2, <2>1, <3>1, <3>2, <3>3 DEF Dense, Event
    <2>3. ~Dense(w)
      BY <2>1, <2>2 DEF Dense
    <2>4. l[k].type \notin Markers
      BY <1>2, <1>9 DEF Enclosed
    <2>5. l[k].type \notin ActionTypes => l[k].type \in LifecycleTypes
      <3>1. l[k] \in Event
        BY <1>1
      <3> QED  BY <2>4, <3>1 DEF Event, EventType
    <2>6. l[k].type \notin ActionTypes => ~Balanced(r)
      <3> SUFFICES ASSUME l[k].type \in LifecycleTypes PROVE ~Balanced(r)
        BY <2>5
      <3>1. \A j \in DOMAIN r : /\ r[j].type = IF j < k THEN l[j].type ELSE l[j + 1].type
                                /\ r[j].actor = IF j < k THEN l[j].actor ELSE l[j + 1].actor
        BY <1>4, <1>6
      <3>2. DOMAIN r = 1..(Len(l) - 1)
        BY <1>6
      <3> QED  BY <1>2, <3>1, <3>2, LifeShows
    <2> QED  BY <1>4, <1>7, <2>3, <2>6 DEF WellFormed, w, r
  <1> QED  BY <1>8, <1>9

\* What the docstring promises of an accepted run, of any length.
THEOREM OmissionsShow == Spec => []OmissionVisible
  <1> SUFFICES ASSUME Inv, OkIsWellFormed PROVE OmissionVisible
    BY InvHolds, AcceptedIsWellFormed, PTL
  <1>1. log \in Seq(Event)
    BY DEF Inv, TypeOK
  <1>2. log = <<>> => DOMAIN log = {}
    OBVIOUS
  <1> QED  BY <1>1, <1>2, GapShows DEF OmissionVisible, OkIsWellFormed
===============================================================================
