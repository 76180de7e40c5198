------------------------------- MODULE DataProofs -------------------------------
(***************************************************************************)
(* Facts about data for the proofs of several components: induction over   *)
(* the natural numbers, for sets of numbers instead of predicates, and     *)
(* with it what the tracker of RateTrigger.tla holds after any number of   *)
(* recorded decisions, that the Merkle root of Commit.tla determines its   *)
(* leaves, and what the library's folds compute item by item.              *)
(***************************************************************************)
EXTENDS RateTrigger, Commit, FiniteSetTheorems, SequenceTheorems, TLAPS

\* A set that holds 0 and the successor of each of its numbers holds them all.
\* Otherwise k |-> k + 1 would map the finite set of its numbers below a
\* missing one into itself without 0.
LEMMA Induction ==
    ASSUME NEW S, 0 \in S, \A n \in Nat : n \in S => n + 1 \in S
    PROVE  Nat \subseteq S
  <1> SUFFICES ASSUME NEW n \in Nat, n \notin S
               PROVE  FALSE
    OBVIOUS
  <1> DEFINE D == {k \in 0..n : k \in S}
             f == [k \in D |-> k + 1]
  <1>1. IsFiniteSet(D) /\ Cardinality(D) \in Nat
    <2>1. IsFiniteSet(0..n)
      BY FS_Interval
    <2> QED  BY <2>1, FS_Subset, FS_CardinalityType
  <1>2. IsFiniteSet(D \ {0}) /\ Cardinality(D \ {0}) = Cardinality(D) - 1
    <2>1. 0 \in D
      OBVIOUS
    <2> QED  BY <1>1, <2>1, FS_RemoveElement
  <1>3. f \in Injection(D, D \ {0})
    <2>1. \A k \in D : k + 1 \in D \ {0}
      OBVIOUS
    <2>2. f \in [D -> D \ {0}]
      BY <2>1
    <2>3. \A a, b \in D : f[a] = f[b] => a = b
      OBVIOUS
    <2> QED  BY <2>2, <2>3 DEF Injection, IsInjective
  <1>4. Cardinality(D) <= Cardinality(D \ {0})
    BY <1>2, <1>3, FS_Injection
  <1> QED  BY <1>1, <1>2, <1>4

\* A set of numbers that is not empty has a least one.
LEMMA HasLeast ==
    ASSUME NEW S \in SUBSET Nat, S # {}
    PROVE  Min(S) \in S /\ \A y \in S : Min(S) <= y
  <1> DEFINE Below == {n \in Nat : \A k \in S : n <= k}
  <1>1. \E x \in S : \A y \in S : x <= y
    <2> SUFFICES ASSUME \A x \in S : \E y \in S : ~(x <= y)
                 PROVE  FALSE
      OBVIOUS
    <2>1. 0 \in Below
      OBVIOUS
    <2>2. ASSUME NEW n \in Nat, n \in Below
          PROVE  n + 1 \in Below
      BY <2>2
    <2> HIDE DEF Below
    <2>3. Nat \subseteq Below
      BY <2>1, <2>2, Induction
    <2>4. PICK x \in S : TRUE
      OBVIOUS
    <2>5. x + 1 \in Below
      BY <2>3, <2>4
    <2> QED  BY <2>4, <2>5 DEF Below
  <1> QED  BY <1>1 DEF Min

-------------------------------------------------------------------------------
\* Times that do not run backwards.
Sorted(times) == \A j, k \in DOMAIN times : j <= k => times[j] <= times[k]

\* The head is pruned, of a sorted sequence exactly what is too old.
LEMMA PruneIs ==
    ASSUME NEW times \in Seq(Nat), NEW now \in Nat, NEW window \in Nat
    PROVE  \E lo \in 1..(Len(times) + 1) :
              /\ Prune(times, now, window) = SubSeq(times, lo, Len(times))
              /\ \A k \in 1..Len(times) : k < lo => now - times[k] > window
              /\ Sorted(times) =>
                    \A k \in 1..Len(times) : lo <= k => now - times[k] <= window
  <1> DEFINE young == {k \in DOMAIN times : now - times[k] <= window}
  <1>1. DOMAIN times = 1..Len(times) /\ Len(times) \in Nat /\ \A k \in 1..Len(times) : times[k] \in Nat
    OBVIOUS
  <1>2. Prune(times, now, window) =
            IF young = {} THEN <<>> ELSE SubSeq(times, Min(young), Len(times))
    BY DEF Prune
  <1>3. CASE young = {}
    <2>0. SubSeq(times, Len(times) + 1, Len(times)) = <<>>
      BY <1>1
    <2>1. Prune(times, now, window) = SubSeq(times, Len(times) + 1, Len(times))
      <3> HIDE DEF young
      <3> QED  BY <1>3, <1>2, <2>0
    <2>2. \A k \in 1..Len(times) : now - times[k] > window
      BY <1>1, <1>3
    <2> DEFINE lo == Len(times) + 1
    <2>3. lo \in 1..(Len(times) + 1) /\ \A k \in 1..Len(times) : ~(lo <= k)
      BY <1>1
    <2> HIDE DEF lo
    <2>4. Prune(times, now, window) = SubSeq(times, lo, Len(times))
      BY <2>1 DEF lo
    <2> QED  BY <2>2, <2>3, <2>4
  <1>4. CASE young # {}
    <2>0. young \in SUBSET Nat
      BY <1>1
    <2>1. Min(young) \in young /\ \A y \in young : Min(young) <= y
      <3> HIDE DEF young
      <3> QED  BY <1>4, <2>0, HasLeast
    <2> DEFINE lo == Min(young)
    <2>2. lo \in 1..Len(times) /\ now - times[lo] <= window
      BY <1>1, <2>1
    <2>3. Prune(times, now, window) = SubSeq(times, lo, Len(times))
      <3> HIDE DEF young
      <3> QED  BY <1>4, <1>2
    <2>4. ASSUME NEW k \in 1..Len(times), k < lo
          PROVE  now - times[k] > window
      <3>1. k \notin young
        <4> HIDE DEF young
        <4>1. k \in Nat /\ lo \in Nat /\ ~(lo <= k)
          BY <2>2, <2>4
        <4> QED  BY <2>1, <4>1
      <3>2. ~(now - times[k] <= window)
        BY <1>1, <3>1
      <3> QED  BY <1>1, <3>2
    <2>5. ASSUME Sorted(times), NEW k \in 1..Len(times), lo <= k
          PROVE  now - times[k] <= window
      <3>1. times[lo] <= times[k]
        BY <1>1, <2>2, <2>5 DEF Sorted
      <3> HIDE DEF lo
      <3> QED  BY <1>1, <2>2, <3>1
    <2> HIDE DEF lo
    <2> QED  BY <1>1, <2>2, <2>3, <2>4, <2>5
  <1> QED  BY <1>3, <1>4

\* The times before the pruning, of a denial or not.
Told(times, denied, now) == IF denied THEN Append(times, now) ELSE times

\* A denial is appended, a grant changes nothing.
LEMMA ToldIs ==
    ASSUME NEW times \in Seq(Nat), NEW denied \in BOOLEAN, NEW now \in Nat
    PROVE  /\ Told(times, denied, now) \in Seq(Nat)
           /\ Len(Told(times, denied, now)) = Len(times) + (IF denied THEN 1 ELSE 0)
           /\ \A k \in 1..Len(times) : Told(times, denied, now)[k] = times[k]
           /\ denied => Told(times, denied, now)[Len(times) + 1] = now
  <1>1. CASE denied
    BY <1>1, AppendProperties DEF Told
  <1>2. CASE ~denied
    BY <1>2 DEF Told
  <1> QED  BY <1>1, <1>2

\* What is pruned, entry by entry.
LEMMA PrunedIs ==
    ASSUME NEW told \in Seq(Nat), NEW now \in Nat, NEW window \in Nat
    PROVE  LET kept == Prune(told, now, window)
           IN  /\ kept \in Seq(Nat)
               /\ Len(kept) <= Len(told)
               /\ \E lo \in 1..(Len(told) + 1) :
                     /\ Len(kept) = Len(told) - lo + 1
                     /\ \A k \in 1..Len(kept) : kept[k] = told[lo + k - 1]
                     /\ \A k \in 1..Len(told) : k < lo => now - told[k] > window
                     /\ Sorted(told) =>
                           \A k \in 1..Len(told) : lo <= k => now - told[k] <= window
  <1> DEFINE kept == Prune(told, now, window)
  <1>1. PICK lo \in 1..(Len(told) + 1) :
              /\ kept = SubSeq(told, lo, Len(told))
              /\ \A k \in 1..Len(told) : k < lo => now - told[k] > window
              /\ Sorted(told) =>
                    \A k \in 1..Len(told) : lo <= k => now - told[k] <= window
    BY PruneIs
  <1> HIDE DEF kept
  <1>2. Len(told) \in Nat /\ lo \in Nat /\ 1 <= lo /\ lo <= Len(told) + 1
    OBVIOUS
  <1>3. \A k \in lo..Len(told) : told[k] \in Nat
    BY <1>2
  <1>4. /\ kept \in Seq(Nat) /\ Len(kept) = Len(told) - lo + 1
        /\ \A k \in 1..(Len(told) - lo + 1) : kept[k] = told[lo + k - 1]
    BY <1>1, <1>2, <1>3, SubSeqProperties
  <1>5. Len(kept) <= Len(told)
    BY <1>2, <1>4
  <1> QED  BY <1>1, <1>4, <1>5 DEF kept

\* The times of record are these two, one after the other.
LEMMA TimesOfRecord ==
    ASSUME NEW config, NEW tracker, NEW denied, NEW now
    PROVE  record(config, tracker, denied, now).times =
               Prune(Told(tracker.times, denied, now), now, config.window)
  BY DEF record, Told

-------------------------------------------------------------------------------
\* One denial at each tick of a counter, as KillSwitch feeds it: after c ticks
\* the trigger holds the last of them, as many as the window spans.
KeptOf(window, c) == IF c <= window + 1 THEN c ELSE window + 1
Ticks(window, c) == [k \in 1..KeptOf(window, c) |-> c - KeptOf(window, c) + k]

\* The next tick pushes out the oldest one once the window is full.
LEMMA TickPruned ==
    ASSUME NEW window \in Nat, NEW c \in Nat
    PROVE  Prune(Append(Ticks(window, c), c + 1), c + 1, window) = Ticks(window, c + 1)
  <1> DEFINE m == KeptOf(window, c)
             ticks == Ticks(window, c)
             told == Append(ticks, c + 1)
             kept == Prune(told, c + 1, window)
  <1>1. m \in Nat /\ m <= c /\ m <= window + 1 /\ (m = c \/ m = window + 1)
    BY DEF KeptOf
  <1>2. ticks \in Seq(Nat) /\ Len(ticks) = m /\ \A k \in 1..m : ticks[k] = c - m + k
    BY <1>1 DEF Ticks
  <1> HIDE DEF ticks
  <1>3. told \in Seq(Nat) /\ Len(told) = m + 1
    BY <1>2
  <1>4. \A k \in 1..(m + 1) : told[k] = c - m + k
    <2>1. \A k \in 1..(m + 1) : told[k] = IF k <= m THEN ticks[k] ELSE c + 1
      BY <1>2
    <2> HIDE DEF told, m
    <2> QED  BY <1>1, <1>2, <2>1
  <1> HIDE DEF told, m
  <1>5. Sorted(told)
    BY <1>1, <1>3, <1>4 DEF Sorted
  <1>6. c + 1 \in Nat
    OBVIOUS
  <1>7. kept \in Seq(Nat)
    BY <1>3, <1>6, PrunedIs
  <1>8. PICK lo \in 1..(Len(told) + 1) :
            /\ Len(kept) = Len(told) - lo + 1
            /\ \A k \in 1..Len(kept) : kept[k] = told[lo + k - 1]
            /\ \A k \in 1..Len(told) : k < lo => (c + 1) - told[k] > window
            /\ \A k \in 1..Len(told) : lo <= k => (c + 1) - told[k] <= window
    BY <1>3, <1>5, <1>6, PrunedIs
  <1> HIDE DEF kept
  <1>9. Len(kept) \in Nat /\ Len(kept) = m + 2 - lo /\ lo \in 1..(m + 2)
    BY <1>1, <1>3, <1>7, <1>8
  <1>10. Len(kept) = KeptOf(window, c + 1)
    <2>1. \A k \in 1..(m + 1) : (c + 1) - told[k] = m + 1 - k
      BY <1>1, <1>4
    <2>2. m = IF c <= window + 1 THEN c ELSE window + 1
      BY DEF m, KeptOf
    <2>3. lo > 1 => m + 1 - (lo - 1) > window
      BY <1>1, <1>3, <1>8, <1>9, <2>1
    <2>4. lo <= m + 1 => m + 1 - lo <= window
      BY <1>1, <1>3, <1>8, <1>9, <2>1
    <2> QED  BY <1>1, <1>9, <2>2, <2>3, <2>4 DEF KeptOf
  <1>11. ASSUME NEW k \in 1..Len(kept)
         PROVE  kept[k] = (c + 1) - Len(kept) + k
    <2>1. lo + k - 1 \in 1..(m + 1)
      BY <1>1, <1>9
    <2>2. kept[k] = told[lo + k - 1]
      BY <1>8
    <2>3. told[lo + k - 1] = c - m + (lo + k - 1)
      BY <1>4, <2>1
    <2> QED  BY <1>1, <1>9, <2>2, <2>3
  <1>12. kept = [k \in 1..Len(kept) |-> kept[k]]
    BY <1>7
  <1>13. kept = Ticks(window, c + 1)
    BY <1>10, <1>11, <1>12 DEF Ticks
  <1> QED  BY <1>13 DEF kept, told, ticks

\* What follows x as the k-th of a chain: the trigger a tick later, the sequences
\* up to the next one in a row, the place a level higher, or the next level of a
\* tree.
Following(of, x, k) ==
    IF of.kind = "tick" THEN record(of.config, x, TRUE, of.c + k)
    ELSE IF of.kind = "row" THEN x \o of.seqs[k + 1]
    ELSE IF of.kind = "place" THEN x \div 2
    ELSE Paired(x)

\* chain is first and the n values that follow it ...
IsChain(chain, of, first, n) ==
    chain = [k \in 0..n |-> IF k = 0 THEN first ELSE Following(of, chain[k - 1], k)]

\* ... and exists for every n.
LEMMA ChainExists ==
    ASSUME NEW of, NEW first, NEW n \in Nat
    PROVE  \E chain : IsChain(chain, of, first, n)
  <1> DEFINE Step(f, k) == IF k = 0 THEN first ELSE Following(of, f[k - 1], k)
             Defined == {m \in Nat : \E f : f = [k \in 0..m |-> Step(f, k)]}
  <1>1. 0 \in Defined
    <2> DEFINE f == [k \in 0..0 |-> first]
    <2>1. f = [k \in 0..0 |-> Step(f, k)]
      OBVIOUS
    <2> QED  BY <2>1
  <1>2. ASSUME NEW m \in Nat, m \in Defined
        PROVE  m + 1 \in Defined
    <2>1. PICK f : f = [k \in 0..m |-> Step(f, k)]
      BY <1>2
    <2> DEFINE last == Following(of, f[m], m + 1)
               g == [k \in 0..(m + 1) |-> IF k <= m THEN f[k] ELSE last]
    <2>2. \A k \in 0..m : g[k] = f[k]
      OBVIOUS
    <2>3. g[m + 1] = last
      <3> HIDE DEF last
      <3> QED  OBVIOUS
    <2>4. \A k \in 0..m : f[k] = Step(f, k)
      <3> HIDE DEF Step
      <3> QED  BY <2>1
    <2>5. \A k \in 0..m : Step(g, k) = Step(f, k)
      <3> HIDE DEF g
      <3>1. \A k \in 0..m : k # 0 => g[k - 1] = f[k - 1]
        BY <2>2
      <3> QED  BY <3>1
    <2>6. Step(g, m + 1) = last
      <3>1. g[m] = f[m] /\ (m + 1) - 1 = m /\ m + 1 # 0
        BY <2>2
      <3> HIDE DEF g
      <3> QED  BY <3>1
    <2>7. \A k \in 0..(m + 1) : g[k] = Step(g, k)
      <3> HIDE DEF g, last, Step
      <3> QED  BY <2>2, <2>3, <2>4, <2>5, <2>6
    <2>8. g = [k \in 0..(m + 1) |-> Step(g, k)]
      <3> HIDE DEF last, Step
      <3> QED  BY <2>7
    <2> HIDE DEF g, last, Step
    <2> QED  BY <2>8
  <1>3. n \in Defined
    <2> HIDE DEF Defined
    <2> QED  BY <1>1, <1>2, Induction
  <1> QED  BY <1>3 DEF IsChain

\* after is the trigger after 0, 1, ..., n ticks ...
IsAfter(after, config, c, tracker, n) ==
    after = [k \in 0..n |-> IF k = 0 THEN tracker ELSE record(config, after[k - 1], TRUE, c + k)]

\* ... which exists for every n ...
LEMMA AfterDefined ==
    ASSUME NEW config, NEW c \in Nat, NEW tracker, NEW n \in Nat
    PROVE  \E after : IsAfter(after, config, c, tracker, n)
  <1> DEFINE of == [kind |-> "tick", config |-> config, c |-> c]
  <1>1. \A x, k : Following(of, x, k) = record(config, x, TRUE, c + k)
    BY DEF Following
  <1> HIDE DEF of
  <1>2. PICK after : IsChain(after, of, tracker, n)
    BY ChainExists
  <1>3. [k \in 0..n |-> IF k = 0 THEN tracker ELSE Following(of, after[k - 1], k)] =
        [k \in 0..n |-> IF k = 0 THEN tracker ELSE record(config, after[k - 1], TRUE, c + k)]
    BY <1>1, Zenon
  <1> QED  BY <1>2, <1>3, Zenon DEF IsChain, IsAfter

\* ... and holds the last of them (KillSwitch.TriggerAfter).
AfterTicks(config, c, tracker, n) ==
    LET after[k \in 0..n] ==
          IF k = 0 THEN tracker ELSE record(config, after[k - 1], TRUE, c + k)
    IN  after[n]

\* After n more ticks the trigger holds the last ticks of the higher counter.
LEMMA TicksRecorded ==
    ASSUME NEW config, NEW window \in Nat, config.window = window, NEW c \in Nat,
           NEW tracker, tracker.times = Ticks(window, c), NEW n \in Nat
    PROVE  AfterTicks(config, c, tracker, n).times = Ticks(window, c + n)
  <1> DEFINE Tick(t, k) == record(config, t, TRUE, c + k)
             after == CHOOSE f : IsAfter(f, config, c, tracker, n)
             TimesOf(t) == t.times
             Right == {m \in Nat : m <= n => TimesOf(after[m]) = Ticks(window, c + m)}
  <1>1. \A t : \A k \in Nat : TimesOf(Tick(t, k)) = Prune(Append(TimesOf(t), c + k), c + k, window)
    BY TimesOfRecord DEF Told
  <1>2. TimesOf(tracker) = Ticks(window, c)
    OBVIOUS
  <1>3. IsAfter(after, config, c, tracker, n)
    <2> HIDE DEF TimesOf
    <2> QED  BY AfterDefined
  <1> HIDE DEF after, TimesOf
  <1>4. after = [k \in 0..n |-> IF k = 0 THEN tracker ELSE Tick(after[k - 1], k)]
    BY <1>3 DEF IsAfter
  <1> HIDE DEF Tick
  <1>5. after[0] = tracker
    BY <1>4
  <1>6. ASSUME NEW m \in Nat, m + 1 <= n
        PROVE  after[m + 1] = Tick(after[m], m + 1)
    <2>1. m + 1 \in 0..n /\ (m + 1) - 1 = m /\ m + 1 # 0
      BY <1>6
    <2> QED  BY <1>4, <2>1
  <1>7. 0 \in Right
    BY <1>2, <1>5
  <1>8. ASSUME NEW m \in Nat, m \in Right
        PROVE  m + 1 \in Right
    <2> SUFFICES ASSUME m + 1 <= n
                 PROVE  TimesOf(after[m + 1]) = Ticks(window, c + (m + 1))
      OBVIOUS
    <2>1. TimesOf(after[m]) = Ticks(window, c + m)
      BY <1>8
    <2>2. c + m \in Nat /\ c + (m + 1) = (c + m) + 1 /\ m + 1 \in Nat
      OBVIOUS
    <2>3. TimesOf(after[m + 1]) =
              Prune(Append(Ticks(window, c + m), c + (m + 1)), c + (m + 1), window)
      BY <1>1, <1>6, <2>1, <2>2
    <2> HIDE DEF Right
    <2> QED  BY <2>2, <2>3, TickPruned
  <1>9. n \in Right
    <2> HIDE DEF Right
    <2> QED  BY <1>7, <1>8, Induction
  <1> QED  BY <1>9 DEF after, IsAfter, TimesOf, AfterTicks

-------------------------------------------------------------------------------
\* The EWMA after denials in a row, and after few denials in all, in multiples
\* of the powers of alpha: 3/20, 111/400 and 3087/8000 are the EWMA of one, two
\* and three denials that came first.
Ewma(tracker) == tracker.num \in Nat /\ tracker.den \in Nat \ {0}

RowOfOne(tracker) == 20 * tracker.num >= 3 * tracker.den
RowOfTwo(tracker) == 400 * tracker.num >= 111 * tracker.den
RowOfThree(tracker) == 8000 * tracker.num >= 3087 * tracker.den

NoneInAll(tracker) == tracker.num = 0
OneInAll(tracker) == 20 * tracker.num <= 3 * tracker.den
TwoInAll(tracker) == 400 * tracker.num <= 111 * tracker.den

\* How a denial moves them.
LEMMA Denied ==
    ASSUME NEW config, NEW tracker, NEW now, Ewma(tracker)
    PROVE  LET after == record(config, tracker, TRUE, now)
           IN  /\ Ewma(after)
               /\ RowOfOne(after)
               /\ RowOfOne(tracker) => RowOfTwo(after)
               /\ RowOfTwo(tracker) => RowOfThree(after)
               /\ NoneInAll(tracker) => OneInAll(after)
               /\ OneInAll(tracker) => TwoInAll(after)
  <1> DEFINE after == record(config, tracker, TRUE, now)
  <1>1. PICK num \in Nat, den \in Nat \ {0} : tracker.num = num /\ tracker.den = den
    BY DEF Ewma
  <1>2. after.num = 3 * den + 17 * num /\ after.den = 20 * den
    BY <1>1 DEF record, AlphaNum, AlphaDen
  <1>3. 3 * den + 17 * num \in Nat /\ 20 * den \in Nat \ {0}
    OBVIOUS
  <1> HIDE DEF after
  <1>4. Ewma(after)
    BY <1>2, <1>3 DEF Ewma
  <1>5. RowOfOne(after)
    BY <1>2 DEF RowOfOne
  <1>6. RowOfOne(tracker) => RowOfTwo(after)
    BY <1>1, <1>2 DEF RowOfOne, RowOfTwo
  <1>7. RowOfTwo(tracker) => RowOfThree(after)
    BY <1>1, <1>2 DEF RowOfTwo, RowOfThree
  <1>8. NoneInAll(tracker) => OneInAll(after)
    BY <1>1, <1>2 DEF NoneInAll, OneInAll
  <1>9. OneInAll(tracker) => TwoInAll(after)
    BY <1>1, <1>2 DEF OneInAll, TwoInAll
  <1> QED  BY <1>4, <1>5, <1>6, <1>7, <1>8, <1>9 DEF after

\* A grant only lowers the EWMA.
LEMMA Granted ==
    ASSUME NEW config, NEW tracker, NEW now, Ewma(tracker)
    PROVE  LET after == record(config, tracker, FALSE, now)
           IN  /\ Ewma(after)
               /\ NoneInAll(tracker) => NoneInAll(after)
               /\ OneInAll(tracker) => OneInAll(after)
               /\ TwoInAll(tracker) => TwoInAll(after)
  <1> DEFINE after == record(config, tracker, FALSE, now)
  <1>1. PICK num \in Nat, den \in Nat \ {0} : tracker.num = num /\ tracker.den = den
    BY DEF Ewma
  <1>2. after.num = 17 * num /\ after.den = 20 * den
    BY <1>1 DEF record, AlphaNum, AlphaDen
  <1>3. 17 * num \in Nat /\ 20 * den \in Nat \ {0}
    OBVIOUS
  <1> HIDE DEF after
  <1>4. Ewma(after)
    BY <1>2, <1>3 DEF Ewma
  <1>5. NoneInAll(tracker) => NoneInAll(after)
    BY <1>1, <1>2 DEF NoneInAll
  <1>6. OneInAll(tracker) => OneInAll(after)
    BY <1>1, <1>2 DEF OneInAll
  <1>7. TwoInAll(tracker) => TwoInAll(after)
    BY <1>1, <1>2 DEF TwoInAll
  <1> QED  BY <1>4, <1>5, <1>6, <1>7 DEF after

\* Three denials in a row reach every threshold up to seven twentieths.
LEMMA ThreeReach ==
    ASSUME NEW config, NEW tracker, Ewma(tracker), RowOfThree(tracker),
           config.threshold \in 0..7
    PROVE  cumulative(config, tracker)
  <1>1. PICK num \in Nat, den \in Nat \ {0} : tracker.num = num /\ tracker.den = den
    BY DEF Ewma
  <1>2. PICK t \in 0..7 : config.threshold = t
    OBVIOUS
  <1>3. 8000 * num >= 3087 * den
    BY <1>1 DEF RowOfThree
  <1>4. 20 * num >= 7 * den
    BY <1>3
  <1>5. t = 0 \/ t = 1 \/ t = 2 \/ t = 3 \/ t = 4 \/ t = 5 \/ t = 6 \/ t = 7
    OBVIOUS
  <1>6. 20 * num >= t * den
    BY <1>4, <1>5
  <1> QED  BY <1>1, <1>2, <1>6 DEF cumulative, AlphaDen

\* Two denials in all reach no threshold from six twentieths up.
LEMMA TwoDoNotReach ==
    ASSUME NEW config, NEW tracker, Ewma(tracker), TwoInAll(tracker),
           config.threshold \in Nat, config.threshold >= 6
    PROVE  ~cumulative(config, tracker)
  <1>1. PICK num \in Nat, den \in Nat \ {0} : tracker.num = num /\ tracker.den = den
    BY DEF Ewma
  <1>2. PICK t \in Nat : config.threshold = t /\ t >= 6
    OBVIOUS
  <1>3. 400 * num <= 111 * den
    BY <1>1 DEF TwoInAll
  <1>4. 20 * num < 6 * den
    BY <1>3
  <1>5. 6 * den <= t * den
    BY <1>2
  <1>6. ~(20 * num >= t * den)
    BY <1>4, <1>5
  <1> QED  BY <1>1, <1>2, <1>6 DEF cumulative, AlphaDen

-------------------------------------------------------------------------------
\* The times from t on.
From(times, t) == {k \in DOMAIN times : times[k] >= t}

\* A set of positions in a sequence is finite, also after one more.
LEMMA PositionsFinite ==
    ASSUME NEW n \in Nat, NEW S \in SUBSET (1..n)
    PROVE  /\ IsFiniteSet(S) /\ Cardinality(S) \in Nat
           /\ Cardinality(S \cup {n + 1}) = Cardinality(S) + 1
  <1>1. IsFiniteSet(1..n)
    BY FS_Interval
  <1>2. IsFiniteSet(S) /\ Cardinality(S) \in Nat
    BY <1>1, FS_Subset, FS_CardinalityType
  <1>3. n + 1 \notin S
    OBVIOUS
  <1> QED  BY <1>2, <1>3, FS_AddElement

\* Pruning loses no time that is still in the window.
LEMMA PrunedCount ==
    ASSUME NEW told \in Seq(Nat), NEW now \in Nat, NEW window \in Nat,
           NEW t \in Int, t >= now - window
    PROVE  Cardinality(From(Prune(told, now, window), t)) = Cardinality(From(told, t))
  <1> DEFINE kept == Prune(told, now, window)
  <1>1. kept \in Seq(Nat)
    BY PrunedIs
  <1>2. PICK lo \in 1..(Len(told) + 1) :
            /\ Len(kept) = Len(told) - lo + 1
            /\ \A k \in 1..Len(kept) : kept[k] = told[lo + k - 1]
            /\ \A k \in 1..Len(told) : k < lo => now - told[k] > window
    BY PrunedIs
  <1> HIDE DEF kept
  <1>3. \A k \in 1..Len(told) : told[k] \in Nat
    OBVIOUS
  <1>4. DOMAIN kept = 1..Len(kept) /\ DOMAIN told = 1..Len(told) /\ Len(told) \in Nat /\ Len(kept) \in Nat
    BY <1>1
  <1> DEFINE A == From(told, t)
             B == From(kept, t)
             f == [k \in B |-> lo + k - 1]
  <1>5. \A k \in A : k \in 1..Len(told) /\ lo <= k /\ told[k] >= t
    <2> SUFFICES ASSUME NEW k \in 1..Len(told), told[k] >= t, k < lo
                 PROVE  FALSE
      BY <1>4 DEF From
    <2>1. now - told[k] > window
      BY <1>2
    <2> QED  BY <1>3, <2>1
  <1>6. \A k \in 1..Len(told) : told[k] >= t => k \in A
    BY <1>4 DEF From
  <1>7. \A k \in B : k \in 1..Len(kept) /\ kept[k] >= t
    BY <1>4 DEF From
  <1>8. \A k \in 1..Len(kept) : kept[k] >= t => k \in B
    BY <1>4 DEF From
  <1> HIDE DEF A, B
  <1>9. \A k \in B : lo + k - 1 \in A
    <2> SUFFICES ASSUME NEW k \in B PROVE lo + k - 1 \in A
      OBVIOUS
    <2>1. k \in 1..Len(kept) /\ kept[k] >= t /\ kept[k] = told[lo + k - 1]
      BY <1>2, <1>7
    <2>2. lo + k - 1 \in 1..Len(told)
      BY <1>2, <1>4, <2>1
    <2> QED  BY <1>6, <2>1, <2>2
  <1>10. f \in Injection(B, A)
    <2>1. f \in [B -> A]
      BY <1>9
    <2>2. \A a, b \in B : f[a] = f[b] => a = b
      BY <1>4, <1>7
    <2> QED  BY <2>1, <2>2 DEF Injection, IsInjective
  <1>11. f \in Surjection(B, A)
    <2>1. f \in [B -> A]
      BY <1>9
    <2>2. ASSUME NEW k \in A
          PROVE  \E b \in B : f[b] = k
      <3>1. k \in 1..Len(told) /\ lo <= k /\ told[k] >= t
        BY <1>5
      <3>2. k - lo + 1 \in 1..Len(kept) /\ lo + (k - lo + 1) - 1 = k
        BY <1>2, <1>4, <3>1
      <3>3. kept[k - lo + 1] = told[k]
        BY <1>2, <3>2
      <3>4. k - lo + 1 \in B
        BY <1>8, <3>1, <3>2, <3>3
      <3> QED  BY <3>2, <3>4
    <2> QED  BY <2>1, <2>2 DEF Surjection
  <1>12. ExistsBijection(B, A)
    BY <1>10, <1>11 DEF ExistsBijection, Bijection
  <1>13. IsFiniteSet(B)
    <2>1. B \in SUBSET (1..Len(kept))
      BY <1>7
    <2> QED  BY <1>4, <2>1, PositionsFinite
  <1>14. Cardinality(A) = Cardinality(B)
    BY <1>12, <1>13, FS_Bijection
  <1> QED  BY <1>14 DEF A, B, kept

\* A recorded decision counts if it was a denial that is not older than t.
LEMMA ToldCount ==
    ASSUME NEW times \in Seq(Nat), NEW denied \in BOOLEAN, NEW now \in Nat, NEW t \in Int
    PROVE  Cardinality(From(Told(times, denied, now), t)) =
               Cardinality(From(times, t)) + (IF denied /\ now >= t THEN 1 ELSE 0)
  <1> DEFINE told == Told(times, denied, now)
             A == From(times, t)
             n == Len(times)
  <1>1. /\ told \in Seq(Nat) /\ Len(told) = n + (IF denied THEN 1 ELSE 0)
        /\ \A k \in 1..n : told[k] = times[k]
        /\ denied => told[n + 1] = now
    BY ToldIs
  <1>2. DOMAIN told = 1..Len(told) /\ DOMAIN times = 1..n /\ n \in Nat
    BY <1>1
  <1>3. A \in SUBSET (1..n)
    BY <1>2 DEF From
  <1>4. Cardinality(A) \in Nat /\ Cardinality(A \cup {n + 1}) = Cardinality(A) + 1
    BY <1>2, <1>3, PositionsFinite
  <1> HIDE DEF told, n
  <1>5. From(told, t) = IF denied /\ now >= t THEN A \cup {n + 1} ELSE A
    <2>1. CASE denied
      <3>1. DOMAIN told = 1..(n + 1) /\ told[n + 1] = now
        BY <1>1, <1>2, <2>1
      <3> QED  BY <1>1, <1>2, <2>1, <3>1 DEF From
    <2>2. CASE ~denied
      BY <1>1, <1>2, <2>2 DEF From
    <2> QED  BY <2>1, <2>2
  <1> HIDE DEF A
  <1>6. CASE denied /\ now >= t
    BY <1>4, <1>5, <1>6 DEF A, told
  <1>7. CASE ~(denied /\ now >= t)
    BY <1>4, <1>5, <1>7 DEF A, told
  <1> QED  BY <1>6, <1>7

\* Recording keeps the times in order, none ahead of the clock and none older
\* than the window.
LEMMA WindowKept ==
    ASSUME NEW times \in Seq(Nat), Sorted(times), NEW denied \in BOOLEAN,
           NEW now \in Nat, \A k \in DOMAIN times : times[k] <= now, NEW window \in Nat
    PROVE  LET kept == Prune(Told(times, denied, now), now, window)
           IN  /\ kept \in Seq(Nat) /\ Sorted(kept)
               /\ \A k \in DOMAIN kept : kept[k] <= now /\ now - kept[k] <= window
  <1> DEFINE told == Told(times, denied, now)
             kept == Prune(told, now, window)
             n == Len(times)
  <1>1. /\ told \in Seq(Nat) /\ Len(told) = n + (IF denied THEN 1 ELSE 0)
        /\ \A k \in 1..n : told[k] = times[k]
        /\ denied => told[n + 1] = now
    BY ToldIs
  <1>2. DOMAIN told = 1..Len(told) /\ DOMAIN times = 1..n /\ n \in Nat
        /\ \A k \in 1..n : times[k] \in Nat
    BY <1>1
  <1> HIDE DEF told, kept, n
  <1>3. \A k \in 1..Len(told) : k \in 1..n \/ (k = n + 1 /\ told[k] = now)
    BY <1>1, <1>2
  <1>4. \A k \in 1..Len(told) : told[k] \in Nat /\ told[k] <= now
    <2> SUFFICES ASSUME NEW k \in 1..Len(told) PROVE told[k] \in Nat /\ told[k] <= now
      OBVIOUS
    <2>1. CASE k \in 1..n
      BY <1>1, <1>2, <2>1
    <2>2. CASE k = n + 1 /\ told[k] = now
      BY <2>2
    <2> QED  BY <1>3, <2>1, <2>2
  <1>5. Sorted(told)
    <2> SUFFICES ASSUME NEW j \in 1..Len(told), NEW k \in 1..Len(told), j <= k
                 PROVE  told[j] <= told[k]
      BY <1>2 DEF Sorted
    <2>1. CASE k \in 1..n
      <3>1. j \in 1..n
        BY <1>2, <2>1
      <3> QED  BY <1>1, <1>2, <2>1, <3>1 DEF Sorted
    <2>2. CASE told[k] = now
      BY <1>4, <2>2
    <2> QED  BY <1>3, <2>1, <2>2
  <1>6. kept \in Seq(Nat)
    BY <1>1, PrunedIs DEF kept
  <1>7. PICK lo \in 1..(Len(told) + 1) :
            /\ Len(kept) = Len(told) - lo + 1
            /\ \A k \in 1..Len(kept) : kept[k] = told[lo + k - 1]
            /\ \A k \in 1..Len(told) : lo <= k => now - told[k] <= window
    BY <1>1, <1>5, PrunedIs DEF kept
  <1>8. Len(told) \in Nat /\ Len(kept) \in Nat /\ DOMAIN kept = 1..Len(kept)
    BY <1>1, <1>6
  <1>9. \A k \in 1..Len(kept) : lo + k - 1 \in 1..Len(told) /\ lo <= lo + k - 1
    BY <1>7, <1>8
  <1>10. Sorted(kept)
    <2> SUFFICES ASSUME NEW j \in 1..Len(kept), NEW k \in 1..Len(kept), j <= k
                 PROVE  kept[j] <= kept[k]
      BY <1>8 DEF Sorted
    <2>1. kept[j] = told[lo + j - 1] /\ kept[k] = told[lo + k - 1] /\ lo + j - 1 <= lo + k - 1
      BY <1>7
    <2>2. told[lo + j - 1] <= told[lo + k - 1]
      BY <1>2, <1>5, <1>9, <2>1 DEF Sorted
    <2> QED  BY <2>1, <2>2
  <1>11. \A k \in 1..Len(kept) : kept[k] <= now /\ now - kept[k] <= window
    BY <1>4, <1>7, <1>9
  <1> QED  BY <1>6, <1>8, <1>10, <1>11 DEF kept, told

-------------------------------------------------------------------------------
\* The Merkle tree of Commit.tla: its root determines its leaves, how many
\* there are included, although an odd node moves up as it is.

\* f is a sequence of n things.
Tupled(f, n) == n \in Nat /\ f = [k \in 1..n |-> f[k]]

\* It is one over what it holds.
LEMMA TupledIs ==
    ASSUME NEW n, NEW f, Tupled(f, n)
    PROVE  f \in Seq({f[k] : k \in 1..n}) /\ Len(f) = n /\ DOMAIN f = 1..n
  <1>1. n \in Nat /\ f \in [1..n -> {f[k] : k \in 1..n}]
    BY DEF Tupled
  <1> QED  BY <1>1

\* So is every sequence.
LEMMA SeqTupled ==
    ASSUME NEW S, NEW s \in Seq(S)
    PROVE  Tupled(s, Len(s))
  <1>1. Len(s) \in Nat /\ DOMAIN s = 1..Len(s) /\ s = [k \in DOMAIN s |-> s[k]]
    BY LenProperties
  <1> QED  BY <1>1 DEF Tupled

\* Two of them that agree in each place are the same.
LEMMA TupledEqual ==
    ASSUME NEW n, NEW f, Tupled(f, n), NEW g, Tupled(g, n), \A k \in 1..n : f[k] = g[k]
    PROVE  f = g
  <1>1. [k \in 1..n |-> f[k]] = [k \in 1..n |-> g[k]]
    OBVIOUS
  <1> QED  BY <1>1, Zenon DEF Tupled

\* One level of the tree from the one below.
LEMMA PairedIs ==
    ASSUME NEW m, NEW level, Tupled(level, m)
    PROVE  /\ Tupled(Paired(level), (m + 1) \div 2)
           /\ \A k \in 1..((m + 1) \div 2) :
                 Paired(level)[k] = IF 2 * k <= m THEN Node(level[2 * k - 1], level[2 * k])
                                    ELSE level[m]
  <1> DEFINE h == m \div 2
             A == [k \in 1..h |-> Node(level[2 * k - 1], level[2 * k])]
             B == IF m % 2 = 1 THEN <<level[m]>> ELSE <<>>
             S == {A[k] : k \in 1..h} \cup {level[m]}
  <1>1. m \in Nat /\ Len(level) = m
    BY TupledIs DEF Tupled
  <1>2. h \in Nat /\ m = 2 * h + (m % 2) /\ m % 2 \in {0, 1} /\ (m + 1) \div 2 = h + (m % 2)
    BY <1>1
  <1>3. Paired(level) = A \o B
    BY <1>1 DEF Paired, Last
  <1>4. A \in Seq(S) /\ Len(A) = h
    <2>1. \A k \in 1..h : A[k] \in S
      OBVIOUS
    <2>2. A = [k \in 1..h |-> A[k]]
      OBVIOUS
    <2> HIDE DEF A
    <2>3. A \in [1..h -> S]
      BY <2>1, <2>2
    <2> QED  BY <1>2, <2>3
  <1>5. B \in Seq(S) /\ Len(B) = m % 2 /\ (m % 2 = 1 => B[1] = level[m])
    <2>1. level[m] \in S
      OBVIOUS
    <2> HIDE DEF S
    <2> QED  BY <1>2, <2>1
  <1>6. \A k \in 1..h : A[k] = Node(level[2 * k - 1], level[2 * k])
    OBVIOUS
  <1> HIDE DEF A, B, S, h
  <1>7. /\ A \o B \in Seq(S) /\ Len(A \o B) = h + (m % 2)
        /\ \A k \in 1..(h + (m % 2)) : (A \o B)[k] = IF k <= h THEN A[k] ELSE B[k - h]
    <2>1. /\ A \o B \in Seq(S) /\ Len(A \o B) = Len(A) + Len(B)
          /\ \A k \in 1..(Len(A) + Len(B)) :
                (A \o B)[k] = IF k <= Len(A) THEN A[k] ELSE B[k - Len(A)]
      BY <1>4, <1>5, ConcatProperties
    <2>2. Len(A) = h /\ Len(B) = m % 2
      BY <1>4, <1>5
    <2>3. Len(A \o B) = h + (m % 2)
      BY <2>1, <2>2
    <2>4. ASSUME NEW k \in 1..(h + (m % 2))
          PROVE  (A \o B)[k] = IF k <= h THEN A[k] ELSE B[k - h]
      <3>1. k \in 1..(Len(A) + Len(B))
        BY <2>2
      <3>2. (A \o B)[k] = IF k <= Len(A) THEN A[k] ELSE B[k - Len(A)]
        BY <2>1, <3>1
      <3> QED  BY <2>2, <3>2
    <2> QED  BY <2>1, <2>3, <2>4
  <1>8. Tupled(A \o B, h + (m % 2))
    <2>1. Tupled(A \o B, Len(A \o B))
      BY <1>7, SeqTupled
    <2> QED  BY <1>7, <2>1
  <1>9. ASSUME NEW k \in 1..(h + (m % 2))
        PROVE  (A \o B)[k] = IF 2 * k <= m THEN Node(level[2 * k - 1], level[2 * k]) ELSE level[m]
    <2>1. CASE k <= h
      <3>1. 2 * k <= m
        BY <1>2, <2>1
      <3>2. k \in 1..h
        BY <1>2, <2>1
      <3> QED  BY <1>6, <1>7, <2>1, <3>1, <3>2
    <2>2. CASE ~(k <= h)
      <3>1. ~(2 * k <= m) /\ m % 2 = 1 /\ k - h = 1
        BY <1>2, <2>2
      <3> QED  BY <1>5, <1>7, <2>2, <3>1
    <2> QED  BY <2>1, <2>2
  <1> QED  BY <1>2, <1>3, <1>8, <1>9

\* A level of one node repeats itself.
LEMMA PairedOne ==
    ASSUME NEW level, Tupled(level, 1)
    PROVE  Paired(level) = level
  <1>1. (1 + 1) \div 2 = 1 /\ ~(2 * 1 <= 1)
    OBVIOUS
  <1>2. Tupled(Paired(level), 1) /\ \A k \in 1..1 : Paired(level)[k] = level[1]
    BY <1>1, PairedIs
  <1>3. \A k \in 1..1 : Paired(level)[k] = level[k]
    BY <1>2
  <1> QED  BY <1>2, <1>3, TupledEqual

\* Nodes and leaves are hashed in domains of their own, and determine what
\* they were hashed from.
LEMMA DigestsApart ==
    ASSUME NEW a, NEW b, NEW c, NEW d, NEW x, NEW y
    PROVE  /\ Node(a, b) = Node(c, d) => a = c /\ b = d
           /\ Leaf(x) = Leaf(y) => x = y
           /\ Node(a, b) # Leaf(x) /\ Node(a, b) # ZERO_DIGEST /\ Leaf(x) # ZERO_DIGEST
  BY DEF Node, Leaf, commit, ZERO_DIGEST

\* Going down the left, t is d nodes above a leaf.
IsSpine(spine, t, d) ==
    /\ spine[0] = t
    /\ \A k \in Nat : k < d => \E r : spine[k] = Node(spine[k + 1], r)
    /\ \E x : spine[d] = Leaf(x)
HasDepth(t, d) == d \in Nat /\ \E spine : IsSpine(spine, t, d)

\* A digest has at most one depth.
LEMMA DepthUnique ==
    ASSUME NEW t, NEW d, HasDepth(t, d), NEW e, HasDepth(t, e)
    PROVE  d = e
  <1>1. PICK s : d \in Nat /\ IsSpine(s, t, d)
    BY DEF HasDepth
  <1>2. PICK u : e \in Nat /\ IsSpine(u, t, e)
    BY DEF HasDepth
  <1> DEFINE Same == {k \in Nat : k <= d /\ k <= e => s[k] = u[k]}
  <1>3. 0 \in Same
    BY <1>1, <1>2 DEF IsSpine
  <1>4. ASSUME NEW k \in Nat, k \in Same
        PROVE  k + 1 \in Same
    <2> SUFFICES ASSUME k + 1 <= d, k + 1 <= e
                 PROVE  s[k + 1] = u[k + 1]
      OBVIOUS
    <2>1. k < d /\ k < e /\ s[k] = u[k]
      BY <1>1, <1>2, <1>4
    <2>2. PICK r : s[k] = Node(s[k + 1], r)
      BY <1>1, <2>1 DEF IsSpine
    <2>3. PICK q : u[k] = Node(u[k + 1], q)
      BY <1>2, <2>1 DEF IsSpine
    <2>4. Node(s[k + 1], r) = Node(u[k + 1], q)
      BY <2>1, <2>2, <2>3
    <2> QED  BY <2>4, DigestsApart
  <1> HIDE DEF Same
  <1>5. Nat \subseteq Same
    BY <1>3, <1>4, Induction
  <1>6. ~(d < e)
    <2> SUFFICES ASSUME d < e
                 PROVE  FALSE
      OBVIOUS
    <2>1. s[d] = u[d]
      BY <1>1, <1>2, <1>5 DEF Same
    <2>2. PICK x : s[d] = Leaf(x)
      BY <1>1 DEF IsSpine
    <2>3. PICK r : u[d] = Node(u[d + 1], r)
      BY <1>1, <1>2 DEF IsSpine
    <2>4. Node(u[d + 1], r) = Leaf(x)
      BY <2>1, <2>2, <2>3
    <2> QED  BY <2>4, DigestsApart
  <1>7. ~(e < d)
    <2> SUFFICES ASSUME e < d
                 PROVE  FALSE
      OBVIOUS
    <2>1. s[e] = u[e]
      BY <1>1, <1>2, <1>5 DEF Same
    <2>2. PICK x : u[e] = Leaf(x)
      BY <1>2 DEF IsSpine
    <2>3. PICK r : s[e] = Node(s[e + 1], r)
      BY <1>1, <1>2 DEF IsSpine
    <2>4. Node(s[e + 1], r) = Leaf(x)
      BY <2>1, <2>2, <2>3
    <2> QED  BY <2>4, DigestsApart
  <1> QED  BY <1>1, <1>2, <1>6, <1>7

\* A leaf is at depth 0, a node one above its left half.
LEMMA DepthOf ==
    /\ \A x : HasDepth(Leaf(x), 0)
    /\ \A t, r, d : HasDepth(t, d) => HasDepth(Node(t, r), d + 1)
  <1>1. ASSUME NEW x
        PROVE  HasDepth(Leaf(x), 0)
    <2> DEFINE s == [k \in {0} |-> Leaf(x)]
    <2>1. s[0] = Leaf(x)
      OBVIOUS
    <2>2. IsSpine(s, Leaf(x), 0)
      <3> HIDE DEF s
      <3> QED  BY <2>1 DEF IsSpine
    <2> QED  BY <2>2 DEF HasDepth
  <1>2. ASSUME NEW t, NEW r, NEW d, HasDepth(t, d)
        PROVE  HasDepth(Node(t, r), d + 1)
    <2>1. PICK s : d \in Nat /\ IsSpine(s, t, d)
      BY <1>2 DEF HasDepth
    <2> DEFINE u == [k \in Nat |-> IF k = 0 THEN Node(t, r) ELSE s[k - 1]]
    <2>2. u[0] = Node(t, r) /\ \A k \in Nat : u[k + 1] = s[k]
      <3>1. \A k \in Nat : k + 1 \in Nat /\ k + 1 # 0 /\ (k + 1) - 1 = k
        OBVIOUS
      <3> QED  BY <3>1
    <2> HIDE DEF u
    <2>3. \A k \in Nat : k < d + 1 => \E q : u[k] = Node(u[k + 1], q)
      <3> SUFFICES ASSUME NEW k \in Nat, k < d + 1
                   PROVE  \E q : u[k] = Node(u[k + 1], q)
        OBVIOUS
      <3>1. CASE k = 0
        <4>1. u[0 + 1] = t
          BY <2>1, <2>2 DEF IsSpine
        <4>2. u[k] = Node(u[k + 1], r)
          BY <2>2, <3>1, <4>1
        <4> QED  BY <4>2
      <3>2. CASE k # 0
        <4>1. k - 1 \in Nat /\ k - 1 < d /\ (k - 1) + 1 = k
          BY <2>1, <3>2
        <4>2. PICK q : s[k - 1] = Node(s[(k - 1) + 1], q)
          BY <2>1, <4>1 DEF IsSpine
        <4>3. u[k] = s[k - 1] /\ u[k + 1] = s[k]
          BY <2>2, <4>1
        <4> QED  BY <4>1, <4>2, <4>3
      <3> QED  BY <3>1, <3>2
    <2>4. \E x : u[d + 1] = Leaf(x)
      BY <2>1, <2>2 DEF IsSpine
    <2>5. IsSpine(u, Node(t, r), d + 1)
      BY <2>2, <2>3, <2>4 DEF IsSpine
    <2> QED  BY <2>1, <2>5 DEF HasDepth
  <1> QED  BY <1>1, <1>2, Zenon

\* A level of m nodes, h levels above the leaves: only the last node may have
\* moved up, and be less deep.
Shaped(level, m, h) ==
    /\ Tupled(level, m) /\ m > 0
    /\ \A k \in 1..m : k < m => HasDepth(level[k], h)
    /\ \E d \in 0..h : HasDepth(level[m], d)

\* Pairing keeps the shape.
LEMMA PairedShaped ==
    ASSUME NEW level, NEW m, NEW h \in Nat, Shaped(level, m, h)
    PROVE  Shaped(Paired(level), (m + 1) \div 2, h + 1)
  <1> DEFINE w == (m + 1) \div 2
             up == Paired(level)
  <1>1. m \in Nat /\ m > 0 /\ Tupled(level, m)
    BY DEF Shaped, Tupled
  <1>2. w \in Nat /\ w > 0 /\ 2 * w \in {m, m + 1}
    BY <1>1
  <1>3. /\ Tupled(up, w)
        /\ \A k \in 1..w : up[k] = IF 2 * k <= m THEN Node(level[2 * k - 1], level[2 * k])
                                   ELSE level[m]
    BY <1>1, PairedIs
  <1> HIDE DEF up, w
  <1>4. ASSUME NEW k \in 1..w, 2 * k <= m
        PROVE  HasDepth(up[k], h + 1)
    <2>1. HasDepth(level[2 * k - 1], h)
      <3>1. 2 * k - 1 \in 1..m /\ 2 * k - 1 < m
        BY <1>1, <1>2, <1>4
      <3> QED  BY <3>1 DEF Shaped
    <2>2. up[k] = Node(level[2 * k - 1], level[2 * k])
      BY <1>3, <1>4
    <2> QED  BY <2>1, <2>2, DepthOf
  <1>5. ASSUME NEW k \in 1..w, k < w
        PROVE  HasDepth(up[k], h + 1)
    <2>1. 2 * k <= m
      BY <1>1, <1>2, <1>5
    <2> QED  BY <1>4, <2>1
  <1>6. \E d \in 0..(h + 1) : HasDepth(up[w], d)
    <2>1. w \in 1..w
      BY <1>2
    <2>2. CASE 2 * w <= m
      BY <1>4, <2>1, <2>2
    <2>3. CASE ~(2 * w <= m)
      <3>1. up[w] = level[m]
        BY <1>3, <2>1, <2>3
      <3>2. PICK d \in 0..h : HasDepth(level[m], d)
        BY DEF Shaped
      <3>3. d \in 0..(h + 1)
        OBVIOUS
      <3> QED  BY <3>1, <3>2, <3>3
    <2> QED  BY <2>2, <2>3
  <1>7. Shaped(up, w, h + 1)
    BY <1>2, <1>3, <1>5, <1>6 DEF Shaped
  <1> QED  BY <1>7 DEF up, w

\* Whether the last node moved up shows in its depth.
LEMMA PairedLast ==
    ASSUME NEW level, NEW m, NEW h \in Nat, Shaped(level, m, h),
           NEW w, w = (m + 1) \div 2
    PROVE  m = IF HasDepth(Paired(level)[w], h + 1) THEN 2 * w ELSE 2 * w - 1
  <1>1. m \in Nat /\ m > 0 /\ Tupled(level, m)
    BY DEF Shaped, Tupled
  <1>2. w \in Nat /\ w \in 1..w /\ (m = 2 * w \/ m = 2 * w - 1)
    BY <1>1
  <1>3. Paired(level)[w] = IF 2 * w <= m THEN Node(level[2 * w - 1], level[2 * w]) ELSE level[m]
    BY <1>1, <1>2, PairedIs
  <1>4. CASE m = 2 * w
    <2>1. HasDepth(level[2 * w - 1], h)
      <3>1. 2 * w - 1 \in 1..m /\ 2 * w - 1 < m
        BY <1>1, <1>2, <1>4
      <3> QED  BY <3>1 DEF Shaped
    <2>2. Paired(level)[w] = Node(level[2 * w - 1], level[2 * w])
      BY <1>2, <1>3, <1>4
    <2>3. HasDepth(Paired(level)[w], h + 1)
      BY <2>1, <2>2, DepthOf
    <2> QED  BY <1>4, <2>3
  <1>5. CASE m = 2 * w - 1
    <2>1. Paired(level)[w] = level[m]
      BY <1>2, <1>3, <1>5
    <2>2. PICK d \in 0..h : HasDepth(level[m], d)
      BY DEF Shaped
    <2>3. ~HasDepth(Paired(level)[w], h + 1)
      <3> SUFFICES ASSUME HasDepth(Paired(level)[w], h + 1)
                   PROVE  FALSE
        OBVIOUS
      <3>1. HasDepth(level[m], h + 1)
        BY <2>1
      <3>2. d = h + 1
        BY <2>2, <3>1, DepthUnique
      <3> QED  BY <3>2
    <2> QED  BY <1>5, <2>3
  <1> QED  BY <1>2, <1>4, <1>5

\* A level determines the level below it.
LEMMA PairedInjective ==
    ASSUME NEW h \in Nat, NEW a, NEW m, Shaped(a, m, h), NEW b, NEW n, Shaped(b, n, h),
           Paired(a) = Paired(b)
    PROVE  a = b
  <1> DEFINE w == (m + 1) \div 2
             v == (n + 1) \div 2
  <1>1. m \in Nat /\ Tupled(a, m) /\ n \in Nat /\ Tupled(b, n)
    BY DEF Shaped, Tupled
  <1>2. /\ Tupled(Paired(a), w)
        /\ \A k \in 1..w : Paired(a)[k] = IF 2 * k <= m THEN Node(a[2 * k - 1], a[2 * k]) ELSE a[m]
    BY <1>1, PairedIs
  <1>3. /\ Tupled(Paired(b), v)
        /\ \A k \in 1..v : Paired(b)[k] = IF 2 * k <= n THEN Node(b[2 * k - 1], b[2 * k]) ELSE b[n]
    BY <1>1, PairedIs
  <1>4. w = v
    <2> HIDE DEF w, v
    <2>1. Len(Paired(a)) = w /\ Len(Paired(b)) = v
      BY <1>2, <1>3, TupledIs
    <2> QED  BY <2>1
  <1>5. m = IF HasDepth(Paired(a)[w], h + 1) THEN 2 * w ELSE 2 * w - 1
    BY PairedLast
  <1>6. n = IF HasDepth(Paired(b)[v], h + 1) THEN 2 * v ELSE 2 * v - 1
    BY PairedLast
  <1>7. m = n
    <2> HIDE DEF w, v
    <2> QED  BY <1>4, <1>5, <1>6
  <1>8. ASSUME NEW k \in 1..m
        PROVE  a[k] = b[k]
    <2> DEFINE j == (k + 1) \div 2
    <2>1. j \in 1..w /\ (k = 2 * j - 1 \/ k = 2 * j) /\ (~(2 * j <= m) => k = m)
      BY <1>1
    <2> HIDE DEF j, w, v
    <2>2. CASE 2 * j <= m
      <3>1. Node(a[2 * j - 1], a[2 * j]) = Node(b[2 * j - 1], b[2 * j])
        BY <1>2, <1>3, <1>4, <1>7, <2>1, <2>2
      <3>2. a[2 * j - 1] = b[2 * j - 1] /\ a[2 * j] = b[2 * j]
        BY <3>1, DigestsApart
      <3> QED  BY <2>1, <3>2
    <2>3. CASE ~(2 * j <= m)
      BY <1>2, <1>3, <1>4, <1>7, <2>1, <2>3
    <2> QED  BY <2>2, <2>3
  <1> QED  BY <1>1, <1>7, <1>8, TupledEqual

\* What a level of one choice chooses.
LEMMA OnlyPaired ==
    ASSUME NEW x
    PROVE  (CHOOSE next \in {Paired(below) : below \in {x}} : TRUE) = Paired(x)
  <1>1. \A y \in {Paired(below) : below \in {x}} : y = Paired(x)
    OBVIOUS
  <1>2. \E y \in {Paired(below) : below \in {x}} : TRUE
    OBVIOUS
  <1> QED  BY <1>1, <1>2

\* The levels of the tree, from the leaves up.
LEMMA LevelsAre ==
    ASSUME NEW leaves, NEW n, Tupled(leaves, n)
    PROVE  /\ Levels(leaves)[0] = [k \in 1..n |-> Leaf(<<leaves[k]>>)]
           /\ \A h \in Nat : h < n => Levels(leaves)[h + 1] = Paired(Levels(leaves)[h])
  <1> DEFINE of == [kind |-> "level"]
             first == [k \in 1..Len(leaves) |-> Leaf(<<leaves[k]>>)]
             Is(f) == f = [h \in 0..Len(leaves) |->
                              IF h = 0 THEN first
                              ELSE CHOOSE next \in {Paired(below) : below \in {f[h - 1]}} : TRUE]
             level == CHOOSE f : Is(f)
  <1>1. n \in Nat /\ Len(leaves) = n
    BY TupledIs DEF Tupled
  <1>2. \A x, k : Following(of, x, k) = CHOOSE next \in {Paired(below) : below \in {x}} : TRUE
    <2>1. \A x, k : Following(of, x, k) = Paired(x)
      BY DEF Following
    <2> QED  BY <2>1, OnlyPaired
  <1>3. Levels(leaves) = level
    BY DEF Levels
  <1> HIDE DEF of
  <1>4. Is(level)
    <2> HIDE DEF first
    <2>1. PICK f : IsChain(f, of, first, Len(leaves))
      BY <1>1, ChainExists
    <2>2. [h \in 0..Len(leaves) |-> IF h = 0 THEN first ELSE Following(of, f[h - 1], h)] =
          [h \in 0..Len(leaves) |->
              IF h = 0 THEN first
              ELSE CHOOSE next \in {Paired(below) : below \in {f[h - 1]}} : TRUE]
      BY <1>2, Zenon
    <2>3. Is(f)
      BY <2>1, <2>2, Zenon DEF IsChain
    <2> HIDE DEF Is
    <2> QED  BY <2>3
  <1> HIDE DEF level
  <1>5. \A h \in 0..Len(leaves) : level[h] = IF h = 0 THEN first ELSE Paired(level[h - 1])
    <2> HIDE DEF first
    <2> QED  BY <1>4, OnlyPaired
  <1>6. level[0] = first
    <2> HIDE DEF first
    <2> QED  BY <1>1, <1>5
  <1>7. ASSUME NEW h \in Nat, h < n
        PROVE  level[h + 1] = Paired(level[h])
    <2> HIDE DEF first
    <2>1. h + 1 \in 0..Len(leaves) /\ h + 1 # 0 /\ (h + 1) - 1 = h
      BY <1>1, <1>7
    <2> QED  BY <1>5, <2>1
  <1> QED  BY <1>1, <1>3, <1>6, <1>7

\* Each of them has the shape of its height, and there are enough to reach a
\* single node.
LEMMA LevelsShaped ==
    ASSUME NEW leaves, NEW n, Tupled(leaves, n), n > 0, NEW h \in 0..n
    PROVE  \E m : Shaped(Levels(leaves)[h], m, h) /\ (m = 1 \/ m <= n - h)
  <1> DEFINE level == Levels(leaves)
             Right == {k \in Nat : k <= n => \E m : Shaped(level[k], m, k) /\ (m = 1 \/ m <= n - k)}
  <1>1. n \in Nat
    BY DEF Tupled
  <1>2. /\ level[0] = [k \in 1..n |-> Leaf(<<leaves[k]>>)]
        /\ \A k \in Nat : k < n => level[k + 1] = Paired(level[k])
    BY LevelsAre
  <1> HIDE DEF level
  <1>3. 0 \in Right
    <2>1. level[0] = [k \in 1..n |-> level[0][k]]
      BY <1>2
    <2>2. \A k \in 1..n : HasDepth(level[0][k], 0)
      BY <1>2, DepthOf
    <2>3. n \in 1..n /\ 0 \in 0..0
      BY <1>1
    <2>4. Shaped(level[0], n, 0)
      BY <1>1, <2>1, <2>2, <2>3 DEF Shaped, Tupled
    <2>5. n <= n - 0
      BY <1>1
    <2> QED  BY <2>4, <2>5
  <1>4. ASSUME NEW k \in Nat, k \in Right
        PROVE  k + 1 \in Right
    <2> SUFFICES ASSUME k + 1 <= n
                 PROVE  \E m : Shaped(level[k + 1], m, k + 1) /\ (m = 1 \/ m <= n - (k + 1))
      OBVIOUS
    <2>1. k < n
      BY <1>1
    <2>2. PICK m : Shaped(level[k], m, k) /\ (m = 1 \/ m <= n - k)
      BY <1>1, <1>4, <2>1
    <2>3. Shaped(level[k + 1], (m + 1) \div 2, k + 1)
      BY <1>2, <2>1, <2>2, PairedShaped
    <2>4. m \in Nat /\ m > 0
      BY <2>2 DEF Shaped, Tupled
    <2>5. (m + 1) \div 2 = 1 \/ (m + 1) \div 2 <= n - (k + 1)
      BY <1>1, <2>1, <2>2, <2>4
    <2> QED  BY <2>3, <2>5
  <1> HIDE DEF Right
  <1>5. h \in Right
    BY <1>1, <1>3, <1>4, Induction
  <1> QED  BY <1>1, <1>5 DEF Right, level

\* The root is the node of the first level that has only one, and as deep as
\* that level is high.
LEMMA RootIs ==
    ASSUME NEW leaves, NEW n, Tupled(leaves, n), n > 0
    PROVE  \E h \in 0..n : /\ HasDepth(merkle_root(leaves), h)
                           /\ Tupled(Levels(leaves)[h], 1)
                           /\ Levels(leaves)[h][1] = merkle_root(leaves)
  <1> DEFINE level == Levels(leaves)
             Single == {k \in 0..n : Shaped(level[k], 1, k)}
             h == Min(Single)
  <1>1. n \in Nat /\ Len(leaves) = n
    BY TupledIs DEF Tupled
  <1>2. \A k \in Nat : k < n => level[k + 1] = Paired(level[k])
    BY LevelsAre
  <1>3. merkle_root(leaves) = level[n][1]
    <2>1. leaves # <<>>
      BY <1>1
    <2> QED  BY <1>1, <2>1 DEF merkle_root
  <1>4. \A k \in 0..n : \E m : Shaped(level[k], m, k) /\ (m = 1 \/ m <= n - k)
    BY LevelsShaped
  <1> HIDE DEF level
  <1>5. h \in Single /\ \A k \in Single : h <= k
    <2>1. PICK m : Shaped(level[n], m, n) /\ (m = 1 \/ m <= n - n)
      BY <1>1, <1>4
    <2>2. m \in Nat /\ m > 0
      BY <2>1 DEF Shaped, Tupled
    <2>3. m = 1
      BY <1>1, <2>1, <2>2
    <2>4. n \in Single
      BY <1>1, <2>1, <2>3
    <2>5. Single \in SUBSET Nat /\ Single # {}
      BY <1>1, <2>4
    <2> HIDE DEF Single
    <2> QED  BY <2>5, HasLeast
  <1> HIDE DEF h
  <1>6. h \in 0..n /\ h \in Nat /\ Shaped(level[h], 1, h)
    BY <1>1, <1>5
  <1>7. Tupled(level[h], 1)
    BY <1>6 DEF Shaped
  <1>8. level[n] = level[h]
    <2> DEFINE Settled == {k \in Nat : h + k <= n => level[h + k] = level[h]}
    <2>1. 0 \in Settled
      BY <1>6
    <2>2. ASSUME NEW k \in Nat, k \in Settled
          PROVE  k + 1 \in Settled
      <3> SUFFICES ASSUME h + (k + 1) <= n
                   PROVE  level[h + (k + 1)] = level[h]
        OBVIOUS
      <3>1. h + k \in Nat /\ h + k < n /\ (h + k) + 1 = h + (k + 1)
        BY <1>1, <1>6
      <3>2. level[h + k] = level[h]
        BY <1>1, <1>6, <2>2, <3>1
      <3>3. level[(h + k) + 1] = Paired(level[h + k])
        BY <1>2, <3>1
      <3>4. Paired(level[h]) = level[h]
        BY <1>7, PairedOne
      <3> QED  BY <3>1, <3>2, <3>3, <3>4
    <2>3. n - h \in Nat /\ h + (n - h) = n
      BY <1>1, <1>6
    <2> HIDE DEF Settled
    <2>4. n - h \in Settled
      BY <2>1, <2>2, <2>3, Induction
    <2> QED  BY <1>1, <2>3, <2>4 DEF Settled
  <1>9. HasDepth(level[h][1], h)
    <2>1. CASE h = 0
      <3>1. PICK d \in 0..h : HasDepth(level[h][1], d)
        BY <1>6 DEF Shaped
      <3> QED  BY <2>1, <3>1
    <2>2. CASE h # 0
      <3>1. h - 1 \in 0..n /\ h - 1 \in Nat /\ h - 1 < n /\ (h - 1) + 1 = h
        BY <1>1, <1>6, <2>2
      <3>2. PICK m : Shaped(level[h - 1], m, h - 1)
        BY <1>4, <3>1
      <3>3. m \in Nat /\ m > 0 /\ Tupled(level[h - 1], m)
        BY <3>2 DEF Shaped, Tupled
      <3>4. m # 1
        BY <1>5, <1>6, <3>1, <3>2
      <3>5. level[h] = Paired(level[h - 1])
        BY <1>2, <3>1
      <3>6. /\ Tupled(level[h], (m + 1) \div 2)
            /\ \A k \in 1..((m + 1) \div 2) :
                  level[h][k] = IF 2 * k <= m THEN Node(level[h - 1][2 * k - 1], level[h - 1][2 * k])
                                ELSE level[h - 1][m]
        BY <3>3, <3>5, PairedIs
      <3>7. 1 \in 1..((m + 1) \div 2) /\ 2 * 1 <= m /\ 2 * 1 - 1 = 1 /\ 1 \in 1..m /\ 1 < m
        BY <3>3, <3>4
      <3>8. level[h][1] = Node(level[h - 1][1], level[h - 1][2 * 1])
        BY <3>6, <3>7
      <3>9. HasDepth(level[h - 1][1], h - 1)
        BY <3>2, <3>7 DEF Shaped
      <3> QED  BY <3>1, <3>8, <3>9, DepthOf
    <2> QED  BY <2>1, <2>2
  <1>10. merkle_root(leaves) = level[h][1]
    BY <1>3, <1>8
  <1> QED  BY <1>6, <1>7, <1>9, <1>10 DEF level

\* The root determines the leaves.
THEOREM RootInjective ==
    ASSUME NEW a, NEW m, Tupled(a, m), NEW b, NEW n, Tupled(b, n),
           merkle_root(a) = merkle_root(b)
    PROVE  a = b
  <1>1. m \in Nat /\ n \in Nat /\ Len(a) = m /\ Len(b) = n
    BY TupledIs DEF Tupled
  <1>2. \A f : Tupled(f, 0) => f = <<>> /\ merkle_root(f) = ZERO_DIGEST
    <2>1. \A f : Tupled(f, 0) => f = <<>>
      BY DEF Tupled
    <2> QED  BY <2>1 DEF merkle_root
  <1>3. ASSUME NEW f, NEW k, Tupled(f, k), k > 0
        PROVE  merkle_root(f) # ZERO_DIGEST
    <2>1. PICK h \in 0..k : HasDepth(merkle_root(f), h)
      BY <1>3, RootIs
    <2>2. PICK s : IsSpine(s, merkle_root(f), h)
      BY <2>1 DEF HasDepth
    <2>3. k \in Nat /\ h \in Nat
      BY <1>3, <2>1 DEF HasDepth, Tupled
    <2>4. CASE h = 0
      <3>1. PICK x : s[h] = Leaf(x)
        BY <2>2 DEF IsSpine
      <3>2. merkle_root(f) = Leaf(x)
        BY <2>2, <2>4, <3>1 DEF IsSpine
      <3> QED  BY <3>2, DigestsApart
    <2>5. CASE h # 0
      <3>1. PICK r : s[0] = Node(s[0 + 1], r)
        BY <2>2, <2>3, <2>5 DEF IsSpine
      <3>2. merkle_root(f) = Node(s[0 + 1], r)
        BY <2>2, <3>1 DEF IsSpine
      <3> QED  BY <3>2, DigestsApart
    <2> QED  BY <2>4, <2>5
  <1>4. CASE m = 0 \/ n = 0
    <2>1. m = 0 /\ n = 0
      BY <1>1, <1>2, <1>3, <1>4
    <2> QED  BY <1>2, <2>1
  <1>5. CASE m # 0 /\ n # 0
    <2>1. m > 0 /\ n > 0
      BY <1>1, <1>5
    <2>2. PICK h \in 0..m : /\ HasDepth(merkle_root(a), h)
                            /\ Tupled(Levels(a)[h], 1)
                            /\ Levels(a)[h][1] = merkle_root(a)
      BY <2>1, RootIs
    <2>3. PICK g \in 0..n : /\ HasDepth(merkle_root(b), g)
                            /\ Tupled(Levels(b)[g], 1)
                            /\ Levels(b)[g][1] = merkle_root(b)
      BY <2>1, RootIs
    <2>4. g = h
      BY <2>2, <2>3, DepthUnique
    <2>5. Levels(a)[h] = Levels(b)[h]
      <3>1. \A k \in 1..1 : Levels(a)[h][k] = Levels(b)[h][k]
        BY <2>2, <2>3, <2>4
      <3> QED  BY <2>2, <2>3, <2>4, <3>1, TupledEqual
    <2>6. Levels(a)[0] = Levels(b)[0]
      <3> DEFINE Same == {k \in Nat : k <= h => Levels(a)[h - k] = Levels(b)[h - k]}
      <3>1. 0 \in Same
        <4>1. h - 0 = h
          BY <1>1, <2>2
        <4> QED  BY <2>5, <4>1
      <3>2. ASSUME NEW k \in Nat, k \in Same
            PROVE  k + 1 \in Same
        <4> DEFINE l == h - (k + 1)
        <4> SUFFICES ASSUME k + 1 <= h
                     PROVE  Levels(a)[l] = Levels(b)[l]
          OBVIOUS
        <4>1. l \in 0..m /\ l \in 0..n /\ l \in Nat /\ l < m /\ l < n /\ l + 1 = h - k
          BY <1>1, <2>2, <2>3, <2>4
        <4> HIDE DEF l
        <4>2. Levels(a)[l + 1] = Levels(b)[l + 1]
          BY <3>2, <4>1
        <4>3. Levels(a)[l + 1] = Paired(Levels(a)[l])
          BY <4>1, LevelsAre
        <4>4. Levels(b)[l + 1] = Paired(Levels(b)[l])
          BY <4>1, LevelsAre
        <4>5. PICK p : Shaped(Levels(a)[l], p, l)
          BY <2>1, <4>1, LevelsShaped
        <4>6. PICK q : Shaped(Levels(b)[l], q, l)
          BY <2>1, <4>1, LevelsShaped
        <4> QED  BY <4>1, <4>2, <4>3, <4>4, <4>5, <4>6, PairedInjective
      <3>3. h \in Nat /\ h - h = 0
        BY <1>1
      <3> HIDE DEF Same
      <3>4. h \in Same
        BY <3>1, <3>2, <3>3, Induction
      <3> QED  BY <3>3, <3>4 DEF Same
    <2>7. [k \in 1..m |-> Leaf(<<a[k]>>)] = [k \in 1..n |-> Leaf(<<b[k]>>)]
      <3>1. Levels(a)[0] = [k \in 1..m |-> Leaf(<<a[k]>>)]
        BY LevelsAre
      <3>2. Levels(b)[0] = [k \in 1..n |-> Leaf(<<b[k]>>)]
        BY LevelsAre
      <3> QED  BY <2>6, <3>1, <3>2
    <2>8. m = n
      <3> DEFINE bottomA == [k \in 1..m |-> Leaf(<<a[k]>>)]
                 bottomB == [k \in 1..n |-> Leaf(<<b[k]>>)]
      <3>1. Tupled(bottomA, m) /\ Tupled(bottomB, n)
        BY <1>1 DEF Tupled
      <3>2. bottomA = bottomB
        BY <2>7
      <3> HIDE DEF bottomA, bottomB
      <3>3. Len(bottomA) = m /\ Len(bottomB) = n
        BY <3>1, TupledIs
      <3> QED  BY <3>2, <3>3
    <2>9. ASSUME NEW k \in 1..m
          PROVE  a[k] = b[k]
      <3>1. Leaf(<<a[k]>>) = Leaf(<<b[k]>>)
        BY <2>7, <2>8
      <3>2. <<a[k]>> = <<b[k]>>
        BY <3>1, DigestsApart
      <3> QED  BY <3>2
    <2> QED  BY <2>8, <2>9, TupledEqual
  <1> QED  BY <1>4, <1>5

-------------------------------------------------------------------------------
\* Sequences of anything.

\* One more at the end.
Extends(g, f, n, x) == Tupled(g, n + 1) /\ (\A k \in 1..n : g[k] = f[k]) /\ g[n + 1] = x

\* Appending does that.
LEMMA TupledAppend ==
    ASSUME NEW f, NEW n, Tupled(f, n), NEW x
    PROVE  Extends(Append(f, x), f, n, x)
  <1> DEFINE S == {f[k] : k \in 1..n} \cup {x}
  <1>1. n \in Nat /\ f \in Seq(S) /\ Len(f) = n /\ x \in S
    <2>1. f \in Seq({f[k] : k \in 1..n}) /\ Len(f) = n /\ n \in Nat
      BY TupledIs DEF Tupled
    <2>2. {f[k] : k \in 1..n} \subseteq S
      OBVIOUS
    <2> HIDE DEF S
    <2>3. f \in Seq(S)
      BY <2>1, <2>2, SeqMonotonic
    <2> QED  BY <2>1, <2>3 DEF S
  <1> HIDE DEF S
  <1>2. /\ Append(f, x) \in Seq(S) /\ Len(Append(f, x)) = n + 1
        /\ \A k \in 1..n : Append(f, x)[k] = f[k]
        /\ Append(f, x)[n + 1] = x
    BY <1>1, AppendProperties
  <1>3. Tupled(Append(f, x), n + 1)
    BY <1>2, SeqTupled
  <1> QED  BY <1>2, <1>3 DEF Extends

\* The first m.
LEMMA TupledPrefix ==
    ASSUME NEW f, NEW n, Tupled(f, n), NEW m \in 0..n
    PROVE  /\ Tupled(SubSeq(f, 1, m), m)
           /\ \A k \in 1..m : SubSeq(f, 1, m)[k] = f[k]
  <1> DEFINE S == {f[k] : k \in 1..n}
  <1>1. n \in Nat /\ m \in Int /\ 1 \in Int /\ \A k \in 1..m : f[k] \in S
    BY DEF Tupled
  <1> HIDE DEF S
  <1>2. /\ SubSeq(f, 1, m) \in Seq(S)
        /\ Len(SubSeq(f, 1, m)) = IF 1 <= m THEN m - 1 + 1 ELSE 0
        /\ \A k \in 1..(m - 1 + 1) : SubSeq(f, 1, m)[k] = f[1 + k - 1]
    BY <1>1, SubSeqProperties
  <1>3. Len(SubSeq(f, 1, m)) = m /\ \A k \in 1..m : SubSeq(f, 1, m)[k] = f[k]
    BY <1>1, <1>2
  <1>4. Tupled(SubSeq(f, 1, m), m)
    BY <1>2, <1>3, SeqTupled
  <1> QED  BY <1>3, <1>4

\* A prefix of a prefix is one of the whole.
LEMMA PrefixOfPrefix ==
    ASSUME NEW f, NEW n, Tupled(f, n), NEW m \in 0..n, NEW l \in 0..m
    PROVE  SubSeq(SubSeq(f, 1, m), 1, l) = SubSeq(f, 1, l)
  <1>1. n \in Nat /\ l \in 0..n
    BY DEF Tupled
  <1>2. Tupled(SubSeq(f, 1, m), m) /\ \A k \in 1..m : SubSeq(f, 1, m)[k] = f[k]
    BY TupledPrefix
  <1> DEFINE g == SubSeq(f, 1, m)
  <1> HIDE DEF g
  <1>3. Tupled(SubSeq(g, 1, l), l) /\ \A k \in 1..l : SubSeq(g, 1, l)[k] = g[k]
    BY <1>2, TupledPrefix DEF g
  <1>4. Tupled(SubSeq(f, 1, l), l) /\ \A k \in 1..l : SubSeq(f, 1, l)[k] = f[k]
    BY <1>1, TupledPrefix
  <1>5. \A k \in 1..l : SubSeq(g, 1, l)[k] = SubSeq(f, 1, l)[k]
    BY <1>1, <1>2, <1>3, <1>4 DEF g
  <1> QED  BY <1>3, <1>4, <1>5, TupledEqual DEF g

\* Appending leaves the prefixes there were.
LEMMA PrefixOfAppend ==
    ASSUME NEW f, NEW n, Tupled(f, n), NEW x, NEW m \in 0..n
    PROVE  SubSeq(Append(f, x), 1, m) = SubSeq(f, 1, m)
  <1>1. n \in Nat /\ m \in 0..(n + 1)
    BY DEF Tupled
  <1> DEFINE g == Append(f, x)
  <1>2. Tupled(g, n + 1) /\ \A k \in 1..n : g[k] = f[k]
    <2>1. Extends(g, f, n, x)
      BY TupledAppend
    <2> HIDE DEF g
    <2> QED  BY <2>1 DEF Extends
  <1> HIDE DEF g
  <1>3. Tupled(SubSeq(g, 1, m), m) /\ \A k \in 1..m : SubSeq(g, 1, m)[k] = g[k]
    BY <1>1, <1>2, TupledPrefix
  <1>4. Tupled(SubSeq(f, 1, m), m) /\ \A k \in 1..m : SubSeq(f, 1, m)[k] = f[k]
    BY TupledPrefix
  <1>5. \A k \in 1..m : SubSeq(g, 1, m)[k] = SubSeq(f, 1, m)[k]
    BY <1>1, <1>2, <1>3, <1>4
  <1> QED  BY <1>3, <1>4, <1>5, TupledEqual DEF g

\* The whole of it.
LEMMA PrefixOfAll ==
    ASSUME NEW f, NEW n, Tupled(f, n)
    PROVE  SubSeq(f, 1, n) = f
  <1>1. n \in 0..n
    BY DEF Tupled
  <1>2. Tupled(SubSeq(f, 1, n), n) /\ \A k \in 1..n : SubSeq(f, 1, n)[k] = f[k]
    BY <1>1, TupledPrefix
  <1> QED  BY <1>2, TupledEqual

-------------------------------------------------------------------------------
\* What FoldLeft does, one item after the other.

\* posixpath.normpath, segment by segment.
Resolve(resolved, segment) ==
    CASE segment \in {"", "."} -> resolved
      [] segment = ".." -> IF resolved = <<>> THEN <<>> ELSE SubSeq(resolved, 1, Len(resolved) - 1)
      [] OTHER -> Append(resolved, segment)

\* A value put at a key of a map, or the key removed.
Put(map, key, value, none) ==
    IF value = none THEN [p \in DOMAIN map \ {key} |-> map[p]]
    ELSE [p \in DOMAIN map \cup {key} |-> IF p = key THEN value ELSE map[p]]

\* The node above a node, from one step of an inclusion proof.
Climbed(node, step) ==
    IF step.is_right THEN Node(node, step.sibling) ELSE Node(step.sibling, node)

\* The folds of the model: over the segments of a path, over the steps of an
\* inclusion proof, over the files of a map for their leaves, over what was
\* captured, over numbers for their sum, over gaps for those of a clock that went
\* on, and over frames for those of some types.
OfPath == [kind |-> "path"]
OfProof == [kind |-> "proof"]
OfLeaves(leaf) == [kind |-> "leaves", leaf |-> leaf]
OfMap(key, none) == [kind |-> "map", key |-> key, none |-> none]
OfSum == [kind |-> "sum"]
OfGaps == [kind |-> "gaps"]
OfFrames(types) == [kind |-> "frames", types |-> types]
Step(of, folded, item) ==
    IF of.kind = "path" THEN Resolve(folded, item)
    ELSE IF of.kind = "proof" THEN Climbed(folded, item)
    ELSE IF of.kind = "leaves"
         THEN IF item \in DOMAIN of.leaf THEN Append(folded, of.leaf[item]) ELSE folded
    ELSE IF of.kind = "sum" THEN folded + item
    ELSE IF of.kind = "gaps" THEN IF item >= 0 THEN Append(folded, item) ELSE folded
    ELSE IF of.kind = "frames" THEN IF item.type \in of.types THEN Append(folded, item) ELSE folded
    ELSE Put(folded, of.key[item[1]], item[2], of.none)

\* iter is what folding over sets of positions gives.
IsFold(iter, of, first, items, S) ==
    iter = [s \in SUBSET S |->
               IF s = {} THEN first
               ELSE Step(of, iter[s \ {Max(s)}], items[Max(s)])]

\* The greatest position of a set that reaches up to it.
LEMMA MaxIs ==
    ASSUME NEW n \in Nat, NEW s \in SUBSET (1..n), n \in s
    PROVE  Max(s) = n
  <1>1. \A y \in s : n >= y
    OBVIOUS
  <1>2. \A x \in s : (\A y \in s : x >= y) => x = n
    OBVIOUS
  <1> QED  BY <1>1, <1>2 DEF Max

\* Any set of positions has one.
LEMMA MaxWithin ==
    ASSUME NEW n \in Nat, NEW s \in SUBSET (1..n), s # {}
    PROVE  Max(s) \in s
  <1> DEFINE Apart == {n - k : k \in s}
             least == Min(Apart)
  <1>1. Apart \in SUBSET Nat /\ Apart # {}
    <2>1. \A k \in s : n - k \in Nat
      OBVIOUS
    <2> QED  BY <2>1
  <1>2. \A x : x \in Apart <=> \E k \in s : x = n - k
    OBVIOUS
  <1> HIDE DEF Apart
  <1>3. least \in Apart /\ \A x \in Apart : least <= x
    BY <1>1, HasLeast
  <1> HIDE DEF least
  <1>4. PICK k \in s : least = n - k
    BY <1>2, <1>3
  <1>5. ASSUME NEW y \in s
        PROVE  k >= y
    <2>1. n - y \in Apart
      BY <1>2
    <2>2. n - k <= n - y
      BY <1>3, <1>4, <2>1
    <2>3. k \in 1..n /\ y \in 1..n
      OBVIOUS
    <2> QED  BY <2>2, <2>3
  <1> QED  BY <1>5 DEF Max

\* There is such a function.
LEMMA FoldExists ==
    ASSUME NEW of, NEW first, NEW items, NEW n \in Nat
    PROVE  \E iter : IsFold(iter, of, first, items, 1..n)
  <1> DEFINE Folds == {m \in Nat : \E iter : IsFold(iter, of, first, items, 1..m)}
  <1>1. 0 \in Folds
    <2> DEFINE f == [s \in SUBSET (1..0) |-> first]
    <2>1. 1..0 = {}
      OBVIOUS
    <2>2. IsFold(f, of, first, items, 1..0)
      BY <2>1 DEF IsFold
    <2> QED  BY <2>2
  <1>2. ASSUME NEW m \in Nat, m \in Folds
        PROVE  m + 1 \in Folds
    <2>1. PICK f : IsFold(f, of, first, items, 1..m)
      BY <1>2
    <2> DEFINE g == [s \in SUBSET (1..(m + 1)) |->
                        IF m + 1 \in s THEN Step(of, f[s \ {m + 1}], items[m + 1]) ELSE f[s]]
               Direct(h, s) == IF s = {} THEN first
                             ELSE Step(of, h[s \ {Max(s)}], items[Max(s)])
    <2>2. \A s \in SUBSET (1..m) : s \in SUBSET (1..(m + 1)) /\ m + 1 \notin s
      OBVIOUS
    <2>3. \A s \in SUBSET (1..m) : g[s] = f[s]
      BY <2>2
    <2>4. f = [s \in SUBSET (1..m) |-> Direct(f, s)]
      BY <2>1 DEF IsFold
    <2>5. \A s \in SUBSET (1..(m + 1)) : m + 1 \notin s => s \in SUBSET (1..m)
      OBVIOUS
    <2>6. ASSUME NEW s \in SUBSET (1..(m + 1)), m + 1 \in s
          PROVE  g[s] = Direct(g, s)
      <3>1. Max(s) = m + 1
        BY <2>6, MaxIs
      <3>2. s \ {m + 1} \in SUBSET (1..m)
        OBVIOUS
      <3>3. g[s \ {m + 1}] = f[s \ {m + 1}]
        BY <2>3, <3>2
      <3>4. g[s] = Step(of, f[s \ {m + 1}], items[m + 1])
        BY <2>6
      <3>5. s # {}
        BY <2>6
      <3> HIDE DEF g
      <3> QED  BY <3>1, <3>3, <3>4, <3>5
    <2>7. ASSUME NEW s \in SUBSET (1..(m + 1)), m + 1 \notin s
          PROVE  g[s] = Direct(g, s)
      <3>1. s \in SUBSET (1..m)
        BY <2>5, <2>7
      <3>2. f[s] = Direct(f, s)
        <4> HIDE DEF Direct
        <4> QED  BY <2>4, <3>1
      <3>3. s # {} => s \ {Max(s)} \in SUBSET (1..m)
        BY <3>1
      <3>4. s # {} => g[s \ {Max(s)}] = f[s \ {Max(s)}]
        <4> HIDE DEF g
        <4> QED  BY <2>3, <3>3
      <3>5. g[s] = f[s]
        BY <2>3, <3>1
      <3> HIDE DEF g
      <3> QED  BY <3>2, <3>4, <3>5
    <2>8. g = [s \in SUBSET (1..(m + 1)) |-> g[s]]
      OBVIOUS
    <2>9. \A s \in SUBSET (1..(m + 1)) : g[s] = Direct(g, s)
      <3> HIDE DEF g, Direct
      <3> QED  BY <2>6, <2>7
    <2>10. g = [s \in SUBSET (1..(m + 1)) |-> Direct(g, s)]
      <3> HIDE DEF g, Direct
      <3> QED  BY <2>8, <2>9
    <2>11. IsFold(g, of, first, items, 1..(m + 1))
      <3> HIDE DEF g
      <3> QED  BY <2>10 DEF IsFold
    <2> QED  BY <2>11
  <1>3. n \in Folds
    <2> HIDE DEF Folds
    <2> QED  BY <1>1, <1>2, Induction
  <1> QED  BY <1>3

\* F is what folding gives position by position, up to n.
GoesOver(F, of, first, items, n) ==
    /\ F[0] = first
    /\ \A k \in Nat : k + 1 \in 1..n => F[k + 1] = Step(of, F[k], items[k + 1])

\* It goes so.
LEMMA FoldSteps ==
    ASSUME NEW of, NEW first, NEW items, NEW n \in Nat,
           NEW iter, IsFold(iter, of, first, items, 1..n)
    PROVE  \E F : GoesOver(F, of, first, items, n) /\ F[n] = iter[1..n]
  <1> DEFINE F == [k \in 0..n |-> iter[1..k]]
  <1>1. \A k \in 0..n : F[k] = iter[1..k]
    OBVIOUS
  <1>2. \A s \in SUBSET (1..n) :
           iter[s] = IF s = {} THEN first ELSE Step(of, iter[s \ {Max(s)}], items[Max(s)])
    <2> DEFINE Direct(h, s) == IF s = {} THEN first
                             ELSE Step(of, h[s \ {Max(s)}], items[Max(s)])
    <2>1. iter = [s \in SUBSET (1..n) |-> Direct(iter, s)]
      BY DEF IsFold
    <2> HIDE DEF Direct
    <2>2. \A s \in SUBSET (1..n) : iter[s] = Direct(iter, s)
      BY <2>1
    <2> QED  BY <2>2 DEF Direct
  <1>3. F[0] = first
    <2>1. 1..0 = {} /\ 1..0 \in SUBSET (1..n)
      OBVIOUS
    <2>2. iter[1..0] = first
      BY <1>2, <2>1
    <2> QED  BY <1>1, <2>2
  <1>4. ASSUME NEW k \in Nat, k + 1 \in 1..n
        PROVE  F[k + 1] = Step(of, F[k], items[k + 1])
    <2>1. 1..(k + 1) \in SUBSET (1..n) /\ k + 1 \in 1..(k + 1) /\ (1..(k + 1)) \ {k + 1} = 1..k
      BY <1>4
    <2>2. Max(1..(k + 1)) = k + 1
      BY MaxIs
    <2>3. 1..(k + 1) # {}
      BY <2>1
    <2>4. iter[1..(k + 1)] = Step(of, iter[1..k], items[k + 1])
      BY <1>2, <2>1, <2>2, <2>3
    <2>5. k \in 0..n /\ k + 1 \in 0..n
      BY <1>4
    <2> QED  BY <1>1, <2>4, <2>5
  <1>5. F[n] = iter[1..n]
    OBVIOUS
  <1> HIDE DEF F
  <1>6. GoesOver(F, of, first, items, n)
    BY <1>3, <1>4 DEF GoesOver
  <1> QED  BY <1>5, <1>6

\* Over the same positions it goes the same way.
LEMMA FoldsAgree ==
    ASSUME NEW of, NEW first, NEW q \in Nat,
           NEW F, NEW f, NEW n \in Nat, GoesOver(F, of, first, f, n), q <= n,
           NEW G, NEW g, NEW m \in Nat, GoesOver(G, of, first, g, m), q <= m,
           \A i \in 1..q : f[i] = g[i]
    PROVE  F[q] = G[q]
  <1> DEFINE Same == {j \in Nat : j <= q => F[j] = G[j]}
  <1>1. 0 \in Same
    BY DEF GoesOver
  <1>2. ASSUME NEW j \in Nat, j \in Same
        PROVE  j + 1 \in Same
    <2> SUFFICES ASSUME j + 1 <= q
                 PROVE  F[j + 1] = G[j + 1]
      OBVIOUS
    <2>1. j + 1 \in 1..q /\ j + 1 \in 1..n /\ j + 1 \in 1..m /\ F[j] = G[j]
      BY <1>2
    <2> QED  BY <2>1 DEF GoesOver
  <1> HIDE DEF Same
  <1>3. q \in Same
    BY <1>1, <1>2, Induction
  <1> QED  BY <1>3 DEF Same
================================================================================
