--------------------------- MODULE ObservationProofs ---------------------------
(***************************************************************************)
(* What the host makes of what it observes.  For any streams of frames: a  *)
(* reader returns exactly the claims before the first frame that stops it, *)
(* and its statistics account for every frame.  For any reference runs:    *)
(* the profile of an agent's behaviour flags no run it was built from, and *)
(* a candidate it finds nothing novel in is stitched together from steps   *)
(* of single reference runs.                                               *)
(***************************************************************************)
EXTENDS Transport, Fingerprint, DataProofs

-------------------------------------------------------------------------------
\* Sums of numbers.

\* F is the sums of the first k numbers.
SumsUp(F, s, n) ==
    /\ F[0] = 0
    /\ \A k \in Nat : k < n => F[k + 1] = F[k] + s[k + 1]
    /\ F[n] = Sum(s)
    /\ \A k \in 0..n : F[k] \in Int

LEMMA SumIs ==
    ASSUME NEW s, NEW n, Tupled(s, n), \A k \in 1..n : s[k] \in Int
    PROVE  \E F : SumsUp(F, s, n)
  <1> DEFINE Direct(iter) == iter = [S \in SUBSET (1..n) |->
                                IF S = {} THEN 0 ELSE iter[S \ {Max(S)}] + s[Max(S)]]
             fold == CHOOSE iter : Direct(iter)
  <1>1. n \in Nat /\ DOMAIN s = 1..n
    BY TupledIs DEF Tupled
  <1>2. Sum(s) = fold[1..n]
    BY <1>1 DEF Sum, FoldLeft, MapThenFoldSet
  <1>3. \A folded, item : Step(OfSum, folded, item) = folded + item
    BY DEF Step, OfSum
  <1>4. \A iter : Direct(iter) <=> IsFold(iter, OfSum, 0, s, 1..n)
    BY <1>3, Zenon DEF IsFold
  <1> HIDE DEF Direct
  <1>5. IsFold(fold, OfSum, 0, s, 1..n)
    <2>1. \E iter : Direct(iter)
      BY <1>1, <1>4, FoldExists
    <2> QED  BY <1>4, <2>1
  <1> HIDE DEF fold
  <1>6. PICK F : GoesOver(F, OfSum, 0, s, n) /\ F[n] = fold[1..n]
    BY <1>1, <1>5, FoldSteps
  <1>7. F[0] = 0
    BY <1>6 DEF GoesOver
  <1>8. ASSUME NEW k \in Nat, k < n
        PROVE  F[k + 1] = F[k] + s[k + 1]
    <2>1. k + 1 \in 1..n
      BY <1>1, <1>8
    <2> QED  BY <1>3, <1>6, <2>1 DEF GoesOver
  <1> DEFINE Whole == {k \in Nat : k <= n => F[k] \in Int}
  <1>9. 0 \in Whole
    BY <1>7
  <1>10. ASSUME NEW k \in Nat, k \in Whole
         PROVE  k + 1 \in Whole
    <2> SUFFICES ASSUME k + 1 <= n
                 PROVE  F[k + 1] \in Int
      OBVIOUS
    <2>1. k < n /\ k <= n /\ k + 1 \in 1..n
      BY <1>1
    <2>2. F[k] \in Int
      BY <1>10, <2>1
    <2>3. s[k + 1] \in Int
      BY <2>1
    <2> QED  BY <1>8, <2>1, <2>2, <2>3
  <1>11. \A k \in 0..n : F[k] \in Int
    <2> HIDE DEF Whole
    <2>1. \A k \in Nat : k \in Whole
      BY <1>9, <1>10, Induction
    <2> QED  BY <1>1, <2>1 DEF Whole
  <1>12. SumsUp(F, s, n)
    BY <1>2, <1>6, <1>7, <1>8, <1>11 DEF SumsUp
  <1> QED  BY <1>12

\* The square of a sum of m numbers is at most m times the sum of their squares:
\* one number more.
LEMMA OneSquareMore ==
    ASSUME NEW m \in Nat, NEW t \in Int, NEW p \in Int, NEW x \in Int, p >= 0, t * t <= m * p
    PROVE  p + x * x >= 0 /\ (t + x) * (t + x) <= (m + 1) * (p + x * x)
  <1>1. x * x >= 0
    OBVIOUS
  <1>2. 2 * (t * x) <= p + m * (x * x)
    <2>1. CASE m = 0
      <3>1. t * t <= 0
        BY <2>1
      <3>2. t = 0
        BY <3>1
      <3> QED  BY <2>1, <3>2
    <2>2. CASE m > 0
      <3>1. (t - m * x) * (t - m * x) >= 0
        OBVIOUS
      <3>2. (t - m * x) * (t - m * x) = t * t - 2 * (m * (t * x)) + m * (m * (x * x))
        OBVIOUS
      <3>3. m * (2 * (t * x)) <= m * (p + m * (x * x))
        BY <3>1, <3>2
      <3> QED  BY <2>2, <3>3
    <2> QED  BY <2>1, <2>2
  <1>3. (t + x) * (t + x) = t * t + 2 * (t * x) + x * x
    OBVIOUS
  <1>4. (m + 1) * (p + x * x) = m * p + m * (x * x) + p + x * x
    OBVIOUS
  <1> QED  BY <1>1, <1>2, <1>3, <1>4

\* No number lies further from the mean of those it is one of than the others
\* allow.
LEMMA DeviationBound ==
    ASSUME NEW s, NEW n \in Nat, Tupled(s, n), \A k \in 1..n : s[k] \in Int,
           NEW sq, Tupled(sq, n), \A k \in 1..n : sq[k] = s[k] * s[k],
           NEW i \in 1..n
    PROVE  /\ Sum(s) \in Int /\ Sum(sq) \in Int
           /\ (n * s[i] - Sum(s)) * (n * s[i] - Sum(s))
              <= (n - 1) * (n * Sum(sq) - Sum(s) * Sum(s))
  <1>1. PICK F : SumsUp(F, s, n)
    BY SumIs
  <1>2. \A k \in 1..n : sq[k] \in Int
    OBVIOUS
  <1>3. PICK G : SumsUp(G, sq, n)
    BY <1>2, SumIs
  <1> DEFINE x == s[i]
             Within(m) == IF m < i THEN G[m] >= 0 /\ F[m] * F[m] <= m * G[m]
                          ELSE /\ G[m] - x * x >= 0
                               /\ (F[m] - x) * (F[m] - x) <= (m - 1) * (G[m] - x * x)
             Good == {m \in Nat : m <= n => Within(m)}
  <1>4. i \in Nat /\ i > 0 /\ i <= n /\ x \in Int /\ F[0] = 0 /\ G[0] = 0
    BY <1>1, <1>3 DEF SumsUp
  <1>5. \A k \in 0..n : F[k] \in Int /\ G[k] \in Int
    BY <1>1, <1>3 DEF SumsUp
  <1>6. \A k \in Nat : k < n => F[k + 1] = F[k] + s[k + 1] /\ G[k + 1] = G[k] + sq[k + 1]
    BY <1>1, <1>3 DEF SumsUp
  <1>7. Within(0)
    BY <1>4
  <1>8. ASSUME NEW m \in Nat, m < n, Within(m)
        PROVE  Within(m + 1)
    <2>1. m + 1 \in 1..n /\ m \in 0..n
      BY <1>8
    <2>2. /\ F[m] \in Int /\ G[m] \in Int /\ s[m + 1] \in Int
          /\ F[m + 1] = F[m] + s[m + 1]
          /\ G[m + 1] = G[m] + s[m + 1] * s[m + 1]
      BY <1>5, <1>6, <1>8, <2>1
    <2>3. CASE m + 1 < i
      <3>1. m < i /\ G[m] >= 0 /\ F[m] * F[m] <= m * G[m]
        BY <1>4, <1>8, <2>3
      <3>2. G[m + 1] >= 0 /\ F[m + 1] * F[m + 1] <= (m + 1) * G[m + 1]
        BY <2>2, <3>1, OneSquareMore
      <3> QED  BY <2>3, <3>2
    <2>4. CASE m + 1 = i
      <3>1. m < i /\ G[m] >= 0 /\ F[m] * F[m] <= m * G[m]
        BY <1>4, <1>8, <2>4
      <3>2. F[m + 1] - x = F[m] /\ G[m + 1] - x * x = G[m] /\ (m + 1) - 1 = m
        BY <1>4, <2>2, <2>4
      <3>3. ~(m + 1 < i)
        BY <1>4, <2>4
      <3> HIDE DEF x
      <3> QED  BY <3>1, <3>2, <3>3
    <2>5. CASE m + 1 > i
      <3> DEFINE t == F[m] - x
                 p == G[m] - x * x
      <3>1. ~(m < i) /\ ~(m + 1 < i) /\ m - 1 \in Nat /\ (m - 1) + 1 = (m + 1) - 1
        BY <1>4, <2>5
      <3>2. p >= 0 /\ t * t <= (m - 1) * p
        BY <1>8, <3>1
      <3>3. t \in Int /\ p \in Int
        BY <1>4, <2>2
      <3>4. F[m + 1] - x = t + s[m + 1] /\ G[m + 1] - x * x = p + s[m + 1] * s[m + 1]
        BY <1>4, <2>2
      <3> HIDE DEF t, p, x
      <3>5. /\ p + s[m + 1] * s[m + 1] >= 0
            /\ (t + s[m + 1]) * (t + s[m + 1]) <= ((m - 1) + 1) * (p + s[m + 1] * s[m + 1])
        BY <2>2, <3>1, <3>2, <3>3, OneSquareMore
      <3>6. ((m - 1) + 1) * (p + s[m + 1] * s[m + 1]) = ((m + 1) - 1) * (p + s[m + 1] * s[m + 1])
        BY <3>1
      <3> QED  BY <3>1, <3>4, <3>5, <3>6
    <2> QED  BY <1>4, <2>3, <2>4, <2>5
  <1> HIDE DEF Within
  <1>9. 0 \in Good
    BY <1>7
  <1>10. ASSUME NEW m \in Nat, m \in Good
         PROVE  m + 1 \in Good
    BY <1>8, <1>10
  <1>11. Within(n)
    <2> HIDE DEF Good
    <2>1. n \in Good
      BY <1>9, <1>10, Induction
    <2> QED  BY <2>1 DEF Good
  <1> DEFINE S == Sum(s)
             Q == Sum(sq)
  <1>12. S \in Int /\ Q \in Int /\ F[n] = S /\ G[n] = Q
    <2>1. F[n] \in Int /\ G[n] \in Int
      BY <1>5
    <2> QED  BY <1>1, <1>3, <2>1 DEF SumsUp
  <1> HIDE DEF S, Q, x
  <1>13. (S - x) * (S - x) <= (n - 1) * (Q - x * x)
    BY <1>4, <1>11, <1>12 DEF Within
  <1>14. n * ((n - 1) * (Q - x * x) - (S - x) * (S - x))
         = (n - 1) * (n * Q - S * S) - (n * x - S) * (n * x - S)
    BY <1>4, <1>12
  <1>15. n * ((n - 1) * (Q - x * x) - (S - x) * (S - x)) >= 0
    <2> DEFINE d == (n - 1) * (Q - x * x) - (S - x) * (S - x)
    <2>1. d \in Int /\ d >= 0
      BY <1>4, <1>12, <1>13
    <2> HIDE DEF d
    <2>2. n * d >= 0
      BY <2>1
    <2> QED  BY <2>2 DEF d
  <1> DEFINE left == (n - 1) * (n * Q - S * S)
             right == (n * x - S) * (n * x - S)
  <1>16. left \in Int /\ right \in Int /\ left - right >= 0
    BY <1>4, <1>12, <1>14, <1>15
  <1> HIDE DEF left, right
  <1>17. right <= left
    BY <1>16
  <1> QED  BY <1>12, <1>17 DEF left, right, S, Q, x

-------------------------------------------------------------------------------
\* The profile.

\* s has x in it.
Holds(s, x) == \E m \in 1..Len(s) : s[m] = x

LEMMA HoldsMore ==
    ASSUME NEW s \in Seq(Nat), NEW t \in Seq(Nat), NEW x
    PROVE  s \o t \in Seq(Nat) /\ (Holds(s, x) \/ Holds(t, x) => Holds(s \o t, x))
  <1> DEFINE u == s \o t
  <1>1. /\ Len(s) \in Nat /\ Len(t) \in Nat /\ u \in Seq(Nat) /\ Len(u) = Len(s) + Len(t)
        /\ \A i \in 1..(Len(s) + Len(t)) : u[i] = IF i <= Len(s) THEN s[i] ELSE t[i - Len(s)]
    BY ConcatProperties
  <1> HIDE DEF u
  <1>2. ASSUME Holds(s, x)
        PROVE  Holds(u, x)
    <2>1. PICK m \in 1..Len(s) : s[m] = x
      BY <1>2 DEF Holds
    <2>2. m \in 1..Len(u) /\ u[m] = x
      BY <1>1, <2>1
    <2> QED  BY <2>2 DEF Holds
  <1>3. ASSUME Holds(t, x)
        PROVE  Holds(u, x)
    <2>1. PICK m \in 1..Len(t) : t[m] = x
      BY <1>3 DEF Holds
    <2> DEFINE j == Len(s) + m
    <2>2. j \in 1..Len(u) /\ j \in 1..(Len(s) + Len(t)) /\ ~(j <= Len(s)) /\ j - Len(s) = m
      BY <1>1
    <2> HIDE DEF j
    <2>3. u[j] = x
      BY <1>1, <2>1, <2>2
    <2> QED  BY <2>2, <2>3 DEF Holds
  <1> QED  BY <1>1, <1>2, <1>3 DEF u

\* What is kept of some gaps are those that are not negative.
LEMMA GapsKept ==
    ASSUME NEW gaps, NEW n \in Nat, \A k \in 1..n : gaps[k] \in Int,
           NEW F, GoesOver(F, OfGaps, <<>>, gaps, n)
    PROVE  F[n] \in Seq(Nat) /\ \A k \in 1..n : gaps[k] >= 0 => Holds(F[n], gaps[k])
  <1> DEFINE Kept(m) == F[m] \in Seq(Nat) /\ \A k \in 1..m : gaps[k] >= 0 => Holds(F[m], gaps[k])
             Good == {m \in Nat : m <= n => Kept(m)}
  <1>1. Kept(0)
    BY DEF GoesOver
  <1>2. ASSUME NEW m \in Nat, m < n, Kept(m)
        PROVE  Kept(m + 1)
    <2>1. m + 1 \in 1..n /\ gaps[m + 1] \in Int
      BY <1>2
    <2>2. F[m + 1] = IF gaps[m + 1] >= 0 THEN Append(F[m], gaps[m + 1]) ELSE F[m]
      BY <2>1 DEF GoesOver, Step, OfGaps
    <2>3. F[m] \in Seq(Nat) /\ \A k \in 1..m : gaps[k] >= 0 => Holds(F[m], gaps[k])
      BY <1>2
    <2>4. \A k \in 1..(m + 1) : k \in 1..m \/ k = m + 1
      OBVIOUS
    <2>5. CASE gaps[m + 1] >= 0
      <3>1. F[m + 1] = F[m] \o <<gaps[m + 1]>>
        BY <2>1, <2>2, <2>3, <2>5
      <3>2. <<gaps[m + 1]>> \in Seq(Nat) /\ Holds(<<gaps[m + 1]>>, gaps[m + 1])
        BY <2>1, <2>5 DEF Holds
      <3>3. F[m + 1] \in Seq(Nat)
        BY <2>3, <3>1, <3>2, HoldsMore
      <3>4. ASSUME NEW k \in 1..(m + 1), gaps[k] >= 0
            PROVE  Holds(F[m + 1], gaps[k])
        <4>1. Holds(F[m], gaps[k]) \/ Holds(<<gaps[m + 1]>>, gaps[k])
          BY <2>3, <2>4, <3>2, <3>4
        <4> QED  BY <2>3, <3>1, <3>2, <4>1, HoldsMore
      <3> QED  BY <3>3, <3>4
    <2>6. CASE ~(gaps[m + 1] >= 0)
      <3>1. F[m + 1] = F[m]
        BY <2>2, <2>6
      <3> QED  BY <2>3, <2>4, <2>6, <3>1
    <2> QED  BY <2>5, <2>6
  <1> HIDE DEF Kept
  <1>3. 0 \in Good
    BY <1>1
  <1>4. ASSUME NEW m \in Nat, m \in Good
        PROVE  m + 1 \in Good
    BY <1>2, <1>4
  <1>5. Kept(n)
    <2> HIDE DEF Good
    <2>1. n \in Good
      BY <1>3, <1>4, Induction
    <2> QED  BY <2>1 DEF Good
  <1> QED  BY <1>5 DEF Kept

Observed == [capability : Capability, timestamp_ns : Int]

LEMMA IntervalsAre ==
    ASSUME NEW run \in Seq(Observed)
    PROVE  /\ Intervals(run) \in Seq(Nat)
           /\ \A k \in Steps(run) : Gap(run, k) \in Int /\ (Gap(run, k) >= 0 => Holds(Intervals(run), Gap(run, k)))
  <1> DEFINE n == IF run = <<>> THEN 0 ELSE Len(run) - 1
             gaps == [k \in Steps(run) |-> Gap(run, k)]
             Direct(iter) == iter = [S \in SUBSET (1..n) |->
                                IF S = {} THEN <<>>
                                ELSE IF gaps[Max(S)] >= 0
                                     THEN Append(iter[S \ {Max(S)}], gaps[Max(S)])
                                     ELSE iter[S \ {Max(S)}]]
             fold == CHOOSE iter : Direct(iter)
  <1>1. n \in Nat /\ Steps(run) = 1..n
    <2>1. Len(run) \in Nat /\ (run = <<>> <=> Len(run) = 0)
      OBVIOUS
    <2> QED  BY <2>1 DEF Steps
  <1>2. \A k \in 1..n : Gap(run, k) \in Int
    <2>1. Len(run) \in Nat /\ \A k \in 1..Len(run) : run[k].timestamp_ns \in Int
      <3>1. Len(run) \in Nat /\ \A k \in 1..Len(run) : run[k] \in Observed
        OBVIOUS
      <3>2. \A o \in Observed : o.timestamp_ns \in Int
        BY DEF Observed
      <3> QED  BY <3>1, <3>2
    <2>2. \A k \in 1..n : k \in 1..Len(run) /\ k + 1 \in 1..Len(run)
      BY <2>1
    <2> QED  BY <2>1, <2>2 DEF Gap
  <1> HIDE DEF n
  <1>3. DOMAIN gaps = 1..n /\ \A k \in 1..n : gaps[k] = Gap(run, k)
    BY <1>1
  <1>4. Intervals(run) = fold[1..n]
    BY <1>3 DEF Intervals, FoldLeft, MapThenFoldSet
  <1> HIDE DEF gaps
  <1>5. \A folded, item : Step(OfGaps, folded, item) = IF item >= 0 THEN Append(folded, item) ELSE folded
    BY DEF Step, OfGaps
  <1>6. \A iter : Direct(iter) <=> IsFold(iter, OfGaps, <<>>, gaps, 1..n)
    BY <1>5, Zenon DEF IsFold
  <1> HIDE DEF Direct
  <1>7. IsFold(fold, OfGaps, <<>>, gaps, 1..n)
    <2>1. \E iter : Direct(iter)
      BY <1>1, <1>6, FoldExists
    <2> QED  BY <1>6, <2>1
  <1> HIDE DEF fold
  <1>8. PICK F : GoesOver(F, OfGaps, <<>>, gaps, n) /\ F[n] = fold[1..n]
    BY <1>1, <1>7, FoldSteps
  <1>9. F[n] \in Seq(Nat) /\ \A k \in 1..n : gaps[k] >= 0 => Holds(F[n], gaps[k])
    BY <1>1, <1>2, <1>3, <1>8, GapsKept
  <1> QED  BY <1>1, <1>2, <1>3, <1>4, <1>8, <1>9

\* The invariant: the profile knows each capability, step and interval of each
\* run it was built from, and no step besides.
Known(run) ==
    /\ \A k \in 1..Len(run) : run[k].capability \in capabilities
    /\ \A k \in Steps(run) : Pair(run, k) \in transitions
    /\ \A k \in Steps(run) : Gap(run, k) >= 0 => Holds(intervals_ns, Gap(run, k))
Done(p) ==
    \E j \in 1..Len(references) : \E i \in Steps(references[j]) : Pair(references[j], i) = p
Profiled ==
    /\ references \in Seq(Seq(Observed))
    /\ intervals_ns \in Seq(Nat)
    /\ \A j \in 1..Len(references) : Known(references[j])
    /\ \A p \in transitions : Done(p)

LEMMA ProfiledInit == Init => Profiled
  BY DEF Init, Profiled

LEMMA ProfiledAbsorb ==
    ASSUME Profiled, NEW run \in Seq(Observed), absorb(run)
    PROVE  Profiled'
  <1>1. /\ capabilities' = capabilities \cup {run[k].capability : k \in DOMAIN run}
        /\ transitions' = transitions \cup {Pair(run, k) : k \in Steps(run)}
        /\ intervals_ns' = intervals_ns \o Intervals(run)
        /\ references' = Append(references, run)
    BY DEF absorb
  <1>2. /\ references \in Seq(Seq(Observed)) /\ intervals_ns \in Seq(Nat)
        /\ \A j \in 1..Len(references) : Known(references[j])
        /\ \A p \in transitions : Done(p)
    BY DEF Profiled
  <1>3. /\ Intervals(run) \in Seq(Nat)
        /\ \A k \in Steps(run) : Gap(run, k) >= 0 => Holds(Intervals(run), Gap(run, k))
    BY IntervalsAre
  <1> DEFINE l == Len(references)
  <1>4. /\ l \in Nat /\ references' \in Seq(Seq(Observed)) /\ Len(references') = l + 1
        /\ references'[l + 1] = run /\ \A j \in 1..l : references'[j] = references[j]
    BY <1>1, <1>2
  <1>5. \A j \in 1..(l + 1) : j \in 1..l \/ j = l + 1
    BY <1>4
  <1> HIDE DEF l
  <1>6. intervals_ns' \in Seq(Nat)
    BY <1>1, <1>2, <1>3, HoldsMore
  <1>7. \A x : Holds(intervals_ns, x) \/ Holds(Intervals(run), x) => Holds(intervals_ns', x)
    BY <1>1, <1>2, <1>3, HoldsMore
  <1>8. ASSUME NEW r, Known(r)
        PROVE  Known(r)'
    BY <1>1, <1>7, <1>8 DEF Known, Pair, Gap, Steps
  <1>9. Known(run)'
    <2>1. DOMAIN run = 1..Len(run)
      OBVIOUS
    <2>2. \A k \in Steps(run) : Pair(run, k) \in transitions'
      BY <1>1
    <2>3. \A k \in 1..Len(run) : run[k].capability \in capabilities'
      BY <1>1, <2>1
    <2>4. \A k \in Steps(run) : Gap(run, k) >= 0 => Holds(intervals_ns', Gap(run, k))
      BY <1>3, <1>7
    <2> QED  BY <2>2, <2>3, <2>4 DEF Known
  <1>10. ASSUME NEW j \in 1..(l + 1)
         PROVE  Known(references[j])'
    <2>1. CASE j \in 1..l
      <3>1. Known(references[j])
        BY <1>2, <2>1 DEF l
      <3>2. references'[j] = references[j]
        BY <1>4, <2>1
      <3> QED  BY <1>8, <3>1, <3>2
    <2>2. CASE j = l + 1
      BY <1>4, <1>9, <2>2
    <2> QED  BY <1>5, <2>1, <2>2
  <1>11. ASSUME NEW p \in transitions'
         PROVE  Done(p)'
    <2>1. CASE p \in transitions
      <3>1. PICK j \in 1..l : \E i \in Steps(references[j]) : Pair(references[j], i) = p
        BY <1>2, <2>1 DEF Done, l
      <3>2. references'[j] = references[j] /\ j \in 1..Len(references')
        BY <1>4
      <3> QED  BY <3>1, <3>2 DEF Done, Steps, Pair
    <2>2. CASE p \in {Pair(run, k) : k \in Steps(run)}
      <3>1. l + 1 \in 1..Len(references')
        BY <1>4
      <3> QED  BY <1>4, <2>2, <3>1 DEF Done, Steps, Pair
    <2> QED  BY <1>1, <2>1, <2>2
  <1> QED  BY <1>4, <1>6, <1>10, <1>11 DEF Profiled

LEMMA ProfiledNext == Profiled /\ [Next]_vars => Profiled'
  <1> SUFFICES ASSUME Profiled, [Next]_vars
               PROVE  Profiled'
    OBVIOUS
  <1>1. CASE Absorb
    <2>1. PICK run \in ReferenceRuns : absorb(run)
      BY <1>1 DEF Absorb
    <2>2. run \in Seq(Observed)
      BY FingerprintAssumption DEF Observed
    <2> QED  BY <2>1, <2>2, ProfiledAbsorb
  <1>2. CASE seal
    BY <1>2 DEF seal, profile, Profiled, Known, Done, Steps, Pair, Gap, Holds
  <1>3. CASE UNCHANGED vars
    BY <1>3 DEF vars, Profiled, Known, Done, Steps, Pair, Gap, Holds
  <1> QED  BY <1>1, <1>2, <1>3 DEF Next

\* The profile holds what its reference runs did, at any time.
THEOREM ProfileInvariant == Spec => []Profiled
  BY ProfiledInit, ProfiledNext, PTL DEF Spec

\* What no reference run did is novel (BehaviorFingerprint.absorb: "never
\* synthesises a transition [...] spanning the boundary between them").
THEOREM UnflaggedAlwaysStitched == Spec => []UnflaggedIsStitched
  <1>1. Profiled => UnflaggedIsStitched
    <2> SUFFICES ASSUME Profiled, NEW run \in CandidateRuns,
                        \A k \in DOMAIN run : ~evaluate(run)[k].novel_transition,
                        NEW k \in Steps(run)
                 PROVE  \E j \in DOMAIN references :
                            \E i \in Steps(references[j]) : Pair(references[j], i) = Pair(run, k)
      BY DEF UnflaggedIsStitched
    <2>1. run \in Seq(Observed)
      BY FingerprintAssumption DEF Observed
    <2>2. k + 1 \in DOMAIN run /\ k + 1 > 1 /\ (k + 1) - 1 = k
      BY <2>1 DEF Steps
    <2>3. ~SequenceVerdict(run, k + 1).novel_transition
      BY <2>2 DEF evaluate
    <2>4. Pair(run, k) \in transitions
      BY <2>2, <2>3 DEF SequenceVerdict
    <2>5. references \in Seq(Seq(Observed)) /\ Done(Pair(run, k))
      BY <2>4 DEF Profiled
    <2> QED  BY <2>5 DEF Done
  <1> QED  BY <1>1, ProfileInvariant, PTL

\* A number times one that is not greater.
LEMMA LessTimes ==
    ASSUME NEW a \in Int, NEW b \in Int, NEW c \in Nat, a <= b
    PROVE  a * c <= b * c
  <1>1. (b - a) * c >= 0
    OBVIOUS
  <1> QED  BY <1>1

\* No interval of a small pool is an outlier in it.
LEMMA NoOutlier ==
    ASSUME Profiled, NEW gap, Holds(intervals_ns, gap),
           samples = 0 \/ (samples - 1) * (samples - 1) < ZThreshold * ZThreshold * samples
    PROVE  ~cadence_outlier(gap)
  <1> SUFFICES ASSUME samples >= 2
               PROVE  ~cadence_outlier(gap)
    BY DEF cadence_outlier
  <1> DEFINE sq == [k \in 1..samples |-> intervals_ns[k] * intervals_ns[k]]
             n == samples
  <1>1. /\ n \in Nat /\ Tupled(intervals_ns, n) /\ \A k \in 1..n : intervals_ns[k] \in Int
    BY SeqTupled DEF Profiled, samples
  <1>2. Tupled(sq, n) /\ \A k \in 1..n : sq[k] = intervals_ns[k] * intervals_ns[k]
    BY <1>1 DEF Tupled
  <1>3. PICK i \in 1..n : intervals_ns[i] = gap
    BY DEF Holds, samples
  <1> DEFINE D == Deviation(gap)
             V == Spread
             Z == ZThreshold * ZThreshold
  <1>4. V = n * Sum(sq) - Total * Total
    BY DEF Spread
  <1>5. D = n * gap - Total
    BY DEF Deviation
  <1> HIDE DEF sq, n, D, V, Z
  <1>6. Total \in Int /\ Sum(sq) \in Int /\ D * D <= (n - 1) * V
    BY <1>1, <1>2, <1>3, <1>4, <1>5, DeviationBound DEF Total
  <1>7. D \in Int /\ V \in Int /\ n >= 2 /\ n \in Nat /\ Z \in Nat
    <2>1. gap \in Int
      BY <1>1, <1>3
    <2>2. Z \in Nat
      BY FingerprintAssumption DEF Z
    <2> QED  BY <1>1, <1>4, <1>5, <1>6, <2>1, <2>2 DEF n
  <1>8. CASE V > 0
    <2>1. D * D * (n - 1) <= ((n - 1) * V) * (n - 1)
      BY <1>6, <1>7, LessTimes
    <2>2. ((n - 1) * V) * (n - 1) = ((n - 1) * (n - 1)) * V
      BY <1>7
    <2>3. (n - 1) * (n - 1) < Z * n
      BY <1>7 DEF n, Z
    <2>4. ((n - 1) * (n - 1)) * V < Z * n * V
      BY <1>7, <1>8, <2>3
    <2>5. D * D * (n - 1) < Z * n * V
      BY <1>7, <2>1, <2>2, <2>4
    <2>6. ~(D * D * (n - 1) >= Z * n * V)
      BY <1>7, <2>5
    <2> QED  BY <1>8, <2>6 DEF cadence_outlier, D, n, V, Z
  <1>9. CASE ~(V > 0)
    <2>1. (n - 1) * V <= 0
      BY <1>7, <1>9
    <2>2. D * D <= 0
      BY <1>6, <1>7, <2>1
    <2>3. D = 0
      BY <1>7, <2>2
    <2> QED  BY <1>9, <2>3 DEF cadence_outlier, D, V
  <1> QED  BY <1>8, <1>9

\* A run the baseline was built from is not flagged at any step, as long as the
\* pool is small for the threshold (BehaviorFingerprint.evaluate).
THEOREM ReferenceRunsAlwaysClean == Spec => []ReferenceRunsAreClean
  <1>1. Profiled => ReferenceRunsAreClean
    <2> SUFFICES ASSUME Profiled,
                        samples = 0 \/ (samples - 1) * (samples - 1) < ZThreshold * ZThreshold * samples,
                        NEW j \in DOMAIN references, NEW k \in DOMAIN references[j]
                 PROVE  ~flagged(evaluate(references[j])[k])
      BY DEF ReferenceRunsAreClean
    <2> DEFINE run == references[j]
    <2>1. references \in Seq(Seq(Observed)) /\ run \in Seq(Observed) /\ j \in 1..Len(references)
      BY DEF Profiled
    <2>2. Known(run)
      BY <2>1 DEF Profiled
    <2>3. k \in 1..Len(run) /\ DOMAIN run = 1..Len(run) /\ Len(run) \in Nat
      BY <2>1
    <2> HIDE DEF run
    <2>4. run[k].capability \in capabilities
      BY <2>2, <2>3 DEF Known
    <2>5. ASSUME k > 1
          PROVE  Pair(run, k - 1) \in transitions /\ ~cadence_outlier(Gap(run, k - 1))
      <3>1. k - 1 \in Steps(run)
        BY <2>3, <2>5 DEF Steps
      <3>2. Gap(run, k - 1) >= 0 => Holds(intervals_ns, Gap(run, k - 1))
        BY <2>2, <3>1 DEF Known
      <3>3. ~cadence_outlier(Gap(run, k - 1))
        <4>1. CASE Gap(run, k - 1) >= 0
          BY <3>2, <4>1, NoOutlier
        <4>2. CASE ~(Gap(run, k - 1) >= 0)
          BY <4>2 DEF cadence_outlier
        <4> QED  BY <4>1, <4>2
      <3> QED  BY <2>2, <3>1, <3>3 DEF Known
    <2>6. evaluate(run)[k] = SequenceVerdict(run, k)
      BY <2>3 DEF evaluate
    <2>7. ~flagged(SequenceVerdict(run, k))
      BY <2>4, <2>5 DEF flagged, SequenceVerdict
    <2> QED  BY <2>6, <2>7 DEF run
  <1> QED  BY <1>1, ProfileInvariant, PTL

-------------------------------------------------------------------------------
\* What is taken of a stream, frame by frame.

\* One number more.
LEMMA SumMore ==
    ASSUME NEW s, NEW n, Tupled(s, n), \A k \in 1..n : s[k] \in Int,
           NEW t, Tupled(t, n + 1), \A k \in 1..n : t[k] = s[k], t[n + 1] \in Int
    PROVE  Sum(s) \in Int /\ Sum(t) = Sum(s) + t[n + 1]
  <1>1. n \in Nat /\ \A k \in 1..(n + 1) : k \in 1..n \/ k = n + 1
    BY DEF Tupled
  <1>2. PICK F : SumsUp(F, s, n)
    BY SumIs
  <1>3. \A k \in 1..(n + 1) : t[k] \in Int
    BY <1>1
  <1>4. PICK G : SumsUp(G, t, n + 1)
    BY <1>3, SumIs
  <1> DEFINE Same == {k \in Nat : k <= n => F[k] = G[k]}
  <1>5. 0 \in Same
    BY <1>2, <1>4 DEF SumsUp
  <1>6. ASSUME NEW k \in Nat, k \in Same
        PROVE  k + 1 \in Same
    <2> SUFFICES ASSUME k + 1 <= n
                 PROVE  F[k + 1] = G[k + 1]
      OBVIOUS
    <2>1. k < n /\ k < n + 1 /\ k + 1 \in 1..n /\ F[k] = G[k]
      BY <1>1, <1>6
    <2>2. F[k + 1] = F[k] + s[k + 1]
      BY <1>2, <2>1 DEF SumsUp
    <2>3. G[k + 1] = G[k] + t[k + 1]
      BY <1>4, <2>1 DEF SumsUp
    <2>4. t[k + 1] = s[k + 1]
      BY <2>1
    <2> QED  BY <2>1, <2>2, <2>3, <2>4
  <1>7. F[n] = G[n]
    <2> HIDE DEF Same
    <2>1. n \in Same
      BY <1>1, <1>5, <1>6, Induction
    <2> QED  BY <1>1, <2>1 DEF Same
  <1>8. G[n + 1] = G[n] + t[n + 1] /\ G[n + 1] = Sum(t)
    BY <1>1, <1>4 DEF SumsUp
  <1>9. F[n] = Sum(s) /\ F[n] \in Int
    BY <1>1, <1>2 DEF SumsUp
  <1> QED  BY <1>7, <1>8, <1>9

LEMMA SumNone ==
    ASSUME NEW s, Tupled(s, 0)
    PROVE  Sum(s) = 0
  <1>1. \A k \in 1..0 : s[k] \in Int
    OBVIOUS
  <1>2. PICK F : SumsUp(F, s, 0)
    BY <1>1, SumIs
  <1> QED  BY <1>2 DEF SumsUp

\* A sum of naturals is one.
LEMMA SumNat ==
    ASSUME NEW s, NEW n, Tupled(s, n), \A k \in 1..n : s[k] \in Nat
    PROVE  Sum(s) \in Nat
  <1>1. n \in Nat /\ \A k \in 1..n : s[k] \in Int
    BY DEF Tupled
  <1>2. PICK F : SumsUp(F, s, n)
    BY <1>1, SumIs
  <1> DEFINE Natural == {k \in Nat : k <= n => F[k] \in Nat}
  <1>3. 0 \in Natural
    BY <1>2 DEF SumsUp
  <1>4. ASSUME NEW k \in Nat, k \in Natural
        PROVE  k + 1 \in Natural
    <2> SUFFICES ASSUME k + 1 <= n
                 PROVE  F[k + 1] \in Nat
      OBVIOUS
    <2>1. k < n /\ k <= n /\ k + 1 \in 1..n
      BY <1>1
    <2>2. F[k] \in Nat
      BY <1>4, <2>1
    <2>3. s[k + 1] \in Nat
      BY <2>1
    <2>4. F[k + 1] = F[k] + s[k + 1]
      BY <1>2, <2>1 DEF SumsUp
    <2> QED  BY <2>2, <2>3, <2>4
  <1>5. F[n] \in Nat
    <2> HIDE DEF Natural
    <2>1. n \in Natural
      BY <1>1, <1>3, <1>4, Induction
    <2> QED  BY <1>1, <2>1 DEF Natural
  <1> QED  BY <1>2, <1>5 DEF SumsUp

\* The transport's sums are these.
LEMMA SumsAgree ==
    ASSUME NEW numbers
    PROVE  SumOf(numbers) = Sum(numbers)
  BY DEF SumOf, Sum

\* The bytes of one frame more.
LEMMA BytesMore ==
    ASSUME NEW s, NEW n, Tupled(s, n), \A k \in 1..n : s[k].plen \in Nat,
           NEW t, Tupled(t, n + 1), \A k \in 1..n : t[k] = s[k], t[n + 1].plen \in Nat
    PROVE  BytesOf(s) \in Nat /\ BytesOf(t) = BytesOf(s) + t[n + 1].plen
  <1>1. n \in Nat /\ n + 1 \in Nat /\ DOMAIN s = 1..n /\ DOMAIN t = 1..(n + 1)
    <2>1. n \in Nat /\ n + 1 \in Nat
      BY DEF Tupled
    <2>2. DOMAIN s = 1..n
      BY TupledIs
    <2>3. DOMAIN t = 1..(n + 1)
      BY TupledIs
    <2> QED  BY <2>1, <2>2, <2>3
  <1> DEFINE a == [k \in 1..n |-> s[k].plen]
             b == [k \in 1..(n + 1) |-> t[k].plen]
  <1>2. BytesOf(s) = Sum(a) /\ BytesOf(t) = Sum(b)
    BY <1>1, SumsAgree DEF BytesOf
  <1>3. Tupled(a, n) /\ \A k \in 1..n : a[k] \in Nat /\ a[k] \in Int
    BY <1>1 DEF Tupled
  <1>4. Tupled(b, n + 1) /\ (\A k \in 1..n : b[k] = a[k]) /\ b[n + 1] = t[n + 1].plen
    <2>1. n + 1 \in 1..(n + 1) /\ \A k \in 1..n : k \in 1..(n + 1)
      BY <1>1
    <2>2. \A k \in 1..n : b[k] = a[k]
      BY <2>1
    <2>3. b[n + 1] = t[n + 1].plen
      BY <2>1
    <2>4. Tupled(b, n + 1)
      BY <1>1 DEF Tupled
    <2> QED  BY <2>2, <2>3, <2>4
  <1> HIDE DEF a, b
  <1>5. Sum(b) = Sum(a) + b[n + 1]
    BY <1>3, <1>4, SumMore
  <1>6. Sum(a) \in Nat
    BY <1>3, SumNat
  <1> QED  BY <1>2, <1>4, <1>5, <1>6

LEMMA BytesNone == BytesOf(<<>>) = 0
  <1> DEFINE a == [k \in DOMAIN <<>> |-> <<>>[k].plen]
  <1>1. Tupled(a, 0)
    BY DEF Tupled
  <1>2. BytesOf(<<>>) = Sum(a)
    BY SumsAgree DEF BytesOf
  <1> HIDE DEF a
  <1> QED  BY <1>1, <1>2, SumNone

\* The permitted ones among one frame more.
LEMMA PermittedIs ==
    ASSUME NEW s, NEW n, Tupled(s, n)
    PROVE  \E F : GoesOver(F, OfFrames(GUEST_PERMITTED), <<>>, s, n) /\ F[n] = Permitted(s)
  <1> DEFINE of == OfFrames(GUEST_PERMITTED)
             Direct(iter) == iter = [S \in SUBSET (1..n) |->
                                IF S = {} THEN <<>>
                                ELSE IF s[Max(S)].type \in GUEST_PERMITTED
                                     THEN Append(iter[S \ {Max(S)}], s[Max(S)])
                                     ELSE iter[S \ {Max(S)}]]
             fold == CHOOSE iter : Direct(iter)
  <1>1. n \in Nat /\ DOMAIN s = 1..n
    BY TupledIs DEF Tupled
  <1>2. Permitted(s) = fold[1..n]
    BY <1>1 DEF Permitted, FoldLeft, MapThenFoldSet
  <1>3. \A folded, item : Step(of, folded, item) =
            IF item.type \in GUEST_PERMITTED THEN Append(folded, item) ELSE folded
    BY DEF Step, OfFrames
  <1> HIDE DEF of
  <1>4. \A iter : Direct(iter) <=> IsFold(iter, of, <<>>, s, 1..n)
    BY <1>3, Zenon DEF IsFold
  <1> HIDE DEF Direct
  <1>5. IsFold(fold, of, <<>>, s, 1..n)
    <2>1. \E iter : Direct(iter)
      BY <1>1, <1>4, FoldExists
    <2> QED  BY <1>4, <2>1
  <1> HIDE DEF fold
  <1>6. PICK F : GoesOver(F, of, <<>>, s, n) /\ F[n] = fold[1..n]
    BY <1>1, <1>5, FoldSteps
  <1> QED  BY <1>2, <1>6 DEF of

LEMMA PermittedMore ==
    ASSUME NEW s, NEW n, Tupled(s, n), NEW t, Tupled(t, n + 1), \A k \in 1..n : t[k] = s[k]
    PROVE  Permitted(t) = IF t[n + 1].type \in GUEST_PERMITTED THEN Append(Permitted(s), t[n + 1])
                          ELSE Permitted(s)
  <1> DEFINE of == OfFrames(GUEST_PERMITTED)
  <1>1. n \in Nat /\ n + 1 \in Nat /\ n <= n + 1 /\ n <= n /\ n + 1 \in 1..(n + 1)
    BY DEF Tupled
  <1>2. PICK F : GoesOver(F, of, <<>>, s, n) /\ F[n] = Permitted(s)
    BY PermittedIs
  <1>3. PICK G : GoesOver(G, of, <<>>, t, n + 1) /\ G[n + 1] = Permitted(t)
    BY PermittedIs
  <1>4. Step(of, G[n], t[n + 1]) =
            IF t[n + 1].type \in GUEST_PERMITTED THEN Append(G[n], t[n + 1]) ELSE G[n]
    BY DEF Step, OfFrames
  <1> HIDE DEF of
  <1>5. G[n] = F[n]
    <2>1. \A i \in 1..n : s[i] = t[i]
      OBVIOUS
    <2>2. GoesOver(F, of, <<>>, s, n)
      BY <1>2
    <2>3. GoesOver(G, of, <<>>, t, n + 1)
      BY <1>3
    <2>4. F[n] = G[n]
      BY <1>1, <2>1, <2>2, <2>3, FoldsAgree
    <2> QED  BY <2>4
  <1>6. G[n + 1] = Step(of, G[n], t[n + 1])
    BY <1>1, <1>3 DEF GoesOver
  <1> QED  BY <1>2, <1>3, <1>4, <1>5, <1>6

LEMMA PermittedNone == Permitted(<<>>) = <<>>
  <1>1. Tupled(<<>>, 0)
    BY DEF Tupled
  <1>2. PICK F : GoesOver(F, OfFrames(GUEST_PERMITTED), <<>>, <<>>, 0) /\ F[0] = Permitted(<<>>)
    BY <1>1, PermittedIs
  <1> QED  BY <1>2 DEF GoesOver

\* One frame more of a stream.
LEMMA FrameMore ==
    ASSUME NEW s \in Seq(Frame), NEW k \in Nat, k < Len(s)
    PROVE  /\ s[k + 1] \in Frame
           /\ BytesOf(SubSeq(s, 1, k)) \in Nat
           /\ BytesOf(SubSeq(s, 1, k + 1)) = BytesOf(SubSeq(s, 1, k)) + s[k + 1].plen
           /\ Permitted(SubSeq(s, 1, k + 1)) =
                  IF s[k + 1].type \in GUEST_PERMITTED THEN Append(Permitted(SubSeq(s, 1, k)), s[k + 1])
                  ELSE Permitted(SubSeq(s, 1, k))
  <1> DEFINE n == Len(s)
             a == SubSeq(s, 1, k)
             b == SubSeq(s, 1, k + 1)
  <1>1. Tupled(s, n) /\ n \in Nat /\ k \in 0..n /\ k + 1 \in 0..n /\ k + 1 \in 1..(k + 1)
    BY SeqTupled
  <1>2. \A j \in 1..n : s[j] \in Frame /\ s[j].plen \in Nat
    <2>1. \A j \in 1..n : s[j] \in Frame
      OBVIOUS
    <2>2. \A f \in Frame : f.plen \in Nat
      BY DEF Frame
    <2> QED  BY <2>1, <2>2
  <1> HIDE DEF n
  <1>3. Tupled(a, k) /\ \A j \in 1..k : a[j] = s[j]
    BY <1>1, TupledPrefix
  <1>4. Tupled(b, k + 1) /\ \A j \in 1..(k + 1) : b[j] = s[j]
    BY <1>1, TupledPrefix
  <1> HIDE DEF a, b
  <1>5. \A j \in 1..k : j \in 1..n /\ j \in 1..(k + 1)
    BY <1>1
  <1>6. (\A j \in 1..k : b[j] = a[j]) /\ b[k + 1] = s[k + 1]
    BY <1>1, <1>3, <1>4, <1>5
  <1>7. k + 1 \in 1..n
    BY <1>1
  <1>8. s[k + 1] \in Frame /\ b[k + 1].plen \in Nat /\ \A j \in 1..k : a[j].plen \in Nat
    BY <1>2, <1>3, <1>5, <1>6, <1>7
  <1>9. BytesOf(a) \in Nat /\ BytesOf(b) = BytesOf(a) + s[k + 1].plen
    BY <1>3, <1>4, <1>6, <1>8, BytesMore
  <1>10. Permitted(b) = IF s[k + 1].type \in GUEST_PERMITTED THEN Append(Permitted(a), s[k + 1])
                        ELSE Permitted(a)
    BY <1>3, <1>4, <1>6, PermittedMore
  <1> QED  BY <1>8, <1>9, <1>10 DEF a, b

\* The bytes of frames.
LEMMA BytesNat ==
    ASSUME NEW s \in Seq(Frame)
    PROVE  BytesOf(s) \in Nat
  <1> DEFINE n == Len(s)
             a == [k \in 1..n |-> s[k].plen]
  <1>1. n \in Nat /\ DOMAIN s = 1..n /\ \A j \in 1..n : s[j].plen \in Nat
    <2>1. \A j \in 1..n : s[j] \in Frame
      OBVIOUS
    <2>2. \A f \in Frame : f.plen \in Nat
      BY DEF Frame
    <2> QED  BY <2>1, <2>2
  <1> HIDE DEF n
  <1>2. BytesOf(s) = Sum(a)
    BY <1>1, SumsAgree DEF BytesOf
  <1>3. Tupled(a, n) /\ \A k \in 1..n : a[k] \in Nat
    BY <1>1 DEF Tupled
  <1> HIDE DEF a
  <1> QED  BY <1>2, <1>3, SumNat

\* One claim more.
LEMMA ClaimMore ==
    ASSUME NEW s \in Seq(Frame), NEW f \in Frame
    PROVE  /\ Append(s, f) \in Seq(Frame)
           /\ Len(Append(s, f)) = Len(s) + 1
           /\ BytesOf(Append(s, f)) = BytesOf(s) + f.plen
  <1> DEFINE n == Len(s)
             t == Append(s, f)
  <1>1. t \in Seq(Frame) /\ Len(t) = n + 1 /\ n \in Nat
    OBVIOUS
  <1>2. Tupled(s, n)
    BY SeqTupled
  <1>3. \A j \in 1..n : s[j].plen \in Nat
    <2>1. \A j \in 1..n : s[j] \in Frame
      OBVIOUS
    <2>2. \A g \in Frame : g.plen \in Nat
      BY DEF Frame
    <2> QED  BY <2>1, <2>2
  <1>4. f.plen \in Nat
    BY DEF Frame
  <1>5. Extends(t, s, n, f)
    BY <1>2, TupledAppend
  <1> HIDE DEF n, t
  <1>6. Tupled(t, n + 1) /\ (\A j \in 1..n : t[j] = s[j]) /\ t[n + 1] = f
    BY <1>5 DEF Extends
  <1>7. BytesOf(t) = BytesOf(s) + t[n + 1].plen
    BY <1>2, <1>3, <1>4, <1>6, BytesMore
  <1> QED  BY <1>1, <1>6, <1>7 DEF n, t

\* What one frame is let pass by.
Passes(s, k) ==
    /\ Len(Permitted(SubSeq(s, 1, k - 1))) < max_events
    /\ s[k].whole = "all"
    /\ s[k].plen <= MAX_FRAME_PAYLOAD
    /\ BytesOf(SubSeq(s, 1, k)) <= max_total_bytes

LEMMA ReadableIs ==
    ASSUME NEW s
    PROVE  Readable(s) = {n \in 0..Len(s) : \A k \in 1..n : Passes(s, k)}
  BY Zenon DEF Readable, Passes

\* What is taken ends before the first frame that is not let pass.
LEMMA TakenIs ==
    ASSUME NEW s \in Seq(Frame), NEW n \in Readable(s), n = Len(s) \/ ~Passes(s, n + 1)
    PROVE  Taken(s) = n
  <1>1. Len(s) \in Nat /\ n \in 0..Len(s)
    BY ReadableIs
  <1>2. \A m \in Readable(s) : n >= m
    <2> SUFFICES ASSUME NEW m \in Readable(s), m > n
                 PROVE  FALSE
      BY <1>1, ReadableIs
    <2>1. m \in 0..Len(s) /\ \A k \in 1..m : Passes(s, k)
      BY ReadableIs
    <2>2. n + 1 \in 1..m /\ n # Len(s)
      BY <1>1, <2>1
    <2> QED  BY <2>1, <2>2
  <1>3. \A x \in Readable(s) : (\A y \in Readable(s) : x >= y) => x = n
    <2> SUFFICES ASSUME NEW x \in Readable(s), \A y \in Readable(s) : x >= y
                 PROVE  x = n
      OBVIOUS
    <2>1. x >= n /\ n >= x
      BY <1>2
    <2>2. x \in 0..Len(s)
      BY ReadableIs
    <2> QED  BY <1>1, <2>1, <2>2
  <1> QED  BY <1>2, <1>3 DEF Taken, Max

\* The invariant: what is taken of the stream so far was let pass, the claims are
\* the permitted ones of it, and so was each call that returned; the statistics
\* are the sums over the calls.
Call == [stream : Seq(Frame), claims : Seq(Frame)]
Exact(call) ==
    /\ call.claims = Permitted(ReadPrefix(call.stream))
    /\ Taken(call.stream) \in Nat
Reading ==
    reading =>
        /\ stream \in Seq(Frame) /\ claims \in Seq(Frame)
        /\ offset \in Readable(stream)
        /\ claims = Permitted(SubSeq(stream, 1, offset))
        /\ total = BytesOf(SubSeq(stream, 1, offset))
Lengths(calls) == [r \in DOMAIN calls |-> Len(calls[r].claims)]
Bytes(calls) == [r \in DOMAIN calls |-> BytesOf(calls[r].claims)]
Frames(calls) == [r \in DOMAIN calls |-> Taken(calls[r].stream)]
Stopped(calls) == {r \in DOMAIN calls : Taken(calls[r].stream) < Len(calls[r].stream)}
Tally(calls, accepted, bytes, taken) ==
    /\ stats.frames_accepted = Sum(Lengths(calls)) + accepted
    /\ stats.bytes_accepted = Sum(Bytes(calls)) + bytes
    /\ stats.frames_accepted + stats.frames_rejected
       = Sum(Frames(calls)) + Cardinality(Stopped(calls)) + taken
Accounted ==
    IF reading THEN Tally(returned, Len(claims), BytesOf(claims), offset)
    ELSE Tally(returned, 0, 0, 0)
Reasons == {"event cap", "truncated header", "oversized payload", "payload past end",
            "byte cap", "unknown type", "host-only"}
Stats ==
    [frames_accepted : Nat, frames_rejected : Nat, bytes_accepted : Nat, rejections : Seq(Reasons)]
ReadInv ==
    /\ reading \in BOOLEAN /\ stats \in Stats
    /\ returned \in Seq(Call)
    /\ \A r \in 1..Len(returned) : Exact(returned[r])
    /\ Reading
    /\ Accounted

\* Every sum over the calls that returned is a number, and one call more adds
\* what it had.
LEMMA CallMore ==
    ASSUME NEW calls \in Seq(Call), \A r \in 1..Len(calls) : Exact(calls[r]),
           NEW call \in Call, Exact(call)
    PROVE  LET more == Append(calls, call)
           IN  /\ more \in Seq(Call) /\ \A r \in 1..Len(more) : Exact(more[r])
               /\ Sum(Lengths(calls)) \in Int /\ Sum(Lengths(more)) = Sum(Lengths(calls)) + Len(call.claims)
               /\ Sum(Bytes(calls)) \in Int /\ Sum(Bytes(more)) = Sum(Bytes(calls)) + BytesOf(call.claims)
               /\ Sum(Frames(calls)) \in Int /\ Sum(Frames(more)) = Sum(Frames(calls)) + Taken(call.stream)
               /\ Cardinality(Stopped(calls)) \in Nat
               /\ Cardinality(Stopped(more)) = Cardinality(Stopped(calls))
                     + IF Taken(call.stream) < Len(call.stream) THEN 1 ELSE 0
  <1> DEFINE more == Append(calls, call)
             n == Len(calls)
  <1>1. /\ n \in Nat /\ DOMAIN calls = 1..n /\ more \in Seq(Call) /\ Len(more) = n + 1
        /\ DOMAIN more = 1..(n + 1) /\ more[n + 1] = call /\ \A r \in 1..n : more[r] = calls[r]
    OBVIOUS
  <1>2. \A r \in 1..(n + 1) : r \in 1..n \/ r = n + 1
    BY <1>1
  <1>3. \A r \in 1..n : r \in 1..(n + 1)
    BY <1>1
  <1>4. n + 1 \in 1..(n + 1) /\ n + 1 \in Nat
    BY <1>1
  <1> HIDE DEF more, n
  <1>5. \A r \in 1..(n + 1) : Exact(more[r])
    BY <1>1, <1>2 DEF n
  <1>6. \A c \in Call : Len(c.claims) \in Int /\ BytesOf(c.claims) \in Int
    <2>1. \A c \in Call : c.claims \in Seq(Frame)
      BY DEF Call
    <2>2. \A s \in Seq(Frame) : Len(s) \in Int
      OBVIOUS
    <2>3. \A s \in Seq(Frame) : BytesOf(s) \in Int
      BY BytesNat
    <2> QED  BY <2>1, <2>2, <2>3
  <1>7. \A r \in 1..n : calls[r] \in Call /\ Exact(calls[r])
    BY <1>1 DEF n
  <1>8. Sum(Lengths(calls)) \in Int /\ Sum(Lengths(more)) = Sum(Lengths(calls)) + Len(call.claims)
    <2> DEFINE s == Lengths(calls)
               t == Lengths(more)
    <2>1. Tupled(s, n) /\ \A r \in 1..n : s[r] = Len(calls[r].claims)
      BY <1>1 DEF Tupled, Lengths
    <2>2. Tupled(t, n + 1) /\ \A r \in 1..(n + 1) : t[r] = Len(more[r].claims)
      BY <1>1, <1>4 DEF Tupled, Lengths
    <2> HIDE DEF s, t
    <2>3. \A r \in 1..n : s[r] \in Int /\ t[r] = s[r]
      BY <1>1, <1>3, <1>6, <1>7, <2>1, <2>2
    <2>4. t[n + 1] = Len(call.claims) /\ t[n + 1] \in Int
      BY <1>1, <1>4, <1>6, <2>2
    <2>5. Sum(s) \in Int /\ Sum(t) = Sum(s) + t[n + 1]
      BY <2>1, <2>2, <2>3, <2>4, SumMore
    <2> QED  BY <2>4, <2>5 DEF s, t
  <1>9. Sum(Bytes(calls)) \in Int /\ Sum(Bytes(more)) = Sum(Bytes(calls)) + BytesOf(call.claims)
    <2> DEFINE s == Bytes(calls)
               t == Bytes(more)
    <2>1. Tupled(s, n) /\ \A r \in 1..n : s[r] = BytesOf(calls[r].claims)
      BY <1>1 DEF Tupled, Bytes
    <2>2. Tupled(t, n + 1) /\ \A r \in 1..(n + 1) : t[r] = BytesOf(more[r].claims)
      BY <1>1, <1>4 DEF Tupled, Bytes
    <2> HIDE DEF s, t
    <2>3. \A r \in 1..n : s[r] \in Int /\ t[r] = s[r]
      BY <1>1, <1>3, <1>6, <1>7, <2>1, <2>2
    <2>4. t[n + 1] = BytesOf(call.claims) /\ t[n + 1] \in Int
      BY <1>1, <1>4, <1>6, <2>2
    <2>5. Sum(s) \in Int /\ Sum(t) = Sum(s) + t[n + 1]
      BY <2>1, <2>2, <2>3, <2>4, SumMore
    <2> QED  BY <2>4, <2>5 DEF s, t
  <1>10. Sum(Frames(calls)) \in Int /\ Sum(Frames(more)) = Sum(Frames(calls)) + Taken(call.stream)
    <2> DEFINE s == Frames(calls)
               t == Frames(more)
    <2>1. Tupled(s, n) /\ \A r \in 1..n : s[r] = Taken(calls[r].stream)
      BY <1>1 DEF Tupled, Frames
    <2>2. Tupled(t, n + 1) /\ \A r \in 1..(n + 1) : t[r] = Taken(more[r].stream)
      BY <1>1, <1>4 DEF Tupled, Frames
    <2> HIDE DEF s, t
    <2>3. \A r \in 1..n : s[r] \in Int /\ t[r] = s[r]
      BY <1>1, <1>3, <1>7, <2>1, <2>2 DEF Exact
    <2>4. t[n + 1] = Taken(call.stream) /\ t[n + 1] \in Int
      BY <1>1, <1>4, <2>2 DEF Exact
    <2>5. Sum(s) \in Int /\ Sum(t) = Sum(s) + t[n + 1]
      BY <2>1, <2>2, <2>3, <2>4, SumMore
    <2> QED  BY <2>4, <2>5 DEF s, t
  <1>11. /\ Cardinality(Stopped(calls)) \in Nat
         /\ Cardinality(Stopped(more)) = Cardinality(Stopped(calls))
                + IF Taken(call.stream) < Len(call.stream) THEN 1 ELSE 0
    <2> DEFINE S == Stopped(calls)
    <2>1. IsFiniteSet(S) /\ Cardinality(S) \in Nat /\ n + 1 \notin S
      <3>1. S \subseteq 1..n
        BY <1>1 DEF Stopped
      <3>2. IsFiniteSet(1..n)
        BY <1>1, FS_Interval
      <3>3. IsFiniteSet(S)
        BY <3>1, <3>2, FS_Subset
      <3> QED  BY <1>1, <3>1, <3>3, FS_CardinalityType
    <2>2. CASE Taken(call.stream) < Len(call.stream)
      <3>1. Stopped(more) = S \cup {n + 1}
        BY <1>1, <1>2, <1>3, <1>4, <2>2 DEF Stopped
      <3>2. Cardinality(S \cup {n + 1}) = Cardinality(S) + 1
        BY <2>1, FS_AddElement
      <3> QED  BY <2>1, <2>2, <3>1, <3>2
    <2>3. CASE ~(Taken(call.stream) < Len(call.stream))
      <3>1. Stopped(more) = S
        BY <1>1, <1>2, <1>3, <1>4, <2>3 DEF Stopped
      <3> QED  BY <2>1, <2>3, <3>1
    <2> QED  BY <2>2, <2>3
  <1> QED  BY <1>1, <1>5, <1>8, <1>9, <1>10, <1>11 DEF more

LEMMA ReadInvInit == ReadInit => ReadInv
  <1> SUFFICES ASSUME ReadInit
               PROVE  ReadInv
    OBVIOUS
  <1>1. /\ reading = FALSE /\ returned = <<>>
        /\ stats = [frames_accepted |-> 0, frames_rejected |-> 0,
                    bytes_accepted |-> 0, rejections |-> <<>>]
    BY DEF ReadInit
  <1>2. Tupled(Lengths(<<>>), 0) /\ Tupled(Bytes(<<>>), 0) /\ Tupled(Frames(<<>>), 0)
    BY DEF Tupled, Lengths, Bytes, Frames
  <1>3. Sum(Lengths(<<>>)) = 0 /\ Sum(Bytes(<<>>)) = 0 /\ Sum(Frames(<<>>)) = 0
    BY <1>2, SumNone
  <1>4. Stopped(<<>>) = {}
    BY DEF Stopped
  <1>5. Cardinality(Stopped(<<>>)) = 0
    BY <1>4, FS_EmptySet
  <1>6. Accounted
    BY <1>1, <1>3, <1>5 DEF Accounted, Tally
  <1>7. stats \in Stats
    BY <1>1 DEF Stats
  <1>8. returned \in Seq(Call) /\ \A r \in 1..Len(returned) : Exact(returned[r])
    BY <1>1
  <1> QED  BY <1>1, <1>6, <1>7, <1>8 DEF ReadInv, Reading

\* What a rejection changes.
LEMMA Rejected ==
    ASSUME stats \in Stats, NEW reason \in Reasons, reject(reason)
    PROVE  /\ stats' \in Stats
           /\ stats'.frames_accepted = stats.frames_accepted
           /\ stats'.bytes_accepted = stats.bytes_accepted
           /\ stats'.frames_rejected = stats.frames_rejected + 1
  <1> DEFINE noted == IF Len(stats.rejections) < MaxNotes THEN Append(stats.rejections, reason)
                      ELSE stats.rejections
  <1>1. /\ stats.frames_rejected \in Nat /\ stats.rejections \in Seq(Reasons)
        /\ stats.frames_accepted \in Nat /\ stats.bytes_accepted \in Nat
    BY DEF Stats
  <1>2. noted \in Seq(Reasons)
    <2>1. Append(stats.rejections, reason) \in Seq(Reasons)
      BY <1>1, AppendProperties
    <2> QED  BY <1>1, <2>1
  <1>3. stats' = [stats EXCEPT !.frames_rejected = stats.frames_rejected + 1, !.rejections = noted]
    BY DEF reject
  <1> HIDE DEF noted
  <1>4. stats = [frames_accepted |-> stats.frames_accepted, frames_rejected |-> stats.frames_rejected,
                 bytes_accepted |-> stats.bytes_accepted, rejections |-> stats.rejections]
    BY DEF Stats
  <1>5. stats' = [frames_accepted |-> stats.frames_accepted,
                  frames_rejected |-> stats.frames_rejected + 1,
                  bytes_accepted |-> stats.bytes_accepted, rejections |-> noted]
    BY <1>3, <1>4
  <1> QED  BY <1>1, <1>2, <1>5 DEF Stats

\* A call that returns where the stream ends, or before a frame that is not let
\* pass.
LEMMA ReadInvReturn ==
    ASSUME ReadInv, reading, Return, offset = Len(stream) \/ ~Passes(stream, offset + 1),
           stats' \in Stats, stats'.frames_accepted = stats.frames_accepted,
           stats'.bytes_accepted = stats.bytes_accepted,
           stats'.frames_rejected
               = stats.frames_rejected + IF offset < Len(stream) THEN 1 ELSE 0
    PROVE  ReadInv'
  <1> DEFINE call == [stream |-> stream, claims |-> claims]
  <1>1. /\ stream \in Seq(Frame) /\ claims \in Seq(Frame) /\ offset \in Readable(stream)
        /\ claims = Permitted(SubSeq(stream, 1, offset))
    BY DEF ReadInv, Reading
  <1>2. Taken(stream) = offset
    BY <1>1, TakenIs
  <1>3. offset \in Nat
    BY <1>1, ReadableIs
  <1>4. call \in Call /\ call.stream = stream /\ call.claims = claims
    BY <1>1 DEF Call
  <1>5. reading' = FALSE /\ returned' = Append(returned, call)
    BY DEF Return
  <1> HIDE DEF call
  <1>6. Exact(call)
    BY <1>1, <1>2, <1>3, <1>4 DEF Exact, ReadPrefix, Taken
  <1>7. /\ returned' \in Seq(Call) /\ \A r \in 1..Len(returned') : Exact(returned'[r])
        /\ Sum(Lengths(returned)) \in Int
        /\ Sum(Lengths(returned')) = Sum(Lengths(returned)) + Len(claims)
        /\ Sum(Bytes(returned)) \in Int
        /\ Sum(Bytes(returned')) = Sum(Bytes(returned)) + BytesOf(claims)
        /\ Sum(Frames(returned)) \in Int
        /\ Sum(Frames(returned')) = Sum(Frames(returned)) + offset
        /\ Cardinality(Stopped(returned)) \in Nat
        /\ Cardinality(Stopped(returned')) = Cardinality(Stopped(returned))
               + IF offset < Len(stream) THEN 1 ELSE 0
    BY <1>2, <1>4, <1>5, <1>6, CallMore DEF ReadInv
  <1>8. Tally(returned, Len(claims), BytesOf(claims), offset)
    BY DEF ReadInv, Accounted
  <1>9. Len(claims) \in Nat /\ BytesOf(claims) \in Nat
    BY <1>1, BytesNat
  <1>10. stats.frames_rejected \in Nat /\ stats.frames_accepted \in Nat /\ stats.bytes_accepted \in Nat
    BY DEF ReadInv, Stats
  <1>11. /\ stats'.frames_accepted = Sum(Lengths(returned')) + 0
         /\ stats'.bytes_accepted = Sum(Bytes(returned')) + 0
    BY <1>7, <1>8, <1>9, <1>10 DEF Tally
  <1>12. stats'.frames_accepted + stats'.frames_rejected
         = Sum(Frames(returned')) + Cardinality(Stopped(returned')) + 0
    <2> DEFINE one == IF offset < Len(stream) THEN 1 ELSE 0
    <2>1. one \in Nat /\ stats'.frames_rejected = stats.frames_rejected + one
      OBVIOUS
    <2>2. Cardinality(Stopped(returned')) = Cardinality(Stopped(returned)) + one
      BY <1>7
    <2> HIDE DEF one
    <2>3. stats.frames_accepted + stats.frames_rejected
          = Sum(Frames(returned)) + Cardinality(Stopped(returned)) + offset
      BY <1>8 DEF Tally
    <2>4. stats'.frames_accepted = stats.frames_accepted
      OBVIOUS
    <2> DEFINE a == Sum(Frames(returned))
               b == Sum(Frames(returned'))
               c == Cardinality(Stopped(returned))
               d == Cardinality(Stopped(returned'))
    <2>5. a \in Int /\ b = a + offset /\ c \in Nat /\ d = c + one
      BY <1>7, <2>2
    <2>6. stats.frames_accepted + stats.frames_rejected = a + c + offset
      BY <2>3
    <2> HIDE DEF a, b, c, d
    <2>7. stats'.frames_accepted + stats'.frames_rejected = b + d + 0
      BY <1>3, <1>10, <2>1, <2>4, <2>5, <2>6
    <2> QED  BY <2>7 DEF b, d
  <1>13. Accounted'
    BY <1>5, <1>11, <1>12 DEF Accounted, Tally
  <1>14. \A r \in 1..Len(returned') : Exact(returned[r])'
    BY <1>7
  <1> QED  BY <1>5, <1>7, <1>13, <1>14 DEF ReadInv, Reading

\* The sums are numbers at any time.
LEMMA ReadInvInts ==
    ASSUME ReadInv
    PROVE  /\ Sum(Frames(returned)) + Cardinality(Stopped(returned)) \in Int
           /\ Sum(Lengths(returned)) \in Int /\ Sum(Bytes(returned)) \in Int
  <1> DEFINE none == [stream |-> <<>>, claims |-> <<>>]
  <1>1. none \in Call /\ none.stream = <<>> /\ none.claims = <<>>
    BY DEF Call
  <1> HIDE DEF none
  <1>2. SubSeq(<<>>, 1, 0) = <<>>
    OBVIOUS
  <1>3. 0 \in Readable(<<>>) /\ 0 = Len(<<>>) /\ <<>> \in Seq(Frame)
    <2>1. 0 \in 0..Len(<<>>) /\ \A k \in 1..0 : Passes(<<>>, k)
      OBVIOUS
    <2>2. 0 \in Readable(<<>>)
      BY <2>1, ReadableIs
    <2> QED  BY <2>2
  <1>4. Taken(<<>>) = 0
    BY <1>3, TakenIs
  <1>5. Exact(none)
    <2>1. Max(Readable(<<>>)) = 0
      BY <1>4 DEF Taken
    <2>2. ReadPrefix(<<>>) = <<>>
      BY <1>2, <2>1 DEF ReadPrefix
    <2>3. none.claims = Permitted(ReadPrefix(none.stream))
      BY <1>1, <2>2, PermittedNone
    <2>4. Taken(none.stream) \in Nat
      BY <1>1, <1>4
    <2> QED  BY <2>3, <2>4 DEF Exact
  <1>6. returned \in Seq(Call) /\ \A r \in 1..Len(returned) : Exact(returned[r])
    BY DEF ReadInv
  <1>7. /\ Sum(Lengths(returned)) \in Int /\ Sum(Bytes(returned)) \in Int
        /\ Sum(Frames(returned)) \in Int /\ Cardinality(Stopped(returned)) \in Nat
    BY <1>1, <1>5, <1>6, CallMore
  <1> QED  BY <1>7

\* A frame that is read, the byte cap not passed, is let pass.
LEMMA FrameTaken ==
    ASSUME ReadInv, PayloadRead, total' <= max_total_bytes
    PROVE  /\ reading /\ stream \in Seq(Frame) /\ claims \in Seq(Frame) /\ Current \in Frame
           /\ offset \in Nat /\ offset' = offset + 1
           /\ offset' \in Readable(stream)
           /\ total' = BytesOf(SubSeq(stream, 1, offset + 1))
           /\ Permitted(SubSeq(stream, 1, offset + 1)) =
                  IF Current.type \in GUEST_PERMITTED THEN Append(claims, Current) ELSE claims
  <1>1. /\ reading /\ offset < Len(stream) /\ Len(claims) < max_events
        /\ Current.plen <= MAX_FRAME_PAYLOAD /\ Current.whole = "all"
        /\ offset' = offset + 1 /\ total' = total + Current.plen
    BY DEF PayloadRead, HeaderRead, Iterating
  <1>2. /\ stream \in Seq(Frame) /\ claims \in Seq(Frame) /\ offset \in Readable(stream)
        /\ claims = Permitted(SubSeq(stream, 1, offset))
        /\ total = BytesOf(SubSeq(stream, 1, offset))
    BY <1>1 DEF ReadInv, Reading
  <1>3. offset \in 0..Len(stream) /\ Len(stream) \in Nat /\ \A k \in 1..offset : Passes(stream, k)
    BY <1>2, ReadableIs
  <1>4. offset \in Nat /\ offset + 1 \in 0..Len(stream) /\ (offset + 1) - 1 = offset
    BY <1>1, <1>3
  <1>5. Current = stream[offset + 1]
    BY DEF Current
  <1>6. /\ Current \in Frame
        /\ BytesOf(SubSeq(stream, 1, offset + 1)) = BytesOf(SubSeq(stream, 1, offset)) + Current.plen
        /\ Permitted(SubSeq(stream, 1, offset + 1)) =
               IF Current.type \in GUEST_PERMITTED THEN Append(claims, Current) ELSE claims
    BY <1>1, <1>2, <1>4, <1>5, FrameMore
  <1>7. total' = BytesOf(SubSeq(stream, 1, offset + 1))
    BY <1>1, <1>2, <1>6
  <1>8. Passes(stream, offset + 1)
    <2>1. Len(Permitted(SubSeq(stream, 1, (offset + 1) - 1))) < max_events
      BY <1>1, <1>2, <1>4
    <2> QED  BY <1>1, <1>5, <1>7, <2>1 DEF Passes
  <1>9. offset + 1 \in Readable(stream)
    <2>1. \A k \in 1..(offset + 1) : k \in 1..offset \/ k = offset + 1
      BY <1>4
    <2>2. \A k \in 1..(offset + 1) : Passes(stream, k)
      BY <1>3, <1>8, <2>1
    <2> QED  BY <1>4, <2>2, ReadableIs
  <1> QED  BY <1>1, <1>2, <1>4, <1>6, <1>7, <1>9

LEMMA ReadInvBegin ==
    ASSUME ReadInv, BeginRead
    PROVE  ReadInv'
  <1>1. /\ ~reading /\ stream' \in Streams /\ offset' = 0 /\ total' = 0 /\ claims' = <<>>
        /\ reading' = TRUE /\ stats' = stats /\ returned' = returned
    BY DEF BeginRead
  <1>2. stream' \in Seq(Frame)
    BY <1>1, TransportAssumption
  <1>3. 0 \in Readable(stream')
    <2>1. 0 \in 0..Len(stream') /\ \A k \in 1..0 : Passes(stream', k)
      BY <1>2
    <2> QED  BY <2>1, ReadableIs
  <1>4. SubSeq(stream', 1, 0) = <<>>
    BY <1>2
  <1>5. /\ Permitted(SubSeq(stream', 1, 0)) = <<>> /\ BytesOf(SubSeq(stream', 1, 0)) = 0
        /\ Len(<<>>) = 0 /\ BytesOf(<<>>) = 0 /\ <<>> \in Seq(Frame)
    <2>1. Permitted(SubSeq(stream', 1, 0)) = <<>>
      BY <1>4, PermittedNone
    <2>2. BytesOf(SubSeq(stream', 1, 0)) = 0
      BY <1>4, BytesNone
    <2>3. Len(<<>>) = 0 /\ <<>> \in Seq(Frame)
      OBVIOUS
    <2> QED  BY <2>1, <2>2, <2>3, BytesNone
  <1>6. Tally(returned, 0, 0, 0)
    BY <1>1 DEF ReadInv, Accounted
  <1>7. Accounted'
    BY <1>1, <1>5, <1>6 DEF Accounted, Tally
  <1>8. Reading'
    BY <1>1, <1>2, <1>3, <1>5 DEF Reading
  <1> QED  BY <1>1, <1>7, <1>8 DEF ReadInv

LEMMA ReadInvStop ==
    ASSUME ReadInv, StopUnread
    PROVE  ReadInv'
  <1>1. /\ reading /\ offset < Len(stream) /\ reject(StopReason) /\ Return
        /\ (Len(claims) >= max_events \/ Current.whole # "all" \/ Current.plen > MAX_FRAME_PAYLOAD)
    BY DEF StopUnread, Iterating
  <1>2. /\ stream \in Seq(Frame) /\ claims \in Seq(Frame) /\ offset \in Readable(stream)
        /\ claims = Permitted(SubSeq(stream, 1, offset))
    BY <1>1 DEF ReadInv, Reading
  <1>3. offset \in Nat /\ (offset + 1) - 1 = offset /\ Len(claims) \in Nat
    BY <1>2, ReadableIs
  <1>4. Current.plen \in Nat
    <2>1. Current \in Frame
      BY <1>1, <1>2, <1>3, FrameMore DEF Current
    <2> QED  BY <2>1 DEF Frame
  <1>5. ~Passes(stream, offset + 1)
    <2>1. max_events \in Nat /\ MAX_FRAME_PAYLOAD \in Nat
      BY TransportAssumption
    <2>2. ASSUME Passes(stream, offset + 1)
          PROVE  /\ Len(Permitted(SubSeq(stream, 1, (offset + 1) - 1))) < max_events
                 /\ Current.whole = "all" /\ Current.plen <= MAX_FRAME_PAYLOAD
      BY <2>2 DEF Passes, Current
    <2>3. ASSUME Passes(stream, offset + 1)
          PROVE  Len(claims) < max_events
      BY <1>2, <1>3, <2>2, <2>3
    <2>4. CASE Len(claims) >= max_events
      BY <1>3, <2>1, <2>3, <2>4
    <2>5. CASE Current.whole # "all"
      BY <2>2, <2>5
    <2>6. CASE Current.plen > MAX_FRAME_PAYLOAD
      BY <1>4, <2>1, <2>2, <2>6
    <2> QED  BY <1>1, <2>4, <2>5, <2>6
  <1>6. stats \in Stats /\ StopReason \in Reasons
    <2>1. stats \in Stats
      BY DEF ReadInv
    <2>2. StopReason \in Reasons
      BY DEF StopReason, Reasons
    <2> QED  BY <2>1, <2>2
  <1>7. /\ stats' \in Stats /\ stats'.frames_accepted = stats.frames_accepted
        /\ stats'.bytes_accepted = stats.bytes_accepted
        /\ stats'.frames_rejected = stats.frames_rejected + 1
    BY <1>1, <1>6, Rejected
  <1> QED  BY <1>1, <1>5, <1>7, ReadInvReturn

LEMMA ReadInvCap ==
    ASSUME ReadInv, StopAtTotal
    PROVE  ReadInv'
  <1>1. /\ reading /\ offset < Len(stream) /\ reject("byte cap") /\ Return
        /\ total' = total + Current.plen /\ total' > max_total_bytes
    BY DEF StopAtTotal, PayloadRead, HeaderRead, Iterating
  <1>2. /\ stream \in Seq(Frame) /\ offset \in Readable(stream)
        /\ total = BytesOf(SubSeq(stream, 1, offset))
    BY <1>1 DEF ReadInv, Reading
  <1>3. offset \in Nat
    BY <1>2, ReadableIs
  <1>4. /\ Current \in Frame /\ total \in Nat
        /\ BytesOf(SubSeq(stream, 1, offset + 1)) = total + Current.plen
    BY <1>1, <1>2, <1>3, FrameMore DEF Current
  <1>5. Current.plen \in Nat
    BY <1>4 DEF Frame
  <1>6. ~Passes(stream, offset + 1)
    <2>1. max_total_bytes \in Nat /\ total + Current.plen \in Nat
      BY <1>4, <1>5, TransportAssumption
    <2>2. total + Current.plen > max_total_bytes
      BY <1>1
    <2>3. ~(BytesOf(SubSeq(stream, 1, offset + 1)) <= max_total_bytes)
      BY <1>4, <2>1, <2>2
    <2> QED  BY <2>3 DEF Passes
  <1>7. stats \in Stats /\ "byte cap" \in Reasons
    <2>1. stats \in Stats
      BY DEF ReadInv
    <2> QED  BY <2>1 DEF Reasons
  <1>8. /\ stats' \in Stats /\ stats'.frames_accepted = stats.frames_accepted
        /\ stats'.bytes_accepted = stats.bytes_accepted
        /\ stats'.frames_rejected = stats.frames_rejected + 1
    BY <1>1, <1>7, Rejected
  <1> QED  BY <1>1, <1>6, <1>8, ReadInvReturn

LEMMA ReadInvSkip ==
    ASSUME ReadInv, Skip
    PROVE  ReadInv'
  <1>1. /\ PayloadRead /\ total' <= max_total_bytes /\ Current.type \notin GUEST_PERMITTED
        /\ stream' = stream /\ claims' = claims /\ reading' = reading /\ returned' = returned
        /\ reject(IF Current.type = Unknown THEN "unknown type" ELSE "host-only")
    BY DEF Skip
  <1>2. /\ reading /\ stream \in Seq(Frame) /\ claims \in Seq(Frame)
        /\ offset \in Nat /\ offset' = offset + 1 /\ offset' \in Readable(stream)
        /\ total' = BytesOf(SubSeq(stream, 1, offset + 1))
        /\ Permitted(SubSeq(stream, 1, offset + 1)) = claims
    BY <1>1, FrameTaken
  <1>3. stats \in Stats /\ (IF Current.type = Unknown THEN "unknown type" ELSE "host-only") \in Reasons
    <2>1. stats \in Stats
      BY DEF ReadInv
    <2>2. (IF Current.type = Unknown THEN "unknown type" ELSE "host-only") \in Reasons
      BY DEF Reasons
    <2> QED  BY <2>1, <2>2
  <1>4. /\ stats' \in Stats /\ stats'.frames_accepted = stats.frames_accepted
        /\ stats'.bytes_accepted = stats.bytes_accepted
        /\ stats'.frames_rejected = stats.frames_rejected + 1
    BY <1>1, <1>3, Rejected
  <1>5. stats.frames_rejected \in Nat /\ stats.frames_accepted \in Nat
    BY <1>3 DEF Stats
  <1>6. Tally(returned, Len(claims), BytesOf(claims), offset)
    BY <1>2 DEF ReadInv, Accounted
  <1>7. Accounted'
    <2> DEFINE a == Sum(Frames(returned)) + Cardinality(Stopped(returned))
    <2>1. /\ stats.frames_accepted = Sum(Lengths(returned)) + Len(claims)
          /\ stats.bytes_accepted = Sum(Bytes(returned)) + BytesOf(claims)
          /\ stats.frames_accepted + stats.frames_rejected = a + offset
      BY <1>6 DEF Tally
    <2>2. a \in Int
      BY ReadInvInts
    <2> HIDE DEF a
    <2>3. stats'.frames_accepted + stats'.frames_rejected = a + (offset + 1)
      BY <1>2, <1>4, <1>5, <2>1, <2>2
    <2> QED  BY <1>1, <1>2, <1>4, <2>1, <2>3 DEF Accounted, Tally, a
  <1>8. Reading'
    BY <1>1, <1>2 DEF Reading
  <1> QED  BY <1>1, <1>4, <1>7, <1>8 DEF ReadInv

LEMMA ReadInvAccept ==
    ASSUME ReadInv, Accept
    PROVE  ReadInv'
  <1>1. /\ PayloadRead /\ total' <= max_total_bytes /\ Current.type \in GUEST_PERMITTED
        /\ stream' = stream /\ claims' = Append(claims, Current) /\ reading' = reading
        /\ returned' = returned
        /\ stats' = [stats EXCEPT !.frames_accepted = stats.frames_accepted + 1,
                                  !.bytes_accepted = stats.bytes_accepted + Current.plen]
    BY DEF Accept
  <1>2. /\ reading /\ stream \in Seq(Frame) /\ claims \in Seq(Frame) /\ Current \in Frame
        /\ offset \in Nat /\ offset' = offset + 1 /\ offset' \in Readable(stream)
        /\ total' = BytesOf(SubSeq(stream, 1, offset + 1))
        /\ Permitted(SubSeq(stream, 1, offset + 1)) = Append(claims, Current)
    BY <1>1, FrameTaken
  <1>3. Current.plen \in Nat
    BY <1>2 DEF Frame
  <1>4. /\ claims' \in Seq(Frame) /\ Len(claims') = Len(claims) + 1
        /\ BytesOf(claims') = BytesOf(claims) + Current.plen
        /\ Len(claims) \in Nat /\ BytesOf(claims) \in Nat
    BY <1>1, <1>2, ClaimMore, BytesNat
  <1>5. /\ stats.frames_rejected \in Nat /\ stats.frames_accepted \in Nat
        /\ stats.bytes_accepted \in Nat /\ stats.rejections \in Seq(Reasons)
        /\ stats = [frames_accepted |-> stats.frames_accepted,
                    frames_rejected |-> stats.frames_rejected,
                    bytes_accepted |-> stats.bytes_accepted, rejections |-> stats.rejections]
    BY DEF ReadInv, Stats
  <1>6. stats' = [frames_accepted |-> stats.frames_accepted + 1,
                  frames_rejected |-> stats.frames_rejected,
                  bytes_accepted |-> stats.bytes_accepted + Current.plen,
                  rejections |-> stats.rejections]
    BY <1>1, <1>5
  <1>7. /\ stats' \in Stats /\ stats'.frames_accepted = stats.frames_accepted + 1
        /\ stats'.bytes_accepted = stats.bytes_accepted + Current.plen
        /\ stats'.frames_rejected = stats.frames_rejected
    BY <1>3, <1>5, <1>6 DEF Stats
  <1>8. Tally(returned, Len(claims), BytesOf(claims), offset)
    BY <1>2 DEF ReadInv, Accounted
  <1>9. Accounted'
    <2> DEFINE a == Sum(Frames(returned)) + Cardinality(Stopped(returned))
               b == Sum(Lengths(returned))
               c == Sum(Bytes(returned))
    <2>1. /\ stats.frames_accepted = b + Len(claims)
          /\ stats.bytes_accepted = c + BytesOf(claims)
          /\ stats.frames_accepted + stats.frames_rejected = a + offset
      BY <1>8 DEF Tally
    <2>2. a \in Int /\ b \in Int /\ c \in Int
      BY ReadInvInts
    <2> HIDE DEF a, b, c
    <2>3. stats'.frames_accepted + stats'.frames_rejected = a + (offset + 1)
      <3> DEFINE x == stats.frames_accepted
                 y == stats.frames_rejected
      <3>1. x \in Nat /\ y \in Nat /\ x + y = a + offset
        BY <1>5, <2>1
      <3>2. stats'.frames_accepted = x + 1 /\ stats'.frames_rejected = y
        BY <1>7
      <3> HIDE DEF x, y
      <3>3. (x + 1) + y = a + (offset + 1)
        BY <1>2, <2>2, <3>1
      <3> QED  BY <3>2, <3>3
    <2>4. stats'.frames_accepted = b + (Len(claims) + 1)
      BY <1>4, <1>7, <2>1, <2>2
    <2>5. stats'.bytes_accepted = c + (BytesOf(claims) + Current.plen)
      BY <1>3, <1>4, <1>7, <2>1, <2>2
    <2> QED  BY <1>1, <1>2, <1>4, <2>3, <2>4, <2>5 DEF Accounted, Tally, a, b, c
  <1>10. Reading'
    BY <1>1, <1>2, <1>4 DEF Reading
  <1> QED  BY <1>1, <1>7, <1>9, <1>10 DEF ReadInv

LEMMA ReadInvEnd ==
    ASSUME ReadInv, EndOfStream
    PROVE  ReadInv'
  <1>1. reading /\ offset >= Len(stream) /\ Return /\ stats' = stats
    BY DEF EndOfStream
  <1>2. stream \in Seq(Frame) /\ offset \in Readable(stream)
    BY <1>1 DEF ReadInv, Reading
  <1>3. offset = Len(stream) /\ ~(offset < Len(stream))
    BY <1>1, <1>2, ReadableIs
  <1>4. stats \in Stats /\ stats.frames_rejected \in Nat
    BY DEF ReadInv, Stats
  <1>5. stats'.frames_rejected = stats.frames_rejected + IF offset < Len(stream) THEN 1 ELSE 0
    BY <1>1, <1>3, <1>4
  <1> QED  BY <1>1, <1>3, <1>4, <1>5, ReadInvReturn

LEMMA ReadInvNext == ReadInv /\ [ReadNext]_readVars => ReadInv'
  <1> SUFFICES ASSUME ReadInv, [ReadNext]_readVars
               PROVE  ReadInv'
    OBVIOUS
  <1>1. CASE BeginRead
    BY <1>1, ReadInvBegin
  <1>2. CASE StopUnread
    BY <1>2, ReadInvStop
  <1>3. CASE StopAtTotal
    BY <1>3, ReadInvCap
  <1>4. CASE Skip
    BY <1>4, ReadInvSkip
  <1>5. CASE Accept
    BY <1>5, ReadInvAccept
  <1>6. CASE EndOfStream
    BY <1>6, ReadInvEnd
  <1>7. CASE UNCHANGED readVars
    BY <1>7 DEF readVars, ReadInv, Reading, Accounted, Tally
  <1> QED  BY <1>1, <1>2, <1>3, <1>4, <1>5, <1>6, <1>7 DEF ReadNext, Iterate

\* The invariant of a reader, over any number of calls.
THEOREM ReaderInvariant == ReadSpec => []ReadInv
  BY ReadInvInit, ReadInvNext, PTL DEF ReadSpec

\* A call returns the permitted frames before the first that stops it
\* (GuestEventReader.read).
THEOREM ClaimsAlwaysExact == ReadSpec => []ClaimsExact
  <1>1. ReadInv => ClaimsExact
    <2> SUFFICES ASSUME ReadInv, NEW r \in DOMAIN returned
                 PROVE  returned[r].claims = Permitted(ReadPrefix(returned[r].stream))
      BY DEF ClaimsExact
    <2>1. returned \in Seq(Call)
      BY DEF ReadInv
    <2>2. r \in 1..Len(returned)
      BY <2>1
    <2> QED  BY <2>2 DEF ReadInv, Exact
  <1> QED  BY <1>1, ReaderInvariant, PTL

\* The statistics account for every frame and byte of every call (TransportStats).
THEOREM StatsAlwaysAddUp == ReadSpec => []StatsAddUp
  <1>1. ReadInv => StatsAddUp
    <2> SUFFICES ASSUME ReadInv, ~reading
                 PROVE  StatsAddUp
      BY DEF StatsAddUp
    <2>1. Tally(returned, 0, 0, 0)
      BY DEF ReadInv, Accounted
    <2>2. /\ SumOver(LAMBDA c : Len(c.claims)) = Sum(Lengths(returned))
          /\ SumOver(LAMBDA c : BytesOf(c.claims)) = Sum(Bytes(returned))
          /\ SumOver(LAMBDA c : Taken(c.stream)) = Sum(Frames(returned))
      BY SumsAgree DEF SumOver, Lengths, Bytes, Frames
    <2> DEFINE a == Sum(Frames(returned))
               b == Sum(Lengths(returned))
               c == Sum(Bytes(returned))
               d == Cardinality(Stopped(returned))
    <2>3. a + d \in Int /\ b \in Int /\ c \in Int
      BY ReadInvInts
    <2>4. /\ stats.frames_accepted = b + 0 /\ stats.bytes_accepted = c + 0
          /\ stats.frames_accepted + stats.frames_rejected = (a + d) + 0
      BY <2>1 DEF Tally
    <2> DEFINE e == a + d
    <2>5. e \in Int /\ stats.frames_accepted + stats.frames_rejected = e + 0
      BY <2>3, <2>4
    <2> HIDE DEF b, c, e
    <2>6. /\ stats.frames_accepted = b /\ stats.bytes_accepted = c
          /\ stats.frames_accepted + stats.frames_rejected = e
      BY <2>3, <2>4, <2>5
    <2> QED  BY <2>2, <2>6 DEF StatsAddUp, Stopped, b, c, e
  <1> QED  BY <1>1, ReaderInvariant, PTL
================================================================================
