------------------------------ MODULE SeriesProofs ------------------------------
(***************************************************************************)
(* Theorems about the two components that are called again and again.      *)
(*                                                                         *)
(* The authorizer, for every set of actors, roots and binaries and any     *)
(* number of tokens and attempts: each spawn was earned by a token of its  *)
(* own, continues a live lineage from a root, and a token nobody has used  *)
(* stays good.                                                             *)
(*                                                                         *)
(* The trackers and the kill switch, for every window, pace and length of  *)
(* the series: the pruned times are the denials that still count, a        *)
(* patient probe trips the switch, and the mutation budget spans           *)
(* evaluations.                                                            *)
(***************************************************************************)
EXTENDS SpawnSeries, KillSwitchSeries, DataProofs

-------------------------------------------------------------------------------
\* The spawn authorizer.
Token == [parent_actor : Actors, binary_hash : Binaries, consumed : BOOLEAN]
Spawn == [parent : Actors, child : Actors, binary : Binaries, token : Nat]
Denial == {"UNKNOWN_BINARY", "NO_TOKEN", "UNKNOWN_TOKEN", "TOKEN_REPLAY", "PARENT_MISMATCH",
           "BINARY_MISMATCH", "DEAD_PARENT"}

SpawnTypeOK ==
    /\ approved \subseteq Binaries /\ sealed \in BOOLEAN
    /\ issued \in Seq(Token)
    /\ live_actors \subseteq Actors
    /\ denials \in Seq(Denial)
    /\ spawns \in Seq(Spawn)
    /\ exits \subseteq [actor : Actors, after : Nat]
    /\ \A x \in exits : x.after <= Len(spawns)

\* A token is consumed exactly if a spawn used it, and then by one spawn, of
\* the parent and the binary it was issued for.
TokensAccounted ==
    /\ \A t \in DOMAIN issued :
          /\ issued[t].binary_hash \in approved
          /\ issued[t].consumed <=> \E k \in DOMAIN spawns : spawns[k].token = t
    /\ \A k \in DOMAIN spawns :
          /\ spawns[k].token \in DOMAIN issued
          /\ issued[spawns[k].token].parent_actor = spawns[k].parent
          /\ issued[spawns[k].token].binary_hash = spawns[k].binary
    /\ \A j, k \in DOMAIN spawns : spawns[j].token = spawns[k].token => j = k

\* Who could be alive at the time of spawn k.
Born(k) == Roots \cup {spawns[j].child : j \in {i \in DOMAIN spawns : i < k}}
Now == Len(spawns) + 1

LiveAreBorn ==
    \A actor \in live_actors : actor \in Born(Now) /\ ~Gone(actor, Now)
SpawnersWereLive ==
    \A k \in DOMAIN spawns : spawns[k].parent \in Born(k) /\ ~Gone(spawns[k].parent, k)
HoldersWereBorn ==
    \A t \in DOMAIN issued : issued[t].parent_actor \in Born(Now)

SpawnInv == SpawnTypeOK /\ TokensAccounted /\ LiveAreBorn /\ SpawnersWereLive /\ HoldersWereBorn

-------------------------------------------------------------------------------
\* The series starts with nothing issued and nobody live.
THEOREM SpawnInitInv == SpawnInit => SpawnInv
  <1> SUFFICES ASSUME SpawnInit PROVE SpawnInv
    OBVIOUS
  <1> USE DEF SpawnInit, PolicyInit, AuthInit
  <1>1. issued \in Seq(Token) /\ denials \in Seq(Denial) /\ spawns \in Seq(Spawn)
    OBVIOUS
  <1>2. SpawnTypeOK
    BY <1>1 DEF SpawnTypeOK
  <1>3. TokensAccounted /\ LiveAreBorn /\ SpawnersWereLive /\ HoldersWereBorn
    BY DEF TokensAccounted, LiveAreBorn, SpawnersWereLive, HoldersWereBorn
  <1> QED  BY <1>2, <1>3 DEF SpawnInv

\* While the image is built no token exists; the list only grows.
LEMMA BuildKeeps == ASSUME SpawnInv, Build PROVE SpawnInv'
  <1>1. approved \subseteq approved' /\ approved' \subseteq Binaries /\ sealed' \in BOOLEAN
        /\ UNCHANGED <<issued, live_actors, denials, spawns, exits>>
    BY SpawnAssumption DEF Build, seal, approve, authVars, SpawnInv, SpawnTypeOK
  <1>2. SpawnTypeOK' /\ TokensAccounted'
    BY <1>1 DEF SpawnInv, SpawnTypeOK, TokensAccounted
  <1>3. LiveAreBorn' /\ SpawnersWereLive' /\ HoldersWereBorn'
    BY <1>1 DEF SpawnInv, LiveAreBorn, SpawnersWereLive, HoldersWereBorn, Born, Now, Gone
  <1> QED  BY <1>2, <1>3 DEF SpawnInv

\* A root is registered before it ever exited.
LEMMA RegisterRootKeeps == ASSUME SpawnInv, RegisterRoot PROVE SpawnInv'
  <1>1. PICK actor \in Roots : /\ \A x \in exits : x.actor # actor
                               /\ live_actors' = live_actors \cup {actor}
    BY DEF RegisterRoot, register_root
  <1>2. UNCHANGED <<approved, sealed, issued, denials, spawns, exits>>
    BY DEF RegisterRoot, register_root, policyVars
  <1>3. SpawnTypeOK' /\ TokensAccounted'
    BY <1>1, <1>2, SpawnAssumption DEF SpawnInv, SpawnTypeOK, TokensAccounted
  <1>4. SpawnersWereLive' /\ HoldersWereBorn'
    BY <1>2 DEF SpawnInv, SpawnersWereLive, HoldersWereBorn, Born, Now, Gone
  <1>5. LiveAreBorn'
    BY <1>1, <1>2 DEF SpawnInv, LiveAreBorn, Born, Now, Gone
  <1> QED  BY <1>3, <1>4, <1>5 DEF SpawnInv

\* A token is issued to a live actor for an approved binary, unused.
LEMMA IssueKeeps == ASSUME SpawnInv, Issue PROVE SpawnInv'
  <1>1. PICK parent \in Actors, binary \in Binaries : issue(parent, binary)
    BY DEF Issue
  <1> DEFINE t == [parent_actor |-> parent, binary_hash |-> binary, consumed |-> FALSE]
  <1>2. binary \in approved /\ parent \in live_actors /\ issued' = Append(issued, t)
        /\ UNCHANGED <<approved, sealed, live_actors, denials, spawns, exits>>
    BY <1>1 DEF Issue, issue, policyVars
  <1>3. t \in Token /\ t.parent_actor = parent /\ t.binary_hash = binary /\ ~t.consumed
    BY DEF Token
  <1> HIDE DEF t
  <1>4. /\ issued' \in Seq(Token) /\ Len(issued) \in Nat
        /\ DOMAIN issued = 1..Len(issued) /\ DOMAIN issued' = 1..(Len(issued) + 1)
        /\ issued'[Len(issued) + 1] = t
        /\ \A s \in DOMAIN issued : issued'[s] = issued[s]
    BY <1>2, <1>3 DEF SpawnInv, SpawnTypeOK
  <1>5. \A s \in DOMAIN issued' : s \in DOMAIN issued \/ s = Len(issued) + 1
    BY <1>4
  <1>6. \A k \in DOMAIN spawns : spawns[k].token # Len(issued) + 1
    BY <1>4 DEF SpawnInv, TokensAccounted
  <1>7. SpawnTypeOK'
    BY <1>2, <1>4 DEF SpawnInv, SpawnTypeOK
  <1>8. TokensAccounted'
    BY <1>2, <1>3, <1>4, <1>5, <1>6 DEF SpawnInv, TokensAccounted
  <1>9. LiveAreBorn' /\ SpawnersWereLive'
    BY <1>2 DEF SpawnInv, LiveAreBorn, SpawnersWereLive, Born, Now, Gone
  <1>10. HoldersWereBorn'
    BY <1>2, <1>3, <1>4, <1>5 DEF SpawnInv, LiveAreBorn, HoldersWereBorn, Born, Now
  <1> QED  BY <1>7, <1>8, <1>9, <1>10 DEF SpawnInv

\* A refusal changes nothing but the list of denials.
LEMMA RefusalKeeps ==
    ASSUME SpawnInv, NEW d \in Denial, denials' = Append(denials, d),
           UNCHANGED <<approved, sealed, issued, live_actors, spawns, exits>>
    PROVE  SpawnInv'
  <1>1. SpawnTypeOK'
    BY DEF SpawnInv, SpawnTypeOK
  <1>2. TokensAccounted'
    BY DEF SpawnInv, TokensAccounted
  <1>3. LiveAreBorn' /\ SpawnersWereLive' /\ HoldersWereBorn'
    BY DEF SpawnInv, LiveAreBorn, SpawnersWereLive, HoldersWereBorn, Born, Now, Gone
  <1> QED  BY <1>1, <1>2, <1>3 DEF SpawnInv

\* What an authorized spawn found: the token was issued to this live parent
\* for this approved binary, and not used.
LEMMA AuthorizedMeans ==
    ASSUME NEW parent, NEW binary, NEW token,
           _authorize_inner(parent, binary, token) = Authorized
    PROVE  /\ binary \in approved /\ parent \in live_actors
           /\ token \in DOMAIN issued /\ ~issued[token].consumed
           /\ issued[token].parent_actor = parent /\ issued[token].binary_hash = binary
  BY DEF _authorize_inner, Authorized

\* An authorized spawn uses its token up and its child is born.
LEMMA SpawnKeeps ==
    ASSUME SpawnInv, NEW parent \in Actors, NEW child \in Actors, NEW binary \in Binaries,
           NEW token \in Nat,
           _authorize_inner(parent, binary, token) = Authorized,
           issued' = [issued EXCEPT ![token].consumed = TRUE],
           live_actors' = live_actors \cup {child},
           spawns' = Append(spawns, [parent |-> parent, child |-> child, binary |-> binary,
                                     token |-> token]),
           UNCHANGED <<approved, sealed, denials, exits>>
    PROVE  SpawnInv'
  <1> DEFINE s == [parent |-> parent, child |-> child, binary |-> binary, token |-> token]
             n == Len(spawns)
  <1>1. /\ binary \in approved /\ parent \in live_actors
        /\ token \in DOMAIN issued /\ ~issued[token].consumed
        /\ issued[token].parent_actor = parent /\ issued[token].binary_hash = binary
    BY AuthorizedMeans
  <1>2. s \in Spawn /\ s.parent = parent /\ s.child = child /\ s.binary = binary
        /\ s.token = token
    BY DEF Spawn
  <1> HIDE DEF s
  <1>3. /\ n \in Nat /\ spawns' \in Seq(Spawn) /\ Len(spawns') = n + 1
        /\ DOMAIN spawns = 1..n /\ DOMAIN spawns' = 1..(n + 1)
        /\ spawns'[n + 1] = s /\ \A k \in DOMAIN spawns : spawns'[k] = spawns[k]
    BY <1>2 DEF SpawnInv, SpawnTypeOK, s
  <1>4. \A k \in DOMAIN spawns' : k \in DOMAIN spawns \/ k = n + 1
    BY <1>3
  <1>5. /\ issued' \in Seq(Token) /\ DOMAIN issued' = DOMAIN issued
        /\ issued'[token].consumed
        /\ \A t \in DOMAIN issued : /\ issued'[t].parent_actor = issued[t].parent_actor
                                    /\ issued'[t].binary_hash = issued[t].binary_hash
                                    /\ t # token => issued'[t].consumed = issued[t].consumed
    <2>1. issued[token] \in Token /\ issued \in Seq(Token)
      BY <1>1 DEF SpawnInv, SpawnTypeOK
    <2> DEFINE used == [issued[token] EXCEPT !.consumed = TRUE]
    <2>2. used \in Token /\ used.parent_actor = issued[token].parent_actor
          /\ used.binary_hash = issued[token].binary_hash /\ used.consumed
      BY <2>1 DEF Token
    <2>3. issued' = [issued EXCEPT ![token] = used]
      OBVIOUS
    <2> HIDE DEF used
    <2>4. issued' \in Seq(Token) /\ DOMAIN issued' = DOMAIN issued /\ issued'[token] = used
          /\ \A t \in DOMAIN issued : t # token => issued'[t] = issued[t]
      <3>1. token \in 1..Len(issued) /\ Len(issued) \in Nat /\ issued \in [1..Len(issued) -> Token]
        BY <1>1, <2>1
      <3>2. issued' \in [1..Len(issued) -> Token]
        BY <2>2, <2>3, <3>1
      <3> QED  BY <2>1, <2>3, <3>1, <3>2
    <2> QED  BY <2>2, <2>4
  <1>6. SpawnTypeOK'
    <2>1. \A x \in exits' : x.after \in Nat /\ x.after <= Len(spawns')
      BY <1>3 DEF SpawnInv, SpawnTypeOK
    <2> QED  BY <1>3, <1>5, <2>1 DEF SpawnInv, SpawnTypeOK
  <1>7. \A k \in DOMAIN spawns : spawns[k].token # token
    BY <1>1 DEF SpawnInv, TokensAccounted
  <1>8. TokensAccounted'
    <2>1. \A t \in DOMAIN issued' :
             /\ issued'[t].binary_hash \in approved'
             /\ issued'[t].consumed <=> \E k \in DOMAIN spawns' : spawns'[k].token = t
      <3>1. \A t \in DOMAIN issued :
               /\ issued[t].binary_hash \in approved
               /\ issued[t].consumed <=> \E k \in DOMAIN spawns : spawns[k].token = t
        BY DEF SpawnInv, TokensAccounted
      <3>2. spawns'[n + 1].token = token /\ n + 1 \in DOMAIN spawns'
        BY <1>2, <1>3
      <3>3. \A t : (\E k \in DOMAIN spawns' : spawns'[k].token = t)
                    <=> t = token \/ \E k \in DOMAIN spawns : spawns[k].token = t
        BY <1>3, <1>4, <3>2
      <3>4. ASSUME NEW t \in DOMAIN issued, t # token
            PROVE  issued'[t].consumed <=> \E k \in DOMAIN spawns' : spawns'[k].token = t
        <4>a. issued[t] \in Token
          BY <3>4 DEF SpawnInv, SpawnTypeOK
        <4>1. issued[t].consumed \in BOOLEAN
          BY <4>a DEF Token
        <4>2. issued'[t].consumed = issued[t].consumed
          BY <1>5, <3>4
        <4> QED  BY <3>1, <3>3, <3>4, <4>1, <4>2
      <3>5. issued'[token].consumed /\ \E k \in DOMAIN spawns' : spawns'[k].token = token
        BY <1>5, <3>2
      <3> QED  BY <1>5, <3>1, <3>4, <3>5
    <2>2. \A k \in DOMAIN spawns' :
             /\ spawns'[k].token \in DOMAIN issued'
             /\ issued'[spawns'[k].token].parent_actor = spawns'[k].parent
             /\ issued'[spawns'[k].token].binary_hash = spawns'[k].binary
      BY <1>1, <1>2, <1>3, <1>4, <1>5 DEF SpawnInv, TokensAccounted
    <2>3. \A j, k \in DOMAIN spawns' : spawns'[j].token = spawns'[k].token => j = k
      BY <1>2, <1>3, <1>4, <1>7 DEF SpawnInv, TokensAccounted
    <2> QED  BY <2>1, <2>2, <2>3 DEF TokensAccounted
  <1>9. \A k \in 1..(n + 1) : Born(k)' = Born(k)
    BY <1>3, <1>4 DEF Born
  <1>10. Born(Now)' = Born(Now) \cup {child}
    BY <1>2, <1>3, <1>4 DEF Born, Now
  <1>11. \A a : \A k \in 1..(n + 1) : Gone(a, k)' <=> Gone(a, k)
    <2>1. \A x \in exits : x.after \in Nat
      BY DEF SpawnInv, SpawnTypeOK
    <2>2. \A x \in exits : \A k \in 1..(n + 1) : \A j \in (x.after + 1)..(k - 1) :
             spawns'[j] = spawns[j]
      BY <1>3, <2>1
    <2> QED  BY <2>2 DEF Gone
  <1>12. \A a : Gone(a, Now)' => Gone(a, Now) /\ a # child
    <2> SUFFICES ASSUME NEW a, Gone(a, Now)' PROVE Gone(a, Now) /\ a # child
      OBVIOUS
    <2>a. Len(spawns') + 1 = n + 2 /\ n + 2 - 1 = n + 1 /\ Now = n + 1 /\ n + 1 - 1 = n
      BY <1>3 DEF Now
    <2> HIDE DEF n
    <2>b. Gone(a, Now)' <=> \E x \in exits' : /\ x.actor = a /\ x.after < Now'
                              /\ \A j \in (x.after + 1)..(Now' - 1) : spawns'[j].child # a
      BY DEF Gone
    <2>c. Now' = n + 2 /\ Now' - 1 = n + 1
      BY <2>a DEF Now
    <2>1. PICK x \in exits : /\ x.actor = a /\ x.after < n + 2
                             /\ \A j \in (x.after + 1)..(n + 1) : spawns'[j].child # a
      <3>1. exits' = exits
        OBVIOUS
      <3> QED  BY <2>b, <2>c, <3>1
    <2> USE DEF n
    <2>2. x.after \in Nat /\ x.after <= n
      BY DEF SpawnInv, SpawnTypeOK
    <2>3. a # child
      BY <1>2, <1>3, <2>1, <2>2
    <2>4. \A j \in (x.after + 1)..n : spawns[j].child # a
      BY <1>3, <2>1, <2>2
    <2> QED  BY <2>a, <2>1, <2>2, <2>3, <2>4 DEF Gone
  <1>13. LiveAreBorn'
    BY <1>10, <1>12 DEF SpawnInv, LiveAreBorn
  <1>14. SpawnersWereLive'
    BY <1>1, <1>2, <1>3, <1>4, <1>9, <1>11 DEF SpawnInv, SpawnersWereLive, LiveAreBorn, Now
  <1>15. HoldersWereBorn'
    BY <1>5, <1>10 DEF SpawnInv, HoldersWereBorn
  <1> QED  BY <1>6, <1>8, <1>13, <1>14, <1>15 DEF SpawnInv

\* Every attempt is one or the other.
LEMMA AuthorizeKeeps == ASSUME SpawnInv, Authorize PROVE SpawnInv'
  <1>1. PICK parent \in Actors, child \in Actors, binary \in Binaries, token \in 0..MaxTokens :
           /\ authorize(parent, child, binary, token)
           /\ spawns' = IF denials' # denials THEN spawns
                        ELSE Append(spawns, [parent |-> parent, child |-> child,
                                             binary |-> binary, token |-> token])
    BY DEF Authorize
  <1>2. UNCHANGED <<approved, sealed, exits>>
    BY DEF Authorize, policyVars
  <1> DEFINE verdict == _authorize_inner(parent, binary, token)
  <1>3. CASE verdict = Authorized
    <2>1. /\ issued' = [issued EXCEPT ![token].consumed = TRUE]
          /\ live_actors' = live_actors \cup {child} /\ denials' = denials
      BY <1>1, <1>3 DEF authorize
    <2>2. spawns' = Append(spawns, [parent |-> parent, child |-> child, binary |-> binary,
                                    token |-> token])
      BY <1>1, <2>1
    <2>3. token \in Nat
      BY SpawnAssumption
    <2> QED  BY <1>2, <1>3, <2>1, <2>2, <2>3, SpawnKeeps
  <1>4. CASE verdict # Authorized
    <2>1. verdict \in Denial
      BY <1>4 DEF _authorize_inner, Denial
    <2>2. denials' = Append(denials, verdict) /\ UNCHANGED <<issued, live_actors>>
      BY <1>1, <1>4 DEF authorize
    <2>3. denials' # denials
      <3> HIDE DEF verdict
      <3>1. Len(denials') = Len(denials) + 1 /\ Len(denials) \in Nat
        BY <2>1, <2>2 DEF SpawnInv, SpawnTypeOK
      <3> QED  BY <3>1
    <2>4. spawns' = spawns
      BY <1>1, <2>3
    <2> HIDE DEF verdict
    <2> QED  BY <1>2, <2>1, <2>2, <2>4, RefusalKeeps
  <1> QED  BY <1>3, <1>4

\* An exit is noted after the spawns so far: they are none the worse for it.
LEMMA NoteExitKeeps == ASSUME SpawnInv, NoteExit PROVE SpawnInv'
  <1>1. PICK actor \in live_actors :
           /\ live_actors' = live_actors \ {actor}
           /\ exits' = exits \cup {[actor |-> actor, after |-> Len(spawns)]}
    BY DEF NoteExit, note_exit
  <1>2. UNCHANGED <<approved, sealed, issued, denials, spawns>>
    BY DEF NoteExit, note_exit, policyVars
  <1>3. Len(spawns) \in Nat /\ DOMAIN spawns = 1..Len(spawns)
    BY DEF SpawnInv, SpawnTypeOK
  <1>4. SpawnTypeOK'
    BY <1>1, <1>2, <1>3 DEF SpawnInv, SpawnTypeOK
  <1>5. TokensAccounted' /\ HoldersWereBorn'
    BY <1>2 DEF SpawnInv, TokensAccounted, HoldersWereBorn, Born, Now
  <1>6. \A a : a # actor => (Gone(a, Now)' <=> Gone(a, Now))
    BY <1>1, <1>2 DEF Gone, Now
  <1>7. \A a : \A k \in DOMAIN spawns : Gone(a, k)' <=> Gone(a, k)
    BY <1>1, <1>2, <1>3 DEF Gone
  <1>8. LiveAreBorn'
    BY <1>1, <1>2, <1>6 DEF SpawnInv, LiveAreBorn, Born, Now
  <1>9. SpawnersWereLive'
    BY <1>2, <1>7 DEF SpawnInv, SpawnersWereLive, Born
  <1> QED  BY <1>4, <1>5, <1>8, <1>9 DEF SpawnInv

\* Every call keeps the invariant, and stuttering does.
THEOREM SpawnStepInv == SpawnInv /\ [SpawnNext]_spawnVars => SpawnInv'
  <1> SUFFICES ASSUME SpawnInv, [SpawnNext]_spawnVars PROVE SpawnInv'
    OBVIOUS
  <1>1. CASE UNCHANGED spawnVars
    BY <1>1 DEF spawnVars, policyVars, authVars, SpawnInv, SpawnTypeOK, TokensAccounted, LiveAreBorn,
       SpawnersWereLive, HoldersWereBorn, Born, Now, Gone
  <1> QED  BY <1>1, BuildKeeps, RegisterRootKeeps, IssueKeeps, AuthorizeKeeps, NoteExitKeeps
           DEF SpawnNext

-------------------------------------------------------------------------------
\* The invariant of the series.
THEOREM SpawnInvariant == SpawnSpec => []SpawnInv
  <1> QED  BY SpawnInitInv, SpawnStepInv, PTL DEF SpawnSpec

\* Every spawn that was authorized had a token of its own, issued to its
\* parent for its binary, which the image build had approved.
THEOREM EverySpawnEarned == SpawnSpec => []SpawnsEarned
  <1>1. SpawnInv => SpawnsEarned
    BY DEF SpawnInv, TokensAccounted, SpawnsEarned
  <1> QED  BY <1>1, SpawnInvariant, PTL

\* Whoever lives, spawns or holds a token descends from a root, and nobody
\* spawned after it had exited.
THEOREM LineageIsRooted == SpawnSpec => []LineageReachesRoot
  <1>1. SpawnInv => LineageReachesRoot
    BY DEF SpawnInv, LiveAreBorn, SpawnersWereLive, HoldersWereBorn, Born, Now, LineageReachesRoot
  <1> QED  BY <1>1, SpawnInvariant, PTL

\* No sequence of refusals takes a token from its rightful holder.
THEOREM TokensStayRedeemable == SpawnSpec => []UnusedTokenRedeemable
  <1>1. ASSUME SpawnInv, NEW t \in DOMAIN issued, issued[t].parent_actor \in live_actors,
               \A k \in DOMAIN spawns : spawns[k].token # t
        PROVE  _authorize_inner(issued[t].parent_actor, issued[t].binary_hash, t) = Authorized
    <2>1. t # NoToken
      BY <1>1 DEF SpawnInv, SpawnTypeOK, NoToken
    <2>2. ~issued[t].consumed /\ issued[t].binary_hash \in approved
      BY <1>1 DEF SpawnInv, TokensAccounted
    <2> QED  BY <1>1, <2>1, <2>2 DEF _authorize_inner
  <1>2. SpawnInv => UnusedTokenRedeemable
    BY <1>1 DEF UnusedTokenRedeemable
  <1> QED  BY <1>2, SpawnInvariant, PTL

-------------------------------------------------------------------------------
\* The trackers and the kill switch.
Decision == [denied : BOOLEAN, at : Nat]

\* The decisions are recorded at times that do not run backwards.
HistoryTyped ==
    /\ now \in Nat
    /\ history \in Seq(Decision)
    /\ \A k \in DOMAIN history : history[k].at <= now

\* The last n decisions were denials.
LastDenied(n) ==
    /\ Len(history) >= n
    /\ \A k \in (Len(history) - n + 1)..Len(history) : history[k].denied

\* The EWMA knows the row of denials it ends with, whatever came before it.
RowsReach ==
    /\ Ewma(tracker)
    /\ LastDenied(1) => RowOfOne(tracker)
    /\ LastDenied(2) => RowOfTwo(tracker)
    /\ LastDenied(3) => RowOfThree(tracker)

PatientInv == HistoryTyped /\ RowsReach

\* The trigger holds a window of the counter's ticks, so the counter at the
\* burst has made a full row of them, in one evaluation or in several.
BudgetInv ==
    /\ counter \in Nat
    /\ trigger.times = Ticks(MutationConfig.window, counter)
    /\ tripped \in BOOLEAN
    /\ ThirdMutationKills

-------------------------------------------------------------------------------
\* A decision keeps the history in order.
LEMMA DecideTyped ==
    ASSUME HistoryTyped, NEW denied \in BOOLEAN, NEW gap \in Gaps,
           now' = now + gap,
           history' = Append(history, [denied |-> denied, at |-> now'])
    PROVE  /\ now' \in Nat /\ now <= now'
           /\ HistoryTyped'
           /\ Len(history') = Len(history) + 1
           /\ \A k \in 1..Len(history) : history'[k] = history[k]
           /\ history'[Len(history) + 1].denied = denied
           /\ history'[Len(history) + 1].at = now'
  <1>1. now' \in Nat /\ now <= now'
    BY SeriesAssumption DEF HistoryTyped
  <1> DEFINE d == [denied |-> denied, at |-> now']
  <1>2. d \in Decision /\ d.denied = denied /\ d.at = now'
    BY <1>1 DEF Decision
  <1> HIDE DEF d
  <1>3. /\ history' \in Seq(Decision) /\ Len(history') = Len(history) + 1
        /\ \A k \in 1..Len(history) : history'[k] = history[k]
        /\ history'[Len(history) + 1] = d
    BY <1>2, AppendProperties DEF HistoryTyped, d
  <1>4. ASSUME NEW k \in 1..Len(history)
        PROVE  history[k].at \in Nat /\ history[k].at <= now
    <2>1. history[k] \in Decision /\ k \in DOMAIN history
      BY <1>4 DEF HistoryTyped
    <2> QED  BY <2>1 DEF HistoryTyped, Decision
  <1>5. DOMAIN history' = 1..(Len(history) + 1) /\ Len(history) \in Nat
    BY <1>3 DEF HistoryTyped
  <1>6. ASSUME NEW k \in DOMAIN history'
        PROVE  history'[k].at <= now'
    <2>1. CASE k = Len(history) + 1
      BY <1>1, <1>2, <1>3, <2>1
    <2>2. CASE k \in 1..Len(history)
      <3>1. history'[k] = history[k]
        BY <1>3, <2>2
      <3> QED  BY <1>1, <1>4, <2>2, <3>1 DEF HistoryTyped
    <2> QED  BY <1>5, <2>1, <2>2
  <1> QED  BY <1>1, <1>2, <1>3, <1>6 DEF HistoryTyped

\* A row that is one longer now was one shorter before a denial.
LEMMA RowGrows ==
    ASSUME HistoryTyped, NEW n \in Nat \ {0}, LastDenied(n)',
           Len(history') = Len(history) + 1,
           \A k \in 1..Len(history) : history'[k] = history[k]
    PROVE  LastDenied(n - 1) /\ history'[Len(history) + 1].denied
  <1>1. Len(history) \in Nat
    BY DEF HistoryTyped
  <1>2. \A k \in (Len(history) + 1 - n + 1)..(Len(history) + 1) : history'[k].denied
    BY DEF LastDenied
  <1>3. Len(history) + 1 >= n
    BY DEF LastDenied
  <1>4. history'[Len(history) + 1].denied
    BY <1>1, <1>2, <1>3
  <1>5. ASSUME NEW k \in (Len(history) - (n - 1) + 1)..Len(history)
        PROVE  history[k].denied
    <2>1. k \in 1..Len(history) /\ k \in (Len(history) + 1 - n + 1)..(Len(history) + 1)
      BY <1>1, <1>3
    <2> QED  BY <1>2, <2>1
  <1>6. Len(history) >= n - 1
    BY <1>1, <1>3
  <1> QED  BY <1>4, <1>5, <1>6 DEF LastDenied

\* Every step preserves the patient probe's invariant.
LEMMA PatientStep == PatientInv /\ [Next]_vars => PatientInv'
  <1> SUFFICES ASSUME PatientInv, [Next]_vars PROVE PatientInv'
    OBVIOUS
  <1>1. CASE Decide
    <2>1. PICK denied \in BOOLEAN, gap \in Gaps :
              /\ now' = now + gap
              /\ tracker' = record(DenialConfig, tracker, denied, now')
              /\ history' = Append(history, [denied |-> denied, at |-> now'])
      BY <1>1 DEF Decide
    <2>2. HistoryTyped /\ RowsReach
      BY DEF PatientInv
    <2>3. /\ HistoryTyped'
          /\ Len(history') = Len(history) + 1
          /\ \A k \in 1..Len(history) : history'[k] = history[k]
          /\ history'[Len(history) + 1].denied = denied
      BY <2>1, <2>2, DecideTyped
    <2>4. \A n \in Nat \ {0} : LastDenied(n)' => LastDenied(n - 1) /\ denied
      BY <2>2, <2>3, RowGrows
    <2>5. CASE denied
      <3>1. denied = TRUE
        BY <2>5
      <3>2. tracker' = record(DenialConfig, tracker, TRUE, now')
        BY <2>1, <3>1
      <3>3. /\ Ewma(tracker') /\ RowOfOne(tracker')
            /\ RowOfOne(tracker) => RowOfTwo(tracker')
            /\ RowOfTwo(tracker) => RowOfThree(tracker')
        BY <2>2, <3>2, Denied DEF RowsReach
      <3>4. LastDenied(2)' => LastDenied(1)
        <4>1. 2 \in Nat \ {0} /\ 2 - 1 = 1
          OBVIOUS
        <4> QED  BY <2>4, <4>1
      <3>5. LastDenied(3)' => LastDenied(2)
        <4>1. 3 \in Nat \ {0} /\ 3 - 1 = 2
          OBVIOUS
        <4> QED  BY <2>4, <4>1
      <3>6. /\ Ewma(tracker)' /\ RowOfOne(tracker)'
            /\ LastDenied(2)' => RowOfTwo(tracker)'
            /\ LastDenied(3)' => RowOfThree(tracker)'
        BY <2>2, <3>3, <3>4, <3>5 DEF RowsReach, Ewma, RowOfOne, RowOfTwo, RowOfThree
      <3> QED  BY <2>3, <3>6 DEF PatientInv, RowsReach
    <2>6. CASE ~denied
      <3>1. tracker' = record(DenialConfig, tracker, FALSE, now')
        <4>1. denied = FALSE
          BY <2>6
        <4> QED  BY <2>1, <4>1
      <3>2. Ewma(tracker')
        BY <2>2, <3>1, Granted DEF RowsReach
      <3>3. Ewma(tracker)'
        BY <3>2 DEF Ewma
      <3>4. ~LastDenied(1)' /\ ~LastDenied(2)' /\ ~LastDenied(3)'
        <4>1. 1 \in Nat \ {0} /\ 2 \in Nat \ {0} /\ 3 \in Nat \ {0}
          OBVIOUS
        <4> QED  BY <2>4, <2>6, <4>1
      <3> QED  BY <2>3, <3>3, <3>4 DEF PatientInv, RowsReach
    <2> QED  BY <2>5, <2>6
  <1>2. CASE UNCHANGED trackerVars
    BY <1>2 DEF PatientInv, HistoryTyped, RowsReach, LastDenied, Ewma, RowOfOne, RowOfTwo,
                RowOfThree, trackerVars
  <1>3. Evaluate \/ EvaluatorRaises \/ UNCHANGED vars => UNCHANGED trackerVars
    BY DEF Evaluate, EvaluatorRaises, vars
  <1> QED  BY <1>1, <1>2, <1>3 DEF Next

\* Three denials in a row make the next evaluation kill, at every pace and
\* after every earlier history, for every threshold up to 7/20 = 0.35, the
\* default of the code.
THEOREM PatientProbeIsKilled ==
    ASSUME DenialConfig.threshold \in 0..7
    PROVE  Spec => []PatientProbeTrips
  <1>1. Init => PatientInv
    <2> SUFFICES ASSUME Init PROVE PatientInv
      OBVIOUS
    <2>1. now = 0 /\ history = <<>> /\ tracker.num = 0 /\ tracker.den = 1
      BY DEF Init, NewTracker
    <2>2. Len(history) = 0 /\ history \in Seq(Decision)
      BY <2>1
    <2>3. HistoryTyped
      BY <2>1, <2>2 DEF HistoryTyped
    <2>4. Ewma(tracker)
      BY <2>1 DEF Ewma
    <2>5. ~LastDenied(1) /\ ~LastDenied(2) /\ ~LastDenied(3)
      BY <2>2 DEF LastDenied
    <2> QED  BY <2>3, <2>4, <2>5 DEF PatientInv, RowsReach
  <1>2. PatientInv => PatientProbeTrips
    <2> SUFFICES ASSUME PatientInv, LastDenied(3), NEW e \in Evidences
                 PROVE  "DENIAL_SUSTAINED" \in ReasonsFor(Given(e, LastSignal))
      BY DEF PatientProbeTrips, Patient, LastDenied
    <2>1. cumulative(DenialConfig, tracker)
      BY ThreeReach DEF PatientInv, RowsReach
    <2>2. history # <<>>
      BY DEF LastDenied
    <2> DEFINE signal == [instantaneous |-> instantaneous(DenialConfig, tracker),
                          cumulative |-> cumulative(DenialConfig, tracker)]
    <2>3. signal \in LastSignal /\ signal.cumulative
      BY <2>1, <2>2 DEF LastSignal
    <2> HIDE DEF signal
    <2>4. \E s \in Given(e, LastSignal).denial_signal : s.cumulative
      BY <2>3 DEF Given
    <2> QED  BY <2>4 DEF ReasonsFor, AccumulatingReasons, When
  <1> QED  BY <1>1, <1>2, PatientStep, PTL DEF Spec

-------------------------------------------------------------------------------
\* The trigger after an evaluation holds the ticks up to the new counter.
LEMMA TriggerTicks ==
    ASSUME counter \in Nat, trigger.times = Ticks(MutationConfig.window, counter), NEW n \in Nat
    PROVE  TriggerAfter(n).times = Ticks(MutationConfig.window, counter + n)
  <1>1. PICK w \in Nat : MutationConfig.window = w
    BY SeriesAssumption
  <1>2. PICK c \in Nat : counter = c
    OBVIOUS
  <1>3. trigger.times = Ticks(w, c)
    BY <1>1, <1>2
  <1>4. AfterTicks(MutationConfig, c, trigger, n).times = Ticks(w, c + n)
    BY <1>1, <1>3, TicksRecorded
  <1>5. TriggerAfter(n) = AfterTicks(MutationConfig, c, trigger, n)
    BY <1>2, Zenon DEF TriggerAfter, AfterTicks
  <1> QED  BY <1>1, <1>2, <1>4, <1>5

\* The ticks of a counter at the burst are a burst, if the window spans one.
LEMMA TicksBurst ==
    ASSUME NEW t, NEW c \in Nat, t.times = Ticks(MutationConfig.window, c),
           NEW b \in Nat, MutationConfig.burst = b, b <= MutationConfig.window + 1, c >= b
    PROVE  instantaneous(MutationConfig, t)
  <1>1. PICK w \in Nat : MutationConfig.window = w
    BY SeriesAssumption
  <1> DEFINE m == KeptOf(w, c)
  <1>2. m \in Nat /\ m >= b
    BY <1>1 DEF KeptOf
  <1> HIDE DEF m
  <1>3. Len([k \in 1..m |-> c - m + k]) = m
    BY <1>2
  <1>4. Len(Ticks(w, c)) = m
    BY <1>3 DEF Ticks, m
  <1>5. Len(t.times) = m
    BY <1>1, <1>4
  <1> QED  BY <1>2, <1>5 DEF instantaneous

\* Every step preserves the budget's invariant.
LEMMA BudgetStep ==
    ASSUME NEW b \in Nat \ {0}, MutationConfig.burst = b, b <= MutationConfig.window + 1
    PROVE  BudgetInv /\ [Next]_vars => BudgetInv'
  <1> SUFFICES ASSUME BudgetInv, [Next]_vars PROVE BudgetInv'
    OBVIOUS
  <1>1. CASE Evaluate
    <2>1. PICK e \in Evidences : evaluate(Given(e, LastSignal))
      BY <1>1 DEF Evaluate
    <2> DEFINE n == e.unexplained_mutations
               g == Given(e, LastSignal)
    <2>2. n \in Nat
      BY SeriesAssumption
    <2>3. g.unexplained_mutations = n
      BY DEF Given
    <2>4. Decided(ReasonsFor(g)) /\ trigger' = TriggerAfter(n) /\ counter' = counter + n
      BY <2>1, <2>3 DEF evaluate
    <2>5. counter \in Nat /\ tripped \in BOOLEAN /\ (counter >= b => tripped /\ kill_verdict.kill)
      BY DEF BudgetInv, ThirdMutationKills
    <2>6. TriggerAfter(n).times = Ticks(MutationConfig.window, counter + n)
      <3> HIDE DEF n
      <3> QED  BY <2>2, TriggerTicks DEF BudgetInv
    <2>7. counter + n \in Nat
      BY <2>2, <2>5
    <2>8. /\ ReasonsFor(g) # {} => tripped' = TRUE /\ kill_verdict'.kill
          /\ ReasonsFor(g) = {} => tripped' = tripped /\ kill_verdict' = kill_verdict
      BY <2>4 DEF Decided
    <2>9. counter' >= b => tripped' /\ kill_verdict'.kill
      <3>1. CASE n = 0
        <4>1. counter' = counter
          BY <2>4, <2>5, <3>1
        <4> HIDE DEF n, g
        <4>2. counter' >= b => tripped /\ kill_verdict.kill
          BY <2>5, <4>1
        <4>3. CASE ReasonsFor(g) = {}
          BY <2>8, <4>2, <4>3
        <4>4. CASE ReasonsFor(g) # {}
          BY <2>8, <4>4
        <4> QED  BY <4>3, <4>4
      <3>2. CASE n > 0 /\ counter + n >= b
        <4>1. instantaneous(MutationConfig, TriggerAfter(n))
          <5> DEFINE t == TriggerAfter(n)
                     c == counter + n
          <5>1. t.times = Ticks(MutationConfig.window, c) /\ c \in Nat /\ c >= b /\ b \in Nat
            BY <2>6, <2>7, <3>2
          <5> HIDE DEF t, c
          <5>2. instantaneous(MutationConfig, t)
            BY <5>1, TicksBurst
          <5> QED  BY <5>2 DEF t
        <4>2. "MUTATION_BURST" \in ReasonsFor(g)
          <5>1. g.unexplained_mutations > 0 /\ instantaneous(MutationConfig, TriggerAfter(g.unexplained_mutations))
            BY <2>3, <3>2, <4>1
          <5> HIDE DEF g
          <5> QED  BY <5>1 DEF ReasonsFor, AccumulatingReasons, When
        <4> QED  BY <2>8, <4>2
      <3> QED  BY <2>2, <2>4, <3>1, <3>2
    <2>10. tripped' \in BOOLEAN
      BY <2>5, <2>8
    <2>11. ThirdMutationKills'
      BY <2>9 DEF ThirdMutationKills
    <2> HIDE DEF n, g
    <2> QED  BY <2>4, <2>6, <2>7, <2>10, <2>11 DEF BudgetInv
  <1>2. CASE EvaluatorRaises
    <2>1. /\ tripped' = TRUE /\ kill_verdict'.kill
          /\ UNCHANGED <<trigger, counter>>
      BY <1>2 DEF EvaluatorRaises, evaluate_raises, Decided
    <2> QED  BY <2>1 DEF BudgetInv, ThirdMutationKills
  <1>3. CASE UNCHANGED killVars
    BY <1>3 DEF BudgetInv, ThirdMutationKills, killVars
  <1>4. Decide \/ UNCHANGED vars => UNCHANGED killVars
    BY DEF Decide, vars
  <1> QED  BY <1>1, <1>2, <1>3, <1>4 DEF Next

\* The mutation at the burst count trips the switch for good, in however many
\* evaluations the mutations came: for every burst of at least one that fits
\* the window, which in the code counts ticks, not seconds (60 and 3).
THEOREM BudgetSpansEvaluations ==
    ASSUME NEW b \in Nat \ {0}, MutationConfig.burst = b, b <= MutationConfig.window + 1
    PROVE  Spec => []ThirdMutationKills
  <1>1. Init => BudgetInv
    <2> SUFFICES ASSUME Init PROVE BudgetInv
      OBVIOUS
    <2>1. trigger.times = <<>> /\ counter = 0 /\ tripped = FALSE
      BY DEF Init, KillInit, NewTracker
    <2>2. Ticks(MutationConfig.window, 0) = <<>>
      <3>1. KeptOf(MutationConfig.window, 0) = 0
        BY SeriesAssumption DEF KeptOf
      <3> QED  BY <3>1 DEF Ticks
    <2>3. ThirdMutationKills
      BY <2>1 DEF ThirdMutationKills
    <2>4. trigger.times = Ticks(MutationConfig.window, counter)
      BY <2>1, <2>2
    <2> QED  BY <2>1, <2>3, <2>4 DEF BudgetInv
  <1>2. BudgetInv => ThirdMutationKills
    BY DEF BudgetInv
  <1>3. BudgetInv /\ [Next]_vars => BudgetInv'
    BY BudgetStep
  <1> QED  BY <1>1, <1>2, <1>3, PTL DEF Spec

-------------------------------------------------------------------------------
\* The denials from t on.
DenialsFrom(t) == {k \in DOMAIN history : history[k].denied /\ history[k].at >= t}

\* The times kept are in order and in the window, and from any time in the
\* window on there are as many of them as denials.
WindowInv ==
    /\ HistoryTyped
    /\ tracker.times \in Seq(Nat) /\ Sorted(tracker.times)
    /\ \A k \in DOMAIN tracker.times :
          tracker.times[k] <= now /\ now - tracker.times[k] <= DenialConfig.window
    /\ \A t \in Int : t >= now - DenialConfig.window =>
          Cardinality(DenialsFrom(t)) = Cardinality(From(tracker.times, t))

\* A decision adds itself to the denials that count, or nothing.
LEMMA DenialsGrow ==
    ASSUME HistoryTyped, NEW denied \in BOOLEAN, NEW t \in Int,
           now' \in Nat,
           Len(history') = Len(history) + 1, HistoryTyped',
           \A k \in 1..Len(history) : history'[k] = history[k],
           history'[Len(history) + 1].denied = denied,
           history'[Len(history) + 1].at = now'
    PROVE  Cardinality(DenialsFrom(t)') =
               Cardinality(DenialsFrom(t)) + (IF denied /\ now' >= t THEN 1 ELSE 0)
  <1> DEFINE n == Len(history)
             A == DenialsFrom(t)
  <1>1. /\ n \in Nat /\ DOMAIN history = 1..n /\ DOMAIN history' = 1..(n + 1)
    BY DEF HistoryTyped
  <1>2. A \in SUBSET (1..n)
    BY <1>1 DEF DenialsFrom
  <1>3. Cardinality(A) \in Nat /\ Cardinality(A \cup {n + 1}) = Cardinality(A) + 1
    BY <1>1, <1>2, PositionsFinite
  <1>4. DenialsFrom(t)' = {k \in 1..(n + 1) : history'[k].denied /\ history'[k].at >= t}
    BY <1>1 DEF DenialsFrom
  <1>5. A = {k \in 1..n : history[k].denied /\ history[k].at >= t}
    BY <1>1 DEF DenialsFrom
  <1> HIDE DEF n
  <1>6. ASSUME NEW k \in 1..n
        PROVE  k \in DenialsFrom(t)' <=> k \in A
    BY <1>1, <1>4, <1>5 DEF n
  <1>7. n + 1 \in DenialsFrom(t)' <=> denied /\ now' >= t
    BY <1>1, <1>4 DEF n
  <1>8. DenialsFrom(t)' \subseteq 1..(n + 1)
    BY <1>4
  <1> HIDE DEF A
  <1>9. DenialsFrom(t)' = IF denied /\ now' >= t THEN A \cup {n + 1} ELSE A
    <2>1. \A k : k \in DenialsFrom(t)' <=> k \in A \/ (k = n + 1 /\ denied /\ now' >= t)
      <3> SUFFICES ASSUME NEW k
                   PROVE  k \in DenialsFrom(t)' <=> k \in A \/ (k = n + 1 /\ denied /\ now' >= t)
        OBVIOUS
      <3>1. CASE k \in 1..n
        BY <1>1, <1>6, <3>1
      <3>2. CASE k = n + 1
        BY <1>1, <1>2, <1>7, <3>2
      <3>3. CASE k \notin 1..(n + 1)
        <4>1. 1..n \subseteq 1..(n + 1) /\ n + 1 \in 1..(n + 1)
          BY <1>1
        <4>2. k # n + 1
          BY <3>3, <4>1
        <4>3. k \notin A /\ k \notin DenialsFrom(t)'
          BY <1>2, <1>8, <3>3, <4>1, Zenon
        <4> QED  BY <4>2, <4>3, Zenon
      <3> QED  BY <1>1, <3>1, <3>2, <3>3
    <2> QED  BY <2>1
  <1> QED  BY <1>3, <1>9 DEF A

\* Every step preserves the window's invariant.
LEMMA WindowStep == WindowInv /\ [Next]_vars => WindowInv'
  <1> SUFFICES ASSUME WindowInv, [Next]_vars PROVE WindowInv'
    OBVIOUS
  <1>1. CASE Decide
    <2>1. PICK denied \in BOOLEAN, gap \in Gaps :
              /\ now' = now + gap
              /\ tracker' = record(DenialConfig, tracker, denied, now')
              /\ history' = Append(history, [denied |-> denied, at |-> now'])
      BY <1>1 DEF Decide
    <2>2. HistoryTyped
      BY DEF WindowInv
    <2>3. /\ now' \in Nat /\ now <= now'
          /\ HistoryTyped'
          /\ Len(history') = Len(history) + 1
          /\ \A k \in 1..Len(history) : history'[k] = history[k]
          /\ history'[Len(history) + 1].denied = denied
          /\ history'[Len(history) + 1].at = now'
      BY <2>1, <2>2, DecideTyped
    <2>4. PICK w \in Nat : w = DenialConfig.window
      BY SeriesAssumption
    <2>5. PICK times \in Seq(Nat) : times = tracker.times
      BY DEF WindowInv
    <2>6. /\ Sorted(times) /\ now \in Nat
          /\ \A k \in DOMAIN times : times[k] <= now
      BY <2>5 DEF WindowInv, HistoryTyped
    <2>7. \A k \in DOMAIN times : times[k] <= now'
      <3>1. \A k \in DOMAIN times : times[k] \in Nat
        OBVIOUS
      <3> QED  BY <2>3, <2>6, <3>1
    <2> DEFINE told == Told(times, denied, now')
               kept == Prune(told, now', w)
    <2>8. tracker'.times = kept
      BY <2>1, <2>4, <2>5, TimesOfRecord
    <2>9. /\ kept \in Seq(Nat) /\ Sorted(kept)
          /\ \A k \in DOMAIN kept : kept[k] <= now' /\ now' - kept[k] <= w
      BY <2>3, <2>6, <2>7, WindowKept
    <2>10. ASSUME NEW t \in Int, t >= now' - w
           PROVE  Cardinality(DenialsFrom(t)') = Cardinality(From(kept, t))
      <3> DEFINE one == IF denied /\ now' >= t THEN 1 ELSE 0
      <3>1. Cardinality(DenialsFrom(t)') = Cardinality(DenialsFrom(t)) + one
        BY <2>2, <2>3, DenialsGrow
      <3>2. Cardinality(DenialsFrom(t)) = Cardinality(From(times, t))
        <4>0. now \in Nat /\ now' \in Nat /\ now <= now'
          BY <2>3, <2>6
        <4>1. t >= now - w
          BY <2>4, <2>10, <4>0
        <4> QED  BY <2>4, <2>5, <4>1 DEF WindowInv
      <3>3. Cardinality(From(told, t)) = Cardinality(From(times, t)) + one
        BY <2>3, ToldCount
      <3>4. told \in Seq(Nat)
        BY <2>3, ToldIs
      <3>5. Cardinality(From(kept, t)) = Cardinality(From(told, t))
        <4> HIDE DEF told
        <4> QED  BY <2>3, <2>10, <3>4, PrunedCount
      <3> HIDE DEF one, told, kept
      <3> QED  BY <3>1, <3>2, <3>3, <3>5
    <2> HIDE DEF kept
    <2>11. /\ tracker'.times \in Seq(Nat) /\ Sorted(tracker.times)'
           /\ \A k \in DOMAIN tracker'.times :
                 tracker'.times[k] <= now' /\ now' - tracker'.times[k] <= DenialConfig.window
      BY <2>4, <2>8, <2>9 DEF Sorted
    <2>12. \A t \in Int : t >= now' - DenialConfig.window =>
               Cardinality(DenialsFrom(t)') = Cardinality(From(tracker.times, t)')
      BY <2>4, <2>8, <2>10 DEF From
    <2> QED  BY <2>3, <2>11, <2>12 DEF WindowInv
  <1>2. CASE UNCHANGED trackerVars
    BY <1>2 DEF WindowInv, HistoryTyped, DenialsFrom, trackerVars, From, Sorted
  <1>3. Evaluate \/ EvaluatorRaises \/ UNCHANGED vars => UNCHANGED trackerVars
    BY DEF Evaluate, EvaluatorRaises, vars
  <1> QED  BY <1>1, <1>2, <1>3 DEF Next

\* The burst count is the number of denials in the window that ends at the last
\* decision, at every pace, for every window and every length of the series.
THEOREM BurstIsExact == Spec => []BurstCountExact
  <1>1. Init => WindowInv
    <2> SUFFICES ASSUME Init PROVE WindowInv
      OBVIOUS
    <2>1. now = 0 /\ history = <<>> /\ tracker.times = <<>>
      BY DEF Init, NewTracker
    <2>2. Len(history) = 0 /\ history \in Seq(Decision)
      BY <2>1
    <2>3. HistoryTyped
      BY <2>1, <2>2 DEF HistoryTyped
    <2>4. \A t \in Int : DenialsFrom(t) = {} /\ From(tracker.times, t) = {}
      BY <2>1 DEF DenialsFrom, From
    <2>5. tracker.times \in Seq(Nat) /\ Sorted(tracker.times) /\ DOMAIN tracker.times = {}
      BY <2>1 DEF Sorted
    <2>6. \A t \in Int : Cardinality(DenialsFrom(t)) = Cardinality(From(tracker.times, t))
      BY <2>4
    <2> QED  BY <2>3, <2>5, <2>6 DEF WindowInv
  <1>2. WindowInv => BurstCountExact
    <2> SUFFICES ASSUME WindowInv PROVE BurstCountExact
      OBVIOUS
    <2>1. PICK w \in Nat : w = DenialConfig.window
      BY SeriesAssumption
    <2>2. PICK times \in Seq(Nat) : times = tracker.times
      BY DEF WindowInv
    <2> DEFINE t == now - w
    <2>3. t \in Int /\ now \in Nat
      BY DEF WindowInv, HistoryTyped
    <2>4. Cardinality(DenialsFrom(t)) = Cardinality(From(times, t))
      BY <2>1, <2>2, <2>3 DEF WindowInv
    <2>5. From(times, t) = 1..Len(times)
      <3>1. \A k \in 1..Len(times) : times[k] \in Nat /\ now - times[k] <= w
        BY <2>1, <2>2 DEF WindowInv
      <3>2. \A k \in 1..Len(times) : times[k] >= t
        BY <2>3, <3>1
      <3>3. DOMAIN times = 1..Len(times)
        OBVIOUS
      <3> QED  BY <3>2, <3>3 DEF From
    <2>6. Cardinality(1..Len(times)) = Len(times)
      <3>1. PICK n \in Nat : Len(times) = n
        OBVIOUS
      <3>2. Cardinality(1..n) = n
        BY FS_Interval
      <3> QED  BY <3>1, <3>2
    <2>7. DenialsFrom(t) =
              {k \in DOMAIN history : history[k].denied /\ history[k].at >= now - DenialConfig.window}
      BY <2>1 DEF DenialsFrom
    <2> HIDE DEF t
    <2> QED  BY <2>2, <2>4, <2>5, <2>6, <2>7 DEF BurstCountExact
  <1> QED  BY <1>1, <1>2, WindowStep, PTL DEF Spec
===============================================================================
