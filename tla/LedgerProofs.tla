------------------------------ MODULE LedgerProofs ------------------------------
(***************************************************************************)
(* For every ledger, of any length, and every stored copy of it that       *)
(* LedgerAudit.tla allows: the genuine chain verifies, an accepted copy is *)
(* genuine up to a genuine head or checkpoint, the bytes are exact, and    *)
(* the committed history is an append-only log.                            *)
(***************************************************************************)
EXTENDS LedgerAudit, DataProofs

-------------------------------------------------------------------------------
\* An event, as it is encoded, and a block of events, committed to or not.
IsRecord(ev) ==
    \E t, n, time, actor, parent :
        \E load \in Seq(Nat) :
            ev = [event_type |-> t, sequence |-> n, timestamp_ns |-> time,
                  actor_id |-> actor, parent_id |-> parent, payload |-> load]
AreRecords(events) ==
    Tupled(events, Len(events)) /\ \A k \in 1..Len(events) : IsRecord(events[k])
IsBlock(block) ==
    \E header, events : block = [header |-> header, events |-> events] /\ AreRecords(events)
WellFormed(chain) ==
    Tupled(chain, Len(chain)) /\ \A b \in 1..Len(chain) : IsBlock(chain[b])

\* Every block passes its tests.
Chained(chain) == WellFormed(chain) /\ \A b \in 1..Len(chain) : BlockOK(chain, b)

\* What a block's root determines.
LEMMA RootOfEvents ==
    ASSUME NEW a, NEW m, Tupled(a, m), NEW b, NEW n, Tupled(b, n),
           recompute_root(a) = recompute_root(b)
    PROVE  a = b
  <1>1. m \in Nat /\ n \in Nat /\ DOMAIN a = 1..m /\ DOMAIN b = 1..n
    BY TupledIs DEF Tupled
  <1>2. Tupled(Leaves(a), m) /\ \A k \in 1..m : Leaves(a)[k] = event_digest(a[k])
    BY <1>1 DEF Leaves, Tupled
  <1>3. Tupled(Leaves(b), n) /\ \A k \in 1..n : Leaves(b)[k] = event_digest(b[k])
    BY <1>1 DEF Leaves, Tupled
  <1>4. Leaves(a) = Leaves(b)
    BY <1>2, <1>3, RootInjective DEF recompute_root
  <1>5. m = n
    <2>1. Len(Leaves(a)) = m /\ Len(Leaves(b)) = n
      BY <1>2, <1>3, TupledIs
    <2> QED  BY <1>4, <2>1
  <1>6. ASSUME NEW k \in 1..m
        PROVE  a[k] = b[k]
    <2>1. event_digest(a[k]) = event_digest(b[k])
      BY <1>2, <1>3, <1>4, <1>5
    <2>2. <<a[k]>> = <<b[k]>>
      BY <2>1 DEF event_digest, commit
    <2> QED  BY <2>2
  <1> QED  BY <1>5, <1>6, TupledEqual

\* The head of a chain is the digest of its last block.
LEMMA HeadIs ==
    ASSUME NEW chain, NEW n, Tupled(chain, n), NEW m \in 1..n
    PROVE  head_digest(SubSeq(chain, 1, m)) = digest(chain[m])
  <1>1. n \in Nat /\ m \in 0..n
    BY DEF Tupled
  <1> DEFINE g == SubSeq(chain, 1, m)
  <1>2. Tupled(g, m) /\ \A k \in 1..m : g[k] = chain[k]
    BY <1>1, TupledPrefix
  <1> HIDE DEF g
  <1>3. Len(g) = m /\ g # <<>>
    <2>1. Len(g) = m
      BY <1>2, TupledIs
    <2> QED  BY <1>1, <2>1
  <1>4. Last(g) = chain[m]
    BY <1>1, <1>2, <1>3 DEF Last
  <1> QED  BY <1>3, <1>4 DEF head_digest, g

\* Two chains of one length with one head are the same, block by block.
LEMMA HeadPinsChain ==
    ASSUME NEW a, NEW b, NEW n, Chained(a), Len(a) = n, Chained(b), Len(b) = n,
           head_digest(a) = head_digest(b)
    PROVE  a = b
  <1>1. n \in Nat /\ Tupled(a, n) /\ Tupled(b, n)
    BY DEF Chained, WellFormed, Tupled
  <1> DEFINE HeadAt(chain, k) == head_digest(SubSeq(chain, 1, k))
  <1>2. ASSUME NEW k \in 1..n, HeadAt(a, k) = HeadAt(b, k)
        PROVE  a[k] = b[k] /\ HeadAt(a, k - 1) = HeadAt(b, k - 1)
    <2>1. digest(a[k]) = digest(b[k])
      BY <1>1, <1>2, HeadIs
    <2>2. <<a[k].header>> = <<b[k].header>>
      BY <2>1 DEF digest, commit
    <2>3. a[k].header = b[k].header
      BY <2>2
    <2>4. BlockOK(a, k) /\ BlockOK(b, k) /\ IsBlock(a[k]) /\ IsBlock(b[k])
      BY DEF Chained, WellFormed
    <2>5. recompute_root(a[k].events) = recompute_root(b[k].events) /\ HeadAt(a, k - 1) = HeadAt(b, k - 1)
      BY <2>3, <2>4 DEF BlockOK
    <2>6. PICK ha, ea : a[k] = [header |-> ha, events |-> ea] /\ AreRecords(ea)
      BY <2>4 DEF IsBlock
    <2>7. PICK hb, eb : b[k] = [header |-> hb, events |-> eb] /\ AreRecords(eb)
      BY <2>4 DEF IsBlock
    <2>8. ha = hb
      BY <2>3, <2>6, <2>7
    <2>9. ea = eb
      <3>1. a[k].events = ea /\ b[k].events = eb
        BY <2>6, <2>7
      <3>2. recompute_root(ea) = recompute_root(eb)
        BY <2>5, <3>1
      <3> QED  BY <2>6, <2>7, <3>2, RootOfEvents DEF AreRecords
    <2> QED  BY <2>5, <2>6, <2>7, <2>8, <2>9
  <1> HIDE DEF HeadAt
  <1> DEFINE Same == {k \in Nat : k < n => /\ HeadAt(a, n - k) = HeadAt(b, n - k)
                                           /\ a[n - k] = b[n - k]}
  <1>3. ASSUME NEW k \in 1..n, HeadAt(a, k) = HeadAt(b, k)
        PROVE  n - k \in Same
    <2>1. n - k \in Nat /\ n - (n - k) = k
      BY <1>1
    <2> QED  BY <1>2, <1>3, <2>1
  <1>4. 0 \in Same
    <2>1. HeadAt(a, n) = HeadAt(b, n)
      BY <1>1, PrefixOfAll DEF HeadAt
    <2>2. CASE n = 0
      BY <2>2
    <2>3. CASE n # 0
      <3>1. n \in 1..n /\ n - n = 0
        BY <1>1, <2>3
      <3> QED  BY <1>3, <2>1, <3>1
    <2> QED  BY <2>2, <2>3
  <1>5. ASSUME NEW k \in Nat, k \in Same
        PROVE  k + 1 \in Same
    <2>1. CASE ~(k + 1 < n)
      BY <2>1
    <2>2. CASE k + 1 < n
      <3>1. n - k \in 1..n /\ n - (k + 1) \in 1..n /\ (n - k) - 1 = n - (k + 1) /\ n - (n - (k + 1)) = k + 1
        BY <1>1, <2>2
      <3>2. HeadAt(a, n - k) = HeadAt(b, n - k)
        BY <1>1, <1>5, <2>2
      <3>3. HeadAt(a, n - (k + 1)) = HeadAt(b, n - (k + 1))
        BY <1>2, <3>1, <3>2
      <3> HIDE DEF Same
      <3>4. n - (n - (k + 1)) \in Same
        BY <1>3, <3>1, <3>3
      <3> QED  BY <3>1, <3>4
    <2> QED  BY <2>1, <2>2
  <1> HIDE DEF Same
  <1>6. Nat \subseteq Same
    BY <1>4, <1>5, Induction
  <1>7. ASSUME NEW k \in 1..n
        PROVE  a[k] = b[k]
    <2>1. n - k \in Nat /\ n - k < n /\ n - (n - k) = k
      BY <1>1
    <2>2. n - k \in Same
      BY <1>6, <2>1
    <2> QED  BY <2>1, <2>2 DEF Same
  <1> QED  BY <1>1, <1>7, TupledEqual

-------------------------------------------------------------------------------
\* Every alteration of a well-formed chain is one (LedgerAudit.Copies).

\* An event callers can stage, or an editor put in.
LEMMA EventIsRecord ==
    ASSUME NEW c \in Contents, NEW n
    PROVE  IsRecord(Event(n, c))
  <1> DEFINE load == c.payload
  <1>1. load \in Seq(Nat)
    BY OfferedAssumption
  <1>2. Event(n, c) = [event_type |-> c.event_type, sequence |-> n, timestamp_ns |-> c.timestamp_ns,
                       actor_id |-> c.actor_id, parent_id |-> c.parent_id, payload |-> load]
    BY DEF Event
  <1> HIDE DEF load
  <1> QED  BY <1>1, <1>2, Zenon DEF IsRecord

\* Events replaced, cut off, or repeated.
LEMMA RecordsEdited ==
    ASSUME NEW events, AreRecords(events)
    PROVE  /\ \A x : IsRecord(x) => AreRecords(Append(events, x))
           /\ \A k \in 0..Len(events) : AreRecords(SubSeq(events, 1, k))
           /\ \A x, k : IsRecord(x) /\ k \in 1..Len(events) => AreRecords([events EXCEPT ![k] = x])
  <1> DEFINE n == Len(events)
  <1>1. n \in Nat /\ Tupled(events, n) /\ \A k \in 1..n : IsRecord(events[k])
    BY DEF AreRecords, Tupled
  <1> HIDE DEF n
  <1>2. ASSUME NEW x, IsRecord(x)
        PROVE  AreRecords(Append(events, x))
    <2> DEFINE g == Append(events, x)
    <2>1. Extends(g, events, n, x)
      BY <1>1, TupledAppend
    <2> HIDE DEF g
    <2>2. Len(g) = n + 1
      BY <2>1, TupledIs DEF Extends
    <2>3. ASSUME NEW k \in 1..(n + 1)
          PROVE  IsRecord(g[k])
      <3>1. k \in 1..n \/ k = n + 1
        BY <1>1
      <3> QED  BY <1>1, <1>2, <2>1, <3>1 DEF Extends
    <2>4. AreRecords(g)
      BY <2>1, <2>2, <2>3 DEF AreRecords, Extends
    <2> QED  BY <2>4 DEF g
  <1>3. ASSUME NEW k \in 0..n
        PROVE  AreRecords(SubSeq(events, 1, k))
    <2> DEFINE g == SubSeq(events, 1, k)
    <2>1. Tupled(g, k) /\ \A j \in 1..k : g[j] = events[j]
      BY <1>1, TupledPrefix
    <2> HIDE DEF g
    <2>2. Len(g) = k
      BY <2>1, TupledIs
    <2>3. \A j \in 1..k : j \in 1..n
      BY <1>1
    <2>4. AreRecords(g)
      BY <1>1, <2>1, <2>2, <2>3 DEF AreRecords
    <2> QED  BY <2>4 DEF g
  <1>4. ASSUME NEW x, IsRecord(x), NEW k \in 1..n
        PROVE  AreRecords([events EXCEPT ![k] = x])
    <2> DEFINE g == [events EXCEPT ![k] = x]
    <2>1. DOMAIN events = 1..n
      BY <1>1, TupledIs
    <2>2. Tupled(g, n) /\ \A j \in 1..n : g[j] = IF j = k THEN x ELSE events[j]
      BY <1>1, <2>1 DEF Tupled
    <2> HIDE DEF g
    <2>3. Len(g) = n
      BY <2>2, TupledIs
    <2>4. AreRecords(g)
      BY <1>1, <1>4, <2>2, <2>3 DEF AreRecords
    <2> QED  BY <2>4 DEF g
  <1> QED  BY <1>2, <1>3, <1>4 DEF n

\* A block with its events replaced, committed to or not.
LEMMA RewrittenIsBlock ==
    ASSUME NEW block, IsBlock(block), NEW events, AreRecords(events),
           NEW x \in Rewritten(block, events)
    PROVE  IsBlock(x)
  <1>1. PICK h, e : block = [header |-> h, events |-> e]
    BY DEF IsBlock
  <1>2. CASE x = [block EXCEPT !.events = events]
    <2>1. x = [header |-> h, events |-> events]
      BY <1>1, <1>2
    <2> QED  BY <2>1 DEF IsBlock
  <1>3. CASE x = [block EXCEPT !.events = events, !.header.events_root = recompute_root(events),
                               !.header.event_count = Len(events)]
    <2> DEFINE r == recompute_root(events)
               l == Len(events)
               h2 == [[h EXCEPT !.events_root = r] EXCEPT !.event_count = l]
    <2> HIDE DEF r, l
    <2>1. x = [block EXCEPT !.events = events, !.header.events_root = r, !.header.event_count = l]
      BY <1>3 DEF r, l
    <2>2. x = [header |-> h2, events |-> events]
      BY <1>1, <2>1
    <2> QED  BY <2>2 DEF IsBlock
  <1> QED  BY <1>2, <1>3 DEF Rewritten

\* What an editor makes of one that has events.
LEMMA EditedIsBlock ==
    ASSUME NEW block, IsBlock(block), block.events # <<>>,
           NEW x \in Edited(block) \cup Relabelled(block)
    PROVE  IsBlock(x)
  <1> DEFINE e == block.events
  <1>1. PICK h : block = [header |-> h, events |-> e] /\ AreRecords(e)
    <2>1. PICK h, f : block = [header |-> h, events |-> f] /\ AreRecords(f)
      BY DEF IsBlock
    <2>2. block.events = f
      BY <2>1
    <2> QED  BY <2>1, <2>2
  <1>2. e # <<>>
    OBVIOUS
  <1> HIDE DEF e
  <1>3. Len(e) \in Nat /\ DOMAIN e = 1..Len(e) /\ Len(e) # 0
    <2>1. Len(e) \in Nat /\ Tupled(e, Len(e))
      BY <1>1 DEF AreRecords, Tupled
    <2>2. DOMAIN e = 1..Len(e)
      BY <2>1, TupledIs
    <2>3. Len(e) = 0 => e = <<>>
      BY <2>1 DEF Tupled
    <2> QED  BY <1>2, <2>1, <2>2, <2>3
  <1>4. ASSUME NEW k \in DOMAIN e, NEW c \in Contents,
               x \in Rewritten(block, [e EXCEPT ![k] = Event(@.sequence, c)])
        PROVE  IsBlock(x)
    <2>1. [e EXCEPT ![k] = Event(@.sequence, c)] = [e EXCEPT ![k] = Event(e[k].sequence, c)]
      OBVIOUS
    <2>2. IsRecord(Event(e[k].sequence, c))
      BY EventIsRecord
    <2>3. AreRecords([e EXCEPT ![k] = Event(e[k].sequence, c)])
      BY <1>1, <1>3, <2>2, RecordsEdited
    <2> QED  BY <1>4, <2>1, <2>3, RewrittenIsBlock
  <1>5. ASSUME NEW k \in 0..Len(e), x \in Rewritten(block, SubSeq(e, 1, k))
        PROVE  IsBlock(x)
    <2>1. AreRecords(SubSeq(e, 1, k))
      BY <1>1, RecordsEdited
    <2> QED  BY <1>5, <2>1, RewrittenIsBlock
  <1>6. ASSUME x \in Rewritten(block, Append(e, Last(e)))
        PROVE  IsBlock(x)
    <2>1. IsRecord(Last(e))
      BY <1>1, <1>3 DEF Last, AreRecords
    <2>2. AreRecords(Append(e, Last(e)))
      BY <1>1, <2>1, RecordsEdited
    <2> QED  BY <1>6, <2>2, RewrittenIsBlock
  <1>7. ASSUME x \in Relabelled(block)
        PROVE  IsBlock(x)
    <2>1. CASE \E n \in 0..MaxEvents : x = [block EXCEPT !.header.event_count = n]
      <3>1. PICK n \in 0..MaxEvents : x = [block EXCEPT !.header.event_count = n]
        BY <2>1
      <3>2. x = [header |-> [h EXCEPT !.event_count = n], events |-> e]
        BY <1>1, <3>1
      <3> QED  BY <1>1, <3>2 DEF IsBlock
    <2>2. CASE \E n \in 0..MaxBlocks : x = [block EXCEPT !.header.height = n]
      <3>1. PICK n \in 0..MaxBlocks : x = [block EXCEPT !.header.height = n]
        BY <2>2
      <3>2. x = [header |-> [h EXCEPT !.height = n], events |-> e]
        BY <1>1, <3>1
      <3> QED  BY <1>1, <3>2 DEF IsBlock
    <2> QED  BY <1>7, <2>1, <2>2 DEF Relabelled
  <1>8. \/ \E k \in DOMAIN e, c \in Contents :
               x \in Rewritten(block, [e EXCEPT ![k] = Event(@.sequence, c)])
        \/ \E k \in 0..Len(e) : x \in Rewritten(block, SubSeq(e, 1, k))
        \/ x \in Rewritten(block, Append(e, Last(e)))
        \/ x \in Relabelled(block)
    <2> DEFINE A == {Rewritten(block, [e EXCEPT ![k] = Event(@.sequence, c)]) :
                        k \in DOMAIN e, c \in Contents}
               B == {Rewritten(block, SubSeq(e, 1, k)) : k \in 0..Len(e)}
    <2>1. Edited(block) = (UNION A) \cup (UNION B) \cup Rewritten(block, Append(e, Last(e)))
      BY DEF Edited, e
    <2>2. \A y \in A : \E k \in DOMAIN e, c \in Contents :
                           y = Rewritten(block, [e EXCEPT ![k] = Event(@.sequence, c)])
      OBVIOUS
    <2>3. \A y \in B : \E k \in 0..Len(e) : y = Rewritten(block, SubSeq(e, 1, k))
      OBVIOUS
    <2> HIDE DEF A, B
    <2>4. ASSUME x \in UNION A
          PROVE  \E k \in DOMAIN e, c \in Contents :
                    x \in Rewritten(block, [e EXCEPT ![k] = Event(@.sequence, c)])
      BY <2>2, <2>4
    <2>5. ASSUME x \in UNION B
          PROVE  \E k \in 0..Len(e) : x \in Rewritten(block, SubSeq(e, 1, k))
      BY <2>3, <2>5
    <2>6. \/ x \in UNION A \/ x \in UNION B
          \/ x \in Rewritten(block, Append(e, Last(e))) \/ x \in Relabelled(block)
      BY <2>1
    <2> QED  BY <2>4, <2>5, <2>6
  <1> QED  BY <1>4, <1>5, <1>6, <1>7, <1>8

\* A sequence of blocks.
LEMMA WellFormedSeq ==
    ASSUME NEW T, \A x \in T : IsBlock(x), NEW s \in Seq(T)
    PROVE  WellFormed(s)
  <1>1. Tupled(s, Len(s)) /\ \A k \in 1..Len(s) : s[k] \in T
    BY SeqTupled
  <1> QED  BY <1>1 DEF WellFormed

\* Every copy is one.
LEMMA CopiesWellFormed ==
    ASSUME NEW chain, WellFormed(chain), \A b \in 1..Len(chain) : chain[b].events # <<>>,
           NEW copy \in Copies(chain)
    PROVE  WellFormed(copy)
  <1> DEFINE n == Len(chain)
             T == {chain[b] : b \in 1..n}
  <1>1. /\ n \in Nat /\ Tupled(chain, n) /\ DOMAIN chain = 1..n /\ chain \in Seq(T)
        /\ \A b \in 1..n : IsBlock(chain[b])
    BY TupledIs DEF WellFormed, Tupled
  <1>2. \A x \in T : IsBlock(x)
    BY <1>1
  <1>3. \A b \in 1..n : chain[b] \in T
    OBVIOUS
  <1> HIDE DEF n, T
  <1>4. \A k, l \in Int : 1 <= k /\ l <= n => SubSeq(chain, k, l) \in Seq(T)
    <2> SUFFICES ASSUME NEW k \in Int, NEW l \in Int, 1 <= k, l <= n
                 PROVE  SubSeq(chain, k, l) \in Seq(T)
      OBVIOUS
    <2>1. \A i \in k..l : chain[i] \in T
      BY <1>1, <1>3
    <2> QED  BY <2>1, SubSeqProperties
  <1>5. ASSUME copy \in AlteredInPlace(chain)
        PROVE  WellFormed(copy)
    <2>0. PICK b \in 1..n : \E x \in Edited(chain[b]) \cup Relabelled(chain[b]) :
                               copy = [chain EXCEPT ![b] = x]
      BY <1>1, <1>5 DEF AlteredInPlace
    <2>1. PICK x \in Edited(chain[b]) \cup Relabelled(chain[b]) : copy = [chain EXCEPT ![b] = x]
      BY <2>0
    <2>2. IsBlock(x)
      BY <1>1, <2>1, EditedIsBlock DEF n
    <2>3. Tupled(copy, n) /\ \A c \in 1..n : copy[c] = IF c = b THEN x ELSE chain[c]
      BY <1>1, <2>1 DEF Tupled
    <2>4. Len(copy) = n
      BY <2>3, TupledIs
    <2> QED  BY <1>1, <2>2, <2>3, <2>4 DEF WellFormed
  <1>6. ASSUME copy \in Truncated(chain)
        PROVE  WellFormed(copy)
    <2>1. PICK k \in 0..n : copy = SubSeq(chain, 1, k)
      BY <1>6 DEF Truncated, n
    <2>2. copy \in Seq(T)
      BY <1>1, <1>4, <2>1
    <2> QED  BY <1>2, <2>2, WellFormedSeq
  <1>7. ASSUME copy \in Rearranged(chain)
        PROVE  WellFormed(copy)
    <2>1. CASE \E b \in DOMAIN chain : copy = RemoveAt(chain, b)
      <3>1. PICK b \in 1..n : copy = SubSeq(chain, 1, b - 1) \o SubSeq(chain, b + 1, n)
        BY <1>1, <2>1 DEF RemoveAt, n
      <3>2. SubSeq(chain, 1, b - 1) \in Seq(T) /\ SubSeq(chain, b + 1, n) \in Seq(T)
        BY <1>1, <1>4
      <3>3. copy \in Seq(T)
        BY <3>1, <3>2, ConcatProperties
      <3> QED  BY <1>2, <3>3, WellFormedSeq
    <2>2. CASE \E b, c \in DOMAIN chain : copy = [chain EXCEPT ![b] = chain[c], ![c] = chain[b]]
      <3>1. PICK b \in 1..n, c \in 1..n : copy = [chain EXCEPT ![b] = chain[c], ![c] = chain[b]]
        BY <1>1, <2>2
      <3> DEFINE p == chain[b]
                 q == chain[c]
      <3>2. copy = [chain EXCEPT ![b] = q, ![c] = p]
        BY <3>1
      <3>3. IsBlock(p) /\ IsBlock(q)
        BY <1>1
      <3> HIDE DEF p, q
      <3>4. /\ Tupled(copy, n)
            /\ \A d \in 1..n : copy[d] = IF d = c THEN p ELSE IF d = b THEN q ELSE chain[d]
        BY <1>1, <3>2 DEF Tupled
      <3>5. Len(copy) = n
        BY <3>4, TupledIs
      <3> QED  BY <1>1, <3>3, <3>4, <3>5 DEF WellFormed
    <2> QED  BY <1>7, <2>1, <2>2 DEF Rearranged
  <1>8. ASSUME copy \in Resealed(chain)
        PROVE  WellFormed(copy)
    <2>1. chain # <<>>
      BY <1>8 DEF Resealed
    <2>2. n # 0
      BY <1>1, <2>1 DEF Tupled
    <2>3. PICK x \in Edited(chain[n]) : copy = Append(Front(chain), NewBlock(Front(chain), x.events))
      BY <1>8, <2>1 DEF Resealed, Last, n
    <2> DEFINE z == NewBlock(Front(chain), x.events)
               U == T \cup {z}
    <2>4. IsBlock(z)
      <3>1. IsBlock(x)
        BY <1>1, <2>2, EditedIsBlock DEF n
      <3>2. PICK h, e : x = [header |-> h, events |-> e] /\ AreRecords(e)
        BY <3>1 DEF IsBlock
      <3>3. x.events = e
        BY <3>2
      <3>4. \E g : z = [header |-> g, events |-> e]
        BY <3>3 DEF NewBlock
      <3> QED  BY <3>2, <3>4 DEF IsBlock
    <2>5. Front(chain) \in Seq(T)
      <3>1. Front(chain) = SubSeq(chain, 1, n - 1)
        BY DEF Front, n
      <3> QED  BY <1>1, <1>4, <3>1
    <2> HIDE DEF z
    <2>6. Front(chain) \in Seq(U) /\ z \in U
      <3>1. T \subseteq U
        OBVIOUS
      <3> HIDE DEF U
      <3>2. Front(chain) \in Seq(U)
        BY <2>5, <3>1, SeqMonotonic
      <3> QED  BY <3>2 DEF U
    <2>7. \A y \in U : IsBlock(y)
      BY <1>2, <2>4
    <2> HIDE DEF U
    <2>8. copy \in Seq(U)
      BY <2>3, <2>6, AppendProperties DEF z
    <2> QED  BY <2>7, <2>8, WellFormedSeq
  <1> QED  BY <1>5, <1>6, <1>7, <1>8 DEF Copies

-------------------------------------------------------------------------------
\* F holds what the first 0, 1, 2, ... of a row of sequences give end to end ...
Joins(F, seqs, n) ==
    F[0] = <<>> /\ \A k \in Nat : k < n => F[k + 1] = F[k] \o seqs[k + 1]

\* ... and the library's FlattenSeq is the last of these.
LEMMA FlattenIs ==
    ASSUME NEW S, NEW n \in Nat, NEW seqs, Tupled(seqs, n), \A k \in 1..n : seqs[k] \in Seq(S)
    PROVE  \E F : /\ Joins(F, seqs, n) /\ FlattenSeq(seqs) = F[n]
                  /\ \A k \in 0..n : F[k] \in Seq(S)
  <1>1. Len(seqs) = n
    BY TupledIs
  <1>2. CASE n = 0
    <2> DEFINE F == [k \in {0} |-> <<>>]
    <2>1. F[0] = <<>>
      OBVIOUS
    <2>2. FlattenSeq(seqs) = <<>>
      BY <1>1, <1>2 DEF FlattenSeq, Tupled
    <2> HIDE DEF F
    <2>3. Joins(F, seqs, n)
      <3>1. \A k \in Nat : ~(k < n)
        BY <1>2
      <3> QED  BY <2>1, <3>1, Zenon DEF Joins
    <2>4. \A k \in 0..n : F[k] \in Seq(S)
      <3>1. F[0] \in Seq(S)
        BY <2>1, EmptySeq, Zenon
      <3>2. \A k \in 0..n : k = 0
        BY <1>2
      <3> QED  BY <3>1, <3>2, Zenon
    <2> QED  BY <1>2, <2>1, <2>2, <2>3, <2>4
  <1>3. CASE n # 0
    <2> DEFINE Direct(f) == f = [k \in 1..Len(seqs) |-> IF k = 1 THEN seqs[k] ELSE f[k - 1] \o seqs[k]]
               row == CHOOSE f : Direct(f)
               of == [kind |-> "row", seqs |-> seqs]
    <2>1. FlattenSeq(seqs) = row[n]
      BY <1>1, <1>3 DEF FlattenSeq
    <2>2. \A x, k : Following(of, x, k) = x \o seqs[k + 1]
      BY DEF Following
    <2> HIDE DEF of
    <2>3. n - 1 \in Nat
      BY <1>3
    <2>4. PICK chain : IsChain(chain, of, seqs[1], n - 1)
      BY <2>3, ChainExists
    <2>5. \A k \in 0..(n - 1) : chain[k] = IF k = 0 THEN seqs[1] ELSE chain[k - 1] \o seqs[k + 1]
      <3>1. \A k \in 0..(n - 1) : chain[k] = IF k = 0 THEN seqs[1] ELSE Following(of, chain[k - 1], k)
        BY <2>4 DEF IsChain
      <3> QED  BY <2>2, <3>1
    <2>6. \E f : Direct(f)
      <3> DEFINE f == [k \in 1..n |-> chain[k - 1]]
      <3>1. ASSUME NEW k \in 1..n
            PROVE  f[k] = IF k = 1 THEN seqs[k] ELSE f[k - 1] \o seqs[k]
        <4>1. k - 1 \in 0..(n - 1) /\ (k - 1) + 1 = k /\ (k - 1 = 0 <=> k = 1)
          OBVIOUS
        <4>2. chain[k - 1] = IF k = 1 THEN seqs[k] ELSE chain[(k - 1) - 1] \o seqs[k]
          BY <2>5, <4>1
        <4>3. CASE k = 1
          BY <4>2, <4>3
        <4>4. CASE k # 1
          <5>1. k - 1 \in 1..n
            BY <4>4
          <5>2. f[k] = chain[k - 1] /\ f[k - 1] = chain[(k - 1) - 1]
            BY <5>1
          <5> HIDE DEF f
          <5> QED  BY <4>2, <4>4, <5>2
        <4> QED  BY <4>3, <4>4
      <3>2. f = [k \in 1..n |-> f[k]]
        OBVIOUS
      <3> HIDE DEF f
      <3>3. f = [k \in 1..n |-> IF k = 1 THEN seqs[k] ELSE f[k - 1] \o seqs[k]]
        BY <3>1, <3>2
      <3>4. Direct(f)
        BY <1>1, <3>3
      <3> HIDE DEF Direct
      <3> QED  BY <3>4
    <2>7. Direct(row)
      <3> HIDE DEF Direct
      <3> QED  BY <2>6
    <2> HIDE DEF row
    <2>8. \A k \in 1..n : row[k] = IF k = 1 THEN seqs[k] ELSE row[k - 1] \o seqs[k]
      BY <1>1, <2>7
    <2> HIDE DEF Direct
    <2> DEFINE F == [k \in 0..n |-> IF k = 0 THEN <<>> ELSE row[k]]
    <2>9. F[0] = <<>> /\ \A k \in 1..n : F[k] = row[k]
      OBVIOUS
    <2> HIDE DEF F
    <2>10. ASSUME NEW k \in Nat, k < n
           PROVE  F[k + 1] = F[k] \o seqs[k + 1]
      <3>1. k + 1 \in 1..n /\ (k + 1) - 1 = k
        BY <2>10
      <3>2. CASE k = 0
        <4>1. F[k + 1] = seqs[k + 1]
          BY <2>8, <2>9, <3>1, <3>2
        <4>2. <<>> \o seqs[k + 1] = seqs[k + 1]
          BY <3>1, ConcatEmptySeq
        <4> QED  BY <2>9, <3>2, <4>1, <4>2
      <3>3. CASE k # 0
        <4>1. k \in 1..n /\ k + 1 # 1
          BY <3>1, <3>3
        <4> QED  BY <2>8, <2>9, <3>1, <4>1
      <3> QED  BY <3>2, <3>3
    <2>11. Joins(F, seqs, n)
      BY <2>9, <2>10 DEF Joins
    <2> DEFINE Typed == {k \in Nat : k <= n => F[k] \in Seq(S)}
    <2>12. 0 \in Typed
      <3>1. F[0] \in Seq(S)
        BY <2>9, EmptySeq, Zenon
      <3> QED  BY <3>1
    <2>13. ASSUME NEW k \in Nat, k \in Typed
           PROVE  k + 1 \in Typed
      <3> SUFFICES ASSUME k + 1 <= n
                   PROVE  F[k + 1] \in Seq(S)
        OBVIOUS
      <3>1. k < n /\ k + 1 \in 1..n /\ F[k] \in Seq(S) /\ seqs[k + 1] \in Seq(S)
        BY <2>13
      <3> QED  BY <2>10, <3>1, ConcatProperties
    <2> HIDE DEF Typed
    <2>14. Nat \subseteq Typed
      BY <2>12, <2>13, Induction
    <2>15. \A k \in 0..n : F[k] \in Seq(S)
      BY <2>14 DEF Typed
    <2>16. n \in 1..n
      BY <1>3
    <2> QED  BY <2>1, <2>9, <2>11, <2>15, <2>16
  <1> QED  BY <1>2, <1>3

\* Rows that agree give the same.
LEMMA JoinsAgree ==
    ASSUME NEW F, NEW s, NEW n, Joins(F, s, n), NEW G, NEW t, NEW m, Joins(G, t, m),
           NEW l \in Nat, n \in Nat, m \in Nat, l <= n, l <= m, \A k \in 1..l : s[k] = t[k]
    PROVE  F[l] = G[l]
  <1> DEFINE Same == {k \in Nat : k <= l => F[k] = G[k]}
  <1>1. 0 \in Same
    BY DEF Joins
  <1>2. ASSUME NEW k \in Nat, k \in Same
        PROVE  k + 1 \in Same
    <2> SUFFICES ASSUME k + 1 <= l
                 PROVE  F[k + 1] = G[k + 1]
      OBVIOUS
    <2>1. k < n /\ k < m /\ k + 1 \in 1..l /\ k <= l
      OBVIOUS
    <2>2. F[k + 1] = F[k] \o s[k + 1] /\ G[k + 1] = G[k] \o t[k + 1]
      BY <2>1 DEF Joins
    <2>3. F[k] = G[k] /\ s[k + 1] = t[k + 1]
      BY <1>2, <2>1
    <2> QED  BY <2>2, <2>3
  <1> HIDE DEF Same
  <1>3. l \in Same
    BY <1>1, <1>2, Induction
  <1> QED  BY <1>3 DEF Same

-------------------------------------------------------------------------------
\* The history of a chain with one more block is the history it had and the
\* events of that block (Ledger.all_events).
LEMMA HistoryGrows ==
    ASSUME NEW S, NEW chain, NEW n, Tupled(chain, n), \A b \in 1..n : chain[b].events \in Seq(S),
           NEW x, x.events \in Seq(S)
    PROVE  /\ all_events(chain) \in Seq(S)
           /\ all_events(Append(chain, x)) = all_events(chain) \o x.events
  <1> DEFINE longer == Append(chain, x)
             s == [b \in 1..n |-> chain[b].events]
             t == [b \in 1..(n + 1) |-> longer[b].events]
  <1>1. n \in Nat /\ DOMAIN chain = 1..n
    BY TupledIs DEF Tupled
  <1>2. /\ Tupled(longer, n + 1) /\ DOMAIN longer = 1..(n + 1)
        /\ (\A b \in 1..n : longer[b] = chain[b]) /\ longer[n + 1] = x
    <2>1. Extends(longer, chain, n, x)
      BY TupledAppend
    <2> HIDE DEF longer
    <2> QED  BY <2>1, TupledIs DEF Extends
  <1>3. all_events(chain) = FlattenSeq(s)
    BY <1>1 DEF all_events
  <1>4. all_events(longer) = FlattenSeq(t)
    BY <1>2 DEF all_events
  <1> HIDE DEF longer
  <1>5. Tupled(s, n) /\ \A b \in 1..n : s[b] = chain[b].events
    BY <1>1 DEF Tupled
  <1>6. Tupled(t, n + 1) /\ \A b \in 1..(n + 1) : t[b] = longer[b].events
    BY <1>1 DEF Tupled
  <1> HIDE DEF s, t
  <1>7. \A b \in 1..n : s[b] = t[b] /\ s[b] \in Seq(S)
    BY <1>1, <1>2, <1>5, <1>6
  <1>8. n + 1 \in 1..(n + 1) /\ t[n + 1] = x.events /\ n + 1 \in Nat
    BY <1>1, <1>2, <1>6
  <1>9. \A b \in 1..(n + 1) : t[b] \in Seq(S)
    <2>1. \A b \in 1..(n + 1) : b \in 1..n \/ b = n + 1
      BY <1>1
    <2> QED  BY <1>7, <1>8, <2>1
  <1>10. PICK F : Joins(F, s, n) /\ FlattenSeq(s) = F[n] /\ \A k \in 0..n : F[k] \in Seq(S)
    BY <1>1, <1>5, <1>7, FlattenIs
  <1>11. PICK G : Joins(G, t, n + 1) /\ FlattenSeq(t) = G[n + 1]
    BY <1>6, <1>8, <1>9, FlattenIs
  <1>12. F[n] = G[n]
    <2>1. n <= n /\ n <= n + 1
      BY <1>1
    <2> QED  BY <1>1, <1>7, <1>8, <1>10, <1>11, <2>1, JoinsAgree
  <1>13. G[n + 1] = G[n] \o t[n + 1]
    <2>1. n < n + 1
      BY <1>1
    <2> QED  BY <1>1, <1>11, <2>1 DEF Joins
  <1>14. F[n] \in Seq(S)
    BY <1>1, <1>10
  <1> QED  BY <1>3, <1>4, <1>8, <1>10, <1>11, <1>12, <1>13, <1>14 DEF longer

\* Nothing was committed at first.
LEMMA NoHistory == all_events(<<>>) = <<>>
  <1>1. all_events(<<>>) = FlattenSeq(<<>>)
    BY DEF all_events
  <1>2. FlattenSeq(<<>>) = <<>>
    BY DEF FlattenSeq
  <1> QED  BY <1>1, <1>2

-------------------------------------------------------------------------------
\* The invariant.  Every block passes its tests and holds events that callers
\* offered; the events of the history, and then those still to be sealed, are
\* numbered from 0 without a gap; a checkpoint held outside is the one of the
\* chain as it was at some height; and what was audited is a copy, with a
\* checkpoint held outside or without, and verify_chain's answer.
Sealed ==
    /\ Chained(blocks)
    /\ \A b \in 1..Len(blocks) : blocks[b].events \in Seq(Offered) /\ blocks[b].events # <<>>
Counted ==
    /\ pending \in Seq(Offered)
    /\ all_events(blocks) \in Seq(Offered)
    /\ next_sequence = Len(all_events(blocks)) + Len(pending)
    /\ \A k \in 1..Len(all_events(blocks)) : all_events(blocks)[k].sequence = k - 1
    /\ \A k \in 1..Len(pending) : pending[k].sequence = Len(all_events(blocks)) + k - 1
Remembered ==
    \A cp \in exported : \E h \in 0..Len(blocks) : cp = checkpoint(SubSeq(blocks, 1, h))
Examined ==
    audited # NoAudit =>
        \E copy \in Copies(blocks), cps \in {{}} \cup {{cp} : cp \in exported} :
            audited = [copy |-> copy, against |-> cps, accepted |-> verify_chain(copy, cps)]
LedgerInv == Sealed /\ Counted /\ Remembered /\ Examined

\* What callers can stage is an event with the fields one has.
LEMMA OfferedAreRecords ==
    ASSUME NEW events \in Seq(Offered)
    PROVE  AreRecords(events)
  <1>1. Tupled(events, Len(events)) /\ \A k \in 1..Len(events) : events[k] \in Offered
    BY SeqTupled
  <1>2. ASSUME NEW ev \in Offered
        PROVE  IsRecord(ev)
    <2>1. PICK c \in Contents : ev = Event(ev.sequence, c)
      BY OfferedAssumption
    <2>2. IsRecord(Event(ev.sequence, c))
      BY EventIsRecord
    <2> QED  BY <2>1, <2>2
  <1> QED  BY <1>1, <1>2 DEF AreRecords

\* A step that leaves the chain and the checkpoints alone keeps what holds of
\* them.
LEMMA RememberedKept ==
    ASSUME Remembered, UNCHANGED <<blocks, exported>>
    PROVE  Remembered'
  BY DEF Remembered

\* At first there is nothing.
LEMMA LedgerInvInit ==
    ASSUME Init
    PROVE  LedgerInv
  <1>1. blocks = <<>> /\ pending = <<>> /\ next_sequence = 0 /\ exported = {} /\ audited = NoAudit
    BY DEF Init, LedgerInit
  <1>2. Len(<<>>) = 0 /\ \A k : k \notin 1..0
    OBVIOUS
  <1>3. Tupled(<<>>, 0)
    BY DEF Tupled
  <1>4. Sealed
    BY <1>1, <1>2, <1>3 DEF Sealed, Chained, WellFormed
  <1>5. Counted
    <2>1. all_events(blocks) = <<>> /\ pending = <<>> /\ next_sequence = 0
      BY <1>1, NoHistory
    <2>2. <<>> \in Seq(Offered)
      BY EmptySeq
    <2>3. all_events(blocks) \in Seq(Offered) /\ pending \in Seq(Offered)
      BY <2>1, <2>2, Zenon
    <2> QED  BY <1>2, <2>1, <2>3 DEF Counted
  <1>6. Remembered
    BY <1>1 DEF Remembered
  <1>7. Examined
    BY <1>1 DEF Examined
  <1> QED  BY <1>4, <1>5, <1>6, <1>7 DEF LedgerInv

\* An event is staged only with the number that comes next (Ledger.append).
LEMMA LedgerInvStage ==
    ASSUME LedgerInv, Stage
    PROVE  LedgerInv'
  <1>1. PICK ev \in Offered : append(ev)
    BY DEF Stage
  <1>2. /\ ev.sequence = next_sequence /\ pending' = Append(pending, ev)
        /\ next_sequence' = next_sequence + 1 /\ blocks' = blocks
        /\ exported' = exported /\ audited' = NoAudit
    BY <1>1 DEF append, Stage
  <1>3. Sealed'
    BY <1>2 DEF LedgerInv, Sealed
  <1>4. Counted'
    <2> DEFINE done == all_events(blocks)
               next == Append(pending, ev)
    <2>1. done \in Seq(Offered) /\ pending \in Seq(Offered) /\ next_sequence = Len(done) + Len(pending)
      BY DEF LedgerInv, Counted
    <2>2. \A k \in 1..Len(done) : done[k].sequence = k - 1
      BY DEF LedgerInv, Counted
    <2>3. \A k \in 1..Len(pending) : pending[k].sequence = Len(done) + k - 1
      BY DEF LedgerInv, Counted
    <2>4. all_events(blocks)' = done
      BY <1>2
    <2>5. Len(done) \in Nat /\ Len(pending) \in Nat
      BY <2>1, LenProperties
    <2>6. /\ next \in Seq(Offered) /\ Len(next) = Len(pending) + 1
          /\ (\A k \in 1..Len(pending) : next[k] = pending[k]) /\ next[Len(pending) + 1] = ev
      BY <2>1, AppendProperties
    <2> HIDE DEF done, next
    <2>7. ASSUME NEW k \in 1..Len(next)
          PROVE  next[k].sequence = Len(done) + k - 1
      <3>1. k \in 1..Len(pending) \/ k = Len(pending) + 1
        BY <2>5, <2>6
      <3>2. CASE k \in 1..Len(pending)
        BY <2>3, <2>6, <3>2
      <3>3. CASE k = Len(pending) + 1
        <4>1. next[k].sequence = Len(done) + Len(pending)
          BY <1>2, <2>1, <2>6, <3>3
        <4> QED  BY <2>5, <3>3, <4>1
      <3> QED  BY <3>1, <3>2, <3>3
    <2>8. next_sequence' = Len(done) + Len(next)
      BY <1>2, <2>1, <2>5, <2>6
    <2>9. pending' = next
      BY <1>2 DEF next
    <2> QED  BY <2>1, <2>2, <2>4, <2>6, <2>7, <2>8, <2>9 DEF Counted
  <1>5. Remembered'
    BY <1>2, RememberedKept DEF LedgerInv
  <1>6. Examined'
    BY <1>2 DEF Examined, NoAudit
  <1> QED  BY <1>3, <1>4, <1>5, <1>6 DEF LedgerInv

\* A block made for a chain is one that its tests pass (NewBlock, BlockOK).
LEMMA NewBlockChained ==
    ASSUME NEW chain, Chained(chain), NEW events, AreRecords(events)
    PROVE  Chained(Append(chain, NewBlock(chain, events)))
  <1> DEFINE n == Len(chain)
             z == NewBlock(chain, events)
             longer == Append(chain, z)
  <1>1. n \in Nat /\ Tupled(chain, n) /\ \A b \in 1..n : IsBlock(chain[b]) /\ BlockOK(chain, b)
    BY DEF Chained, WellFormed, Tupled
  <1>2. /\ z.header.height = n /\ z.header.prev_hash = head_digest(chain)
        /\ z.header.event_count = Len(events) /\ z.header.events_root = recompute_root(events)
        /\ z.events = events /\ IsBlock(z)
    <2>1. \E h : z = [header |-> h, events |-> events]
      BY DEF NewBlock
    <2>2. IsBlock(z)
      BY <2>1 DEF IsBlock
    <2> QED  BY <2>2 DEF NewBlock
  <1> HIDE DEF z
  <1>3. /\ Tupled(longer, n + 1) /\ Len(longer) = n + 1
        /\ (\A b \in 1..n : longer[b] = chain[b]) /\ longer[n + 1] = z
    <2>1. Extends(longer, chain, n, z)
      BY <1>1, TupledAppend
    <2> HIDE DEF longer
    <2> QED  BY <2>1, TupledIs DEF Extends
  <1>4. \A b \in 1..(n + 1) : SubSeq(longer, 1, b - 1) = SubSeq(chain, 1, b - 1)
    <2>1. \A b \in 1..(n + 1) : b - 1 \in 0..n
      BY <1>1
    <2> QED  BY <1>1, <2>1, PrefixOfAppend
  <1>5. SubSeq(longer, 1, n) = chain
    <2>1. n + 1 \in 1..(n + 1) /\ (n + 1) - 1 = n
      BY <1>1
    <2>2. SubSeq(longer, 1, n) = SubSeq(chain, 1, n)
      BY <1>4, <2>1
    <2> QED  BY <1>1, <2>2, PrefixOfAll
  <1> HIDE DEF n, longer
  <1>6. ASSUME NEW b \in 1..(n + 1)
        PROVE  IsBlock(longer[b]) /\ BlockOK(longer, b)
    <2>1. CASE b \in 1..n
      <3>1. longer[b] = chain[b] /\ SubSeq(longer, 1, b - 1) = SubSeq(chain, 1, b - 1)
        BY <1>3, <1>4, <2>1
      <3>2. IsBlock(chain[b]) /\ BlockOK(chain, b)
        BY <1>1, <2>1
      <3> QED  BY <3>1, <3>2 DEF BlockOK
    <2>2. CASE b = n + 1
      <3>1. longer[b] = z /\ b - 1 = n /\ SubSeq(longer, 1, b - 1) = chain
        BY <1>1, <1>3, <1>5, <2>2
      <3> QED  BY <1>2, <3>1 DEF BlockOK
    <2>3. b \in 1..n \/ b = n + 1
      BY <1>1
    <2> QED  BY <2>1, <2>2, <2>3
  <1>7. WellFormed(longer)
    BY <1>3, <1>6 DEF WellFormed
  <1>8. Chained(longer)
    BY <1>3, <1>6, <1>7 DEF Chained
  <1> QED  BY <1>8 DEF longer, z

\* Sealing moves what was pending to the end of the history (Ledger.seal_block).
LEMMA LedgerInvSeal ==
    ASSUME LedgerInv, Seal
    PROVE  LedgerInv'
  <1> DEFINE n == Len(blocks)
             z == NewBlock(blocks, pending)
             longer == Append(blocks, z)
             done == all_events(blocks)
  <1>1. /\ pending # <<>> /\ blocks' = longer /\ pending' = <<>> /\ next_sequence' = next_sequence
        /\ exported' = exported /\ audited' = NoAudit
    BY DEF Seal, seal_block
  <1>2. /\ n \in Nat /\ Tupled(blocks, n) /\ Chained(blocks)
        /\ \A b \in 1..n : blocks[b].events \in Seq(Offered) /\ blocks[b].events # <<>>
    BY DEF LedgerInv, Sealed, Chained, WellFormed, Tupled
  <1>3. pending \in Seq(Offered) /\ AreRecords(pending)
    BY OfferedAreRecords DEF LedgerInv, Counted
  <1>4. Chained(longer)
    BY <1>2, <1>3, NewBlockChained
  <1>5. z.events = pending
    BY DEF NewBlock
  <1>6. all_events(longer) = done \o pending
    <2> HIDE DEF z
    <2> QED  BY <1>2, <1>3, <1>5, HistoryGrows
  <1>7. Len(longer) = n + 1 /\ (\A b \in 1..n : longer[b] = blocks[b]) /\ longer[n + 1] = z
    <2> HIDE DEF z
    <2>1. Extends(longer, blocks, n, z)
      BY <1>2, TupledAppend
    <2> HIDE DEF longer
    <2> QED  BY <2>1, TupledIs DEF Extends
  <1>8. \A h \in 0..n : SubSeq(longer, 1, h) = SubSeq(blocks, 1, h)
    <2> HIDE DEF z
    <2> QED  BY <1>2, PrefixOfAppend
  <1>9. done \in Seq(Offered) /\ next_sequence = Len(done) + Len(pending)
    BY DEF LedgerInv, Counted
  <1>10. \A k \in 1..Len(done) : done[k].sequence = k - 1
    BY DEF LedgerInv, Counted
  <1>11. \A k \in 1..Len(pending) : pending[k].sequence = Len(done) + k - 1
    BY DEF LedgerInv, Counted
  <1>12. Remembered
    BY DEF LedgerInv
  <1> HIDE DEF n, z, longer, done
  <1>13. Sealed'
    <2>1. \A b \in 1..(n + 1) : longer[b].events \in Seq(Offered) /\ longer[b].events # <<>>
      <3>1. \A b \in 1..(n + 1) : b \in 1..n \/ b = n + 1
        BY <1>2
      <3> QED  BY <1>1, <1>2, <1>3, <1>5, <1>7, <3>1
    <2> QED  BY <1>1, <1>4, <1>7, <2>1 DEF Sealed
  <1>14. Counted'
    <2> DEFINE after == done \o pending
    <2>1. Len(done) \in Nat /\ Len(pending) \in Nat
      BY <1>3, <1>9, LenProperties
    <2>2. /\ after \in Seq(Offered) /\ Len(after) = Len(done) + Len(pending)
          /\ \A k \in 1..(Len(done) + Len(pending)) :
                after[k] = IF k <= Len(done) THEN done[k] ELSE pending[k - Len(done)]
      BY <1>3, <1>9, ConcatProperties
    <2> HIDE DEF after
    <2>3. ASSUME NEW k \in 1..Len(after)
          PROVE  after[k].sequence = k - 1
      <3>1. CASE k <= Len(done)
        BY <1>10, <2>1, <2>2, <3>1
      <3>2. CASE ~(k <= Len(done))
        <4>1. k - Len(done) \in 1..Len(pending) /\ Len(done) + (k - Len(done)) - 1 = k - 1
          BY <2>1, <2>2, <3>2
        <4>2. after[k] = pending[k - Len(done)]
          BY <2>2, <3>2
        <4> QED  BY <1>11, <4>1, <4>2
      <3> QED  BY <3>1, <3>2
    <2>4. all_events(blocks)' = after
      BY <1>1, <1>6 DEF after
    <2>5. pending' \in Seq(Offered) /\ Len(pending') = 0
      <3>1. <<>> \in Seq(Offered) /\ Len(<<>>) = 0
        BY EmptySeq
      <3> QED  BY <1>1, <3>1, Zenon
    <2>6. next_sequence' = Len(after) + Len(pending')
      BY <1>1, <1>9, <2>1, <2>2, <2>5
    <2>7. \A k \in 1..Len(pending') : pending'[k].sequence = Len(after) + k - 1
      BY <2>5
    <2> QED  BY <2>2, <2>3, <2>4, <2>5, <2>6, <2>7 DEF Counted
  <1>15. Remembered'
    <2> SUFFICES ASSUME NEW cp \in exported
                 PROVE  \E h \in 0..Len(longer) : cp = checkpoint(SubSeq(longer, 1, h))
      BY <1>1 DEF Remembered
    <2>1. PICK h \in 0..n : cp = checkpoint(SubSeq(blocks, 1, h))
      BY <1>12 DEF Remembered, n
    <2>2. h \in 0..Len(longer)
      BY <1>2, <1>7
    <2> QED  BY <1>8, <2>1, <2>2
  <1>16. Examined'
    BY <1>1 DEF Examined, NoAudit
  <1> QED  BY <1>13, <1>14, <1>15, <1>16 DEF LedgerInv

\* A checkpoint taken outside is the one of the chain as it is.
LEMMA LedgerInvExport ==
    ASSUME LedgerInv, Export
    PROVE  LedgerInv'
  <1>1. /\ exported' = exported \cup {checkpoint(blocks)} /\ audited' = NoAudit
        /\ blocks' = blocks /\ pending' = pending /\ next_sequence' = next_sequence
    BY DEF Export, ledgerVars
  <1>2. Sealed' /\ Counted'
    BY <1>1 DEF LedgerInv, Sealed, Counted
  <1>3. Remembered'
    <2>1. Len(blocks) \in 0..Len(blocks) /\ SubSeq(blocks, 1, Len(blocks)) = blocks
      BY PrefixOfAll DEF LedgerInv, Sealed, Chained, WellFormed, Tupled
    <2> SUFFICES ASSUME NEW cp \in exported \cup {checkpoint(blocks)}
                 PROVE  \E h \in 0..Len(blocks) : cp = checkpoint(SubSeq(blocks, 1, h))
      BY <1>1 DEF Remembered
    <2>2. CASE cp \in exported
      BY <2>2 DEF LedgerInv, Remembered
    <2>3. CASE cp = checkpoint(blocks)
      BY <2>1, <2>3
    <2> QED  BY <2>2, <2>3
  <1>4. Examined'
    BY <1>1 DEF Examined, NoAudit
  <1> QED  BY <1>2, <1>3, <1>4 DEF LedgerInv

\* An audit looks at a copy and changes nothing of the ledger.
LEMMA LedgerInvAudit ==
    ASSUME LedgerInv, Audit
    PROVE  LedgerInv'
  <1>1. UNCHANGED <<blocks, pending, next_sequence, exported>>
    BY DEF Audit, ledgerVars
  <1>2. Sealed' /\ Counted'
    BY <1>1 DEF LedgerInv, Sealed, Counted
  <1>3. Remembered'
    BY <1>1, RememberedKept DEF LedgerInv
  <1>4. PICK copy \in Copies(blocks), cps \in {{}} \cup {{cp} : cp \in exported} :
           audited' = [copy |-> copy, against |-> cps, accepted |-> verify_chain(copy, cps)]
    BY DEF Audit
  <1>5. blocks' = blocks /\ exported' = exported
    BY <1>1
  <1>6. Examined'
    BY <1>4, <1>5 DEF Examined
  <1> QED  BY <1>2, <1>3, <1>6 DEF LedgerInv

\* No step breaks it.
LEMMA LedgerInvNext ==
    ASSUME LedgerInv, [Next]_vars
    PROVE  LedgerInv'
  <1>1. CASE UNCHANGED vars
    BY <1>1 DEF vars, LedgerInv, Sealed, Counted, Remembered, Examined
  <1>2. CASE Next
    BY <1>2, LedgerInvStage, LedgerInvSeal, LedgerInvExport, LedgerInvAudit DEF Next
  <1> QED  BY <1>1, <1>2

\* So it holds of every ledger there is (LedgerInv).
THEOREM LedgerInvariant == Spec => []LedgerInv
  BY LedgerInvInit, LedgerInvNext, PTL DEF Spec

-------------------------------------------------------------------------------
\* A prefix of a chain passes the tests the chain does.
LEMMA PrefixChained ==
    ASSUME NEW chain, Chained(chain), NEW m \in 0..Len(chain)
    PROVE  Chained(SubSeq(chain, 1, m)) /\ Len(SubSeq(chain, 1, m)) = m
  <1> DEFINE n == Len(chain)
             g == SubSeq(chain, 1, m)
  <1>1. n \in Nat /\ Tupled(chain, n) /\ \A b \in 1..n : IsBlock(chain[b]) /\ BlockOK(chain, b)
    BY DEF Chained, WellFormed, Tupled
  <1>2. Tupled(g, m) /\ (\A b \in 1..m : g[b] = chain[b]) /\ Len(g) = m
    <2>1. Tupled(g, m) /\ \A b \in 1..m : g[b] = chain[b]
      BY <1>1, TupledPrefix
    <2> HIDE DEF g
    <2> QED  BY <2>1, TupledIs
  <1>3. \A b \in 1..m : SubSeq(g, 1, b - 1) = SubSeq(chain, 1, b - 1)
    <2>1. \A b \in 1..m : b - 1 \in 0..m
      BY <1>1
    <2> QED  BY <1>1, <2>1, PrefixOfPrefix
  <1> HIDE DEF n, g
  <1>4. ASSUME NEW b \in 1..m
        PROVE  IsBlock(g[b]) /\ BlockOK(g, b)
    <2>1. b \in 1..n
      BY <1>1 DEF n
    <2>2. IsBlock(chain[b]) /\ BlockOK(chain, b)
      BY <1>1, <2>1
    <2> QED  BY <1>2, <1>3, <2>2 DEF BlockOK
  <1>5. Chained(g)
    BY <1>2, <1>4 DEF Chained, WellFormed
  <1> QED  BY <1>2, <1>5 DEF g

\* The head of a chain that is taken whole.
LEMMA HeadOfPrefix ==
    ASSUME Sealed, NEW m \in 1..Len(blocks)
    PROVE  head_digest(SubSeq(blocks, 1, m)) = digest(blocks[m])
  BY HeadIs DEF Sealed, Chained, WellFormed

\* What an accepted audit has seen: a chain whose blocks all pass, and a
\* checkpoint held outside, or none, that it passed too.
LEMMA AcceptedIs ==
    ASSUME LedgerInv, audited.accepted
    PROVE  /\ Chained(audited.copy)
           /\ \A cp \in audited.against : cp \in exported /\ CheckpointOK(audited.copy, cp)
  <1>1. audited # NoAudit
    BY DEF NoAudit
  <1>2. PICK copy \in Copies(blocks), cps \in {{}} \cup {{cp} : cp \in exported} :
           audited = [copy |-> copy, against |-> cps, accepted |-> verify_chain(copy, cps)]
    BY <1>1 DEF LedgerInv, Examined
  <1>3. audited.copy = copy /\ audited.against = cps /\ audited.accepted = verify_chain(copy, cps)
    BY <1>2, Zenon
  <1>4. verify_chain(copy, cps)
    BY <1>3
  <1>5. WellFormed(copy)
    BY <1>2, CopiesWellFormed DEF LedgerInv, Sealed, Chained
  <1>6. DOMAIN copy = 1..Len(copy)
    BY <1>5, TupledIs DEF WellFormed
  <1>7. Chained(copy)
    BY <1>4, <1>5, <1>6 DEF verify_chain, Chained
  <1>8. \A cp \in cps : cp \in exported /\ CheckpointOK(copy, cp)
    <2>1. \A cp \in cps : CheckpointOK(copy, cp)
      BY <1>4 DEF verify_chain
    <2>2. \A cp \in cps : cp \in exported
      BY <1>2
    <2> QED  BY <2>1, <2>2
  <1> QED  BY <1>3, <1>7, <1>8

\* The ledger's own chain verifies, against any checkpoint it ever gave out
\* (Ledger.verify_chain on an untouched ledger).
THEOREM GenuineAlwaysVerifies == Spec => []GenuineVerifies
  <1>1. LedgerInv => GenuineVerifies
    <2> SUFFICES ASSUME LedgerInv
                 PROVE  GenuineVerifies
      OBVIOUS
    <2> DEFINE n == Len(blocks)
               done == all_events(blocks)
    <2>1. n \in Nat /\ Tupled(blocks, n) /\ DOMAIN blocks = 1..n /\ Chained(blocks)
      BY TupledIs DEF LedgerInv, Sealed, Chained, WellFormed, Tupled
    <2>2. \A b \in DOMAIN blocks : BlockOK(blocks, b)
      BY <2>1 DEF Chained
    <2>3. SequencesOK(blocks)
      <3>1. done \in Seq(Offered) /\ \A k \in 1..Len(done) : done[k].sequence = k - 1
        BY DEF LedgerInv, Counted
      <3> HIDE DEF done
      <3>2. DOMAIN done = 1..Len(done)
        BY <3>1, LenProperties
      <3> QED  BY <3>1, <3>2 DEF SequencesOK, done
    <2>4. ASSUME NEW cp \in exported
          PROVE  CheckpointOK(blocks, cp)
      <3>1. PICK h \in 0..n : cp = checkpoint(SubSeq(blocks, 1, h))
        BY DEF LedgerInv, Remembered
      <3> DEFINE then == SubSeq(blocks, 1, h)
      <3>2. Len(then) = h
        BY <2>1, <3>1, PrefixChained
      <3>3. h = n => then = blocks
        BY <2>1, PrefixOfAll
      <3> HIDE DEF then
      <3>4. /\ cp.height = h /\ cp.head_digest = head_digest(then)
            /\ cp.digest = CheckpointDigest(h, head_digest(then))
        BY <3>1, <3>2 DEF checkpoint, then
      <3>5. n >= h
        BY <2>1, <3>1
      <3> QED  BY <3>3, <3>4, <3>5 DEF CheckpointOK, CheckpointIntact
    <2> QED  BY <2>2, <2>3, <2>4 DEF GenuineVerifies, verify_chain
  <1> QED  BY <1>1, LedgerInvariant, PTL

\* A copy that verifies and ends in a genuine block is genuine up to there: to
\* alter anything below the head is noticed, without any checkpoint
\* (Ledger.verify_chain: the links and the roots).
THEOREM AcceptedIsGenuineUpToHead == Spec => []AcceptedUpToHead
  <1>1. LedgerInv => AcceptedUpToHead
    <2> SUFFICES ASSUME LedgerInv, audited.accepted, audited.copy # <<>>,
                        Len(audited.copy) <= Len(blocks),
                        head_digest(audited.copy) = digest(blocks[Len(audited.copy)])
                 PROVE  audited.copy = SubSeq(blocks, 1, Len(audited.copy))
      BY DEF AcceptedUpToHead
    <2> DEFINE copy == audited.copy
               m == Len(audited.copy)
    <2>1. Chained(copy) /\ Tupled(copy, m)
      BY AcceptedIs DEF Chained, WellFormed
    <2>2. m \in 1..Len(blocks)
      <3>1. m \in Nat /\ (m = 0 => copy = <<>>)
        BY <2>1 DEF Tupled
      <3>2. Len(blocks) \in Nat
        BY DEF LedgerInv, Sealed, Chained, WellFormed, Tupled
      <3> QED  BY <3>1, <3>2
    <2>3. head_digest(copy) = head_digest(SubSeq(blocks, 1, m))
      BY <2>2, HeadOfPrefix DEF LedgerInv
    <2>4. Chained(SubSeq(blocks, 1, m)) /\ Len(SubSeq(blocks, 1, m)) = m
      <3>1. m \in 0..Len(blocks)
        BY <2>2
      <3> QED  BY <3>1, PrefixChained DEF LedgerInv, Sealed
    <2> QED  BY <2>1, <2>3, <2>4, HeadPinsChain
  <1> QED  BY <1>1, LedgerInvariant, PTL

\* A copy that verifies against a checkpoint is no shorter than it, and one of
\* its height is, to the last event, what the ledger held when the checkpoint
\* was taken (Ledger.verify_chain with a checkpoint).
THEOREM CheckpointAlwaysPins == Spec => []CheckpointPinsHistory
  <1>1. LedgerInv => CheckpointPinsHistory
    <2> SUFFICES ASSUME LedgerInv, audited.accepted, NEW cp \in audited.against
                 PROVE  /\ Len(audited.copy) >= cp.height
                        /\ Len(audited.copy) = cp.height /\ cp.height <= Len(blocks) =>
                             audited.copy = SubSeq(blocks, 1, cp.height)
      BY DEF CheckpointPinsHistory
    <2>1. Chained(audited.copy) /\ cp \in exported /\ CheckpointOK(audited.copy, cp)
      BY AcceptedIs
    <2>2. PICK h \in 0..Len(blocks) : cp = checkpoint(SubSeq(blocks, 1, h))
      BY <2>1 DEF LedgerInv, Remembered
    <2>3. Chained(SubSeq(blocks, 1, h)) /\ Len(SubSeq(blocks, 1, h)) = h
      BY PrefixChained DEF LedgerInv, Sealed
    <2>4. cp.height = h /\ cp.head_digest = head_digest(SubSeq(blocks, 1, h))
      BY <2>2, <2>3 DEF checkpoint
    <2>5. Len(audited.copy) >= cp.height
      BY <2>1 DEF CheckpointOK
    <2>6. ASSUME Len(audited.copy) = cp.height
          PROVE  audited.copy = SubSeq(blocks, 1, cp.height)
      <3>1. head_digest(audited.copy) = head_digest(SubSeq(blocks, 1, h))
        BY <2>1, <2>4, <2>6 DEF CheckpointOK
      <3> QED  BY <2>1, <2>3, <2>4, <2>6, <3>1, HeadPinsChain
    <2> QED  BY <2>5, <2>6
  <1> QED  BY <1>1, LedgerInvariant, PTL

-------------------------------------------------------------------------------
\* The history starts empty ...
LEMMA LogStarts ==
    ASSUME Init
    PROVE  Log!Init
  BY NoHistory DEF Init, LedgerInit, Log!Init

\* ... and every step commits to more of it, at its end, or leaves it alone.
LEMMA LogGrows ==
    ASSUME LedgerInv, LedgerInv', [Next]_vars
    PROVE  [Log!Next]_(all_events(blocks))
  <1>1. CASE blocks' = blocks
    BY <1>1
  <1>2. CASE Seal
    <2> DEFINE n == Len(blocks)
               z == NewBlock(blocks, pending)
               done == all_events(blocks)
               after == all_events(Append(blocks, z))
    <2>1. blocks' = Append(blocks, z) /\ pending # <<>>
      BY <1>2 DEF Seal, seal_block
    <2>2. pending \in Seq(Offered) /\ done \in Seq(Offered)
      BY DEF LedgerInv, Counted
    <2>3. Tupled(blocks, n) /\ \A b \in 1..n : blocks[b].events \in Seq(Offered)
      BY DEF LedgerInv, Sealed, Chained, WellFormed
    <2>4. z.events = pending
      BY DEF NewBlock
    <2>5. after = done \o pending
      <3> HIDE DEF z
      <3> QED  BY <2>2, <2>3, <2>4, HistoryGrows
    <2>6. all_events(blocks)' = after
      BY <2>1
    <2> HIDE DEF n, z, done, after
    <2>7. Len(done) \in Nat /\ Len(pending) \in Nat /\ Len(pending) # 0
      BY <2>1, <2>2, LenProperties, EmptySeq
    <2>8. /\ after \in Seq(Offered) /\ Len(after) = Len(done) + Len(pending)
          /\ \A k \in 1..(Len(done) + Len(pending)) :
                after[k] = IF k <= Len(done) THEN done[k] ELSE pending[k - Len(done)]
      BY <2>2, <2>5, ConcatProperties
    <2>9. DOMAIN after = 1..Len(after) /\ \A k \in DOMAIN after : after[k] \in Offered
      <3>1. Tupled(after, Len(after)) /\ \A k \in 1..Len(after) : after[k] \in Offered
        BY <2>8, SeqTupled
      <3> QED  BY <3>1, TupledIs
    <2>10. SubSeq(after, 1, Len(done)) = done
      <3>0. Len(done) \in 0..Len(after)
        BY <2>7, <2>8
      <3>1. Tupled(after, Len(after)) /\ Tupled(done, Len(done)) /\ Len(done) \in 0..Len(after)
        BY <2>2, <2>8, <3>0, SeqTupled, Zenon
      <3>2. /\ Tupled(SubSeq(after, 1, Len(done)), Len(done))
            /\ \A k \in 1..Len(done) : SubSeq(after, 1, Len(done))[k] = after[k]
        BY <3>1, TupledPrefix
      <3>3. \A k \in 1..Len(done) : after[k] = done[k]
        BY <2>7, <2>8
      <3> QED  BY <3>1, <3>2, <3>3, TupledEqual
    <2>11. \A k \in DOMAIN after : after[k].sequence = k - 1
      <3>1. \A k \in 1..Len(all_events(blocks)') : (all_events(blocks)')[k].sequence = k - 1
        BY DEF LedgerInv, Counted
      <3> QED  BY <2>6, <2>9, <3>1
    <2>12. Log!Commit
      <3>1. Len(after) > Len(done)
        BY <2>7, <2>8
      <3> QED  BY <2>6, <2>9, <2>10, <2>11, <3>1 DEF Log!Commit, Log!Numbered, done
    <2> QED  BY <2>12 DEF Log!Next
  <1> QED  BY <1>1, <1>2 DEF Next, vars, Stage, append, Export, ledgerVars, Audit

\* Readers of the committed history see an append-only numbered log (Ledger
\* implements AppendOnlyLog).
THEOREM LedgerImplementsLog == Spec => ImplementsAppendOnlyLog
  <1>1. Init => Log!Init
    BY LogStarts
  <1>2. LedgerInv /\ LedgerInv' /\ [Next]_vars => [Log!Next]_(all_events(blocks))
    BY LogGrows
  <1>3. Spec => Log!Spec
    BY <1>1, <1>2, LedgerInvariant, PTL DEF Spec, Log!Spec
  <1> QED  BY <1>3 DEF ImplementsAppendOnlyLog

-------------------------------------------------------------------------------
\* The bytes of an event: the cells of its header, and then its payload.
Cells(raw, ev) ==
    /\ Tupled(ev.payload, Len(ev.payload))
    /\ Tupled(raw, HEADER_SIZE + Len(ev.payload))
    /\ raw[1] = ev.event_type /\ raw[2] = ev.sequence /\ raw[3] = ev.timestamp_ns
    /\ raw[4] = ev.actor_id /\ raw[5] = ev.parent_id
    /\ raw[6] = Len(ev.payload) /\ raw[7] = _RESERVED_V1
    /\ \A k \in 1..Len(ev.payload) : raw[HEADER_SIZE + k] = ev.payload[k]

\* Seven cells and what follows them.
Headed(raw, c1, c2, c3, c4, c5, c6, c7, load, l) ==
    /\ Tupled(raw, 7 + l)
    /\ raw[1] = c1 /\ raw[2] = c2 /\ raw[3] = c3 /\ raw[4] = c4 /\ raw[5] = c5
    /\ raw[6] = c6 /\ raw[7] = c7
    /\ \A k \in 1..l : raw[7 + k] = load[k]

\* They are there after a header of that size was written.
LEMMA SevenAndMore ==
    ASSUME NEW c1, NEW c2, NEW c3, NEW c4, NEW c5, NEW c6, NEW c7,
           NEW load, NEW l, Tupled(load, l), NEW raw,
           raw = <<c1, c2, c3, c4, c5, c6, c7>> \o load
    PROVE  Headed(raw, c1, c2, c3, c4, c5, c6, c7, load, l)
  <1> DEFINE S == {c1, c2, c3, c4, c5, c6, c7} \cup {load[k] : k \in 1..l}
             head == <<c1, c2, c3, c4, c5, c6, c7>>
  <1>1. l \in Nat /\ Len(load) = l /\ load \in Seq({load[k] : k \in 1..l})
    BY TupledIs DEF Tupled
  <1>2. load \in Seq(S)
    <2>1. {load[k] : k \in 1..l} \subseteq S
      OBVIOUS
    <2> HIDE DEF S
    <2> QED  BY <1>1, <2>1, SeqMonotonic
  <1>3. head \in Seq(S)
    <2>1. {c1, c2, c3, c4, c5, c6, c7} \subseteq S
      OBVIOUS
    <2>2. head \in Seq({c1, c2, c3, c4, c5, c6, c7})
      OBVIOUS
    <2> HIDE DEF S, head
    <2> QED  BY <2>1, <2>2, SeqMonotonic
  <1>4. /\ Len(head) = 7 /\ head[1] = c1 /\ head[2] = c2 /\ head[3] = c3 /\ head[4] = c4
        /\ head[5] = c5 /\ head[6] = c6 /\ head[7] = c7
    OBVIOUS
  <1> HIDE DEF S, head
  <1>5. /\ raw \in Seq(S) /\ Len(raw) = 7 + l
        /\ \A k \in 1..(7 + l) : raw[k] = IF k <= 7 THEN head[k] ELSE load[k - 7]
    <2>1. raw = head \o load
      BY DEF head
    <2> QED  BY <1>1, <1>2, <1>3, <1>4, <2>1, ConcatProperties
  <1>6. Tupled(raw, 7 + l)
    BY <1>5, SeqTupled
  <1>7. \A k \in 1..7 : raw[k] = head[k]
    BY <1>1, <1>5
  <1>8. ASSUME NEW k \in 1..l
        PROVE  raw[7 + k] = load[k]
    <2>1. 7 + k \in 1..(7 + l) /\ ~(7 + k <= 7) /\ (7 + k) - 7 = k
      BY <1>1
    <2> QED  BY <1>5, <2>1
  <1>9. /\ raw[1] = c1 /\ raw[2] = c2 /\ raw[3] = c3 /\ raw[4] = c4 /\ raw[5] = c5
        /\ raw[6] = c6 /\ raw[7] = c7
    <2>1. /\ 1 \in 1..7 /\ 2 \in 1..7 /\ 3 \in 1..7 /\ 4 \in 1..7 /\ 5 \in 1..7
          /\ 6 \in 1..7 /\ 7 \in 1..7
      OBVIOUS
    <2> QED  BY <1>4, <1>7, <2>1, Zenon
  <1> QED  BY <1>6, <1>8, <1>9, Zenon DEF Headed

\* What encode_event writes.
LEMMA EncodedIs ==
    ASSUME NEW ev, IsRecord(ev)
    PROVE  Cells(encode_event(ev), ev)
  <1>0. PICK t, n, time, actor, parent : \E load \in Seq(Nat) :
            ev = [event_type |-> t, sequence |-> n, timestamp_ns |-> time,
                  actor_id |-> actor, parent_id |-> parent, payload |-> load]
    BY DEF IsRecord
  <1>1. PICK load \in Seq(Nat) :
            ev = [event_type |-> t, sequence |-> n, timestamp_ns |-> time,
                  actor_id |-> actor, parent_id |-> parent, payload |-> load]
    BY <1>0
  <1>2. ev.payload = load
    BY <1>1
  <1>3. Tupled(ev.payload, Len(ev.payload))
    BY <1>2, SeqTupled
  <1> DEFINE raw == encode_event(ev)
             body == ev.payload
             l == Len(ev.payload)
  <1>4. raw = <<ev.event_type, ev.sequence, ev.timestamp_ns, ev.actor_id, ev.parent_id, l,
                _RESERVED_V1>> \o body
    BY DEF encode_event
  <1>5. Tupled(body, l)
    BY <1>3
  <1> HIDE DEF raw, body, l
  <1>6. Headed(raw, ev.event_type, ev.sequence, ev.timestamp_ns, ev.actor_id, ev.parent_id, l,
               _RESERVED_V1, body, l)
    BY <1>4, <1>5, SevenAndMore
  <1> QED  BY <1>5, <1>6 DEF Headed, Cells, HEADER_SIZE, raw, body, l

\* An event is determined by what it is encoded to.
LEMMA CellsTell ==
    ASSUME NEW a, NEW b, IsRecord(a), IsRecord(b), NEW raw, Cells(raw, a), Cells(raw, b)
    PROVE  a = b
  <1>1. a.payload = b.payload
    BY TupledEqual DEF Cells
  <1>2. /\ a.event_type = b.event_type /\ a.sequence = b.sequence /\ a.timestamp_ns = b.timestamp_ns
        /\ a.actor_id = b.actor_id /\ a.parent_id = b.parent_id
    BY DEF Cells
  <1>3. ASSUME NEW ev, IsRecord(ev)
        PROVE  ev = [event_type |-> ev.event_type, sequence |-> ev.sequence,
                     timestamp_ns |-> ev.timestamp_ns, actor_id |-> ev.actor_id,
                     parent_id |-> ev.parent_id, payload |-> ev.payload]
    <2>1. PICK t, n, time, actor, parent : \E load \in Seq(Nat) :
              ev = [event_type |-> t, sequence |-> n, timestamp_ns |-> time,
                    actor_id |-> actor, parent_id |-> parent, payload |-> load]
      BY <1>3 DEF IsRecord
    <2> QED  BY <2>1
  <1>4. /\ a = [event_type |-> a.event_type, sequence |-> a.sequence,
                timestamp_ns |-> a.timestamp_ns, actor_id |-> a.actor_id,
                parent_id |-> a.parent_id, payload |-> a.payload]
        /\ b = [event_type |-> b.event_type, sequence |-> b.sequence,
                timestamp_ns |-> b.timestamp_ns, actor_id |-> b.actor_id,
                parent_id |-> b.parent_id, payload |-> b.payload]
    BY <1>3
  <1> QED  BY <1>1, <1>2, <1>4

\* F is what sequences over S give end to end, and stream the last of it.
StreamOf(stream, F, seqs, n, S) ==
    /\ n \in Nat /\ Joins(F, seqs, n) /\ stream = F[n]
    /\ \A k \in 0..n : F[k] \in Seq(S)
    /\ \A k \in 1..n : seqs[k] \in Seq(S)

\* u is s and then t ...
Joined(u, s, t) ==
    /\ Len(s) \in Nat /\ Len(t) \in Nat /\ Len(u) = Len(s) + Len(t)
    /\ \A i \in 1..Len(s) : u[i] = s[i]
    /\ \A i \in 1..Len(t) : u[Len(s) + i] = t[i]

\* ... as concatenation has it.
LEMMA ConcatJoins ==
    ASSUME NEW S, NEW s \in Seq(S), NEW t \in Seq(S)
    PROVE  Joined(s \o t, s, t)
  <1> DEFINE u == s \o t
             m == Len(s)
             n == Len(t)
  <1>1. m \in Nat /\ n \in Nat
    BY LenProperties
  <1>2. /\ Len(u) = m + n
        /\ \A i \in 1..(m + n) : u[i] = IF i <= m THEN s[i] ELSE t[i - m]
    BY ConcatProperties
  <1> HIDE DEF u, m, n
  <1>3. \A i \in 1..m : u[i] = s[i]
    BY <1>1, <1>2
  <1>4. ASSUME NEW i \in 1..n
        PROVE  u[m + i] = t[i]
    <2>1. m + i \in 1..(m + n) /\ ~(m + i <= m) /\ (m + i) - m = i
      BY <1>1
    <2> QED  BY <1>2, <2>1
  <1> QED  BY <1>1, <1>2, <1>3, <1>4 DEF Joined, u, m, n

\* What was put together stays where it is when more is added.
LEMMA StreamKeeps ==
    ASSUME NEW S, NEW F, NEW seqs, NEW n, NEW stream, StreamOf(stream, F, seqs, n, S),
           NEW k \in 0..n, NEW l \in Nat, k + l <= n
    PROVE  Len(F[k]) <= Len(F[k + l]) /\ \A i \in 1..Len(F[k]) : F[k + l][i] = F[k][i]
  <1> DEFINE Keeps == {j \in Nat : k + j <= n =>
                          /\ Len(F[k]) <= Len(F[k + j])
                          /\ \A i \in 1..Len(F[k]) : F[k + j][i] = F[k][i]}
  <1>1. n \in Nat /\ k \in Nat /\ F[k] \in Seq(S) /\ Len(F[k]) \in Nat
    BY LenProperties DEF StreamOf
  <1>2. 0 \in Keeps
    BY <1>1
  <1>3. ASSUME NEW j \in Nat, j \in Keeps
        PROVE  j + 1 \in Keeps
    <2> SUFFICES ASSUME k + (j + 1) <= n
                 PROVE  /\ Len(F[k]) <= Len(F[k + (j + 1)])
                        /\ \A i \in 1..Len(F[k]) : F[k + (j + 1)][i] = F[k][i]
      OBVIOUS
    <2> DEFINE m == k + j
    <2>1. m \in Nat /\ m < n /\ m + 1 = k + (j + 1) /\ m \in 0..n /\ m + 1 \in 1..n /\ k + j <= n
      BY <1>1
    <2>2. Len(F[k]) <= Len(F[m]) /\ \A i \in 1..Len(F[k]) : F[m][i] = F[k][i]
      BY <1>3, <2>1
    <2> HIDE DEF m
    <2>3. F[m + 1] = F[m] \o seqs[m + 1] /\ F[m] \in Seq(S) /\ seqs[m + 1] \in Seq(S)
      BY <2>1 DEF StreamOf, Joins
    <2>4. Joined(F[m + 1], F[m], seqs[m + 1])
      BY <2>3, ConcatJoins
    <2> DEFINE before == Len(F[k])
               here == Len(F[m])
               more == Len(seqs[m + 1])
               after == Len(F[m + 1])
    <2>5. before \in Nat /\ here \in Nat /\ more \in Nat /\ after = here + more /\ before <= here
      BY <1>1, <2>2, <2>4 DEF Joined
    <2>6. ASSUME NEW i \in 1..before
          PROVE  F[m + 1][i] = F[k][i]
      <3>1. \A p \in 1..here : F[m + 1][p] = F[m][p]
        BY <2>4 DEF Joined
      <3>2. \A p \in 1..before : F[m][p] = F[k][p]
        BY <2>2
      <3> HIDE DEF before, here, more, after
      <3>3. i \in 1..here
        BY <2>5
      <3> QED  BY <3>1, <3>2, <3>3
    <2>7. before <= after
      <3> HIDE DEF before, here, more, after
      <3> QED  BY <2>5
    <2> QED  BY <2>1, <2>6, <2>7
  <1> HIDE DEF Keeps
  <1>4. l \in Keeps
    BY <1>2, <1>3, Induction
  <1> QED  BY <1>4 DEF Keeps

\* x is there in the stream, after the first cells.
HoldsAfter(stream, cells, x) ==
    /\ cells + Len(x) <= Len(stream)
    /\ \A i \in 1..Len(x) : stream[cells + i] = x[i]

\* So each part can be read where it was put.
LEMMA StreamHolds ==
    ASSUME NEW S, NEW F, NEW seqs, NEW n, NEW stream, StreamOf(stream, F, seqs, n, S),
           NEW k \in Nat, k < n
    PROVE  HoldsAfter(stream, Len(F[k]), seqs[k + 1])
  <1>1. n \in Nat /\ k \in 0..n /\ k + 1 \in 0..n /\ k + 1 \in 1..n
    BY DEF StreamOf
  <1>2. F[k + 1] = F[k] \o seqs[k + 1] /\ F[k] \in Seq(S) /\ seqs[k + 1] \in Seq(S) /\ stream = F[n]
    BY <1>1 DEF StreamOf, Joins
  <1>3. Joined(F[k + 1], F[k], seqs[k + 1])
    BY <1>2, ConcatJoins
  <1>4. Len(F[k + 1]) <= Len(F[n]) /\ \A i \in 1..Len(F[k + 1]) : F[n][i] = F[k + 1][i]
    <2>1. n - (k + 1) \in Nat /\ (k + 1) + (n - (k + 1)) = n /\ n <= n
      BY <1>1
    <2> DEFINE l == n - (k + 1)
               m == k + 1
    <2> HIDE DEF l, m
    <2>2. l \in Nat /\ m \in 0..n /\ m + l = n /\ m + l <= n
      BY <1>1, <2>1 DEF l, m
    <2>3. Len(F[m]) <= Len(F[m + l]) /\ \A i \in 1..Len(F[m]) : F[m + l][i] = F[m][i]
      BY <2>2, StreamKeeps
    <2> QED  BY <2>2, <2>3 DEF m
  <1>5. ASSUME NEW i \in 1..Len(seqs[k + 1])
        PROVE  stream[Len(F[k]) + i] = seqs[k + 1][i]
    <2> DEFINE here == Len(F[k])
               more == Len(seqs[k + 1])
               after == Len(F[k + 1])
    <2>1. here + i \in 1..after
      <3>1. here \in Nat /\ more \in Nat /\ after = here + more /\ i \in 1..more
        BY <1>3 DEF Joined
      <3> HIDE DEF here, more, after
      <3> QED  BY <3>1
    <2>2. F[k + 1][here + i] = seqs[k + 1][i]
      BY <1>3 DEF Joined
    <2> QED  BY <1>2, <1>4, <2>1, <2>2
  <1>6. Len(F[k]) + Len(seqs[k + 1]) <= Len(stream)
    BY <1>2, <1>3, <1>4 DEF Joined
  <1> QED  BY <1>5, <1>6 DEF HoldsAfter

\* The stream of a history (encode_stream).
LEMMA StreamIs ==
    ASSUME NEW events, AreRecords(events)
    PROVE  \E F, seqs, S : /\ StreamOf(encode_stream(events), F, seqs, Len(events), S)
                           /\ \A k \in 1..Len(events) : seqs[k] = encode_event(events[k])
  <1> DEFINE n == Len(events)
             seqs == [k \in 1..n |-> encode_event(events[k])]
             S == UNION {{seqs[k][i] : i \in 1..Len(seqs[k])} : k \in 1..n}
  <1>1. n \in Nat /\ DOMAIN events = 1..n /\ \A k \in 1..n : IsRecord(events[k])
    BY TupledIs DEF AreRecords, Tupled
  <1>2. encode_stream(events) = FlattenSeq(seqs)
    BY <1>1 DEF encode_stream
  <1> HIDE DEF n
  <1>3. Tupled(seqs, n) /\ \A k \in 1..n : seqs[k] = encode_event(events[k])
    BY <1>1 DEF Tupled
  <1> HIDE DEF seqs
  <1>4. ASSUME NEW k \in 1..n
        PROVE  seqs[k] \in Seq(S)
    <2> DEFINE raw == seqs[k]
    <2>1. Cells(raw, events[k])
      BY <1>1, <1>3, EncodedIs
    <2> HIDE DEF raw
    <2>2. raw \in Seq({raw[i] : i \in 1..Len(raw)})
      <3>1. PICK l : Tupled(raw, l)
        BY <2>1 DEF Cells
      <3>2. Len(raw) = l /\ raw \in Seq({raw[i] : i \in 1..l})
        BY <3>1, TupledIs
      <3> QED  BY <3>2
    <2>3. {raw[i] : i \in 1..Len(raw)} \subseteq S
      BY DEF raw
    <2> HIDE DEF S
    <2>4. raw \in Seq(S)
      BY <2>2, <2>3, SeqMonotonic
    <2> QED  BY <2>4 DEF raw
  <1> HIDE DEF S
  <1>5. PICK F : Joins(F, seqs, n) /\ FlattenSeq(seqs) = F[n] /\ \A k \in 0..n : F[k] \in Seq(S)
    BY <1>1, <1>3, <1>4, FlattenIs
  <1>6. StreamOf(encode_stream(events), F, seqs, n, S)
    BY <1>1, <1>2, <1>4, <1>5 DEF StreamOf
  <1> QED  BY <1>3, <1>6 DEF n

\* Two histories with one stream of bytes are the same: no event's bytes are
\* the beginning of another's, for the length of the payload comes first.
THEOREM StreamTells ==
    ASSUME NEW a, NEW b, AreRecords(a), AreRecords(b), encode_stream(a) = encode_stream(b)
    PROVE  a = b
  <1> DEFINE m == Len(a)
             n == Len(b)
             stream == encode_stream(a)
  <1>1. PICK F, s, S : StreamOf(stream, F, s, m, S) /\ \A k \in 1..m : s[k] = encode_event(a[k])
    BY StreamIs
  <1>2. PICK G, t, T : StreamOf(stream, G, t, n, T) /\ \A k \in 1..n : t[k] = encode_event(b[k])
    BY StreamIs
  <1>3. /\ m \in Nat /\ n \in Nat /\ Tupled(a, m) /\ Tupled(b, n)
        /\ (\A k \in 1..m : IsRecord(a[k])) /\ \A k \in 1..n : IsRecord(b[k])
    BY DEF AreRecords, Tupled
  <1>4. \A k \in 1..m : Cells(s[k], a[k])
    BY <1>1, <1>3, EncodedIs
  <1>5. \A k \in 1..n : Cells(t[k], b[k])
    BY <1>2, <1>3, EncodedIs
  <1> HIDE DEF m, n, stream
  <1> DEFINE Same(k) == \A l \in 1..k : a[l] = b[l] /\ s[l] = t[l]
             Agree == {k \in Nat : k <= m /\ k <= n => Same(k)}
  <1>6. ASSUME NEW k \in Nat, k <= m, k <= n, Same(k)
        PROVE  F[k] = G[k] /\ Len(F[k]) \in Nat
    <2>1. Joins(F, s, m) /\ Joins(G, t, n) /\ \A l \in 1..k : s[l] = t[l]
      BY <1>1, <1>2, <1>6 DEF StreamOf
    <2>2. F[k] = G[k]
      BY <1>3, <1>6, <2>1, JoinsAgree
    <2>3. F[k] \in Seq(S)
      <3>1. k \in 0..m
        BY <1>3, <1>6
      <3> QED  BY <1>1, <3>1 DEF StreamOf
    <2> QED  BY <2>2, <2>3, LenProperties
  <1>7. ASSUME NEW k \in Nat, k \in Agree
        PROVE  k + 1 \in Agree
    <2> SUFFICES ASSUME k + 1 <= m, k + 1 <= n
                 PROVE  Same(k + 1)
      OBVIOUS
    <2>1. k < m /\ k < n /\ k <= m /\ k <= n /\ k + 1 \in 1..m /\ k + 1 \in 1..n
      BY <1>3
    <2>2. Same(k)
      BY <1>7, <2>1
    <2> HIDE DEF Same, Agree
    <2> DEFINE at == Len(F[k])
               x == s[k + 1]
               y == t[k + 1]
               ev == a[k + 1]
               other == b[k + 1]
               p == Len(ev.payload)
               q == Len(other.payload)
    <2>3. Len(F[k]) = Len(G[k])
      BY <1>6, <2>1, <2>2
    <2>4. HoldsAfter(stream, at, x)
      BY <1>1, <2>1, StreamHolds
    <2>5. HoldsAfter(stream, at, y)
      <3>1. HoldsAfter(stream, Len(G[k]), y)
        BY <1>2, <2>1, StreamHolds
      <3> QED  BY <2>3, <3>1
    <2>6. Cells(x, ev) /\ Cells(y, other) /\ IsRecord(ev) /\ IsRecord(other)
      BY <1>3, <1>4, <1>5, <2>1
    <2> HIDE DEF at, x, y, ev, other
    <2>7. /\ Tupled(x, 7 + p) /\ Tupled(y, 7 + q) /\ p \in Nat /\ q \in Nat
          /\ x[6] = p /\ y[6] = q
      BY <2>6 DEF Cells, HEADER_SIZE, Tupled
    <2> HIDE DEF p, q
    <2>8. Len(x) = 7 + p /\ Len(y) = 7 + q
      BY <2>7, TupledIs
    <2>9. p = q
      <3>1. 6 \in 1..Len(x) /\ 6 \in 1..Len(y)
        BY <2>7, <2>8
      <3> QED  BY <2>4, <2>5, <2>7, <3>1 DEF HoldsAfter
    <2>10. x = y
      <3>1. \A i \in 1..(7 + p) : x[i] = y[i]
        BY <2>4, <2>5, <2>8, <2>9 DEF HoldsAfter
      <3> QED  BY <2>7, <2>9, <3>1, TupledEqual
    <2>11. ev = other
      BY <2>6, <2>10, CellsTell
    <2> QED
      <3>1. \A l \in 1..(k + 1) : l \in 1..k \/ l = k + 1
        OBVIOUS
      <3> QED  BY <2>2, <2>10, <2>11, <3>1 DEF Same, ev, other, x, y
  <1>8. 0 \in Agree
    OBVIOUS
  <1>9. Nat \subseteq Agree
    <2> HIDE DEF Agree
    <2> QED  BY <1>7, <1>8, Induction
  <1>10. ~(m < n)
    <2> SUFFICES ASSUME m < n
                 PROVE  FALSE
      OBVIOUS
    <2>1. m <= m /\ m <= n /\ m + 1 \in 1..n
      BY <1>3
    <2>2. Same(m)
      BY <1>3, <1>9, <2>1
    <2> HIDE DEF Same, Agree
    <2>3. F[m] = G[m] /\ Len(F[m]) \in Nat
      BY <1>3, <1>6, <2>1, <2>2
    <2>4. stream = F[m]
      BY <1>1 DEF StreamOf
    <2>5. HoldsAfter(stream, Len(G[m]), t[m + 1])
      BY <1>2, <1>3, StreamHolds
    <2>6. PICK l \in Nat : Len(t[m + 1]) = 7 + l
      <3>1. Tupled(t[m + 1], 7 + Len(b[m + 1].payload)) /\ Len(b[m + 1].payload) \in Nat
        BY <1>5, <2>1 DEF Cells, HEADER_SIZE, Tupled
      <3> QED  BY <3>1, TupledIs
    <2> DEFINE size == Len(stream)
    <2>7. size \in Nat /\ size + (7 + l) <= size
      BY <2>3, <2>4, <2>5, <2>6 DEF HoldsAfter
    <2> HIDE DEF size
    <2> QED  BY <2>7
  <1>11. ~(n < m)
    <2> SUFFICES ASSUME n < m
                 PROVE  FALSE
      OBVIOUS
    <2>1. n <= n /\ n <= m /\ n + 1 \in 1..m
      BY <1>3
    <2>2. Same(n)
      BY <1>3, <1>9, <2>1
    <2> HIDE DEF Same, Agree
    <2>3. F[n] = G[n] /\ Len(F[n]) \in Nat
      BY <1>3, <1>6, <2>1, <2>2
    <2>4. stream = G[n]
      BY <1>2 DEF StreamOf
    <2>5. HoldsAfter(stream, Len(F[n]), s[n + 1])
      BY <1>1, <1>3, StreamHolds
    <2>6. PICK l \in Nat : Len(s[n + 1]) = 7 + l
      <3>1. Tupled(s[n + 1], 7 + Len(a[n + 1].payload)) /\ Len(a[n + 1].payload) \in Nat
        BY <1>4, <2>1 DEF Cells, HEADER_SIZE, Tupled
      <3> QED  BY <3>1, TupledIs
    <2> DEFINE size == Len(stream)
    <2>7. size \in Nat /\ size + (7 + l) <= size
      BY <2>3, <2>4, <2>5, <2>6 DEF HoldsAfter
    <2> HIDE DEF size
    <2> QED  BY <2>7
  <1>12. m = n
    BY <1>3, <1>10, <1>11
  <1>13. \A l \in 1..m : a[l] = b[l]
    <2>1. m \in Agree /\ m <= m /\ m <= n
      BY <1>3, <1>9, <1>12
    <2> QED  BY <2>1
  <1> QED  BY <1>3, <1>12, <1>13, TupledEqual

\* The history of any well-formed chain is made of events.
LEMMA HistoryRecords ==
    ASSUME NEW chain, WellFormed(chain)
    PROVE  AreRecords(all_events(chain))
  <1> DEFINE n == Len(chain)
             seqs == [b \in 1..n |-> chain[b].events]
             S == UNION {{seqs[b][i] : i \in 1..Len(seqs[b])} : b \in 1..n}
  <1>1. n \in Nat /\ DOMAIN chain = 1..n /\ \A b \in 1..n : AreRecords(chain[b].events)
    <2>1. ASSUME NEW block, IsBlock(block)
          PROVE  AreRecords(block.events)
      BY <2>1 DEF IsBlock
    <2> QED  BY <2>1, TupledIs DEF WellFormed, Tupled
  <1>2. all_events(chain) = FlattenSeq(seqs)
    BY <1>1 DEF all_events
  <1> HIDE DEF n
  <1>3. Tupled(seqs, n) /\ \A b \in 1..n : seqs[b] = chain[b].events
    BY <1>1 DEF Tupled
  <1> HIDE DEF seqs
  <1>4. ASSUME NEW b \in 1..n
        PROVE  seqs[b] \in Seq(S)
    <2> DEFINE e == seqs[b]
    <2>1. {e[i] : i \in 1..Len(e)} \subseteq S
      OBVIOUS
    <2>2. Tupled(e, Len(e))
      BY <1>1, <1>3 DEF AreRecords
    <2> HIDE DEF e, S
    <2>3. e \in Seq({e[i] : i \in 1..Len(e)})
      BY <2>2, TupledIs
    <2>4. e \in Seq(S)
      BY <2>1, <2>3, SeqMonotonic
    <2> QED  BY <2>4 DEF e
  <1>5. ASSUME NEW ev \in S
        PROVE  IsRecord(ev)
    <2>1. PICK b \in 1..n : ev \in {seqs[b][i] : i \in 1..Len(seqs[b])}
      OBVIOUS
    <2>2. PICK i \in 1..Len(seqs[b]) : ev = seqs[b][i]
      BY <2>1
    <2> QED  BY <1>1, <1>3, <2>2 DEF AreRecords
  <1> HIDE DEF S
  <1> DEFINE done == all_events(chain)
  <1>6. done \in Seq(S)
    <2>1. PICK F : FlattenSeq(seqs) = F[n] /\ \A k \in 0..n : F[k] \in Seq(S)
      BY <1>1, <1>3, <1>4, FlattenIs
    <2>2. n \in 0..n
      BY <1>1
    <2> QED  BY <1>2, <2>1, <2>2
  <1> HIDE DEF done
  <1>7. Tupled(done, Len(done)) /\ \A k \in 1..Len(done) : done[k] \in S
    BY <1>6, SeqTupled
  <1>8. AreRecords(done)
    BY <1>5, <1>7 DEF AreRecords
  <1> QED  BY <1>8 DEF done

\* What follows the header (Body).
LEMMA BodyIs ==
    ASSUME NEW raw, NEW l \in Nat, Tupled(raw, 7 + l)
    PROVE  Tupled(Body(raw), l) /\ \A k \in 1..l : Body(raw)[k] = raw[7 + k]
  <1> DEFINE S == {raw[k] : k \in 1..(7 + l)}
             n == 7 + l
  <1>1. n \in Nat /\ n = 7 + l /\ Tupled(raw, n)
    OBVIOUS
  <1>2. \A k \in 8..n : raw[k] \in S
    OBVIOUS
  <1> HIDE DEF S, n
  <1>3. Len(raw) = n
    BY <1>1, TupledIs
  <1>4. Body(raw) = SubSeq(raw, 8, n)
    BY <1>3 DEF Body, HEADER_SIZE
  <1>5. /\ SubSeq(raw, 8, n) \in Seq(S)
        /\ Len(SubSeq(raw, 8, n)) = IF 8 <= n THEN n - 8 + 1 ELSE 0
        /\ \A k \in 1..(n - 8 + 1) : SubSeq(raw, 8, n)[k] = raw[8 + k - 1]
    BY <1>1, <1>2, SubSeqProperties
  <1> DEFINE g == SubSeq(raw, 8, n)
  <1> HIDE DEF g
  <1>6. Len(g) = l /\ g \in Seq(S)
    BY <1>1, <1>5 DEF g
  <1>7. ASSUME NEW k \in 1..l
        PROVE  g[k] = raw[7 + k]
    <2>1. k \in 1..(n - 8 + 1) /\ 8 + k - 1 = 7 + k
      BY <1>1
    <2> QED  BY <1>5, <2>1 DEF g
  <1>8. Tupled(g, l)
    BY <1>6, SeqTupled
  <1> QED  BY <1>4, <1>7, <1>8 DEF g

\* Bytes that are accepted are those of the event they decode to, all of them:
\* nothing can hide in a reserved field or behind the end.
LEMMA DecodedIsEncoded ==
    ASSUME NEW raw, NEW n, Tupled(raw, n), NEW ev \in decode_event(raw)
    PROVE  encode_event(ev) = raw
  <1> DEFINE l == n - 7
             body == Body(raw)
             back == encode_event(ev)
  <1>1. /\ ~(Len(raw) < 7) /\ raw[7] = _RESERVED_V1 /\ Len(body) = raw[6] /\ ev = Parsed(raw)
    BY DEF decode_event, HEADER_SIZE
  <1>2. Len(raw) = n /\ n \in Nat
    BY TupledIs DEF Tupled
  <1>3. l \in Nat /\ n = 7 + l
    BY <1>1, <1>2
  <1> HIDE DEF l
  <1>4. Tupled(body, l) /\ \A k \in 1..l : body[k] = raw[7 + k]
    BY <1>3, BodyIs
  <1>5. Len(body) = l
    BY <1>4, TupledIs
  <1>6. back = <<raw[1], raw[2], raw[3], raw[4], raw[5], Len(body), _RESERVED_V1>> \o body
    BY <1>1 DEF encode_event, Parsed
  <1> HIDE DEF body, back
  <1>7. Headed(back, raw[1], raw[2], raw[3], raw[4], raw[5], Len(body), _RESERVED_V1, body, l)
    BY <1>4, <1>6, SevenAndMore
  <1>8. Headed(back, raw[1], raw[2], raw[3], raw[4], raw[5], raw[6], raw[7], body, l)
    BY <1>1, <1>7 DEF body
  <1>9. Tupled(back, n)
    BY <1>3, <1>8 DEF Headed
  <1>10. ASSUME NEW k \in 1..n
         PROVE  back[k] = raw[k]
    <2>1. CASE k <= 7
      <3>1. k = 1 \/ k = 2 \/ k = 3 \/ k = 4 \/ k = 5 \/ k = 6 \/ k = 7
        BY <1>2, <2>1
      <3> QED  BY <1>8, <3>1 DEF Headed
    <2>2. CASE ~(k <= 7)
      <3>1. k - 7 \in 1..l /\ 7 + (k - 7) = k
        BY <1>3, <2>2
      <3> QED  BY <1>4, <1>8, <3>1 DEF Headed
    <2> QED  BY <2>1, <2>2
  <1>11. back = raw
    BY <1>9, <1>10, TupledEqual
  <1> QED  BY <1>11 DEF back

\* And what was encoded decodes to the event it was.
LEMMA EncodedIsDecoded ==
    ASSUME NEW ev, IsRecord(ev), IsEvent(ev)
    PROVE  decode_event(encode_event(ev)) = {ev}
  <1> DEFINE raw == encode_event(ev)
             l == Len(ev.payload)
  <1>1. Cells(raw, ev)
    BY EncodedIs
  <1> HIDE DEF raw
  <1>2. Tupled(raw, 7 + l) /\ l \in Nat /\ raw[6] = l /\ raw[7] = _RESERVED_V1
    BY <1>1 DEF Cells, HEADER_SIZE, Tupled
  <1>3. Tupled(Body(raw), l) /\ \A k \in 1..l : Body(raw)[k] = raw[7 + k]
    <2> HIDE DEF l
    <2> QED  BY <1>2, BodyIs
  <1>4. Body(raw) = ev.payload
    <2>1. Tupled(ev.payload, l) /\ \A k \in 1..l : ev.payload[k] = raw[7 + k]
      BY <1>1 DEF Cells, HEADER_SIZE
    <2> HIDE DEF l
    <2> QED  BY <1>3, <2>1, TupledEqual
  <1>5. Parsed(raw) = ev
    <2>1. Parsed(raw) = [event_type |-> ev.event_type, sequence |-> ev.sequence,
                         timestamp_ns |-> ev.timestamp_ns, actor_id |-> ev.actor_id,
                         parent_id |-> ev.parent_id, payload |-> ev.payload]
      BY <1>1, <1>4 DEF Parsed, Cells
    <2>2. PICK t, n, time, actor, parent : \E load \in Seq(Nat) :
              ev = [event_type |-> t, sequence |-> n, timestamp_ns |-> time,
                    actor_id |-> actor, parent_id |-> parent, payload |-> load]
      BY DEF IsRecord
    <2> QED  BY <2>1, <2>2
  <1>6. Len(raw) = 7 + l /\ Len(Body(raw)) = l
    BY <1>2, <1>3, TupledIs
  <1>7. ~(Len(raw) < HEADER_SIZE)
    BY <1>2, <1>6 DEF HEADER_SIZE
  <1>8. decode_event(raw) = {e \in {ev} : IsEvent(e)}
    BY <1>2, <1>5, <1>6, <1>7 DEF decode_event
  <1> QED  BY <1>8 DEF raw

\* However bytes were damaged, they are bytes.
LEMMA DamagedIsTupled ==
    ASSUME NEW raw, NEW n, Tupled(raw, n), NEW bytes \in Damaged(raw)
    PROVE  \E m : Tupled(bytes, m)
  <1>1. n \in Nat /\ Len(raw) = n /\ DOMAIN raw = 1..n
    BY TupledIs DEF Tupled
  <1>2. CASE \E k \in DOMAIN raw, v \in 0..MAX_SEQUENCE : bytes = [raw EXCEPT ![k] = v]
    <2>1. Tupled(bytes, n)
      BY <1>1, <1>2 DEF Tupled
    <2> QED  BY <2>1
  <1>3. CASE \E k \in 0..Len(raw) : bytes = SubSeq(raw, 1, k)
    <2>1. PICK k \in 0..n : bytes = SubSeq(raw, 1, k)
      BY <1>1, <1>3
    <2> QED  BY <2>1, TupledPrefix
  <1>4. CASE bytes = Append(raw, 1)
    <2>1. Extends(bytes, raw, n, 1)
      BY <1>4, TupledAppend
    <2> QED  BY <2>1 DEF Extends
  <1>5. CASE bytes = raw \o raw
    <2> DEFINE S == {raw[k] : k \in 1..n}
    <2>1. raw \in Seq(S)
      BY TupledIs
    <2> HIDE DEF S
    <2>2. bytes \in Seq(S)
      BY <1>5, <2>1, ConcatProperties
    <2> QED  BY <2>2, SeqTupled
  <1> QED  BY <1>2, <1>3, <1>4, <1>5 DEF Damaged

\* Events and bytes are one to one, for the event staged last as for whole
\* histories, the ledger's and an altered copy's (canonical.encode_event,
\* decode_event and encode_stream).
THEOREM BytesAlwaysExact == Spec => []BytesAreExact
  <1>1. LedgerInv => BytesAreExact
    <2> SUFFICES ASSUME LedgerInv
                 PROVE  BytesAreExact
      OBVIOUS
    <2>1. ASSUME pending # <<>>
          PROVE  /\ decode_event(encode_event(Last(pending))) = {Last(pending)}
                 /\ \A bytes \in Damaged(encode_event(Last(pending))) :
                    \A ev \in decode_event(bytes) : encode_event(ev) = bytes
      <3> DEFINE last == Last(pending)
      <3>1. pending \in Seq(Offered) /\ AreRecords(pending)
        BY OfferedAreRecords DEF LedgerInv, Counted
      <3>2. Len(pending) \in 1..Len(pending)
        BY <2>1, <3>1, LenProperties, EmptySeq
      <3>3. last \in Offered /\ IsRecord(last)
        BY <3>1, <3>2 DEF Last, AreRecords
      <3> HIDE DEF last
      <3>4. IsEvent(last)
        BY <3>3, OfferedAssumption
      <3>5. decode_event(encode_event(last)) = {last}
        BY <3>3, <3>4, EncodedIsDecoded
      <3>6. ASSUME NEW bytes \in Damaged(encode_event(last)), NEW ev \in decode_event(bytes)
            PROVE  encode_event(ev) = bytes
        <4>1. Tupled(encode_event(last), HEADER_SIZE + Len(last.payload))
          BY <3>3, EncodedIs DEF Cells
        <4>2. PICK m : Tupled(bytes, m)
          BY <3>6, <4>1, DamagedIsTupled
        <4> QED  BY <3>6, <4>2, DecodedIsEncoded
      <3> QED  BY <3>5, <3>6 DEF last
    <2>2. ASSUME audited # NoAudit,
                 encode_stream(all_events(audited.copy)) = encode_stream(all_events(blocks))
          PROVE  all_events(audited.copy) = all_events(blocks)
      <3>1. audited.copy \in Copies(blocks)
        BY <2>2 DEF LedgerInv, Examined
      <3>2. WellFormed(blocks) /\ WellFormed(audited.copy)
        BY <3>1, CopiesWellFormed DEF LedgerInv, Sealed, Chained
      <3>3. AreRecords(all_events(audited.copy)) /\ AreRecords(all_events(blocks))
        BY <3>2, HistoryRecords
      <3> QED  BY <2>2, <3>3, StreamTells
    <2> QED  BY <2>1, <2>2 DEF BytesAreExact
  <1> QED  BY <1>1, LedgerInvariant, PTL

-------------------------------------------------------------------------------
\* Inclusion proofs (Commit.merkle_proof, verify_proof).

\* Where the node above a leaf is.
LEMMA PlacesAre ==
    ASSUME NEW index, NEW n \in Nat
    PROVE  /\ Places(index, n)[0] = index
           /\ \A h \in Nat : h < n => Places(index, n)[h + 1] = Places(index, n)[h] \div 2
  <1> DEFINE of == [kind |-> "place"]
             Is(f) == f = [h \in 0..n |-> IF h = 0 THEN index ELSE f[h - 1] \div 2]
             place == CHOOSE f : Is(f)
  <1>1. \A x, k : Following(of, x, k) = x \div 2
    BY DEF Following
  <1>2. Places(index, n) = place
    BY DEF Places
  <1> HIDE DEF of
  <1>3. Is(place)
    <2>1. PICK f : IsChain(f, of, index, n)
      BY ChainExists
    <2>2. [h \in 0..n |-> IF h = 0 THEN index ELSE Following(of, f[h - 1], h)] =
          [h \in 0..n |-> IF h = 0 THEN index ELSE f[h - 1] \div 2]
      BY <1>1, Zenon
    <2>3. Is(f)
      BY <2>1, <2>2, Zenon DEF IsChain
    <2> HIDE DEF Is
    <2> QED  BY <2>3
  <1> HIDE DEF place
  <1>4. \A h \in 0..n : place[h] = IF h = 0 THEN index ELSE place[h - 1] \div 2
    BY <1>3
  <1>5. ASSUME NEW h \in Nat, h < n
        PROVE  place[h + 1] = place[h] \div 2
    <2>1. h + 1 \in 0..n /\ h + 1 # 0 /\ (h + 1) - 1 = h
      BY <1>5
    <2> QED  BY <1>4, <2>1
  <1> QED  BY <1>2, <1>4, <1>5

\* The node above is the node itself, or what one step of the proof makes of it.
Above(level, i, next) ==
    \/ Sibling(level, i) = <<>> /\ next = level[i + 1]
    \/ \E step : Sibling(level, i) = <<step>> /\ next = Climbed(level[i + 1], step)

\* So it is in the tree.
LEMMA OneUp ==
    ASSUME NEW level, NEW m, Tupled(level, m), NEW i \in Nat, i < m
    PROVE  /\ i \div 2 < (m + 1) \div 2
           /\ Above(level, i, Paired(level)[i \div 2 + 1])
  <1> DEFINE j == i \div 2 + 1
             w == (m + 1) \div 2
  <1>1. m \in Nat /\ Len(level) = m
    BY TupledIs DEF Tupled
  <1>2. j \in 1..w /\ (i = 2 * j - 2 \/ i = 2 * j - 1)
    BY <1>1
  <1>3. Paired(level)[j] = IF 2 * j <= m THEN Node(level[2 * j - 1], level[2 * j]) ELSE level[m]
    BY <1>2, PairedIs
  <1>4. i \div 2 < w
    BY <1>1
  <1>5. (i % 2 = 0 /\ i + 1 = 2 * j - 1 /\ i + 2 = 2 * j) \/ (i % 2 # 0 /\ i = 2 * j - 1 /\ i + 1 = 2 * j)
    BY <1>1
  <1>6. i >= 2 * (m \div 2) <=> ~(2 * j <= m)
    BY <1>1
  <1> HIDE DEF j, w
  <1>7. PICK next : next = Paired(level)[j]
    OBVIOUS
  <1>8. ASSUME ~(2 * j <= m)
        PROVE  Above(level, i, next)
    <2>1. Sibling(level, i) = <<>>
      BY <1>1, <1>6, <1>8 DEF Sibling
    <2>2. i + 1 = m
      BY <1>1, <1>2, <1>8
    <2>3. next = level[i + 1]
      BY <1>3, <1>8, <1>7, <2>2
    <2> QED  BY <2>1, <2>3, Zenon DEF Above
  <1>9. ASSUME 2 * j <= m
        PROVE  Above(level, i, next)
    <2>1. ~(i >= 2 * (Len(level) \div 2))
      BY <1>1, <1>6, <1>9
    <2>2. CASE i % 2 = 0
      <3> DEFINE step == [sibling |-> level[i + 2], is_right |-> TRUE]
      <3>1. Sibling(level, i) = <<step>>
        BY <2>1, <2>2 DEF Sibling
      <3>2. next = Node(level[i + 1], level[i + 2])
        BY <1>3, <1>5, <1>9, <1>7, <2>2
      <3>3. step.is_right /\ step.sibling = level[i + 2]
        OBVIOUS
      <3> HIDE DEF step
      <3>4. next = Climbed(level[i + 1], step)
        BY <3>2, <3>3 DEF Climbed
      <3> QED  BY <3>1, <3>4, Zenon DEF Above
    <2>3. CASE i % 2 # 0
      <3> DEFINE step == [sibling |-> level[i], is_right |-> FALSE]
      <3>1. Sibling(level, i) = <<step>>
        BY <2>1, <2>3 DEF Sibling
      <3>2. next = Node(level[i], level[i + 1])
        BY <1>3, <1>5, <1>9, <1>7, <2>3
      <3>3. ~step.is_right /\ step.sibling = level[i]
        OBVIOUS
      <3> HIDE DEF step
      <3>4. next = Climbed(level[i + 1], step)
        BY <3>2, <3>3 DEF Climbed
      <3> QED  BY <3>1, <3>4, Zenon DEF Above
    <2> QED  BY <2>2, <2>3, Zenon
  <1>10. Above(level, i, next)
    BY <1>8, <1>9
  <1> QED  BY <1>4, <1>10, <1>7 DEF j, w

\* verify_proof climbs step by step.
Judges(F, bytes, proof, q, root) ==
    /\ GoesOver(F, OfProof, Leaf(bytes), proof, q)
    /\ verify_proof(bytes, proof, root) <=> root = F[q]
LEMMA VerifyIs ==
    ASSUME NEW bytes, NEW proof, NEW q, Tupled(proof, q), NEW root
    PROVE  \E F : Judges(F, bytes, proof, q, root)
  <1> DEFINE first == Leaf(bytes)
             Direct(iter) == iter = [s \in SUBSET (1..q) |->
                                IF s = {} THEN first
                                ELSE IF proof[Max(s)].is_right
                                     THEN Node(iter[s \ {Max(s)}], proof[Max(s)].sibling)
                                     ELSE Node(proof[Max(s)].sibling, iter[s \ {Max(s)}])]
             fold == CHOOSE iter : Direct(iter)
  <1>1. q \in Nat /\ DOMAIN proof = 1..q
    BY TupledIs DEF Tupled
  <1>2. verify_proof(bytes, proof, root) <=> root = fold[1..q]
    BY <1>1 DEF verify_proof, FoldLeft, MapThenFoldSet
  <1> HIDE DEF first
  <1>3. \A folded, item : Step(OfProof, folded, item) =
            IF item.is_right THEN Node(folded, item.sibling) ELSE Node(item.sibling, folded)
    BY DEF Step, OfProof, Climbed
  <1>4. \A iter : Direct(iter) <=> IsFold(iter, OfProof, first, proof, 1..q)
    BY <1>3, Zenon DEF IsFold
  <1> HIDE DEF Direct
  <1>5. IsFold(fold, OfProof, first, proof, 1..q)
    <2>1. \E iter : Direct(iter)
      BY <1>1, <1>4, FoldExists
    <2> QED  BY <1>4, <2>1
  <1> HIDE DEF fold
  <1>6. PICK F : GoesOver(F, OfProof, first, proof, q) /\ F[q] = fold[1..q]
    BY <1>1, <1>5, FoldSteps
  <1>7. Judges(F, bytes, proof, q, root)
    BY <1>2, <1>6 DEF Judges, first
  <1> QED  BY <1>7

\* Two climbs that end at one node by the same last steps were at one node
\* before them.
LEMMA ClimbsMeet ==
    ASSUME NEW F, NEW x, NEW p, NEW q \in Nat, GoesOver(F, OfProof, x, p, q),
           NEW G, NEW y, NEW r, NEW l \in Nat, GoesOver(G, OfProof, y, r, l),
           l <= q, \A i \in 1..l : r[i] = p[(q - l) + i], F[q] = G[l]
    PROVE  F[q - l] = y
  <1> DEFINE Same == {j \in Nat : j <= l => F[q - j] = G[l - j]}
  <1>1. 0 \in Same
    OBVIOUS
  <1>2. ASSUME NEW j \in Nat, j \in Same
        PROVE  j + 1 \in Same
    <2> SUFFICES ASSUME j + 1 <= l
                 PROVE  F[q - (j + 1)] = G[l - (j + 1)]
      OBVIOUS
    <2> DEFINE a == q - (j + 1)
               b == l - (j + 1)
    <2>1. /\ a \in Nat /\ b \in Nat /\ a + 1 \in 1..q /\ b + 1 \in 1..l /\ a + 1 = q - j
          /\ b + 1 = l - j /\ (q - l) + (b + 1) = a + 1 /\ j <= l
      OBVIOUS
    <2>2. F[a + 1] = G[b + 1]
      BY <1>2, <2>1
    <2> HIDE DEF a, b
    <2>3. F[a + 1] = Climbed(F[a], p[a + 1])
      BY <2>1 DEF GoesOver, Step, OfProof
    <2>4. G[b + 1] = Climbed(G[b], r[b + 1])
      BY <2>1 DEF GoesOver, Step, OfProof
    <2>5. r[b + 1] = p[a + 1]
      BY <2>1
    <2>6. F[a] = G[b]
      <3>1. Climbed(F[a], p[a + 1]) = Climbed(G[b], p[a + 1])
        BY <2>2, <2>3, <2>4, <2>5
      <3>2. CASE p[a + 1].is_right
        <4>1. Node(F[a], p[a + 1].sibling) = Node(G[b], p[a + 1].sibling)
          BY <3>1, <3>2 DEF Climbed
        <4> QED  BY <4>1, DigestsApart
      <3>3. CASE ~p[a + 1].is_right
        <4>1. Node(p[a + 1].sibling, F[a]) = Node(p[a + 1].sibling, G[b])
          BY <3>1, <3>3 DEF Climbed
        <4> QED  BY <4>1, DigestsApart
      <3> QED  BY <3>2, <3>3
    <2> QED  BY <2>6 DEF a, b
  <1> HIDE DEF Same
  <1>3. l \in Same
    BY <1>1, <1>2, Induction
  <1>4. F[q - l] = G[l - l]
    BY <1>3 DEF Same
  <1>5. l - l = 0 /\ G[0] = y
    BY DEF GoesOver
  <1> QED  BY <1>4, <1>5

\* A proof has at most one step for each level.
LEMMA SiblingIs ==
    ASSUME NEW level, NEW i
    PROVE  Sibling(level, i) = <<>> \/ \E step : Sibling(level, i) = <<step>>
  <1>1. Sibling(level, i) \in {<<>>, <<[sibling |-> level[i + 2], is_right |-> TRUE]>>,
                               <<[sibling |-> level[i], is_right |-> FALSE]>>}
    BY DEF Sibling
  <1> QED  BY <1>1, Zenon

\* The nodes above a leaf, one in each level: each is above the one before, the
\* last is the root.
OnPath(level, at, h) == \E m : Tupled(level[h], m) /\ at[h] \in Nat /\ at[h] < m
LEMMA PathIs ==
    ASSUME NEW leaves, NEW n, Tupled(leaves, n), NEW k \in 1..n
    PROVE  LET level == Levels(leaves)
               at == Places(k - 1, n)
           IN  /\ level[0][at[0] + 1] = Leaf(<<leaves[k]>>)
               /\ \A h \in Nat : h < n => Above(level[h], at[h], level[h + 1][at[h + 1] + 1])
               /\ level[n][at[n] + 1] = merkle_root(leaves)
  <1> DEFINE level == Levels(leaves)
             at == Places(k - 1, n)
             On == {h \in Nat : h <= n => OnPath(level, at, h)}
  <1>1. n \in Nat /\ n > 0 /\ k - 1 \in Nat /\ k - 1 < n /\ Len(leaves) = n /\ leaves # <<>>
    <2>1. n \in Nat /\ Len(leaves) = n
      BY TupledIs DEF Tupled
    <2>2. Len(<<>>) = 0
      OBVIOUS
    <2> QED  BY <2>1, <2>2
  <1>2. /\ level[0] = [j \in 1..n |-> Leaf(<<leaves[j]>>)]
        /\ \A h \in Nat : h < n => level[h + 1] = Paired(level[h])
    BY LevelsAre
  <1>3. /\ at[0] = k - 1
        /\ \A h \in Nat : h < n => at[h + 1] = at[h] \div 2
    BY <1>1, PlacesAre
  <1>4. \A h \in 0..n : \E m : Shaped(level[h], m, h) /\ (m = 1 \/ m <= n - h)
    BY <1>1, LevelsShaped
  <1>5. merkle_root(leaves) = level[n][1]
    BY <1>1 DEF merkle_root
  <1> HIDE DEF level, at
  <1>6. level[0][at[0] + 1] = Leaf(<<leaves[k]>>)
    <2>1. at[0] + 1 = k
      BY <1>1, <1>3
    <2> QED  BY <1>2, <2>1
  <1>7. ASSUME NEW h \in Nat, h < n, OnPath(level, at, h)
        PROVE  /\ OnPath(level, at, h + 1)
               /\ Above(level[h], at[h], level[h + 1][at[h + 1] + 1])
    <2>1. PICK m : Tupled(level[h], m) /\ at[h] \in Nat /\ at[h] < m
      BY <1>7 DEF OnPath
    <2>2. /\ at[h] \div 2 < (m + 1) \div 2
          /\ Above(level[h], at[h], Paired(level[h])[at[h] \div 2 + 1])
      BY <2>1, OneUp
    <2>3. level[h + 1] = Paired(level[h]) /\ at[h + 1] = at[h] \div 2
      BY <1>2, <1>3, <1>7
    <2>4. Tupled(level[h + 1], (m + 1) \div 2)
      BY <2>1, <2>3, PairedIs
    <2>5. at[h + 1] \in Nat
      BY <2>1, <2>3
    <2> QED  BY <2>2, <2>3, <2>4, <2>5 DEF OnPath
  <1>8. 0 \in On
    <2>1. Tupled(level[0], n)
      BY <1>1, <1>2 DEF Tupled
    <2> QED  BY <1>1, <1>3, <2>1 DEF OnPath
  <1>9. ASSUME NEW h \in Nat, h \in On
        PROVE  h + 1 \in On
    BY <1>1, <1>7, <1>9
  <1>10. \A h \in Nat : h <= n => OnPath(level, at, h)
    <2> HIDE DEF On
    <2>1. \A h \in Nat : h \in On
      BY <1>8, <1>9, Induction
    <2> QED  BY <2>1 DEF On
  <1>11. \A h \in Nat : h < n => Above(level[h], at[h], level[h + 1][at[h + 1] + 1])
    BY <1>1, <1>7, <1>10
  <1>12. level[n][at[n] + 1] = merkle_root(leaves)
    <2>1. PICK m : Tupled(level[n], m) /\ at[n] \in Nat /\ at[n] < m
      BY <1>1, <1>10 DEF OnPath
    <2>2. PICK l : Shaped(level[n], l, n) /\ (l = 1 \/ l <= n - n)
      BY <1>1, <1>4
    <2>3. Tupled(level[n], l) /\ l > 0 /\ l \in Nat
      BY <2>2 DEF Shaped, Tupled
    <2>4. l = m
      <3>1. Len(level[n]) = m
        BY <2>1, TupledIs
      <3>2. Len(level[n]) = l
        BY <2>3, TupledIs
      <3> QED  BY <3>1, <3>2
    <2>5. at[n] + 1 = 1
      BY <1>1, <2>1, <2>2, <2>3, <2>4
    <2> QED  BY <1>5, <2>5
  <1> QED  BY <1>6, <1>11, <1>12 DEF level, at

\* Climbing from a leaf by its own proof goes over these nodes up to the root.
ClimbsTo(proof, q, leaf, root) ==
    \A F : GoesOver(F, OfProof, leaf, proof, q) => F[q] = root
LEMMA ProofClimbs ==
    ASSUME NEW leaves, NEW n, Tupled(leaves, n), NEW k \in 1..n
    PROVE  \E q : /\ Tupled(merkle_proof(leaves, k - 1), q)
                  /\ ClimbsTo(merkle_proof(leaves, k - 1), q, Leaf(<<leaves[k]>>), merkle_root(leaves))
  <1> DEFINE level == Levels(leaves)
             at == Places(k - 1, n)
             seqs == [h \in 1..n |-> Sibling(level[h - 1], at[h - 1])]
             p == merkle_proof(leaves, k - 1)
             S == {seqs[h][1] : h \in 1..n}
             q == Len(p)
             leaf == Leaf(<<leaves[k]>>)
             root == merkle_root(leaves)
  <1>1. n \in Nat /\ Len(leaves) = n
    BY TupledIs DEF Tupled
  <1>2. /\ level[0][at[0] + 1] = leaf
        /\ \A h \in Nat : h < n => Above(level[h], at[h], level[h + 1][at[h + 1] + 1])
        /\ level[n][at[n] + 1] = root
    BY PathIs
  <1>3. p = FlattenSeq(seqs)
    BY <1>1 DEF merkle_proof
  <1> HIDE DEF level, at, p, root, leaf
  <1>4. ASSUME NEW h \in Nat, h < n
        PROVE  h + 1 \in 1..n /\ seqs[h + 1] = Sibling(level[h], at[h])
    <2>1. h + 1 \in 1..n /\ (h + 1) - 1 = h
      BY <1>1, <1>4
    <2> QED  BY <2>1
  <1>5. Tupled(seqs, n)
    BY <1>1 DEF Tupled
  <1>6. \A h \in 1..n : seqs[h] = <<>> \/ \E step : seqs[h] = <<step>>
    BY SiblingIs
  <1> HIDE DEF seqs
  <1>7. ASSUME NEW h \in 1..n
        PROVE  seqs[h] \in Seq(S)
    <2>1. CASE seqs[h] = <<>>
      BY <2>1
    <2>2. CASE \E step : seqs[h] = <<step>>
      <3>1. PICK step : seqs[h] = <<step>>
        BY <2>2
      <3>2. seqs[h][1] = step /\ seqs[h][1] \in S
        BY <3>1
      <3> QED  BY <3>1, <3>2
    <2> QED  BY <1>6, <2>1, <2>2
  <1> HIDE DEF S
  <1>8. PICK J : /\ Joins(J, seqs, n) /\ p = J[n]
                 /\ \A h \in 0..n : J[h] \in Seq(S)
    BY <1>1, <1>3, <1>5, <1>7, FlattenIs
  <1>9. StreamOf(p, J, seqs, n, S)
    BY <1>1, <1>7, <1>8 DEF StreamOf
  <1>10. Tupled(p, q)
    <2>1. p \in Seq(S)
      BY <1>1, <1>8
    <2> QED  BY <2>1, SeqTupled
  <1> HIDE DEF q
  <1>11. ASSUME NEW F, GoesOver(F, OfProof, leaf, p, q)
         PROVE  F[q] = root
    <2> DEFINE Right == {h \in Nat : h <= n => F[Len(J[h])] = level[h][at[h] + 1]}
    <2>1. 0 \in Right
      <3>1. Len(J[0]) = 0
        BY <1>8 DEF Joins
      <3> QED  BY <1>2, <1>11, <3>1 DEF GoesOver
    <2>2. ASSUME NEW h \in Nat, h \in Right
          PROVE  h + 1 \in Right
      <3> SUFFICES ASSUME h + 1 <= n
                   PROVE  F[Len(J[h + 1])] = level[h + 1][at[h + 1] + 1]
        OBVIOUS
      <3>1. h < n /\ h \in 0..n /\ h + 1 \in 1..n /\ h + 1 \in 0..n
        BY <1>1
      <3>2. F[Len(J[h])] = level[h][at[h] + 1]
        BY <1>1, <2>2, <3>1
      <3> HIDE DEF Right
      <3> DEFINE now == level[h][at[h] + 1]
                 next == level[h + 1][at[h + 1] + 1]
      <3>3. \/ seqs[h + 1] = <<>> /\ next = now
            \/ \E step : seqs[h + 1] = <<step>> /\ next = Climbed(now, step)
        <4>1. Above(level[h], at[h], next)
          BY <1>2, <3>1
        <4>2. seqs[h + 1] = Sibling(level[h], at[h])
          BY <1>4, <3>1
        <4> HIDE DEF next
        <4> QED  BY <4>1, <4>2, Zenon DEF Above
      <3> HIDE DEF now, next
      <3>4. Joined(J[h + 1], J[h], seqs[h + 1])
        <4>1. J[h + 1] = J[h] \o seqs[h + 1]
          BY <1>8, <3>1 DEF Joins
        <4>2. J[h] \in Seq(S) /\ seqs[h + 1] \in Seq(S)
          BY <1>7, <1>8, <3>1
        <4> QED  BY <4>1, <4>2, ConcatJoins
      <3>5. HoldsAfter(p, Len(J[h]), seqs[h + 1])
        BY <1>9, <3>1, StreamHolds
      <3>6. F[Len(J[h])] = now
        BY <3>2 DEF now
      <3>7. Len(J[h]) \in Nat /\ Len(J[h + 1]) = Len(J[h]) + Len(seqs[h + 1])
        BY <3>4 DEF Joined
      <3>8. CASE seqs[h + 1] = <<>> /\ next = now
        <4>1. Len(seqs[h + 1]) = 0
          BY <3>8
        <4>2. Len(J[h + 1]) = Len(J[h])
          BY <3>7, <4>1
        <4>3. F[Len(J[h + 1])] = next
          BY <3>6, <3>8, <4>2
        <4> QED  BY <4>3 DEF next
      <3>9. CASE \E step : seqs[h + 1] = <<step>> /\ next = Climbed(now, step)
        <4>1. PICK step : seqs[h + 1] = <<step>> /\ next = Climbed(now, step)
          BY <3>9
        <4>2. Len(seqs[h + 1]) = 1 /\ seqs[h + 1][1] = step
          BY <4>1
        <4>3. Len(J[h]) + 1 <= q /\ p[Len(J[h]) + 1] = step
          BY <3>5, <4>2 DEF HoldsAfter, q
        <4>4. q \in Nat
          BY <1>10 DEF Tupled
        <4> DEFINE c == Len(J[h])
        <4>5. c \in Nat /\ c + 1 \in 1..q /\ Len(J[h + 1]) = c + 1
          BY <3>7, <4>2, <4>3, <4>4
        <4>6. F[c] = now /\ p[c + 1] = step
          BY <3>6, <4>3
        <4> HIDE DEF c
        <4>7. F[c + 1] = Climbed(now, step)
          BY <1>11, <4>5, <4>6 DEF GoesOver, Step, OfProof
        <4>8. F[Len(J[h + 1])] = next
          BY <4>1, <4>5, <4>7
        <4> QED  BY <4>8 DEF next
      <3> QED  BY <3>3, <3>8, <3>9
    <2> HIDE DEF Right
    <2>3. n \in Right
      BY <1>1, <2>1, <2>2, Induction
    <2>4. F[Len(J[n])] = level[n][at[n] + 1]
      BY <1>1, <2>3 DEF Right
    <2> QED  BY <1>2, <1>8, <2>4 DEF q
  <1>12. ClimbsTo(p, q, leaf, root)
    BY <1>11 DEF ClimbsTo
  <1> QED  BY <1>10, <1>12 DEF p, leaf, root

\* A tuple cut short from below.
LEMMA TupledSuffix ==
    ASSUME NEW f, NEW n, Tupled(f, n), NEW from \in 1..(n + 1), NEW l, l = (n + 1) - from
    PROVE  /\ Tupled(SubSeq(f, from, n), l)
           /\ \A i \in 1..l : SubSeq(f, from, n)[i] = f[(n - l) + i]
  <1> DEFINE S == {f[k] : k \in 1..n}
             g == SubSeq(f, from, n)
  <1>1. n \in Nat /\ n \in Int /\ from \in Int /\ \A k \in from..n : f[k] \in S
    BY DEF Tupled
  <1> HIDE DEF S
  <1>2. /\ g \in Seq(S)
        /\ Len(g) = IF from <= n THEN n - from + 1 ELSE 0
        /\ \A i \in 1..(n - from + 1) : g[i] = f[from + i - 1]
    BY <1>1, SubSeqProperties
  <1> HIDE DEF g
  <1>3. Len(g) = l
    BY <1>1, <1>2
  <1>4. ASSUME NEW i \in 1..l
        PROVE  g[i] = f[(n - l) + i]
    <2>1. i \in 1..(n - from + 1) /\ from + i - 1 = (n - l) + i
      BY <1>1
    <2> QED  BY <1>2, <2>1
  <1>5. Tupled(g, l)
    BY <1>2, <1>3, SeqTupled
  <1> QED  BY <1>4, <1>5 DEF g

\* The proof of a leaf, whole or cut short from below, verifies for that leaf and
\* for nothing else.
LEMMA ProofIsExact ==
    ASSUME NEW leaves, NEW n, Tupled(leaves, n), NEW k \in 1..n, NEW p, p = merkle_proof(leaves, k - 1),
           NEW from \in 1..(Len(p) + 1), NEW bytes
    PROVE  verify_proof(bytes, SubSeq(p, from, Len(p)), merkle_root(leaves))
           <=> from = 1 /\ bytes = <<leaves[k]>>
  <1> DEFINE root == merkle_root(leaves)
             own == <<leaves[k]>>
  <1>1. PICK q : Tupled(p, q) /\ ClimbsTo(p, q, Leaf(own), root)
    BY ProofClimbs
  <1>2. q \in Nat /\ Len(p) = q
    BY <1>1, TupledIs DEF Tupled
  <1> DEFINE l == (q + 1) - from
             r == SubSeq(p, from, q)
  <1>3. Tupled(r, l) /\ \A i \in 1..l : r[i] = p[(q - l) + i]
    BY <1>1, <1>2, TupledSuffix
  <1>4. l \in Nat /\ l <= q /\ q - l = from - 1
    BY <1>2
  <1> HIDE DEF root, own, l, r
  <1>5. PICK F : Judges(F, own, p, q, root)
    BY <1>1, VerifyIs
  <1>6. GoesOver(F, OfProof, Leaf(own), p, q) /\ F[q] = root
    BY <1>1, <1>5 DEF ClimbsTo, Judges
  <1>7. PICK G : Judges(G, bytes, r, l, root)
    BY <1>3, VerifyIs
  <1> USE DEF Judges
  <1>8. ASSUME verify_proof(bytes, r, root)
        PROVE  from = 1 /\ bytes = own
    <2>1. F[q] = G[l]
      BY <1>6, <1>7, <1>8
    <2>2. F[q - l] = Leaf(bytes)
      BY <1>2, <1>3, <1>4, <1>6, <1>7, <2>1, ClimbsMeet
    <2>3. F[from - 1] = Leaf(bytes)
      BY <1>4, <2>2
    <2>4. from = 1
      <3> SUFFICES ASSUME from # 1
                   PROVE  FALSE
        OBVIOUS
      <3> DEFINE a == from - 2
      <3>1. a \in Nat /\ a + 1 \in 1..q /\ from - 1 = a + 1
        BY <1>2
      <3> HIDE DEF a
      <3>2. F[a + 1] = Climbed(F[a], p[a + 1])
        BY <1>6, <3>1 DEF GoesOver, Step, OfProof
      <3>3. Climbed(F[a], p[a + 1]) # Leaf(bytes)
        BY DigestsApart DEF Climbed
      <3> QED  BY <2>3, <3>1, <3>2, <3>3
    <2>5. from - 1 = 0
      BY <2>4
    <2>6. Leaf(own) = Leaf(bytes)
      BY <1>6, <2>3, <2>5 DEF GoesOver
    <2>7. bytes = own
      BY <2>6, DigestsApart
    <2> QED  BY <2>4, <2>7
  <1>9. ASSUME from = 1, bytes = own
        PROVE  verify_proof(bytes, r, root)
    <2>1. l = q /\ \A i \in 1..q : r[i] = p[i]
      <3>1. l = q /\ q - l = 0
        BY <1>2, <1>4, <1>9
      <3>2. \A i \in 1..q : 0 + i = i
        OBVIOUS
      <3> QED  BY <1>3, <3>1, <3>2
    <2>2. GoesOver(G, OfProof, Leaf(own), r, q)
      BY <1>7, <1>9, <2>1
    <2>3. F[q] = G[q]
      BY <1>2, <1>6, <2>1, <2>2, FoldsAgree
    <2> QED  BY <1>6, <1>7, <2>1, <2>3
  <1>10. verify_proof(bytes, r, root) <=> from = 1 /\ bytes = own
    BY <1>8, <1>9
  <1> QED  BY <1>2, <1>10 DEF root, own, r

\* The proof of an event in the sealed block verifies against the block's header
\* for that event, and a proof verifies for nothing else (commit.merkle_proof and
\* verify_proof over the events_root that ledger.py seals).
THEOREM InclusionProofsExact == Spec => []ProofsExact
  <1>1. LedgerInv => ProofsExact
    <2> SUFFICES ASSUME LedgerInv, blocks # <<>>
                 PROVE  ProofsExact
      BY DEF ProofsExact
    <2> DEFINE n == Len(blocks)
               events == blocks[n].events
               m == Len(events)
               leaves == Leaves(events)
               root == Last(blocks).header.events_root
               proofs == [k \in DOMAIN leaves |-> merkle_proof(leaves, k - 1)]
    <2>1. Tupled(blocks, n) /\ \A b \in 1..n : BlockOK(blocks, b) /\ blocks[b].events \in Seq(Offered)
      BY DEF LedgerInv, Sealed, Chained, WellFormed
    <2>2. n \in Nat /\ n # 0
      <3>1. n \in Nat /\ (n = 0 => blocks = [k \in 1..0 |-> blocks[k]])
        BY <2>1 DEF Tupled
      <3>2. 1..0 = {}
        OBVIOUS
      <3>3. n = 0 => blocks = <<>>
        BY <2>1, <3>1, <3>2, TupledEqual DEF Tupled
      <3> QED  BY <3>1, <3>3
    <2>3. Last(blocks) = blocks[n] /\ n \in 1..n
      BY <2>2 DEF Last
    <2>4. root = merkle_root(leaves)
      <3>1. blocks[n].header.events_root = recompute_root(blocks[n].events)
        BY <2>1, <2>3 DEF BlockOK
      <3> QED  BY <2>3, <3>1 DEF recompute_root
    <2>5. Tupled(events, m)
      BY <2>1, <2>3, SeqTupled
    <2> HIDE DEF events, m
    <2>6. Tupled(leaves, m) /\ DOMAIN leaves = 1..m
      <3>1. DOMAIN events = 1..m /\ m \in Nat
        BY <2>5, TupledIs DEF Tupled
      <3> QED  BY <3>1 DEF Leaves, Tupled
    <2>7. Leaves(Last(blocks).events) = leaves
      BY <2>3 DEF events
    <2> HIDE DEF leaves, root
    <2>8. ASSUME NEW k \in DOMAIN leaves, NEW from \in 1..(Len(proofs[k]) + 1), NEW bytes
          PROVE  verify_proof(bytes, SubSeq(proofs[k], from, Len(proofs[k])), root)
                 <=> from = 1 /\ bytes = <<leaves[k]>>
      <3>1. proofs[k] = merkle_proof(leaves, k - 1) /\ k \in 1..m
        BY <2>6, <2>8
      <3> HIDE DEF proofs
      <3> QED  BY <2>4, <2>6, <2>8, <3>1, ProofIsExact
    <2> HIDE DEF proofs
    <2>9. \A k \in DOMAIN leaves : \A from \in 1..(Len(proofs[k]) + 1) : \A bytes :
              verify_proof(bytes, SubSeq(proofs[k], from, Len(proofs[k])), root)
              <=> from = 1 /\ bytes = <<leaves[k]>>
      BY <2>8
    <2> QED  BY <2>7, <2>9 DEF ProofsExact, proofs, root
  <1> QED  BY <1>1, LedgerInvariant, PTL
================================================================================
