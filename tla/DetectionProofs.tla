--------------------------- MODULE DetectionProofs ---------------------------
(***************************************************************************)
(* Dedup and memory, for every traffic, set of detectors, window, cap and   *)
(* channel capacity.  A Call-ID, method and code accepted less than         *)
(* DedupWindow ago is still remembered with a time at least as late         *)
(* (Remembered), so its retransmission is a duplicate.  A window always     *)
(* ends with an entry younger than the last sweep (MemoryBounded is         *)
(* inductive once times are known to lie in the past).                      *)
(***************************************************************************)
EXTENDS Detection, FiniteSetTheorems, SequenceTheorems, TLAPS

Keys == STRING \cup {"", "failed", "ok"}
Entry == [t : Nat, key : Keys]
Stream == [tx : Nat, rest : Seq(Event) \ {<<>>}]
Queued == [e : Event, tx : Nat]
Accepted == [t : Nat, e : Event, tx : Nat]

TypeOK ==
    /\ now \in Nat /\ started \in Nat
    /\ streams \subseteq Stream
    /\ events \in Seq(Queued)
    /\ accepted \in Seq(Accepted)
    /\ DOMAIN win = Detectors /\ DOMAIN sweep = Detectors
    /\ \A d \in Detectors : \A i \in DOMAIN win[d] : win[d][i] \in Seq(Entry)

(* Nothing is remembered from the future.                                   *)
PastOnly ==
    /\ \A k \in DOMAIN accepted : accepted[k].t <= now
    /\ \A k \in DOMAIN seen : seen[k] \in 0..now
    /\ \A d \in Detectors : sweep[d] \in 0..now

Remembered ==
    \A j \in DOMAIN accepted :
        HasCallID(accepted[j]) =>
            \/ now - accepted[j].t >= DedupWindow
            \/ /\ DedupKey(accepted[j]) \in DOMAIN seen
               /\ seen[DedupKey(accepted[j])] >= accepted[j].t

IInv == TypeOK /\ PastOnly /\ Remembered /\ SameEventOnce /\ MemoryBounded

----------------------------------------------------------------------------
(* What the loop of LiveEntries computes.  Its results are taken one by one:*)
(* if one of them were wrong, the first wrong one would follow a right one. *)

LEMMA Least ==
    ASSUME NEW T \in SUBSET Nat, T # {}
    PROVE  \E x \in T : \A y \in T : x <= y
<1> DEFINE R == OpToRel(<, Nat)
<1>1. IsWellFoundedOn(R, Nat)
  BY NatLessThanWellFounded
<1>2. PICK x \in T : \A y \in T : ~(<<y, x>> \in R)
  <2> HIDE DEF R
  <2>1. QED
    BY <1>1, WFMin
<1>3. \A y \in T : ~(y < x)
  BY <1>2 DEF OpToRel
<1>4. QED
  BY <1>3

LEMMA FirstWrong ==
    ASSUME NEW n \in Nat, NEW W \in SUBSET (0..n), 0 \notin W, \A k \in 1..n : k - 1 \notin W => k \notin W
    PROVE  W = {}
<1> SUFFICES ASSUME W # {}
             PROVE  FALSE
  OBVIOUS
<1>1. PICK x \in W : \A y \in W : x <= y
  BY Least
<1>2. x \in 1..n /\ x - 1 \in 0..n /\ ~(x <= x - 1)
  OBVIOUS
<1>3. x - 1 \notin W
  BY <1>1, <1>2
<1>4. QED
  BY <1>2, <1>3

LoopStep(s, n, g, k) ==
    IF k = 0 THEN <<>> ELSE IF Alive(s[k], n) THEN Append(g[k - 1], s[k]) ELSE g[k - 1]
IsLoop(s, n, g, m) == g = [k \in 0..m |-> LoopStep(s, n, g, k)]

LEMMA LoopRuns ==
    ASSUME NEW s, NEW n, NEW len \in Nat
    PROVE  \E g : IsLoop(s, n, g, len)
<1> DEFINE W == {m \in 0..len : ~\E g : IsLoop(s, n, g, m)}
<1>1. 0 \notin W
  <2> DEFINE g == [k \in 0..0 |-> <<>>]
  <2>1. IsLoop(s, n, g, 0)
    BY DEF IsLoop, LoopStep
  <2>2. QED
    BY <2>1
<1>2. ASSUME NEW m \in 1..len, m - 1 \notin W
      PROVE  m \notin W
  <2>1. PICK g : IsLoop(s, n, g, m - 1)
    BY <1>2
  <2> DEFINE h == [k \in 0..m |-> IF k < m THEN g[k] ELSE LoopStep(s, n, g, m)]
  <2>2. ASSUME NEW k \in 0..m
        PROVE  h[k] = LoopStep(s, n, h, k)
    <3>1. CASE k < m
      <4>1. k \in 0..(m - 1) /\ h[k] = g[k]
        BY <3>1
      <4>2. g[k] = LoopStep(s, n, g, k)
        BY <2>1, <4>1 DEF IsLoop
      <4>3. k # 0 => g[k - 1] = h[k - 1]
        BY <3>1
      <4>4. QED
        BY <4>1, <4>2, <4>3 DEF LoopStep
    <3>2. CASE k = m
      <4>1. h[k] = LoopStep(s, n, g, k) /\ g[k - 1] = h[k - 1]
        BY <3>2
      <4>2. QED
        BY <4>1 DEF LoopStep
    <3>3. QED
      BY <3>1, <3>2
  <2>3. IsLoop(s, n, h, m)
    <3>1. h = [k \in 0..m |-> h[k]]
      OBVIOUS
    <3> HIDE DEF h
    <3>2. QED
      BY <2>2, <3>1 DEF IsLoop
  <2>4. QED
    BY <2>3
<1>3. W = {}
  <2>1. W \in SUBSET (0..len)
    OBVIOUS
  <2> HIDE DEF W
  <2>2. QED
    BY <1>1, <1>2, <2>1, FirstWrong
<1>4. QED
  BY <1>3

LEMMA LiveFacts ==
    ASSUME NEW S, NEW s \in Seq(S), NEW n
    PROVE  /\ LiveEntries(s, n) \in Seq({e \in S : Alive(e, n)})
           /\ Len(LiveEntries(s, n)) <= Len(s)
<1> DEFINE L == {e \in S : Alive(e, n)}
           g == CHOOSE f : IsLoop(s, n, f, Len(s))
           Right(k) == g[k] \in Seq(L) /\ Len(g[k]) <= k
           W == {k \in 0..Len(s) : ~Right(k)}
<1>0. Len(s) \in Nat
  OBVIOUS
<1>1. IsLoop(s, n, g, Len(s))
  BY <1>0, LoopRuns
<1>2. LiveEntries(s, n) = g[Len(s)]
  BY DEF LiveEntries, IsLoop, LoopStep
<1> HIDE DEF g
<1>3. \A k \in 0..Len(s) : g[k] = LoopStep(s, n, g, k)
  BY <1>1 DEF IsLoop
<1>4. 0 \notin W
  <2>1. g[0] = <<>>
    BY <1>0, <1>3 DEF LoopStep
  <2>2. <<>> \in Seq(L) /\ Len(<<>>) = 0
    <3> HIDE DEF L
    <3>1. QED
      OBVIOUS
  <2>3. Right(0)
    BY <2>1, <2>2
  <2>4. QED
    BY <2>3
<1>5. ASSUME NEW k \in 1..Len(s), k - 1 \notin W
      PROVE  k \notin W
  <2>1. g[k - 1] \in Seq(L) /\ Len(g[k - 1]) <= k - 1
    BY <1>0, <1>5
  <2>2. g[k] = IF Alive(s[k], n) THEN Append(g[k - 1], s[k]) ELSE g[k - 1]
    BY <1>0, <1>3 DEF LoopStep
  <2>3. CASE Alive(s[k], n)
    <3>1. s[k] \in L
      BY <2>3
    <3>2. g[k] \in Seq(L) /\ Len(g[k]) = Len(g[k - 1]) + 1
      <4> HIDE DEF L
      <4>1. QED
        BY <2>1, <2>2, <2>3, <3>1
    <3>3. Len(g[k - 1]) \in Nat
      BY <2>1
    <3>4. QED
      BY <2>1, <3>2, <3>3
  <2>4. CASE ~Alive(s[k], n)
    <3>1. g[k] = g[k - 1] /\ Len(g[k - 1]) \in Nat
      BY <2>1, <2>2, <2>4
    <3>2. QED
      BY <2>1, <3>1
  <2>5. QED
    BY <2>3, <2>4
<1>6. W = {}
  <2>1. W \in SUBSET (0..Len(s))
    OBVIOUS
  <2> HIDE DEF W
  <2>2. QED
    BY <1>0, <1>4, <1>5, <2>1, FirstWrong
<1>7. Right(Len(s))
  <2>1. Len(s) \in 0..Len(s)
    BY <1>0
  <2>2. QED
    BY <1>6, <2>1
<1>8. QED
  BY <1>2, <1>7

----------------------------------------------------------------------------
(* What AddKeyed keeps: at least the new entry, at most Cap.                *)

LEMMA MaxPair ==
    ASSUME NEW a \in Int, NEW b \in Int
    PROVE  Max({a, b}) = IF a >= b THEN a ELSE b
<1> DEFINE m == IF a >= b THEN a ELSE b
<1>1. m \in {a, b} /\ \A y \in {a, b} : m >= y
  OBVIOUS
<1>2. Max({a, b}) \in {a, b} /\ \A y \in {a, b} : Max({a, b}) >= y
  BY <1>1 DEF Max
<1>3. QED
  BY <1>1, <1>2

LEMMA AddFacts ==
    ASSUME NEW s \in Seq(Entry), NEW n \in Nat, NEW key \in Keys
    PROVE  /\ AddKeyed(s, n, key) \in Seq(Entry)
           /\ Len(AddKeyed(s, n, key)) \in 1..Cap
           /\ AddKeyed(s, n, key)[Len(AddKeyed(s, n, key))].t = n
<1> DEFINE x == [t |-> n, key |-> key]
           live == LiveEntries(s, n)
           all == Append(live, x)
           len == Len(live) + 1
           drop == Max({0, len - Cap})
<1>1. x \in Entry /\ Cap \in Nat \ {0}
  BY DetectionAssumption DEF Entry
<1>2. live \in Seq(Entry)
  <2>1. live \in Seq({e \in Entry : Alive(e, n)})
    BY LiveFacts
  <2> HIDE DEF live
  <2>2. QED
    BY <2>1
<1> HIDE DEF live, x
<1>3. all \in Seq(Entry) /\ Len(all) = len /\ len \in Nat \ {0} /\ all[len] = x
  BY <1>1, <1>2
<1>4. AddKeyed(s, n, key) = SubSeq(all, drop + 1, Len(all))
  BY <1>3 DEF AddKeyed, live, x
<1> HIDE DEF all, len
<1>5. drop \in 0..(len - 1) /\ drop >= len - Cap
  <2>1. drop = IF 0 >= len - Cap THEN 0 ELSE len - Cap
    BY <1>1, <1>3, MaxPair
  <2>2. QED
    BY <1>1, <1>3, <2>1
<1> HIDE DEF drop
<1>6. drop + 1 \in 1..Len(all) /\ drop \in Nat
  BY <1>3, <1>5
<1>7. SubSeq(all, drop + 1, Len(all)) \in Seq(Entry) /\ Len(SubSeq(all, drop + 1, Len(all))) = len - drop
  BY <1>3, <1>6
<1>8. SubSeq(all, drop + 1, Len(all))[len - drop] = all[len]
  BY <1>3, <1>5, <1>6
<1>9. len - drop \in 1..Cap
  BY <1>1, <1>3, <1>5
<1>10. x.t = n
  BY DEF x
<1>11. QED
  BY <1>3, <1>4, <1>7, <1>8, <1>9, <1>10

----------------------------------------------------------------------------
(* The windows of one detector.                                             *)

WindowsOK(w, from) ==
    \A i \in DOMAIN w :
        /\ w[i] \in Seq(Entry) /\ Len(w[i]) \in 1..Cap
        /\ \E j \in DOMAIN w[i] : w[i][j].t > from - Window

LEMMA KeyType ==
    ASSUME NEW d, NEW e \in Event
    PROVE  KeyOf(d, e) \in Keys
<1>1. CASE d \in Distinct
  <2>1. d # "failed_call_ratio"
    BY <1>1 DEF Distinct
  <2>2. KeyOf(d, e) = e.to
    BY <1>1, <2>1, Zenon DEF KeyOf
  <2>3. QED
    BY <2>2 DEF Event, Keys
<1>2. CASE d = "failed_call_ratio"
  <2>1. d \notin Distinct
    BY <1>2 DEF Distinct
  <2>2. KeyOf(d, e) = IF Failed(e) THEN "failed" ELSE "ok"
    BY <1>2, <2>1, Zenon DEF KeyOf
  <2>3. QED
    BY <2>2 DEF Keys
<1>3. CASE d \notin Distinct /\ d # "failed_call_ratio"
  <2>1. KeyOf(d, e) = ""
    BY <1>3, Zenon DEF KeyOf
  <2>2. QED
    BY <2>1 DEF Keys
<1>4. QED
  BY <1>1, <1>2, <1>3

LEMMA AddedOK ==
    ASSUME now \in Nat, NEW d, NEW e \in Event, NEW w, NEW from \in 0..now, WindowsOK(w, from)
    PROVE  WindowsOK(Added(d, e, w), from)
<1> DEFINE old == Lookup(w, e.ip, <<>>)
           new == AddKeyed(old, now, KeyOf(d, e))
<1>1. old \in Seq(Entry)
  BY DEF Lookup, WindowsOK
<1>2. new \in Seq(Entry) /\ Len(new) \in 1..Cap /\ new[Len(new)].t = now
  <2> HIDE DEF old
  <2>1. KeyOf(d, e) \in Keys
    BY KeyType
  <2>2. QED
    BY <1>1, <2>1, AddFacts
<1>3. Added(d, e, w) = [i \in DOMAIN w \cup {e.ip} |-> IF i = e.ip THEN new ELSE w[i]]
  BY DEF Added, Put
<1> HIDE DEF new
<1>4. ASSUME NEW i \in DOMAIN w \cup {e.ip}
      PROVE  /\ Added(d, e, w)[i] \in Seq(Entry) /\ Len(Added(d, e, w)[i]) \in 1..Cap
             /\ \E j \in DOMAIN Added(d, e, w)[i] : Added(d, e, w)[i][j].t > from - Window
  <2>1. CASE i = e.ip
    <3>1. Added(d, e, w)[i] = new
      BY <1>3, <2>1
    <3>2. Len(new) \in DOMAIN new
      BY <1>2, DetectionAssumption
    <3>3. now > from - Window
      BY DetectionAssumption
    <3>4. QED
      BY <1>2, <3>1, <3>2, <3>3
  <2>2. CASE i # e.ip
    <3>1. Added(d, e, w)[i] = w[i] /\ i \in DOMAIN w
      BY <1>3, <2>2
    <3>2. QED
      BY <3>1, Zenon DEF WindowsOK
  <2>3. QED
    BY <2>1, <2>2
<1>5. DOMAIN Added(d, e, w) = DOMAIN w \cup {e.ip}
  BY <1>3
<1>6. QED
  BY <1>4, <1>5, Zenon DEF WindowsOK

(* After a sweep every source left has an entry younger than Window.        *)
LEMMA PrunedOK ==
    ASSUME now \in Nat, NEW d, NEW w, NEW from, WindowsOK(w, from)
    PROVE  WindowsOK(Pruned(d, w), now)
<1> DEFINE D == {j \in DOMAIN w : LiveEntries(w[j], now) # <<>>}
<1>1. DOMAIN Pruned(d, w) = D
  BY DEF Pruned
<1>2. ASSUME NEW i \in D
      PROVE  /\ Pruned(d, w)[i] \in Seq(Entry) /\ Len(Pruned(d, w)[i]) \in 1..Cap
             /\ \E j \in DOMAIN Pruned(d, w)[i] : Pruned(d, w)[i][j].t > now - Window
  <2> DEFINE s == w[i]
             v == LiveEntries(s, now)
             R == {s[k] : k \in DOMAIN s}
  <2>1. s \in Seq(Entry) /\ Len(s) \in 1..Cap /\ v # <<>>
    BY <1>2 DEF WindowsOK
  <2> HIDE DEF s
  <2>2. s \in Seq(R)
    BY <2>1
  <2>3. v \in Seq({e \in R : Alive(e, now)}) /\ Len(v) <= Len(s)
    <3> HIDE DEF R
    <3>1. QED
      BY <2>2, LiveFacts
  <2>4. v \in Seq({e \in Entry : Alive(e, now)})
    BY <2>1, LiveFacts
  <2> HIDE DEF v
  <2>5. Len(v) \in Nat /\ Len(v) >= 1 /\ 1 \in DOMAIN v
    <3> DEFINE A == {e \in R : Alive(e, now)}
    <3> HIDE DEF A
    <3>1. v \in Seq(A) /\ v # <<>>
      BY <2>1, <2>3 DEF A
    <3>2. QED
      BY <3>1
  <2>6. v[1] \in R /\ Alive(v[1], now)
    <3> DEFINE A == {e \in R : Alive(e, now)}
    <3>1. v \in Seq(A)
      BY <2>3
    <3>2. v[1] \in A
      <4> HIDE DEF A
      <4>1. QED
        BY <2>5, <3>1
    <3>3. QED
      BY <3>2
  <2>7. CASE d = "failed_call_ratio"
    <3>1. Pruned(d, w)[i] = s
      BY <2>7 DEF Pruned, s
    <3>2. PICK k \in DOMAIN s : v[1] = s[k]
      BY <2>6
    <3>3. s[k].t > now - Window
      BY <2>6, <3>2 DEF Alive
    <3>4. QED
      BY <2>1, <3>1, <3>3
  <2>8. CASE d # "failed_call_ratio"
    <3>1. Pruned(d, w)[i] = v
      BY <2>8 DEF Pruned, s, v
    <3>2. v[1].t > now - Window
      BY <2>6 DEF Alive
    <3>3. v \in Seq(Entry)
      <4> DEFINE A == {e \in Entry : Alive(e, now)}
      <4>1. v \in Seq(A) /\ A \subseteq Entry
        BY <2>4
      <4> HIDE DEF A
      <4>2. QED
        BY <4>1
    <3>4. Len(v) \in 1..Cap
      BY <2>1, <2>3, <2>5, DetectionAssumption
    <3>5. QED
      BY <2>5, <3>1, <3>2, <3>3, <3>4
  <2>9. QED
    BY <2>7, <2>8
<1>3. QED
  BY <1>1, <1>2, Zenon DEF WindowsOK

LEMMA ObserveOK ==
    ASSUME IInv, NEW d \in Detectors, NEW e \in Event
    PROVE  WindowsOK(Observe(d, e), IF SweepDue(d) THEN now ELSE sweep[d])
<1>1. now \in Nat /\ sweep[d] \in 0..now /\ now \in 0..now
  BY DEF IInv, TypeOK, PastOnly
<1>2. WindowsOK(win[d], sweep[d])
  BY Zenon DEF IInv, TypeOK, MemoryBounded, WindowsOK
<1>3. CASE ~SweepDue(d)
  <2>1. Observe(d, e) = Added(d, e, win[d])
    BY <1>3, Zenon DEF Observe
  <2>2. WindowsOK(Added(d, e, win[d]), sweep[d])
    BY <1>1, <1>2, AddedOK
  <2>3. QED
    BY <1>3, <2>1, <2>2
<1>4. CASE SweepDue(d) /\ d = "failed_call_ratio"
  <2>1. Observe(d, e) = Added(d, e, Pruned(d, win[d]))
    BY <1>4, Zenon DEF Observe
  <2>2. WindowsOK(Pruned(d, win[d]), now)
    BY <1>1, <1>2, PrunedOK
  <2>3. WindowsOK(Added(d, e, Pruned(d, win[d])), now)
    BY <1>1, <2>2, AddedOK
  <2>4. QED
    BY <1>4, <2>1, <2>3
<1>5. CASE SweepDue(d) /\ d # "failed_call_ratio"
  <2>1. Observe(d, e) = Pruned(d, Added(d, e, win[d]))
    BY <1>5, Zenon DEF Observe
  <2>2. WindowsOK(Added(d, e, win[d]), sweep[d])
    BY <1>1, <1>2, AddedOK
  <2>3. WindowsOK(Pruned(d, Added(d, e, win[d])), now)
    BY <1>1, <2>2, PrunedOK
  <2>4. QED
    BY <1>5, <2>1, <2>3
<1>6. QED
  BY <1>3, <1>4, <1>5

----------------------------------------------------------------------------
(* The actions.                                                             *)

(* A step that neither accepts an event nor forgets one.                    *)
LEMMA Frame ==
    ASSUME IInv, UNCHANGED <<now, seen, win, sweep, accepted>>, TypeOK'
    PROVE  IInv'
BY DEF IInv, PastOnly, Remembered, HasCallID, DedupKey, SameEventOnce, SameEvent, MemoryBounded

LEMMA AcceptedType ==
    ASSUME TypeOK, NEW k \in DOMAIN accepted
    PROVE  accepted[k] \in Accepted /\ accepted[k].t \in Nat
<1>1. accepted[k] \in Accepted
  BY DEF TypeOK
<1>2. QED
  BY <1>1 DEF Accepted

LEMMA StartInv ==
    ASSUME IInv, NEW tr \in Traffic, Start(tr)
    PROVE  IInv'
<1>1. started' \in Nat
  BY DEF IInv, TypeOK, Start
<1>2. streams' \subseteq Stream
  <2>1. \A s \in tr : s \in Seq(Event) \ {<<>>}
    BY DetectionAssumption
  <2>2. started + 1 \in Nat
    BY DEF IInv, TypeOK
  <2>3. \A s \in tr : [tx |-> started + 1, rest |-> s] \in Stream
    BY <2>1, <2>2 DEF Stream
  <2>4. QED
    BY <2>3 DEF IInv, TypeOK, Start
<1>3. TypeOK'
  BY <1>1, <1>2 DEF IInv, TypeOK, Start
<1>4. QED
  BY <1>3, Frame DEF Start

LEMMA IngestInv ==
    ASSUME IInv, NEW s \in streams, Ingest(s)
    PROVE  IInv'
<1>1. s \in Stream /\ streams \subseteq Stream
  BY DEF IInv, TypeOK
<1>2. s.rest \in Seq(Event) /\ s.rest # <<>> /\ s.tx \in Nat
  BY <1>1 DEF Stream
<1>3. Head(s.rest) \in Event
  BY <1>2
<1>4. events' \in Seq(Queued)
  <2>1. [e |-> Head(s.rest), tx |-> s.tx] \in Queued
    BY <1>2, <1>3 DEF Queued
  <2>2. events' = events \/ events' = Append(events, [e |-> Head(s.rest), tx |-> s.tx])
    BY DEF Ingest
  <2>3. QED
    BY <2>1, <2>2 DEF IInv, TypeOK
<1>5. streams' \subseteq Stream
  <2>1. CASE Len(s.rest) = 1
    BY <1>1, <2>1 DEF Ingest
  <2>2. CASE Len(s.rest) # 1
    <3>1. Tail(s.rest) \in Seq(Event) /\ Len(Tail(s.rest)) = Len(s.rest) - 1 /\ Len(s.rest) \in Nat
      BY <1>2
    <3>2. Tail(s.rest) # <<>>
      <4>1. Len(s.rest) # 0
        BY <1>2
      <4>2. Len(Tail(s.rest)) # 0
        BY <2>2, <3>1, <4>1
      <4>3. ASSUME Tail(s.rest) = <<>> PROVE FALSE
        <5>1. Len(<<>>) = 0
          OBVIOUS
        <5>2. QED
          BY <4>2, <4>3, <5>1, Zenon
      <4>4. QED
        BY <4>3, Zenon
    <3>3. [s EXCEPT !.rest = Tail(@)] \in Stream
      BY <1>1, <3>1, <3>2 DEF Stream
    <3>4. QED
      BY <1>1, <2>2, <3>3 DEF Ingest
  <2>3. QED
    BY <2>1, <2>2
<1>6. TypeOK'
  BY <1>4, <1>5 DEF IInv, TypeOK, Ingest
<1>7. QED
  BY <1>6, Frame DEF Ingest

LEMMA TakeThreatInv ==
    ASSUME IInv, TakeThreat
    PROVE  IInv'
<1>1. TypeOK'
  BY DEF IInv, TypeOK, TakeThreat
<1>2. QED
  BY <1>1, Frame DEF TakeThreat

LEMMA DiscardInv ==
    ASSUME IInv, Discard
    PROVE  IInv'
<1>1. events' \in Seq(Queued)
  BY DEF IInv, TypeOK, Discard
<1>2. TypeOK'
  BY <1>1 DEF IInv, TypeOK, Discard
<1>3. QED
  BY <1>2, Frame DEF Discard

LEMMA TickInv ==
    ASSUME IInv, Tick
    PROVE  IInv'
<1>1. now \in Nat /\ now' = now + 1 /\ DedupWindow \in Nat
  BY DetectionAssumption DEF IInv, TypeOK, Tick
<1>2. TypeOK'
  BY <1>1 DEF IInv, TypeOK, Tick
<1>3. \A k \in DOMAIN accepted : accepted[k].t \in Nat
  BY AcceptedType DEF IInv
<1>4. PastOnly'
  <2>1. \A k \in DOMAIN accepted : accepted[k].t <= now + 1
    BY <1>1, <1>3 DEF IInv, PastOnly
  <2>2. \A k \in DOMAIN seen : seen[k] \in 0..(now + 1)
    BY <1>1 DEF IInv, PastOnly
  <2>3. \A d \in Detectors : sweep[d] \in 0..(now + 1)
    BY <1>1 DEF IInv, PastOnly
  <2>4. QED
    BY <1>1, <2>1, <2>2, <2>3 DEF PastOnly, Tick
<1>5. Remembered'
  <2>1. \A j \in DOMAIN accepted : now - accepted[j].t >= DedupWindow => now' - accepted[j].t >= DedupWindow
    BY <1>1, <1>3
  <2>2. accepted' = accepted /\ seen' = seen
    BY DEF Tick
  <2>3. ASSUME NEW j \in DOMAIN accepted, HasCallID(accepted[j])
        PROVE  \/ now' - accepted[j].t >= DedupWindow
               \/ /\ DedupKey(accepted[j]) \in DOMAIN seen
                  /\ seen[DedupKey(accepted[j])] >= accepted[j].t
    BY <2>1, <2>3, Zenon DEF IInv, Remembered
  <2>4. QED
    BY <2>2, <2>3 DEF Remembered, HasCallID, DedupKey
<1>6. SameEventOnce' /\ MemoryBounded'
  BY DEF IInv, SameEventOnce, SameEvent, HasCallID, MemoryBounded, Tick
<1>7. QED
  BY <1>2, <1>4, <1>5, <1>6 DEF IInv

(* The prune ticker forgets only what no longer matters.                    *)
LEMMA DedupPruneInv ==
    ASSUME IInv, DedupPrune
    PROVE  IInv'
<1> DEFINE K == {k \in DOMAIN seen : now - seen[k] < DedupWindow}
<1>1. now \in Nat /\ DedupWindow \in Nat
  BY DetectionAssumption DEF IInv, TypeOK
<1>2. seen' = [x \in K |-> seen[x]] /\ UNCHANGED <<now, win, sweep, accepted>>
  BY DEF DedupPrune, Keep
<1>3. TypeOK' /\ SameEventOnce' /\ MemoryBounded'
  BY DEF IInv, TypeOK, SameEventOnce, SameEvent, HasCallID, MemoryBounded, DedupPrune
<1>4. PastOnly'
  BY <1>2 DEF IInv, PastOnly
<1>5. Remembered'
  <2>1. ASSUME NEW j \in DOMAIN accepted, HasCallID(accepted[j]), now - accepted[j].t < DedupWindow
        PROVE  DedupKey(accepted[j]) \in K /\ seen[DedupKey(accepted[j])] >= accepted[j].t
    <3> DEFINE k == DedupKey(accepted[j])
    <3>1. accepted[j].t \in Nat
      BY AcceptedType DEF IInv
    <3>2. k \in DOMAIN seen /\ seen[k] >= accepted[j].t
      BY <1>1, <2>1, <3>1 DEF IInv, Remembered
    <3> HIDE DEF k
    <3>3. seen[k] \in Nat
      BY <3>2 DEF IInv, PastOnly
    <3>4. now - seen[k] < DedupWindow
      BY <1>1, <2>1, <3>1, <3>2, <3>3
    <3>5. QED
      BY <3>2, <3>4 DEF k
  <2>2. ASSUME NEW j \in DOMAIN accepted, HasCallID(accepted[j])
        PROVE  \/ now - accepted[j].t >= DedupWindow
               \/ /\ DedupKey(accepted[j]) \in DOMAIN seen'
                  /\ seen'[DedupKey(accepted[j])] >= accepted[j].t
    <3>1. accepted[j].t \in Nat
      BY AcceptedType DEF IInv
    <3>2. CASE now - accepted[j].t < DedupWindow
      BY <1>2, <2>1, <2>2, <3>2
    <3>3. QED
      BY <1>1, <3>1, <3>2
  <2>3. QED
    BY <1>2, <2>2 DEF Remembered, HasCallID, DedupKey
<1>6. QED
  BY <1>3, <1>4, <1>5 DEF IInv

(* What Detect does to the table of events, the dedup cache and the windows.*)
LEMMA DetectFacts ==
    ASSUME IInv, Detect
    PROVE  /\ Head(events) \in Queued /\ events' \in Seq(Queued)
           /\ accepted' = Append(accepted, [t |-> now, e |-> Head(events).e, tx |-> Head(events).tx])
           /\ [t |-> now, e |-> Head(events).e, tx |-> Head(events).tx] \in Accepted
           /\ Head(events).e \in Event
<1>1. events \in Seq(Queued) /\ events # <<>> /\ now \in Nat
  BY DEF IInv, TypeOK, Detect
<1>2. Head(events) \in Queued /\ Tail(events) \in Seq(Queued)
  BY <1>1
<1>3. Head(events).e \in Event /\ Head(events).tx \in Nat
  BY <1>2 DEF Queued
<1>4. QED
  BY <1>1, <1>2, <1>3 DEF Detect, Accepted

LEMMA DetectWindows ==
    ASSUME IInv, Detect
    PROVE  /\ DOMAIN win' = Detectors /\ DOMAIN sweep' = Detectors
           /\ \A d \in Detectors : /\ WindowsOK(win'[d], sweep'[d])
                                   /\ sweep'[d] \in 0..now /\ sweep'[d] >= sweep[d]
                                   /\ Matches(d, Head(events).e) => now - sweep'[d] < Window
<1> DEFINE e == Head(events).e
<1>1. e \in Event
  BY DetectFacts
<1>2. /\ win' = [d \in Detectors |-> IF Matches(d, e) THEN Observe(d, e) ELSE win[d]]
      /\ sweep' = [d \in Detectors |-> IF Matches(d, e) /\ SweepDue(d) THEN now ELSE sweep[d]]
  BY DEF Detect
<1>3. now \in Nat /\ Window \in Nat \ {0}
  BY DetectionAssumption DEF IInv, TypeOK
<1> HIDE DEF e
<1>4. ASSUME NEW d \in Detectors
      PROVE  /\ WindowsOK(win'[d], sweep'[d])
             /\ sweep'[d] \in 0..now /\ sweep'[d] >= sweep[d]
             /\ Matches(d, e) => now - sweep'[d] < Window
  <2>1. sweep[d] \in 0..now
    BY DEF IInv, PastOnly
  <2>2. CASE Matches(d, e) /\ SweepDue(d)
    <3>1. win'[d] = Observe(d, e) /\ sweep'[d] = now
      BY <1>2, <2>2
    <3>2. WindowsOK(Observe(d, e), now)
      BY <1>1, <2>2, ObserveOK
    <3>3. QED
      BY <1>3, <2>1, <3>1, <3>2
  <2>3. CASE Matches(d, e) /\ ~SweepDue(d)
    <3>1. win'[d] = Observe(d, e) /\ sweep'[d] = sweep[d]
      BY <1>2, <2>3
    <3>2. WindowsOK(Observe(d, e), sweep[d])
      BY <1>1, <2>3, ObserveOK
    <3>3. now - sweep[d] < Window
      BY <1>3, <2>1, <2>3 DEF SweepDue
    <3>4. QED
      BY <1>3, <2>1, <3>1, <3>2, <3>3
  <2>4. CASE ~Matches(d, e)
    <3>1. win'[d] = win[d] /\ sweep'[d] = sweep[d]
      BY <1>2, <2>4
    <3>2. WindowsOK(win[d], sweep[d])
      BY Zenon DEF IInv, TypeOK, MemoryBounded, WindowsOK
    <3>3. QED
      BY <2>1, <2>4, <3>1, <3>2
  <2>5. QED
    BY <2>2, <2>3, <2>4
<1>5. QED
  BY <1>2, <1>4 DEF e

LEMMA DetectInv ==
    ASSUME IInv, Detect
    PROVE  IInv'
<1> DEFINE x == Head(events)
           a == [t |-> now, e |-> x.e, tx |-> x.tx]
           n == Len(accepted)
<1>1. accepted \in Seq(Accepted) /\ n \in Nat /\ a \in Accepted /\ accepted' = Append(accepted, a)
  BY DetectFacts DEF IInv, TypeOK
<1>2. now \in Nat /\ DedupWindow \in Nat /\ UNCHANGED now
  BY DetectionAssumption DEF IInv, TypeOK, Detect
<1>3. a.t = now /\ a.e = x.e /\ a.tx = x.tx
  OBVIOUS
<1>4. seen' = IF HasCallID(x) THEN Put(seen, DedupKey(x), now) ELSE seen
  BY DEF Detect
<1>5. ~(HasCallID(x) /\ IsDuplicate(x))
  BY DEF Detect
<1>6. (HasCallID(a) <=> HasCallID(x)) /\ DedupKey(a) = DedupKey(x)
  BY <1>3 DEF HasCallID, DedupKey
<1> HIDE DEF a, x
<1>7. /\ accepted' \in Seq(Accepted) /\ DOMAIN accepted = 1..n /\ DOMAIN accepted' = 1..(n + 1)
      /\ accepted'[n + 1] = a /\ \A k \in 1..n : accepted'[k] = accepted[k]
  BY <1>1
<1>8. \A k \in DOMAIN accepted' : k = n + 1 \/ k \in DOMAIN accepted
  BY <1>1, <1>7
<1>9. TypeOK'
  <2>1. streams' = streams /\ started' = started
    BY DEF Detect
  <2>2. \A d \in Detectors : \A i \in DOMAIN win'[d] : win'[d][i] \in Seq(Entry)
    BY DetectWindows, Zenon DEF WindowsOK
  <2>3. QED
    BY <1>2, <1>7, <2>1, <2>2, DetectFacts, DetectWindows DEF IInv, TypeOK
<1>10. \A k \in DOMAIN seen : seen[k] \in 0..now
  BY DEF IInv, PastOnly
<1>11. PastOnly'
  <2>1. \A k \in DOMAIN accepted' : accepted'[k].t <= now
    <3>1. \A k \in DOMAIN accepted : accepted[k].t <= now
      BY DEF IInv, PastOnly
    <3>2. now <= now
      BY <1>2
    <3>3. QED
      BY <1>3, <1>7, <1>8, <3>1, <3>2
  <2>2. \A k \in DOMAIN seen' : seen'[k] \in 0..now
    BY <1>2, <1>4, <1>10 DEF Put
  <2>3. QED
    BY <1>2, <2>1, <2>2, DetectWindows DEF PastOnly
<1>12. Remembered'
  <2>1. ASSUME NEW j \in DOMAIN accepted', HasCallID(accepted'[j])
        PROVE  \/ now - accepted'[j].t >= DedupWindow
               \/ /\ DedupKey(accepted'[j]) \in DOMAIN seen'
                  /\ seen'[DedupKey(accepted'[j])] >= accepted'[j].t
    <3>1. CASE j = n + 1
      <4>1. HasCallID(x) /\ DedupKey(accepted'[j]) = DedupKey(x) /\ accepted'[j].t = now
        BY <1>3, <1>6, <1>7, <2>1, <3>1
      <4>2. DedupKey(x) \in DOMAIN seen' /\ seen'[DedupKey(x)] = now
        BY <1>4, <4>1 DEF Put
      <4>3. QED
        BY <1>2, <4>1, <4>2
    <3>2. CASE j \in DOMAIN accepted
      <4> DEFINE k == DedupKey(accepted[j])
      <4>1. accepted'[j] = accepted[j] /\ accepted[j].t \in Nat /\ accepted[j].t <= now
        BY <1>7, <3>2, AcceptedType DEF IInv, PastOnly
      <4>2. now - accepted[j].t >= DedupWindow \/ (k \in DOMAIN seen /\ seen[k] >= accepted[j].t)
        BY <2>1, <3>2, <4>1 DEF IInv, Remembered
      <4> HIDE DEF k
      <4>3. k \in DOMAIN seen => k \in DOMAIN seen' /\ (seen'[k] = seen[k] \/ seen'[k] = now)
        BY <1>4 DEF Put
      <4>4. QED
        BY <4>1, <4>2, <4>3 DEF k
    <3>3. QED
      BY <1>8, <3>1, <3>2
  <2>2. QED
    BY <1>2, <2>1 DEF Remembered, HasCallID, DedupKey
<1>13. SameEventOnce'
  <2>1. ASSUME NEW j \in DOMAIN accepted', NEW k \in DOMAIN accepted', j < k,
               HasCallID(accepted'[j]), HasCallID(accepted'[k]),
               DedupKey(accepted'[j]) = DedupKey(accepted'[k])
        PROVE  accepted'[k].t - accepted'[j].t >= DedupWindow
    <3>1. j \in DOMAIN accepted /\ accepted'[j] = accepted[j]
      BY <1>1, <1>7, <2>1
    <3>2. CASE k \in DOMAIN accepted
      <4>1. accepted'[k] = accepted[k]
        BY <1>7, <3>2
      <4>2. accepted[j].tx = accepted[k].tx /\ accepted[j].e.method = accepted[k].e.method
            /\ accepted[j].e.code = accepted[k].e.code
        BY <2>1, <3>1, <4>1 DEF DedupKey
      <4>3. QED
        BY <2>1, <3>1, <3>2, <4>1, <4>2 DEF IInv, SameEventOnce, SameEvent
    <3>3. CASE k = n + 1
      <4> DEFINE key == DedupKey(x)
      <4>1. accepted'[k] = a /\ HasCallID(x) /\ DedupKey(accepted[j]) = key /\ HasCallID(accepted[j])
        BY <1>6, <1>7, <2>1, <3>1, <3>3
      <4>2. accepted[j].t \in Nat /\ accepted[j].t <= now
        BY <3>1, AcceptedType DEF IInv, PastOnly
      <4>3. now - accepted[j].t >= DedupWindow \/ (key \in DOMAIN seen /\ seen[key] >= accepted[j].t)
        BY <3>1, <4>1 DEF IInv, Remembered
      <4>4. ~(key \in DOMAIN seen /\ now - seen[key] < DedupWindow)
        BY <1>5, <4>1 DEF IsDuplicate
      <4> HIDE DEF key
      <4>5. now - accepted[j].t >= DedupWindow
        BY <1>2, <1>10, <4>2, <4>3, <4>4
      <4>6. QED
        BY <1>3, <3>1, <4>1, <4>5
    <3>4. QED
      BY <1>8, <3>2, <3>3
  <2>2. QED
    BY <2>1 DEF SameEventOnce, SameEvent, HasCallID, DedupKey
<1>14. MemoryBounded'
  <2>1. ASSUME NEW d \in Detectors, NEW k \in DOMAIN accepted', Matches(d, accepted'[k].e)
        PROVE  accepted'[k].t - sweep'[d] < Window
    <3>1. sweep[d] \in 0..now /\ sweep'[d] \in 0..now /\ sweep'[d] >= sweep[d] /\ Window \in Nat
      BY DetectWindows, DetectionAssumption DEF IInv, PastOnly
    <3>2. CASE k = n + 1
      <4>1. accepted'[k].t = now /\ Matches(d, x.e)
        BY <1>3, <1>7, <2>1, <3>2
      <4>2. QED
        BY <4>1, DetectWindows DEF x
    <3>3. CASE k \in DOMAIN accepted
      <4>1. accepted'[k] = accepted[k] /\ accepted[k].t \in Nat
        BY <1>7, <3>3, AcceptedType DEF IInv
      <4>2. accepted[k].t - sweep[d] < Window
        BY <2>1, <3>3, <4>1 DEF IInv, MemoryBounded
      <4>3. QED
        BY <1>2, <3>1, <4>1, <4>2
    <3>4. QED
      BY <1>8, <3>2, <3>3
  <2>2. \A d \in Detectors : \A i \in DOMAIN win'[d] :
           /\ Len(win'[d][i]) \in 1..Cap
           /\ \E j \in DOMAIN win'[d][i] : win'[d][i][j].t > sweep'[d] - Window
    BY DetectWindows, Zenon DEF WindowsOK
  <2>3. \A d, e : Matches(d, e)' <=> Matches(d, e)
    BY DEF Matches, BruteForce, InviteFlood, InvalidRequest, ServerRejected, OptionsProbe, UserEnum,
           DIDScanner, FailedCallRatio
  <2>4. QED
    BY <2>1, <2>2, Zenon DEF MemoryBounded
<1>15. QED
  BY <1>9, <1>11, <1>12, <1>13, <1>14 DEF IInv

----------------------------------------------------------------------------
LEMMA InitInv == Init => IInv
<1> SUFFICES ASSUME Init PROVE IInv
  OBVIOUS
<1>1. now = 0 /\ DOMAIN accepted = {} /\ DOMAIN seen = {} /\ accepted = <<>> /\ events = <<>>
  BY DEF Init, NoMap
<1>2. \A d \in Detectors : sweep[d] = 0 /\ DOMAIN win[d] = {}
  BY DEF Init, NoMap
<1>3. TypeOK
  BY <1>1, <1>2 DEF Init, TypeOK
<1>4. PastOnly
  BY <1>1, <1>2 DEF PastOnly
<1>5. Remembered /\ SameEventOnce
  BY <1>1 DEF Remembered, SameEventOnce, SameEvent
<1>6. MemoryBounded
  BY <1>1, <1>2 DEF MemoryBounded
<1>7. QED
  BY <1>3, <1>4, <1>5, <1>6 DEF IInv

LEMMA NextInv == IInv /\ [Next]_vars => IInv'
<1> SUFFICES ASSUME IInv, [Next]_vars PROVE IInv'
  OBVIOUS
<1>1. CASE \E tr \in Traffic : Start(tr)
  BY <1>1, StartInv
<1>2. CASE \E s \in streams : Ingest(s)
  BY <1>2, IngestInv
<1>3. CASE Tick
  BY <1>3, TickInv
<1>4. CASE TakeThreat
  BY <1>4, TakeThreatInv
<1>5. CASE DedupPrune
  BY <1>5, DedupPruneInv
<1>6. CASE Discard
  BY <1>6, DiscardInv
<1>7. CASE Detect
  BY <1>7, DetectInv
<1>8. CASE UNCHANGED vars
  <2>1. TypeOK'
    BY <1>8 DEF IInv, TypeOK, vars
  <2>2. QED
    BY <1>8, <2>1, Frame DEF vars
<1>9. QED
  BY <1>1, <1>2, <1>3, <1>4, <1>5, <1>6, <1>7, <1>8 DEF Next

(* The inductive invariant holds throughout: events table, dedup cache and  *)
(* windows agree with one another.                                          *)
THEOREM Inductive == Spec => []IInv
  BY InitInv, NextInv, PTL DEF Spec

(* IsDuplicateEvent of ingest/dedup.go, called by runDetectionPipeline:     *)
(* whatever the retransmissions and whenever the prune ticker fires, an     *)
(* event seen on the wire is accepted at most once per DedupWindow.         *)
THEOREM CountedOnce == Spec => []SameEventOnce
<1>1. IInv => SameEventOnce
  BY DEF IInv
<1>2. QED
  BY <1>1, Inductive, PTL

(* AddKeyed and pruneLocked of detect/detector.go: whatever the traffic, a  *)
(* window never holds more than Cap entries, every detector in use sweeps   *)
(* at least once per Window, and no source without an entry younger than    *)
(* the last sweep minus Window keeps a window.                              *)
THEOREM MemoryHolds == Spec => []MemoryBounded
<1>1. IInv => MemoryBounded
  BY DEF IInv
<1>2. QED
  BY <1>1, Inductive, PTL
=============================================================================
