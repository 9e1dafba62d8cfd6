--------------------------- MODULE PcapPairingProofs ---------------------------
(***************************************************************************)
(* Theorems about PcapPairing, for every set of hosts and Call-IDs, every  *)
(* size of the map and of its eviction batch, and any length of capture.   *)
(***************************************************************************)
EXTENDS PcapPairing, FiniteSetTheorems, TLAPS

Finite == IsFiniteSet(requests) /\ IsFiniteSet(DOMAIN inflight)

\* A record is under the key of its own call and sender, who is not this host.
KeysMatch ==
    \A k \in DOMAIN inflight :
        k = <<inflight[k].call, inflight[k].from>> /\ inflight[k].from # Server

\* A time names one request.
TimesDiffer ==
    \A p, q \in requests : p.seen <= now /\ (p.seen = q.seen => p = q)

\* A record is the latest request of its call and sender.
LatestKept ==
    \A k \in DOMAIN inflight : \A p \in requests :
        SameKey(p, inflight[k]) => p.seen <= inflight[k].seen

IInv ==
    /\ TypeOK /\ Finite /\ KeysMatch /\ TimesDiffer /\ LatestKept
    /\ OutcomeOfOwnRequest /\ JudgedByLatestRequest /\ RecentRequestsKnown

-----------------------------------------------------------------------------
(* The map. *)

LEMMA Least ==
    ASSUME NEW T \in SUBSET Nat, T # {}
    PROVE  \E x \in T : \A y \in T : x <= y
<1> DEFINE R == OpToRel(<, Nat)
<1>1. IsWellFoundedOn(R, Nat)
  BY NatLessThanWellFounded
<1>2. PICK x \in T : \A y \in T : ~(<<y, x>> \in R)
  <2> HIDE DEF R
  <2>1. QED
    BY <1>1, WFMin
<1>3. \A y \in T : ~(y < x)
  BY <1>2 DEF OpToRel
<1>4. QED
  BY <1>3

Older(map, k) == {j \in DOMAIN map : map[j].seen < map[k].seen}
Newer(map, k) == {j \in DOMAIN map : map[j].seen > map[k].seen}

LEMMA EvictIs ==
    ASSUME NEW map, NEW n
    PROVE  /\ DOMAIN EvictOldest(map, n) = {k \in DOMAIN map : Cardinality(Older(map, k)) >= n}
           /\ \A k \in DOMAIN EvictOldest(map, n) : EvictOldest(map, n)[k] = map[k]
BY DEF EvictOldest, Older

\* The oldest record is among those an overflow evicts.
LEMMA EvictsOne ==
    ASSUME NEW map, DOMAIN map # {}, \A k \in DOMAIN map : map[k].seen \in Nat, NEW n \in Nat \ {0}
    PROVE  \E k \in DOMAIN map : DOMAIN EvictOldest(map, n) \subseteq DOMAIN map \ {k}
<1> DEFINE T == {map[k].seen : k \in DOMAIN map}
<1>1. T \in SUBSET Nat /\ T # {}
  OBVIOUS
<1>2. PICK x \in T : \A y \in T : x <= y
  <2> HIDE DEF T
  <2>1. QED
    BY <1>1, Least
<1>3. PICK k \in DOMAIN map : map[k].seen = x
  OBVIOUS
<1>4. Older(map, k) = {}
  <2>1. \A j \in DOMAIN map : map[k].seen <= map[j].seen
    BY <1>2, <1>3
  <2>2. QED
    BY <2>1 DEF Older
<1>5. ~(Cardinality(Older(map, k)) >= n)
  BY <1>4, FS_EmptySet
<1>6. k \notin DOMAIN EvictOldest(map, n) /\ DOMAIN EvictOldest(map, n) \subseteq DOMAIN map
  <2> HIDE DEF T
  <2>1. QED
    BY <1>5, EvictIs
<1>7. QED
  BY <1>6

\* A record survives an eviction when enough others are older.
LEMMA EvictKeeps ==
    ASSUME NEW map, IsFiniteSet(DOMAIN map), NEW k \in DOMAIN map, NEW n \in Nat,
           \A j \in DOMAIN map : map[j].seen \in Nat,
           \A j \in DOMAIN map : map[j].seen = map[k].seen => j = k,
           Cardinality(Newer(map, k)) + 1 + n <= Cardinality(DOMAIN map)
    PROVE  k \in DOMAIN EvictOldest(map, n)
<1>1. DOMAIN map = (Older(map, k) \cup Newer(map, k)) \cup {k}
  BY DEF Older, Newer
<1>2. Older(map, k) \cap Newer(map, k) = {} /\ k \notin Older(map, k) \cup Newer(map, k)
  BY DEF Older, Newer
<1>3. IsFiniteSet(Older(map, k)) /\ IsFiniteSet(Newer(map, k))
  BY FS_Subset DEF Older, Newer
<1>4. /\ IsFiniteSet(Older(map, k) \cup Newer(map, k))
      /\ Cardinality(Older(map, k) \cup Newer(map, k)) =
            Cardinality(Older(map, k)) + Cardinality(Newer(map, k)) - Cardinality(Older(map, k) \cap Newer(map, k))
  BY <1>3, FS_Union
<1>5. Cardinality(Older(map, k) \cap Newer(map, k)) = 0
  BY <1>2, FS_EmptySet
<1>6. Cardinality(DOMAIN map) = Cardinality(Older(map, k) \cup Newer(map, k)) + 1
  BY <1>1, <1>2, <1>4, FS_AddElement
<1>7. Cardinality(Older(map, k)) \in Nat /\ Cardinality(Newer(map, k)) \in Nat
  BY <1>3, FS_CardinalityType
<1>8. Cardinality(Older(map, k)) >= n
  BY <1>4, <1>5, <1>6, <1>7
<1>9. QED
  BY <1>8, EvictIs

Key(q) == <<q.call, q.from>>
Room(map) == IF Cardinality(DOMAIN map) >= MaxEntries THEN EvictOldest(map, Batch) ELSE map

LEMMA StashIs ==
    ASSUME NEW map, NEW q
    PROVE  /\ DOMAIN Stash(map, q) = DOMAIN Room(map) \cup {Key(q)}
           /\ Stash(map, q)[Key(q)] = q
           /\ \A k \in DOMAIN Stash(map, q) : k # Key(q) => Stash(map, q)[k] = Room(map)[k]
BY DEF Stash, Room, InflightKey, Key

\* A stored request leaves the map within its limit, and the other records as they were.
LEMMA StashFits ==
    ASSUME NEW map, NEW q, IsFiniteSet(DOMAIN map), Cardinality(DOMAIN map) <= MaxEntries,
           \A k \in DOMAIN map : map[k].seen \in Nat
    PROVE  /\ IsFiniteSet(DOMAIN Stash(map, q))
           /\ Cardinality(DOMAIN Stash(map, q)) <= MaxEntries
           /\ Key(q) \in DOMAIN Stash(map, q)
           /\ Stash(map, q)[Key(q)] = q
           /\ \A k \in DOMAIN Stash(map, q) : k # Key(q) => k \in DOMAIN map /\ Stash(map, q)[k] = map[k]
<1>1. MaxEntries \in Nat \ {0} /\ Batch \in Nat \ {0} /\ Cardinality(DOMAIN map) \in Nat
  BY PairingAssumption, FS_CardinalityType
<1>2. DOMAIN Room(map) \subseteq DOMAIN map /\ (\A k \in DOMAIN Room(map) : Room(map)[k] = map[k])
  BY EvictIs DEF Room
<1>3. IsFiniteSet(DOMAIN Room(map)) /\ Cardinality(DOMAIN Room(map)) \in Nat
  BY <1>2, FS_Subset, FS_CardinalityType
<1>4. Cardinality(DOMAIN Room(map)) < MaxEntries
  <2>1. CASE Cardinality(DOMAIN map) < MaxEntries
    BY <1>1, <2>1 DEF Room
  <2>2. CASE Cardinality(DOMAIN map) >= MaxEntries
    <3>1. DOMAIN map # {}
      BY <1>1, <2>2, FS_EmptySet
    <3>2. PICK k \in DOMAIN map : DOMAIN EvictOldest(map, Batch) \subseteq DOMAIN map \ {k}
      BY <1>1, <3>1, EvictsOne
    <3>3. IsFiniteSet(DOMAIN map \ {k}) /\ Cardinality(DOMAIN map \ {k}) = Cardinality(DOMAIN map) - 1
      BY <3>2, FS_RemoveElement
    <3>4. Cardinality(DOMAIN EvictOldest(map, Batch)) <= Cardinality(DOMAIN map \ {k})
      BY <3>2, <3>3, FS_Subset
    <3>5. Room(map) = EvictOldest(map, Batch)
      BY <2>2 DEF Room
    <3>6. QED
      BY <1>1, <1>3, <3>3, <3>4, <3>5
  <2>3. QED
    BY <1>1, <2>1, <2>2
<1>5. /\ IsFiniteSet(DOMAIN Room(map) \cup {Key(q)})
      /\ Cardinality(DOMAIN Room(map) \cup {Key(q)}) <= Cardinality(DOMAIN Room(map)) + 1
  <2>1. /\ IsFiniteSet(DOMAIN Room(map) \cup {Key(q)})
        /\ Cardinality(DOMAIN Room(map) \cup {Key(q)}) =
              IF Key(q) \in DOMAIN Room(map) THEN Cardinality(DOMAIN Room(map)) ELSE Cardinality(DOMAIN Room(map)) + 1
    BY <1>3, FS_AddElement
  <2>2. QED
    BY <1>3, <2>1
<1>6. Cardinality(DOMAIN Room(map) \cup {Key(q)}) <= MaxEntries
  <2>1. Cardinality(DOMAIN Room(map) \cup {Key(q)}) \in Nat
    BY <1>5, FS_CardinalityType
  <2>2. QED
    BY <1>1, <1>3, <1>4, <1>5, <2>1
<1>7. QED
  <2>1. /\ DOMAIN Stash(map, q) = DOMAIN Room(map) \cup {Key(q)}
        /\ Stash(map, q)[Key(q)] = q
        /\ \A j \in DOMAIN Stash(map, q) : j # Key(q) => Stash(map, q)[j] = Room(map)[j]
    BY StashIs
  <2>2. IsFiniteSet(DOMAIN Stash(map, q)) /\ Cardinality(DOMAIN Stash(map, q)) <= MaxEntries
    BY <1>5, <1>6, <2>1
  <2>3. QED
    BY <1>2, <2>1, <2>2

LEMMA StashKeeps ==
    ASSUME NEW map, NEW q, IsFiniteSet(DOMAIN map), NEW k \in DOMAIN map, k # Key(q),
           \A j \in DOMAIN map : map[j].seen \in Nat,
           \A j \in DOMAIN map : map[j].seen = map[k].seen => j = k,
           Cardinality(Newer(map, k)) + 1 + Batch <= MaxEntries
    PROVE  k \in DOMAIN Stash(map, q) /\ Stash(map, q)[k] = map[k]
<1>1. MaxEntries \in Nat /\ Batch \in Nat /\ Cardinality(DOMAIN map) \in Nat
  BY PairingAssumption, FS_CardinalityType
<1>2. Newer(map, k) \in SUBSET DOMAIN map
  BY DEF Newer
<1>3. Cardinality(Newer(map, k)) \in Nat
  BY <1>2, FS_Subset, FS_CardinalityType
<1>4. k \in DOMAIN Room(map) /\ Room(map)[k] = map[k]
  <2>1. CASE Cardinality(DOMAIN map) >= MaxEntries
    <3>1. Cardinality(Newer(map, k)) + 1 + Batch <= Cardinality(DOMAIN map)
      BY <1>1, <1>3, <2>1
    <3>2. k \in DOMAIN EvictOldest(map, Batch)
      BY <1>1, <3>1, EvictKeeps
    <3>3. QED
      BY <2>1, <3>2, EvictIs DEF Room
  <2>2. CASE ~(Cardinality(DOMAIN map) >= MaxEntries)
    BY <2>2 DEF Room
  <2>3. QED
    BY <2>1, <2>2
<1>5. QED
  <2>1. /\ DOMAIN Stash(map, q) = DOMAIN Room(map) \cup {Key(q)}
        /\ Stash(map, q)[Key(q)] = q
        /\ \A j \in DOMAIN Stash(map, q) : j # Key(q) => Stash(map, q)[j] = Room(map)[j]
    BY StashIs
  <2>2. QED
    BY <1>4, <2>1

-----------------------------------------------------------------------------
(* The state. *)

LEMMA RecordTypes ==
    ASSUME TypeOK
    PROVE  /\ \A p \in requests : /\ p \in Requests /\ p.seen \in Nat /\ p.seen <= MaxTime
                                  /\ p.call \in Calls \cup {NoCall} /\ p.from \in Hosts
           /\ \A k \in DOMAIN inflight : inflight[k] \in requests /\ inflight[k].seen \in Nat
           /\ now \in Nat
<1>1. now \in Nat
  BY PairingAssumption DEF TypeOK
<1>2. \A p \in requests : p \in Requests
  BY DEF TypeOK
<1>3. \A p \in requests : /\ p.seen \in Nat /\ p.seen <= MaxTime
                          /\ p.call \in Calls \cup {NoCall} /\ p.from \in Hosts
  BY <1>2, PairingAssumption DEF Requests
<1>4. QED
  BY <1>1, <1>2, <1>3 DEF TypeOK

\* The request a packet brings.
Packet(from, call, hasAuth) == [call |-> call, from |-> from, hasAuth |-> hasAuth, seen |-> now + 1]

LEMMA PacketIs ==
    ASSUME TypeOK, now < MaxTime, NEW from \in Hosts, NEW call \in Calls \cup {NoCall}, NEW hasAuth \in BOOLEAN
    PROVE  LET q == Packet(from, call, hasAuth)
           IN  /\ q \in Requests /\ q.call = call /\ q.from = from /\ q.hasAuth = hasAuth /\ q.seen = now + 1
               /\ Key(q) = <<call, from>>
BY PairingAssumption DEF Packet, Requests, TypeOK, Key

Stored(from, call, q) ==
    IF IsLocal(from) \/ call = NoCall THEN inflight' = inflight ELSE inflight' = Stash(inflight, q)

LEMMA RequestParts ==
    ASSUME NEW from, NEW call, NEW hasAuth, HandleRequest(from, call, hasAuth)
    PROVE  /\ PacketTime
           /\ requests' = requests \cup {Packet(from, call, hasAuth)}
           /\ Stored(from, call, Packet(from, call, hasAuth))
           /\ (IsLocal(from) /\ Ignore) \/ (~IsLocal(from) /\ Send([source |-> from, code |-> 0]))
BY DEF HandleRequest, Packet, Stored

LEMMA QueueFits ==
    ASSUME TypeOK, Ignore \/ (\E e : Send(e))
    PROVE  queued' \in 0..ChanCap
BY PairingAssumption DEF TypeOK, Ignore, Send

Memory == TypeOK /\ Finite /\ KeysMatch /\ TimesDiffer /\ LatestKept

LEMMA RequestMemory ==
    ASSUME Memory, NEW from \in Hosts, NEW call \in Calls \cup {NoCall}, NEW hasAuth \in BOOLEAN,
           HandleRequest(from, call, hasAuth)
    PROVE  Memory'
<1> DEFINE q == Packet(from, call, hasAuth)
<1>1. /\ now < MaxTime /\ now' = now + 1 /\ requests' = requests \cup {q} /\ Stored(from, call, q)
      /\ queued' \in 0..ChanCap
  <2>1. Ignore \/ (\E e : Send(e))
    BY RequestParts
  <2>2. QED
    BY <2>1, RequestParts, QueueFits DEF PacketTime, Memory
<1>2. /\ q \in Requests /\ q.call = call /\ q.from = from /\ q.hasAuth = hasAuth /\ q.seen = now + 1
      /\ Key(q) = <<call, from>>
  BY <1>1, PacketIs DEF Memory
<1> HIDE DEF q
<1>3. /\ \A p \in requests : p \in Requests /\ p.seen \in Nat
      /\ \A k \in DOMAIN inflight : inflight[k] \in requests /\ inflight[k].seen \in Nat
      /\ now \in Nat
  BY RecordTypes DEF Memory
<1>4. IsFiniteSet(requests')
  BY <1>1, FS_AddElement DEF Memory, Finite
<1>5. TimesDiffer'
  BY <1>1, <1>2, <1>3 DEF TimesDiffer, Memory
<1>6. /\ IsFiniteSet(DOMAIN inflight') /\ Cardinality(DOMAIN inflight') <= MaxEntries
      /\ DOMAIN inflight' \subseteq Calls \X Hosts
      /\ \A k \in DOMAIN inflight' : inflight'[k] \in requests'
      /\ KeysMatch' /\ LatestKept'
  <2>1. CASE inflight' = inflight /\ (IsLocal(from) \/ call = NoCall)
    <3>1. \A k \in DOMAIN inflight : ~SameKey(q, inflight[k])
      <4>1. \A k \in DOMAIN inflight : inflight[k].from # Server /\ inflight[k].call # NoCall
        BY PairingAssumption DEF Memory, TypeOK, KeysMatch
      <4>2. QED
        BY <1>2, <2>1, <4>1 DEF SameKey, IsLocal
    <3>2. LatestKept'
      BY <1>1, <2>1, <3>1 DEF Memory, LatestKept, SameKey
    <3>3. QED
      BY <1>1, <2>1, <3>2 DEF Memory, TypeOK, Finite, KeysMatch
  <2>2. CASE call # NoCall /\ ~IsLocal(from) /\ inflight' = Stash(inflight, q)
    <3>1. /\ IsFiniteSet(DOMAIN inflight') /\ Cardinality(DOMAIN inflight') <= MaxEntries
          /\ inflight'[Key(q)] = q
          /\ \A k \in DOMAIN inflight' : k # Key(q) => k \in DOMAIN inflight /\ inflight'[k] = inflight[k]
      BY <1>3, <2>2, StashFits DEF Memory, TypeOK, Finite
    <3>2. Key(q) \in Calls \X Hosts /\ Key(q) = <<q.call, q.from>> /\ q.from # Server
      BY <1>2, <2>2 DEF IsLocal
    <3>3. DOMAIN inflight' \subseteq Calls \X Hosts
      BY <3>1, <3>2 DEF Memory, TypeOK
    <3>4. \A k \in DOMAIN inflight' : inflight'[k] \in requests'
      BY <1>1, <3>1 DEF Memory, TypeOK
    <3>5. KeysMatch'
      BY <3>1, <3>2 DEF Memory, KeysMatch
    <3>6. LatestKept'
      <4>1. SUFFICES ASSUME NEW k \in DOMAIN inflight', NEW p \in requests', SameKey(p, inflight'[k])
                     PROVE  p.seen <= inflight'[k].seen
        BY DEF LatestKept, SameKey
      <4>2. CASE k = Key(q)
        BY <1>1, <1>2, <1>3, <3>1, <4>2 DEF Memory, TimesDiffer
      <4>3. CASE k # Key(q)
        <5>1. k \in DOMAIN inflight /\ inflight'[k] = inflight[k] /\ k = <<inflight[k].call, inflight[k].from>>
          BY <3>1, <4>3 DEF Memory, KeysMatch
        <5>2. p # q
          BY <3>2, <4>1, <4>3, <5>1 DEF SameKey
        <5>3. p \in requests
          BY <1>1, <5>2
        <5>4. QED
          BY <4>1, <5>1, <5>3 DEF Memory, LatestKept
      <4>4. QED
        BY <4>2, <4>3
    <3>7. QED
      BY <3>1, <3>3, <3>4, <3>5, <3>6
  <2>3. QED
    BY <1>1, <2>1, <2>2 DEF Stored
<1>7. now' \in 0..MaxTime /\ requests' \subseteq Requests
  BY <1>1, <1>2, <1>3, PairingAssumption
<1>8. QED
  BY <1>1, <1>4, <1>5, <1>6, <1>7 DEF Memory, TypeOK, Finite

\* Every other step stores nothing.
LEMMA OtherMemory ==
    ASSUME Memory, requests' = requests, now' \in {now, now + 1}, now' \in 0..MaxTime, queued' \in 0..ChanCap,
           DOMAIN inflight' \subseteq DOMAIN inflight, \A k \in DOMAIN inflight' : inflight'[k] = inflight[k]
    PROVE  Memory'
<1>1. IsFiniteSet(DOMAIN inflight') /\ Cardinality(DOMAIN inflight') <= MaxEntries
  <2>1. /\ IsFiniteSet(DOMAIN inflight') /\ Cardinality(DOMAIN inflight') <= Cardinality(DOMAIN inflight)
    BY FS_Subset DEF Memory, Finite
  <2>2. Cardinality(DOMAIN inflight') \in Nat /\ Cardinality(DOMAIN inflight) \in Nat
    BY <2>1, FS_CardinalityType DEF Memory, Finite
  <2>3. QED
    BY <2>1, <2>2, PairingAssumption DEF Memory, TypeOK
<1>2. TimesDiffer'
  BY RecordTypes DEF Memory, TimesDiffer
<1>3. KeysMatch' /\ LatestKept'
  BY DEF Memory, KeysMatch, LatestKept, SameKey
<1>4. QED
  BY <1>1, <1>2, <1>3 DEF Memory, TypeOK, Finite

LEMMA ResponseParts ==
    ASSUME NEW q, NEW a, HandleResponse(q, a)
    PROVE  /\ PacketTime /\ UNCHANGED <<inflight, requests>>
           /\ Ignore \/ (\E e : Send(e))
BY DEF HandleResponse

LEMMA NextMemory == Memory /\ [Next]_vars => Memory'
<1> SUFFICES ASSUME Memory, [Next]_vars PROVE Memory'
  OBVIOUS
<1>1. now \in 0..MaxTime /\ queued \in 0..ChanCap /\ TypeOK
  BY DEF Memory, TypeOK
<1>2. ASSUME NEW from \in Hosts, NEW call \in Calls \cup {NoCall}, NEW hasAuth \in BOOLEAN,
             HandleRequest(from, call, hasAuth)
      PROVE  Memory'
  BY <1>2, RequestMemory
<1>3. ASSUME NEW q \in requests, NEW a \in Answers, HandleResponse(q, a)
      PROVE  Memory'
  <2>1. PacketTime /\ UNCHANGED <<inflight, requests>> /\ queued' \in 0..ChanCap
    BY <1>1, <1>3, ResponseParts, QueueFits
  <2>2. QED
    BY <1>1, <2>1, OtherMemory, PairingAssumption DEF PacketTime
<1>4. CASE PruneInflight
  BY <1>1, <1>4, OtherMemory DEF PruneInflight
<1>5. CASE SkipPacket
  BY <1>1, <1>5, OtherMemory, PairingAssumption DEF SkipPacket, PacketTime
<1>6. CASE TakeEvent
  BY <1>1, <1>6, OtherMemory, PairingAssumption DEF TakeEvent
<1>7. CASE UNCHANGED vars
  BY <1>1, <1>7, OtherMemory DEF vars
<1>8. QED
  BY <1>2, <1>3, <1>4, <1>5, <1>6, <1>7 DEF Next

-----------------------------------------------------------------------------
(* Events. *)

Reports == OutcomeOfOwnRequest /\ JudgedByLatestRequest

LEMMA NothingSaid ==
    ASSUME NEW r, r = Nothing
    PROVE  "answers" \notin DOMAIN r
BY DEF Nothing

\* Nothing is reported, or what was reported stays.
LEMMA QuietReports ==
    ASSUME Reports, report' = Nothing \/ UNCHANGED <<report, requests>>
    PROVE  Reports'
<1>1. CASE report' = Nothing
  <2>1. ~IsResponse'
    BY <1>1, NothingSaid DEF IsResponse
  <2>2. QED
    BY <1>1, <2>1 DEF Reports, OutcomeOfOwnRequest, JudgedByLatestRequest
<1>2. CASE UNCHANGED <<report, requests>>
  BY <1>2 DEF Reports, OutcomeOfOwnRequest, JudgedByLatestRequest, IsResponse, SameKey
<1>3. QED
  BY <1>1, <1>2

LEMMA RequestReports ==
    ASSUME Reports, NEW from, NEW call, NEW hasAuth, HandleRequest(from, call, hasAuth)
    PROVE  Reports'
<1>2. CASE report' = Nothing
  BY <1>2, QuietReports
<1>3. CASE report' = [source |-> from, code |-> 0] /\ from # Server
  <2>1. ~IsResponse' /\ report'.source # Server
    BY <1>3 DEF IsResponse
  <2>2. QED
    BY <2>1 DEF Reports, OutcomeOfOwnRequest, JudgedByLatestRequest
<1>4. QED
  BY <1>2, <1>3, RequestParts DEF Ignore, Send, IsLocal

LEMMA ResponseReports ==
    ASSUME Memory, Reports, NEW q \in requests, NEW a \in Answers, HandleResponse(q, a)
    PROVE  Reports'
<1> DEFINE found == q.call # NoCall /\ Key(q) \in DOMAIN inflight
           rec == IF found THEN inflight[Key(q)] ELSE q
           event == [source |-> q.from, code |-> a.code, rejected |-> IsRejected(a),
                     answers |-> q, enriched |-> found, about |-> rec]
<1>1. UNCHANGED <<inflight, requests>>
  BY DEF HandleResponse
<1>2. \/ report' = Nothing
      \/ q.from # Server /\ ~IsChallenge(a.code, found, rec) /\ report' = event
  BY DEF HandleResponse, Ignore, Send, IsLocal, InflightKey, Key
<1>3. found => /\ rec.call = q.call /\ rec.from = q.from
               /\ \A p \in requests : SameKey(p, q) => p.seen <= rec.seen
  <2>1. ASSUME found
        PROVE  /\ inflight[Key(q)] \in requests
               /\ Key(q) = <<inflight[Key(q)].call, inflight[Key(q)].from>>
               /\ \A p \in requests : SameKey(p, inflight[Key(q)]) => p.seen <= inflight[Key(q)].seen
    BY <2>1 DEF Memory, TypeOK, KeysMatch, LatestKept
  <2>2. Key(q) = <<q.call, q.from>>
    BY DEF Key
  <2>3. QED
    BY <2>1, <2>2 DEF SameKey
<1>4. CASE report' = Nothing
  BY <1>4, QuietReports
<1>5. CASE q.from # Server /\ ~IsChallenge(a.code, found, rec) /\ report' = event
  <2>1. /\ report'.source = q.from /\ report'.code = a.code /\ report'.answers = q /\ report'.about = rec
        /\ report'.enriched = found
    BY <1>5
  <2>2. rec.from = q.from /\ rec.call = q.call
    BY <1>3
  <2>3. a.code \in {401, 407} => found /\ rec.hasAuth
    BY <1>5 DEF IsChallenge
  <2> HIDE DEF found, rec, event
  <2>4. OutcomeOfOwnRequest'
    BY <1>5, <2>1, <2>2 DEF OutcomeOfOwnRequest
  <2>5. JudgedByLatestRequest'
    BY <1>1, <1>3, <2>1, <2>3 DEF JudgedByLatestRequest, SameKey
  <2>6. QED
    BY <2>4, <2>5 DEF Reports
<1>6. QED
  BY <1>2, <1>4, <1>5

LEMMA NextReports == Memory /\ Reports /\ [Next]_vars => Reports'
<1> SUFFICES ASSUME Memory, Reports, [Next]_vars PROVE Reports'
  OBVIOUS
<1>1. CASE PruneInflight \/ SkipPacket \/ TakeEvent \/ UNCHANGED vars
  BY <1>1, QuietReports DEF PruneInflight, SkipPacket, TakeEvent, vars
<1>2. QED
  BY <1>1, RequestReports, ResponseReports DEF Next

-----------------------------------------------------------------------------
(* Recent requests. *)

LaterKeys(q) == {<<p.call, p.from>> : p \in Later(q)}

LEMMA LaterFinite ==
    ASSUME Finite, NEW q
    PROVE  IsFiniteSet(LaterKeys(q)) /\ Cardinality(LaterKeys(q)) \in Nat
<1> DEFINE f == [p \in Later(q) |-> <<p.call, p.from>>]
<1>1. f \in Surjection(Later(q), LaterKeys(q))
  BY DEF Surjection, LaterKeys
<1>2. IsFiniteSet(Later(q))
  BY FS_Subset DEF Finite, Later, Tracked
<1> HIDE DEF f
<1>3. QED
  BY <1>1, <1>2, FS_Surjection, FS_CardinalityType

Recent(q) ==
    /\ now - q.seen <= KeepFor
    /\ \A p \in Later(q) : ~SameKey(p, q)
    /\ Cardinality(LaterKeys(q)) < MaxEntries - Batch

LEMMA RecentIs == RecentRequestsKnown <=> \A q \in Tracked : Recent(q) => \E k \in DOMAIN inflight : inflight[k] = q
BY DEF RecentRequestsKnown, Recent, LaterKeys

LEMMA RecentNext == RecentRequestsKnown' <=> \A q \in Tracked' : Recent(q)' => \E k \in DOMAIN inflight' : inflight'[k] = q
BY DEF RecentRequestsKnown, Recent, LaterKeys

\* A request that is recent after a step was so before.
LEMMA WasRecent ==
    ASSUME Memory, Memory', requests \subseteq requests', now' \in {now, now + 1}, NEW q \in Tracked, Recent(q)'
    PROVE  /\ Recent(q)
           /\ Later(q) \subseteq Later(q)' /\ LaterKeys(q) \subseteq LaterKeys(q)'
           /\ Cardinality(LaterKeys(q)) <= Cardinality(LaterKeys(q)')
<1>1. Later(q) \subseteq Later(q)'
  BY DEF Later, Tracked
<1>2. LaterKeys(q) \subseteq LaterKeys(q)'
  BY <1>1 DEF LaterKeys
<1>3. IsFiniteSet(LaterKeys(q)) /\ Cardinality(LaterKeys(q)) \in Nat
  BY LaterFinite DEF Memory
<1>4. IsFiniteSet(LaterKeys(q)') /\ Cardinality(LaterKeys(q)') \in Nat
  <2> DEFINE f == [p \in Later(q)' |-> <<p.call, p.from>>]
  <2>1. f \in Surjection(Later(q)', LaterKeys(q)')
    BY DEF Surjection, LaterKeys
  <2>2. IsFiniteSet(Later(q)')
    BY FS_Subset DEF Memory, Finite, Later, Tracked
  <2> HIDE DEF f
  <2>3. QED
    BY <2>1, <2>2, FS_Surjection, FS_CardinalityType
<1>5. Cardinality(LaterKeys(q)) <= Cardinality(LaterKeys(q)')
  BY <1>2, <1>4, FS_Subset
<1>6. now \in Nat /\ q.seen \in Nat
  BY RecordTypes DEF Memory, Tracked
<1>7. QED
  <2>1. now - q.seen <= KeepFor
    BY <1>6, PairingAssumption DEF Recent
  <2>2. \A p \in Later(q) : ~SameKey(p, q)
    BY <1>1 DEF Recent, SameKey
  <2>3. Cardinality(LaterKeys(q)) < MaxEntries - Batch
    BY <1>3, <1>4, <1>5, PairingAssumption DEF Recent
  <2>4. QED
    BY <1>1, <1>2, <1>5, <2>1, <2>2, <2>3 DEF Recent

\* Steps that store nothing and forget nothing young.
LEMMA OtherRecent ==
    ASSUME Memory, Memory', RecentRequestsKnown, requests' = requests, now' \in {now, now + 1},
           \A k \in DOMAIN inflight : inflight[k].seen >= now - KeepFor => k \in DOMAIN inflight' /\ inflight'[k] = inflight[k]
    PROVE  RecentRequestsKnown'
<1> SUFFICES ASSUME NEW q \in Tracked', Recent(q)'
             PROVE  \E k \in DOMAIN inflight' : inflight'[k] = q
  BY RecentNext
<1>1. q \in Tracked
  BY DEF Tracked
<1>2. Recent(q)
  BY <1>1, WasRecent
<1>3. PICK k \in DOMAIN inflight : inflight[k] = q
  BY <1>1, <1>2, RecentIs
<1>4. q.seen >= now - KeepFor
  BY <1>1, <1>2, RecordTypes, PairingAssumption DEF Recent, Memory, Tracked
<1>5. QED
  BY <1>3, <1>4

LEMMA RequestRecent ==
    ASSUME Memory, Memory', RecentRequestsKnown,
           NEW from \in Hosts, NEW call \in Calls \cup {NoCall}, NEW hasAuth \in BOOLEAN,
           HandleRequest(from, call, hasAuth)
    PROVE  RecentRequestsKnown'
<1> DEFINE n == Packet(from, call, hasAuth)
<1>1. now < MaxTime /\ now' = now + 1 /\ requests' = requests \cup {n} /\ Stored(from, call, n)
  BY RequestParts DEF PacketTime
<1>2. n.call = call /\ n.from = from /\ n.seen = now + 1 /\ Key(n) = <<call, from>>
  BY <1>1, PacketIs DEF Memory
<1> HIDE DEF n
<1>3. /\ \A p \in requests : p.seen \in Nat /\ p.seen <= now
      /\ \A k \in DOMAIN inflight : inflight[k] \in requests /\ inflight[k].seen \in Nat
      /\ now \in Nat
  BY RecordTypes DEF Memory, TimesDiffer
<1>4. IsFiniteSet(DOMAIN inflight) /\ Cardinality(DOMAIN inflight) <= MaxEntries
  BY DEF Memory, TypeOK, Finite
<1> SUFFICES ASSUME NEW q \in Tracked', Recent(q)'
             PROVE  \E k \in DOMAIN inflight' : inflight'[k] = q
  BY RecentNext
<1>5. CASE q = n
  <2>1. ~IsLocal(from) /\ call # NoCall
    BY <1>2, <1>5 DEF Tracked, IsLocal
  <2>2. inflight' = Stash(inflight, n)
    BY <1>1, <2>1 DEF Stored
  <2>3. Key(n) \in DOMAIN inflight' /\ inflight'[Key(n)] = n
    BY <1>3, <1>4, <2>2, StashFits
  <2>4. QED
    BY <1>5, <2>3
<1>6. CASE q # n
  <2>1. q \in Tracked
    BY <1>1, <1>6 DEF Tracked
  <2>2. Recent(q) /\ LaterKeys(q) \subseteq LaterKeys(q)' /\ Cardinality(LaterKeys(q)) <= Cardinality(LaterKeys(q)')
    BY <1>1, <2>1, WasRecent
  <2>3. PICK k \in DOMAIN inflight : inflight[k] = q
    BY <2>1, <2>2, RecentIs
  <2>4. CASE inflight' = inflight
    BY <2>3, <2>4
  <2>5. CASE ~IsLocal(from) /\ call # NoCall /\ inflight' = Stash(inflight, n)
    <3>1. n \in Later(q)'
      BY <1>1, <1>2, <1>3, <2>1, <2>5 DEF Later, Tracked, IsLocal
    <3>2. k # Key(n)
      <4>1. ~SameKey(n, q)
        BY <3>1 DEF Recent, SameKey
      <4>2. k = <<q.call, q.from>>
        BY <2>3 DEF Memory, KeysMatch
      <4>3. QED
        BY <1>2, <4>1, <4>2 DEF SameKey
    <3>3. \A j \in DOMAIN inflight : inflight[j].seen = inflight[k].seen => j = k
      <4>1. \A j \in DOMAIN inflight : inflight[j].seen = inflight[k].seen => inflight[j] = inflight[k]
        BY <1>3 DEF Memory, TimesDiffer
      <4>2. QED
        BY <4>1 DEF Memory, KeysMatch
    <3>4. Newer(inflight, k) \subseteq LaterKeys(q)
      <4>1. SUFFICES ASSUME NEW j \in DOMAIN inflight, inflight[j].seen > q.seen
                     PROVE  j \in LaterKeys(q)
        BY <2>3 DEF Newer
      <4>2. /\ j = <<inflight[j].call, inflight[j].from>> /\ inflight[j].from # Server
            /\ inflight[j] \in requests /\ j \in Calls \X Hosts
        BY DEF Memory, KeysMatch, TypeOK
      <4>3. inflight[j].call # NoCall
        BY <4>2, PairingAssumption
      <4>4. inflight[j] \in Later(q)
        BY <4>1, <4>2, <4>3 DEF Later, Tracked
      <4>5. QED
        BY <4>2, <4>4 DEF LaterKeys
    <3>5. Cardinality(Newer(inflight, k)) + 1 + Batch <= MaxEntries
      <4>1. IsFiniteSet(LaterKeys(q)) /\ Cardinality(LaterKeys(q)) \in Nat
        BY LaterFinite DEF Memory
      <4>2. IsFiniteSet(Newer(inflight, k)) /\ Cardinality(Newer(inflight, k)) <= Cardinality(LaterKeys(q))
        BY <3>4, <4>1, FS_Subset
      <4>3. Cardinality(Newer(inflight, k)) \in Nat
        BY <4>2, FS_CardinalityType
      <4>4. Cardinality(LaterKeys(q)) < MaxEntries - Batch
        BY <2>2 DEF Recent
      <4>5. QED
        BY <4>1, <4>2, <4>3, <4>4, PairingAssumption
    <3>6. k \in DOMAIN inflight' /\ inflight'[k] = inflight[k]
      BY <1>3, <1>4, <2>5, <3>2, <3>3, <3>5, StashKeeps
    <3>7. QED
      BY <2>3, <3>6
  <2>6. QED
    BY <1>1, <2>4, <2>5 DEF Stored
<1>7. QED
  BY <1>5, <1>6

LEMMA NextRecent == Memory /\ Memory' /\ RecentRequestsKnown /\ [Next]_vars => RecentRequestsKnown'
<1> SUFFICES ASSUME Memory, Memory', RecentRequestsKnown, [Next]_vars PROVE RecentRequestsKnown'
  OBVIOUS
<1>1. ASSUME NEW q \in requests, NEW a \in Answers, HandleResponse(q, a)
      PROVE  RecentRequestsKnown'
  <2>1. UNCHANGED <<inflight, requests>> /\ now' = now + 1
    BY <1>1, ResponseParts DEF PacketTime
  <2>2. QED
    BY <2>1, OtherRecent
<1>2. CASE PruneInflight
  BY <1>2, OtherRecent DEF PruneInflight
<1>3. CASE SkipPacket
  BY <1>3, OtherRecent DEF SkipPacket, PacketTime
<1>4. CASE TakeEvent \/ UNCHANGED vars
  BY <1>4, OtherRecent DEF TakeEvent, vars
<1>5. QED
  BY <1>1, <1>2, <1>3, <1>4, RequestRecent DEF Next

-----------------------------------------------------------------------------
(* The theorems. *)

\* The inductive invariant.
THEOREM Inductive == Spec => []IInv
<1>1. Init => IInv
  <2> SUFFICES ASSUME Init PROVE IInv
    OBVIOUS
  <2>1. DOMAIN inflight = {} /\ requests = {} /\ report = Nothing
    BY DEF Init, Empty
  <2>2. Memory
    BY <2>1, FS_EmptySet, PairingAssumption DEF Init, Memory, TypeOK, Finite, KeysMatch, TimesDiffer, LatestKept
  <2>3. Reports
    BY <2>1, NothingSaid DEF Reports, OutcomeOfOwnRequest, JudgedByLatestRequest, IsResponse
  <2>4. RecentRequestsKnown
    BY <2>1 DEF RecentRequestsKnown, Tracked
  <2>5. QED
    BY <2>2, <2>3, <2>4 DEF IInv, Memory, Reports
<1>2. IInv /\ [Next]_vars => IInv'
  BY NextMemory, NextReports, NextRecent DEF IInv, Memory, Reports
<1>3. QED
  BY <1>1, <1>2, PTL DEF Spec

\* The map never holds more than inflightMaxEntries records, and only requests
\* of remote senders (pcap.go handleSIP).
THEOREM MapBounded == Spec => []TypeOK
<1>1. IInv => TypeOK
  BY DEF IInv
<1>2. QED
  BY <1>1, Inductive, PTL

\* An outcome is attributed to the sender of the request it answers, in its own
\* call, for every traffic (pcap.go handleSIP, inflightKey).
THEOREM OutcomesAttributed == Spec => []OutcomeOfOwnRequest
<1>1. IInv => OutcomeOfOwnRequest
  BY DEF IInv
<1>2. QED
  BY <1>1, Inductive, PTL

\* A response event speaks of the latest request of its call and sender, and a
\* 401 or 407 is reported only if that one carried credentials, for every order
\* of requests, answers, evictions and prunings (handleSIP).
THEOREM LatestJudged == Spec => []JudgedByLatestRequest
<1>1. IInv => JudgedByLatestRequest
  BY DEF IInv
<1>2. QED
  BY <1>1, Inductive, PTL

\* Neither the eviction on overflow nor the pruner forgets the last request of a
\* call and sender while fewer than MaxEntries - Batch other calls came after it
\* (evictOldest, pruneInflight).
THEOREM RecentKnown == Spec => []RecentRequestsKnown
<1>1. IInv => RecentRequestsKnown
  BY DEF IInv
<1>2. QED
  BY <1>1, Inductive, PTL
=============================================================================
