------------------------------ MODULE PcapPairing ------------------------------
(***************************************************************************)
(* Packet capture (internal/ingest/pcap.go).  The capture goroutine sees   *)
(* the SIP requests that reach the server and the responses that leave it, *)
(* remembers each request under its Call-ID and sender, and turns packets  *)
(* into events.  A 401 or 407 is an event, a failed login, only when the   *)
(* remembered request carried credentials.  The memory is a bounded map:   *)
(* an overflow evicts the oldest records, a ticker drops the stale ones.   *)
(*                                                                         *)
(* The traffic is the environment's.  Anybody may send a request, the      *)
(* server included (its forwarded leg of a call reuses the Call-ID), and a *)
(* request may be answered at any later time and any number of times: a    *)
(* provisional and a final response, or a retransmitted one.               *)
(***************************************************************************)
EXTENDS Integers, FiniteSets

CONSTANTS
    Remotes,        \* addresses that are not on this host
    Server,         \* the address of this host
    Calls,          \* Call-IDs
    NoCall,         \* a message without a Call-ID
    Answers,        \* responses the server gives: [code, reason]
    RejectCodes,    \* entries of reject_responses that are a code alone
    RejectPhrases,  \* entries with a reason phrase: [code, reason]
    MaxEntries,     \* inflightMaxEntries
    Batch,          \* records one overflow evicts, inflightMaxEntries / 10
    KeepFor,        \* the age at which the ticker drops a record, 5 minutes
    ChanCap,        \* room in the events channel
    MaxTime         \* bound on the clock

Hosts == Remotes \union {Server}

ASSUME PairingAssumption ==
    /\ Server \notin Remotes
    /\ NoCall \notin Calls
    /\ MaxEntries \in Nat \ {0}
    /\ Batch \in 1..MaxEntries
    /\ KeepFor \in Nat
    /\ ChanCap \in Nat
    /\ MaxTime \in Nat
    /\ \A a \in Answers \union RejectPhrases : a.code \in Nat

VARIABLES
    now,        \* the clock; two packets never have the same time
    inflight,   \* the map, from Call-ID and sender to the request record
    queued,     \* number of events in the channel
    requests,   \* history: every request captured so far
    report      \* history: the event of the last packet, if it was sent

vars == <<now, inflight, queued, requests, report>>

Requests == [call : Calls \union {NoCall}, from : Hosts, hasAuth : BOOLEAN, seen : 1..MaxTime]

Nothing == [source |-> Server, code |-> -1]

Empty == [k \in {} |-> k]

-----------------------------------------------------------------------------
(* The map. *)

\* A proxy uses one Call-ID on both legs of a call, so the sender is in the key.
InflightKey(call, sender) == <<call, sender>>

EvictOldest_Newest(map, n) ==
    LET newer(k) == {j \in DOMAIN map : map[j].seen > map[k].seen}
    IN  [k \in {k \in DOMAIN map : Cardinality(newer(k)) >= n} |-> map[k]]

\* Records that are left when the n with the oldest time are removed.
EvictOldest(map, n) ==
    LET older(k) == {j \in DOMAIN map : map[j].seen < map[k].seen}
    IN  [k \in {k \in DOMAIN map : Cardinality(older(k)) >= n} |-> map[k]]

Stash_OffByOne(map, q) ==
    LET room == IF Cardinality(DOMAIN map) > MaxEntries THEN EvictOldest(map, Batch) ELSE map
        key == InflightKey(q.call, q.from)
    IN  [k \in DOMAIN room \union {key} |-> IF k = key THEN q ELSE room[k]]

Stash_KeepsFirst(map, q) ==
    LET room == IF Cardinality(DOMAIN map) >= MaxEntries THEN EvictOldest(map, Batch) ELSE map
        key == InflightKey(q.call, q.from)
    IN  [k \in DOMAIN room \union {key} |-> IF k \in DOMAIN room THEN room[k] ELSE q]

\* The map after request q: make room on overflow, then set the key.
Stash(map, q) ==
    LET room == IF Cardinality(DOMAIN map) >= MaxEntries THEN EvictOldest(map, Batch) ELSE map
        key == InflightKey(q.call, q.from)
    IN  [k \in DOMAIN room \union {key} |-> IF k = key THEN q ELSE room[k]]

IsLocal_Never(host) == FALSE

IsLocal(host) == host = Server

IsRejected(a) == a.code \in RejectCodes \/ a \in RejectPhrases

-----------------------------------------------------------------------------
(* Packets. *)

\* An event goes into the channel if there is room and is dropped otherwise.
Send(event) ==
    \/ /\ queued < ChanCap
       /\ queued' = queued + 1
       /\ report' = event
    \/ /\ queued = ChanCap
       /\ queued' = queued
       /\ report' = Nothing

Ignore == queued' = queued /\ report' = Nothing

\* The clock as the handler reads it for this packet.
PacketTime == now < MaxTime /\ now' = now + 1

HandleRequest(from, call, hasAuth) ==
    LET q == [call |-> call, from |-> from, hasAuth |-> hasAuth, seen |-> now + 1]
    IN  /\ PacketTime
        /\ requests' = requests \union {q}
        /\ \/ IsLocal(from) /\ Ignore /\ UNCHANGED inflight
           \/ /\ ~IsLocal(from)
              /\ inflight' = IF call = NoCall THEN inflight ELSE Stash(inflight, q)
              /\ Send([source |-> from, code |-> 0])

\* 401 and 407 are dropped unless the remembered request had credentials.
IsChallenge(code, found, rec) == code \in {401, 407} /\ ~(found /\ rec.hasAuth)

\* Response a to the captured request q leaves for q's sender.
HandleResponse(q, a) ==
    LET origin == q.from
        key == InflightKey(q.call, origin)
        found == q.call # NoCall /\ key \in DOMAIN inflight
        rec == IF found THEN inflight[key] ELSE q
    IN  /\ PacketTime
        /\ UNCHANGED <<inflight, requests>>
        /\ \/ (IsLocal(origin) \/ IsChallenge(a.code, found, rec)) /\ Ignore
           \/ /\ ~IsLocal(origin)
              /\ ~IsChallenge(a.code, found, rec)
              /\ Send([source |-> origin, code |-> a.code, rejected |-> IsRejected(a),
                       answers |-> q, enriched |-> found, about |-> rec])

\* The ticker of pruneInflight.
PruneInflight ==
    /\ inflight' = [k \in {k \in DOMAIN inflight : inflight[k].seen >= now - KeepFor} |-> inflight[k]]
    /\ inflight' # inflight
    /\ UNCHANGED <<now, queued, requests, report>>

\* Time passes; a packet without a SIP message in it has no other effect.
SkipPacket == PacketTime /\ report' = Nothing /\ UNCHANGED <<inflight, queued, requests>>

\* The detection pipeline receives an event.
TakeEvent == queued > 0 /\ queued' = queued - 1 /\ UNCHANGED <<now, inflight, requests, report>>

Init == now = 0 /\ inflight = Empty /\ queued = 0 /\ requests = {} /\ report = Nothing

Next ==
    \/ \E from \in Hosts, call \in Calls \union {NoCall}, hasAuth \in BOOLEAN :
          HandleRequest(from, call, hasAuth)
    \/ \E q \in requests, a \in Answers : HandleResponse(q, a)
    \/ PruneInflight
    \/ SkipPacket
    \/ TakeEvent

Spec == Init /\ [][Next]_vars

-----------------------------------------------------------------------------
(* Properties. *)

IsResponse == "answers" \in DOMAIN report

\* Every record is a request of the sender in its key, and the map never
\* holds more than inflightMaxEntries records, whatever Call-IDs arrive
\* (handleSIP evicts before it stores).
TypeOK ==
    /\ now \in 0..MaxTime
    /\ requests \subseteq Requests
    /\ queued \in 0..ChanCap
    /\ DOMAIN inflight \subseteq Calls \X Hosts
    /\ \A k \in DOMAIN inflight : inflight[k] \in requests
    /\ Cardinality(DOMAIN inflight) <= MaxEntries

\* An event never names this host, and a response event names the sender of
\* the request that was answered and is enriched with a request of that same
\* sender in that same call, although both legs of a proxied call have one
\* Call-ID and answers may come late (handleSIP keys and attributes by the
\* response's destination).
OutcomeOfOwnRequest ==
    report # Nothing =>
        /\ report.source # Server
        /\ IsResponse =>
              /\ report.source = report.answers.from
              /\ report.about.from = report.source
              /\ report.about.call = report.answers.call

Tracked == {q \in requests : q.from # Server /\ q.call # NoCall}

Later(q) == {p \in Tracked : p.seen > q.seen}

SameKey(p, q) == p.call = q.call /\ p.from = q.from

\* However late an answer comes and whatever was evicted, pruned or sent again
\* meanwhile, what a response event says of its request is taken from the latest
\* one of that call and sender, and a 401 or 407 is reported only if that one
\* carried credentials (the lookup and the challenge check of handleSIP).  So a
\* late challenge to the first, bare request, which pcap.go:324-327 says is no
\* failed login, is reported as one: it is judged by the second request.
JudgedByLatestRequest ==
    IsResponse =>
        /\ report.enriched =>
              \A p \in requests : SameKey(p, report.answers) => p.seen <= report.about.seen
        /\ report.code \in {401, 407} => report.enriched /\ report.about.hasAuth

\* The last request of a call and sender is remembered while it is at most
\* KeepFor old and fewer than MaxEntries - Batch other calls came after it, so
\* a failed login answered in that time is recognised through every overflow
\* and every tick of the pruner.
RecentRequestsKnown ==
    \A q \in Tracked :
        (/\ now - q.seen <= KeepFor
         /\ \A p \in Later(q) : ~SameKey(p, q)
         /\ Cardinality({<<p.call, p.from>> : p \in Later(q)}) < MaxEntries - Batch)
        => \E k \in DOMAIN inflight : inflight[k] = q
=============================================================================
