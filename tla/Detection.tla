------------------------------ MODULE Detection ------------------------------
(***************************************************************************)
(* From SIP traffic to threats: the events channel, the dedup cache         *)
(* (ingest/dedup.go), the detection pipeline (daemon.go                     *)
(* runDetectionPipeline, safeDetect) and the detectors (detect/).           *)
(*                                                                          *)
(* Traffic is made of transactions.  A transaction is what the ingesters    *)
(* see of one SIP exchange: a set of streams of events, one per ingester;   *)
(* the events of a stream arrive in order, the streams interleave.  Only    *)
(* pcap events carry a Call-ID (a log line has none).                       *)
(***************************************************************************)
EXTENDS SlidingWindow

CONSTANTS
    Traffic,      \* the transactions senders may start: sets of streams of events
    Detectors,    \* enabled detectors
    Limit,        \* threshold of each detector that counts
    MinRatio,     \* failed_call_ratio: percentage of failed calls
    DedupWindow,  \* how long a Call-ID + method + code is remembered
    EventsCap,    \* capacity of the events channel
    ThreatsCap,   \* capacity of the threats channel
    MaxTx,        \* bound: transactions
    MaxTime       \* bound: clock

Counting == {"brute_force", "invite_flood", "invalid_request", "server_rejected", "scanner"}
Distinct == {"user_enum", "did_scanner"}
ValidMethods == {"REGISTER", "INVITE", "OPTIONS"}
(* The order setupDetectors registers them in.                              *)
Order == <<"brute_force", "invite_flood", "scanner", "invalid_request", "geo_anomaly", "user_enum",
           "server_rejected", "honeypot", "failed_call_ratio", "did_scanner">>
Windowed == Counting \cup Distinct \cup {"failed_call_ratio"}

(* models.SIPEvent: agent, decoy and abroad say what the lists of known     *)
(* scanners and decoys and the country lookup make of the event.            *)
Event == [source : {"pcap", "log"}, ip : STRING, method : STRING, code : Nat, resp : BOOLEAN,
          rejected : BOOLEAN, to : STRING, agent : BOOLEAN, decoy : BOOLEAN, abroad : BOOLEAN]

ASSUME DetectionAssumption ==
    /\ Traffic \subseteq SUBSET (Seq(Event) \ {<<>>})
    /\ Detectors \subseteq Windowed \cup {"honeypot", "geo_anomaly"}
    /\ Limit \in [Windowed -> Nat \ {0}] /\ MinRatio \in 1..100
    /\ Window \in Nat \ {0} /\ Cap \in Nat \ {0} /\ DedupWindow \in Nat
    /\ EventsCap \in Nat /\ ThreatsCap \in Nat /\ MaxTx \in Nat /\ MaxTime \in Nat

VARIABLES
    now,       \* the clock
    streams,   \* what the ingesters have still to see: [tx, rest]
    started,   \* transactions started
    events,    \* the events channel
    seen,      \* dedup: key -> time, for the keys remembered
    win,       \* detector -> source -> window, for the sources it remembers
    sweep,     \* lastSweep of each detector
    threats,   \* the threats channel
    accepted,  \* the events table: events the pipeline let through
    alarms     \* history: detectors the last accepted event set off

vars == <<now, streams, started, events, seen, win, sweep, threats, accepted, alarms>>

----------------------------------------------------------------------------
(* Helpers on partial functions (Go maps).                                  *)
Lookup(m, k, default) == IF k \in DOMAIN m THEN m[k] ELSE default
Put(m, k, v) == [x \in DOMAIN m \cup {k} |-> IF x = k THEN v ELSE m[x]]
Keep(m, K) == [x \in K |-> m[x]]
NoMap == [x \in {} |-> 0]

(* The events each detector counts (Detect up to the window).               *)
BruteForce(e) == e.method = "REGISTER" /\ e.code \in {401, 403}
InviteFlood(e) == ~e.resp /\ e.method = "INVITE"
InvalidRequest(e) == ~e.resp /\ e.method \notin ValidMethods
ServerRejected(e) == e.rejected
OptionsProbe(e) == ~e.resp /\ e.method = "OPTIONS" /\ ~e.agent
UserEnum(e) == ~e.resp /\ e.method \in {"REGISTER", "INVITE"} /\ e.to # ""
DIDScanner(e) == ~e.resp /\ e.method = "INVITE" /\ e.to # ""
FailedCallRatio(e) == e.method = "INVITE"

(* The events that set a detector off at once, without a window.            *)
KnownAgent(e) == ~e.resp /\ e.agent
Honeypot(e) == ~e.resp /\ e.decoy
GeoAnomaly(e) == ~e.resp /\ e.abroad

Matches(d, e) ==
    \/ d = "brute_force" /\ BruteForce(e)
    \/ d = "invite_flood" /\ InviteFlood(e)
    \/ d = "invalid_request" /\ InvalidRequest(e)
    \/ d = "server_rejected" /\ ServerRejected(e)
    \/ d = "scanner" /\ OptionsProbe(e)
    \/ d = "user_enum" /\ UserEnum(e)
    \/ d = "did_scanner" /\ DIDScanner(e)
    \/ d = "failed_call_ratio" /\ FailedCallRatio(e)
Immediate(d, e) ==
    \/ d = "scanner" /\ KnownAgent(e)
    \/ d = "honeypot" /\ Honeypot(e)
    \/ d = "geo_anomaly" /\ GeoAnomaly(e)

Failed(e) == e.rejected \/ (e.code >= 400 /\ e.code < 600)
KeyOf(d, e) ==
    CASE d \in Distinct            -> e.to
      [] d = "failed_call_ratio"   -> IF Failed(e) THEN "failed" ELSE "ok"
      [] OTHER                     -> ""

(* Does the window of detector d, now holding s, set it off?                *)
Trips(d, s) ==
    CASE d \in Distinct          -> DistinctCount(s, now) >= Limit[d]
      [] d = "failed_call_ratio" ->
           /\ Len(s) >= Limit[d]
           /\ 100 * Len(SelectSeq(s, LAMBDA x : x.key = "failed")) >= MinRatio * Len(s)
      [] OTHER                   -> Count(s, now) >= Limit[d]

(* pruneLocked: expired entries go, and sources with none left; the sweep   *)
(* of failed_call_ratio only forgets the sources.                           *)
Pruned(d, w) ==
    [i \in {j \in DOMAIN w : LiveEntries(w[j], now) # <<>>} |->
        IF d = "failed_call_ratio" THEN w[i] ELSE LiveEntries(w[i], now)]
Added(d, e, w) == Put(w, e.ip, AddKeyed(Lookup(w, e.ip, <<>>), now, KeyOf(d, e)))
SweepDue(d) == now - sweep[d] >= Window

(* Mutant: windows are never swept.                                         *)
Observe_NoSweep(d, e) == Added(d, e, win[d])

(* One detector takes one event: its window is written, and once per Window *)
(* the sources that went quiet are forgotten.                               *)
Observe(d, e) ==
    IF ~SweepDue(d) THEN Added(d, e, win[d])
    ELSE IF d = "failed_call_ratio" THEN Added(d, e, Pruned(d, win[d]))
    ELSE Pruned(d, Added(d, e, win[d]))

----------------------------------------------------------------------------
(* Environment: senders and time.                                           *)

Start(tr) ==
    /\ started < MaxTx
    /\ started' = started + 1
    /\ streams' = streams \cup {[tx |-> started + 1, rest |-> s] : s \in tr}
    /\ UNCHANGED <<now, events, seen, win, sweep, threats, accepted, alarms>>

Tick ==
    /\ now < MaxTime
    /\ now' = now + 1
    /\ UNCHANGED <<streams, started, events, seen, win, sweep, threats, accepted, alarms>>

(* An ingester sees the next event of a stream.  pcap drops it when the     *)
(* channel is full, a log source waits.                                     *)
Ingest(s) ==
    /\ LET e == Head(s.rest)
       IN  \/ Len(events) < EventsCap /\ events' = Append(events, [e |-> e, tx |-> s.tx])
           \/ Len(events) >= EventsCap /\ e.source = "pcap" /\ UNCHANGED events
    /\ streams' = (streams \ {s}) \cup
                  (IF Len(s.rest) = 1 THEN {} ELSE {[s EXCEPT !.rest = Tail(@)]})
    /\ UNCHANGED <<now, started, seen, win, sweep, threats, accepted, alarms>>

(* The action pipeline takes a threat.                                      *)
TakeThreat ==
    /\ threats # <<>>
    /\ threats' = Tail(threats)
    /\ UNCHANGED <<now, streams, started, events, seen, win, sweep, accepted, alarms>>

----------------------------------------------------------------------------
(* Dedup.                                                                   *)

DedupKey(x) == <<x.tx, x.e.method, x.e.code>>

(* Mutant: off by one in the age test.                                      *)
IsDuplicate_Stale(x) == DedupKey(x) \in DOMAIN seen /\ now - seen[DedupKey(x)] < DedupWindow - 1

IsDuplicate(x) == DedupKey(x) \in DOMAIN seen /\ now - seen[DedupKey(x)] < DedupWindow

(* The prune ticker.                                                        *)
DedupPrune ==
    /\ \E k \in DOMAIN seen : now - seen[k] >= DedupWindow
    /\ seen' = Keep(seen, {k \in DOMAIN seen : now - seen[k] < DedupWindow})
    /\ UNCHANGED <<now, streams, started, events, win, sweep, threats, accepted, alarms>>

----------------------------------------------------------------------------
(* The detection pipeline: one event from the channel.                      *)

HasCallID(x) == x.e.source = "pcap"

Discard ==
    /\ events # <<>> /\ HasCallID(Head(events)) /\ IsDuplicate(Head(events))
    /\ events' = Tail(events)
    /\ UNCHANGED <<now, streams, started, seen, win, sweep, threats, accepted, alarms>>

(* safeDetect: a threat that finds the channel full is dropped.             *)
Offer(fired) ==
    LET room == Min({Len(fired), ThreatsCap - Len(threats)})
    IN  threats \o SubSeq(fired, 1, room)

(* Mutant: the pipeline waits for room in the threats channel.              *)
Detect_Waits ==
    /\ events # <<>> /\ Len(threats) < ThreatsCap
    /\ events' = Tail(events)
    /\ \E d \in Detectors : threats' = Append(threats, d)
    /\ UNCHANGED <<now, streams, started, seen, win, sweep, accepted, alarms>>

(* Record the event, run every detector, offer the threats.                 *)
Detect ==
    /\ events # <<>> /\ ~(HasCallID(Head(events)) /\ IsDuplicate(Head(events)))
    /\ LET x == Head(events)
           e == x.e
       IN  /\ seen' = IF HasCallID(x) THEN Put(seen, DedupKey(x), now) ELSE seen
           /\ accepted' = Append(accepted, [t |-> now, e |-> e, tx |-> x.tx])
           /\ win' = [d \in Detectors |-> IF Matches(d, e) THEN Observe(d, e) ELSE win[d]]
           /\ sweep' = [d \in Detectors |-> IF Matches(d, e) /\ SweepDue(d) THEN now ELSE sweep[d]]
           /\ alarms' = {d \in Detectors : Immediate(d, e) \/ (Matches(d, e) /\ Trips(d, win'[d][e.ip]))}
           /\ threats' = Offer(SelectSeq(Order, LAMBDA d : d \in alarms'))
    /\ events' = Tail(events)
    /\ UNCHANGED <<now, streams, started>>

----------------------------------------------------------------------------
Init ==
    /\ now = 0 /\ streams = {} /\ started = 0 /\ events = <<>> /\ seen = NoMap /\ win = [d \in Detectors |-> NoMap]
    /\ sweep = [d \in Detectors |-> 0] /\ threats = <<>> /\ accepted = <<>> /\ alarms = {}

Next ==
    \/ \E tr \in Traffic : Start(tr)
    \/ \E s \in streams : Ingest(s)
    \/ Tick \/ TakeThreat \/ DedupPrune \/ Discard \/ Detect

Spec == Init /\ [][Next]_vars

(* The detection goroutine is scheduled; nothing is owed by the action      *)
(* pipeline, which may hang in an enforcer call.                            *)
FairSpec == Spec /\ WF_vars(Detect \/ Discard)

----------------------------------------------------------------------------
(* Properties.                                                              *)

(* What the events table says of detector d and the source of the last      *)
(* event: the entries a window of unlimited size would hold.                *)
History(d) ==
    LET mine == SelectSeq(accepted, LAMBDA a : /\ a.e.ip = accepted[Len(accepted)].e.ip
                                               /\ Matches(d, a.e) /\ Alive(a, now))
    IN  [k \in DOMAIN mine |-> [t |-> mine[k].t, key |-> KeyOf(d, mine[k].e)]]

(* What is left of it in a window of Cap entries, where that matters: a     *)
(* count that is full has reached every threshold within the cap, but a     *)
(* number or a call that fell out is no longer told apart.                  *)
Retained(d, s) == IF d \in Counting THEN s ELSE SubSeq(s, Max({0, Len(s) - Cap}) + 1, Len(s))

(* An accepted event sets off exactly the detectors whose threshold is      *)
(* reached by the recorded events of the window: by all of them for the     *)
(* detectors that count, however full their windows are, and by the newest  *)
(* Cap for those that tell entries apart.  Boundary instants, lazy expiry,  *)
(* and sweeps of quiet sources make no difference.                          *)
AlarmsExact ==
    [][accepted' # accepted =>
         LET e == accepted'[Len(accepted')].e
         IN  alarms' = {d \in Detectors :
                          \/ Immediate(d, e)
                          \/ Matches(d, e) /\ Trips(d, Retained(d, History(d)'))}]_vars

SameEvent(a, b) == a.tx = b.tx /\ a.e.method = b.e.method /\ a.e.code = b.e.code

(* One event of one exchange on the wire is counted once: retransmissions   *)
(* within the dedup window, whatever the prune ticker does, are not.  A log *)
(* line has no Call-ID to know it by.                                       *)
SameEventOnce ==
    \A j, k \in DOMAIN accepted :
        (j < k /\ HasCallID(accepted[j]) /\ HasCallID(accepted[k]) /\ SameEvent(accepted[j], accepted[k]))
            => accepted[k].t - accepted[j].t >= DedupWindow

(* What a detector remembers follows its traffic: no window holds more than *)
(* Cap entries, every detector that sees events sweeps at least once per    *)
(* Window, and after a sweep only sources with a live entry are left.  How  *)
(* many sources may come within one Window is not bounded.                  *)
MemoryBounded ==
    \A d \in Detectors :
        /\ \A i \in DOMAIN win[d] :
             /\ Len(win[d][i]) \in 1..Cap
             /\ \E j \in DOMAIN win[d][i] : win[d][i][j].t > sweep[d] - Window
        /\ \A k \in DOMAIN accepted : Matches(d, accepted[k].e) => accepted[k].t - sweep[d] < Window

(* A full threats channel and a hanging action pipeline never stop the      *)
(* detectors from taking events: the events channel is empty again and      *)
(* again.                                                                   *)
EventsDrain == []<>(events = <<>>)

(* how-it-works.md:164: a source whose calls all fail is a threat once it   *)
(* made Limit of them in the window.                                        *)
CallsOf(i) ==
    {accepted[k].tx : k \in {j \in DOMAIN accepted :
        /\ accepted[j].e.ip = i /\ accepted[j].e.method = "INVITE" /\ Alive(accepted[j], now)}}
FailedCall(c) == \E j \in DOMAIN accepted : accepted[j].tx = c /\ Failed(accepted[j].e)
FailingCallerFlagged ==
    LET calls == CallsOf(accepted[Len(accepted)].e.ip)
    IN  (accepted # <<>> /\ (\A c \in calls : FailedCall(c)) /\ Failed(accepted[Len(accepted)].e)
         /\ Cardinality(calls) >= Limit["failed_call_ratio"] /\ accepted[Len(accepted)].t = now)
            => "failed_call_ratio" \in alarms
=============================================================================
