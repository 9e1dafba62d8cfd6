----------------------------- MODULE MCDetection -----------------------------
(* Small instances of Detection for TLC.                                    *)
EXTENDS Detection

Request(i, m, to) ==
    [source |-> "pcap", ip |-> i, method |-> m, code |-> 0, resp |-> FALSE, rejected |-> FALSE,
     to |-> to, agent |-> FALSE, decoy |-> FALSE, abroad |-> FALSE]
Response(i, m, c) ==
    [Request(i, m, "") EXCEPT !.code = c, !.resp = TRUE, !.rejected = (c = 403)]
LogLine(i, m, c) == [Response(i, m, c) EXCEPT !.source = "log", !.resp = FALSE]

TwoEach == [d \in Windowed |-> 2]

(* A refused login whose answer is retransmitted, a scanner's made-up       *)
(* request to a decoy from abroad, two numbers dialled, and from another    *)
(* source a refused call in the log and a probe.                            *)
MixedTraffic ==
    {{<<Response("a", "REGISTER", 403), Response("a", "REGISTER", 403)>>},
     {<<[Request("a", "FOO", "") EXCEPT !.agent = TRUE, !.decoy = TRUE, !.abroad = TRUE]>>},
     {<<Request("a", "INVITE", "100")>>}, {<<Request("a", "INVITE", "200")>>},
     {<<LogLine("b", "INVITE", 403)>>}, {<<Request("b", "OPTIONS", "")>>}}
EveryDetector == Windowed \cup {"honeypot", "geo_anomaly"}

(* Calls that are all refused, seen on the wire.                            *)
RefusedTraffic == {{<<Request("a", "INVITE", "100"), Response("a", "INVITE", 486)>>}}
=============================================================================
