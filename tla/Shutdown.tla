------------------------------- MODULE Shutdown -------------------------------
(***************************************************************************)
(* Graceful shutdown (the end of daemon.go Run) with everything it has to   *)
(* bring to an end: the ingesters, which may be blocked on a full events    *)
(* channel nobody reads any more, the pipelines, the tickers, HTTP handlers *)
(* that outlive the grace period, the XDP handle they share with main, and  *)
(* the mail queue (action/email.go) behind a mail server that may hang.     *)
(* Events, threats and the work inside a call are abstracted to counters.   *)
(***************************************************************************)
EXTENDS Naturals, Sequences

CONSTANTS
    Ingesters,   \* the ingesters that are enabled
    Tickers,     \* the goroutines that only tick: "refresh", "maint", "heartbeat"
    Handlers,    \* concurrent HTTP handlers
    EventsCap,   \* capacity of the events channel
    ThreatsCap,  \* capacity of the threats channel
    MailCap,     \* emailQueueSize
    MaxWork      \* bound: events seen and due bans found

ASSUME ShutdownAssumption ==
    /\ Ingesters \subseteq {"log", "syslog", "pcap"}
    /\ Tickers \subseteq {"refresh", "maint", "heartbeat"}
    /\ {EventsCap, ThreatsCap, MailCap, MaxWork} \subseteq Nat

VARIABLES
    main,     \* where Run is
    ctx,      \* the context is cancelled
    done,     \* ingesters whose done channel is closed
    pc,       \* where each goroutine of the wait group is
    conn,     \* the syslog socket: "none", "open" or "closed"
    events,   \* events in the channel
    threats,  \* threats in the channel
    work,     \* work taken up so far (bound only)
    req,      \* what each HTTP handler is doing
    xptr,     \* d.xdp: "set" or "nil"
    xdp,      \* the XDP program: "attached" or "detached"
    late,     \* history: srv.Shutdown gave up waiting for handlers
    queue,    \* mail waiting
    closed,   \* the mail queue is closed
    worker,   \* the mail worker: "idle", "sending" or "done"
    mails,    \* history: mail accepted by Notify, numbered from 1
    handed,   \* history: mail handed to send
    result    \* what Close returned: "none", "nil" or "error"

daemon == <<main, ctx, done, late>>
goroutines == <<pc, conn, events, threats, work>>
api == <<req, xptr, xdp>>
mail == <<queue, closed, worker, mails, handed, result>>
vars == <<daemon, goroutines, api, mail>>

Loops == {"detect", "pipe", "exp"} \cup Tickers
Goroutines == Ingesters \cup Loops \cup {"listen"}
Ended == {"stopped", "panicked"}
Goto(g, l) == pc' = [pc EXCEPT ![g] = l]

----------------------------------------------------------------------------
(* Ingesters.                                                               *)

(* SyslogIngest.Run binds its socket and publishes it under mu, or gives up.*)
SyslogBind ==
    /\ "syslog" \in Ingesters /\ pc["syslog"] = "bind"
    /\ \/ conn' = "open" /\ Goto("syslog", "read")
       \/ Goto("syslog", "exit") /\ UNCHANGED conn
    /\ UNCHANGED <<daemon, events, threats, work, api, mail>>

(* A line or a datagram that is an event; others leave nothing behind.      *)
Receive(i) ==
    /\ pc[i] = "read" /\ work < MaxWork
    /\ i = "syslog" => conn = "open"
    /\ work' = work + 1
    /\ Goto(i, "send")
    /\ UNCHANGED <<daemon, conn, events, threats, api, mail>>

(* The send waits for room or for done; the tailer sees done again at its   *)
(* loop head, syslog returns at once.                                       *)
SendEvent(i) ==
    /\ pc[i] = "send"
    /\ \/ events < EventsCap /\ events' = events + 1 /\ Goto(i, "read")
       \/ /\ i \in done
          /\ Goto(i, IF i = "syslog" THEN "exit" ELSE "read")
          /\ UNCHANGED events
    /\ UNCHANGED <<daemon, conn, threats, work, api, mail>>

(* Mutant: nobody looks whether the channel is full.                        *)
Capture_NoDrop ==
    /\ "pcap" \in Ingesters /\ pc["pcap"] = "read" /\ work < MaxWork
    /\ work' = work + 1 /\ events' = events + 1
    /\ UNCHANGED <<daemon, pc, conn, threats, api, mail>>

(* pcap drops the event when the channel is full.                           *)
Capture ==
    /\ "pcap" \in Ingesters /\ pc["pcap"] = "read" /\ work < MaxWork
    /\ work' = work + 1
    /\ events' = IF events < EventsCap THEN events + 1 ELSE events
    /\ UNCHANGED <<daemon, pc, conn, threats, api, mail>>

(* done is seen at the tailer's loop head, in pcap's select, and by syslog  *)
(* when a read fails: at once on a closed socket, else after a quiet second.*)
(* pcap also ends by itself when the device cannot be opened or fails.      *)
IngestEnd(i) ==
    /\ pc[i] = "read"
    /\ i \in done \/ i = "pcap"
    /\ Goto(i, "exit")
    /\ UNCHANGED <<daemon, conn, events, threats, work, api, mail>>

----------------------------------------------------------------------------
(* The pipelines, the expiry loop, the tickers and the listener.            *)

(* runDetectionPipeline takes an event; a threat is dropped when its channel*)
(* is full.                                                                 *)
Detect ==
    /\ pc["detect"] = "idle" /\ events > 0
    /\ events' = events - 1
    /\ threats' \in {threats, IF threats < ThreatsCap THEN threats + 1 ELSE threats}
    /\ UNCHANGED <<daemon, pc, conn, work, api, mail>>

(* runActionPipeline takes a threat and evaluates and enforces it, or not.  *)
TakeThreat ==
    /\ pc["pipe"] = "idle" /\ threats > 0
    /\ threats' = threats - 1
    /\ Goto("pipe", "act")
    /\ UNCHANGED <<daemon, conn, events, work, api, mail>>
HandleThreat ==
    /\ pc["pipe"] = "act"
    /\ \E l \in {"notify", "idle"} : Goto("pipe", l)
    /\ UNCHANGED <<daemon, conn, events, threats, work, api, mail>>

(* The expiry ticker finds due bans and closes them one after the other.    *)
FindDue ==
    /\ pc["exp"] = "idle" /\ work < MaxWork
    /\ work' = work + 1
    /\ Goto("exp", "act")
    /\ UNCHANGED <<daemon, conn, events, threats, api, mail>>
ExpireBan ==
    /\ pc["exp"] = "act"
    /\ Goto("exp", "notify")
    /\ UNCHANGED <<daemon, conn, events, threats, work, api, mail>>

(* Mutant: a plain send.                                                    *)
Notify_Blocking(g) ==
    /\ pc[g] = "notify" /\ Len(queue) < MailCap
    /\ queue' = Append(queue, mails + 1) /\ mails' = mails + 1
    /\ Goto(g, "idle")
    /\ UNCHANGED <<daemon, conn, events, threats, work, api, closed, worker, handed, result>>

(* EmailNotifier.Notify: mail below min_severity or beyond the queue is     *)
(* dropped.  The expiry loop goes on with its next ban, if any.             *)
Notify(g) ==
    /\ pc[g] = "notify"
    /\ \/ /\ Len(queue) < MailCap
          /\ queue' = Append(queue, mails + 1) /\ mails' = mails + 1
       \/ UNCHANGED <<queue, mails>>
    /\ \/ Goto(g, "idle") /\ UNCHANGED work
       \/ g = "exp" /\ work < MaxWork /\ work' = work + 1 /\ Goto(g, "act")
    /\ UNCHANGED <<daemon, conn, events, threats, api, closed, worker, handed, result>>

(* The ctx.Done branch of every select loop, those that only tick included: *)
(* metrics and reconcile, local addresses, parser statistics.               *)
LoopEnd(g) ==
    /\ pc[g] = "idle" /\ ctx
    /\ Goto(g, "exit")
    /\ UNCHANGED <<daemon, conn, events, threats, work, api, mail>>

(* ListenAndServe returns early when the address is taken.                  *)
ListenFails ==
    /\ pc["listen"] = "idle"
    /\ Goto("listen", "exit")
    /\ UNCHANGED <<daemon, conn, events, threats, work, api, mail>>

----------------------------------------------------------------------------
(* HTTP handlers: the kill switch and all others.                           *)

Request(h) ==
    /\ pc["listen"] = "idle" /\ req[h] = "idle"
    /\ \E r \in {"busy", "detach"} : req' = [req EXCEPT ![h] = r]
    /\ UNCHANGED <<daemon, goroutines, xptr, xdp, mail>>
Respond(h) ==
    /\ req[h] = "busy"
    /\ req' = [req EXCEPT ![h] = "idle"]
    /\ UNCHANGED <<daemon, goroutines, xptr, xdp, mail>>

(* detachXDP, under enfMu.                                                  *)
DetachXDP(h) ==
    /\ req[h] = "detach"
    /\ req' = [req EXCEPT ![h] = "busy"]
    /\ xptr' = "nil"
    /\ xdp' = "detached"
    /\ UNCHANGED <<daemon, goroutines, mail>>

----------------------------------------------------------------------------
(* The mail worker ranges over the queue; a delivery takes up to 30 s.      *)

(* Mutant: the worker leaves as soon as the queue is closed.                *)
WorkerTake_NoDrain ==
    /\ worker = "idle" /\ queue # <<>>
    /\ IF closed
       THEN worker' = "done" /\ UNCHANGED <<queue, handed>>
       ELSE worker' = "sending" /\ handed' = Append(handed, Head(queue)) /\ queue' = Tail(queue)
    /\ UNCHANGED <<daemon, goroutines, api, closed, mails, result>>

WorkerTake ==
    /\ worker = "idle" /\ queue # <<>>
    /\ worker' = "sending"
    /\ handed' = Append(handed, Head(queue)) /\ queue' = Tail(queue)
    /\ UNCHANGED <<daemon, goroutines, api, closed, mails, result>>
WorkerSent ==
    /\ worker = "sending" /\ worker' = "idle"
    /\ UNCHANGED <<daemon, goroutines, api, queue, closed, mails, handed, result>>
WorkerEnd ==
    /\ worker = "idle" /\ queue = <<>> /\ closed
    /\ worker' = "done"
    /\ UNCHANGED <<daemon, goroutines, api, queue, closed, mails, handed, result>>

----------------------------------------------------------------------------
(* Run from the signal to its return, in the order of the code.             *)

MainTo(l) == main' = l

(* SIGINT or SIGTERM: cancel the context.                                   *)
Signal ==
    /\ main = "serve" /\ MainTo("shutdown")
    /\ ctx' = TRUE
    /\ UNCHANGED <<done, late, goroutines, api, mail>>

(* srv.Shutdown closes the listener, which ends ListenAndServe, ...         *)
CloseListener ==
    /\ main = "shutdown" /\ MainTo("grace")
    /\ Goto("listen", "exit")
    /\ UNCHANGED <<ctx, done, late, conn, events, threats, work, api, mail>>

(* Mutant: the server is closed without waiting for its handlers.           *)
GracePeriod_Skip ==
    /\ main = "grace" /\ MainTo("stopIngesters")
    /\ UNCHANGED <<ctx, done, late, goroutines, api, mail>>

(* ... and waits for the handlers, for five seconds at most.                *)
GracePeriod ==
    /\ main = "grace" /\ MainTo("stopIngesters")
    /\ late' = (\E h \in Handlers : req[h] # "idle")
    /\ UNCHANGED <<ctx, done, goroutines, api, mail>>

(* The ingesters are told to stop: their done channels are closed, and the  *)
(* syslog socket too if Run has published one yet.                          *)
StopIngesters ==
    /\ main = "stopIngesters" /\ MainTo("xdpTest")
    /\ done' = Ingesters
    /\ conn' = IF conn = "open" THEN "closed" ELSE conn
    /\ UNCHANGED <<ctx, late, pc, events, threats, work, api, mail>>

(* d.xdp is tested and used without enfMu: if it is nil by then, main sees  *)
(* that and panics, or still has the pointer it tested and closes it again. *)
XdpTest ==
    /\ main = "xdpTest"
    /\ MainTo(IF xptr = "set" THEN "xdpClose" ELSE "wait")
    /\ UNCHANGED <<ctx, done, late, goroutines, api, mail>>
XdpClose ==
    /\ main = "xdpClose"
    /\ \/ xptr = "nil" /\ MainTo("panicked") /\ UNCHANGED xdp
       \/ MainTo("wait") /\ xdp' = "detached"
    /\ UNCHANGED <<ctx, done, late, goroutines, req, xptr, mail>>

(* Mutant: nobody is waited for.                                            *)
WaitGroup_Skip ==
    /\ main = "wait" /\ MainTo("closeMail")
    /\ UNCHANGED <<ctx, done, late, goroutines, api, mail>>

WaitGroup ==
    /\ main = "wait" /\ MainTo("closeMail")
    /\ \A g \in Goroutines : pc[g] = "exit"
    /\ UNCHANGED <<ctx, done, late, goroutines, api, mail>>

CloseMail ==
    /\ main = "closeMail" /\ MainTo("drain")
    /\ closed' = TRUE
    /\ UNCHANGED <<ctx, done, late, goroutines, api, queue, worker, mails, handed, result>>

(* Mutant: Close waits for the worker however long it takes.                *)
DrainMail_NoTimeout ==
    /\ main = "drain" /\ MainTo("stopped")
    /\ worker = "done" /\ result' = "nil"
    /\ UNCHANGED <<ctx, done, late, goroutines, api, queue, closed, worker, mails, handed>>

(* Close returns when the worker is done, or after five seconds.            *)
DrainMail ==
    /\ main = "drain" /\ MainTo("stopped")
    /\ \/ worker = "done" /\ result' = "nil"
       \/ result' = "error"
    /\ UNCHANGED <<ctx, done, late, goroutines, api, queue, closed, worker, mails, handed>>

----------------------------------------------------------------------------
Init ==
    /\ main = "serve" /\ ctx = FALSE /\ done = {} /\ late = FALSE
    /\ \/ xptr = "set" /\ xdp = "attached"
       \/ xptr = "nil" /\ xdp = "detached"
    /\ pc = [g \in Goroutines |->
               CASE g = "syslog" -> "bind"
                 [] g \in {"log", "pcap"} -> "read"
                 [] g = "maint" /\ xptr = "nil" -> "exit"  \* not started
                 [] OTHER -> "idle"]
    /\ conn = "none" /\ events = 0 /\ threats = 0 /\ work = 0
    /\ req = [h \in Handlers |-> "idle"]
    /\ queue = <<>> /\ closed = FALSE /\ worker = "idle" /\ mails = 0 /\ handed = <<>> /\ result = "none"

MainStep ==
    \/ CloseListener \/ GracePeriod \/ StopIngesters
    \/ XdpTest \/ XdpClose \/ WaitGroup \/ CloseMail \/ DrainMail
Waiting == Ingesters \ {"pcap"}
IngestStep(i) == (i \in Waiting /\ (Receive(i) \/ SendEvent(i))) \/ IngestEnd(i)
ActionStep == TakeThreat \/ HandleThreat \/ Notify("pipe")
ExpiryStep == FindDue \/ ExpireBan \/ Notify("exp")
WorkerStep == WorkerTake \/ WorkerSent \/ WorkerEnd

Running ==
    \/ Signal \/ MainStep
    \/ SyslogBind \/ Capture \/ \E i \in Ingesters : IngestStep(i)
    \/ Detect \/ ActionStep \/ ExpiryStep
    \/ \E g \in Loops : LoopEnd(g)
    \/ ListenFails \/ WorkerStep
    \/ \E h \in Handlers : Request(h) \/ Respond(h) \/ DetachXDP(h)

(* The process is gone once Run returned or panicked.                       *)
Gone == main \in Ended /\ UNCHANGED vars
Next == (main \notin Ended /\ Running) \/ Gone

Spec == Init /\ [][Next]_vars

(* The scheduler runs some goroutine that can go on, and a select that finds*)
(* done or ctx.Done ready takes it in the end; enforcer calls end.  Work is *)
(* bounded here, so this much is enough.  Nothing is assumed of the mail    *)
(* server, of handlers and clients, or of a signal.                         *)
Progress ==
    \/ MainStep \/ SyslogBind \/ ActionStep \/ ExpireBan \/ Notify("exp")
    \/ \E i \in Waiting : SendEvent(i)
    \/ \E i \in Ingesters : IngestEnd(i)
    \/ \E g \in Loops : LoopEnd(g)
Fairness == WF_vars(main \notin Ended /\ Progress)
FairSpec == Spec /\ Fairness

----------------------------------------------------------------------------
(* Types, with the capacities of the three channels.                        *)
TypeOK ==
    /\ main \in Ended \cup {"serve", "shutdown", "grace", "stopIngesters", "xdpTest", "xdpClose", "wait", "closeMail", "drain"}
    /\ ctx \in BOOLEAN /\ late \in BOOLEAN /\ closed \in BOOLEAN
    /\ done \subseteq Ingesters
    /\ pc \in [Goroutines -> {"bind", "read", "send", "idle", "act", "notify", "exit"}]
    /\ conn \in {"none", "open", "closed"}
    /\ events \in 0..EventsCap /\ threats \in 0..ThreatsCap /\ work \in 0..MaxWork
    /\ req \in [Handlers -> {"idle", "busy", "detach"}]
    /\ xptr \in {"set", "nil"} /\ xdp \in {"attached", "detached"}
    /\ queue \in Seq(Nat) /\ Len(queue) <= MailCap /\ handed \in Seq(Nat) /\ mails \in Nat
    /\ worker \in {"idle", "sending", "done"} /\ result \in {"none", "nil", "error"}

(* The mail queue is closed only when nobody can send on it any more: a ban *)
(* or an expiry in flight at the signal still finds it open (a send on a    *)
(* closed channel panics, and runBanExpiry does not recover).               *)
NoSendOnClosedQueue == \A g \in {"pipe", "exp"} : pc[g] = "notify" => ~closed

(* A nil from EmailNotifier.Close means that nothing was left behind: the   *)
(* worker has ended behind an empty queue and every mail that Notify        *)
(* accepted was handed to send once and in order, those of bans and         *)
(* expiries that were still in flight when the signal came included.        *)
MailDrained ==
    result = "nil" => worker = "done" /\ queue = <<>> /\ handed = [k \in 1..mails |-> k]

(* However shutdown and the kill switch interleave, the XDP program is off  *)
(* the interface when the daemon has stopped in order.  main reads d.xdp    *)
(* without its lock: a handler that outlived the grace period of            *)
(* srv.Shutdown may set it to nil between the test and the Close, and then  *)
(* main panics; in no other case.  (An error of Close is only logged; it    *)
(* forgets the link before it returns one.)                                 *)
KillSwitchAtExit ==
    /\ main = "stopped" => xdp = "detached"
    /\ main = "panicked" => late

(* A mail server that hangs never holds up bans: Notify always returns.     *)
BansNeverWaitForMail == pc["pipe"] = "notify" ~> (pc["pipe"] # "notify" \/ main = "panicked")

(* After a signal the daemon ends: with full channels nobody reads, a hung  *)
(* mail server, and handlers that never return.                             *)
ShutdownCompletes == ctx ~> main \in Ended
=============================================================================
