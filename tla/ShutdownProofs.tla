---------------------------- MODULE ShutdownProofs ----------------------------
(***************************************************************************)
(* Theorems about Shutdown, for every set of ingesters, tickers and HTTP    *)
(* handlers, every channel capacity and every amount of work.               *)
(***************************************************************************)
EXTENDS Shutdown, SequenceTheorems, TLAPS

(* Whom main has waited for, and what it has closed, by where it is.        *)
WaitedFor ==
    /\ main \in {"closeMail", "drain", "stopped"} => \A g \in Goroutines : pc[g] = "exit"
    /\ closed => main \in {"drain", "stopped"}

(* Accepted mail is numbered, and goes from Notify to send once and in      *)
(* order.                                                                   *)
MailInOrder == handed \o queue = [k \in 1..mails |-> k]

(* The worker leaves an empty queue that is closed, and Close reports nil   *)
(* only of a worker that left.                                              *)
Drained ==
    /\ worker = "done" => queue = <<>> /\ closed
    /\ result = "nil" => worker = "done"

(* The handle and the program.                                              *)
Detached ==
    /\ xptr = "nil" => xdp = "detached"
    /\ main \in {"wait", "closeMail", "drain", "stopped"} => xdp = "detached"

(* No handler is left after the grace period unless it was late, and none   *)
(* can begin, so only a late one can clear d.xdp under main's eyes.         *)
QuietUnlessLate ==
    /\ main \notin {"serve", "shutdown"} => pc["listen"] = "exit"
    /\ (main \in {"stopIngesters", "xdpTest", "xdpClose"} /\ ~late) => \A h \in Handlers : req[h] = "idle"
    /\ (main = "xdpClose" /\ xptr = "nil") => late
    /\ main = "panicked" => late

IInv == TypeOK /\ WaitedFor /\ MailInOrder /\ Drained /\ Detached /\ QuietUnlessLate

----------------------------------------------------------------------------
(* Sequences of mail.                                                       *)

(* Taking the head of the queue moves it, and adds or loses nothing.        *)
LEMMA MoveHead ==
    ASSUME NEW s \in Seq(Nat), NEW t \in Seq(Nat), t # <<>>
    PROVE  /\ Append(s, Head(t)) \in Seq(Nat)
           /\ Tail(t) \in Seq(Nat) /\ Len(Tail(t)) = Len(t) - 1
           /\ Append(s, Head(t)) \o Tail(t) = s \o t
<1>1. Append(s, Head(t)) \in Seq(Nat) /\ Tail(t) \in Seq(Nat) /\ Len(Tail(t)) = Len(t) - 1
  BY HeadTailProperties, AppendProperties
<1>2. Append(s, Head(t)) \o Tail(t) \in Seq(Nat) /\ s \o t \in Seq(Nat)
  BY <1>1, ConcatProperties
<1>3. Len(Append(s, Head(t)) \o Tail(t)) = Len(s \o t)
  BY <1>1, <1>2, ConcatProperties, AppendProperties, LenProperties
<1>4. ASSUME NEW i \in 1..Len(s \o t)
      PROVE  (Append(s, Head(t)) \o Tail(t))[i] = (s \o t)[i]
  BY <1>1, <1>3, EmptySeq
<1>5. QED
  BY <1>1, <1>2, <1>3, <1>4, SeqEqual

(* Accepted mail is numbered on.                                            *)
Numbered(s, n) == s = [k \in 1..n |-> k]

LEMMA AppendNext ==
    ASSUME NEW s \in Seq(Nat), NEW t \in Seq(Nat), NEW n \in Nat, Numbered(s \o t, n)
    PROVE  /\ Append(t, n + 1) \in Seq(Nat) /\ Len(Append(t, n + 1)) = Len(t) + 1
           /\ Numbered(s \o Append(t, n + 1), n + 1)
<1>0. Len(s) \in Nat /\ Len(t) \in Nat
  BY LenProperties
<1>1. Append(t, n + 1) \in Seq(Nat) /\ Len(Append(t, n + 1)) = Len(t) + 1
  BY AppendProperties
<1>2. Len(s) + Len(t) = n
  <2>1. Len(s \o t) = Len(s) + Len(t) /\ s \o t \in Seq(Nat)
    BY ConcatProperties
  <2>2. DOMAIN (s \o t) = 1..Len(s \o t)
    BY <2>1, LenProperties
  <2>3. DOMAIN (s \o t) = 1..n
    BY DEF Numbered
  <2>4. QED
    BY <2>1, <2>2, <2>3, LenProperties
<1>7. \A i \in 1..n : (s \o t)[i] = i
  BY DEF Numbered
<1>3. s \o Append(t, n + 1) \in Seq(Nat) /\ Len(s \o Append(t, n + 1)) = n + 1
  <2>1. s \o Append(t, n + 1) \in Seq(Nat) /\ Len(s \o Append(t, n + 1)) = Len(s) + Len(Append(t, n + 1))
    BY <1>1, ConcatProperties
  <2>2. QED
    BY <1>0, <1>1, <1>2, <2>1
<1>4. s \o Append(t, n + 1) \in [1..(n + 1) -> Nat]
  BY <1>3, LenProperties
<1>5. ASSUME NEW i \in 1..(n + 1)
      PROVE  (s \o Append(t, n + 1))[i] = i
  <2>1. CASE i <= Len(s)
    <3>1. (s \o Append(t, n + 1))[i] = s[i] /\ (s \o t)[i] = s[i]
      <4>1. (s \o t)[i] = s[i]
        BY <1>0, <1>2, <2>1, ConcatProperties
      <4>2. (s \o Append(t, n + 1))[i] = s[i]
        BY <1>0, <1>1, <1>2, <2>1, ConcatProperties
      <4>3. QED
        BY <4>1, <4>2
    <3>2. i \in 1..n
      BY <1>2, <2>1, LenProperties
    <3>3. QED
      BY <1>7, <3>1, <3>2
  <2>2. CASE i > Len(s) /\ i <= n
    <3>1. (s \o Append(t, n + 1))[i] = Append(t, n + 1)[i - Len(s)] /\ (s \o t)[i] = t[i - Len(s)]
      <4>1. (s \o t)[i] = t[i - Len(s)]
        BY <1>0, <1>2, <2>2, ConcatProperties
      <4>2. (s \o Append(t, n + 1))[i] = Append(t, n + 1)[i - Len(s)]
        BY <1>0, <1>1, <1>2, <2>2, ConcatProperties
      <4>3. QED
        BY <4>1, <4>2
    <3>2. Append(t, n + 1)[i - Len(s)] = t[i - Len(s)]
      BY <1>2, <2>2, AppendProperties, LenProperties
    <3>3. QED
      <4>0. i \in 1..n
        BY <2>2
      <4>1. (s \o t)[i] = i
        BY <1>7, <4>0
      <4>2. QED
        BY <3>1, <3>2, <4>1
  <2>3. CASE i = n + 1
    <3>1. (s \o Append(t, n + 1))[i] = Append(t, n + 1)[i - Len(s)]
      BY <1>1, <1>2, <2>3, ConcatProperties, LenProperties
    <3>2. i - Len(s) = Len(t) + 1
      BY <1>2, <2>3, LenProperties
    <3>3. QED
      BY <3>1, <3>2, <2>3, AppendProperties
  <2>4. i <= Len(s) \/ (i > Len(s) /\ i <= n) \/ i = n + 1
    BY <1>0
  <2>5. QED
    BY <2>1, <2>2, <2>3, <2>4
<1>6. QED
  BY <1>1, <1>4, <1>5 DEF Numbered

----------------------------------------------------------------------------
(* One lemma per group of actions.                                          *)

LEMMA InitInv == Init => IInv
<1>1. Init => TypeOK
  <2>1. Init => pc \in [Goroutines -> {"bind", "read", "send", "idle", "act", "notify", "exit"}]
    BY DEF Init
  <2>2. 0 \in 0..EventsCap /\ 0 \in 0..ThreatsCap /\ 0 \in 0..MaxWork /\ 0 <= MailCap
    BY ShutdownAssumption
  <2>3. <<>> \in Seq(Nat) /\ Len(<<>>) = 0
    OBVIOUS
  <2>4. QED
    <3> SUFFICES ASSUME Init PROVE TypeOK
      OBVIOUS
    <3>1. queue \in Seq(Nat) /\ Len(queue) <= MailCap /\ handed \in Seq(Nat) /\ mails \in Nat
      BY <2>2, <2>3 DEF Init
    <3>2. events \in 0..EventsCap /\ threats \in 0..ThreatsCap /\ work \in 0..MaxWork
      BY <2>2 DEF Init
    <3>3. req \in [Handlers -> {"idle", "busy", "detach"}]
      BY DEF Init
    <3>4. QED
      BY <2>1, <3>1, <3>2, <3>3 DEF Init, TypeOK, Ended
<1>2. Init => WaitedFor /\ Detached /\ QuietUnlessLate /\ Drained
  BY DEF Init, WaitedFor, Detached, QuietUnlessLate, Drained
<1>3. Init => MailInOrder
  <2>1. <<>> \o <<>> = [k \in 1..0 |-> k]
    OBVIOUS
  <2>2. QED
    BY <2>1 DEF Init, MailInOrder
<1>4. QED
  BY <1>1, <1>2, <1>3 DEF IInv

(* Steps of the goroutines main waits for, none of which touches the mail   *)
(* queue, and none of which leaves its end.                                 *)
GoroutineStep ==
    \/ SyslogBind \/ Capture \/ (\E i \in Ingesters : IngestStep(i))
    \/ Detect \/ TakeThreat \/ HandleThreat \/ FindDue \/ ExpireBan
    \/ (\E g \in Loops : LoopEnd(g)) \/ ListenFails

LEMMA GoroutineFrame ==
    ASSUME TypeOK, GoroutineStep
    PROVE  /\ UNCHANGED <<daemon, api, mail>>
           /\ TypeOK'
           /\ \A g \in Goroutines : pc[g] = "exit" => pc'[g] = "exit"
<1> USE ShutdownAssumption DEF Goto, daemon, api, mail, TypeOK, Goroutines, Loops, Ended
<1>1. CASE SyslogBind
  BY <1>1 DEF SyslogBind
<1>2. CASE Capture
  BY <1>2 DEF Capture
<1>3. ASSUME NEW i \in Ingesters, IngestStep(i)
      PROVE  /\ UNCHANGED <<daemon, api, mail>>
             /\ TypeOK'
             /\ \A g \in Goroutines : pc[g] = "exit" => pc'[g] = "exit"
  <2>1. CASE Receive(i)
    BY <2>1 DEF Receive
  <2>2. CASE SendEvent(i)
    BY <2>2 DEF SendEvent
  <2>3. CASE IngestEnd(i)
    BY <2>3 DEF IngestEnd
  <2>4. QED
    BY <1>3, <2>1, <2>2, <2>3 DEF IngestStep
<1>4. CASE Detect
  BY <1>4 DEF Detect
<1>5. CASE TakeThreat
  BY <1>5 DEF TakeThreat
<1>6. CASE HandleThreat
  BY <1>6 DEF HandleThreat
<1>10. CASE FindDue
  BY <1>10 DEF FindDue
<1>11. CASE ExpireBan
  BY <1>11 DEF ExpireBan
<1>7. ASSUME NEW g \in Loops, LoopEnd(g)
      PROVE  /\ UNCHANGED <<daemon, api, mail>>
             /\ TypeOK'
             /\ \A k \in Goroutines : pc[k] = "exit" => pc'[k] = "exit"
  BY <1>7 DEF LoopEnd
<1>8. CASE ListenFails
  BY <1>8 DEF ListenFails
<1>9. QED
  BY <1>1, <1>2, <1>3, <1>4, <1>5, <1>6, <1>7, <1>8, <1>10, <1>11 DEF GoroutineStep

LEMMA GoroutineInv ==
    ASSUME IInv, GoroutineStep
    PROVE  IInv'
<1>1. /\ UNCHANGED <<daemon, api, mail>>
      /\ TypeOK'
      /\ \A g \in Goroutines : pc[g] = "exit" => pc'[g] = "exit"
  BY GoroutineFrame DEF IInv
<1>2. "listen" \in Goroutines
  BY DEF Goroutines
<1>3. WaitedFor' /\ QuietUnlessLate'
  BY <1>1, <1>2 DEF IInv, WaitedFor, QuietUnlessLate, daemon, api, mail
<1>4. MailInOrder' /\ Drained' /\ Detached'
  BY <1>1 DEF IInv, MailInOrder, Drained, Detached, daemon, api, mail
<1>5. QED
  BY <1>1, <1>3, <1>4 DEF IInv

(* A notification finds the queue open, since its goroutine still runs.     *)
LEMMA NotifyInv ==
    ASSUME IInv, NEW g \in {"pipe", "exp"}, Notify(g), main \notin Ended
    PROVE  IInv'
<1>1. g \in Goroutines
  BY DEF Goroutines, Loops
<1>2. pc'[g] # "exit" /\ pc[g] # "exit" /\ (\A k \in Goroutines \ {g} : pc'[k] = pc[k])
  BY <1>1 DEF Notify, Goto, IInv, TypeOK
<1>3. ~closed /\ worker # "done" /\ result # "nil"
  BY <1>1, <1>2 DEF IInv, WaitedFor, Drained
<1>4. UNCHANGED <<daemon, conn, events, threats, api, closed, worker, handed, result>>
  BY DEF Notify
<1>5. /\ queue' \in Seq(Nat) /\ Len(queue') <= MailCap /\ mails' \in Nat
      /\ handed' \o queue' = [k \in 1..mails' |-> k]
  <2>1. CASE UNCHANGED <<queue, mails>>
    BY <1>4, <2>1 DEF IInv, TypeOK, MailInOrder
  <2>2. CASE Len(queue) < MailCap /\ queue' = Append(queue, mails + 1) /\ mails' = mails + 1
    <3>1. /\ handed \in Seq(Nat) /\ queue \in Seq(Nat) /\ mails \in Nat
          /\ Numbered(handed \o queue, mails)
      BY DEF IInv, TypeOK, MailInOrder, Numbered
    <3>2. /\ queue' \in Seq(Nat) /\ Len(queue') = Len(queue) + 1
          /\ Numbered(handed \o queue', mails + 1)
      BY <2>2, <3>1, AppendNext
    <3>3. Len(queue') <= MailCap
      BY <2>2, <3>1, <3>2, LenProperties, ShutdownAssumption
    <3>4. QED
      <4>1. handed' = handed
        BY <1>4
      <4>2. Numbered(handed' \o queue', mails')
        BY <2>2, <3>2, <4>1
      <4>3. QED
        <5>1. handed' \o queue' = [k \in 1..mails' |-> k]
          BY <4>2, Zenon DEF Numbered
        <5>2. mails' \in Nat
          BY <2>2, <3>1
        <5>3. QED
          BY <3>2, <3>3, <5>1, <5>2
  <2>3. QED
    BY <2>1, <2>2 DEF Notify
<1>6. TypeOK'
  <2>1. pc' \in [Goroutines -> {"bind", "read", "send", "idle", "act", "notify", "exit"}] /\ work' \in 0..MaxWork
    <3>1. CASE Goto(g, "idle") /\ UNCHANGED work
      BY <1>1, <3>1 DEF Goto, IInv, TypeOK
    <3>2. CASE work < MaxWork /\ work' = work + 1 /\ Goto(g, "act")
      BY <1>1, <3>2, ShutdownAssumption DEF Goto, IInv, TypeOK
    <3>3. QED
      BY <3>1, <3>2 DEF Notify
  <2>2. QED
    BY <1>4, <1>5, <2>1 DEF IInv, TypeOK, daemon, api
<1>7. WaitedFor' /\ QuietUnlessLate'
  BY <1>1, <1>2, <1>4 DEF IInv, WaitedFor, QuietUnlessLate, daemon, api, Goroutines
<1>8. MailInOrder' /\ Drained' /\ Detached'
  BY <1>3, <1>4, <1>5 DEF IInv, MailInOrder, Drained, Detached, daemon, api
<1>9. QED
  BY <1>6, <1>7, <1>8 DEF IInv

(* Handlers.                                                                *)
LEMMA HandlerInv ==
    ASSUME IInv, NEW h \in Handlers, Request(h) \/ Respond(h) \/ DetachXDP(h)
    PROVE  IInv'
<1>1. UNCHANGED <<daemon, goroutines, mail>>
  BY DEF Request, Respond, DetachXDP
<1>2. TypeOK'
  <2>1. /\ req' \in [Handlers -> {"idle", "busy", "detach"}]
        /\ xptr' \in {"set", "nil"} /\ xdp' \in {"attached", "detached"}
    <3>1. CASE Request(h)
      BY <3>1 DEF IInv, TypeOK, Request
    <3>2. CASE Respond(h)
      BY <3>2 DEF IInv, TypeOK, Respond
    <3>3. CASE DetachXDP(h)
      BY <3>3 DEF IInv, TypeOK, DetachXDP
    <3>4. QED
      BY <3>1, <3>2, <3>3
  <2>2. QED
    BY <1>1, <2>1 DEF IInv, TypeOK, daemon, goroutines, mail
<1>3. WaitedFor' /\ MailInOrder' /\ Drained'
  BY <1>1 DEF IInv, WaitedFor, MailInOrder, Drained, daemon, goroutines, mail
<1>4. Detached'
  BY <1>1 DEF IInv, Detached, daemon, Request, Respond, DetachXDP
<1>5. QuietUnlessLate'
  <2>1. CASE Request(h)
    BY <1>1, <2>1 DEF IInv, QuietUnlessLate, daemon, goroutines, Request, TypeOK
  <2>2. CASE Respond(h) \/ DetachXDP(h)
    BY <1>1, <2>2 DEF IInv, QuietUnlessLate, daemon, goroutines, Respond, DetachXDP, TypeOK
  <2>3. QED
    BY <2>1, <2>2
<1>6. QED
  BY <1>2, <1>3, <1>4, <1>5 DEF IInv

(* The mail worker.                                                         *)
LEMMA WorkerInv ==
    ASSUME IInv, WorkerStep
    PROVE  IInv'
<1>1. UNCHANGED <<daemon, goroutines, api, closed, mails, result>>
  BY DEF WorkerStep, WorkerTake, WorkerSent, WorkerEnd
<1>2. /\ queue' \in Seq(Nat) /\ Len(queue') <= MailCap /\ handed' \in Seq(Nat)
      /\ handed' \o queue' = handed \o queue
      /\ (worker = "done" => worker' = "done") /\ worker' \in {"idle", "sending", "done"}
      /\ worker' = "done" => queue' = <<>> /\ closed'
      /\ UNCHANGED <<queue, handed>> \/ worker # "done"
  <2>1. CASE WorkerTake
    <3>1. handed \in Seq(Nat) /\ queue \in Seq(Nat) /\ queue # <<>>
      BY <2>1 DEF WorkerTake, IInv, TypeOK
    <3>2. /\ handed' \in Seq(Nat) /\ queue' \in Seq(Nat) /\ Len(queue') = Len(queue) - 1
          /\ handed' \o queue' = handed \o queue
      BY <2>1, <3>1, MoveHead DEF WorkerTake
    <3>3. Len(queue') <= MailCap
      BY <3>1, <3>2, LenProperties, ShutdownAssumption DEF IInv, TypeOK
    <3>4. QED
      BY <2>1, <3>2, <3>3 DEF WorkerTake
  <2>2. CASE WorkerSent \/ WorkerEnd
    BY <2>2 DEF WorkerSent, WorkerEnd, IInv, TypeOK
  <2>3. QED
    BY <2>1, <2>2 DEF WorkerStep
<1>3. TypeOK'
  BY <1>1, <1>2 DEF IInv, TypeOK, daemon, goroutines, api
<1>4. WaitedFor' /\ Detached' /\ QuietUnlessLate'
  BY <1>1 DEF IInv, WaitedFor, Detached, QuietUnlessLate, daemon, goroutines, api
<1>5. MailInOrder' /\ Drained'
  BY <1>1, <1>2 DEF IInv, MailInOrder, Drained
<1>6. QED
  BY <1>3, <1>4, <1>5 DEF IInv

(* Main, step by step.                                                      *)
LEMMA MainInv ==
    ASSUME IInv, Signal \/ MainStep
    PROVE  IInv'
<1> USE DEF IInv, MainTo, daemon, goroutines, api, mail
<1>1. "listen" \in Goroutines
  BY DEF Goroutines
<1>2. TypeOK'
  <2>1. CASE Signal \/ XdpTest
    BY <2>1 DEF TypeOK, Signal, XdpTest, Ended
  <2>6. CASE StopIngesters
    BY <2>6 DEF TypeOK, StopIngesters, Ended
  <2>5. CASE GracePeriod
    BY <2>5 DEF TypeOK, GracePeriod, Ended
  <2>2. CASE CloseListener
    BY <2>2, <1>1 DEF TypeOK, CloseListener, Goto, Ended
  <2>3. CASE XdpClose \/ WaitGroup \/ CloseMail \/ DrainMail
    BY <2>3 DEF TypeOK, XdpClose, WaitGroup, CloseMail, DrainMail, Ended
  <2>4. QED
    BY <2>1, <2>2, <2>3, <2>5, <2>6 DEF MainStep
<1>3. WaitedFor'
  <2>1. CASE CloseListener
    BY <2>1 DEF WaitedFor, CloseListener
  <2>2. CASE WaitGroup \/ CloseMail \/ DrainMail
    BY <2>2 DEF WaitedFor, WaitGroup, CloseMail, DrainMail
  <2>3. CASE Signal \/ GracePeriod \/ StopIngesters \/ XdpTest \/ XdpClose
    <3>1. /\ main' \notin {"closeMail", "drain", "stopped"} /\ main \notin {"drain", "stopped"}
          /\ closed' = closed
      <4>1. CASE GracePeriod
        BY <4>1 DEF GracePeriod
      <4>2. CASE StopIngesters
        BY <4>2 DEF StopIngesters
      <4>3. CASE Signal \/ XdpTest \/ XdpClose
        BY <4>3 DEF Signal, XdpTest, XdpClose
      <4>4. QED
        BY <2>3, <4>1, <4>2, <4>3
    <3>2. QED
      BY <3>1 DEF WaitedFor
  <2>4. QED
    BY <2>1, <2>2, <2>3 DEF MainStep
<1>4. Detached'
  BY DEF Detached, TypeOK, MainStep, Signal, CloseListener, GracePeriod, StopIngesters, XdpTest, XdpClose,
         WaitGroup, CloseMail, DrainMail
<1>5. QuietUnlessLate'
  <2>1. CASE Signal \/ CloseListener
    BY <2>1, <1>1 DEF QuietUnlessLate, Signal, CloseListener, Goto, TypeOK
  <2>2. CASE GracePeriod \/ StopIngesters \/ XdpTest
    BY <2>2 DEF QuietUnlessLate, GracePeriod, StopIngesters, XdpTest, TypeOK
  <2>3. CASE XdpClose \/ WaitGroup \/ CloseMail \/ DrainMail
    BY <2>3 DEF QuietUnlessLate, XdpClose, WaitGroup, CloseMail, DrainMail
  <2>4. QED
    BY <2>1, <2>2, <2>3 DEF MainStep
<1>6. UNCHANGED <<queue, worker, mails, handed>> /\ (closed => closed') /\ (result' = "nil" => worker = "done")
  BY DEF TypeOK, Drained, MainStep, Signal, CloseListener, GracePeriod, StopIngesters, XdpTest, XdpClose,
         WaitGroup, CloseMail, DrainMail
<1>7. Drained'
  BY <1>6 DEF Drained
<1>8. MailInOrder'
  BY <1>6 DEF MailInOrder
<1>9. QED
  BY <1>2, <1>3, <1>4, <1>5, <1>7, <1>8

LEMMA NextInv == IInv /\ [Next]_vars => IInv'
<1> SUFFICES ASSUME IInv, [Next]_vars PROVE IInv'
  OBVIOUS
<1>1. CASE UNCHANGED vars
  BY <1>1 DEF vars, daemon, goroutines, api, mail, IInv, TypeOK, WaitedFor, MailInOrder, Drained, Detached, QuietUnlessLate
<1>2. CASE main \notin Ended /\ Running
  BY <1>2, GoroutineInv, NotifyInv, HandlerInv, WorkerInv, MainInv
     DEF Running, GoroutineStep, ActionStep, ExpiryStep
<1>3. QED
  BY <1>1, <1>2 DEF Next, Gone

----------------------------------------------------------------------------
(* The inductive invariant holds of the shutdown sequence.                  *)
THEOREM Inductive == Spec => []IInv
BY InitInv, NextInv, PTL DEF Spec

(* Types, and the capacities of the channels (daemon.go, email.go).         *)
THEOREM TypeCorrect == Spec => []TypeOK
<1>1. IInv => TypeOK
  BY DEF IInv
<1>2. QED
  BY <1>1, Inductive, PTL

(* Nobody sends on the closed mail queue: the pipeline and the expiry loop  *)
(* are in the wait group, which main waits for before it closes notifiers.  *)
THEOREM QueueOpen == Spec => []NoSendOnClosedQueue
<1>1. IInv => NoSendOnClosedQueue
  BY DEF IInv, WaitedFor, NoSendOnClosedQueue, Goroutines, Loops
<1>2. QED
  BY <1>1, Inductive, PTL

(* A nil from Close means that the worker has ended and has had every mail  *)
(* Notify ever accepted, once and in order: main waits for all senders      *)
(* before it closes the queue, and the worker drains what is left.          *)
THEOREM MailDelivered == Spec => []MailDrained
<1>1. IInv => MailDrained
  <2> SUFFICES ASSUME IInv, result = "nil"
               PROVE  worker = "done" /\ queue = <<>> /\ handed = [k \in 1..mails |-> k]
    BY DEF MailDrained
  <2>1. worker = "done" /\ queue = <<>>
    BY DEF IInv, Drained
  <2>2. handed \in Seq(Nat) /\ handed \o <<>> = handed
    BY ConcatEmptySeq DEF IInv, TypeOK
  <2>3. QED
    BY <2>1, <2>2, Zenon DEF IInv, MailInOrder
<1>2. QED
  BY <1>1, Inductive, PTL

(* The program is off when the daemon has stopped, and the unlocked read of *)
(* d.xdp ends in a panic only behind a handler that outlived its grace.     *)
THEOREM OffAtExit == Spec => []KillSwitchAtExit
<1>1. IInv => KillSwitchAtExit
  BY DEF IInv, Detached, QuietUnlessLate, KillSwitchAtExit
<1>2. QED
  BY <1>1, Inductive, PTL
=============================================================================
