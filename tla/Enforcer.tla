------------------------------- MODULE Enforcer -------------------------------
(***************************************************************************)
(* What callers may rely on of a ban backend (the interface Enforcer of     *)
(* action/enforcer.go) when several goroutines call it at once: only a Ban  *)
(* in flight adds its address, only an Unban in flight removes its address, *)
(* a call that succeeds had its effect at some moment while it ran (but for *)
(* an Unban whose look-up failed, Miss), and a call that fails left at most *)
(* a removal behind.                                                        *)
(***************************************************************************)
EXTENDS Naturals

CONSTANTS
    IPs,     \* addresses
    Callers  \* goroutines

VARIABLES
    drops,  \* the addresses dropped
    call,   \* the call each goroutine is in
    faults  \* commands that failed so far

Idle == [op |-> "none"]
Calls == [op : {"ban", "unban"}, ip : IPs, stage : {"running", "done", "failed"}]

Init == drops = {} /\ call = [p \in Callers |-> Idle] /\ faults = 0

Running(p) == call[p] # Idle /\ call[p].stage = "running"
To(p, s) == call' = [call EXCEPT ![p].stage = s]
Effect(p) == IF call[p].op = "ban" THEN drops \cup {call[p].ip} ELSE drops \ {call[p].ip}

Begin(p) ==
    /\ call[p] = Idle
    /\ \E c \in Calls : c.stage = "running" /\ call' = [call EXCEPT ![p] = c]
    /\ UNCHANGED drops

(* The call takes effect and will report success.                           *)
Achieve(p) == Running(p) /\ drops' = Effect(p) /\ To(p, "done")

(* An Unban may find the address again and remove it again.                 *)
Remove(p) == Running(p) /\ call[p].op = "unban" /\ drops' = Effect(p) /\ UNCHANGED call

Fail(p) == Running(p) /\ To(p, "failed") /\ UNCHANGED drops

(* An Unban whose look-up fails reports success.                            *)
Miss(p) ==
    /\ Running(p) /\ call[p].op = "unban" /\ To(p, "done")
    /\ faults' > faults
    /\ UNCHANGED drops

(* A command fails without consequence.                                     *)
Glitch == faults' > faults /\ UNCHANGED <<drops, call>>

End(p) ==
    /\ call[p] # Idle /\ ~Running(p)
    /\ call' = [call EXCEPT ![p] = Idle]
    /\ UNCHANGED drops

(* The process or the host dies.                                            *)
Die == call' = [p \in Callers |-> Idle] /\ drops' \in {drops, {}}

Next ==
    \/ \E p \in Callers : Begin(p) \/ Achieve(p) \/ Remove(p) \/ Fail(p) \/ Miss(p) \/ End(p)
    \/ Glitch \/ Die

Spec == Init /\ [][Next /\ faults' >= faults]_<<drops, call, faults>>
=============================================================================
