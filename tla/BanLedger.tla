------------------------------ MODULE BanLedger ------------------------------
(***************************************************************************)
(* What the bans table and the kernel's drop state promise an operator,     *)
(* whatever goroutines, handlers, faults and crashes are behind it:         *)
(*   - the table only grows, rows keep their address and go from current to *)
(*     expired, never back;                                                 *)
(*   - detection opens a ban only for an address it has no open ban for, in *)
(*     one atomic step (the code checks and inserts in separate statements);*)
(*   - an address starts being dropped only when the table has a row for it *)
(*     that is not a dry-run one.                                           *)
(***************************************************************************)
EXTENDS Integers

CONSTANTS IPs, NoIP, MaxBans

VARIABLES
    bans,    \* row id -> [ip, status, exp]
    nextId,  \* the id the next row gets
    drops    \* addresses whose packets the kernel is told to drop

vars == <<bans, nextId, drops>>

Ids == 1..MaxBans
Current == {"active", "manual", "dry_run"}

Init ==
    /\ bans = [id \in Ids |-> [ip |-> NoIP, status |-> "none", exp |-> "never"]]
    /\ nextId = 1
    /\ drops = {}

(* Open a ban: by detection ("active" or "dry_run") or by an operator.      *)
Open(i, s, e) ==
    /\ nextId \in Ids
    /\ s # "manual" =>
         \A id \in Ids : bans[id].ip = i => bans[id].status \notin {"active", "dry_run"}
    /\ bans' = [bans EXCEPT ![nextId] = [ip |-> i, status |-> s, exp |-> e]]
    /\ nextId' = nextId + 1
    /\ UNCHANGED drops

(* Close a ban, for whatever reason; a closed ban is history.               *)
Close(id) ==
    /\ bans[id].status \in Current
    /\ bans' = [bans EXCEPT ![id].status = "expired"]
    /\ UNCHANGED <<nextId, drops>>

(* A temporary ban's time is up.                                            *)
FallDue(id) ==
    /\ bans[id].status \in Current /\ bans[id].exp = "later"
    /\ bans' = [bans EXCEPT ![id].exp = "due"]
    /\ UNCHANGED <<nextId, drops>>

(* Start dropping an address that is on record.                             *)
Drop(i) ==
    /\ \E id \in Ids : bans[id].ip = i /\ bans[id].status \notin {"none", "dry_run"}
    /\ drops' = drops \cup {i}
    /\ UNCHANGED <<bans, nextId>>

(* Stop dropping some addresses.                                            *)
Release ==
    /\ drops' \in SUBSET drops
    /\ UNCHANGED <<bans, nextId>>

Next ==
    \/ \E i \in IPs, s \in Current, e \in {"never", "later"} : Open(i, s, e)
    \/ \E id \in Ids : Close(id) \/ FallDue(id)
    \/ \E i \in IPs : Drop(i)
    \/ Release

Spec == Init /\ [][Next]_vars
=============================================================================
