------------------------------ MODULE Escalation ------------------------------
(***************************************************************************)
(* The escalation ladder (decision/engine.go) over time, for one address:   *)
(* how long each ban lasts, given the bans section of the configuration and *)
(* the rows that detection, dry-run mode and operators left in the table.   *)
(* Rows of different addresses do not interact, a row only opens when none  *)
(* is current, and an active and a dry_run row count alike, so the state is *)
(* the starts of all rows and the details of the latest.                    *)
(***************************************************************************)
EXTENDS Integers, Sequences, FiniteSets, FiniteSetsExt

CONSTANTS
    Configs,  \* bans sections the config file can hold
    Gap,      \* an offender that comes back within Gap is persistent
    Outage,   \* longest time a stopped daemon or a failing store holds a check up
    MaxBans,  \* bound: rows
    MaxTime   \* bound: the clock

ASSUME EscalationAssumption ==
    /\ Configs \subseteq [durations : Seq(Int), cooldown : Int, check_interval : Nat]
    /\ {Gap, Outage, MaxBans, MaxTime} \subseteq Nat

VARIABLES
    cfg,     \* the accepted bans section
    now,     \* the clock
    bans,    \* banned_at of the address's rows in the order of their ids
    last,    \* the latest row
    streak   \* history: automatic bans in a row that followed one another within Gap

vars == <<cfg, now, bans, last, streak>>

Never == MaxTime + 100  \* expires_at NULL: later than any time the clock shows

(* Config.Validate on the bans section; 0 is a permanent ban.               *)
Validate(c) == c.durations # <<>> /\ \A k \in DOMAIN c.durations : c.durations[k] >= 0

(* runBanExpiry ticks every 30 s when no interval is given.                 *)
CheckInterval(c) == IF c.check_interval = 0 THEN 1 ELSE c.check_interval

(* Mutant: a count beyond the ladder finds no rung.                         *)
DurationForCount_NoClamp(prior) == IF prior < Len(cfg.durations) THEN cfg.durations[prior + 1] ELSE 0

(* durationForCount: the last rung is for everybody beyond it.  Validate    *)
(* keeps out the empty ladder it has a default for.                         *)
DurationForCount(prior) == cfg.durations[Min({prior + 1, Len(cfg.durations)})]

(* Mutant: the cooldown is forgotten.                                       *)
BanCountByIP_NoSince(since) == Len(bans)

(* Mutant: the row's own clock second is left out of the window.            *)
BanCountByIP_Strict(since) == Cardinality({k \in DOMAIN bans : bans[k] > since})

(* store.BanCountByIP: every row counts, manual and dry-run ones too.       *)
BanCountByIP(since) == Cardinality({k \in DOMAIN bans : bans[k] >= since})

(* Evaluate and handleCreateBan go on only when GetActiveBanByIP finds none.*)
Free == ~last.open /\ Len(bans) < MaxBans

CreateBan(a, d, n) ==
    /\ bans' = Append(bans, now)
    /\ last' = [auto |-> a, count |-> n, open |-> TRUE, exp |-> IF d > 0 THEN now + d ELSE Never, end |-> Never]

(* Evaluate, for a threat of an address without a current ban.  A failing   *)
(* count reads as a first offence.                                          *)
Evaluate ==
    /\ Free
    /\ \E fails \in BOOLEAN :
         LET prior == IF fails THEN 0 ELSE BanCountByIP(now - cfg.cooldown)
         IN  /\ CreateBan(TRUE, DurationForCount(prior), prior + 1)
             /\ streak' = IF fails THEN 0 ELSE IF bans # <<>> /\ now - last.end <= Gap THEN streak + 1 ELSE 1
    /\ UNCHANGED <<cfg, now>>

(* handleCreateBan: any duration, 0 for a permanent ban.                    *)
ManualBan ==
    /\ Free
    /\ \E d \in 0..1 : CreateBan(FALSE, d, 1)
    /\ streak' = 0
    /\ UNCHANGED <<cfg, now>>

Close == last' = [last EXCEPT !.open = FALSE, !.end = now, !.exp = Never]

(* The expiry ticker, and an operator who deletes the ban before.           *)
Expire ==
    /\ last.open /\ last.exp <= now
    /\ Close
    /\ UNCHANGED <<cfg, now, bans, streak>>
DeleteBan ==
    /\ last.open
    /\ Close
    /\ UNCHANGED <<cfg, now, bans, streak>>

(* Time passes; a due ban waits for the next check, and for the daemon to   *)
(* be restarted or the store to answer again when the check cannot be made. *)
Tick ==
    /\ now < MaxTime
    /\ now < last.exp + CheckInterval(cfg) + Outage
    /\ now' = now + 1
    /\ UNCHANGED <<cfg, bans, last, streak>>

NoBan == [auto |-> FALSE, count |-> 0, open |-> FALSE, exp |-> Never, end |-> 0]

Init ==
    /\ cfg \in {c \in Configs : Validate(c)}
    /\ now = 0 /\ bans = <<>> /\ last = NoBan /\ streak = 0

Next == Evaluate \/ ManualBan \/ Expire \/ DeleteBan \/ Tick

Spec == Init /\ [][Next]_vars

----------------------------------------------------------------------------
Rung == Min({last.count, Len(cfg.durations)})
Lasts(d) == IF d > 0 THEN d ELSE Never
Longest(c) == Max({Lasts(c.durations[k]) : k \in DOMAIN c.durations})

(* From one ban of a persistent offender to its next, at most.              *)
Spacing(c) == Longest(c) + CheckInterval(c) + Outage + Gap

(* An offender that comes back within Gap of every ban is on rung k from    *)
(* its k-th ban on and never below it again, for every rung whose k - 1     *)
(* earlier bans fit into the cooldown.  BanCountByIP is a window over the   *)
(* starts of bans, so a long ban pushes the earlier ones out of it: with    *)
(* the default 24h rung and 48h cooldown that is rung 2.                    *)
PersistentClimbs ==
    \A k \in 1..Len(cfg.durations) :
        (k <= streak /\ (k - 1) * Spacing(cfg) <= cfg.cooldown) => Rung >= k

(* An address that kept clear of bans for longer than the cooldown is back  *)
(* on the first rung, whatever it and operators did before.                 *)
CleanIsForgiven ==
    [][(Evaluate /\ bans # <<>> /\ now - last.end > cfg.cooldown) => last'.count = 1]_vars

(* No detector locks an address out for good unless the ladder says so      *)
(* (config.go:235): an automatic ban ends with the longest rung and the     *)
(* first check the daemon can make after it.                                *)
NoLockout ==
    (last.open /\ last.auto /\ \A k \in DOMAIN cfg.durations : cfg.durations[k] > 0) =>
        now <= bans[Len(bans)] + Longest(cfg) + CheckInterval(cfg) + Outage
=============================================================================
