---------------------------- MODULE BanLifecycle ----------------------------
(***************************************************************************)
(* The life of a ban in the sipreaper daemon: the bans table (SQLite), the  *)
(* kernel state that drops packets (iptables/ipset rules and the pinned XDP *)
(* map), the whitelist, and every goroutine that reads or writes them:      *)
(*   "pipe"   the action pipeline       (daemon.go handleThreat)            *)
(*   "exp"    the ban expiry ticker     (daemon.go runBanExpiry)            *)
(*   "main"   startup and the signal loop (daemon.go Run)                   *)
(*   "maint"  the XDP maintenance ticker (daemon.go runXdpMaintenance)      *)
(*   ApiThreads  in-flight HTTP handlers (api/handlers.go)                  *)
(* A step is one store statement (the pool has a single connection, so a    *)
(* statement is atomic), one read or write of the whitelist under its lock, *)
(* or one backend call.  Wall-clock time is abstracted: a row with an       *)
(* expiry becomes due at some point.                                        *)
(***************************************************************************)
EXTENDS Integers, FiniteSets

CONSTANTS
    IPs,          \* source addresses
    NoIP,         \* "no address": locals of a goroutine with no work in hand
    MaxBans,      \* bound: rows ever inserted into the bans table
    ApiThreads,   \* concurrent HTTP handlers
    ApiOps,       \* the API operations clients issue in this instance
    Nets,         \* whitelist entries clients name: sets of addresses
    Statics,      \* contents the static whitelist of the config file can have
    Locals,       \* address sets the host's interfaces can have
    XdpMode,      \* enforcer.xdp: "off", "composite" or "standalone"
    XdpCap,       \* entries the XDP map can hold
    DryRunModes,  \* values enforcer.dry_run takes over restarts
    Faults,       \* subset of {"exec", "store", "attach", "schema"}
    Slow,         \* goroutines a ban may fall due on while they are still applying it
    MaxBoots      \* bound: daemon starts

Ops == {"create", "delete", "whitelist", "unwhitelist", "detach", "sighup"}

ASSUME ConstantsAssumption ==
    /\ NoIP \notin IPs
    /\ MaxBans \in Nat
    /\ ApiThreads \cap {"pipe", "exp", "main", "maint"} = {}
    /\ ApiOps \subseteq Ops
    /\ Nets \subseteq (SUBSET IPs \ {{}})
    /\ Statics \subseteq SUBSET IPs
    /\ Locals \subseteq SUBSET IPs
    /\ XdpMode \in {"off", "composite", "standalone"}
    /\ XdpCap \in Nat
    /\ DryRunModes \subseteq BOOLEAN
    /\ Slow \subseteq {"pipe", "exp", "main", "maint"} \cup ApiThreads
    /\ MaxBoots \in Nat

Ids == 1..MaxBans
Procs == {"pipe", "exp", "main", "maint"} \cup ApiThreads

(* The status column; "none" is a row not inserted yet.                     *)
AutoStatus == {"active", "dry_run"}
EnforcedStatus == {"active", "manual"}
CurrentStatus == {"active", "manual", "dry_run"}
Statuses == CurrentStatus \cup {"none", "expired"}

(* expires_at: NULL (permanent), in the future, or past.                    *)
Expiries == {"never", "later", "due"}
Rows == [ip : IPs \cup {NoIP}, status : Statuses, exp : Expiries]

PCs == {"down", "idle", "serve",                     \* main is down / others idle / signal loop
        "eval", "insert",                            \* creating a row
        "ban", "banX", "banned",                     \* Enforcer.Ban in progress
        "unban", "unbanX", "unbanned",               \* Enforcer.Unban in progress
        "scan",                                      \* expiry loop
        "reconcile", "recwant", "rechave", "recdel", \* reconcileXdp
        "restore", "restoring",                      \* restoreBans
        "clear", "expire", "addwl",                  \* delete / whitelist handlers
        "reload", "setwl"}                           \* ReloadDynamic

VARIABLES
    \* durable
    bans,      \* the bans table: row id -> row
    nextId,    \* AUTOINCREMENT
    wlDB,      \* the whitelist table
    fw,        \* addresses with a DROP rule in iptables / the ipset
    xmap,      \* addresses in the pinned XDP map
    boots,     \* daemon starts so far (bound only)
    \* volatile
    static, local, wlMem,   \* the in-memory whitelist
    dryRun,    \* engine.dryRun
    xdp,       \* d.xdp: "open" (attached) or "nil"
    enf,       \* d.enforcer: "base", "composite" or "xdp"
    gauge,     \* the sipreaper_active_bans metric (bound: saturates at MaxBans)
    pc,        \* where each goroutine is
    tgt,       \* the address it works on
    cur,       \* the row it works on
    seen,      \* the rows (with the status read) it still has to visit
    ips,       \* reconcile: addresses wanted, then addresses to delete
    net,       \* whitelist handlers: the entry to add; {} for a plain delete
    list,      \* ReloadDynamic: the entries read
    err        \* did the enforcer call return an error

durable == <<bans, nextId, wlDB, fw, xmap, boots>>
whitelist == <<static, local, wlMem>>
engine == <<dryRun, xdp, enf>>
locals == <<tgt, cur, seen, ips, net, list, err>>
vars == <<durable, whitelist, engine, gauge, pc, locals>>

NoRow == [ip |-> NoIP, status |-> "none", exp |-> "never"]
NothingSeen == [id \in Ids |-> "none"]

----------------------------------------------------------------------------
(* Store queries and helpers.                                               *)

(* Mutant: the query forgets dry_run rows.                                  *)
ActiveBansOf_NoDryRun(i) == {id \in Ids : bans[id].ip = i /\ bans[id].status \in EnforcedStatus}

(* store.GetActiveBanByIP: LIMIT 1 with no order, so any matching row.      *)
ActiveBansOf(i) == {id \in Ids : bans[id].ip = i /\ bans[id].status \in CurrentStatus}

(* store.ListEnforcedBans: the rows an enforcer should apply.               *)
EnforcedRows == {id \in Ids : bans[id].status \in EnforcedStatus}

(* Mutant: the query forgets dry_run rows.                                  *)
ExpiredRows_NoDryRun == {id \in EnforcedRows : bans[id].exp = "due"}

(* store.GetExpiredBans.                                                    *)
ExpiredRows == {id \in Ids : bans[id].status \in CurrentStatus /\ bans[id].exp = "due"}

(* A result set as the caller keeps it: the status each row was read with.  *)
Snapshot(S) == [id \in Ids |-> IF id \in S THEN bans[id].status ELSE "none"]
Pending(p) == {id \in Ids : seen[p][id] # "none"}
Visited(p, id) == [seen EXCEPT ![p] = [seen[p] EXCEPT ![id] = "none"]]

(* store.CreateBan.                                                         *)
CreateBan(i, s, e) ==
    /\ nextId \in Ids
    /\ bans' = [bans EXCEPT ![nextId] = [ip |-> i, status |-> s, exp |-> e]]
    /\ nextId' = nextId + 1

(* Mutant: a status word no query knows.                                    *)
UpdateBanStatus_Typo(id) == bans' = [bans EXCEPT ![id].status = "unbanned"]

(* store.UpdateBanStatus(id, "expired"); a failing statement changes nothing*)
UpdateBanStatus(id) ==
    \/ bans' = [bans EXCEPT ![id].status = "expired"]
    \/ "store" \in Faults /\ UNCHANGED bans

(* The statements on the whitelist table; ip_cidr is UNIQUE there.          *)
ListWhitelist == wlDB
AddWhitelist(n) == n \notin wlDB /\ wlDB' = wlDB \cup {n}
RemoveWhitelist(n) == wlDB' = wlDB \ {n}

(* whitelist.Contains: host addresses, static entries, dynamic entries.     *)
Contains(i) == i \in local \/ i \in static \/ \E n \in wlMem : i \in n

(* Bound: no new threat or request is taken once the rows are spoken for.   *)
RowsLeft == nextId + Cardinality({p \in Procs : pc[p] \in {"eval", "insert"}}) <= MaxBans

Goto(p, l) == pc' = [pc EXCEPT ![p] = l]
Serving == pc["main"] \in {"serve", "reload", "setwl"}
Idle(p) == pc[p] = "idle"

(* A goroutine that finished its work item forgets its locals.              *)
Return(p, l) ==
    /\ Goto(p, l)
    /\ tgt' = [tgt EXCEPT ![p] = NoIP]
    /\ cur' = [cur EXCEPT ![p] = 0]
    /\ net' = [net EXCEPT ![p] = {}]
    /\ err' = [err EXCEPT ![p] = FALSE]

----------------------------------------------------------------------------
(* Enforcer calls.  currentEnforcer() and the base member are one step, the *)
(* XDP member a second one; errors are collected, never short-circuited.    *)

BanBase(p) ==
    /\ pc[p] = "ban"
    /\ Goto(p, IF enf = "base" THEN "banned" ELSE "banX")
    /\ \/ /\ enf # "xdp"
          /\ fw' = fw \cup {tgt[p]}
          /\ UNCHANGED err
       \/ /\ enf # "xdp" /\ "exec" \in Faults
          /\ err' = [err EXCEPT ![p] = TRUE]
          /\ UNCHANGED fw
       \/ /\ enf = "xdp"
          /\ UNCHANGED <<fw, err>>
    /\ UNCHANGED <<bans, nextId, wlDB, xmap, boots, whitelist, engine, gauge,
                   tgt, cur, seen, ips, net, list>>

(* Mutant: Close detaches but leaves the map handles usable.                *)
BanXdp_StillOpen(p) ==
    /\ pc[p] = "banX"
    /\ Goto(p, "banned")
    /\ xmap' = xmap \cup {tgt[p]}
    /\ UNCHANGED <<bans, nextId, wlDB, fw, boots, whitelist, engine, gauge, locals>>

(* Put fails on a closed handle (kill switch) and when the map is full.     *)
BanXdp(p) ==
    /\ pc[p] = "banX"
    /\ Goto(p, "banned")
    /\ LET room == tgt[p] \in xmap \/ Cardinality(xmap) < XdpCap
       IN  \/ /\ xdp = "open" /\ room
              /\ xmap' = xmap \cup {tgt[p]}
              /\ UNCHANGED err
           \/ /\ xdp = "nil" \/ ~room \/ "exec" \in Faults
              /\ err' = [err EXCEPT ![p] = TRUE]
              /\ UNCHANGED xmap
    /\ UNCHANGED <<bans, nextId, wlDB, fw, boots, whitelist, engine, gauge,
                   tgt, cur, seen, ips, net, list>>

(* iptables Unban reads a failing -C as "no rule left": under an exec fault *)
(* it may leave the rule and still report success.                          *)
UnbanBase(p) ==
    /\ pc[p] = "unban"
    /\ Goto(p, IF enf = "base" THEN "unbanned" ELSE "unbanX")
    /\ \/ /\ enf # "xdp"
          /\ fw' = fw \ {tgt[p]}
          /\ UNCHANGED err
       \/ /\ enf # "xdp" /\ "exec" \in Faults
          /\ \E e \in BOOLEAN : err' = [err EXCEPT ![p] = e]
          /\ UNCHANGED fw
       \/ /\ enf = "xdp"
          /\ UNCHANGED <<fw, err>>
    /\ UNCHANGED <<bans, nextId, wlDB, xmap, boots, whitelist, engine, gauge,
                   tgt, cur, seen, ips, net, list>>

(* Delete of an absent key is a success.                                    *)
UnbanXdp(p) ==
    /\ pc[p] = "unbanX"
    /\ Goto(p, "unbanned")
    /\ \/ /\ xdp = "open"
          /\ xmap' = xmap \ {tgt[p]}
          /\ UNCHANGED err
       \/ /\ xdp = "nil" \/ "exec" \in Faults
          /\ err' = [err EXCEPT ![p] = TRUE]
          /\ UNCHANGED xmap
    /\ UNCHANGED <<bans, nextId, wlDB, fw, boots, whitelist, engine, gauge,
                   tgt, cur, seen, ips, net, list>>

----------------------------------------------------------------------------
(* The action pipeline: one goroutine, one threat at a time.                *)

(* A threat arrives; Evaluate drops it when its source is whitelisted.      *)
PipeTake(i) ==
    /\ pc["main"] # "down" /\ Idle("pipe") /\ RowsLeft
    /\ ~Contains(i)
    /\ Goto("pipe", "eval")
    /\ tgt' = [tgt EXCEPT !["pipe"] = i]
    /\ UNCHANGED <<durable, whitelist, engine, gauge, cur, seen, ips, net, list, err>>

(* Evaluate: nothing to do when the address has a current ban.              *)
PipeCheck ==
    /\ pc["pipe"] = "eval"
    /\ \/ /\ ActiveBansOf(tgt["pipe"]) # {} \/ "store" \in Faults
          /\ Return("pipe", "idle")
       \/ /\ ActiveBansOf(tgt["pipe"]) = {}
          /\ Goto("pipe", "insert")
          /\ UNCHANGED <<tgt, cur, net, err>>
    /\ UNCHANGED <<durable, whitelist, engine, gauge, seen, ips, list>>

(* Evaluate: record the ban.  The escalation ladder picks the duration.     *)
PipeInsert ==
    /\ pc["pipe"] = "insert"
    /\ \/ \E e \in {"never", "later"} :
            /\ CreateBan(tgt["pipe"], IF dryRun THEN "dry_run" ELSE "active", e)
            /\ IF dryRun
               THEN Return("pipe", "idle")
               ELSE /\ Goto("pipe", "ban")
                    /\ cur' = [cur EXCEPT !["pipe"] = nextId]
                    /\ UNCHANGED <<tgt, net, err>>
       \/ /\ "store" \in Faults
          /\ Return("pipe", "idle")
          /\ UNCHANGED <<bans, nextId>>
    /\ UNCHANGED <<wlDB, fw, xmap, boots, whitelist, engine, gauge, seen, ips, list>>

(* handleThreat after the enforcer call: errors are only logged.            *)
PipeDone ==
    /\ pc["pipe"] = "banned"
    /\ gauge' = IF gauge < MaxBans THEN gauge + 1 ELSE gauge
    /\ Return("pipe", "idle")
    /\ UNCHANGED <<durable, whitelist, engine, seen, ips, list>>

----------------------------------------------------------------------------
(* The expiry ticker.                                                       *)

NextScan(left) == IF left = {} THEN "idle" ELSE "scan"

ExpTick ==
    /\ pc["main"] # "down" /\ Idle("exp")
    /\ seen' = [seen EXCEPT !["exp"] = Snapshot(ExpiredRows)]
    /\ Goto("exp", NextScan(ExpiredRows))
    /\ UNCHANGED <<durable, whitelist, engine, gauge, tgt, cur, ips, net, list, err>>

(* The row is marked expired first; dry-run rows have no rule to remove.    *)
ExpMark(id) ==
    /\ pc["exp"] = "scan" /\ id \in Pending("exp")
    /\ UpdateBanStatus(id)
    /\ IF seen["exp"][id] = "dry_run"
       THEN /\ seen' = Visited("exp", id)
            /\ Goto("exp", NextScan(Pending("exp") \ {id}))
            /\ UNCHANGED <<tgt, cur>>
       ELSE /\ Goto("exp", "unban")
            /\ cur' = [cur EXCEPT !["exp"] = id]
            /\ tgt' = [tgt EXCEPT !["exp"] = bans[id].ip]
            /\ UNCHANGED seen
    /\ UNCHANGED <<nextId, wlDB, fw, xmap, boots, whitelist, engine, gauge, ips, net, list, err>>

ExpDone ==
    /\ pc["exp"] = "unbanned"
    /\ gauge' = IF gauge > -MaxBans THEN gauge - 1 ELSE gauge
    /\ seen' = Visited("exp", cur["exp"])
    /\ Return("exp", NextScan(Pending("exp") \ {cur["exp"]}))
    /\ UNCHANGED <<durable, whitelist, engine, ips, list>>

(* Time passes a row's expires_at.  Bans last minutes and an enforcer call  *)
(* seconds, so only goroutines in Slow are overtaken while they apply one.  *)
Applying(p, id) ==
    \/ cur[p] = id /\ pc[p] \in {"ban", "banX", "banned"}
    \/ p = "main" /\ id \in Pending(p)

FallDue(id) ==
    /\ bans[id].status \in CurrentStatus /\ bans[id].exp = "later"
    /\ \A p \in Procs \ Slow : ~Applying(p, id)
    /\ bans' = [bans EXCEPT ![id].exp = "due"]
    /\ UNCHANGED <<nextId, wlDB, fw, xmap, boots, whitelist, engine, gauge, pc, locals>>

----------------------------------------------------------------------------
(* reconcileXdp, run by main at startup and by the maintenance ticker.      *)

RecEnd(p) == IF p = "main" THEN "restore" ELSE "idle"

(* main reconciles once, before restoreBans; the ticker only exists while   *)
(* the API is up.  A store error ends the round.                            *)
RecStart(p) ==
    /\ IF p = "main" THEN pc[p] = "reconcile" ELSE Serving /\ Idle(p) /\ xdp = "open"
    /\ \/ /\ seen' = [seen EXCEPT ![p] = Snapshot(EnforcedRows)]
          /\ Goto(p, "recwant")
       \/ /\ "store" \in Faults
          /\ Goto(p, RecEnd(p))
          /\ UNCHANGED seen
    /\ UNCHANGED <<durable, whitelist, engine, gauge, tgt, cur, ips, net, list, err>>

(* whitelist wins: a whitelisted row is not wanted in the map.              *)
RecWant(p) ==
    /\ pc[p] = "recwant"
    /\ \/ /\ Pending(p) = {}
          /\ Goto(p, "rechave")
          /\ UNCHANGED <<seen, ips>>
       \/ \E id \in Pending(p) :
            /\ seen' = Visited(p, id)
            /\ ips' = [ips EXCEPT ![p] = IF Contains(bans[id].ip) THEN @ ELSE @ \cup {bans[id].ip}]
            /\ UNCHANGED pc
    /\ UNCHANGED <<durable, whitelist, engine, gauge, tgt, cur, net, list, err>>

(* Mutant: the set difference the wrong way round.                          *)
RecHave_Swapped(p) ==
    /\ pc[p] = "rechave"
    /\ ips' = [ips EXCEPT ![p] = @ \ xmap]
    /\ Goto(p, "recdel")
    /\ UNCHANGED <<durable, whitelist, engine, gauge, tgt, cur, seen, net, list, err>>

(* xe.List fails once the kill switch has closed the handle, and may fail   *)
(* under an exec fault; either ends the round.                              *)
RecHave(p) ==
    /\ pc[p] = "rechave"
    /\ \/ /\ xdp = "open"
          /\ ips' = [ips EXCEPT ![p] = xmap \ @]
          /\ Goto(p, "recdel")
       \/ /\ xdp = "nil" \/ "exec" \in Faults
          /\ ips' = [ips EXCEPT ![p] = {}]
          /\ Goto(p, RecEnd(p))
    /\ UNCHANGED <<durable, whitelist, engine, gauge, tgt, cur, seen, net, list, err>>

(* Every unwanted entry is deleted; a failing delete is ignored.            *)
RecDel(p) ==
    /\ pc[p] = "recdel"
    /\ \/ /\ ips[p] = {}
          /\ Goto(p, RecEnd(p))
          /\ UNCHANGED <<ips, xmap>>
       \/ \E i \in ips[p] :
            /\ ips' = [ips EXCEPT ![p] = @ \ {i}]
            /\ \/ xdp = "open" /\ xmap' = xmap \ {i}
               \/ (xdp = "nil" \/ "exec" \in Faults) /\ UNCHANGED xmap
            /\ UNCHANGED pc
    /\ UNCHANGED <<bans, nextId, wlDB, fw, boots, whitelist, engine, gauge,
                   tgt, cur, seen, net, list, err>>

----------------------------------------------------------------------------
(* Startup, restoreBans, SIGHUP, and the end of the process.                *)

(* whitelist.ReloadStatic: the entries of the config file.                  *)
ReloadStatic == static' \in Statics

(* whitelist.New and SetLocal.                                              *)
LoadWhitelist == ReloadStatic /\ wlMem' = ListWhitelist /\ local' \in Locals

(* XdpEnforcer.Init: a map pinned with another schema is recreated empty,   *)
(* then the program is attached, which may fail.                            *)
InitXdp ==
    /\ \/ xmap' = xmap
       \/ XdpMode # "off" /\ "schema" \in Faults /\ xmap' = {}
    /\ \/ XdpMode # "off" /\ xdp' = "open"
       \/ (XdpMode = "off" \/ "attach" \in Faults) /\ xdp' = "nil"

(* setupEnforcer and setupXDP: every failure stays on the base enforcer.    *)
SetupEnforcer ==
    enf' = IF xdp' = "nil" THEN "base" ELSE IF XdpMode = "standalone" THEN "xdp" ELSE "composite"

(* Everything Run does before it starts goroutines.                         *)
Boot ==
    /\ pc["main"] = "down" /\ boots < MaxBoots
    /\ boots' = boots + 1
    /\ LoadWhitelist /\ InitXdp /\ SetupEnforcer
    /\ dryRun' \in DryRunModes
    /\ Goto("main", IF xdp' = "open" THEN "reconcile" ELSE "restore")
    /\ UNCHANGED <<bans, nextId, wlDB, fw, gauge, locals>>

RestoreList ==
    /\ pc["main"] = "restore"
    /\ \/ /\ seen' = [seen EXCEPT !["main"] = Snapshot(EnforcedRows)]
          /\ Goto("main", "restoring")
       \/ /\ "store" \in Faults
          /\ Goto("main", "serve")
          /\ UNCHANGED seen
    /\ UNCHANGED <<durable, whitelist, engine, gauge, tgt, cur, ips, net, list, err>>

(* Mutant: rows are trusted to be in the pinned map already.                *)
RestoreRow_Skip(id) ==
    /\ pc["main"] = "restoring" /\ id \in Pending("main")
    /\ seen' = Visited("main", id)
    /\ UNCHANGED <<durable, whitelist, engine, gauge, pc, tgt, cur, ips, net, list, err>>

(* Mutant: restoring writes back the status it read.                        *)
RestoreRow_Reopen(id) ==
    /\ pc["main"] = "restoring" /\ id \in Pending("main")
    /\ bans' = [bans EXCEPT ![id].status = seen["main"][id]]
    /\ seen' = Visited("main", id)
    /\ UNCHANGED <<nextId, wlDB, fw, xmap, boots, whitelist, engine, gauge, pc, tgt, cur, ips, net, list, err>>

(* Mutant: rows are re-applied without a look at the whitelist.             *)
RestoreRow_NoCheck(id) ==
    /\ pc["main"] = "restoring" /\ id \in Pending("main")
    /\ seen' = Visited("main", id)
    /\ Goto("main", "ban")
    /\ tgt' = [tgt EXCEPT !["main"] = bans[id].ip]
    /\ cur' = [cur EXCEPT !["main"] = id]
    /\ UNCHANGED <<durable, whitelist, engine, gauge, ips, net, list, err>>

(* A row whose address is whitelisted by now is closed, not re-applied.     *)
RestoreRow(id) ==
    /\ pc["main"] = "restoring" /\ id \in Pending("main")
    /\ seen' = Visited("main", id)
    /\ IF Contains(bans[id].ip)
       THEN UpdateBanStatus(id) /\ UNCHANGED <<pc, tgt, cur>>
       ELSE /\ Goto("main", "ban")
            /\ tgt' = [tgt EXCEPT !["main"] = bans[id].ip]
            /\ cur' = [cur EXCEPT !["main"] = id]
            /\ UNCHANGED bans
    /\ UNCHANGED <<nextId, wlDB, fw, xmap, boots, whitelist, engine, gauge, ips, net, list, err>>

RestoreNext ==
    /\ \/ pc["main"] = "banned" /\ Return("main", "restoring")
       \/ pc["main"] = "restoring" /\ Pending("main") = {} /\ Return("main", "serve")
    /\ UNCHANGED <<durable, whitelist, engine, gauge, seen, ips, list>>

(* SIGHUP: the static whitelist, then ReloadDynamic.                        *)
Sighup ==
    /\ "sighup" \in ApiOps /\ pc["main"] = "serve"
    /\ ReloadStatic
    /\ Goto("main", "reload")
    /\ UNCHANGED <<durable, local, wlMem, engine, gauge, locals>>

(* The minute ticker that re-reads the host's interfaces.                   *)
LocalRefresh ==
    /\ pc["main"] # "down"
    /\ local' \in Locals \ {local}
    /\ UNCHANGED <<durable, static, wlMem, engine, gauge, pc, locals>>

ReloadEnd(p) == IF p = "main" THEN "serve" ELSE "idle"

(* Mutant: a store error goes on with the empty list it came with.          *)
ReloadList_ErrorEmpty(p) ==
    /\ pc[p] = "reload"
    /\ \E l \in {ListWhitelist} \cup (IF "store" \in Faults THEN {{}} ELSE {}) :
         list' = [list EXCEPT ![p] = l]
    /\ Goto(p, "setwl")
    /\ UNCHANGED <<durable, whitelist, engine, gauge, tgt, cur, seen, ips, net, err>>

(* whitelist.ReloadDynamic lists the table, then swaps the list under mu; a *)
(* store error is only logged and leaves the old list in place.             *)
ReloadList(p) ==
    /\ pc[p] = "reload"
    /\ \/ /\ list' = [list EXCEPT ![p] = ListWhitelist]
          /\ Goto(p, "setwl")
          /\ UNCHANGED <<tgt, cur, net, err>>
       \/ /\ "store" \in Faults
          /\ Return(p, ReloadEnd(p))
          /\ UNCHANGED list
    /\ UNCHANGED <<durable, whitelist, engine, gauge, seen, ips>>

ReloadSet(p) ==
    /\ pc[p] = "setwl"
    /\ wlMem' = list[p]
    /\ list' = [list EXCEPT ![p] = {}]
    /\ Return(p, ReloadEnd(p))
    /\ UNCHANGED <<durable, static, local, engine, gauge, seen, ips>>

(* The process dies at any point.  The program detaches, rules and the      *)
(* pinned map stay.                                                         *)
AllDown == [p \in Procs |-> IF p = "main" THEN "down" ELSE "idle"]
Each(v) == [p \in Procs |-> v]

Crash ==
    /\ pc["main"] # "down" /\ boots < MaxBoots
    /\ static' = {} /\ local' = {} /\ wlMem' = {}
    /\ dryRun' = FALSE /\ xdp' = "nil" /\ enf' = "base" /\ gauge' = 0
    /\ pc' = AllDown /\ tgt' = Each(NoIP) /\ cur' = Each(0) /\ seen' = Each(NothingSeen)
    /\ ips' = Each({}) /\ net' = Each({}) /\ list' = Each({}) /\ err' = Each(FALSE)
    /\ UNCHANGED durable

----------------------------------------------------------------------------
(* HTTP handlers.                                                           *)

Request(t, op) == op \in ApiOps /\ Serving /\ Idle(t)

(* handleCreateBan: a whitelisted address is refused with 409.              *)
ApiCreate(t, i) ==
    /\ Request(t, "create") /\ RowsLeft
    /\ ~Contains(i)
    /\ Goto(t, "eval")
    /\ tgt' = [tgt EXCEPT ![t] = i]
    /\ UNCHANGED <<durable, whitelist, engine, gauge, cur, seen, ips, net, list, err>>

(* Mutant: the rule goes in before the row.                                 *)
ApiCheck_BanFirst(t) ==
    /\ pc[t] = "eval"
    /\ ActiveBansOf(tgt[t]) = {}
    /\ Goto(t, "ban")
    /\ UNCHANGED <<durable, whitelist, engine, gauge, locals>>

ApiCheck(t) ==
    /\ pc[t] = "eval"
    /\ \/ /\ ActiveBansOf(tgt[t]) # {} \/ "store" \in Faults
          /\ Return(t, "idle")
       \/ /\ ActiveBansOf(tgt[t]) = {}
          /\ Goto(t, "insert")
          /\ UNCHANGED <<tgt, cur, net, err>>
    /\ UNCHANGED <<durable, whitelist, engine, gauge, seen, ips, list>>

ApiInsert(t) ==
    /\ pc[t] = "insert"
    /\ \/ \E e \in {"never", "later"} :
            /\ CreateBan(tgt[t], "manual", e)
            /\ Goto(t, "ban")
            /\ cur' = [cur EXCEPT ![t] = nextId]
            /\ UNCHANGED <<tgt, net, err>>
       \/ /\ "store" \in Faults
          /\ Return(t, "idle")
          /\ UNCHANGED <<bans, nextId>>
    /\ UNCHANGED <<wlDB, fw, xmap, boots, whitelist, engine, gauge, seen, ips, list>>

(* An enforcer error closes the row again and answers 500.                  *)
ApiBanned(t) ==
    /\ pc[t] = "banned"
    /\ IF err[t] THEN UpdateBanStatus(cur[t]) ELSE UNCHANGED bans
    /\ Return(t, "idle")
    /\ UNCHANGED <<nextId, wlDB, fw, xmap, boots, whitelist, engine, gauge, seen, ips, list>>

(* handleDeleteBan: the row GetActiveBanByIP returned is the one to clear.  *)
ApiDelete(t, i) ==
    /\ Request(t, "delete")
    /\ \E id \in ActiveBansOf(i) : seen' = [seen EXCEPT ![t] = Snapshot({id})]
    /\ Goto(t, "clear")
    /\ UNCHANGED <<durable, whitelist, engine, gauge, tgt, cur, ips, net, list, err>>

(* currentBansCoveredBy: a bare address (a singleton here) finds one current*)
(* row of any status, a CIDR every active or manual row inside it.          *)
CoveredBy(n) ==
    IF \E i \in IPs : n = {i}
    THEN LET rows == {id \in Ids : bans[id].ip \in n /\ bans[id].status \in CurrentStatus}
         IN  IF rows = {} THEN {{}} ELSE {{id} : id \in rows}
    ELSE {{id \in EnforcedRows : bans[id].ip \in n}}

(* handleAddWhitelist: overlapping bans are a 409 unless clear_ban is set.  *)
ApiWhitelist(t, n) ==
    /\ Request(t, "whitelist")
    /\ \E clear \in BOOLEAN : \E S \in CoveredBy(n) :
         /\ S = {} \/ clear
         /\ seen' = [seen EXCEPT ![t] = Snapshot(S)]
         /\ net' = [net EXCEPT ![t] = n]
         /\ Goto(t, IF S = {} THEN "addwl" ELSE "clear")
    /\ UNCHANGED <<durable, whitelist, engine, gauge, tgt, cur, ips, list, err>>

(* Both handlers: unban (dry-run rows have no rule), then close the row.    *)
ApiClear(t, id) ==
    /\ pc[t] = "clear" /\ id \in Pending(t)
    /\ Goto(t, IF seen[t][id] = "dry_run" THEN "expire" ELSE "unban")
    /\ tgt' = [tgt EXCEPT ![t] = bans[id].ip]
    /\ cur' = [cur EXCEPT ![t] = id]
    /\ UNCHANGED <<durable, whitelist, engine, gauge, seen, ips, net, list, err>>

(* The enforcer refused: answer 500 and leave the row current.              *)
ApiUnbanFailed(t) ==
    /\ pc[t] = "unbanned" /\ err[t]
    /\ seen' = [seen EXCEPT ![t] = NothingSeen]
    /\ Return(t, "idle")
    /\ UNCHANGED <<durable, whitelist, engine, gauge, ips, list>>

ApiExpire(t) ==
    /\ pc[t] = "expire" \/ (pc[t] = "unbanned" /\ ~err[t])
    /\ \/ /\ bans' = [bans EXCEPT ![cur[t]].status = "expired"]
          /\ seen' = Visited(t, cur[t])
          /\ LET left == Pending(t) \ {cur[t]}
             IN  IF left = {} /\ net[t] = {}
                 THEN Return(t, "idle")
                 ELSE /\ Goto(t, IF left = {} THEN "addwl" ELSE "clear")
                      /\ UNCHANGED <<tgt, cur, net, err>>
       \/ /\ "store" \in Faults
          /\ seen' = [seen EXCEPT ![t] = NothingSeen]
          /\ Return(t, "idle")
          /\ UNCHANGED bans
    /\ UNCHANGED <<nextId, wlDB, fw, xmap, boots, whitelist, engine, gauge, ips, list>>

(* A second insert of the same entry fails and answers 500, no reload.      *)
ApiAddWhitelist(t) ==
    /\ pc[t] = "addwl"
    /\ \/ /\ net[t] \in wlDB \/ "store" \in Faults
          /\ Return(t, "idle")
          /\ UNCHANGED wlDB
       \/ /\ AddWhitelist(net[t])
          /\ Goto(t, "reload")
          /\ UNCHANGED <<tgt, cur, net, err>>
    /\ UNCHANGED <<bans, nextId, fw, xmap, boots, whitelist, engine, gauge, seen, ips, list>>

(* handleRemoveWhitelist: deleting an absent entry is not an error.         *)
ApiUnwhitelist(t, n) ==
    /\ Request(t, "unwhitelist")
    /\ RemoveWhitelist(n)
    /\ Goto(t, "reload")
    /\ UNCHANGED <<bans, nextId, fw, xmap, boots, whitelist, engine, gauge, locals>>

(* XdpEnforcer.Close: the program detaches, the maps stay pinned and filled,*)
(* and every later use of the handle fails.                                 *)
CloseXdp == xdp' = "nil" /\ UNCHANGED xmap

(* detachXDP, under enfMu: close the handle, go back to the base enforcer.  *)
ApiDetach ==
    /\ "detach" \in ApiOps /\ Serving /\ xdp = "open"
    /\ CloseXdp /\ enf' = "base"
    /\ UNCHANGED <<bans, nextId, wlDB, fw, boots, whitelist, dryRun, gauge, pc, locals>>

----------------------------------------------------------------------------
Init ==
    /\ bans = [id \in Ids |-> NoRow] /\ nextId = 1
    /\ wlDB = {} /\ fw = {} /\ xmap = {} /\ boots = 0
    /\ static = {} /\ local = {} /\ wlMem = {}
    /\ dryRun = FALSE /\ xdp = "nil" /\ enf = "base" /\ gauge = 0
    /\ pc = AllDown /\ tgt = Each(NoIP) /\ cur = Each(0) /\ seen = Each(NothingSeen)
    /\ ips = Each({}) /\ net = Each({}) /\ list = Each({}) /\ err = Each(FALSE)

EnforcerStep(p) == BanBase(p) \/ BanXdp(p) \/ UnbanBase(p) \/ UnbanXdp(p)
ReconcileStep(p) == RecStart(p) \/ RecWant(p) \/ RecHave(p) \/ RecDel(p)
ReloadStep(p) == ReloadList(p) \/ ReloadSet(p)

PipeStep == PipeCheck \/ PipeInsert \/ PipeDone \/ EnforcerStep("pipe")
ExpStep == ExpTick \/ (\E id \in Ids : ExpMark(id)) \/ ExpDone \/ EnforcerStep("exp")
MaintStep == ReconcileStep("maint")
StartupStep == ReconcileStep("main") \/ RestoreList \/ (\E id \in Ids : RestoreRow(id))
               \/ RestoreNext \/ EnforcerStep("main")
MainStep == StartupStep \/ ReloadStep("main")

ApiRequest(t) ==
    \/ \E i \in IPs : ApiCreate(t, i) \/ ApiDelete(t, i)
    \/ \E n \in Nets : ApiWhitelist(t, n) \/ ApiUnwhitelist(t, n)
ApiStep(t) ==
    \/ ApiCheck(t) \/ ApiInsert(t) \/ ApiBanned(t) \/ ApiUnbanFailed(t)
    \/ (\E id \in Ids : ApiClear(t, id)) \/ ApiExpire(t) \/ ApiAddWhitelist(t)
    \/ EnforcerStep(t) \/ ReloadStep(t)

Environment ==
    \/ \E i \in IPs : PipeTake(i)
    \/ \E id \in Ids : FallDue(id)
    \/ Sighup \/ LocalRefresh \/ Boot \/ Crash \/ ApiDetach
    \/ \E t \in ApiThreads : ApiRequest(t)

Next ==
    \/ Environment \/ PipeStep \/ ExpStep \/ MaintStep \/ MainStep
    \/ \E t \in ApiThreads : ApiStep(t)

Spec == Init /\ [][Next]_vars

(* Goroutines that have work are scheduled and tickers tick; clients,       *)
(* attackers, signals, crashes and restarts are not owed to anyone.         *)
Fairness ==
    /\ WF_vars(PipeStep) /\ WF_vars(ExpStep) /\ WF_vars(MaintStep) /\ WF_vars(MainStep)
    /\ \A t \in ApiThreads : WF_vars(ApiStep(t))
FairSpec == Spec /\ Fairness

----------------------------------------------------------------------------
(* Properties.                                                              *)

(* Type correctness of the durable and the volatile state.                  *)
TypeOK ==
    /\ bans \in [Ids -> Rows]
    /\ nextId \in 1..(MaxBans + 1)
    /\ wlDB \subseteq Nets
    /\ fw \subseteq IPs
    /\ xmap \subseteq IPs
    /\ boots \in 0..MaxBoots
    /\ static \subseteq IPs /\ local \subseteq IPs /\ wlMem \subseteq Nets
    /\ dryRun \in BOOLEAN
    /\ xdp \in {"open", "nil"}
    /\ enf \in {"base", "composite", "xdp"}
    /\ gauge \in (-MaxBans)..MaxBans
    /\ pc \in [Procs -> PCs]
    /\ tgt \in [Procs -> IPs \cup {NoIP}]
    /\ cur \in [Procs -> 0..MaxBans]
    /\ seen \in [Procs -> [Ids -> Statuses]]
    /\ ips \in [Procs -> SUBSET IPs]
    /\ net \in [Procs -> Nets \cup {{}}]
    /\ list \in [Procs -> SUBSET Nets]
    /\ err \in [Procs -> BOOLEAN]

(* Detection never opens a second ban for an address that has one: at most  *)
(* one active or dry_run row per address, over any interleaving of Evaluate *)
(* with expiry, API handlers and restarts (engine.go:49-57, 82-92).         *)
SingleAutoBan ==
    \A a, b \in Ids :
        (bans[a].status \in AutoStatus /\ bans[b].status \in AutoStatus /\ bans[a].ip = bans[b].ip) => a = b

(* The table is written ahead of the kernel: an address with a rule or a    *)
(* map entry has a row that is not an open dry run, though perhaps an       *)
(* expired one, also after a crash between any two steps and in whatever    *)
(* mode the daemon is restarted.                                            *)
Shadow == {"none", "dry_run"}
Recorded(i) == \E id \in Ids : bans[id].ip = i /\ bans[id].status \notin Shadow
RecordedBeforeDropped == \A i \in fw \cup xmap : Recorded(i)

(* The inductive strengthening of the two: rows are dense and have an       *)
(* address, snapshots and row handles refer to rows that exist (the rows    *)
(* that main restores to rows that were never dry_run), a goroutine         *)
(* about to drop an address has its row on record, and between the check    *)
(* and the insert of Evaluate no other goroutine opens an automatic ban.    *)
RowsDense ==
    \A id \in Ids : /\ bans[id].status # "none" => bans[id].ip \in IPs
                    /\ id >= nextId => bans[id].status = "none"
HandlesExist ==
    /\ \A p \in Procs : /\ \A id \in Ids : seen[p][id] # "none" => bans[id].status # "none"
                        /\ cur[p] # 0 => bans[cur[p]].status # "none"
    /\ \A id \in Ids : seen["main"][id] # "none" => bans[id].status \notin Shadow
TargetsRecorded ==
    \A p \in Procs : /\ pc[p] \in {"eval", "insert"} => tgt[p] \in IPs
                     /\ pc[p] \in {"ban", "banX"} => tgt[p] \in IPs /\ Recorded(tgt[p])
                     /\ pc[p] = "addwl" => net[p] \in Nets
CheckStillHolds ==
    pc["pipe"] = "insert" =>
        \A id \in Ids : bans[id].ip = tgt["pipe"] => bans[id].status \notin AutoStatus
IInv ==
    /\ TypeOK /\ RowsDense /\ HandlesExist /\ TargetsRecorded /\ CheckStillHolds
    /\ SingleAutoBan /\ RecordedBeforeDropped

(* What the table and the kernel promise together (module BanLedger).       *)
Ledger == INSTANCE BanLedger WITH drops <- fw \cup xmap
LedgerSpec == Ledger!Spec

(* An address is enforced by a firewall rule, or by the map while the       *)
(* program is attached.                                                     *)
Blocked(i) == i \in fw \/ (xdp = "open" /\ i \in xmap)
HasEnforcedRow(i) == \E id \in EnforcedRows : bans[id].ip = i

(* Once the kill switch closed the XDP handle, no call in flight, late ban  *)
(* or reconcile round touches the map again until the daemon restarts.      *)
KillSwitchFreezesMap ==
    [][(xdp = "nil" /\ pc["main"] # "down") => (xmap' = xmap /\ xdp' = "nil")]_vars

(* An address that is whitelisted while no goroutine has it in hand is safe *)
(* until the entry goes: no threat, request, restore or expiry takes it up, *)
(* and it gets no new row, rule or map entry.                               *)
InHand(i) == \E p \in Procs : tgt[p] = i /\ pc[p] \in {"eval", "insert", "ban", "banX"}
RowsOf(i) == {id \in Ids : bans[id].ip = i}
WhitelistShields ==
    [][\A i \in IPs : (Contains(i) /\ ~InHand(i)) =>
          /\ ~InHand(i)'
          /\ RowsOf(i)' = RowsOf(i)
          /\ i \in (fw \cup xmap)' => i \in fw \cup xmap]_vars

(* Whatever reloads cross, fail or come late, the list in memory leaves the *)
(* table only over an entry whose own row changed: an entry on which the    *)
(* table, the list and every list read and not yet installed agree stays    *)
(* that way while its row is left alone (whitelist.go ReloadDynamic).       *)
Agreed(n) ==
    /\ n \in wlMem <=> n \in wlDB
    /\ \A p \in Procs : pc[p] = "setwl" => (n \in list[p] <=> n \in wlDB)
WhitelistSettles ==
    [][\A n \in Nets :
          (Agreed(n) /\ pc'["main"] # "down" /\ (n \in wlDB' <=> n \in wlDB)) => Agreed(n)']_vars

(* A ban whose time is up is closed, unless the daemon dies first: no order *)
(* of rows, racing handler or restart makes the ticker skip it for good.    *)
DueBansExpire ==
    \A id \in Ids :
        (bans[id].exp = "due" /\ bans[id].status # "expired") ~> (bans[id].status = "expired" \/ pc["main"] = "down")

(* DB wins, one way: an entry of the attached XDP map that no enforced row  *)
(* wants, or whose address is whitelisted, is removed by reconcile (or      *)
(* becomes wanted again, or the kill switch is pulled).                     *)
Unwanted(i) == ~HasEnforcedRow(i) \/ Contains(i)
StaleEntriesHeal ==
    \A i \in IPs :
        (xdp = "open" /\ i \in xmap /\ Unwanted(i))
            ~> (i \notin xmap \/ ~Unwanted(i) \/ xdp = "nil")

(* After a restart every enforced row is blocked again, even from an empty  *)
(* map, unless it is closed or whitelisted first or the daemon dies again.  *)
RestartReappliesBans ==
    \A id \in Ids :
        (pc["main"] = "restore" /\ id \in EnforcedRows)
            ~> (Blocked(bans[id].ip) \/ id \notin EnforcedRows \/ Contains(bans[id].ip)
                \/ pc["main"] = "down")

----------------------------------------------------------------------------
(* What the documentation says and the code does not do.                    *)

(* how-it-works.md:220: a banned address is blocked once the handlers that  *)
(* work on it are done.                                                     *)
EnforcedRowsBlocked ==
    \A id \in EnforcedRows :
        Blocked(bans[id].ip) \/ ~Serving \/ \E p \in Procs : tgt[p] = bans[id].ip
=============================================================================
