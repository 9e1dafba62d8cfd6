# A verification of sipreaper

sipreaper reads SIP traffic from logs and from the wire, recognises sources that
attack a SIP server, and drops them in the kernel. This directory holds TLA+
models of it, TLC configurations that check them on small instances, and
TLAPS proofs about every one of them. `PROJECT.json` is the index: which
definition models which lines, what each run checks, which defect (mutant) each
property is known to detect, the hazards, and the theorems.

Paths below are relative to `src/`.

## 1. The system

```
 log files ─ LogTailer ─┐                          ┌─ ban expiry ticker ──┐
 syslog ─── SyslogIngest┼→ events ─ detection ─→ threats ─ action pipeline┤→ bans table (SQLite)
 wire ───── PcapCapture ┘  channel  pipeline     channel  decision engine │→ iptables / ipset rules
                                    dedup,                                │→ pinned XDP map
                                    detectors    HTTP API, CLI ───────────┤
                                                 XDP maintenance ─────────┤
                                                 startup, SIGHUP, signals ┘
```

| component | state | operations | what makes it correct |
|---|---|---|---|
| decision engine, `internal/decision/engine.go` | none of its own; reads whitelist and table | `Evaluate`: whitelist check, current-ban check, escalation, insert | one open automatic ban per address although check and insert are separate statements; a persistent offender climbs, a clean one is forgiven, nobody is locked out by accident |
| action pipeline, `internal/daemon/daemon.go` | the threat in hand | `handleThreat`: evaluate, enforce, count | a row is on record before anything is dropped |
| ban expiry, `daemon.go` | the list it walks | mark a due row expired, then unban | every due ban is closed |
| startup, restore, reload, `daemon.go` | – | build the whitelist and the enforcer, reconcile, `restoreBans`, SIGHUP | what the table says is in force again after a restart |
| ban store, `internal/store/store.go` | `bans`, `whitelist`, `events` tables, one connection | one SQL statement each | rows are never reopened or renamed |
| whitelist, `internal/whitelist`, `internal/localaddr` | static, dynamic and host entries in memory | `Contains`, two reloads, the interface refresh | a reload moves no entry but those whose rows changed |
| management API, `internal/api` | – | create and delete a ban, add (with `clear_ban`) and remove a whitelist entry, XDP detach | each handler's steps keep the table and the kernel together whatever runs in between |
| iptables and ipset enforcers, prefilter, `internal/action` | chain, rules, set | `Init`, `Ban`, `Unban`, composite order, `Apply` | what a member reported banned is dropped and what every member released after looking is not, through failing commands, crashes and restarts; excepted are addresses on which calls of both kinds cross, and an `Unban` whose own look-up failed |
| XDP enforcer and program, `internal/banner` | pinned maps, the attached link | `Init`, `Ban`, `Unban`, `List`, `Close`; the verdict on a frame | after `Close` nothing changes the map; the program looks where the daemon wrote |
| XDP maintenance, `daemon.go` | – | `reconcileXdp` at startup and every five minutes, `detachXDP` | unwanted entries disappear |
| log tailer, `internal/ingest/logtailer.go` | open file, offset, partial line | poll, read, rotation check, send, stop | whole lines, once, in order; stop always ends it |
| packet capture, `internal/ingest/pcap.go` | the inflight map | `handleSIP`, overflow eviction, prune ticker, drop-on-full send | an outcome is attributed to the sender of the request; memory is bounded |
| dedup, `internal/ingest/dedup.go` | key → time | `isDup`, prune ticker | one event of one exchange is counted once |
| detection pipeline, `daemon.go` | two bounded channels | receive, dedup, every detector, non-blocking offer | detection never waits for the action pipeline |
| sliding window and detectors, `internal/detect` | per-source windows | `AddKeyed`, `Count`, `DistinctCount`, sweep, `Detect` | sweeps never change which alarms are raised, and the cap only by leaving the newest entries; counts do not notice it, distinct counts and ratios do |
| syslog ingest, `internal/ingest/syslog.go` | socket, `done` | bind, read, send, stop | stop ends it, bound or not, blocked or not |
| notifiers, `internal/action/email.go` | mail queue, worker | `Notify`, `Close` | mail never holds up bans; nobody sends on a closed queue |
| graceful shutdown, `daemon.go` | context, wait group | cancel, grace period, stop, detach, wait, drain | it ends, and leaves nothing attached |
| SIP parser, configuration, metrics, CLI | – | – | see section 8 |

What is hard in this system, and hardly reached by its unit tests:

- six kinds of goroutines and any number of HTTP handlers work on one table, one
  firewall, one map and one whitelist, and no lock spans two of them: every
  check is stale by the time its result is used;
- the process may die between a store statement and the kernel call that
  belongs to it, and rules and pinned map outlive it;
- kernel calls fail, and the callers treat a failure differently: the pipeline
  logs it, a handler undoes its row, `iptables -C` failing reads as "no rule";
- a log is renamed, recreated and truncated under its reader, a line is half
  written when it is read;
- responses arrive late, repeated, or after the record they need was evicted;
- windows, channels and maps are bounded, and behave differently when full;
- the enforcers take no lock: two goroutines work on one chain between each
  other's `iptables` commands;
- shutdown has to end goroutines that are blocked on each other, next to HTTP
  handlers that it does not wait for beyond five seconds.

`PROJECT.json` lists each of these as a hazard at the line where it bites.

## 2. Modules

| module | models | lines of code it stands for |
|---|---|---|
| `BanLifecycle` | decision engine, action pipeline, expiry, startup and restore, reconcile, kill switch, whitelist, store, enforcers and every API handler, composed | daemon.go, engine.go, store.go, whitelist.go, handlers.go, composite.go, iptables.go, enforcer_linux.go |
| `BanLedger` | abstract: what table and kernel promise together | – |
| `BanLifecycleProofs` | theorems about `BanLifecycle` | – |
| `BanLedgerProofs` | the proof that `BanLifecycle` implements `BanLedger`, and the theorems about its whitelist | – |
| `MCBanLifecycle` | small sets for TLC | – |
| `LogTail` | the tailer against a writer, logrotate, the events channel and `Stop` | logtailer.go |
| `PcapPairing`, `MCPcapPairing` | `handleSIP` with the inflight map against senders, a server and a proxy leg | pcap.go |
| `SlidingWindow` | one source in one window, as pure operators | detect/detector.go |
| `Detection`, `MCDetection` | ingest channel, dedup, detectors, threats channel | dedup.go, detect/*.go, daemon.go |
| `Firewall` | iptables, ipset, XDP and composite enforcers command by command, prefilter, XDP verdict, crash and reboot | iptables.go, ipset.go, composite.go, prefilter.go, enforcer_linux.go, keys.go, xdp_ban.c, daemon.go |
| `Enforcer` | abstract: what callers rely on of a backend | the interface in action/enforcer.go |
| `Shutdown` | `Run` from the signal to its return, with ingesters, pipelines, tickers, handlers and the mail queue | daemon.go, email.go, syslog.go, server.go |
| `Escalation`, `MCEscalation` | the ladder and the ban count over time, for one address | engine.go, config.go, store.go |
| `LogTailProofs`, `PcapPairingProofs`, `DetectionProofs`, `FirewallProofs`, `ShutdownProofs`, `EscalationProofs` | theorems about the module they are named after | – |

How they fit: `BanLifecycle` takes a backend call for one step on a set of
addresses and the ladder for a free choice; `Firewall` opens the call up and
`Escalation` the choice. `Detection` and `Shutdown` share the two channels, the
first asking what is detected, the second how it all stops.

### BanLifecycle

A behaviour interleaves the goroutines `"pipe"`, `"exp"`, `"main"`, `"maint"`
and one process per concurrent HTTP handler. `pc[p]` says where a goroutine is;
`tgt`, `cur`, `seen`, `ips`, `net`, `list` and `err` are its Go locals: the
address and the row it works on, the result set it walks (with the status each
row had when it was read, which is what the code tests later), the addresses
reconcile wants, the whitelist entry and list in hand, the enforcer's error.
Durable state is `bans`, `nextId`, `wlDB`, `fw` (addresses with a DROP rule) and
`xmap` (addresses in the pinned map); everything else is lost in `Crash`.

The grain is one store statement, one whitelist operation under its lock, or one
backend call. That is the grain at which the code can be interleaved: the store
has a single connection, so a statement is atomic, and no transaction or lock
spans two of them. A composite `Ban` is two steps, base then XDP, because
`detachXDP` and others run in between.

Guards are the code's early returns (`PipeTake` is the part of `Evaluate` that
passes the whitelist check, `ApiCheck` the 409 test). `Faults` switches on error
paths: `"store"` lets statements fail, `"exec"` backend calls, `"attach"` the
XDP attach, `"schema"` recreates the pinned map empty. A full map and a closed
handle fail without any fault.

Abstractions, chosen so that control is complete:

- time: a row with an expiry becomes `due` at some point. A ban may fall due
  while a goroutine in `Slow` is still applying it; all runs that pass put every
  goroutine in `Slow`;
- the escalation ladder is a free choice between a permanent and a temporary
  ban, a superset of what it computes;
- a whitelist entry is the set of addresses it covers, a bare address a
  singleton; the v4 and v6 maps are one set;
- several rules for one address are one member of `fw`, and a call is one step.
  `Firewall` has the rules, the loop and the steps in between, and shows
  (`PromiseSpec`) that a call that succeeds takes effect at one moment, except for an
  `Unban` whose look-up fails (here the exec fault of `UnbanBase`), with one
  difference to this model: an `Unban` that overlaps a `Ban` of the same address
  may remove the address more than once;
- the metric gauge saturates at the row bound.

Bounds: `MaxBans` rows, `MaxBoots` starts; `RowsLeft` keeps goroutines from
starting work for which no row is left, so a bound never blocks a goroutine half
way.

### BanLedger

Three promises an operator relies on: rows only go from current to expired and
keep their address; detection opens a ban for an address in *one atomic step*
and only if it has none open; the kernel starts to drop an address only when the
table has a row for it that is not an open dry run. `BanLifecycle` implements it with `drops <- fw \cup xmap`
(`LedgerSpec`): the check and the insert of `Evaluate`, two statements with
everything else in between, behave as one.

### LogTail

The log is a sequence of files (inodes) of line pieces; `path` is the one the
name refers to. The writer writes pieces, reopens between lines, logrotate
renames and recreates or truncates. The tailer's steps are those of `Run`: the
loop head, `ReadString` (which returns a line or fills its buffer with *some* of
what is there), end of file with the partial line kept up to a limit,
`checkRotation`, reopen, wait, `handleLine`, the send that also listens to
`done`. A read may also fail in the middle of the file, which the code treats like
its end. Whether a line matches a parser is a free choice.

### PcapPairing

Anybody, the server included, sends requests with or without Call-ID and
credentials; a captured request is answered at any later time, any number of
times. `HandleRequest` and `HandleResponse` are the two halves of `handleSIP`.
The history `requests` and the last event `report` state what must be true of
what was reported: `JudgedByLatestRequest`, that whatever was evicted, pruned or sent
again meanwhile, a response is judged by the latest request of its call and sender. `Batch` stands for `inflightMaxEntries / 10`; the packet clock
is strictly increasing, like the monotonic clock behind `seen`.

### SlidingWindow and Detection

`SlidingWindow` is written over sequences of `[t, key]`, as the code's slices
are: append, drop what is expired (the oldest entries) and whatever exceeds the cap. `Detection`
puts every detector (one predicate each for what it counts) behind dedup and
between the two channels. `accepted` is the history of the events that reached
the detectors; `AlarmsExact` compares each alarm with what a window computed from
that history, all of it or (for distinct counts and ratios) its newest `Cap` entries,
would say. `SameEventOnce` speaks of events from
the wire: a log line has no Call-ID, and the pipeline does not ask dedup about it.
`LiveEntries` is the loop of `pruneLocked`, one result per entry, so that it can be
reasoned about.

### Firewall and Enforcer

The kernel is a chain with a count of rules per address (`rules`), of jumps from
INPUT and of set matches, the ipset, and the two XDP maps; every rule in the
chain drops, so only counts matter. A call of `Ban` or `Unban` is a process whose
steps are single `iptables`, `ipset` or map commands. Any command may fail for no
reason of ours (`faults` counts these), and some fail for a reason: the chain or
the set is missing, or the address is IPv6. `Boot` runs `Init` of the base and
`Apply` of the prefilter in the order of `setupEnforcer`, over whatever the last
start left behind, and `Init` of XDP, which may find maps of another layout or fail
to attach; the daemon then stays on the base enforcer. `attached` is the link, which
is not pinned and goes with the process; `Members` is what `setupXDP` made of the
active enforcer. `Drops(fr)` is the fate of a frame: INPUT and the chain, or, while it
is attached, the XDP program with its walk over VLAN tags. `fate` records what each
member last reported of an address; it is unknown while a call is under way, after
calls of both kinds crossed, and after a backend lost its table with a banned one, and
it is "missed" when an `Unban` reported success after a look-up that failed.

`Enforcer` is the interface as a specification: a call begins, takes effect or
fails, ends; an `Unban` may remove repeatedly, and may report success without
effect only if a command failed. `Firewall` implements it, the composite by its
first member, which is the one it lists.

### Shutdown

`main` walks through the end of `Run` line by line; `pc` says where each member
of the wait group is. Events, threats and due bans are counts, since only whether
a channel is full or empty matters here. `req` are HTTP handlers, which are not in
the wait group; `xptr` is `d.xdp`, which `main` reads without the lock that
`detachXDP` holds, so a handler that runs past the grace period can set it to nil
between test and use. That is a data race: `main` panics, or still holds the
pointer and closes it again. Mail is numbered so that loss and reordering show.

### Escalation

One address, with the clock, the starts of all its rows and the latest row. A
row opens only when none is current (races that open two are `BanLifecycle`'s
subject). A due ban is closed by the first check the daemon can make: within one check
interval, plus up to `Outage` while it is stopped or the store fails. The configuration is any
of a set that `Validate` accepts, so refused ladders, a permanent rung and a
negative cooldown are among the inputs.

## 3. Runs that pass

| run | instance | shows |
|---|---|---|
| `ban_safety` | 2 addresses and all networks over them, 2 rows, 1 handler creating and deleting bans and whitelist entries (with and without `clear_ban`), firewall only, live and dry-run starts, 2 starts | `TypeOK`; `SingleAutoBan`; `RecordedBeforeDropped`; `WhitelistShields`: a whitelisted address nobody has in hand gets no row, rule or call; the refinement `LedgerSpec` |
| `ban_all` | 1 address, 1 row, every API operation and SIGHUP, composite enforcer, store, exec and attach faults | the inductive invariant `IInv` of the proofs; `KillSwitchFreezesMap`: no call that was in flight when the kill switch was pulled changes the map or reattaches; `LedgerSpec` under faults; `WhitelistSettles`: with a handler and SIGHUP reloading at the same time over a failing store, no reload moves an entry on which the table, the list in memory and the lists in flight agree |
| `xdp_heal` | 1 address, 2 rows, standalone XDP, static whitelist and host addresses changing, map recreated empty, 2 starts, fair | `StaleEntriesHeal`, `RestartReappliesBans` |
| `ban_expiry` | 2 addresses, 2 rows, 1 handler creating and deleting bans, live and dry-run starts, 2 starts, fair | `DueBansExpire`: a due row of any status is closed, whatever comes before it in the list and whoever works on it |
| `tail_follow` | 3 lines of 2 pieces, 2 rotations by rename or truncation, channel of 1 that may never be read again, fair | `TypeOK`, `WholeLinesInOrder`, `LinesAreFollowed`, `StopEnds` |
| `detect` | all detectors with thresholds of 2, windows of 2 entries that saturate, 6 kinds of exchange of which 3 are sent, retransmissions, 2 sources, both kinds of ingester, 4 instants, channels of 1, fair | `SameEventOnce`, `MemoryBounded`, `AlarmsExact`; `EventsDrain` |
| `pcap_pairing` | 2 remote addresses, 2 Call-IDs and none, map of 3, channel of 1, 5 instants, symmetry | `TypeOK` with the map's bound, `OutcomeOfOwnRequest`, `JudgedByLatestRequest`, `RecentRequestsKnown` |
| `shutdown` | all three ingesters, one ticker, one handler, every channel of 1, 2 units of work, fair | `TypeOK` with the capacities; `NoSendOnClosedQueue`; `KillSwitchAtExit`; `MailDrained`: when `Close` reports success every accepted mail was handed over, in order; `BansNeverWaitForMail`; `ShutdownCompletes` |
| `firewall` | every backend (iptables, ipset, XDP over either, XDP alone), failing attach and recreated maps, one IPv4 and one IPv6 address, 2 callers, up to 3 VLAN tags with a depth of 2, 1 failing command, 2 starts, fair | `TypeOK`; `BannedIsDropped`; `ReleasedIsHeard`; `DuplicatesBounded`; the refinement `PromiseSpec`; `CallsEnd` |
| `escalation` | ladders of 2 and 3 rungs, one with a permanent rung, one with a long last rung as in the defaults, cooldowns that hold no earlier ban, one and two, an outage of 1, 5 rows, 12 instants | `PersistentClimbs`, `CleanIsForgiven`, `NoLockout` |

Why these bounds are enough for the cases meant: two rows for one address are
what a second ban, a race between two creators and a stale handle need; a second
address matters to the networks of the whitelist and to the order in which the expiry
loop walks its rows, and `ban_safety` and `ban_expiry` have one.
Two starts give a
crash at every point followed by a restore. `ban_all` pays for "everything at
once" with a single row, on which `SingleAutoBan` and `CheckStillHolds` say nothing;
`ban_safety` has two rows, and the theorems remove the bound. Two rotations let the
tailer miss one file completely; after a truncation the line properties of the run say
nothing (`cut`; section 4 has the reason). The partial-line limit equals the line length
there, so the branch that drops an overlong partial line is in the model and not
reached by the run. A map of 3 with four possible keys overflows,
and five packets let a record be evicted or pruned and then be asked for. Four
instants and a window of 2 contain both edges of the window and a sweep. In
`shutdown` two units of work and channels of one make every sender meet a full
channel and leave a ban, an expiry, a mail in delivery and one in the queue at the signal
(`MailDelivered` proves `MailDrained` for every length of the queue). In
`firewall` two callers and one fault make up to three rules for an address, and a
limit of 3 lets `Unban` reach it against a `Ban` that comes back. Five bans are
two more than the longest ladder has rungs.

Deadlock is checked in the ban runs. It is switched off where the system may
stop: a tailer after `Stop`, and clocks and traffic that reach their bound. In
`Shutdown` the only final states are those in which `Run` returned or panicked.

Fairness, only in the runs named "fair":

- `BanLifecycle`: weak fairness of each goroutine's own steps. The Go scheduler
  runs a runnable goroutine, and the expiry and maintenance tickers tick for as
  long as the process lives. Nothing is assumed of clients, attackers, signals,
  crashes or restarts; each liveness property says what it concludes if the
  daemon dies.
- `LogTail`: weak fairness of the tailer, strong fairness of an end of file that
  looks for a rotation (the code does so whenever a second has passed, and polls
  for ever) and of a read that returns data (reads do not fail for ever), and logrotate's `create` follows its rename. Nothing is assumed of
  the reader of the channel; `LinesAreFollowed` is about one that keeps reading.
- `Detection`: weak fairness of the detection goroutine. The action pipeline may
  hang.
- `Firewall`: weak fairness of each call. `iptables -w 10` bounds the wait for
  the xtables lock, and a goroutine whose command ended goes on.
- `Shutdown`: some goroutine that can go on does, and a `select` that finds
  `done` or `ctx.Done` ready takes it in the end; enforcer calls end. Nothing is
  assumed of the mail server (deliveries are not fair), of handlers and clients,
  or of a signal. Timeouts are what makes it end: the grace period and the drain
  may elapse at any time.

## 4. Runs that end in a violation

Each contradicts a sentence of the repository, quoted under `findings`.

- `v_expiry_race`: the expiry loop marks a row expired (`daemon.go:814`) and then
  calls `Unban`. In between the address has no current ban, so detection opens
  and applies a new one, and the `Unban` removes its rule. The address has an
  active row, is not blocked, and nothing repairs it before a restart.
- `v_failed_ratio`: `failed_call_ratio` records a request and its refusal as two
  calls, one of them not failed. A source whose calls are *all* refused stays at
  one half and is never flagged at the documented 80 %.

More disagreements, met while modelling, which no run is kept for. The first group
marks the limits of the properties above: each was also confirmed in the models.

- `handleCreateBan` and `Evaluate` look for a current ban and insert in two
  statements; both can pass and leave an automatic and a manual row, of which a delete
  closes one (README.md:484 promises 409). `SingleAutoBan` is about automatic rows only.
- An address whitelisted between `Evaluate` and the map update enters the map, until
  reconcile; how-it-works.md:324 says it never can. The same window lets a threat
  re-ban an address in the middle of `clear_ban`, which README.md:541 calls atomic.
  `WhitelistShields` says when that cannot happen.
- Two `ReloadDynamic` calls can read the table in one order and install their lists in
  the other (whitelist.go:91), so that an added entry is not in force. `WhitelistSettles`
  bounds the damage.
- A crash between the two steps of expiry leaves a rule whose row is expired, and no
  start removes it; README.md:731 says stale rules are cleaned up.
- A manual ban touches the firewall in dry-run mode (config.go:147 says never). A
  restore of earlier live bans does, too.
- A log truncated in place and regrown past the old offset between two looks is not
  read from the top (logtailer.go:112).
- A saturated window drops entries whatever their key, so a distinct count can fall
  below a threshold that is below the cap (detector.go:17). `AlarmsExact` therefore
  speaks of the newest `Cap` events where keys matter.
- Log events have no Call-ID and bypass dedup, so a login that pcap saw too counts
  twice (how-it-works.md:143).
- The challenge check looks at the latest request of the Call-ID and sender, not at the
  one that is answered: a challenge repeated after the request with credentials is a
  failed login (pcap.go:324, how-it-works.md:132).
- `Unban` returns success when its own `iptables -C` fails, with the rule still there
  (iptables.go:57 and 63; the comment at 11-13 is about avoiding that).
  `ReleasedIsHeard` excepts it.
- The ban count is a window over the *starts* of bans. With a last rung of half the
  cooldown, as in the defaults (24h and 48h), two such bans push the earlier ones out
  of it and the next one is on rung 2; README.md:262 says the fifth ban and later ones
  last 24 hours, how-it-works.md:228 that the count resets after clean behaviour.
  `PersistentClimbs` says which rungs are kept. Manual and dry-run rows count too, and a
  failing count reads as a first offence.
- A handler that outlives the grace period can clear `d.xdp` between `main`'s test and
  its `Close`, and `main` panics (daemon.go:383). `KillSwitchAtExit` says that nothing
  else leads there.

Smaller ones:

- The prefilter's `-C` carries the rule number of its `-I` (prefilter.go:59), which
  iptables refuses, so every start inserts the rules once more; prefilter.go:32 says
  "Idempotent".
- A failed `Init` of the base enforcer is only logged (daemon.go:453): bans then go
  to a chain nobody jumps to. `BannedIsDropped` needs `ready`.
- iptables and ipset take no IPv6 address: such a ban is recorded and not applied,
  and with ipset its `Unban` fails, so a delete answers 500 and the row stays.
- Changing `enforcer.type` from iptables to ipset leaves the old rules in the chain,
  where no `Unban` looks for them.
- After exactly 10000 removals `Unban` reports an error although no rule may be left.
- `SyslogIngest.Stop` before the bind leaves the socket open until its next read
  times out.
- `Validate` accepts a negative `check_interval`, which panics in `NewTicker`, a
  negative cooldown, and thresholds above the window's cap, which never trip
  (detector.go:17).
- `/healthz` reports "no matches in last 5m" when there was none since the start
  (daemon.go:283).
- `restoreBans` can re-apply a row that expiry closed after the list was read.
- A line finished in the old file between the last read and the switch to a new one is
  lost (logtailer.go:112).
- Changing from standalone XDP to a start on which it cannot attach puts bans into the
  chain, where a later standalone `Unban` does not look; runbook-xdp.md:56 has operators
  flush the chain by hand.
- Reconcile only deletes; runbook-xdp.md:122 says a ban missing from the map is
  healed too. It reads rows before the map, so it can delete an entry whose ban
  was created between the two reads.
- The active-bans gauge is incremented for automatic bans only and decremented
  for all, and goes negative (metrics.go:34).

## 5. What is proved

Every safety invariant and action property of the passing runs except
`AlarmsExact`, and both refinements, are theorems: they hold for every value of the
constants that the modules' assumptions allow. The assumptions state types of the
constants and what the code fixes (an eviction batch is not larger than the map,
names of goroutines differ). One theorem carries a hypothesis of its own, `LinesWhole`;
it is false without it, and says why below. Each inductive
invariant `IInv` (`Reads` in `LogTailProofs`) was model-checked on the runs' instances first.

### The ban lifecycle

`BanLifecycleProofs` and `BanLedgerProofs`, for every set of addresses, handlers, networks, host
addresses and faults, every number of rows and restarts, every map capacity and
enforcer mode, assuming only `ConstantsAssumption` (types of the constants,
handler names distinct from goroutine names):

| theorem | statement |
|---|---|
| `Inductive` | `Spec => []IInv` |
| `TypeCorrect` | `Spec => []TypeOK` |
| `SingleAuto` | `Spec => []SingleAutoBan` |
| `WriteAhead` | `Spec => []RecordedBeforeDropped` (the insert comes before the first `Ban`; the row may be expired by now) |
| `KillSwitch` | `Spec => KillSwitchFreezesMap` |
| `ImplementsLedger` (`BanLedgerProofs`) | `Spec => LedgerSpec` |
| `Shields` (`BanLedgerProofs`) | `Spec => WhitelistShields` |
| `Settles` (`BanLedgerProofs`) | `Spec => WhitelistSettles` |

Neither safety property is inductive. `SingleAutoBan` fails after a `PipeInsert`
unless the check made one statement earlier still holds; `CheckStillHolds` says
so, and it is preserved because only `"pipe"` opens automatic bans (a handler's
row is `manual`), and no step reopens a row. `RecordedBeforeDropped` fails after
a `BanBase` unless the address in hand is on record, which is
`TargetsRecorded`; that in turn needs that row handles and snapshots refer to
rows that exist (`HandlesExist`; those that `main` restores, to rows that are not
dry runs), for `restoreBans` bans from a list that may be stale, and that rows are dense (`RowsDense`), so that `CreateBan` never
overwrites one. `IInv` is the conjunction.

The proof has one lemma per action, grouped by what the action can disturb:
actions that leave table and kernel alone use a frame lemma (`DurableFrame`) and
need only their locals; actions that close or insert rows use `TableClose`,
`TableInsert` and `TableDue`; actions that drop or release addresses use
`DropStep`. `NextInv` combines them. `KillSwitch` is an action property: a
separate case analysis (`EnforcerFrozen`, `StepFrozen`) shows that with the handle
closed and the daemon up no step writes the map or reopens the handle.

`ImplementsLedger` maps each step to a ledger step on the table and the drop
state, or to none: an insert is `Open`, an update of a current row is `Close`, a
backend call is `Drop` or `Release`. The ledger's conditions come from `IInv`:
`CheckStillHolds` makes the check and the insert of `Evaluate` one `Open`, and
`TargetsRecorded` gives `Drop` its row.

`Shields` is an action property. One lemma per group of actions shows three facts
of every step (`ShieldStep`): who takes up an address, found it unlisted; a new row
is for an address some goroutine has in hand; and so is a new drop. Together with
"rows not yet used are blank" (`BlankAhead`) that gives the property.

`Settles` is an action property too. `ReloadDynamic` reads the table and installs the
list in two steps without a lock around both, so with two reloads the older list may be
installed last, and the list in memory need not be the table's. What holds for any
number of reloads, signals and store errors is that the damage stays with the entries
that were being changed: every step but a reload leaves memory and lists alone
(`QuietList`), a list is read from the table, and a list that is installed agrees with
the table on every entry that was not touched since it was read (`Agreed`).

### Shutdown

| theorem | statement |
|---|---|
| `TypeCorrect` | `Spec => []TypeOK`, the channels' capacities included |
| `QueueOpen` | `Spec => []NoSendOnClosedQueue` |
| `MailDelivered` | `Spec => []MailDrained` |
| `OffAtExit` | `Spec => []KillSwitchAtExit` |

`WaitedFor` relates the position of `main` to the wait group: past `wg.Wait` every
member has exited, and only then is the queue closed. `MailDrained` follows from
`MailInOrder` (handed over and queued are the accepted mails in order) and `Drained` (the
worker leaves only an empty, closed queue). `KillSwitchAtExit` needs
`Detached` (a nil `d.xdp` means detached) and `QuietUnlessLate`: after the grace
period no handler runs unless it was late, and only a handler can clear `d.xdp`
between `main`'s test and its use.

### Firewall

| theorem | statement |
|---|---|
| `TypeCorrect` | `Spec => []TypeOK` |
| `BansHold` | `Spec => []BannedIsDropped` |
| `ReleasesHold` | `Spec => []ReleasedIsHeard` |
| `FewDuplicates` | `Spec => []DuplicatesBounded` |
| `KeepsPromise` | `Spec => PromiseSpec`: `Firewall` implements `Enforcer` |

What members reported (`fate`) is true in every state in which they are in force
(`Truthful`). It becomes true
when a call returns, so every call that is over, met no error, missed no look-up and
crossed no call of the other kind must have had its effect (`Effective`); another caller can undo the
effect only with a call of the other kind, and two such calls know of each other
(`Rivals`, `Unsettled`). `CallShape` says where a call can be, given backend and kind,
and `Backend` that only the configured backend holds anything. For the refinement
each of the four outcomes of a command (no effect, effect, failure, return) is matched
with a step of `Enforcer`, and `Boot`, `Crash` and `Reboot` with its restarts.
`DuplicatesBounded` counts rules and pending appends together: a caller moves from
looking to appending only if it saw no rule or its look failed, which is a fault.

### PcapPairing

| theorem | statement |
|---|---|
| `MapBounded` | `Spec => []TypeOK`, the limit of the inflight map included |
| `OutcomesAttributed` | `Spec => []OutcomeOfOwnRequest` |
| `LatestJudged` | `Spec => []JudgedByLatestRequest` |
| `RecentKnown` | `Spec => []RecentRequestsKnown` |

Attribution rests on `KeysMatch` (a record is under the key of its own call and
sender), the judgement on `LatestKept` (a record that is there is the latest request of
its key). `RecentRequestsKnown` is about eviction of the oldest `Batch` records: the
records younger than one that was evicted belong to different calls, all of them
later (`TimesDiffer`), and after the eviction there are `MaxEntries - Batch` of them.

### Detection

| theorem | statement |
|---|---|
| `CountedOnce` | `Spec => []SameEventOnce` |
| `MemoryHolds` | `Spec => []MemoryBounded` |

`SameEventOnce` needs that dedup still knows every wire event accepted less than
`DedupWindow` ago, with a time at least as late (`Remembered`); the prune ticker
removes only keys for which that is no longer required. `MemoryBounded` is inductive
once nothing is dated in the future (`PastOnly`). What the loop `LiveEntries` returns
is proved by looking at its first wrong result (`FirstWrong`, `LoopRuns`), in place of
an induction.

### Escalation

| theorem | statement |
|---|---|
| `OffendersClimb` | `Spec => []PersistentClimbs` |
| `BansEnd` | `Spec => []NoLockout` |
| `CleanForgiven` | `Spec => CleanIsForgiven` |

The starts of the bans of a streak lie at most one longest ban, check, outage and gap
apart (`Spacing`; `Chain`, which needs `StaysShort`), so a cooldown of k - 1 times that
length has k - 1 of them in its window (`Climbs`), and the next ban is on rung k.
A clean address has no start in the window because every ban starts before the
latest one ends (`StartsFirst`).

### LogTail

| theorem | statement |
|---|---|
| `TypeCorrect` | `Spec => []TypeOK` |
| `LinesWhole` | `Fits => (Spec => []WholeLinesInOrder)` |

Files are runs of consecutive pieces and later files hold later lines (`LogOK`). What
the tailer holds, `partial` and the buffer, is the stretch of its file that ends at the
offset and begins where a line, or the reading, began (`Aligned`); so what it takes
out up to the first line end is one line (`MakesLine`). Everything it has handed on is
behind all it may still read (`Behind`), also after it reopened a later file. `Fits`
says that a line without its last piece is not longer than `maxLogLineLen`. Without it
the property is false: at an end of file the tailer drops an unfinished line that is
too long and later hands on its remainder (logtailer.go:139).

## 6. What is only model-checked

Liveness (`DueBansExpire`, `StaleEntriesHeal`, `RestartReappliesBans`,
`LinesAreFollowed`, `StopEnds`, `EventsDrain`, `CallsEnd`, `BansNeverWaitForMail`,
`ShutdownCompletes`) is outside the prover's reach: it does not reason about
fairness. `AlarmsExact` compares counts and distinct counts over a window with those
over the whole history, through `SelectSeq` and `Cardinality`; that is induction over
the data, and it depends on how threshold and cap relate. It is checked by the
`detect` run.

## 7. Plan

Written: all modules of section 2 and their proofs. Left:

1. `AlarmsExact` for the counting detectors, if the counts can be characterised
   without induction (the window is the newest entries of the history).
2. Of the models, host address changes in `PcapPairing` and its composition with
   `Detection`.

## 8. Not modelled

- The SIP parser and the line parsers are text processing without state; packet
  decoding is the library's.
- The syslog notifier writes a log line. Mail formatting and the SMTP dialogue are
  one step that ends or does not.
- Configuration except the bans section: one test per field. Logging and metrics
  except one gauge; the CLI is a client of the API.
- Event retention deletes rows of the `events` table, which nothing reads back
  except for display; the paging and counting queries change no state.
- Detector panics (recovered by `safeDetect`).
