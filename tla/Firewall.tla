------------------------------- MODULE Firewall -------------------------------
(***************************************************************************)
(* The ban backends command by command: the iptables chain (iptables.go),   *)
(* the ipset (ipset.go), the XDP map and program (enforcer_linux.go, keys.go,*)
(* xdp_ban.c), alone or behind the composite enforcer, and the prefilter    *)
(* (prefilter.go).  The enforcers take no lock, so goroutines interleave    *)
(* between the commands; any command can fail, and the process or the host  *)
(* can die at any point.  Every rule of the chain is a DROP, so the chain is*)
(* a count per rule: duplicates matter, their order does not.  The XDP link *)
(* lives as long as the process, its maps as long as the host; the kill     *)
(* switch is BanLifecycle's.                                                *)
(***************************************************************************)
EXTENDS Naturals, FiniteSets

CONSTANTS
    V4, V6,    \* addresses of the two families
    Modes,     \* enforcer.type, with XDP beside it ("+xdp") or standalone XDP ("|xdp")
    Callers,   \* goroutines that call the enforcer
    Limit,     \* duplicates Unban removes at most (10000)
    NPorts,    \* ports of the prefilter, 0 when it is off
    VlanDepth, \* VLAN_MAX_DEPTH
    MaxTags,   \* bound: VLAN tags of a frame
    MaxFaults, \* bound: commands that fail although they could succeed
    MaxBoots   \* bound: daemon starts

ASSUME FirewallAssumption ==
    /\ V4 \cap V6 = {}
    /\ Modes \subseteq {"iptables", "ipset", "iptables+xdp", "ipset+xdp", "iptables|xdp", "ipset|xdp"}
    /\ {Limit, NPorts, VlanDepth, MaxTags, MaxFaults, MaxBoots} \subseteq Nat
    /\ IsFiniteSet(Callers)

IPs == V4 \cup V6
Ports == 1..NPorts
SetModes == {"ipset", "ipset+xdp", "ipset|xdp"}
StandaloneModes == {"iptables|xdp", "ipset|xdp"}
XdpModes == {"iptables+xdp", "ipset+xdp"} \cup StandaloneModes
Backends == {"base", "xdp"}

VARIABLES
    mode,     \* the configured backend
    up,       \* the daemon runs
    attached, \* the XDP program is linked to the interface
    ready,    \* the base enforcer's Init succeeded since the host booted
    boots, faults, \* bounds only
    \* kernel
    chain,    \* the chain exists
    jumps,    \* rules of INPUT that jump to it
    rules,    \* DROP rules per source address in it
    match,    \* rules that match the ipset in it
    pf,       \* prefilter rules per port in it
    ipset,    \* the members of the ipset, <<>> while there is none
    xmap,     \* banned_v4 and banned_v6
    \* calls
    pc, op, ip, removed, errs,
    \* history
    fate,     \* what each member of the enforcer last reported of an address
    mixed,    \* the call overlapped one of the other kind
    missed    \* the call is an Unban whose look-up failed

kernel == <<chain, jumps, rules, match, pf, ipset, xmap>>
daemon == <<mode, up, attached, ready, boots>>
calls == <<pc, op, ip, removed, errs>>
history == <<fate, mixed, missed>>
vars == <<kernel, daemon, faults, calls, history>>

Goto(p, l) == pc' = [pc EXCEPT ![p] = l]
Spend(n) == faults' = faults + n /\ faults' <= MaxFaults
Works == UNCHANGED faults
Breaks == Spend(1)

----------------------------------------------------------------------------
(* What a frame meets on its way in.                                        *)

Frames == [src : IPs, tags : 0..MaxTags, whole : BOOLEAN]

(* v4Key and v6Key pick the map, xdp_ban_func the map of the EtherType.     *)
XdpKey(i) == IF i \in V4 THEN "v4" ELSE "v6"

(* xdp_ban_func: runt frames and deeper tags fail open; without the link the*)
(* program does not run.                                                    *)
XdpDrops(fr) == attached /\ fr.whole /\ fr.tags <= VlanDepth /\ fr.src \in xmap[XdpKey(fr.src)]

(* INPUT jumps to the chain, whose rules all drop.                          *)
InputDrops(fr) ==
    /\ fr.whole /\ jumps > 0
    /\ rules[fr.src] > 0 \/ (match > 0 /\ ipset # <<>> /\ fr.src \in ipset[1])

Drops(fr) == InputDrops(fr) \/ XdpDrops(fr)

----------------------------------------------------------------------------
(* Startup: Init of the base enforcer, of XDP and the prefilter, in the     *)
(* order of setupEnforcer.  F are the commands that fail for no reason of   *)
(* ours; "schema" is an upgrade that changed the layout of the maps.        *)

Commands == {"create", "-N", "-C", "-I", "-C set", "-A set", "schema", "attach", "prefilter"}

(* Mutant: the chain is not linked from INPUT.                              *)
InitBase_NoLink(F) ==
    /\ ipset' = IF mode \in SetModes /\ ipset = <<>> THEN <<{}>> ELSE ipset
    /\ chain' = TRUE /\ ready' = TRUE
    /\ UNCHANGED <<jumps, match>>

(* A failing -N is ignored, a failing -C reads as "not there", and the      *)
(* others end Init with an error, which is only logged.                     *)
InitBase(F) ==
    LET created == mode \in SetModes => "create" \notin F
        linked == created /\ jumps > 0 /\ "-C" \notin F
        insert == created /\ ~linked /\ chain' /\ "-I" \notin F
        matched == match > 0 /\ "-C set" \notin F
        append == mode \in SetModes /\ (linked \/ insert) /\ ~matched /\ "-A set" \notin F
    IN  /\ ipset' = IF mode \in SetModes /\ created /\ ipset = <<>> THEN <<{}>> ELSE ipset
        /\ chain' = (chain \/ (created /\ "-N" \notin F))
        /\ jumps' = IF insert THEN jumps + 1 ELSE jumps
        /\ match' = IF append THEN match + 1 ELSE match
        /\ ready' = (ready \/ ((linked \/ insert) /\ (mode \in SetModes => matched \/ append)))

EmptyMaps == [v4 |-> {}, v6 |-> {}]

(* What was banned of a backend that lost its table.                        *)
Forgotten(b) == [i \in IPs |-> IF fate[b][i] = "banned" THEN "unknown" ELSE fate[b][i]]

(* setupXDP and XdpEnforcer.Init: pinned maps are reused, maps of another   *)
(* layout are recreated, and if loading or attaching fails the daemon stays *)
(* on the base enforcer.                                                    *)
InitXdp(F) ==
    /\ attached' = (mode \in XdpModes /\ "attach" \notin F)
    /\ IF mode \in XdpModes /\ "schema" \in F
       THEN xmap' = EmptyMaps /\ fate' = [fate EXCEPT !["xdp"] = Forgotten("xdp")]
       ELSE UNCHANGED <<xmap, fate>>

(* PreFilter.Apply: its -C carries the rule number of the -I, which iptables*)
(* refuses, so every start inserts the rules again, port by port until one  *)
(* insert fails.                                                            *)
ApplyPrefilter(F) ==
    \E n \in 0..NPorts :
        /\ n < NPorts => ~chain' \/ "prefilter" \in F
        /\ ~chain' => n = 0
        /\ pf' = [k \in Ports |-> IF k <= n THEN pf[k] + 1 ELSE pf[k]]

Boot ==
    /\ ~up /\ boots < MaxBoots
    /\ up' = TRUE /\ boots' = boots + 1
    /\ \E F \in SUBSET Commands :
           Spend(Cardinality(F)) /\ InitBase(F) /\ InitXdp(F) /\ ApplyPrefilter(F)
    /\ UNCHANGED <<mode, rules, calls, mixed, missed>>

NoCalls ==
    /\ pc' = [p \in Callers |-> "idle"] /\ op' = [p \in Callers |-> "none"]
    /\ ip' = [p \in Callers |-> {}] /\ removed' = [p \in Callers |-> 0]
    /\ errs' = [p \in Callers |-> {}]
    /\ mixed' = [p \in Callers |-> FALSE] /\ missed' = [p \in Callers |-> FALSE]

(* The process dies; rules, set and pinned maps stay, the link goes.        *)
Crash ==
    /\ up /\ boots < MaxBoots
    /\ up' = FALSE /\ attached' = FALSE
    /\ NoCalls
    /\ UNCHANGED <<kernel, mode, ready, boots, faults, fate>>

Empty ==
    /\ chain' = FALSE /\ jumps' = 0 /\ match' = 0 /\ ipset' = <<>>
    /\ rules' = [i \in IPs |-> 0] /\ pf' = [k \in Ports |-> 0]
    /\ xmap' = EmptyMaps

(* The host dies; the kernel starts empty.                                  *)
Reboot ==
    /\ ~up /\ boots > 0
    /\ Empty /\ ready' = FALSE
    /\ fate' = [b \in Backends |-> Forgotten(b)]
    /\ UNCHANGED <<mode, up, attached, boots, faults, calls, mixed, missed>>

----------------------------------------------------------------------------
(* Calls.  The active enforcer is what setupXDP made of it; the composite   *)
(* calls its base, then XDP, and joins the errors.                          *)

Members ==
    IF ~attached THEN {"base"} ELSE IF mode \in StandaloneModes THEN {"xdp"} ELSE {"base", "xdp"}
First == IF "base" \notin Members THEN "xdp" ELSE IF mode \in SetModes THEN "set" ELSE "check"
Then == IF "xdp" \in Members THEN "xdp" ELSE "return"
Other(o) == IF o = "ban" THEN "unban" ELSE "ban"

(* An address a goroutine starts to work on is unsettled until it returns.  *)
Start(p, o, i) ==
    LET rivals == {q \in Callers : op[q] = Other(o) /\ ip[q] = {i}}
        kept == IF o = "ban" THEN "banned" ELSE "cleared"
    IN  /\ up /\ pc[p] = "idle"
        /\ Goto(p, First)
        /\ op' = [op EXCEPT ![p] = o] /\ ip' = [ip EXCEPT ![p] = {i}]
        /\ mixed' = [q \in Callers |-> IF q \in rivals \cup {p} THEN rivals # {} ELSE mixed[q]]
        /\ fate' = [b \in Backends |->
                      IF b \in Members THEN [fate[b] EXCEPT ![i] = IF @ = kept THEN @ ELSE "unknown"]
                      ELSE fate[b]]
        /\ UNCHANGED <<kernel, daemon, faults, removed, errs, missed>>

Failed(p, m) == errs' = [errs EXCEPT ![p] = @ \cup {m}]
Target(p) == CHOOSE i \in IPs : ip[p] = {i}
Present(p) == rules[Target(p)] > 0

(* Mutant: no look before the append.                                       *)
BanCheck_Never(p) ==
    /\ pc[p] = "check" /\ op[p] = "ban"
    /\ Works /\ Goto(p, "append")
    /\ UNCHANGED <<kernel, daemon, op, ip, removed, errs, history>>

(* IPTablesEnforcer.Ban: -C, then -A.                                       *)
BanCheck(p) ==
    /\ pc[p] = "check" /\ op[p] = "ban"
    /\ \/ Works /\ Goto(p, IF Present(p) THEN Then ELSE "append")
       \/ Breaks /\ Present(p) /\ Goto(p, "append")
    /\ UNCHANGED <<kernel, daemon, op, ip, removed, errs, history>>

(* The chain may be missing, and an IPv6 address is no iptables argument.   *)
BanAppend(p) ==
    /\ pc[p] = "append" /\ Goto(p, Then)
    /\ \/ /\ Works /\ chain /\ Target(p) \in V4
          /\ rules' = [rules EXCEPT ![Target(p)] = @ + 1]
          /\ UNCHANGED errs
       \/ /\ IF chain /\ Target(p) \in V4 THEN Breaks ELSE Works
          /\ Failed(p, "base")
          /\ UNCHANGED rules
    /\ UNCHANGED <<daemon, chain, jumps, match, pf, ipset, xmap, op, ip, removed, history>>

(* Mutant: no limit on the duplicates.                                      *)
UnbanCheck_NoLimit(p) ==
    /\ pc[p] = "check" /\ op[p] = "unban"
    /\ Works /\ Goto(p, IF Present(p) THEN "delete" ELSE Then)
    /\ removed' = [removed EXCEPT ![p] = 0]
    /\ UNCHANGED <<kernel, daemon, op, ip, errs, history>>

(* IPTablesEnforcer.Unban: -C and -D in turn until -C fails.                *)
UnbanCheck(p) ==
    /\ pc[p] = "check" /\ op[p] = "unban"
    /\ \/ /\ removed[p] = Limit
          /\ Works /\ Goto(p, Then) /\ Failed(p, "base")
          /\ UNCHANGED missed
       \/ /\ removed[p] < Limit
          /\ Works /\ Goto(p, IF Present(p) THEN "delete" ELSE Then)
          /\ UNCHANGED <<errs, missed>>
       \/ /\ removed[p] < Limit /\ Present(p)
          /\ Breaks /\ Goto(p, Then) /\ missed' = [missed EXCEPT ![p] = TRUE]
          /\ UNCHANGED errs
    /\ UNCHANGED <<kernel, daemon, op, ip, removed, fate, mixed>>

(* Mutant: the first rule is taken for the only one.                        *)
UnbanDelete_Once(p) ==
    /\ pc[p] = "delete" /\ Present(p)
    /\ Works /\ Goto(p, Then)
    /\ rules' = [rules EXCEPT ![Target(p)] = @ - 1]
    /\ UNCHANGED <<daemon, chain, jumps, match, pf, ipset, xmap, op, ip, removed, errs, history>>

(* Mutant: the outcome of -D is not looked at.                              *)
UnbanDelete_Blind(p) ==
    /\ pc[p] = "delete"
    /\ Works /\ Goto(p, "check")
    /\ rules' = [rules EXCEPT ![Target(p)] = @ - 1]
    /\ removed' = [removed EXCEPT ![p] = @ + 1]
    /\ UNCHANGED <<daemon, chain, jumps, match, pf, ipset, xmap, op, ip, errs, history>>

UnbanDelete(p) ==
    /\ pc[p] = "delete"
    /\ \/ /\ Present(p)
          /\ Works /\ Goto(p, "check")
          /\ rules' = [rules EXCEPT ![Target(p)] = @ - 1]
          /\ removed' = [removed EXCEPT ![p] = @ + 1]
       \/ /\ IF Present(p) THEN Breaks ELSE Works
          /\ Goto(p, "recheck")
          /\ UNCHANGED <<rules, removed>>
    /\ UNCHANGED <<daemon, chain, jumps, match, pf, ipset, xmap, op, ip, errs, history>>

(* -D failed: somebody else may have removed the rule.                      *)
UnbanRecheck(p) ==
    /\ pc[p] = "recheck" /\ Goto(p, Then)
    /\ \/ /\ Works
          /\ IF Present(p) THEN Failed(p, "base") ELSE UNCHANGED errs
          /\ UNCHANGED missed
       \/ /\ Breaks /\ Present(p)
          /\ missed' = [missed EXCEPT ![p] = TRUE]
          /\ UNCHANGED errs
    /\ UNCHANGED <<kernel, daemon, op, ip, removed, fate, mixed>>

(* IPSetEnforcer: add and del with -exist, one command each; the set is of  *)
(* family inet.                                                             *)
SetCommand(p) ==
    /\ pc[p] = "set" /\ Goto(p, Then)
    /\ LET able == ipset # <<>> /\ Target(p) \in V4
       IN  \/ /\ Works /\ able
              /\ ipset' = <<IF op[p] = "ban" THEN ipset[1] \cup ip[p] ELSE ipset[1] \ ip[p]>>
              /\ UNCHANGED errs
           \/ /\ IF able THEN Breaks ELSE Works
              /\ Failed(p, "base")
              /\ UNCHANGED ipset
    /\ UNCHANGED <<daemon, chain, jumps, rules, match, pf, xmap, op, ip, removed, history>>

(* XdpEnforcer: Put or Delete in the map of the address family.             *)
XdpCommand(p) ==
    /\ pc[p] = "xdp" /\ Goto(p, "return")
    /\ \/ /\ Works
          /\ xmap' = [xmap EXCEPT ![XdpKey(Target(p))] = IF op[p] = "ban" THEN @ \cup ip[p] ELSE @ \ ip[p]]
          /\ UNCHANGED errs
       \/ /\ Breaks /\ Failed(p, "xdp")
          /\ UNCHANGED xmap
    /\ UNCHANGED <<daemon, chain, jumps, rules, match, pf, ipset, op, ip, removed, history>>

(* What member b reports of a call that is over.  It says nothing of an     *)
(* address that a call of the other kind worked on at the same time, and a  *)
(* Ban that failed leaves what was reported before.                         *)
Reported(p, b) ==
    CASE mixed[p] -> "unknown"
      [] ~mixed[p] /\ b \notin errs[p] /\ op[p] = "ban" -> "banned"
      [] ~mixed[p] /\ b \notin errs[p] /\ op[p] = "unban" ->
             IF b = "base" /\ missed[p] THEN "missed" ELSE "cleared"
      [] ~mixed[p] /\ b \in errs[p] ->
             IF op[p] = "ban" THEN fate[b][Target(p)] ELSE "unknown"
Return(p) ==
    /\ pc[p] = "return" /\ Goto(p, "idle")
    /\ fate' = [b \in Backends |->
                  IF b \in Members THEN [fate[b] EXCEPT ![Target(p)] = Reported(p, b)] ELSE fate[b]]
    /\ op' = [op EXCEPT ![p] = "none"] /\ ip' = [ip EXCEPT ![p] = {}]
    /\ removed' = [removed EXCEPT ![p] = 0] /\ errs' = [errs EXCEPT ![p] = {}]
    /\ mixed' = [mixed EXCEPT ![p] = FALSE] /\ missed' = [missed EXCEPT ![p] = FALSE]
    /\ UNCHANGED <<kernel, daemon, faults>>

----------------------------------------------------------------------------
Init ==
    /\ mode \in Modes /\ up = FALSE /\ attached = FALSE /\ ready = FALSE /\ boots = 0 /\ faults = 0
    /\ chain = FALSE /\ jumps = 0 /\ match = 0 /\ ipset = <<>>
    /\ rules = [i \in IPs |-> 0] /\ pf = [k \in Ports |-> 0] /\ xmap = EmptyMaps
    /\ pc = [p \in Callers |-> "idle"] /\ op = [p \in Callers |-> "none"]
    /\ ip = [p \in Callers |-> {}] /\ removed = [p \in Callers |-> 0]
    /\ errs = [p \in Callers |-> {}]
    /\ mixed = [p \in Callers |-> FALSE] /\ missed = [p \in Callers |-> FALSE]
    /\ fate = [b \in Backends |-> [i \in IPs |-> "cleared"]]

CallStep(p) ==
    \/ BanCheck(p) \/ BanAppend(p) \/ UnbanCheck(p) \/ UnbanDelete(p) \/ UnbanRecheck(p)
    \/ SetCommand(p) \/ XdpCommand(p) \/ Return(p)

Next ==
    \/ Boot \/ Crash \/ Reboot
    \/ \E p \in Callers : CallStep(p) \/ \E o \in {"ban", "unban"}, i \in IPs : Start(p, o, i)

Spec == Init /\ [][Next]_vars

(* A command ends (-w bounds the wait for the xtables lock), and a goroutine*)
(* whose command ended runs on.                                             *)
FairSpec == Spec /\ \A p \in Callers : WF_vars(CallStep(p))

----------------------------------------------------------------------------
Fates == {"banned", "cleared", "missed", "unknown"}

(* Types of the kernel's tables and of the calls.                           *)
TypeOK ==
    /\ mode \in Modes /\ up \in BOOLEAN /\ attached \in BOOLEAN /\ ready \in BOOLEAN /\ chain \in BOOLEAN
    /\ boots \in 0..MaxBoots /\ faults \in 0..MaxFaults
    /\ jumps \in Nat /\ match \in Nat /\ rules \in [IPs -> Nat] /\ pf \in [Ports -> Nat]
    /\ ipset = <<>> \/ (DOMAIN ipset = {1} /\ ipset[1] \subseteq V4)
    /\ xmap \in [v4 : SUBSET V4, v6 : SUBSET V6]
    /\ pc \in [Callers -> {"idle", "check", "append", "delete", "recheck", "set", "xdp", "return"}]
    /\ op \in [Callers -> {"none", "ban", "unban"}]
    /\ ip \in [Callers -> {{}} \cup {{i} : i \in IPs}]
    /\ removed \in [Callers -> 0..Limit] /\ errs \in [Callers -> SUBSET Backends]
    /\ fate \in [Backends -> [IPs -> Fates]]
    /\ mixed \in [Callers -> BOOLEAN] /\ missed \in [Callers -> BOOLEAN]

(* A frame that can be read is dropped once a member of the enforcer        *)
(* reported success to a Ban of its source, until an Unban of it starts or  *)
(* the host reboots: through racing calls, the other member's failure,      *)
(* crashes and restarts.  The chain drops also while the daemon is down, if *)
(* its Init ever succeeded; the map only while the program is attached, and *)
(* not behind more VLAN tags than it walks.                                 *)
Enforced(fr, b) ==
    IF b = "base" THEN ready ELSE attached /\ fr.tags <= VlanDepth
BannedIsDropped ==
    \A fr \in Frames, b \in Backends :
        (fate[b][fr.src] = "banned" /\ fr.whole /\ Enforced(fr, b)) => Drops(fr)

(* Nobody is dropped who was never banned, or whom every member that banned *)
(* the address released after looking: duplicates left by racing Bans or by *)
(* failed look-ups of Ban are removed too.  An Unban whose own look-up      *)
(* fails reports success all the same, with the rule left ("missed").       *)
ReleasedIsHeard ==
    \A fr \in Frames : (\A b \in Backends : fate[b][fr.src] = "cleared") => ~Drops(fr)

(* Ban's look before it appends keeps duplicates few: never more than the   *)
(* goroutines and the failed commands, so that the limit of Unban is only   *)
(* for rules that come back while it runs.                                  *)
Appending(i) == {p \in Callers : pc[p] = "append" /\ ip[p] = {i}}
DuplicatesBounded ==
    \A i \in IPs : rules[i] + Cardinality(Appending(i)) <= Cardinality(Callers) + faults

(* The chain or the set behaves like the interface its callers rely on,     *)
(* alone and as a member of the composite.  (A map operation of XDP is one  *)
(* step and its own effect.)                                                *)
Held == IF mode \in SetModes THEN (IF ipset = <<>> THEN {} ELSE ipset[1]) ELSE {i \in IPs : rules[i] > 0}
Over(p) == pc[p] \in {"xdp", "return"}
Call(p) ==
    IF pc[p] = "idle" \/ "base" \notin Members THEN [op |-> "none"]
    ELSE [op |-> op[p], ip |-> Target(p),
          stage |-> CASE ~Over(p) -> "running" [] "base" \in errs[p] -> "failed" [] OTHER -> "done"]
Promise == INSTANCE Enforcer WITH drops <- Held, call <- [p \in Callers |-> Call(p)]
PromiseSpec == Promise!Spec

(* Every call ends, also an Unban whose address is banned again and again   *)
(* while it removes rules.                                                  *)
CallsEnd == \A p \in Callers : pc[p] # "idle" ~> pc[p] = "idle"
=============================================================================
