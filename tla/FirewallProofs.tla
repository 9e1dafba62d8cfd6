---------------------------- MODULE FirewallProofs ----------------------------
(***************************************************************************)
(* Theorems about Firewall, for every set of addresses and callers, every   *)
(* backend, every limit and every number of faults, crashes and reboots.    *)
(***************************************************************************)
EXTENDS Firewall, FiniteSetTheorems, TLAPS

Stages == {"idle", "check", "append", "delete", "recheck", "set", "xdp", "return"}
Mapped == xmap.v4 \cup xmap.v6
HeldBy(b) == IF b = "base" THEN Held ELSE Mapped

(* The part of member b in a call is over.                                  *)
Done(p, b) == b \in Members /\ (pc[p] = "return" \/ (pc[p] = "xdp" /\ b = "base"))

(* Where a call can be, given its backend, its kind and what it has done.   *)
ShapeAt(p) ==
    /\ pc[p] = "idle" => /\ op[p] = "none" /\ ip[p] = {} /\ removed[p] = 0 /\ errs[p] = {}
                         /\ ~mixed[p] /\ ~missed[p]
    /\ pc[p] # "idle" => up /\ op[p] \in {"ban", "unban"} /\ \E i \in IPs : ip[p] = {i}
    /\ pc[p] \in {"check", "append", "delete", "recheck"} => mode \notin SetModes /\ "base" \in Members
    /\ pc[p] = "append" => op[p] = "ban"
    /\ pc[p] \in {"delete", "recheck"} => op[p] = "unban"
    /\ pc[p] = "delete" => removed[p] < Limit
    /\ pc[p] = "set" => mode \in SetModes /\ "base" \in Members
    /\ pc[p] = "xdp" => "xdp" \in Members
    /\ \A b \in errs[p] : Done(p, b)
CallShape == \A p \in Callers : ShapeAt(p)

(* The configured base holds everything, and Init linked it.                *)
Backend ==
    /\ mode \notin SetModes => ipset = <<>>
    /\ mode \in SetModes => \A i \in IPs : rules[i] = 0
    /\ ready => jumps > 0 /\ (mode \in SetModes => match > 0)

(* Calls of both kinds for one address know of each other.                  *)
Rivals ==
    \A p, q \in Callers :
        (op[p] = "ban" /\ op[q] = "unban" /\ ip[p] = ip[q]) => mixed[p] /\ mixed[q]

(* What no member reported while the opposite is under way.                 *)
Unsettled ==
    \A p \in Callers, i \in IPs, b \in Members :
        ip[p] = {i} => /\ op[p] = "ban" => fate[b][i] # "cleared"
                       /\ op[p] = "unban" => fate[b][i] # "banned"

(* A member whose part is over, in a call that crossed no other, and that   *)
(* met no error had its effect, unless its look-up failed.                  *)
Blind(p, b) == b = "base" /\ missed[p]
Effective ==
    \A p \in Callers, i \in IPs, b \in Backends :
        (ip[p] = {i} /\ ~mixed[p] /\ Done(p, b) /\ b \notin errs[p]) =>
            /\ op[p] = "ban" => i \in HeldBy(b)
            /\ (op[p] = "unban" /\ ~Blind(p, b)) => i \notin HeldBy(b)

(* What the members reported is so.                                         *)
Truthful ==
    \A i \in IPs, b \in Backends :
        /\ fate[b][i] = "banned" => i \in HeldBy(b)
        /\ fate[b][i] = "cleared" => i \notin HeldBy(b)

IInv == TypeOK /\ CallShape /\ Backend /\ Rivals /\ Unsettled /\ Effective /\ Truthful

----------------------------------------------------------------------------
(* Operators of the model.                                                  *)

LEMMA ChooseSingle ==
    ASSUME NEW S, NEW i \in S
    PROVE  (CHOOSE j \in S : {i} = {j}) = i
<1>1. \E j \in S : {i} = {j}
  OBVIOUS
<1>2. {i} = {CHOOSE j \in S : {i} = {j}}
  BY <1>1
<1>3. QED
  BY <1>2

(* A call under way has one address.                                        *)
LEMMA TargetIs ==
    ASSUME NEW p, NEW i \in IPs, ip[p] = {i}
    PROVE  Target(p) = i
BY ChooseSingle DEF Target

LEMMA FirstIs ==
    /\ First = "xdp" => "xdp" \in Members /\ "base" \notin Members
    /\ First = "set" => mode \in SetModes /\ "base" \in Members
    /\ First = "check" => mode \notin SetModes /\ "base" \in Members
    /\ First \in {"xdp", "set", "check"}
BY DEF First, Members

LEMMA ThenIs == Then \in {"xdp", "return"} /\ (Then = "xdp" <=> "xdp" \in Members)
BY DEF Then

LEMMA MembersAre == Members \subseteq Backends /\ ("base" \notin Members => "xdp" \in Members)
BY DEF Members, Backends

LEMMA MembersSame ==
    ASSUME mode' = mode, attached' = attached
    PROVE  Members' = Members /\ Then' = Then
BY DEF Members, Then

LEMMA XmapPut ==
    ASSUME NEW m \in [v4 : SUBSET V4, v6 : SUBSET V6], NEW i \in IPs, NEW add \in BOOLEAN, NEW n,
           n = [m EXCEPT ![XdpKey(i)] = IF add THEN @ \cup {i} ELSE @ \ {i}]
    PROVE  /\ n \in [v4 : SUBSET V4, v6 : SUBSET V6]
           /\ n.v4 \cup n.v6 = IF add THEN m.v4 \cup m.v6 \cup {i} ELSE (m.v4 \cup m.v6) \ {i}
<1>1. CASE i \in V4
  <2>1. n = [m EXCEPT !.v4 = IF add THEN @ \cup {i} ELSE @ \ {i}]
    BY <1>1 DEF XdpKey
  <2>2. QED
    BY <1>1, <2>1, FirewallAssumption DEF IPs
<1>2. CASE i \in V6 /\ i \notin V4
  <2>1. n = [m EXCEPT !.v6 = IF add THEN @ \cup {i} ELSE @ \ {i}]
    BY <1>2 DEF XdpKey
  <2>2. QED
    BY <1>2, <2>1, FirewallAssumption DEF IPs
<1>3. QED
  BY <1>1, <1>2 DEF IPs

----------------------------------------------------------------------------
(* Types and the shape of calls.                                            *)

(* A step of caller p leaves the other calls alone.                         *)
Others(p) ==
    \A q \in Callers \ {p} :
        pc'[q] = pc[q] /\ op'[q] = op[q] /\ ip'[q] = ip[q] /\ removed'[q] = removed[q] /\ errs'[q] = errs[q]

LEMMA ShapeFrame ==
    ASSUME CallShape, NEW p \in Callers, Others(p), mode' = mode, attached' = attached, up' = up, ShapeAt(p)',
           \A q \in Callers \ {p} : (mixed'[q] = mixed[q] /\ missed'[q] = missed[q]) \/ pc[q] # "idle"
    PROVE  CallShape'
<1>0. Members' = Members
  BY MembersSame
<1>1. ASSUME NEW q \in Callers \ {p}
      PROVE  ShapeAt(q)'
  <2>1. ShapeAt(q)
    BY <1>1 DEF CallShape
  <2>2. /\ pc'[q] = pc[q] /\ op'[q] = op[q] /\ ip'[q] = ip[q] /\ removed'[q] = removed[q] /\ errs'[q] = errs[q]
        /\ (mixed'[q] = mixed[q] /\ missed'[q] = missed[q]) \/ pc[q] # "idle"
    BY <1>1 DEF Others
  <2>3. QED
    BY <1>0, <2>1, <2>2 DEF ShapeAt, Done
<1>2. QED
  BY <1>1 DEF CallShape

LEMMA FailedType ==
    ASSUME TypeOK, NEW p \in Callers, UNCHANGED errs \/ (\E m \in Backends : Failed(p, m))
    PROVE  errs' \in [Callers -> SUBSET Backends]
<1>1. CASE UNCHANGED errs
  BY <1>1 DEF TypeOK
<1>2. ASSUME NEW m \in Backends, Failed(p, m)
      PROVE  errs' \in [Callers -> SUBSET Backends]
  <2>1. errs[p] \cup {m} \in SUBSET Backends
    BY DEF TypeOK
  <2>2. QED
    BY <1>2, <2>1 DEF TypeOK, Failed
<1>3. QED
  BY <1>1, <1>2

(* The base is over: it is the only member that can have failed.            *)
LEMMA BaseOver ==
    ASSUME TypeOK, NEW p \in Callers, pc'[p] = Then, "base" \in Members, mode' = mode, attached' = attached,
           errs[p] = {}, UNCHANGED errs \/ Failed(p, "base")
    PROVE  \A b \in errs'[p] : b = "base" /\ Done(p, b)'
<1>1. \A b \in errs'[p] : b = "base"
  BY DEF Failed, TypeOK
<1>2. Members' = Members /\ Then \in {"xdp", "return"}
  BY MembersSame, ThenIs
<1>3. QED
  BY <1>1, <1>2 DEF Done

(* A call with a base member has no error before it is over.                *)
LEMMA NoErrors ==
    ASSUME CallShape, NEW p \in Callers, pc[p] \in {"check", "append", "delete", "recheck", "set"}
    PROVE  errs[p] = {}
BY DEF CallShape, ShapeAt, Done

(* A call under way has a target.                                           *)
LEMMA HasTarget ==
    ASSUME CallShape, NEW p \in Callers, pc[p] # "idle"
    PROVE  Target(p) \in IPs /\ ip[p] = {Target(p)} /\ op[p] \in {"ban", "unban"}
<1>1. PICK i \in IPs : ip[p] = {i}
  BY DEF CallShape, ShapeAt
<1>2. QED
  BY <1>1, TargetIs DEF CallShape, ShapeAt

LEMMA InitShape == Init => TypeOK /\ CallShape
<1> SUFFICES ASSUME Init PROVE TypeOK /\ CallShape
  OBVIOUS
<1>1. TypeOK
  <2>1. 0 \in 0..MaxBoots /\ 0 \in 0..MaxFaults /\ 0 \in 0..Limit
    BY FirewallAssumption
  <2>2. xmap \in [v4 : SUBSET V4, v6 : SUBSET V6] /\ rules \in [IPs -> Nat] /\ pf \in [Ports -> Nat]
    BY DEF Init, EmptyMaps
  <2>3. /\ pc \in [Callers -> {"idle", "check", "append", "delete", "recheck", "set", "xdp", "return"}]
        /\ op \in [Callers -> {"none", "ban", "unban"}]
        /\ ip \in [Callers -> {{}} \cup {{i} : i \in IPs}]
        /\ removed \in [Callers -> 0..Limit] /\ errs \in [Callers -> SUBSET Backends]
        /\ fate \in [Backends -> [IPs -> Fates]] /\ mixed \in [Callers -> BOOLEAN] /\ missed \in [Callers -> BOOLEAN]
    BY <2>1 DEF Init, Fates
  <2>4. QED
    BY <2>1, <2>2, <2>3 DEF Init, TypeOK
<1>2. CallShape
  BY DEF Init, CallShape, ShapeAt, Done
<1>3. QED
  BY <1>1, <1>2

LEMMA BanCheckShape ==
    ASSUME TypeOK, CallShape, NEW p \in Callers, BanCheck(p)
    PROVE  TypeOK' /\ CallShape' /\ Others(p)
<1>1. TypeOK'
  <2>1. faults' \in 0..MaxFaults
    BY FirewallAssumption DEF TypeOK, BanCheck, Works, Breaks, Spend
  <2>2. pc' \in [Callers -> Stages]
    BY ThenIs DEF TypeOK, BanCheck, Goto, Stages
  <2>3. QED
    BY <2>1, <2>2 DEF TypeOK, Stages, BanCheck, kernel, daemon, history
<1>2. Others(p) /\ mode' = mode /\ attached' = attached /\ up' = up /\ mixed' = mixed /\ missed' = missed
  BY DEF Others, BanCheck, Goto, TypeOK, daemon, history
<1>3. ShapeAt(p)'
  <2>1. ShapeAt(p) /\ pc'[p] \in {"append", Then}
    BY DEF CallShape, BanCheck, Goto, TypeOK
  <2>2. QED
    BY <1>2, <2>1, ThenIs, MembersSame DEF ShapeAt, Done, Failed, TypeOK, BanCheck, daemon, history
<1>4. QED
  BY <1>1, <1>2, <1>3, ShapeFrame

LEMMA BanAppendShape ==
    ASSUME TypeOK, CallShape, NEW p \in Callers, BanAppend(p)
    PROVE  TypeOK' /\ CallShape' /\ Others(p)
<1>1. TypeOK'
  <2>1. faults' \in 0..MaxFaults
    BY FirewallAssumption DEF TypeOK, BanAppend, Works, Breaks, Spend
  <2>2. pc' \in [Callers -> Stages]
    BY ThenIs DEF TypeOK, BanAppend, Goto, Stages
  <2>3. errs' \in [Callers -> SUBSET Backends]
    BY FailedType DEF BanAppend, Backends
  <2>4. rules' \in [IPs -> Nat]
    <3>1. Target(p) \in IPs /\ rules \in [IPs -> Nat]
      BY HasTarget DEF BanAppend, TypeOK
    <3>2. QED
      BY <3>1 DEF BanAppend
  <2>5. QED
    BY <2>1, <2>2, <2>3, <2>4 DEF TypeOK, Stages, BanAppend, daemon, history
<1>2. Others(p) /\ mode' = mode /\ attached' = attached /\ up' = up /\ mixed' = mixed /\ missed' = missed
  BY DEF Others, BanAppend, Goto, Failed, TypeOK, daemon, history
<1>3. ShapeAt(p)'
  <2>1. ShapeAt(p) /\ pc[p] = "append" /\ pc'[p] = Then
    BY DEF CallShape, BanAppend, Goto, TypeOK
  <2>2. QED
    <3>1. errs[p] = {} /\ Members' = Members
      BY <1>2, <2>1, NoErrors, MembersSame
    <3>2. \A b \in errs'[p] : Done(p, b)'
      BY <1>2, <2>1, <3>1, BaseOver DEF ShapeAt, BanAppend
    <3>3. QED
      BY <1>2, <2>1, <3>1, <3>2, ThenIs DEF ShapeAt, BanAppend, daemon, history
<1>4. QED
  BY <1>1, <1>2, <1>3, ShapeFrame

LEMMA UnbanCheckShape ==
    ASSUME TypeOK, CallShape, NEW p \in Callers, UnbanCheck(p)
    PROVE  TypeOK' /\ CallShape' /\ Others(p)
<1>1. TypeOK'
  <2>1. faults' \in 0..MaxFaults
    BY FirewallAssumption DEF TypeOK, UnbanCheck, Works, Breaks, Spend
  <2>2. pc' \in [Callers -> Stages]
    BY ThenIs DEF TypeOK, UnbanCheck, Goto, Stages
  <2>3. errs' \in [Callers -> SUBSET Backends]
    BY FailedType DEF UnbanCheck, Backends
  <2>5. missed' \in [Callers -> BOOLEAN]
    BY DEF TypeOK, UnbanCheck
  <2>4. QED
    BY <2>1, <2>2, <2>3, <2>5 DEF TypeOK, Stages, UnbanCheck, kernel, daemon
<1>2. Others(p) /\ mode' = mode /\ attached' = attached /\ up' = up /\ (\A q \in Callers \ {p} : mixed'[q] = mixed[q] /\ missed'[q] = missed[q])
  BY DEF Others, UnbanCheck, Goto, Failed, TypeOK, daemon
<1>3. ShapeAt(p)'
  <2>1. ShapeAt(p) /\ pc[p] = "check" /\ op[p] = "unban"
    BY DEF CallShape, UnbanCheck
  <2>2. errs[p] = {} /\ Members' = Members
    BY <1>2, <2>1, NoErrors, MembersSame
  <2>3. CASE pc'[p] = Then
    <3>1. \A b \in errs'[p] : Done(p, b)'
      BY <1>2, <2>1, <2>2, <2>3, BaseOver DEF ShapeAt, UnbanCheck
    <3>2. QED
      BY <1>2, <2>1, <2>2, <2>3, <3>1, ThenIs DEF ShapeAt, UnbanCheck, daemon
  <2>4. CASE pc'[p] = "delete" /\ removed[p] < Limit /\ errs' = errs
    BY <1>2, <2>1, <2>2, <2>4 DEF ShapeAt, UnbanCheck, daemon
  <2>5. QED
    BY <2>3, <2>4 DEF UnbanCheck, Goto, TypeOK
<1>4. QED
  BY <1>1, <1>2, <1>3, ShapeFrame

LEMMA UnbanDeleteShape ==
    ASSUME TypeOK, CallShape, NEW p \in Callers, UnbanDelete(p)
    PROVE  TypeOK' /\ CallShape' /\ Others(p)
<1>0. ShapeAt(p) /\ pc[p] = "delete" /\ removed[p] < Limit
  BY DEF CallShape, ShapeAt, UnbanDelete
<1>1. TypeOK'
  <2>1. faults' \in 0..MaxFaults
    BY FirewallAssumption DEF TypeOK, UnbanDelete, Works, Breaks, Spend
  <2>2. pc' \in [Callers -> Stages]
    BY DEF TypeOK, UnbanDelete, Goto, Stages
  <2>3. removed' \in [Callers -> 0..Limit]
    <3>1. removed[p] \in 0..Limit /\ removed[p] + 1 \in 0..Limit
      BY <1>0, FirewallAssumption DEF TypeOK
    <3>2. QED
      BY <3>1 DEF TypeOK, UnbanDelete
  <2>4. rules' \in [IPs -> Nat]
    <3>1. Target(p) \in IPs /\ rules \in [IPs -> Nat]
      BY <1>0, HasTarget DEF TypeOK
    <3>2. CASE Present(p) /\ rules' = [rules EXCEPT ![Target(p)] = @ - 1]
      <4>1. rules[Target(p)] - 1 \in Nat
        BY <3>1, <3>2 DEF Present
      <4>2. QED
        BY <3>1, <3>2, <4>1
    <3>3. QED
      BY <3>1, <3>2 DEF UnbanDelete
  <2>5. QED
    BY <2>1, <2>2, <2>3, <2>4 DEF TypeOK, Stages, UnbanDelete, daemon, history
<1>2. Others(p) /\ mode' = mode /\ attached' = attached /\ up' = up /\ mixed' = mixed /\ missed' = missed
  BY DEF Others, UnbanDelete, Goto, TypeOK, daemon, history
<1>3. ShapeAt(p)'
  <2>1. pc'[p] \in {"check", "recheck"}
    BY DEF UnbanDelete, Goto, TypeOK
  <2>2. errs[p] = {} /\ errs' = errs /\ Members' = Members
    BY <1>0, <1>2, NoErrors, MembersSame DEF UnbanDelete
  <2>3. QED
    BY <1>0, <1>2, <2>1, <2>2 DEF ShapeAt, UnbanDelete, daemon, history
<1>4. QED
  BY <1>1, <1>2, <1>3, ShapeFrame

LEMMA UnbanRecheckShape ==
    ASSUME TypeOK, CallShape, NEW p \in Callers, UnbanRecheck(p)
    PROVE  TypeOK' /\ CallShape' /\ Others(p)
<1>1. TypeOK'
  <2>1. faults' \in 0..MaxFaults
    BY FirewallAssumption DEF TypeOK, UnbanRecheck, Works, Breaks, Spend
  <2>2. pc' \in [Callers -> Stages]
    BY ThenIs DEF TypeOK, UnbanRecheck, Goto, Stages
  <2>3. errs' \in [Callers -> SUBSET Backends]
    BY FailedType DEF UnbanRecheck, Backends
  <2>5. missed' \in [Callers -> BOOLEAN]
    BY DEF TypeOK, UnbanRecheck
  <2>4. QED
    BY <2>1, <2>2, <2>3, <2>5 DEF TypeOK, Stages, UnbanRecheck, kernel, daemon
<1>2. Others(p) /\ mode' = mode /\ attached' = attached /\ up' = up /\ (\A q \in Callers \ {p} : mixed'[q] = mixed[q] /\ missed'[q] = missed[q])
  BY DEF Others, UnbanRecheck, Goto, Failed, TypeOK, daemon
<1>3. ShapeAt(p)'
  <2>1. ShapeAt(p) /\ pc[p] = "recheck" /\ pc'[p] = Then
    BY DEF CallShape, UnbanRecheck, Goto, TypeOK
  <2>2. QED
    <3>1. errs[p] = {} /\ Members' = Members
      BY <1>2, <2>1, NoErrors, MembersSame
    <3>2. \A b \in errs'[p] : Done(p, b)'
      BY <1>2, <2>1, <3>1, BaseOver DEF ShapeAt, UnbanRecheck
    <3>3. QED
      BY <1>2, <2>1, <3>1, <3>2, ThenIs DEF ShapeAt, UnbanRecheck, daemon
<1>4. QED
  BY <1>1, <1>2, <1>3, ShapeFrame

LEMMA SetCommandShape ==
    ASSUME TypeOK, CallShape, NEW p \in Callers, SetCommand(p)
    PROVE  TypeOK' /\ CallShape' /\ Others(p)
<1>0. ShapeAt(p) /\ pc[p] = "set"
  BY DEF CallShape, SetCommand
<1>1. PICK i \in IPs : ip[p] = {i} /\ Target(p) = i
  BY <1>0, HasTarget
<1>3. TypeOK'
  <2>1. faults' \in 0..MaxFaults
    BY FirewallAssumption DEF TypeOK, SetCommand, Works, Breaks, Spend
  <2>2. pc' \in [Callers -> Stages]
    BY ThenIs DEF TypeOK, SetCommand, Goto, Stages
  <2>3. errs' \in [Callers -> SUBSET Backends]
    BY FailedType DEF SetCommand, Backends
  <2>4. ipset' = <<>> \/ (DOMAIN ipset' = {1} /\ ipset'[1] \subseteq V4)
    BY <1>1 DEF TypeOK, SetCommand
  <2>5. QED
    BY <2>1, <2>2, <2>3, <2>4 DEF TypeOK, Stages, SetCommand, daemon, history
<1>4. Others(p) /\ mode' = mode /\ attached' = attached /\ up' = up /\ mixed' = mixed /\ missed' = missed
  BY DEF Others, SetCommand, Goto, Failed, TypeOK, daemon, history
<1>5. ShapeAt(p)'
  <2>1. pc'[p] = Then
    BY DEF SetCommand, Goto, TypeOK
  <2>2. QED
    <3>1. errs[p] = {} /\ Members' = Members
      BY <1>0, <1>4, NoErrors, MembersSame
    <3>2. \A b \in errs'[p] : Done(p, b)'
      BY <1>0, <1>4, <2>1, <3>1, BaseOver DEF ShapeAt, SetCommand
    <3>3. QED
      BY <1>0, <1>4, <2>1, <3>1, <3>2, ThenIs DEF ShapeAt, SetCommand, daemon, history
<1>6. QED
  BY <1>3, <1>4, <1>5, ShapeFrame

LEMMA XdpCommandShape ==
    ASSUME TypeOK, CallShape, NEW p \in Callers, XdpCommand(p)
    PROVE  TypeOK' /\ CallShape' /\ Others(p)
<1>0. ShapeAt(p) /\ pc[p] = "xdp"
  BY DEF CallShape, XdpCommand
<1>1. PICK i \in IPs : ip[p] = {i} /\ Target(p) = i
  BY <1>0, HasTarget
<1>3. TypeOK'
  <2>1. faults' \in 0..MaxFaults
    BY FirewallAssumption DEF TypeOK, XdpCommand, Works, Breaks, Spend
  <2>2. pc' \in [Callers -> Stages]
    BY DEF TypeOK, XdpCommand, Goto, Stages
  <2>3. errs' \in [Callers -> SUBSET Backends]
    BY FailedType DEF XdpCommand, Backends
  <2>4. xmap' \in [v4 : SUBSET V4, v6 : SUBSET V6]
    <3>1. CASE UNCHANGED xmap
      BY <3>1 DEF TypeOK
    <3>2. CASE xmap' = [xmap EXCEPT ![XdpKey(i)] = IF op[p] = "ban" THEN @ \cup {i} ELSE @ \ {i}]
      <4>1. xmap \in [v4 : SUBSET V4, v6 : SUBSET V6] /\ (op[p] = "ban") \in BOOLEAN
        BY DEF TypeOK
      <4>2. QED
        BY <3>2, <4>1, XmapPut
    <3>3. QED
      BY <1>1, <3>1, <3>2 DEF XdpCommand
  <2>5. QED
    BY <2>1, <2>2, <2>3, <2>4 DEF TypeOK, Stages, XdpCommand, daemon, history
<1>4. Others(p) /\ mode' = mode /\ attached' = attached /\ up' = up /\ mixed' = mixed /\ missed' = missed
  BY DEF Others, XdpCommand, Goto, Failed, TypeOK, daemon, history
<1>5. ShapeAt(p)'
  <2>1. pc'[p] = "return"
    BY DEF XdpCommand, Goto, TypeOK
  <2>2. QED
    <3>1. Members' = Members /\ "xdp" \in Members
      BY <1>0, <1>4, MembersSame DEF ShapeAt
    <3>2. \A b \in errs'[p] : b \in errs[p] \/ b = "xdp"
      BY DEF XdpCommand, Failed, TypeOK
    <3>3. \A b \in errs'[p] : Done(p, b)'
      BY <1>0, <2>1, <3>1, <3>2 DEF ShapeAt, Done
    <3>4. QED
      BY <1>0, <1>4, <2>1, <3>1, <3>3 DEF ShapeAt, XdpCommand, daemon, history
<1>6. QED
  BY <1>3, <1>4, <1>5, ShapeFrame

LEMMA ReturnShape ==
    ASSUME TypeOK, CallShape, NEW p \in Callers, Return(p)
    PROVE  TypeOK' /\ CallShape' /\ Others(p)
<1>1. TypeOK'
  <2>1. /\ pc' \in [Callers -> Stages] /\ op' \in [Callers -> {"none", "ban", "unban"}]
        /\ ip' \in [Callers -> {{}} \cup {{i} : i \in IPs}]
    BY DEF TypeOK, Return, Goto, Stages
  <2>2. 0 \in 0..Limit
    BY FirewallAssumption
  <2>3. /\ removed' \in [Callers -> 0..Limit] /\ errs' \in [Callers -> SUBSET Backends] 
        /\ mixed' \in [Callers -> BOOLEAN] /\ missed' \in [Callers -> BOOLEAN]
    BY <2>2 DEF TypeOK, Return
  <2>4. fate' \in [Backends -> [IPs -> Fates]]
    <3>1. Target(p) \in IPs /\ op[p] \in {"ban", "unban"}
      BY HasTarget DEF Return
    <3>2. \A b \in Backends : Reported(p, b) \in Fates /\ fate[b] \in [IPs -> Fates]
      BY <3>1 DEF Reported, TypeOK, Fates
    <3>3. QED
      BY <3>1, <3>2 DEF Return
  <2>5. QED
    BY <2>1, <2>3, <2>4 DEF TypeOK, Stages, Return, kernel, daemon
<1>2. Others(p) /\ mode' = mode /\ attached' = attached /\ up' = up /\ (\A q \in Callers \ {p} : mixed'[q] = mixed[q] /\ missed'[q] = missed[q])
  BY DEF Others, Return, Goto, TypeOK, daemon
<1>3. ShapeAt(p)'
  BY DEF ShapeAt, Done, Failed, TypeOK, Return, Goto, TypeOK
<1>4. QED
  BY <1>1, <1>2, <1>3, ShapeFrame

LEMMA StartShape ==
    ASSUME TypeOK, CallShape, NEW p \in Callers, NEW o \in {"ban", "unban"}, NEW i \in IPs, Start(p, o, i)
    PROVE  TypeOK' /\ CallShape' /\ Others(p)
<1>1. TypeOK'
  <2>1. /\ pc' \in [Callers -> Stages] /\ op' \in [Callers -> {"none", "ban", "unban"}]
        /\ ip' \in [Callers -> {{}} \cup {{j} : j \in IPs}]
    BY FirstIs DEF TypeOK, Start, Goto, Stages
  <2>2. mixed' \in [Callers -> BOOLEAN]
    BY DEF TypeOK, Start
  <2>3. fate' \in [Backends -> [IPs -> Fates]]
    <3>1. \A b \in Backends : fate[b] \in [IPs -> Fates]
      BY DEF TypeOK
    <3>2. \A b \in Backends : fate'[b] \in [IPs -> Fates]
      BY <3>1 DEF Start, Fates
    <3>3. QED
      BY <3>2 DEF Start
  <2>4. QED
    BY <2>1, <2>2, <2>3 DEF TypeOK, Stages, Start, kernel, daemon
<1>2. Others(p) /\ mode' = mode /\ attached' = attached /\ up' = up
  BY DEF Others, Start, Goto, TypeOK, daemon
<1>3. ASSUME NEW q \in Callers \ {p}
      PROVE  (mixed'[q] = mixed[q] /\ missed'[q] = missed[q]) \/ pc[q] # "idle"
  <2>1. pc[q] = "idle" => op[q] = "none"
    BY <1>3 DEF CallShape, ShapeAt
  <2>2. QED
    BY <1>3, <2>1 DEF Start, Other
<1>4. ShapeAt(p)'
  <2>1. ShapeAt(p) /\ pc[p] = "idle" /\ pc'[p] = First /\ up /\ op'[p] = o /\ ip'[p] = {i} /\ errs' = errs
    BY DEF CallShape, Start, Goto, TypeOK
  <2>2. QED
    BY <1>2, <2>1, FirstIs, MembersSame DEF ShapeAt, Start
<1>5. QED
  BY <1>1, <1>2, <1>3, <1>4, ShapeFrame

LEMMA CrashShape ==
    ASSUME TypeOK, Crash
    PROVE  TypeOK' /\ CallShape'
<1>1. 0 \in 0..Limit
  BY FirewallAssumption
<1>2. TypeOK'
  BY <1>1 DEF TypeOK, Crash, NoCalls, kernel
<1>3. CallShape'
  BY DEF CallShape, ShapeAt, Done, Crash, NoCalls
<1>4. QED
  BY <1>2, <1>3

LEMMA ForgottenIs ==
    ASSUME TypeOK, NEW b \in Backends
    PROVE  /\ Forgotten(b) \in [IPs -> Fates]
           /\ \A i \in IPs : Forgotten(b)[i] # "banned" /\ (Forgotten(b)[i] = "cleared" => fate[b][i] = "cleared")
<1>1. fate[b] \in [IPs -> Fates]
  BY DEF TypeOK
<1>2. QED
  BY <1>1 DEF Forgotten, Fates

LEMMA RebootShape ==
    ASSUME TypeOK, CallShape, Reboot
    PROVE  TypeOK' /\ CallShape'
<1>1. TypeOK'
  <2>1. xmap' \in [v4 : SUBSET V4, v6 : SUBSET V6] /\ rules' \in [IPs -> Nat] /\ pf' \in [Ports -> Nat]
    BY DEF Reboot, Empty, EmptyMaps
  <2>2. fate' \in [Backends -> [IPs -> Fates]]
    BY ForgottenIs DEF Reboot
  <2>3. QED
    BY <2>1, <2>2 DEF TypeOK, Reboot, Empty, calls
<1>2. CallShape'
  BY MembersSame DEF CallShape, ShapeAt, Done, Reboot, calls
<1>3. QED
  BY <1>1, <1>2

LEMMA CommandsFinite == IsFiniteSet(Commands)
<1>1. IsFiniteSet({"create"})
  BY FS_Singleton
<1>2. IsFiniteSet({"create"} \cup {"-N"})
  BY <1>1, FS_AddElement
<1>3. IsFiniteSet({"create"} \cup {"-N"} \cup {"-C"})
  BY <1>2, FS_AddElement
<1>4. IsFiniteSet({"create"} \cup {"-N"} \cup {"-C"} \cup {"-I"})
  BY <1>3, FS_AddElement
<1>5. IsFiniteSet({"create"} \cup {"-N"} \cup {"-C"} \cup {"-I"} \cup {"-C set"})
  BY <1>4, FS_AddElement
<1>6. IsFiniteSet({"create"} \cup {"-N"} \cup {"-C"} \cup {"-I"} \cup {"-C set"} \cup {"-A set"})
  BY <1>5, FS_AddElement
<1>7. IsFiniteSet({"create"} \cup {"-N"} \cup {"-C"} \cup {"-I"} \cup {"-C set"} \cup {"-A set"} \cup {"schema"})
  BY <1>6, FS_AddElement
<1>8. IsFiniteSet({"create"} \cup {"-N"} \cup {"-C"} \cup {"-I"} \cup {"-C set"} \cup {"-A set"} \cup {"schema"} \cup {"attach"})
  BY <1>7, FS_AddElement
<1>9. IsFiniteSet({"create"} \cup {"-N"} \cup {"-C"} \cup {"-I"} \cup {"-C set"} \cup {"-A set"} \cup {"schema"} \cup {"attach"} \cup {"prefilter"})
  BY <1>8, FS_AddElement
<1>10. Commands = {"create"} \cup {"-N"} \cup {"-C"} \cup {"-I"} \cup {"-C set"} \cup {"-A set"} \cup {"schema"} \cup {"attach"} \cup {"prefilter"}
  BY DEF Commands
<1>11. QED
  BY <1>9, <1>10

LEMMA BootShape ==
    ASSUME TypeOK, CallShape, Boot
    PROVE  TypeOK' /\ CallShape' /\ (\A p \in Callers : pc[p] = "idle" /\ ip'[p] = {} /\ op'[p] = "none")
<1>1. PICK F \in SUBSET Commands : Spend(Cardinality(F)) /\ InitBase(F) /\ InitXdp(F) /\ ApplyPrefilter(F)
  BY DEF Boot
<1>2. TypeOK'
  <2>1. faults' \in 0..MaxFaults
    <3>1. IsFiniteSet(Commands)
      BY CommandsFinite
    <3>2. Cardinality(F) \in Nat
      BY <3>1, FS_Subset, FS_CardinalityType
    <3>3. QED
      BY <1>1, <3>2, FirewallAssumption DEF Spend, TypeOK
  <2>2. boots' \in 0..MaxBoots /\ up' \in BOOLEAN
    BY FirewallAssumption DEF Boot, TypeOK
  <2>3. chain' \in BOOLEAN /\ ready' \in BOOLEAN
    BY <1>1, Zenon DEF InitBase
  <2>7. jumps' \in {jumps, jumps + 1} /\ match' \in {match, match + 1} /\ ipset' \in {ipset, <<{}>>}
    BY <1>1, Zenon DEF InitBase
  <2>8. jumps' \in Nat /\ match' \in Nat
    BY <2>7 DEF TypeOK
  <2>4. ipset' = <<>> \/ (DOMAIN ipset' = {1} /\ ipset'[1] \subseteq V4)
    BY <2>7 DEF TypeOK
  <2>5. pf' \in [Ports -> Nat]
    BY <1>1 DEF ApplyPrefilter, TypeOK, Ports
  <2>9. attached' \in BOOLEAN
    BY <1>1, Zenon DEF InitXdp
  <2>10. xmap' \in [v4 : SUBSET V4, v6 : SUBSET V6] /\ fate' \in [Backends -> [IPs -> Fates]]
    <3>1. CASE UNCHANGED <<xmap, fate>>
      BY <3>1 DEF TypeOK
    <3>2. CASE xmap' = EmptyMaps /\ fate' = [fate EXCEPT !["xdp"] = Forgotten("xdp")]
      <4>1. Forgotten("xdp") \in [IPs -> Fates] /\ fate \in [Backends -> [IPs -> Fates]]
        BY ForgottenIs DEF TypeOK, Backends
      <4>2. QED
        BY <3>2, <4>1 DEF EmptyMaps
    <3>3. QED
      BY <1>1, <3>1, <3>2 DEF InitXdp
  <2>6. QED
    BY <2>1, <2>2, <2>3, <2>8, <2>4, <2>5, <2>9, <2>10 DEF TypeOK, Boot, calls
<1>3. ASSUME NEW p \in Callers
      PROVE  pc[p] = "idle" /\ ShapeAt(p)'
  <2>1. pc[p] = "idle" /\ ShapeAt(p)
    BY DEF Boot, CallShape, ShapeAt
  <2>2. QED
    BY <2>1 DEF Boot, calls, ShapeAt, Done
<1>4. QED
  BY <1>2, <1>3 DEF CallShape, ShapeAt, Boot, calls

----------------------------------------------------------------------------
(* What one command of a call does to each member, whatever the backend: it *)
(* goes on, or is over, with its effect, with an error or, if a look-up     *)
(* failed, with neither.                                                    *)

Effect(p, b) == IF op[p] = "ban" THEN HeldBy(b) \cup ip[p] ELSE HeldBy(b) \ ip[p]
Achieves(p, b) == ~Done(p, b) /\ Done(p, b)' /\ b \notin errs'[p] /\ HeldBy(b)' = Effect(p, b)
Fails(p, b) == ~Done(p, b) /\ Done(p, b)' /\ b \in errs'[p] /\ HeldBy(b)' = HeldBy(b)
Misses(p, b) ==
    /\ ~Done(p, b) /\ Done(p, b)' /\ b \notin errs'[p] /\ HeldBy(b)' = HeldBy(b)
    /\ op[p] = "unban" /\ b = "base" /\ missed'[p] /\ faults' > faults
GoesOn(p, b) ==
    /\ Done(p, b)' <=> Done(p, b)
    /\ b \in errs'[p] <=> b \in errs[p]
    /\ \/ HeldBy(b)' = HeldBy(b)
       \/ op[p] = "unban" /\ b \in Members /\ ~Done(p, b) /\ HeldBy(b)' = Effect(p, b)
Moves(p, b) == Achieves(p, b) \/ Fails(p, b) \/ Misses(p, b) \/ GoesOn(p, b)

Step(p) ==
    /\ UNCHANGED <<mode, attached, up, ready, jumps, match, op, ip, fate, mixed>>
    /\ Others(p)
    /\ pc[p] # "idle" /\ pc'[p] # "idle" /\ pc[p] # "return"
    /\ faults' \in Nat /\ faults' >= faults
    /\ (\A q \in Callers \ {p} : missed'[q] = missed[q]) /\ (missed[p] => missed'[p])
    /\ Moves(p, "base") /\ Moves(p, "xdp")

LEMMA HeldIs ==
    /\ HeldBy("base") = Held /\ HeldBy("xdp") = Mapped
    /\ mode \notin SetModes => Held = {i \in IPs : rules[i] > 0}
    /\ mode \in SetModes => Held = IF ipset = <<>> THEN {} ELSE ipset[1]
BY DEF Held, HeldBy

LEMMA HeldNext ==
    /\ HeldBy("base")' = Held' /\ HeldBy("xdp")' = Mapped'
    /\ mode' \notin SetModes => Held' = {i \in IPs : rules'[i] > 0}
    /\ mode' \in SetModes => Held' = IF ipset' = <<>> THEN {} ELSE ipset'[1]
BY DEF Held, HeldBy

(* The base's part is under way, or is over when the call goes to Then.     *)
LEMMA OverThen ==
    ASSUME NEW p, mode' = mode, attached' = attached, "base" \in Members
    PROVE  /\ pc[p] \in {"check", "append", "delete", "recheck", "set"} => ~Done(p, "base")
           /\ pc'[p] \in {"check", "append", "delete", "recheck", "set"} => ~Done(p, "base")'
           /\ pc'[p] = Then => Done(p, "base")'
BY ThenIs, MembersSame DEF Done

(* A command of the base is no business of XDP's.                           *)
LEMMA XdpWaits ==
    ASSUME TypeOK, NEW p \in Callers, mode' = mode, attached' = attached, xmap' = xmap,
           pc[p] \in {"check", "append", "delete", "recheck", "set"},
           pc'[p] \in {"check", "append", "delete", "recheck", "set", Then},
           UNCHANGED errs \/ Failed(p, "base")
    PROVE  Moves(p, "xdp") /\ Mapped' = Mapped
<1>1. Mapped' = Mapped
  BY DEF Mapped
<1>2. ~Done(p, "xdp") /\ ~Done(p, "xdp")'
  BY ThenIs, MembersSame DEF Done
<1>3. "xdp" \in errs'[p] <=> "xdp" \in errs[p]
  BY DEF Failed, TypeOK
<1>4. QED
  BY <1>1, <1>2, <1>3, HeldIs, HeldNext DEF Moves, GoesOn

LEMMA BanCheckStep ==
    ASSUME TypeOK, CallShape, Backend, NEW p \in Callers, BanCheck(p)
    PROVE  Step(p) /\ Backend'
<1>1. TypeOK' /\ CallShape' /\ Others(p)
  BY BanCheckShape
<1>2. UNCHANGED <<kernel, daemon, op, ip, removed, errs, history>> /\ pc[p] = "check" /\ op[p] = "ban"
  BY DEF BanCheck
<1>3. mode \notin SetModes /\ "base" \in Members /\ errs[p] = {} /\ ip[p] = {Target(p)} /\ Target(p) \in IPs
  BY <1>2, OverThen, HasTarget, NoErrors DEF CallShape, ShapeAt, daemon
<1>4. Held = {i \in IPs : rules[i] > 0} /\ Held' = Held /\ Mapped' = Mapped
  BY <1>2, <1>3, HeldIs, HeldNext DEF daemon, kernel, Mapped
<1>5. faults' \in Nat /\ faults' >= faults
  BY <1>1, FirewallAssumption DEF TypeOK, BanCheck, Works, Breaks, Spend
<1>6. (pc'[p] = Then /\ Present(p)) \/ pc'[p] = "append"
  BY DEF BanCheck, Goto, TypeOK
<1>7. mode' = mode /\ attached' = attached /\ ~Done(p, "base")
  BY <1>2, <1>3, OverThen DEF daemon
<1>8. Achieves(p, "base") \/ GoesOn(p, "base")
  <2>1. CASE pc'[p] = "append"
    BY <1>2, <1>3, <1>4, <1>7, <2>1, OverThen, HeldIs, HeldNext DEF GoesOn
  <2>2. CASE pc'[p] = Then /\ Present(p)
    BY <1>2, <1>3, <1>4, <1>7, <2>2, OverThen, HeldIs, HeldNext DEF Achieves, Effect, Present
  <2>3. QED
    BY <1>6, <2>1, <2>2
<1>9. Moves(p, "xdp")
  BY <1>2, <1>3, <1>4, <1>6, <1>7, XdpWaits DEF daemon, kernel
<1>10. Backend'
  BY <1>2 DEF Backend, kernel, daemon, Mapped
<1>11. Step(p)
  BY <1>1, <1>2, <1>5, <1>6, <1>8, <1>9, ThenIs DEF Step, Moves, kernel, daemon, history
<1>12. QED
  BY <1>10, <1>11

(* The backend's tables are only written by its own commands.               *)
LEMMA BackendFrame ==
    ASSUME Backend, UNCHANGED <<mode, up, ready, jumps, match>>,
           ipset' = ipset \/ mode \in SetModes,
           rules' = rules \/ mode \notin SetModes
    PROVE  Backend'
BY DEF Backend

LEMMA BanAppendStep ==
    ASSUME TypeOK, CallShape, Backend, NEW p \in Callers, BanAppend(p)
    PROVE  Step(p) /\ Backend'
<1>1. TypeOK' /\ CallShape' /\ Others(p)
  BY BanAppendShape
<1>2. UNCHANGED <<daemon, chain, jumps, match, pf, ipset, xmap, op, ip, removed, history>> /\ pc[p] = "append"
  BY DEF BanAppend
<1>3. /\ mode \notin SetModes /\ "base" \in Members /\ errs[p] = {} /\ op[p] = "ban" /\ ip[p] = {Target(p)} /\ Target(p) \in IPs
      /\ mode' = mode /\ attached' = attached /\ ~Done(p, "base")
  BY <1>2, OverThen, HasTarget, NoErrors DEF CallShape, ShapeAt, daemon
<1>4. /\ Held = {i \in IPs : rules[i] > 0} /\ Held' = {i \in IPs : rules'[i] > 0}
      /\ Mapped' = Mapped
  BY <1>2, <1>3, HeldIs, HeldNext DEF Mapped
<1>5. faults' \in Nat /\ faults' >= faults
  BY <1>1, FirewallAssumption DEF TypeOK, BanAppend, Works, Breaks, Spend
<1>6. pc'[p] = Then
  BY DEF BanAppend, Goto, TypeOK
<1>7. Achieves(p, "base") \/ Fails(p, "base")
  <2>1. CASE rules' = [rules EXCEPT ![Target(p)] = @ + 1] /\ UNCHANGED errs
    <3>1. Held' = Held \cup {Target(p)}
      BY <1>3, <1>4, <2>1 DEF TypeOK
    <3>2. QED
      BY <1>3, <1>4, <1>6, <2>1, <3>1, OverThen, HeldIs, HeldNext DEF Achieves, Effect
  <2>2. CASE Failed(p, "base") /\ UNCHANGED rules
    BY <1>3, <1>4, <1>6, <2>2, OverThen, HeldIs, HeldNext DEF Fails, Failed, TypeOK
  <2>3. QED
    BY <2>1, <2>2 DEF BanAppend
<1>8. Moves(p, "xdp")
  BY <1>2, <1>3, <1>4, <1>6, XdpWaits DEF BanAppend
<1>9. Backend'
  BY <1>2, <1>3, <1>4, BackendFrame DEF daemon
<1>10. Step(p)
  BY <1>1, <1>2, <1>5, <1>6, <1>7, <1>8, ThenIs DEF Step, Moves, daemon, history
<1>11. QED
  BY <1>9, <1>10

LEMMA UnbanCheckStep ==
    ASSUME TypeOK, CallShape, Backend, NEW p \in Callers, UnbanCheck(p)
    PROVE  Step(p) /\ Backend'
<1>1. TypeOK' /\ CallShape' /\ Others(p)
  BY UnbanCheckShape
<1>2. UNCHANGED <<kernel, daemon, op, ip, removed, fate, mixed>> /\ pc[p] = "check" /\ op[p] = "unban"
  BY DEF UnbanCheck
<1>3. /\ mode \notin SetModes /\ "base" \in Members /\ errs[p] = {} /\ ip[p] = {Target(p)} /\ Target(p) \in IPs
      /\ mode' = mode /\ attached' = attached /\ ~Done(p, "base")
  BY <1>2, OverThen, HasTarget, NoErrors DEF CallShape, ShapeAt, daemon
<1>4. Held = {i \in IPs : rules[i] > 0} /\ Held' = Held /\ Mapped' = Mapped
  BY <1>2, <1>3, HeldIs, HeldNext DEF daemon, kernel, Mapped
<1>5. faults' \in Nat /\ faults' >= faults
  BY <1>1, FirewallAssumption DEF TypeOK, UnbanCheck, Works, Breaks, Spend
<1>6. /\ pc'[p] \in {Then, "delete"}
      /\ \/ pc'[p] = Then /\ Failed(p, "base") /\ UNCHANGED missed
         \/ pc'[p] = "delete" /\ UNCHANGED <<errs, missed>>
         \/ pc'[p] = Then /\ ~Present(p) /\ UNCHANGED <<errs, missed>>
         \/ pc'[p] = Then /\ UNCHANGED errs /\ Breaks /\ missed' = [missed EXCEPT ![p] = TRUE]
  BY DEF UnbanCheck, Goto, TypeOK
<1>7. (\A q \in Callers \ {p} : missed'[q] = missed[q]) /\ (missed[p] => missed'[p])
  BY <1>6 DEF TypeOK
<1>8. Achieves(p, "base") \/ Fails(p, "base") \/ Misses(p, "base") \/ GoesOn(p, "base")
  <2>1. CASE pc'[p] = Then /\ Failed(p, "base")
    BY <1>3, <1>4, <2>1, OverThen, HeldIs, HeldNext DEF Fails, Failed, TypeOK
  <2>2. CASE pc'[p] = "delete" /\ UNCHANGED errs
    BY <1>3, <1>4, <2>2, OverThen, HeldIs, HeldNext DEF GoesOn
  <2>3. CASE pc'[p] = Then /\ ~Present(p) /\ UNCHANGED errs
    <3>1. Held = Held \ {Target(p)}
      BY <1>4, <2>3 DEF Present
    <3>2. QED
      BY <1>2, <1>3, <1>4, <2>3, <3>1, OverThen, HeldIs, HeldNext DEF Achieves, Effect
  <2>4. CASE pc'[p] = Then /\ UNCHANGED errs /\ Breaks /\ missed' = [missed EXCEPT ![p] = TRUE]
    <3>1. faults' > faults
      BY <2>4 DEF Breaks, Spend, TypeOK
    <3>2. QED
      BY <1>2, <1>3, <1>4, <2>4, <3>1, OverThen, HeldIs, HeldNext DEF Misses, TypeOK
  <2>5. QED
    BY <1>6, <2>1, <2>2, <2>3, <2>4
<1>9. Moves(p, "xdp")
  BY <1>2, <1>3, <1>4, <1>6, XdpWaits DEF daemon, kernel
<1>10. Backend'
  BY <1>2, <1>3, <1>4, BackendFrame DEF daemon, kernel
<1>11. Step(p)
  BY <1>1, <1>2, <1>5, <1>6, <1>7, <1>8, <1>9, ThenIs DEF Step, Moves, daemon, kernel
<1>12. QED
  BY <1>10, <1>11

LEMMA UnbanDeleteStep ==
    ASSUME TypeOK, CallShape, Backend, NEW p \in Callers, UnbanDelete(p)
    PROVE  Step(p) /\ Backend'
<1>1. TypeOK' /\ CallShape' /\ Others(p)
  BY UnbanDeleteShape
<1>2. UNCHANGED <<daemon, chain, jumps, match, pf, ipset, xmap, op, ip, errs, history>> /\ pc[p] = "delete"
  BY DEF UnbanDelete
<1>3. /\ mode \notin SetModes /\ "base" \in Members /\ errs[p] = {} /\ op[p] = "unban" /\ ip[p] = {Target(p)} /\ Target(p) \in IPs
      /\ mode' = mode /\ attached' = attached /\ ~Done(p, "base")
  BY <1>2, OverThen, HasTarget, NoErrors DEF CallShape, ShapeAt, daemon
<1>4. /\ Held = {i \in IPs : rules[i] > 0} /\ Held' = {i \in IPs : rules'[i] > 0}
      /\ Mapped' = Mapped
  BY <1>2, <1>3, HeldIs, HeldNext DEF Mapped
<1>5. faults' \in Nat /\ faults' >= faults
  BY <1>1, FirewallAssumption DEF TypeOK, UnbanDelete, Works, Breaks, Spend
<1>6. pc'[p] \in {"check", "recheck"}
  BY DEF UnbanDelete, Goto, TypeOK
<1>7. Held' = Held \/ Held' = Effect(p, "base")
  <2>1. CASE UNCHANGED rules
    BY <1>4, <2>1
  <2>2. CASE Present(p) /\ rules' = [rules EXCEPT ![Target(p)] = @ - 1]
    <3>1. rules \in [IPs -> Nat] /\ rules[Target(p)] > 0
      BY <2>2 DEF TypeOK, Present
    <3>2. CASE rules[Target(p)] = 1
      <4>1. Held' = Held \ {Target(p)}
        BY <1>3, <1>4, <2>2, <3>1, <3>2
      <4>2. QED
        BY <1>3, <4>1, HeldIs DEF Effect
    <3>3. CASE rules[Target(p)] > 1
      <4>1. Held' = Held
        BY <1>3, <1>4, <2>2, <3>1, <3>3
      <4>2. QED
        BY <4>1
    <3>4. QED
      BY <1>3, <3>1, <3>2, <3>3
  <2>3. QED
    BY <2>1, <2>2 DEF UnbanDelete
<1>8. GoesOn(p, "base")
  BY <1>2, <1>3, <1>6, <1>7, OverThen, HeldIs, HeldNext DEF GoesOn
<1>9. Moves(p, "xdp")
  BY <1>2, <1>4, <1>6, XdpWaits DEF daemon, kernel
<1>10. Backend'
  BY <1>2, <1>3, <1>4, BackendFrame DEF daemon
<1>11. Step(p)
  BY <1>1, <1>2, <1>5, <1>6, <1>8, <1>9 DEF Step, Moves, daemon, history
<1>12. QED
  BY <1>10, <1>11

LEMMA UnbanRecheckStep ==
    ASSUME TypeOK, CallShape, Backend, NEW p \in Callers, UnbanRecheck(p)
    PROVE  Step(p) /\ Backend'
<1>1. TypeOK' /\ CallShape' /\ Others(p)
  BY UnbanRecheckShape
<1>2. UNCHANGED <<kernel, daemon, op, ip, removed, fate, mixed>> /\ pc[p] = "recheck"
  BY DEF UnbanRecheck
<1>3. /\ mode \notin SetModes /\ "base" \in Members /\ errs[p] = {} /\ op[p] = "unban" /\ ip[p] = {Target(p)} /\ Target(p) \in IPs
      /\ mode' = mode /\ attached' = attached /\ ~Done(p, "base")
  BY <1>2, OverThen, HasTarget, NoErrors DEF CallShape, ShapeAt, daemon
<1>4. Held = {i \in IPs : rules[i] > 0} /\ Held' = Held /\ Mapped' = Mapped
  BY <1>2, <1>3, HeldIs, HeldNext DEF daemon, kernel, Mapped
<1>5. faults' \in Nat /\ faults' >= faults
  BY <1>1, FirewallAssumption DEF TypeOK, UnbanRecheck, Works, Breaks, Spend
<1>6. /\ pc'[p] = Then
      /\ \/ Failed(p, "base") /\ UNCHANGED missed
         \/ ~Present(p) /\ UNCHANGED <<errs, missed>>
         \/ UNCHANGED errs /\ Breaks /\ missed' = [missed EXCEPT ![p] = TRUE]
  BY DEF UnbanRecheck, Goto, TypeOK
<1>7. (\A q \in Callers \ {p} : missed'[q] = missed[q]) /\ (missed[p] => missed'[p])
  BY <1>6 DEF TypeOK
<1>8. Achieves(p, "base") \/ Fails(p, "base") \/ Misses(p, "base")
  <2>1. CASE Failed(p, "base")
    BY <1>3, <1>4, <1>6, <2>1, OverThen, HeldIs, HeldNext DEF Fails, Failed, TypeOK
  <2>2. CASE ~Present(p) /\ UNCHANGED errs
    <3>1. Held = Held \ {Target(p)}
      BY <1>4, <2>2 DEF Present
    <3>2. QED
      BY <1>3, <1>4, <1>6, <2>2, <3>1, OverThen, HeldIs, HeldNext DEF Achieves, Effect
  <2>3. CASE UNCHANGED errs /\ Breaks /\ missed' = [missed EXCEPT ![p] = TRUE]
    <3>1. faults' > faults
      BY <2>3 DEF Breaks, Spend, TypeOK
    <3>2. QED
      BY <1>3, <1>4, <1>6, <2>3, <3>1, OverThen, HeldIs, HeldNext DEF Misses, TypeOK
  <2>4. QED
    BY <1>6, <2>1, <2>2, <2>3
<1>9. Moves(p, "xdp")
  BY <1>2, <1>3, <1>4, <1>6, XdpWaits DEF daemon, kernel
<1>10. Backend'
  BY <1>2, <1>3, <1>4, BackendFrame DEF daemon, kernel
<1>11. Step(p)
  BY <1>1, <1>2, <1>5, <1>6, <1>7, <1>8, <1>9, ThenIs DEF Step, Moves, daemon, kernel
<1>12. QED
  BY <1>10, <1>11

LEMMA SetCommandStep ==
    ASSUME TypeOK, CallShape, Backend, NEW p \in Callers, SetCommand(p)
    PROVE  Step(p) /\ Backend'
<1>1. TypeOK' /\ CallShape' /\ Others(p)
  BY SetCommandShape
<1>2. UNCHANGED <<daemon, chain, jumps, rules, match, pf, xmap, op, ip, removed, history>> /\ pc[p] = "set"
  BY DEF SetCommand
<1>3. /\ mode \in SetModes /\ "base" \in Members /\ errs[p] = {} /\ op[p] \in {"ban", "unban"} /\ mode' = mode /\ attached' = attached /\ ~Done(p, "base")
  BY <1>2, OverThen, HasTarget, NoErrors DEF CallShape, ShapeAt, daemon
<1>4. /\ Held = IF ipset = <<>> THEN {} ELSE ipset[1]
      /\ Held' = IF ipset' = <<>> THEN {} ELSE ipset'[1]
      /\ Mapped' = Mapped
  BY <1>2, <1>3, HeldIs, HeldNext DEF Mapped
<1>5. faults' \in Nat /\ faults' >= faults
  BY <1>1, FirewallAssumption DEF TypeOK, SetCommand, Works, Breaks, Spend
<1>6. pc'[p] = Then
  BY DEF SetCommand, Goto, TypeOK
<1>7. Achieves(p, "base") \/ Fails(p, "base")
  <2>1. CASE /\ ipset # <<>> /\ UNCHANGED errs
             /\ ipset' = <<IF op[p] = "ban" THEN ipset[1] \cup ip[p] ELSE ipset[1] \ ip[p]>>
    <3>1. Held' = Effect(p, "base")
      BY <1>4, <2>1, HeldIs DEF Effect
    <3>2. QED
      BY <1>3, <1>4, <1>6, <2>1, <3>1, OverThen, HeldIs, HeldNext DEF Achieves
  <2>2. CASE Failed(p, "base") /\ UNCHANGED ipset
    BY <1>3, <1>4, <1>6, <2>2, OverThen, HeldIs, HeldNext DEF Fails, Failed, TypeOK
  <2>3. QED
    BY <2>1, <2>2 DEF SetCommand
<1>8. Moves(p, "xdp")
  BY <1>2, <1>3, <1>4, <1>6, XdpWaits DEF SetCommand
<1>9. Backend'
  BY <1>2, <1>3, <1>4, BackendFrame DEF daemon
<1>10. Step(p)
  BY <1>1, <1>2, <1>5, <1>6, <1>7, <1>8, ThenIs DEF Step, Moves, daemon, history
<1>11. QED
  BY <1>9, <1>10

LEMMA XdpCommandStep ==
    ASSUME TypeOK, CallShape, Backend, NEW p \in Callers, XdpCommand(p)
    PROVE  Step(p) /\ Backend'
<1>1. TypeOK' /\ CallShape' /\ Others(p)
  BY XdpCommandShape
<1>2. UNCHANGED <<daemon, chain, jumps, rules, match, pf, ipset, op, ip, removed, history>> /\ pc[p] = "xdp"
  BY DEF XdpCommand
<1>3. /\ "xdp" \in Members /\ mode' = mode /\ attached' = attached /\ ip[p] = {Target(p)} /\ Target(p) \in IPs
      /\ op[p] \in {"ban", "unban"} /\ Members' = Members
  BY <1>2, HasTarget, MembersSame DEF CallShape, ShapeAt, daemon
<1>4. faults' \in Nat /\ faults' >= faults
  BY <1>1, FirewallAssumption DEF TypeOK, XdpCommand, Works, Breaks, Spend
<1>5. pc'[p] = "return" /\ ~Done(p, "xdp") /\ Done(p, "xdp")' /\ (Done(p, "base")' <=> Done(p, "base"))
  BY <1>2, <1>3 DEF XdpCommand, Goto, TypeOK, Done
<1>6. \/ UNCHANGED errs /\ Mapped' = IF op[p] = "ban" THEN Mapped \cup ip[p] ELSE Mapped \ ip[p]
      \/ Failed(p, "xdp") /\ Mapped' = Mapped
  <2>1. CASE UNCHANGED xmap /\ Failed(p, "xdp")
    BY <2>1 DEF Mapped
  <2>2. CASE /\ xmap' = [xmap EXCEPT ![XdpKey(Target(p))] = IF op[p] = "ban" THEN @ \cup ip[p] ELSE @ \ ip[p]]
             /\ UNCHANGED errs
    <3>1. xmap \in [v4 : SUBSET V4, v6 : SUBSET V6] /\ (op[p] = "ban") \in BOOLEAN
      BY DEF TypeOK
    <3>2. xmap' = [xmap EXCEPT ![XdpKey(Target(p))] = IF op[p] = "ban" THEN @ \cup {Target(p)} ELSE @ \ {Target(p)}]
      BY <1>3, <2>2
    <3>3. xmap'.v4 \cup xmap'.v6 =
             IF op[p] = "ban" THEN xmap.v4 \cup xmap.v6 \cup {Target(p)} ELSE (xmap.v4 \cup xmap.v6) \ {Target(p)}
      BY <1>3, <3>1, <3>2, XmapPut
    <3>4. QED
      BY <1>3, <2>2, <3>3 DEF Mapped
  <2>3. QED
    BY <2>1, <2>2 DEF XdpCommand
<1>7. "xdp" \notin errs[p]
  BY <1>5 DEF CallShape, ShapeAt
<1>8. Moves(p, "xdp")
  <2>1. CASE UNCHANGED errs /\ Mapped' = IF op[p] = "ban" THEN Mapped \cup ip[p] ELSE Mapped \ ip[p]
    BY <1>5, <1>7, <2>1, HeldIs, HeldNext DEF Moves, Achieves, Effect
  <2>2. CASE Failed(p, "xdp") /\ Mapped' = Mapped
    BY <1>5, <2>2, HeldIs, HeldNext DEF Moves, Fails, Failed, TypeOK
  <2>3. QED
    BY <1>6, <2>1, <2>2
<1>9. Moves(p, "base")
  <2>1. Held' = Held
    BY <1>2, <1>3 DEF Held
  <2>2. "base" \in errs'[p] <=> "base" \in errs[p]
    BY <1>6 DEF Failed, TypeOK
  <2>3. QED
    BY <1>5, <2>1, <2>2, HeldIs, HeldNext DEF Moves, GoesOn
<1>10. Backend'
  BY <1>2, <1>3, BackendFrame DEF daemon
<1>11. Step(p)
  BY <1>1, <1>2, <1>4, <1>5, <1>8, <1>9 DEF Step, daemon, history
<1>12. QED
  BY <1>10, <1>11

----------------------------------------------------------------------------
(* What the members reported.                                               *)

Promises == Rivals /\ Unsettled /\ Effective /\ Truthful

(* A command of p moves only p's address, in the direction of p's call, and *)
(* only of members of the enforcer, so it disturbs only what calls of the   *)
(* other kind for it established; those are mixed.                          *)
LEMMA StepPromises ==
    ASSUME TypeOK, CallShape, Backend, Promises, NEW p \in Callers, Step(p)
    PROVE  Promises'
<1>1. UNCHANGED <<mode, attached, op, ip, fate, mixed>> /\ Others(p) /\ Members' = Members
  BY MembersSame DEF Step
<1>2. PICK t \in IPs : ip[p] = {t} /\ op[p] \in {"ban", "unban"}
  BY HasTarget DEF Step
<1>3. \A q \in Callers : missed[q] => missed'[q]
  BY DEF Step
<1>4. ASSUME NEW b \in Backends
      PROVE  Moves(p, b) /\ (HeldBy(b)' = HeldBy(b) \/ (b \in Members /\ HeldBy(b)' = Effect(p, b)))
  <2>1. Moves(p, b)
    BY <1>4 DEF Step, Backends
  <2>2. Done(p, b)' => b \in Members
    BY <1>1 DEF Done
  <2>3. QED
    BY <2>1, <2>2 DEF Moves, Achieves, Fails, Misses, GoesOn
<1>5. \A b \in Backends : \A i \in IPs \ {t} : i \in HeldBy(b)' <=> i \in HeldBy(b)
  BY <1>2, <1>4 DEF Effect
<1>6. \A b \in Backends : /\ op[p] = "ban" => HeldBy(b) \subseteq HeldBy(b)'
                          /\ op[p] = "unban" => HeldBy(b)' \subseteq HeldBy(b)
                          /\ b \notin Members => HeldBy(b)' = HeldBy(b)
  BY <1>2, <1>4 DEF Effect
<1>7. Rivals' /\ Unsettled'
  BY <1>1 DEF Promises, Rivals, Unsettled
<1>8. Truthful'
  <2> SUFFICES ASSUME NEW i \in IPs, NEW b \in Backends
               PROVE  /\ fate[b][i] = "banned" => i \in HeldBy(b)'
                      /\ fate[b][i] = "cleared" => i \notin HeldBy(b)'
    BY <1>1 DEF Truthful
  <2>1. /\ fate[b][i] = "banned" => i \in HeldBy(b)
        /\ fate[b][i] = "cleared" => i \notin HeldBy(b)
    BY DEF Promises, Truthful
  <2>2. (i = t /\ b \in Members) => /\ op[p] = "ban" => fate[b][i] # "cleared"
                                    /\ op[p] = "unban" => fate[b][i] # "banned"
    BY <1>2 DEF Promises, Unsettled
  <2>3. QED
    BY <1>2, <1>5, <1>6, <2>1, <2>2
<1>9. Effective'
  <2> SUFFICES ASSUME NEW q \in Callers, NEW i \in IPs, NEW b \in Backends,
                      ip'[q] = {i}, ~mixed'[q], Done(q, b)', b \notin errs'[q]
               PROVE  /\ op[q] = "ban" => i \in HeldBy(b)'
                      /\ (op[q] = "unban" /\ ~Blind(q, b)') => i \notin HeldBy(b)'
    BY <1>1 DEF Effective
  <2>1. ip[q] = {i} /\ ~mixed[q] /\ (~Blind(q, b)' => ~Blind(q, b))
    BY <1>1, <1>3 DEF Blind
  <2>2. CASE q # p
    <3>1. Done(q, b) /\ b \notin errs[q]
      BY <1>1, <2>2 DEF Others, Done
    <3>2. /\ op[q] = "ban" => i \in HeldBy(b)
          /\ (op[q] = "unban" /\ ~Blind(q, b)) => i \notin HeldBy(b)
      BY <2>1, <3>1 DEF Promises, Effective
    <3>3. i = t => ~(op[p] = "ban" /\ op[q] = "unban") /\ ~(op[p] = "unban" /\ op[q] = "ban")
      BY <1>2, <2>1 DEF Promises, Rivals
    <3>4. QED
      BY <1>2, <1>5, <1>6, <2>1, <3>2, <3>3
  <2>3. CASE q = p
    <3>1. i = t
      BY <1>2, <2>1, <2>3
    <3>2. CASE Achieves(p, b)
      BY <1>2, <2>3, <3>1, <3>2 DEF Achieves, Effect
    <3>3. CASE Fails(p, b)
      BY <2>3, <3>3 DEF Fails
    <3>4. CASE Misses(p, b)
      BY <2>3, <3>4 DEF Misses, Blind
    <3>5. CASE GoesOn(p, b)
      <4>1. Done(p, b) /\ b \notin errs[p] /\ HeldBy(b)' = HeldBy(b)
        BY <2>3, <3>5 DEF GoesOn
      <4>2. /\ op[p] = "ban" => i \in HeldBy(b)
            /\ (op[p] = "unban" /\ ~Blind(p, b)) => i \notin HeldBy(b)
        BY <2>1, <2>3, <4>1 DEF Promises, Effective
      <4>3. QED
        BY <2>1, <2>3, <4>1, <4>2
    <3>6. QED
      BY <1>4, <3>2, <3>3, <3>4, <3>5 DEF Moves
  <2>4. QED
    BY <2>2, <2>3
<1>10. QED
  BY <1>7, <1>8, <1>9 DEF Promises

(* A new call unsettles its address and marks the calls it crosses.         *)
LEMMA StartPromises ==
    ASSUME TypeOK, CallShape, Promises, NEW p \in Callers, NEW o \in {"ban", "unban"}, NEW i \in IPs, Start(p, o, i)
    PROVE  Promises'
<1>1. UNCHANGED <<kernel, daemon, removed, errs, missed>> /\ Others(p) /\ pc[p] = "idle"
  BY StartShape DEF Start
<1>2. (\A b : HeldBy(b)' = HeldBy(b)) /\ Members' = Members
  BY <1>1 DEF kernel, daemon, HeldBy, Held, Mapped, Members
<1>3. op'[p] = o /\ ip'[p] = {i} /\ op[p] = "none" /\ pc'[p] = First
  BY <1>1 DEF Start, Goto, TypeOK, CallShape, ShapeAt
<1>4. /\ \A q \in Callers : (op[q] = Other(o) /\ ip[q] = {i}) => mixed'[q] /\ mixed'[p]
      /\ \A q \in Callers \ {p} : mixed[q] => mixed'[q]
  BY DEF Start, TypeOK
<1>5. ASSUME NEW b \in Backends
      PROVE  /\ \A j \in IPs : fate'[b][j] = fate[b][j] \/ fate'[b][j] = "unknown"
             /\ b \in Members => /\ o = "ban" => fate'[b][i] # "cleared"
                                 /\ o = "unban" => fate'[b][i] # "banned"
  <2>1. fate[b] \in [IPs -> Fates]
    BY DEF TypeOK
  <2>2. fate'[b] = IF b \in Members
                   THEN [fate[b] EXCEPT ![i] = IF @ = (IF o = "ban" THEN "banned" ELSE "cleared") THEN @ ELSE "unknown"]
                   ELSE fate[b]
    BY DEF Start
  <2>3. QED
    BY <2>1, <2>2
<1>6. Rivals'
  <2> SUFFICES ASSUME NEW q \in Callers, NEW r \in Callers, op'[q] = "ban", op'[r] = "unban", ip'[q] = ip'[r]
               PROVE  mixed'[q] /\ mixed'[r]
    BY DEF Rivals
  <2>1. CASE q # p /\ r # p
    <3>1. op[q] = "ban" /\ op[r] = "unban" /\ ip[q] = ip[r]
      BY <1>1, <2>1 DEF Others
    <3>2. mixed[q] /\ mixed[r]
      BY <3>1 DEF Promises, Rivals
    <3>3. QED
      BY <1>4, <2>1, <3>2
  <2>2. CASE q = p /\ r # p
    BY <1>1, <1>3, <1>4, <2>2 DEF Others, Other
  <2>3. CASE q # p /\ r = p
    BY <1>1, <1>3, <1>4, <2>3 DEF Others, Other
  <2>4. QED
    BY <2>1, <2>2, <2>3
<1>7. Unsettled'
  <2> SUFFICES ASSUME NEW q \in Callers, NEW j \in IPs, NEW b \in Members, ip'[q] = {j}
               PROVE  (op'[q] = "ban" => fate'[b][j] # "cleared") /\ (op'[q] = "unban" => fate'[b][j] # "banned")
    BY <1>2 DEF Unsettled
  <2>0. b \in Backends
    BY MembersAre
  <2>1. CASE q = p
    BY <1>3, <1>5, <2>0, <2>1
  <2>2. CASE q # p
    <3>1. ip[q] = {j} /\ op'[q] = op[q]
      BY <1>1, <2>2 DEF Others
    <3>2. QED
      BY <1>5, <2>0, <3>1 DEF Promises, Unsettled
  <2>3. QED
    BY <2>1, <2>2
<1>8. Truthful'
  BY <1>2, <1>5 DEF Promises, Truthful
<1>9. Effective'
  <2> SUFFICES ASSUME NEW q \in Callers, NEW j \in IPs, NEW b \in Backends,
                      ip'[q] = {j}, ~mixed'[q], Done(q, b)', b \notin errs'[q]
               PROVE  /\ op'[q] = "ban" => j \in HeldBy(b)
                      /\ (op'[q] = "unban" /\ ~Blind(q, b)') => j \notin HeldBy(b)
    BY <1>2 DEF Effective
  <2>1. q # p
    BY <1>2, <1>3, FirstIs DEF Done
  <2>2. ip[q] = {j} /\ op'[q] = op[q] /\ b \notin errs[q] /\ Done(q, b) /\ (Blind(q, b)' <=> Blind(q, b))
    BY <1>1, <1>2, <2>1 DEF Others, Done, Blind
  <2>3. ~mixed[q]
    BY <1>4, <2>1
  <2>4. QED
    BY <2>2, <2>3 DEF Promises, Effective
<1>10. QED
  BY <1>6, <1>7, <1>8, <1>9 DEF Promises

(* What a member reports is so, by Effective.                               *)
LEMMA ReturnPromises ==
    ASSUME TypeOK, CallShape, Backend, Promises, NEW p \in Callers, Return(p)
    PROVE  Promises'
<1>1. UNCHANGED <<kernel, daemon, faults>> /\ Others(p) /\ pc[p] = "return"
  BY ReturnShape DEF Return
<1>2. (\A b : HeldBy(b)' = HeldBy(b)) /\ Members' = Members
  BY <1>1 DEF kernel, daemon, HeldBy, Held, Mapped, Members
<1>3. op'[p] = "none" /\ ip'[p] = {} /\ (\A q \in Callers \ {p} : mixed'[q] = mixed[q] /\ missed'[q] = missed[q])
  BY DEF Return, TypeOK
<1>4. PICK t \in IPs : ip[p] = {t} /\ Target(p) = t /\ op[p] \in {"ban", "unban"}
  BY <1>1, HasTarget
<1>5. ASSUME NEW b \in Backends
      PROVE  /\ \A j \in IPs : fate'[b][j] = fate[b][j] \/ (b \in Members /\ j = t)
             /\ b \in Members => fate'[b][t] = Reported(p, b)
  <2>1. fate[b] \in [IPs -> Fates]
    BY DEF TypeOK
  <2>2. fate'[b] = IF b \in Members THEN [fate[b] EXCEPT ![t] = Reported(p, b)] ELSE fate[b]
    BY <1>4 DEF Return
  <2>3. QED
    BY <2>1, <2>2
<1>6. ASSUME NEW b \in Members
      PROVE  /\ Reported(p, b) = "banned" =>
                   op[p] = "ban" /\ ~mixed[p] /\ (b \notin errs[p] \/ fate[b][t] = "banned")
             /\ Reported(p, b) = "cleared" =>
                   op[p] = "unban" /\ ~mixed[p] /\ b \notin errs[p] /\ ~Blind(p, b)
  <2>1. op[p] = "ban" => fate[b][t] # "cleared"
    BY <1>4 DEF Promises, Unsettled
  <2>2. mixed[p] \in BOOLEAN /\ missed[p] \in BOOLEAN
    BY DEF TypeOK
  <2>3. CASE mixed[p]
    BY <2>3 DEF Reported
  <2>4. CASE ~mixed[p] /\ b \notin errs[p]
    BY <1>4, <2>4 DEF Reported, Blind
  <2>5. CASE ~mixed[p] /\ b \in errs[p]
    BY <1>4, <2>1, <2>5 DEF Reported
  <2>6. QED
    BY <2>3, <2>4, <2>5
<1>8. Rivals'
  BY <1>1, <1>3 DEF Promises, Rivals, Others
<1>9. Unsettled'
  <2> SUFFICES ASSUME NEW q \in Callers, NEW j \in IPs, NEW b \in Members, ip'[q] = {j}
               PROVE  (op'[q] = "ban" => fate'[b][j] # "cleared") /\ (op'[q] = "unban" => fate'[b][j] # "banned")
    BY <1>2 DEF Unsettled
  <2>0. b \in Backends
    BY MembersAre
  <2>1. q # p /\ ip[q] = {j} /\ op'[q] = op[q]
    BY <1>1, <1>3 DEF Others
  <2>2. CASE j # t
    BY <1>5, <2>0, <2>1, <2>2 DEF Promises, Unsettled
  <2>3. CASE j = t
    <3>1. /\ (op[p] = "ban" /\ op[q] = "unban") => mixed[p]
          /\ (op[p] = "unban" /\ op[q] = "ban") => mixed[p]
      BY <1>4, <2>1, <2>3 DEF Promises, Rivals
    <3>2. QED
      BY <1>5, <1>6, <2>0, <2>1, <2>3, <3>1
  <2>4. QED
    BY <2>2, <2>3
<1>10. Truthful'
  <2> SUFFICES ASSUME NEW j \in IPs, NEW b \in Backends
               PROVE  /\ fate'[b][j] = "banned" => j \in HeldBy(b)
                      /\ fate'[b][j] = "cleared" => j \notin HeldBy(b)
    BY <1>2 DEF Truthful
  <2>1. CASE fate'[b][j] = fate[b][j]
    BY <2>1 DEF Promises, Truthful
  <2>2. CASE b \in Members /\ j = t
    <3>1. Done(p, b)
      BY <1>1, <2>2 DEF Done
    <3>2. Reported(p, b) = "banned" => t \in HeldBy(b)
      BY <1>4, <1>6, <2>2, <3>1 DEF Promises, Effective, Truthful
    <3>3. Reported(p, b) = "cleared" => t \notin HeldBy(b)
      BY <1>4, <1>6, <2>2, <3>1 DEF Promises, Effective
    <3>4. QED
      BY <1>5, <2>2, <3>2, <3>3
  <2>3. QED
    BY <1>5, <2>1, <2>2
<1>11. Effective'
  <2> SUFFICES ASSUME NEW q \in Callers, NEW j \in IPs, NEW b \in Backends,
                      ip'[q] = {j}, ~mixed'[q], Done(q, b)', b \notin errs'[q]
               PROVE  /\ op'[q] = "ban" => j \in HeldBy(b)
                      /\ (op'[q] = "unban" /\ ~Blind(q, b)') => j \notin HeldBy(b)
    BY <1>2 DEF Effective
  <2>1. q # p /\ ip[q] = {j} /\ op'[q] = op[q] /\ b \notin errs[q] /\ ~mixed[q] /\ (Blind(q, b)' <=> Blind(q, b))
    BY <1>1, <1>3 DEF Others, Blind
  <2>2. Done(q, b)
    BY <1>1, <1>2, <2>1 DEF Others, Done
  <2>3. QED
    BY <2>1, <2>2 DEF Promises, Effective
<1>12. QED
  BY <1>8, <1>9, <1>10, <1>11 DEF Promises

(* Starting, dying and rebooting.                                           *)
LEMMA InitPromises == Init => Backend /\ Promises
<1> SUFFICES ASSUME Init PROVE Backend /\ Promises
  OBVIOUS
<1>1. Mapped = {} /\ (\A i \in IPs : rules[i] = 0)
  BY DEF Init, Mapped, EmptyMaps
<1>2. \A b : HeldBy(b) = {}
  BY <1>1 DEF Init, HeldBy, Held
<1>3. Backend
  BY <1>1 DEF Init, Backend
<1>4. \A i \in IPs, b \in Backends : fate[b][i] = "cleared"
  BY DEF Init
<1>5. Promises
  BY <1>2, <1>4 DEF Init, Promises, Rivals, Unsettled, Effective, Truthful
<1>6. QED
  BY <1>3, <1>5

(* Nobody is in a call.                                                     *)
LEMMA QuietPromises ==
    ASSUME \A p \in Callers : ip'[p] = {} /\ op'[p] = "none"
    PROVE  Rivals' /\ Unsettled' /\ Effective'
BY DEF Rivals, Unsettled, Effective

LEMMA CrashPromises ==
    ASSUME TypeOK, Backend, Promises, Crash
    PROVE  Backend' /\ Promises'
<1>1. UNCHANGED <<kernel, mode, ready, fate>>
  BY DEF Crash
<1>2. \A b : HeldBy(b)' = HeldBy(b)
  BY <1>1 DEF kernel, HeldBy, Held, Mapped
<1>3. Backend'
  BY <1>1 DEF Backend, kernel
<1>4. Rivals' /\ Unsettled' /\ Effective'
  BY QuietPromises DEF Crash, NoCalls
<1>5. Truthful'
  BY <1>1, <1>2 DEF Promises, Truthful
<1>6. QED
  BY <1>3, <1>4, <1>5 DEF Promises

LEMMA RebootPromises ==
    ASSUME TypeOK, CallShape, Backend, Reboot
    PROVE  Backend' /\ Promises' /\ Held' = {} /\ \A p \in Callers : pc[p] = "idle"
<1>1. ~up /\ UNCHANGED <<mode, calls>> /\ Empty /\ ready' = FALSE
  BY DEF Reboot
<1>2. Mapped' = {} /\ (\A i \in IPs : rules'[i] = 0) /\ ipset' = <<>>
  BY <1>1 DEF Empty, Mapped, EmptyMaps
<1>3. Held' = {} /\ (\A b : HeldBy(b)' = {})
  BY <1>2 DEF Held, HeldBy
<1>4. \A p \in Callers : pc[p] = "idle" /\ ip'[p] = {} /\ op'[p] = "none"
  BY <1>1 DEF CallShape, ShapeAt, calls
<1>5. Backend'
  BY <1>1, <1>2 DEF Backend
<1>6. Promises'
  <2>1. \A i \in IPs, b \in Backends : fate'[b][i] # "banned"
    BY ForgottenIs DEF Reboot
  <2>2. QED
    BY <1>3, <1>4, <2>1, QuietPromises DEF Promises, Truthful
<1>7. QED
  BY <1>3, <1>4, <1>5, <1>6

LEMMA BootPromises ==
    ASSUME TypeOK, CallShape, Backend, Promises, Boot
    PROVE  Backend' /\ Promises' /\ Held' = Held
<1>1. PICK F \in SUBSET Commands : InitBase(F) /\ InitXdp(F)
  BY DEF Boot
<1>2. UNCHANGED <<mode, rules, calls>>
  BY DEF Boot
<1>3. \/ Mapped' = Mapped /\ fate' = fate
      \/ Mapped' = {} /\ fate' = [fate EXCEPT !["xdp"] = Forgotten("xdp")]
  BY <1>1 DEF InitXdp, Mapped, EmptyMaps
<1>4. ipset' = ipset \/ (mode \in SetModes /\ ipset = <<>> /\ ipset' = <<{}>>)
  BY <1>1, Zenon DEF InitBase
<1>5. Held' = Held
  <2>1. CASE ipset' = ipset
    BY <1>2, <2>1 DEF Held
  <2>2. CASE mode \in SetModes /\ ipset = <<>> /\ ipset' = <<{}>>
    BY <1>2, <2>2, HeldIs, HeldNext
  <2>3. QED
    BY <1>4, <2>1, <2>2
<1>6. ready' => jumps' > 0 /\ (mode \in SetModes => match' > 0)
  <2>1. /\ jumps' = jumps \/ jumps' = jumps + 1
        /\ match' = match \/ match' = match + 1
        /\ (ready' /\ ~ready) => /\ (jumps > 0 /\ jumps' = jumps) \/ jumps' = jumps + 1
                                 /\ mode \in SetModes => (match > 0 /\ match' = match) \/ match' = match + 1
    BY <1>1, Zenon DEF InitBase
  <2>2. QED
    BY <2>1 DEF TypeOK, Backend
<1>7. Backend'
  BY <1>2, <1>4, <1>6 DEF Backend
<1>8. Rivals' /\ Unsettled' /\ Effective'
  BY BootShape, QuietPromises
<1>9. Truthful'
  <2>1. CASE Mapped' = Mapped /\ fate' = fate
    BY <1>5, <2>1 DEF Promises, Truthful, HeldBy
  <2>2. CASE Mapped' = {} /\ fate' = [fate EXCEPT !["xdp"] = Forgotten("xdp")]
    <3>1. fate'["base"] = fate["base"] /\ fate'["xdp"] = Forgotten("xdp")
      BY <2>2 DEF TypeOK, Backends
    <3>2. \A i \in IPs : fate'["xdp"][i] # "banned"
      BY <3>1, ForgottenIs DEF Backends
    <3>3. QED
      BY <1>5, <2>2, <3>1, <3>2 DEF Promises, Truthful, HeldBy, Backends
  <2>3. QED
    BY <1>3, <2>1, <2>2
<1>10. QED
  BY <1>5, <1>7, <1>8, <1>9 DEF Promises

----------------------------------------------------------------------------
(* The inductive invariant.                                                 *)

LEMMA InvParts == IInv <=> TypeOK /\ CallShape /\ Backend /\ Promises
BY DEF IInv, Promises

LEMMA CommandStep ==
    ASSUME TypeOK, CallShape, Backend, NEW p \in Callers, CallStep(p)
    PROVE  TypeOK' /\ CallShape' /\ ((Step(p) /\ Backend') \/ Return(p))
BY BanCheckShape, BanAppendShape, UnbanCheckShape, UnbanDeleteShape, UnbanRecheckShape, SetCommandShape,
   XdpCommandShape, ReturnShape, BanCheckStep, BanAppendStep, UnbanCheckStep, UnbanDeleteStep,
   UnbanRecheckStep, SetCommandStep, XdpCommandStep
   DEF CallStep

LEMMA NextInv == IInv /\ [Next]_vars => IInv'
<1> SUFFICES ASSUME TypeOK, CallShape, Backend, Promises, [Next]_vars
             PROVE  TypeOK' /\ CallShape' /\ Backend' /\ Promises'
  BY InvParts DEF IInv, Promises
<1>1. CASE UNCHANGED vars
  <2>1. UNCHANGED <<kernel, daemon, faults, calls, history>>
    BY <1>1 DEF vars
  <2>2. TypeOK' /\ CallShape'
    BY <2>1, MembersSame DEF kernel, daemon, calls, history, TypeOK, CallShape, ShapeAt, Done
  <2>3. (\A b : HeldBy(b)' = HeldBy(b)) /\ Members' = Members
    BY <2>1 DEF kernel, daemon, HeldBy, Held, Mapped, Members
  <2>4. Backend' /\ Promises'
    BY <2>1, <2>3 DEF kernel, daemon, calls, history, Backend, Promises, Rivals, Unsettled, Effective, Truthful, Done, Blind
  <2>5. QED
    BY <2>2, <2>4
<1>2. CASE Boot
  BY <1>2, BootShape, BootPromises
<1>3. CASE Crash
  BY <1>3, CrashShape, CrashPromises
<1>4. CASE Reboot
  BY <1>4, RebootShape, RebootPromises
<1>5. ASSUME NEW p \in Callers, CallStep(p)
      PROVE  TypeOK' /\ CallShape' /\ Backend' /\ Promises'
  <2>1. CASE Step(p) /\ Backend'
    BY <1>5, <2>1, CommandStep, StepPromises
  <2>2. CASE Return(p)
    <3>1. Backend'
      BY <2>2 DEF Return, Backend, kernel, daemon, Mapped
    <3>2. QED
      BY <1>5, <2>2, <3>1, CommandStep, ReturnPromises
  <2>3. QED
    BY <1>5, <2>1, <2>2, CommandStep
<1>6. ASSUME NEW p \in Callers, NEW o \in {"ban", "unban"}, NEW i \in IPs, Start(p, o, i)
      PROVE  TypeOK' /\ CallShape' /\ Backend' /\ Promises'
  <2>1. Backend'
    BY <1>6 DEF Start, Backend, kernel, daemon, Mapped
  <2>2. QED
    BY <1>6, <2>1, StartShape, StartPromises
<1>7. QED
  BY <1>1, <1>2, <1>3, <1>4, <1>5, <1>6 DEF Next

(* The inductive invariant holds of every backend.                          *)
THEOREM Inductive == Spec => []IInv
<1>1. Init => IInv
  BY InitShape, InitPromises, InvParts
<1>2. QED
  BY <1>1, NextInv, PTL DEF Spec

(* Types of the kernel's tables and of the calls.                           *)
THEOREM TypeCorrect == Spec => []TypeOK
<1>1. IInv => TypeOK
  BY DEF IInv
<1>2. QED
  BY <1>1, Inductive, PTL

(* What a member of the enforcer reported banned is dropped by it until an  *)
(* Unban of the address starts or the member's table is lost: the chain     *)
(* also while the daemon is down, the map while the program is attached     *)
(* (iptables.go, ipset.go, enforcer_linux.go, composite.go).                *)
THEOREM BansHold == Spec => []BannedIsDropped
<1>1. IInv => BannedIsDropped
  <2> SUFFICES ASSUME IInv, NEW fr \in Frames, NEW b \in Backends,
                      fate[b][fr.src] = "banned", fr.whole, Enforced(fr, b)
               PROVE  Drops(fr)
    BY DEF BannedIsDropped
  <2>1. fr.src \in IPs
    BY DEF Frames
  <2>2. fr.src \in HeldBy(b)
    BY <2>1 DEF IInv, Truthful
  <2>3. CASE b = "xdp"
    <3>1. fr.src \in xmap.v4 \cup xmap.v6 /\ attached /\ fr.tags <= VlanDepth
      BY <2>2, <2>3, HeldIs DEF Mapped, Enforced
    <3>2. fr.src \in xmap[XdpKey(fr.src)]
      BY <3>1, FirewallAssumption DEF XdpKey, IInv, TypeOK
    <3>3. QED
      BY <3>1, <3>2 DEF Drops, XdpDrops
  <2>4. CASE b = "base" /\ mode \in SetModes
    <3>1. ipset # <<>> /\ fr.src \in ipset[1]
      BY <2>2, <2>4, HeldIs
    <3>2. jumps > 0 /\ match > 0
      BY <2>4 DEF IInv, Backend, Enforced
    <3>3. QED
      BY <3>1, <3>2 DEF Drops, InputDrops
  <2>5. CASE b = "base" /\ mode \notin SetModes
    <3>1. rules[fr.src] > 0
      BY <2>2, <2>5, HeldIs
    <3>2. jumps > 0
      BY <2>5 DEF IInv, Backend, Enforced
    <3>3. QED
      BY <3>1, <3>2 DEF Drops, InputDrops
  <2>6. QED
    BY <2>3, <2>4, <2>5 DEF Backends
<1>2. QED
  BY <1>1, Inductive, PTL

(* Nobody is dropped who was never banned or whom every member that banned  *)
(* the address released after looking, whatever duplicates racing calls and *)
(* failed look-ups of Ban left (iptables.go Unban).                         *)
THEOREM ReleasesHold == Spec => []ReleasedIsHeard
<1>1. IInv => ReleasedIsHeard
  <2> SUFFICES ASSUME IInv, NEW fr \in Frames, \A b \in Backends : fate[b][fr.src] = "cleared"
               PROVE  ~Drops(fr)
    BY DEF ReleasedIsHeard
  <2>1. fr.src \in IPs
    BY DEF Frames
  <2>2. fr.src \notin Held /\ fr.src \notin Mapped
    <3>1. fr.src \notin HeldBy("base") /\ fr.src \notin HeldBy("xdp")
      BY <2>1 DEF IInv, Truthful, Backends
    <3>2. QED
      BY <3>1, HeldIs
  <2>3. ~XdpDrops(fr)
    BY <2>2 DEF XdpDrops, XdpKey, Mapped
  <2>4. ~(rules[fr.src] > 0)
    BY <2>1, <2>2, HeldIs DEF IInv, TypeOK, Backend
  <2>5. ~(ipset # <<>> /\ fr.src \in ipset[1])
    BY <2>2, HeldIs DEF IInv, Backend
  <2>6. QED
    BY <2>3, <2>4, <2>5 DEF Drops, InputDrops
<1>2. QED
  BY <1>1, Inductive, PTL

----------------------------------------------------------------------------
(* Duplicates.                                                              *)

LEMMA AppendingFinite ==
    ASSUME NEW i
    PROVE  /\ IsFiniteSet(Appending(i)) /\ Cardinality(Appending(i)) \in Nat /\ Cardinality(Callers) \in Nat
           /\ Cardinality(Appending(i)) <= Cardinality(Callers)
BY FS_Subset, FS_CardinalityType, FirewallAssumption DEF Appending

LEMMA AppendingNext ==
    ASSUME NEW i
    PROVE  /\ IsFiniteSet(Appending(i)') /\ Cardinality(Appending(i)') \in Nat
           /\ Cardinality(Appending(i)') <= Cardinality(Callers)
BY FS_Subset, FS_CardinalityType, FirewallAssumption DEF Appending

(* No more appends under way, no more rules.                                *)
LEMMA FewerDuplicates ==
    ASSUME TypeOK, TypeOK', DuplicatesBounded, NEW i \in IPs,
           Appending(i)' \subseteq Appending(i), rules'[i] <= rules[i], faults' >= faults
    PROVE  rules'[i] + Cardinality(Appending(i)') <= Cardinality(Callers) + faults'
<1>1. Cardinality(Appending(i)') <= Cardinality(Appending(i))
  BY AppendingFinite, FS_Subset
<1>2. rules[i] + Cardinality(Appending(i)) <= Cardinality(Callers) + faults
  BY DEF DuplicatesBounded
<1>3. rules[i] \in Nat /\ rules'[i] \in Nat /\ faults \in Nat /\ faults' \in Nat
  BY FirewallAssumption DEF TypeOK
<1>4. QED
  BY <1>1, <1>2, <1>3, AppendingFinite, AppendingNext

LEMMA BanCheckDuplicates ==
    ASSUME TypeOK, CallShape, TypeOK', DuplicatesBounded, NEW p \in Callers, BanCheck(p)
    PROVE  DuplicatesBounded'
<1> SUFFICES ASSUME NEW i \in IPs
             PROVE  rules'[i] + Cardinality(Appending(i)') <= Cardinality(Callers) + faults'
  BY DEF DuplicatesBounded
<1>1. rules' = rules /\ ip' = ip /\ (\A q \in Callers \ {p} : pc'[q] = pc[q])
  BY DEF BanCheck, kernel, Goto, TypeOK
<1>2. /\ rules[i] \in Nat /\ faults \in Nat /\ faults' \in Nat /\ faults' >= faults
      /\ rules[i] + Cardinality(Appending(i)) <= Cardinality(Callers) + faults
  BY FirewallAssumption DEF TypeOK, DuplicatesBounded, BanCheck, Works, Breaks, Spend
<1>3. Appending(i)' \subseteq Appending(i) \cup {p}
  BY <1>1 DEF Appending
<1>4. CASE ip[p] # {i} \/ pc'[p] # "append"
  <2>1. Appending(i)' \subseteq Appending(i)
    BY <1>1, <1>3, <1>4 DEF Appending
  <2>2. QED
    BY <1>1, <1>2, <2>1, FewerDuplicates
<1>5. CASE ip[p] = {i} /\ pc'[p] = "append"
  <2>1. Target(p) = i
    BY <1>5, TargetIs
  <2>2. CASE Breaks
    <3>1. Cardinality(Appending(i)') <= Cardinality(Appending(i)) + 1
      <4>1. IsFiniteSet(Appending(i) \cup {p}) /\ Cardinality(Appending(i) \cup {p}) <= Cardinality(Appending(i)) + 1
        BY AppendingFinite, FS_AddElement
      <4>2. Cardinality(Appending(i)') <= Cardinality(Appending(i) \cup {p}) /\ Cardinality(Appending(i) \cup {p}) \in Nat
        BY <1>3, <4>1, FS_Subset, FS_CardinalityType
      <4>3. QED
        BY <4>1, <4>2, AppendingFinite, AppendingNext
    <3>2. faults' = faults + 1
      BY <2>2 DEF Breaks, Spend
    <3>3. QED
      BY <1>1, <1>2, <3>1, <3>2, AppendingFinite, AppendingNext
  <2>3. CASE Works /\ ~Present(p)
    <3>1. rules[i] = 0
      BY <1>2, <2>1, <2>3 DEF Present
    <3>2. QED
      BY <1>1, <1>2, <3>1, AppendingFinite, AppendingNext
  <2>4. QED
    BY <1>5, <2>2, <2>3, ThenIs DEF BanCheck, Goto, TypeOK
<1>6. QED
  BY <1>4, <1>5

LEMMA BanAppendDuplicates ==
    ASSUME TypeOK, CallShape, TypeOK', DuplicatesBounded, NEW p \in Callers, BanAppend(p)
    PROVE  DuplicatesBounded'
<1> SUFFICES ASSUME NEW i \in IPs
             PROVE  rules'[i] + Cardinality(Appending(i)') <= Cardinality(Callers) + faults'
  BY DEF DuplicatesBounded
<1>1. ip' = ip /\ (\A q \in Callers \ {p} : pc'[q] = pc[q]) /\ pc[p] = "append" /\ pc'[p] # "append"
  BY ThenIs DEF BanAppend, Goto, TypeOK
<1>2. /\ rules[i] \in Nat /\ faults \in Nat /\ faults' \in Nat /\ faults' >= faults
      /\ rules[i] + Cardinality(Appending(i)) <= Cardinality(Callers) + faults
  BY FirewallAssumption DEF TypeOK, DuplicatesBounded, BanAppend, Works, Breaks, Spend
<1>3. ip[p] = {Target(p)} /\ Target(p) \in IPs
  BY <1>1, HasTarget
<1>4. Appending(i)' = Appending(i) \ {p}
  BY <1>1 DEF Appending
<1>5. CASE rules'[i] <= rules[i]
  BY <1>2, <1>4, <1>5, FewerDuplicates
<1>6. CASE Target(p) = i /\ rules' = [rules EXCEPT ![Target(p)] = @ + 1]
  <2>1. p \in Appending(i)
    BY <1>1, <1>3, <1>6 DEF Appending
  <2>2. Cardinality(Appending(i)') = Cardinality(Appending(i)) - 1
    BY <1>4, <2>1, AppendingFinite, FS_RemoveElement
  <2>3. rules'[i] = rules[i] + 1
    BY <1>6 DEF TypeOK
  <2>4. QED
    BY <1>2, <2>2, <2>3, AppendingFinite, AppendingNext
<1>7. QED
  <2>1. CASE UNCHANGED rules
    BY <1>2, <1>5, <2>1
  <2>2. CASE rules' = [rules EXCEPT ![Target(p)] = @ + 1] /\ Target(p) # i
    BY <1>2, <1>3, <1>5, <2>2 DEF TypeOK
  <2>3. QED
    BY <1>6, <2>1, <2>2 DEF BanAppend

(* Everything else appends nothing.                                         *)
LEMMA OtherDuplicates ==
    ASSUME TypeOK, TypeOK', DuplicatesBounded, faults' >= faults, \A i \in IPs : rules'[i] <= rules[i],
           \A q \in Callers : pc'[q] = "append" => pc[q] = "append" /\ ip'[q] = ip[q]
    PROVE  DuplicatesBounded'
<1>1. \A i \in IPs : Appending(i)' \subseteq Appending(i)
  BY DEF Appending
<1>2. QED
  BY <1>1, FewerDuplicates DEF DuplicatesBounded

LEMMA NextDuplicates == IInv /\ IInv' /\ DuplicatesBounded /\ [Next]_vars => DuplicatesBounded'
<1> SUFFICES ASSUME TypeOK, CallShape, TypeOK', DuplicatesBounded, [Next]_vars
             PROVE  DuplicatesBounded'
  BY DEF IInv
<1>1. (\A i \in IPs : rules[i] \in Nat) /\ faults \in Nat
  BY FirewallAssumption DEF TypeOK
<1>2. CASE UNCHANGED vars
  BY <1>1, <1>2, OtherDuplicates DEF vars, kernel, calls
<1>3. CASE Boot
  <2>1. faults' >= faults
    <3>1. PICK F \in SUBSET Commands : Spend(Cardinality(F))
      BY <1>3 DEF Boot
    <3>2. Cardinality(F) \in Nat
      BY FS_Subset, FS_CardinalityType, CommandsFinite
    <3>3. QED
      BY <1>1, <3>1, <3>2 DEF Spend
  <2>2. QED
    BY <1>1, <1>3, <2>1, OtherDuplicates DEF Boot, calls
<1>4. CASE Crash
  BY <1>1, <1>4, OtherDuplicates DEF Crash, NoCalls, kernel
<1>5. CASE Reboot
  BY <1>1, <1>5, OtherDuplicates DEF Reboot, Empty, calls
<1>6. ASSUME NEW p \in Callers, CallStep(p)
      PROVE  DuplicatesBounded'
  <2>1. CASE BanCheck(p)
    BY <2>1, BanCheckDuplicates
  <2>2. CASE BanAppend(p)
    BY <2>2, BanAppendDuplicates
  <2>3. CASE UnbanCheck(p)
    <3>1. rules' = rules /\ ip' = ip /\ faults' >= faults
      BY <1>1, <2>3 DEF UnbanCheck, kernel, Works, Breaks, Spend
    <3>2. \A q \in Callers : pc'[q] = "append" => pc[q] = "append"
      BY <2>3, ThenIs DEF UnbanCheck, Goto, TypeOK
    <3>3. QED
      BY <1>1, <3>1, <3>2, OtherDuplicates
  <2>4. CASE UnbanDelete(p)
    <3>1. ip' = ip /\ faults' >= faults
      BY <1>1, <2>4 DEF UnbanDelete, Works, Breaks, Spend
    <3>2. \A q \in Callers : pc'[q] = "append" => pc[q] = "append"
      BY <2>4 DEF UnbanDelete, Goto, TypeOK
    <3>3. \A i \in IPs : rules'[i] <= rules[i]
      <4>1. Target(p) \in IPs
        BY <2>4, HasTarget DEF UnbanDelete
      <4>2. CASE rules' = [rules EXCEPT ![Target(p)] = @ - 1]
        BY <1>1, <4>1, <4>2 DEF TypeOK
      <4>3. CASE UNCHANGED rules
        BY <1>1, <4>3
      <4>4. QED
        BY <2>4, <4>2, <4>3 DEF UnbanDelete
    <3>4. QED
      BY <3>1, <3>2, <3>3, OtherDuplicates
  <2>5. CASE UnbanRecheck(p)
    <3>1. rules' = rules /\ ip' = ip /\ faults' >= faults
      BY <1>1, <2>5 DEF UnbanRecheck, kernel, Works, Breaks, Spend
    <3>2. \A q \in Callers : pc'[q] = "append" => pc[q] = "append"
      BY <2>5, ThenIs DEF UnbanRecheck, Goto, TypeOK
    <3>3. QED
      BY <1>1, <3>1, <3>2, OtherDuplicates
  <2>6. CASE SetCommand(p) \/ XdpCommand(p)
    <3>1. rules' = rules /\ ip' = ip /\ faults' >= faults
      BY <1>1, <2>6 DEF SetCommand, XdpCommand, Works, Breaks, Spend
    <3>2. \A q \in Callers : pc'[q] = "append" => pc[q] = "append"
      BY <2>6, ThenIs DEF SetCommand, XdpCommand, Goto, TypeOK
    <3>3. QED
      BY <1>1, <3>1, <3>2, OtherDuplicates
  <2>7. CASE Return(p)
    <3>1. rules' = rules /\ faults' = faults /\ (\A q \in Callers \ {p} : ip'[q] = ip[q] /\ pc'[q] = pc[q]) /\ pc'[p] = "idle"
      BY <2>7 DEF Return, Goto, kernel, TypeOK
    <3>2. QED
      BY <1>1, <3>1, OtherDuplicates
  <2>8. QED
    BY <1>6, <2>1, <2>2, <2>3, <2>4, <2>5, <2>6, <2>7 DEF CallStep
<1>7. ASSUME NEW p \in Callers, NEW o \in {"ban", "unban"}, NEW i \in IPs, Start(p, o, i)
      PROVE  DuplicatesBounded'
  <2>1. rules' = rules /\ faults' = faults /\ (\A q \in Callers \ {p} : ip'[q] = ip[q] /\ pc'[q] = pc[q]) /\ pc'[p] = First
    BY <1>7 DEF Start, Goto, kernel, TypeOK
  <2>2. QED
    BY <1>1, <2>1, FirstIs, OtherDuplicates
<1>8. QED
  BY <1>2, <1>3, <1>4, <1>5, <1>6, <1>7 DEF Next

(* Ban's look before it appends bounds the duplicates of a rule by the      *)
(* callers and the failed commands (iptables.go Ban).                       *)
THEOREM FewDuplicates == Spec => []DuplicatesBounded
<1>1. Init => DuplicatesBounded
  BY AppendingFinite DEF Init, DuplicatesBounded
<1>2. QED
  BY <1>1, NextDuplicates, Inductive, PTL DEF Spec

----------------------------------------------------------------------------
(* The promise of the interface.                                            *)

Stage(p) == CASE ~Over(p) -> "running" [] "base" \in errs[p] -> "failed" [] OTHER -> "done"
Calling == [p \in Callers |-> Call(p)]

(* The alternatives of the stage exclude each other in states of CallShape. *)
LEMMA StageIs ==
    ASSUME NEW p \in Callers, CallShape, "base" \in Members
    PROVE  /\ Done(p, "base") <=> Over(p)
           /\ ~Over(p) => Stage(p) = "running"
           /\ (Over(p) /\ "base" \in errs[p]) => Stage(p) = "failed"
           /\ (Over(p) /\ "base" \notin errs[p]) => Stage(p) = "done"
<1>0. Done(p, "base") <=> Over(p)
  BY DEF Done, Over
<1>1. CASE ~Over(p)
  <2>1. "base" \notin errs[p]
    BY <1>0, <1>1 DEF CallShape, ShapeAt
  <2>2. QED
    BY <1>0, <1>1, <2>1, Zenon DEF Stage
<1>2. CASE Over(p) /\ "base" \in errs[p]
  BY <1>0, <1>2, Zenon DEF Stage
<1>3. CASE Over(p) /\ "base" \notin errs[p]
  BY <1>0, <1>3, Zenon DEF Stage
<1>4. QED
  BY <1>1, <1>2, <1>3

LEMMA StageNext ==
    ASSUME NEW p \in Callers, CallShape', "base" \in Members'
    PROVE  /\ Done(p, "base")' <=> Over(p)'
           /\ ~Over(p)' => Stage(p)' = "running"
           /\ (Over(p)' /\ "base" \in errs'[p]) => Stage(p)' = "failed"
           /\ (Over(p)' /\ "base" \notin errs'[p]) => Stage(p)' = "done"
<1>0. Done(p, "base")' <=> Over(p)'
  BY DEF Done, Over
<1>1. CASE ~Over(p)'
  <2>1. "base" \notin errs'[p]
    BY <1>0, <1>1 DEF CallShape, ShapeAt
  <2>2. QED
    BY <1>0, <1>1, <2>1, Zenon DEF Stage
<1>2. CASE Over(p)' /\ "base" \in errs'[p]
  BY <1>0, <1>2, Zenon DEF Stage
<1>3. CASE Over(p)' /\ "base" \notin errs'[p]
  BY <1>0, <1>3, Zenon DEF Stage
<1>4. QED
  BY <1>1, <1>2, <1>3

LEMMA CallIs ==
    ASSUME NEW p
    PROVE  /\ (pc[p] = "idle" \/ "base" \notin Members) => Call(p) = [op |-> "none"]
           /\ (pc[p] # "idle" /\ "base" \in Members) =>
                  Call(p) = [op |-> op[p], ip |-> Target(p), stage |-> Stage(p)]
BY DEF Call, Stage

LEMMA CallNext ==
    ASSUME NEW p
    PROVE  /\ (pc'[p] = "idle" \/ "base" \notin Members') => Call(p)' = [op |-> "none"]
           /\ (pc'[p] # "idle" /\ "base" \in Members') =>
                  Call(p)' = [op |-> op'[p], ip |-> Target(p)', stage |-> Stage(p)']
BY DEF Call, Stage

(* A call under way is none that is idle, and only its stage is written.    *)
LEMMA CallRecord ==
    ASSUME NEW o, o # "none", NEW i, NEW s, NEW t
    PROVE  /\ [op |-> o, ip |-> i, stage |-> s] # [op |-> "none"]
           /\ [[op |-> o, ip |-> i, stage |-> s] EXCEPT !.stage = t] = [op |-> o, ip |-> i, stage |-> t]
           /\ [op |-> o, ip |-> i, stage |-> s].op = o
           /\ [op |-> o, ip |-> i, stage |-> s].ip = i
           /\ [op |-> o, ip |-> i, stage |-> s].stage = s
<1>1. [op |-> o, ip |-> i, stage |-> s].op = o /\ [op |-> "none"].op = "none"
  OBVIOUS
<1>2. [op |-> o, ip |-> i, stage |-> s] # [op |-> "none"]
  BY <1>1
<1>3. QED
  BY <1>1, <1>2

(* A call nothing happened to.                                              *)
LEMMA CallSame ==
    ASSUME CallShape, CallShape', NEW q \in Callers, pc'[q] = pc[q], op'[q] = op[q], ip'[q] = ip[q], errs'[q] = errs[q],
           Members' = Members \/ pc[q] = "idle"
    PROVE  Call(q)' = Call(q)
<1>1. Target(q)' = Target(q) /\ (Over(q)' <=> Over(q))
  BY DEF Target, Over
<1>2. (Members' = Members /\ "base" \in Members) => Stage(q)' = Stage(q)
  BY <1>1, StageIs, StageNext
<1>3. QED
  BY <1>1, <1>2, CallIs, CallNext

(* Only p's call moved, from the record at p to another.                    *)
LEMMA CallingMoves ==
    ASSUME NEW p \in Callers, \A q \in Callers \ {p} : Call(q)' = Call(q)
    PROVE  Calling' = [Calling EXCEPT ![p] = Call(p)']
BY DEF Calling

LEMMA StepCalls ==
    ASSUME TypeOK, CallShape, CallShape', NEW p \in Callers, Step(p), "base" \in Members
    PROVE  /\ Calling' = [Calling EXCEPT ![p] = Call(p)']
           /\ Calling[p] = [op |-> op[p], ip |-> Target(p), stage |-> Stage(p)]
           /\ Call(p)' = [op |-> op[p], ip |-> Target(p), stage |-> Stage(p)']
           /\ op[p] \in {"ban", "unban"} /\ ip[p] = {Target(p)} /\ Members' = Members
<1>1. Members' = Members /\ UNCHANGED <<op, ip>> /\ Others(p) /\ pc[p] # "idle" /\ pc'[p] # "idle"
  BY MembersSame DEF Step
<1>2. \A q \in Callers \ {p} : Call(q)' = Call(q)
  BY <1>1, CallSame DEF Others
<1>3. Calling[p] = Call(p) /\ Target(p)' = Target(p)
  BY <1>1 DEF Calling, Target
<1>4. QED
  BY <1>1, <1>2, <1>3, CallIs, CallNext, CallingMoves, HasTarget

(* A command of the base is a step of the interface.                        *)
LEMMA BaseStepPromise ==
    ASSUME TypeOK, CallShape, CallShape', NEW p \in Callers, Step(p), "base" \in Members
    PROVE  [Promise!Next /\ faults' >= faults]_<<Held, Calling, faults>>
<1>1. /\ Calling' = [Calling EXCEPT ![p] = Call(p)']
      /\ Calling[p] = [op |-> op[p], ip |-> Target(p), stage |-> Stage(p)]
      /\ Call(p)' = [op |-> op[p], ip |-> Target(p), stage |-> Stage(p)']
      /\ op[p] \in {"ban", "unban"} /\ ip[p] = {Target(p)} /\ Members' = Members
  BY StepCalls
<1>2. faults' >= faults /\ faults' \in Nat /\ faults \in Nat
  BY FirewallAssumption DEF Step, TypeOK
<1>3. /\ Calling[p] # [op |-> "none"] /\ Calling[p].op = op[p] /\ Calling[p].ip = Target(p)
      /\ Calling[p].stage = Stage(p)
      /\ \A s : [Calling[p] EXCEPT !.stage = s] = [op |-> op[p], ip |-> Target(p), stage |-> s]
  BY <1>1, CallRecord
<1>4. Calling' = [Calling EXCEPT ![p].stage = Stage(p)']
  BY <1>1, <1>3 DEF Calling
<1>5. Effect(p, "base") = IF Calling[p].op = "ban" THEN Held \cup {Calling[p].ip} ELSE Held \ {Calling[p].ip}
  BY <1>1, <1>3, HeldIs DEF Effect
<1>6. CASE Achieves(p, "base")
  <2>1. Stage(p) = "running" /\ Stage(p)' = "done"
    BY <1>1, <1>6, StageIs, StageNext, HeldIs, HeldNext DEF Achieves
  <2>2. Promise!Achieve(p)
    BY <1>3, <1>4, <1>5, <1>6, <2>1, HeldIs, HeldNext DEF Promise!Achieve, Promise!Running, Promise!Idle, Promise!Effect, Promise!To, Achieves, Calling
  <2>3. QED
    BY <1>2, <2>2 DEF Promise!Next
<1>7. CASE Fails(p, "base")
  <2>1. Stage(p) = "running" /\ Stage(p)' = "failed"
    BY <1>1, <1>7, StageIs, StageNext, HeldIs, HeldNext DEF Fails
  <2>2. Promise!Fail(p)
    BY <1>3, <1>4, <1>7, <2>1, HeldIs, HeldNext DEF Promise!Fail, Promise!Running, Promise!Idle, Promise!To, Fails, Calling
  <2>3. QED
    BY <1>2, <2>2 DEF Promise!Next
<1>8. CASE Misses(p, "base")
  <2>1. Stage(p) = "running" /\ Stage(p)' = "done"
    BY <1>1, <1>8, StageIs, StageNext, HeldIs, HeldNext DEF Misses
  <2>2. Promise!Miss(p)
    BY <1>3, <1>4, <1>8, <2>1, HeldIs, HeldNext DEF Promise!Miss, Promise!Running, Promise!Idle, Promise!To, Misses, Calling
  <2>3. QED
    BY <1>2, <2>2 DEF Promise!Next
<1>9. CASE GoesOn(p, "base")
  <2>1. Stage(p)' = Stage(p)
    BY <1>1, <1>9, StageIs, StageNext, HeldIs, HeldNext DEF GoesOn
  <2>2. Calling' = Calling
    BY <1>1, <2>1 DEF Calling
  <2>3. CASE Held' = Held
    <3>1. CASE faults' = faults
      BY <2>2, <2>3, <3>1
    <3>2. CASE faults' > faults
      <4>1. Promise!Glitch
        BY <2>2, <2>3, <3>2 DEF Promise!Glitch, Calling
      <4>2. QED
        BY <1>2, <4>1 DEF Promise!Next
    <3>3. QED
      BY <1>2, <3>1, <3>2
  <2>4. CASE op[p] = "unban" /\ ~Done(p, "base") /\ Held' = Effect(p, "base")
    <3>1. Stage(p) = "running"
      BY <2>4, StageIs
    <3>2. Promise!Remove(p)
      BY <1>3, <1>5, <2>2, <2>4, <3>1 DEF Promise!Remove, Promise!Running, Promise!Idle, Promise!Effect, Calling
    <3>3. QED
      BY <1>2, <3>2 DEF Promise!Next
  <2>5. QED
    BY <1>9, <2>3, <2>4, HeldIs, HeldNext DEF GoesOn
<1>10. QED
  BY <1>6, <1>7, <1>8, <1>9 DEF Step, Moves

(* Calls of XDP alone do not show.                                          *)
LEMMA StepPromise ==
    ASSUME TypeOK, CallShape, CallShape', Backend, NEW p \in Callers, Step(p)
    PROVE  [Promise!Next /\ faults' >= faults]_<<Held, Calling, faults>>
<1>1. CASE "base" \in Members
  BY <1>1, BaseStepPromise
<1>2. CASE "base" \notin Members
  <2>1. Members' = Members /\ faults' \in Nat /\ faults \in Nat /\ faults' >= faults
    BY MembersSame, FirewallAssumption DEF Step, TypeOK
  <2>2. Calling' = Calling
    BY <1>2, <2>1, CallIs, CallNext DEF Calling
  <2>3. Held' = Held
    <3>1. ~Done(p, "base")'
      BY <1>2, <2>1 DEF Done
    <3>2. QED
      BY <1>2, <3>1, HeldIs, HeldNext DEF Step, Moves, Achieves, Fails, Misses, GoesOn
  <2>4. CASE faults' = faults
    BY <2>2, <2>3, <2>4
  <2>5. CASE faults' > faults
    <3>1. Promise!Glitch
      BY <2>2, <2>3, <2>5 DEF Promise!Glitch, Calling
    <3>2. QED
      BY <2>1, <3>1 DEF Promise!Next
  <2>6. QED
    BY <2>1, <2>4, <2>5
<1>3. QED
  BY <1>1, <1>2

LEMMA StartPromise ==
    ASSUME TypeOK, CallShape, CallShape', NEW p \in Callers, NEW o \in {"ban", "unban"}, NEW i \in IPs, Start(p, o, i)
    PROVE  [Promise!Next /\ faults' >= faults]_<<Held, Calling, faults>>
<1>1. /\ UNCHANGED <<kernel, daemon, faults, errs>> /\ Others(p)
      /\ pc[p] = "idle" /\ pc'[p] = First /\ op'[p] = o /\ ip'[p] = {i}
  <2>1. Others(p)
    BY StartShape
  <2>2. QED
    BY <2>1 DEF Start, Goto, TypeOK
<1>2. Held' = Held /\ Members' = Members /\ faults' >= faults
  BY <1>1, FirewallAssumption DEF kernel, daemon, Held, Members, TypeOK
<1>3. \A q \in Callers \ {p} : Call(q)' = Call(q)
  BY <1>1, <1>2, CallSame DEF Others
<1>4. Calling' = [Calling EXCEPT ![p] = Call(p)'] /\ Calling[p] = [op |-> "none"]
  BY <1>1, <1>3, CallIs, CallingMoves DEF Calling
<1>5. Target(p)' = i
  BY <1>1, ChooseSingle DEF Target
<1>6. CASE "base" \in Members
  <2>1. ~Over(p)' /\ pc'[p] # "idle"
    BY <1>1, <1>6, FirstIs DEF Over
  <2>2. Call(p)' = [op |-> o, ip |-> i, stage |-> "running"]
    <3>1. Stage(p)' = "running"
      BY <1>2, <1>6, <2>1, StageNext
    <3>2. QED
      BY <1>1, <1>2, <1>5, <1>6, <2>1, <3>1, CallNext
  <2>3. Promise!Begin(p)
    <3>1. Call(p)' \in Promise!Calls /\ Call(p)'.stage = "running"
      BY <2>2 DEF Promise!Calls
    <3>2. QED
      BY <1>2, <1>4, <3>1 DEF Promise!Begin, Promise!Idle, Calling
  <2>4. QED
    BY <1>2, <2>3 DEF Promise!Next
<1>7. CASE "base" \notin Members
  <2>1. Call(p)' = Calling[p]
    BY <1>2, <1>4, <1>7, CallNext
  <2>2. Calling' = Calling
    BY <1>4, <2>1 DEF Calling
  <2>3. QED
    BY <1>1, <1>2, <2>2
<1>8. QED
  BY <1>6, <1>7

LEMMA ReturnPromise ==
    ASSUME TypeOK, CallShape, CallShape', NEW p \in Callers, Return(p)
    PROVE  [Promise!Next /\ faults' >= faults]_<<Held, Calling, faults>>
<1>1. UNCHANGED <<kernel, daemon, faults>> /\ Others(p) /\ pc[p] = "return" /\ pc'[p] = "idle"
  BY ReturnShape DEF Return, Goto, TypeOK
<1>2. Held' = Held /\ Members' = Members /\ faults' >= faults
  BY <1>1, FirewallAssumption DEF kernel, daemon, Held, Members, TypeOK
<1>3. \A q \in Callers \ {p} : Call(q)' = Call(q)
  BY <1>1, <1>2, CallSame DEF Others
<1>4. Call(p)' = [op |-> "none"] /\ Calling[p] = Call(p) /\ Calling' = [Calling EXCEPT ![p] = Call(p)']
  BY <1>1, <1>3, CallNext, CallingMoves DEF Calling
<1>5. CASE "base" \in Members
  <2>1. Calling[p] = [op |-> op[p], ip |-> Target(p), stage |-> Stage(p)]
    BY <1>1, <1>4, <1>5, CallIs
  <2>2. Stage(p) # "running"
    BY <1>1, <1>5, StageIs DEF Over
  <2>3. Calling[p] # [op |-> "none"] /\ Calling[p].stage = Stage(p)
    BY <1>1, <2>1, HasTarget, CallRecord
  <2>4. Promise!End(p)
    BY <1>2, <1>4, <2>2, <2>3 DEF Promise!End, Promise!Running, Promise!Idle, Calling
  <2>5. QED
    BY <1>2, <2>4 DEF Promise!Next
<1>6. CASE "base" \notin Members
  <2>1. Call(p)' = Calling[p]
    BY <1>4, <1>6, CallIs
  <2>2. Calling' = Calling
    BY <1>4, <2>1 DEF Calling
  <2>3. QED
    BY <1>1, <1>2, <2>2
<1>7. QED
  BY <1>5, <1>6

LEMMA BootPromise ==
    ASSUME TypeOK, CallShape, CallShape', Backend, Promises, Boot
    PROVE  [Promise!Next /\ faults' >= faults]_<<Held, Calling, faults>>
<1>1. UNCHANGED calls /\ Held' = Held /\ (\A p \in Callers : pc[p] = "idle")
  BY BootPromises, BootShape DEF Boot
<1>2. Calling' = Calling
  BY <1>1, CallSame DEF Calling, calls
<1>3. PICK F \in SUBSET Commands : Spend(Cardinality(F))
  BY DEF Boot
<1>4. Cardinality(F) \in Nat /\ faults \in Nat
  BY FS_Subset, FS_CardinalityType, CommandsFinite, FirewallAssumption DEF TypeOK
<1>5. faults' = faults \/ (faults' > faults /\ faults' >= faults)
  BY <1>3, <1>4 DEF Spend
<1>6. CASE faults' > faults /\ faults' >= faults
  <2>1. Promise!Glitch
    BY <1>1, <1>2, <1>6 DEF Promise!Glitch, Calling
  <2>2. QED
    BY <1>6, <2>1 DEF Promise!Next
<1>7. QED
  BY <1>1, <1>2, <1>5, <1>6

LEMMA DiePromise ==
    ASSUME TypeOK, CallShape, Backend, Crash \/ Reboot
    PROVE  [Promise!Next /\ faults' >= faults]_<<Held, Calling, faults>>
<1>1. faults' >= faults
  BY FirewallAssumption DEF Crash, Reboot, TypeOK
<1>2. Held' \in {Held, {}} /\ (\A p \in Callers : pc'[p] = "idle")
  <2>1. CASE Crash
    BY <2>1 DEF Crash, NoCalls, kernel, Held
  <2>2. CASE Reboot
    BY <2>2, RebootPromises DEF Reboot, calls
  <2>3. QED
    BY <2>1, <2>2
<1>3. Calling' = [p \in Callers |-> [op |-> "none"]]
  BY <1>2, CallNext DEF Calling
<1>4. Promise!Die
  BY <1>2, <1>3 DEF Promise!Die, Promise!Idle, Calling
<1>5. QED
  BY <1>1, <1>4 DEF Promise!Next

LEMMA NextPromise == IInv /\ IInv' /\ [Next]_vars => [Promise!Next /\ faults' >= faults]_<<Held, Calling, faults>>
<1> SUFFICES ASSUME TypeOK, CallShape, Backend, Promises, CallShape', [Next]_vars
             PROVE  [Promise!Next /\ faults' >= faults]_<<Held, Calling, faults>>
  BY InvParts DEF IInv
<1>1. CASE UNCHANGED vars
  <2>1. UNCHANGED <<kernel, daemon, faults, calls>>
    BY <1>1 DEF vars
  <2>2. Held' = Held
    BY <2>1 DEF kernel, daemon, Held
  <2>3. Calling' = Calling
    BY <2>1, CallSame, MembersSame DEF daemon, calls, Calling
  <2>4. QED
    BY <2>1, <2>2, <2>3
<1>2. CASE Boot
  BY <1>2, BootPromise
<1>3. CASE Crash \/ Reboot
  BY <1>3, DiePromise
<1>4. ASSUME NEW p \in Callers, CallStep(p)
      PROVE  [Promise!Next /\ faults' >= faults]_<<Held, Calling, faults>>
  BY <1>4, CommandStep, StepPromise, ReturnPromise
<1>5. ASSUME NEW p \in Callers, NEW o \in {"ban", "unban"}, NEW i \in IPs, Start(p, o, i)
      PROVE  [Promise!Next /\ faults' >= faults]_<<Held, Calling, faults>>
  BY <1>5, StartPromise
<1>6. QED
  BY <1>1, <1>2, <1>3, <1>4, <1>5 DEF Next

(* The chain and the set, whatever their commands do in between, are the    *)
(* interface their callers rely on (action/enforcer.go): only a Ban under   *)
(* way adds its address, only an Unban under way removes it, and success    *)
(* means effect, except for an Unban whose look-up failed.                  *)
THEOREM KeepsPromise == Spec => PromiseSpec
<1>1. Init => Promise!Init
  <2> SUFFICES ASSUME Init PROVE Promise!Init
    OBVIOUS
  <2>1. Held = {}
    BY DEF Init, Held
  <2>2. Calling = [p \in Callers |-> [op |-> "none"]]
    BY CallIs DEF Init, Calling
  <2>3. QED
    BY <2>1, <2>2 DEF Init, Promise!Init, Promise!Idle, Calling
<1>2. IInv /\ IInv' /\ [Next]_vars =>
        [Promise!Next /\ faults' >= faults]_<<Held, [p \in Callers |-> Call(p)], faults>>
  BY NextPromise DEF Calling
<1>3. QED
  BY <1>1, <1>2, Inductive, PTL DEF Spec, PromiseSpec, Promise!Spec
=============================================================================
