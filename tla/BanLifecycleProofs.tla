------------------------- MODULE BanLifecycleProofs -------------------------
(***************************************************************************)
(* IInv is inductive for every number of addresses, rows, API handlers,     *)
(* restarts and every set of faults; TypeOK, SingleAutoBan and              *)
(* RecordedBeforeDropped follow.  Each action is one lemma, with one step   *)
(* per conjunct of IInv it can disturb.                                     *)
(***************************************************************************)
EXTENDS BanLifecycle, TLAPS

LEMMA ProcFacts ==
    /\ "pipe" \in Procs /\ "exp" \in Procs /\ "main" \in Procs /\ "maint" \in Procs
    /\ \A t \in ApiThreads : t \in Procs /\ t # "pipe" /\ t # "exp" /\ t # "main" /\ t # "maint"
BY ConstantsAssumption DEF Procs

----------------------------------------------------------------------------
(* Local steps: a jump, a return, and the snapshots a goroutine keeps.      *)

LEMMA GotoType ==
    ASSUME TypeOK, NEW p \in Procs, NEW l \in PCs, Goto(p, l)
    PROVE  pc' \in [Procs -> PCs]
BY DEF TypeOK, Goto

LEMMA ReturnType ==
    ASSUME TypeOK, NEW p \in Procs, NEW l \in PCs, Return(p, l)
    PROVE  /\ pc' \in [Procs -> PCs]
           /\ tgt' \in [Procs -> IPs \cup {NoIP}]
           /\ cur' \in [Procs -> 0..MaxBans]
           /\ net' \in [Procs -> Nets \cup {{}}]
           /\ err' \in [Procs -> BOOLEAN]
<1>1. 0 \in 0..MaxBans
  BY ConstantsAssumption
<1>2. QED
  BY <1>1 DEF TypeOK, Return, Goto

LEMMA ErrType ==
    ASSUME TypeOK, NEW p \in Procs, NEW e \in BOOLEAN
    PROVE  [err EXCEPT ![p] = e] \in [Procs -> BOOLEAN]
BY DEF TypeOK

LEMMA SnapshotType ==
    ASSUME TypeOK, NEW p \in Procs, NEW S
    PROVE  [seen EXCEPT ![p] = Snapshot(S)] \in [Procs -> [Ids -> Statuses]]
<1>1. Snapshot(S) \in [Ids -> Statuses]
  BY DEF TypeOK, Snapshot, Rows, Statuses
<1>2. QED
  BY <1>1 DEF TypeOK

LEMMA ForgetType ==
    ASSUME TypeOK, NEW p \in Procs
    PROVE  /\ \A id \in Nat : Visited(p, id) \in [Procs -> [Ids -> Statuses]]
           /\ [seen EXCEPT ![p] = NothingSeen] \in [Procs -> [Ids -> Statuses]]
<1>1. NothingSeen \in [Ids -> Statuses]
  BY DEF NothingSeen, Statuses
<1>2. \A id \in Nat : [seen[p] EXCEPT ![id] = "none"] \in [Ids -> Statuses]
  BY DEF TypeOK, Statuses
<1>3. QED
  BY <1>1, <1>2 DEF TypeOK, Visited

----------------------------------------------------------------------------
(* What a statement does to the table.                                      *)

(* Rows that exist keep existing, with their address, and one meant to be   *)
(* enforced does not turn into a dry run.                                   *)
RowsKept ==
    \A k \in Ids : bans[k].status # "none" =>
                     /\ bans'[k].status # "none" /\ bans'[k].ip = bans[k].ip
                     /\ bans[k].status \notin Shadow => bans'[k].status \notin Shadow
(* No row becomes an automatic ban.                                         *)
NoNewAuto ==
    \A k \in Ids : bans'[k].status \in AutoStatus =>
                     bans[k].status \in AutoStatus /\ bans'[k].ip = bans[k].ip
TableOK == bans \in [Ids -> Rows] /\ nextId \in 1..(MaxBans + 1) /\ RowsDense

LEMMA TableFrame ==
    ASSUME TableOK, UNCHANGED <<bans, nextId>>
    PROVE  TableOK' /\ RowsKept /\ NoNewAuto
BY DEF TableOK, RowsDense, RowsKept, NoNewAuto

LEMMA TableClose ==
    ASSUME TableOK, NEW id \in Ids, bans[id].status # "none", UpdateBanStatus(id), UNCHANGED nextId
    PROVE  TableOK' /\ RowsKept /\ NoNewAuto
<1>1. CASE UNCHANGED bans
  BY <1>1, TableFrame
<1>2. CASE bans' = [bans EXCEPT ![id].status = "expired"]
  <2>1. bans' \in [Ids -> Rows]
    <3>1. \A k \in Ids : [bans[k] EXCEPT !.status = "expired"] \in Rows
      BY DEF TableOK, Rows, Statuses
    <3>2. QED
      BY <1>2, <3>1 DEF TableOK
  <2>2. \A k \in Ids : /\ bans'[k].ip = bans[k].ip
                       /\ k # id => bans'[k] = bans[k]
                       /\ k = id => bans'[k].status = "expired"
    <3>1. \A k \in Ids : bans[k] = [ip |-> bans[k].ip, status |-> bans[k].status, exp |-> bans[k].exp]
      BY DEF TableOK, Rows
    <3>2. \A k \in Ids : bans'[k] = IF k = id THEN [bans[k] EXCEPT !.status = "expired"] ELSE bans[k]
      BY <1>2 DEF TableOK
    <3>3. QED
      BY <3>1, <3>2
  <2>3. QED
    BY <2>1, <2>2 DEF TableOK, RowsDense, RowsKept, NoNewAuto, AutoStatus, Shadow
<1>3. QED
  BY <1>1, <1>2 DEF UpdateBanStatus

LEMMA TableDue ==
    ASSUME TableOK, NEW id \in Ids, bans[id].status # "none",
           bans' = [bans EXCEPT ![id].exp = "due"], UNCHANGED nextId
    PROVE  TableOK' /\ RowsKept /\ NoNewAuto
<1>1. bans' \in [Ids -> Rows]
  BY DEF TableOK, Rows, Expiries
<1>2. \A k \in Ids : bans'[k].ip = bans[k].ip /\ bans'[k].status = bans[k].status
  BY DEF TableOK, Rows
<1>3. QED
  BY <1>1, <1>2 DEF TableOK, RowsDense, RowsKept, NoNewAuto

LEMMA TableInsert ==
    ASSUME TableOK, NEW i \in IPs, NEW s \in CurrentStatus, NEW e \in {"never", "later"},
           CreateBan(i, s, e)
    PROVE  /\ TableOK' /\ RowsKept
           /\ nextId \in Ids
           /\ \A k \in Ids : k # nextId => bans'[k] = bans[k]
           /\ bans'[nextId].ip = i /\ bans'[nextId].status = s /\ s # "none"
           /\ bans[nextId].status = "none"
<1>1. nextId \in Ids /\ nextId' = nextId + 1
      /\ bans' = [bans EXCEPT ![nextId] = [ip |-> i, status |-> s, exp |-> e]]
  BY DEF CreateBan
<1>2. [ip |-> i, status |-> s, exp |-> e] \in Rows /\ s # "none"
  BY DEF Rows, Statuses, CurrentStatus, Expiries
<1>3. bans' \in [Ids -> Rows]
  BY <1>1, <1>2 DEF TableOK
<1>4. /\ \A k \in Ids : k # nextId => bans'[k] = bans[k]
      /\ bans'[nextId] = [ip |-> i, status |-> s, exp |-> e]
  BY <1>1 DEF TableOK
<1>5. bans[nextId].status = "none"
  BY <1>1 DEF TableOK, RowsDense, Ids
<1>6. nextId' \in 1..(MaxBans + 1)
  BY <1>1, ConstantsAssumption DEF Ids
<1>7. RowsDense'
  BY <1>1, <1>2, <1>4, ConstantsAssumption DEF TableOK, RowsDense, Ids
<1>8. RowsKept
  BY <1>4, <1>5 DEF RowsKept
<1>9. QED
  BY <1>1, <1>2, <1>3, <1>4, <1>5, <1>6, <1>7, <1>8 DEF TableOK

----------------------------------------------------------------------------
(* What follows for the rest of IInv when rows are kept.                    *)

LEMMA StillRecorded ==
    ASSUME RowsKept
    PROVE  \A i \in IPs : Recorded(i) => Recorded(i)'
<1> SUFFICES ASSUME NEW i \in IPs, Recorded(i)
             PROVE  Recorded(i)'
  OBVIOUS
<1>1. PICK k \in Ids : bans[k].ip = i /\ bans[k].status \notin Shadow
  BY DEF Recorded
<1>2. bans'[k].ip = i /\ bans'[k].status \notin Shadow
  BY <1>1 DEF RowsKept, Shadow
<1>3. QED
  BY <1>2 DEF Recorded

LEMMA DropsRecorded ==
    ASSUME RowsKept, RecordedBeforeDropped, fw \cup xmap \subseteq IPs,
           fw' \subseteq fw, xmap' \subseteq xmap
    PROVE  RecordedBeforeDropped'
BY StillRecorded DEF RecordedBeforeDropped, Recorded

LEMMA AutoStaysSingle ==
    ASSUME SingleAutoBan, NoNewAuto
    PROVE  SingleAutoBan'
BY DEF SingleAutoBan, NoNewAuto

LEMMA SnapshotExists ==
    ASSUME NEW S, NEW id \in Ids, Snapshot(S)[id] # "none"
    PROVE  bans[id].status # "none"
BY DEF Snapshot

(* A step that changes neither the table nor the kernel.                    *)
DurableInv == TableOK /\ fw \cup xmap \subseteq IPs /\ SingleAutoBan /\ RecordedBeforeDropped

LEMMA DurableFrame ==
    ASSUME DurableInv, UNCHANGED <<bans, nextId, fw, xmap>>
    PROVE  DurableInv' /\ RowsKept
<1>1. TableOK' /\ RowsKept /\ NoNewAuto
  BY TableFrame DEF DurableInv
<1>2. QED
  BY <1>1, AutoStaysSingle, DropsRecorded DEF DurableInv

LEMMA IInvDurable == IInv => DurableInv
BY DEF IInv, DurableInv, TableOK, TypeOK

(* A goroutine that drops rows from its list, or its row, holds no dangling *)
(* handle; neither does one that takes a fresh snapshot.                    *)
LEMMA HandlesForget ==
    ASSUME IInv, RowsKept, NEW p \in Procs,
           \/ seen' = seen
           \/ \E id \in Nat : seen' = Visited(p, id)
           \/ seen' = [seen EXCEPT ![p] = NothingSeen],
           cur' = cur \/ cur' = [cur EXCEPT ![p] = 0]
    PROVE  HandlesExist'
<1>1. \A q \in Procs, id \in Ids : seen'[q][id] # "none" => seen[q][id] # "none"
  <2>1. CASE seen' = seen
    BY <2>1
  <2>2. CASE \E id \in Nat : seen' = Visited(p, id)
    BY <2>2 DEF IInv, TypeOK, Visited
  <2>3. CASE seen' = [seen EXCEPT ![p] = NothingSeen]
    <3>1. \A id \in Ids : seen'[p][id] = "none"
      BY <2>3 DEF IInv, TypeOK, NothingSeen
    <3>2. \A q \in Procs : q # p => seen'[q] = seen[q]
      BY <2>3 DEF IInv, TypeOK
    <3>3. QED
      BY <3>1, <3>2
  <2>4. QED
    BY <2>1, <2>2, <2>3
<1>2. \A q \in Procs : cur'[q] # 0 => cur'[q] = cur[q] /\ cur[q] \in Ids
  BY ConstantsAssumption DEF IInv, TypeOK, Ids
<1>3. QED
  BY <1>1, <1>2, ProcFacts DEF IInv, HandlesExist, RowsKept

LEMMA HandlesSnapshot ==
    ASSUME IInv, UNCHANGED <<bans, cur>>, NEW p \in Procs, NEW S,
           p = "main" => S \subseteq EnforcedRows,
           seen' = [seen EXCEPT ![p] = Snapshot(S)]
    PROVE  HandlesExist'
<1>1. \A q \in Procs, id \in Ids :
        seen'[q][id] # "none" => seen[q][id] # "none" \/ bans[id].status # "none"
  BY SnapshotExists DEF IInv, TypeOK
<1>2. \A id \in Ids : seen'["main"][id] # "none" => bans[id].status \notin Shadow
  <2>1. CASE p = "main"
    <3>1. \A id \in Ids : Snapshot(S)[id] # "none" => id \in EnforcedRows
      BY <2>1 DEF Snapshot
    <3>2. QED
      BY <2>1, <3>1 DEF IInv, TypeOK, EnforcedRows, EnforcedStatus, Shadow
  <2>2. CASE p # "main"
    BY <2>2, ProcFacts DEF IInv, TypeOK, HandlesExist
  <2>3. QED
    BY <2>1, <2>2
<1>3. QED
  BY <1>1, <1>2 DEF IInv, HandlesExist

----------------------------------------------------------------------------
(* Steps that leave the table and the kernel alone.                         *)

LEMMA PipeTakeInv ==
    ASSUME IInv, NEW i \in IPs, PipeTake(i)
    PROVE  IInv'
<1>1. UNCHANGED <<bans, nextId, fw, xmap>>
  BY DEF PipeTake, durable
<1>2. DurableInv' /\ RowsKept
  BY <1>1, IInvDurable, DurableFrame
<1>3. TypeOK'
  BY <1>1, ProcFacts, ConstantsAssumption DEF IInv, TypeOK, PipeTake, Goto, PCs, Ids, durable, whitelist, engine, locals
<1>4. HandlesExist'
  BY <1>1, ProcFacts DEF IInv, TypeOK, HandlesExist, PipeTake, locals
<1>5. TargetsRecorded'
  BY <1>1, ProcFacts DEF IInv, TypeOK, TargetsRecorded, Recorded, PipeTake, Goto, locals
<1>6. CheckStillHolds'
  BY <1>1, ProcFacts DEF IInv, TypeOK, CheckStillHolds, PipeTake, Goto, locals
<1>7. QED
  BY <1>2, <1>3, <1>4, <1>5, <1>6 DEF IInv, DurableInv, TableOK

LEMMA PipeCheckInv ==
    ASSUME IInv, PipeCheck
    PROVE  IInv'
<1>1. UNCHANGED <<bans, nextId, fw, xmap>>
  BY DEF PipeCheck, durable
<1>2. DurableInv' /\ RowsKept
  BY <1>1, IInvDurable, DurableFrame
<1>3. TypeOK'
  <2>1. CASE Return("pipe", "idle")
    BY <1>1, <2>1, ProcFacts, ReturnType DEF IInv, TypeOK, PipeCheck, PCs, durable, whitelist, engine
  <2>2. CASE Goto("pipe", "insert") /\ UNCHANGED <<tgt, cur, net, err>>
    BY <1>1, <2>2, ProcFacts DEF IInv, TypeOK, PipeCheck, Goto, PCs, durable, whitelist, engine
  <2>3. QED
    BY <2>1, <2>2 DEF PipeCheck
<1>4. HandlesExist'
  BY <1>1, ProcFacts DEF IInv, TypeOK, HandlesExist, PipeCheck, Return, locals
<1>5. TargetsRecorded'
  BY <1>1, ProcFacts DEF IInv, TypeOK, TargetsRecorded, Recorded, PipeCheck, Return, Goto, locals
<1>6. CheckStillHolds'
  <2>1. pc'["pipe"] = "insert" => ActiveBansOf(tgt["pipe"]) = {} /\ tgt' = tgt
    BY ProcFacts DEF IInv, TypeOK, PipeCheck, Return, Goto
  <2>2. ActiveBansOf(tgt["pipe"]) = {} =>
          \A id \in Ids : bans[id].ip = tgt["pipe"] => bans[id].status \notin AutoStatus
    BY DEF ActiveBansOf, CurrentStatus, AutoStatus
  <2>3. QED
    BY <1>1, <2>1, <2>2 DEF CheckStillHolds
<1>7. QED
  BY <1>2, <1>3, <1>4, <1>5, <1>6 DEF IInv, DurableInv, TableOK

LEMMA PipeDoneInv ==
    ASSUME IInv, PipeDone
    PROVE  IInv'
<1>1. UNCHANGED <<bans, nextId, fw, xmap>>
  BY DEF PipeDone, durable
<1>2. DurableInv' /\ RowsKept
  BY <1>1, IInvDurable, DurableFrame
<1>3. TypeOK'
  BY <1>1, ProcFacts, ConstantsAssumption DEF IInv, TypeOK, PipeDone, Return, Goto, PCs, Ids, durable, whitelist, engine, locals
<1>4. HandlesExist'
  BY <1>1, ProcFacts DEF IInv, TypeOK, HandlesExist, PipeDone, Return, locals
<1>5. TargetsRecorded'
  BY <1>1, ProcFacts DEF IInv, TypeOK, TargetsRecorded, Recorded, PipeDone, Return, Goto, locals
<1>6. CheckStillHolds'
  BY <1>1, ProcFacts DEF IInv, TypeOK, CheckStillHolds, PipeDone, Return, Goto, locals
<1>7. QED
  BY <1>2, <1>3, <1>4, <1>5, <1>6 DEF IInv, DurableInv, TableOK

LEMMA ExpTickInv ==
    ASSUME IInv, ExpTick
    PROVE  IInv'
<1>1. UNCHANGED <<bans, nextId, fw, xmap>>
  BY DEF ExpTick, durable
<1>2. DurableInv' /\ RowsKept
  BY <1>1, IInvDurable, DurableFrame
<1>3. TypeOK'
  <2>1. seen' \in [Procs -> [Ids -> Statuses]]
    BY ProcFacts, SnapshotType DEF IInv, ExpTick
  <2>2. QED
    BY <1>1, <2>1, ProcFacts DEF IInv, TypeOK, ExpTick, NextScan, Goto, PCs, durable, whitelist, engine
<1>4. HandlesExist'
  BY ProcFacts, HandlesSnapshot DEF ExpTick, durable
<1>5. TargetsRecorded'
  BY <1>1, ProcFacts DEF IInv, TypeOK, TargetsRecorded, Recorded, ExpTick, NextScan, Goto, locals
<1>6. CheckStillHolds'
  BY <1>1, ProcFacts DEF IInv, TypeOK, CheckStillHolds, ExpTick, NextScan, Goto, locals
<1>7. QED
  BY <1>2, <1>3, <1>4, <1>5, <1>6 DEF IInv, DurableInv, TableOK

LEMMA ExpDoneInv ==
    ASSUME IInv, ExpDone
    PROVE  IInv'
<1>1. UNCHANGED <<bans, nextId, fw, xmap>>
  BY DEF ExpDone, durable
<1>2. DurableInv' /\ RowsKept
  BY <1>1, IInvDurable, DurableFrame
<1>3. TypeOK'
  <2>1. seen' \in [Procs -> [Ids -> Statuses]]
    BY ProcFacts, ConstantsAssumption, ForgetType DEF IInv, TypeOK, ExpDone
  <2>2. \A S : NextScan(S) \in PCs
    BY DEF NextScan, PCs
  <2>3. gauge' \in (-MaxBans)..MaxBans
    BY ConstantsAssumption DEF IInv, TypeOK, ExpDone
  <2>4. QED
    BY <1>1, <2>1, <2>2, <2>3, ProcFacts, ReturnType DEF IInv, TypeOK, ExpDone, durable, whitelist, engine
<1>4. HandlesExist'
  <2>1. cur["exp"] \in Nat
    BY ProcFacts, ConstantsAssumption DEF IInv, TypeOK
  <2>2. QED
    BY <1>2, <2>1, ProcFacts, HandlesForget DEF ExpDone, Return
<1>5. TargetsRecorded'
  BY <1>1, ProcFacts DEF IInv, TypeOK, TargetsRecorded, Recorded, ExpDone, Return, NextScan, Goto, locals
<1>6. CheckStillHolds'
  BY <1>1, ProcFacts DEF IInv, TypeOK, CheckStillHolds, ExpDone, Return, NextScan, Goto, locals
<1>7. QED
  BY <1>2, <1>3, <1>4, <1>5, <1>6 DEF IInv, DurableInv, TableOK

LEMMA RecStartInv ==
    ASSUME IInv, NEW p \in {"main", "maint"}, RecStart(p)
    PROVE  IInv'
<1>1. UNCHANGED <<bans, nextId, fw, xmap>>
  BY DEF RecStart, durable
<1>2. DurableInv' /\ RowsKept
  BY <1>1, IInvDurable, DurableFrame
<1>3. TypeOK'
  <2>1. seen' \in [Procs -> [Ids -> Statuses]]
    <3>1. p \in Procs
      BY ProcFacts
    <3>2. seen' = seen \/ \E S : seen' = [seen EXCEPT ![p] = Snapshot(S)]
      BY DEF RecStart
    <3>3. seen \in [Procs -> [Ids -> Statuses]]
      BY DEF IInv, TypeOK
    <3>4. QED
      BY <3>1, <3>2, <3>3, SnapshotType DEF IInv
  <2>2. QED
    BY <1>1, <2>1, ProcFacts DEF IInv, TypeOK, RecStart, RecEnd, Goto, PCs, durable, whitelist, engine
<1>4. HandlesExist'
  BY <1>1, <1>2, ProcFacts, HandlesSnapshot, HandlesForget DEF RecStart
<1>5. TargetsRecorded'
  BY <1>1, ProcFacts DEF IInv, TypeOK, TargetsRecorded, Recorded, RecStart, RecEnd, Goto, locals
<1>6. CheckStillHolds'
  BY <1>1, ProcFacts DEF IInv, TypeOK, CheckStillHolds, RecStart, RecEnd, Goto, locals
<1>7. QED
  BY <1>2, <1>3, <1>4, <1>5, <1>6 DEF IInv, DurableInv, TableOK

LEMMA RecWantInv ==
    ASSUME IInv, NEW p \in Procs, RecWant(p)
    PROVE  IInv'
<1>1. UNCHANGED <<bans, nextId, fw, xmap>>
  BY DEF RecWant, durable
<1>2. DurableInv' /\ RowsKept
  BY <1>1, IInvDurable, DurableFrame
<1>3. TypeOK'
  <2>1. \A id \in Pending(p) : id \in Nat /\ bans[id].ip \in IPs
    BY DEF IInv, TypeOK, Pending, HandlesExist, RowsDense, Ids
  <2>2. ips' \in [Procs -> SUBSET IPs]
    BY <2>1 DEF IInv, TypeOK, RecWant
  <2>3. seen' \in [Procs -> [Ids -> Statuses]]
    BY <2>1, ForgetType DEF IInv, TypeOK, RecWant
  <2>4. QED
    BY <1>1, <2>2, <2>3 DEF IInv, TypeOK, RecWant, Goto, PCs, durable, whitelist, engine
<1>4. HandlesExist'
  <2>1. \A id \in Pending(p) : id \in Nat
    BY DEF Pending, Ids
  <2>2. QED
    BY <1>2, <2>1, HandlesForget DEF RecWant
<1>5. TargetsRecorded'
  BY <1>1, ProcFacts DEF IInv, TypeOK, TargetsRecorded, Recorded, RecWant, Goto, locals
<1>6. CheckStillHolds'
  BY <1>1, ProcFacts DEF IInv, TypeOK, CheckStillHolds, RecWant, Goto, locals
<1>7. QED
  BY <1>2, <1>3, <1>4, <1>5, <1>6 DEF IInv, DurableInv, TableOK

LEMMA RecHaveInv ==
    ASSUME IInv, NEW p \in Procs, RecHave(p)
    PROVE  IInv'
<1>1. UNCHANGED <<bans, nextId, fw, xmap>>
  BY DEF RecHave, durable
<1>2. DurableInv' /\ RowsKept
  BY <1>1, IInvDurable, DurableFrame
<1>3. TypeOK'
  <2>1. ips' \in [Procs -> SUBSET IPs]
    BY DEF IInv, TypeOK, RecHave
  <2>2. pc' \in [Procs -> PCs]
    BY DEF IInv, TypeOK, RecHave, RecEnd, Goto, PCs
  <2>3. QED
    BY <1>1, <2>1, <2>2 DEF IInv, TypeOK, RecHave, durable, whitelist, engine
<1>4. HandlesExist'
  BY <1>1, ProcFacts DEF IInv, TypeOK, HandlesExist, RecHave, RecEnd, locals
<1>5. TargetsRecorded'
  BY <1>1, ProcFacts DEF IInv, TypeOK, TargetsRecorded, Recorded, RecHave, RecEnd, Goto, locals
<1>6. CheckStillHolds'
  BY <1>1, ProcFacts DEF IInv, TypeOK, CheckStillHolds, RecHave, RecEnd, Goto, locals
<1>7. QED
  BY <1>2, <1>3, <1>4, <1>5, <1>6 DEF IInv, DurableInv, TableOK

LEMMA RestoreListInv ==
    ASSUME IInv, RestoreList
    PROVE  IInv'
<1>1. UNCHANGED <<bans, nextId, fw, xmap>>
  BY DEF RestoreList, durable
<1>2. DurableInv' /\ RowsKept
  BY <1>1, IInvDurable, DurableFrame
<1>3. TypeOK'
  <2>1. seen' \in [Procs -> [Ids -> Statuses]]
    BY ProcFacts, SnapshotType DEF IInv, TypeOK, RestoreList
  <2>2. QED
    BY <1>1, <2>1, ProcFacts DEF IInv, TypeOK, RestoreList, Goto, PCs, durable, whitelist, engine
<1>4. HandlesExist'
  BY <1>1, <1>2, ProcFacts, HandlesSnapshot, HandlesForget DEF RestoreList, EnforcedRows
<1>5. TargetsRecorded'
  BY <1>1, ProcFacts DEF IInv, TypeOK, TargetsRecorded, Recorded, RestoreList, Goto, locals
<1>6. CheckStillHolds'
  BY <1>1, ProcFacts DEF IInv, TypeOK, CheckStillHolds, RestoreList, Goto, locals
<1>7. QED
  BY <1>2, <1>3, <1>4, <1>5, <1>6 DEF IInv, DurableInv, TableOK

LEMMA RestoreNextInv ==
    ASSUME IInv, RestoreNext
    PROVE  IInv'
<1>1. UNCHANGED <<bans, nextId, fw, xmap>>
  BY DEF RestoreNext, durable
<1>2. DurableInv' /\ RowsKept
  BY <1>1, IInvDurable, DurableFrame
<1>3. TypeOK'
  <2>1. \E l \in PCs : Return("main", l)
    BY DEF RestoreNext, PCs
  <2>2. QED
    BY <1>1, <2>1, ProcFacts, ReturnType DEF IInv, TypeOK, RestoreNext, durable, whitelist, engine
<1>4. HandlesExist'
  BY <1>1, ProcFacts DEF IInv, TypeOK, HandlesExist, RestoreNext, Return, locals
<1>5. TargetsRecorded'
  BY <1>1, ProcFacts DEF IInv, TypeOK, TargetsRecorded, Recorded, RestoreNext, Return, Goto, locals
<1>6. CheckStillHolds'
  BY <1>1, ProcFacts DEF IInv, TypeOK, CheckStillHolds, RestoreNext, Return, Goto, locals
<1>7. QED
  BY <1>2, <1>3, <1>4, <1>5, <1>6 DEF IInv, DurableInv, TableOK

LEMMA SighupInv ==
    ASSUME IInv, Sighup
    PROVE  IInv'
<1>1. UNCHANGED <<bans, nextId, fw, xmap>>
  BY DEF Sighup, durable
<1>2. DurableInv' /\ RowsKept
  BY <1>1, IInvDurable, DurableFrame
<1>3. TypeOK'
  BY <1>1, ProcFacts, ConstantsAssumption DEF IInv, TypeOK, Sighup, ReloadStatic, Goto, PCs, Ids, durable, whitelist, engine, locals
<1>4. HandlesExist'
  BY <1>1, ProcFacts DEF IInv, TypeOK, HandlesExist, Sighup, locals
<1>5. TargetsRecorded'
  BY <1>1, ProcFacts DEF IInv, TypeOK, TargetsRecorded, Recorded, Sighup, Goto, locals
<1>6. CheckStillHolds'
  BY <1>1, ProcFacts DEF IInv, TypeOK, CheckStillHolds, Sighup, Goto, locals
<1>7. QED
  BY <1>2, <1>3, <1>4, <1>5, <1>6 DEF IInv, DurableInv, TableOK

LEMMA LocalRefreshInv ==
    ASSUME IInv, LocalRefresh
    PROVE  IInv'
<1>1. UNCHANGED <<bans, nextId, fw, xmap>>
  BY DEF LocalRefresh, durable
<1>2. DurableInv' /\ RowsKept
  BY <1>1, IInvDurable, DurableFrame
<1>3. TypeOK'
  BY <1>1, ProcFacts, ConstantsAssumption DEF IInv, TypeOK, LocalRefresh, Goto, PCs, Ids, durable, whitelist, engine, locals
<1>4. HandlesExist'
  BY <1>1, ProcFacts DEF IInv, TypeOK, HandlesExist, LocalRefresh, locals
<1>5. TargetsRecorded'
  BY <1>1, ProcFacts DEF IInv, TypeOK, TargetsRecorded, Recorded, LocalRefresh, Goto, locals
<1>6. CheckStillHolds'
  BY <1>1, ProcFacts DEF IInv, TypeOK, CheckStillHolds, LocalRefresh, Goto, locals
<1>7. QED
  BY <1>2, <1>3, <1>4, <1>5, <1>6 DEF IInv, DurableInv, TableOK

LEMMA ReloadListInv ==
    ASSUME IInv, NEW p \in Procs, ReloadList(p)
    PROVE  IInv'
<1>1. UNCHANGED <<bans, nextId, fw, xmap>>
  BY DEF ReloadList, durable
<1>2. DurableInv' /\ RowsKept
  BY <1>1, IInvDurable, DurableFrame
<1>3. TypeOK'
  <2>1. CASE Return(p, ReloadEnd(p)) /\ UNCHANGED list
    <3>1. ReloadEnd(p) \in PCs
      BY DEF ReloadEnd, PCs
    <3>2. QED
      BY <1>1, <2>1, <3>1, ReturnType DEF IInv, TypeOK, ReloadList, durable, whitelist, engine
  <2>2. CASE list' = [list EXCEPT ![p] = wlDB] /\ Goto(p, "setwl") /\ UNCHANGED <<tgt, cur, net, err>>
    BY <1>1, <2>2 DEF IInv, TypeOK, ReloadList, Goto, PCs, durable, whitelist, engine
  <2>3. QED
    BY <2>1, <2>2 DEF ReloadList, ListWhitelist
<1>4. HandlesExist'
  BY <1>1, ProcFacts DEF IInv, TypeOK, HandlesExist, ReloadList, ReloadEnd, Return, locals
<1>5. TargetsRecorded'
  BY <1>1, ProcFacts DEF IInv, TypeOK, TargetsRecorded, Recorded, ReloadList, ReloadEnd, Return, Goto, locals
<1>6. CheckStillHolds'
  BY <1>1, ProcFacts DEF IInv, TypeOK, CheckStillHolds, ReloadList, ReloadEnd, Return, Goto, locals
<1>7. QED
  BY <1>2, <1>3, <1>4, <1>5, <1>6 DEF IInv, DurableInv, TableOK

LEMMA ReloadSetInv ==
    ASSUME IInv, NEW p \in Procs, ReloadSet(p)
    PROVE  IInv'
<1>1. UNCHANGED <<bans, nextId, fw, xmap>>
  BY DEF ReloadSet, durable
<1>2. DurableInv' /\ RowsKept
  BY <1>1, IInvDurable, DurableFrame
<1>3. TypeOK'
  BY <1>1, ProcFacts, ConstantsAssumption DEF IInv, TypeOK, ReloadSet, ReloadEnd, Return, Goto, PCs, Ids, durable, whitelist, engine, locals
<1>4. HandlesExist'
  BY <1>1, ProcFacts DEF IInv, TypeOK, HandlesExist, ReloadSet, ReloadEnd, Return, locals
<1>5. TargetsRecorded'
  BY <1>1, ProcFacts DEF IInv, TypeOK, TargetsRecorded, Recorded, ReloadSet, ReloadEnd, Return, Goto, locals
<1>6. CheckStillHolds'
  BY <1>1, ProcFacts DEF IInv, TypeOK, CheckStillHolds, ReloadSet, ReloadEnd, Return, Goto, locals
<1>7. QED
  BY <1>2, <1>3, <1>4, <1>5, <1>6 DEF IInv, DurableInv, TableOK

LEMMA ApiCreateInv ==
    ASSUME IInv, NEW t \in ApiThreads, NEW i \in IPs, ApiCreate(t, i)
    PROVE  IInv'
<1>1. UNCHANGED <<bans, nextId, fw, xmap>>
  BY DEF ApiCreate, durable
<1>2. DurableInv' /\ RowsKept
  BY <1>1, IInvDurable, DurableFrame
<1>3. TypeOK'
  BY <1>1, ProcFacts, ConstantsAssumption DEF IInv, TypeOK, ApiCreate, Goto, PCs, Ids, durable, whitelist, engine, locals
<1>4. HandlesExist'
  BY <1>1, ProcFacts DEF IInv, TypeOK, HandlesExist, ApiCreate, locals
<1>5. TargetsRecorded'
  BY <1>1, ProcFacts DEF IInv, TypeOK, TargetsRecorded, Recorded, ApiCreate, Goto, locals
<1>6. CheckStillHolds'
  BY <1>1, ProcFacts DEF IInv, TypeOK, CheckStillHolds, ApiCreate, Goto, locals
<1>7. QED
  BY <1>2, <1>3, <1>4, <1>5, <1>6 DEF IInv, DurableInv, TableOK

LEMMA ApiCheckInv ==
    ASSUME IInv, NEW t \in ApiThreads, ApiCheck(t)
    PROVE  IInv'
<1>1. UNCHANGED <<bans, nextId, fw, xmap>>
  BY DEF ApiCheck, durable
<1>2. DurableInv' /\ RowsKept
  BY <1>1, IInvDurable, DurableFrame
<1>3. TypeOK'
  <2>1. CASE Return(t, "idle")
    BY <1>1, <2>1, ProcFacts, ReturnType DEF IInv, TypeOK, ApiCheck, PCs, durable, whitelist, engine
  <2>2. CASE Goto(t, "insert") /\ UNCHANGED <<tgt, cur, net, err>>
    BY <1>1, <2>2, ProcFacts DEF IInv, TypeOK, ApiCheck, Goto, PCs, durable, whitelist, engine
  <2>3. QED
    BY <2>1, <2>2 DEF ApiCheck
<1>4. HandlesExist'
  BY <1>1, ProcFacts DEF IInv, TypeOK, HandlesExist, ApiCheck, Return, locals
<1>5. TargetsRecorded'
  BY <1>1, ProcFacts DEF IInv, TypeOK, TargetsRecorded, Recorded, ApiCheck, Return, Goto, locals
<1>6. CheckStillHolds'
  BY <1>1, ProcFacts DEF IInv, TypeOK, CheckStillHolds, ApiCheck, Return, Goto, locals
<1>7. QED
  BY <1>2, <1>3, <1>4, <1>5, <1>6 DEF IInv, DurableInv, TableOK

LEMMA ApiDeleteInv ==
    ASSUME IInv, NEW t \in ApiThreads, NEW i \in IPs, ApiDelete(t, i)
    PROVE  IInv'
<1>1. UNCHANGED <<bans, nextId, fw, xmap>>
  BY DEF ApiDelete, durable
<1>2. DurableInv' /\ RowsKept
  BY <1>1, IInvDurable, DurableFrame
<1>3. TypeOK'
  <2>1. seen' \in [Procs -> [Ids -> Statuses]]
    BY ProcFacts, SnapshotType DEF IInv, ApiDelete
  <2>2. QED
    BY <1>1, <2>1, ProcFacts DEF IInv, TypeOK, ApiDelete, Goto, PCs, durable, whitelist, engine
<1>4. HandlesExist'
  BY <1>1, ProcFacts, HandlesSnapshot DEF ApiDelete
<1>5. TargetsRecorded'
  BY <1>1, ProcFacts DEF IInv, TypeOK, TargetsRecorded, Recorded, ApiDelete, Goto, locals
<1>6. CheckStillHolds'
  BY <1>1, ProcFacts DEF IInv, TypeOK, CheckStillHolds, ApiDelete, Goto, locals
<1>7. QED
  BY <1>2, <1>3, <1>4, <1>5, <1>6 DEF IInv, DurableInv, TableOK

LEMMA ApiWhitelistInv ==
    ASSUME IInv, NEW t \in ApiThreads, NEW n \in Nets, ApiWhitelist(t, n)
    PROVE  IInv'
<1>1. UNCHANGED <<bans, nextId, fw, xmap>>
  BY DEF ApiWhitelist, durable
<1>2. DurableInv' /\ RowsKept
  BY <1>1, IInvDurable, DurableFrame
<1>3. TypeOK'
  <2>1. seen' \in [Procs -> [Ids -> Statuses]]
    BY ProcFacts, SnapshotType DEF IInv, ApiWhitelist
  <2>2. net' \in [Procs -> Nets \cup {{}}]
    BY ProcFacts DEF IInv, TypeOK, ApiWhitelist
  <2>3. pc' \in [Procs -> PCs]
    BY ProcFacts DEF IInv, TypeOK, ApiWhitelist, Goto, PCs
  <2>4. QED
    BY <1>1, <2>1, <2>2, <2>3 DEF IInv, TypeOK, ApiWhitelist, durable, whitelist, engine
<1>4. HandlesExist'
  BY <1>1, ProcFacts, HandlesSnapshot DEF ApiWhitelist
<1>5. TargetsRecorded'
  BY <1>1, ProcFacts DEF IInv, TypeOK, TargetsRecorded, Recorded, ApiWhitelist, Goto, locals
<1>6. CheckStillHolds'
  BY <1>1, ProcFacts DEF IInv, TypeOK, CheckStillHolds, ApiWhitelist, Goto, locals
<1>7. QED
  BY <1>2, <1>3, <1>4, <1>5, <1>6 DEF IInv, DurableInv, TableOK

LEMMA ApiClearInv ==
    ASSUME IInv, NEW t \in ApiThreads, NEW id \in Ids, ApiClear(t, id)
    PROVE  IInv'
<1>1. UNCHANGED <<bans, nextId, fw, xmap>>
  BY DEF ApiClear, durable
<1>2. DurableInv' /\ RowsKept
  BY <1>1, IInvDurable, DurableFrame
<1>3. TypeOK'
  <2>1. bans[id].ip \in IPs \cup {NoIP}
    BY DEF IInv, TypeOK, Rows
  <2>2. id \in 0..MaxBans
    BY ConstantsAssumption DEF Ids
  <2>3. QED
    BY <1>1, <2>1, <2>2, ProcFacts DEF IInv, TypeOK, ApiClear, Goto, PCs, durable, whitelist, engine
<1>4. HandlesExist'
  BY <1>1, ProcFacts DEF IInv, TypeOK, HandlesExist, ApiClear, Pending, locals
<1>5. TargetsRecorded'
  BY <1>1, ProcFacts DEF IInv, TypeOK, TargetsRecorded, Recorded, ApiClear, Pending, Goto, locals
<1>6. CheckStillHolds'
  BY <1>1, ProcFacts DEF IInv, TypeOK, CheckStillHolds, ApiClear, Pending, Goto, locals
<1>7. QED
  BY <1>2, <1>3, <1>4, <1>5, <1>6 DEF IInv, DurableInv, TableOK

LEMMA ApiUnbanFailedInv ==
    ASSUME IInv, NEW t \in ApiThreads, ApiUnbanFailed(t)
    PROVE  IInv'
<1>1. UNCHANGED <<bans, nextId, fw, xmap>>
  BY DEF ApiUnbanFailed, durable
<1>2. DurableInv' /\ RowsKept
  BY <1>1, IInvDurable, DurableFrame
<1>3. TypeOK'
  <2>1. seen' \in [Procs -> [Ids -> Statuses]]
    BY ProcFacts, ForgetType DEF IInv, ApiUnbanFailed
  <2>2. QED
    BY <1>1, <2>1, ProcFacts, ReturnType DEF IInv, TypeOK, ApiUnbanFailed, PCs, durable, whitelist, engine
<1>4. HandlesExist'
  BY <1>2, ProcFacts, HandlesForget DEF ApiUnbanFailed, Return
<1>5. TargetsRecorded'
  BY <1>1, ProcFacts DEF IInv, TypeOK, TargetsRecorded, Recorded, ApiUnbanFailed, Return, Goto, locals
<1>6. CheckStillHolds'
  BY <1>1, ProcFacts DEF IInv, TypeOK, CheckStillHolds, ApiUnbanFailed, Return, Goto, locals
<1>7. QED
  BY <1>2, <1>3, <1>4, <1>5, <1>6 DEF IInv, DurableInv, TableOK

LEMMA ApiAddWhitelistInv ==
    ASSUME IInv, NEW t \in ApiThreads, ApiAddWhitelist(t)
    PROVE  IInv'
<1>1. UNCHANGED <<bans, nextId, fw, xmap>>
  BY DEF ApiAddWhitelist, durable
<1>2. DurableInv' /\ RowsKept
  BY <1>1, IInvDurable, DurableFrame
<1>3. TypeOK'
  <2>1. CASE Return(t, "idle") /\ UNCHANGED wlDB
    BY <1>1, <2>1, ProcFacts, ReturnType DEF IInv, TypeOK, ApiAddWhitelist, PCs, whitelist, engine
  <2>2. CASE wlDB' = wlDB \cup {net[t]} /\ Goto(t, "reload") /\ UNCHANGED <<tgt, cur, net, err>>
    <3>1. net[t] \in Nets
      BY ProcFacts DEF IInv, TargetsRecorded, ApiAddWhitelist
    <3>2. QED
      BY <1>1, <2>2, <3>1, ProcFacts DEF IInv, TypeOK, ApiAddWhitelist, Goto, PCs, whitelist, engine
  <2>3. QED
    BY <2>1, <2>2 DEF ApiAddWhitelist, AddWhitelist
<1>4. HandlesExist'
  BY <1>1, ProcFacts DEF IInv, TypeOK, HandlesExist, ApiAddWhitelist, Return, locals
<1>5. TargetsRecorded'
  <2>1. /\ pc'[t] \in {"idle", "reload"}
        /\ \A q \in Procs : q # t => pc'[q] = pc[q] /\ tgt'[q] = tgt[q] /\ net'[q] = net[q]
    BY ProcFacts DEF IInv, TypeOK, ApiAddWhitelist, Return, Goto
  <2>2. \A q \in Procs : Recorded(tgt[q]) => Recorded(tgt[q])' \/ tgt'[q] # tgt[q]
    BY <1>1 DEF Recorded
  <2>3. QED
    BY <2>1, <2>2, ProcFacts DEF IInv, TargetsRecorded
<1>6. CheckStillHolds'
  BY <1>1, ProcFacts DEF IInv, TypeOK, CheckStillHolds, ApiAddWhitelist, Return, Goto, locals
<1>7. QED
  BY <1>2, <1>3, <1>4, <1>5, <1>6 DEF IInv, DurableInv, TableOK

LEMMA ApiUnwhitelistInv ==
    ASSUME IInv, NEW t \in ApiThreads, NEW n \in Nets, ApiUnwhitelist(t, n)
    PROVE  IInv'
<1>1. UNCHANGED <<bans, nextId, fw, xmap>>
  BY DEF ApiUnwhitelist, durable
<1>2. DurableInv' /\ RowsKept
  BY <1>1, IInvDurable, DurableFrame
<1>3. TypeOK'
  BY <1>1, ProcFacts, ConstantsAssumption DEF IInv, TypeOK, ApiUnwhitelist, RemoveWhitelist, Goto, PCs, Ids, durable, whitelist, engine, locals
<1>4. HandlesExist'
  BY <1>1, ProcFacts DEF IInv, TypeOK, HandlesExist, ApiUnwhitelist, locals
<1>5. TargetsRecorded'
  BY <1>1, ProcFacts DEF IInv, TypeOK, TargetsRecorded, Recorded, ApiUnwhitelist, Goto, locals
<1>6. CheckStillHolds'
  BY <1>1, ProcFacts DEF IInv, TypeOK, CheckStillHolds, ApiUnwhitelist, Goto, locals
<1>7. QED
  BY <1>2, <1>3, <1>4, <1>5, <1>6 DEF IInv, DurableInv, TableOK

LEMMA ApiDetachInv ==
    ASSUME IInv, ApiDetach
    PROVE  IInv'
<1>1. UNCHANGED <<bans, nextId, fw, xmap>>
  BY DEF ApiDetach, CloseXdp
<1>2. DurableInv' /\ RowsKept
  BY <1>1, IInvDurable, DurableFrame
<1>3. TypeOK'
  BY <1>1, ProcFacts, ConstantsAssumption DEF IInv, TypeOK, ApiDetach, CloseXdp, Goto, PCs, Ids, durable, whitelist, engine, locals
<1>4. HandlesExist'
  BY <1>1, ProcFacts DEF IInv, TypeOK, HandlesExist, ApiDetach, locals
<1>5. TargetsRecorded'
  BY <1>1, ProcFacts DEF IInv, TypeOK, TargetsRecorded, Recorded, ApiDetach, Goto, locals
<1>6. CheckStillHolds'
  BY <1>1, ProcFacts DEF IInv, TypeOK, CheckStillHolds, ApiDetach, Goto, locals
<1>7. QED
  BY <1>2, <1>3, <1>4, <1>5, <1>6 DEF IInv, DurableInv, TableOK

----------------------------------------------------------------------------
(* Frames for the steps that write the table or the kernel state.           *)

LEMMA TableStep ==
    ASSUME DurableInv, TableOK', RowsKept, NoNewAuto, fw' \subseteq fw, xmap' \subseteq xmap
    PROVE  DurableInv'
BY AutoStaysSingle, DropsRecorded DEF DurableInv

LEMMA DropStep ==
    ASSUME DurableInv, UNCHANGED <<bans, nextId>>, NEW i \in IPs, Recorded(i),
           fw' \subseteq fw \cup {i}, xmap' \subseteq xmap \cup {i}
    PROVE  DurableInv' /\ RowsKept /\ NoNewAuto
<1>1. TableOK' /\ RowsKept /\ NoNewAuto
  BY TableFrame DEF DurableInv
<1>2. fw' \cup xmap' \subseteq IPs
  BY DEF DurableInv
<1>3. \A j \in fw' \cup xmap' : Recorded(j)'
  BY <1>1, StillRecorded DEF DurableInv, RecordedBeforeDropped, Recorded
<1>4. QED
  BY <1>1, <1>2, <1>3, AutoStaysSingle DEF DurableInv, RecordedBeforeDropped, Recorded

LEMMA HandlesTake ==
    ASSUME IInv, RowsKept, NEW p \in Procs, NEW id \in Ids, bans'[id].status # "none",
           seen' = seen \/ \E k \in Nat : seen' = Visited(p, k),
           cur' = [cur EXCEPT ![p] = id]
    PROVE  HandlesExist'
<1>1. \A q \in Procs, k \in Ids : seen'[q][k] # "none" => seen[q][k] # "none"
  BY DEF IInv, TypeOK, Visited
<1>2. \A q \in Procs : cur'[q] = id \/ (cur'[q] = cur[q] /\ cur[q] \in 0..MaxBans)
  BY DEF IInv, TypeOK
<1>3. \A q \in Procs : cur[q] # 0 /\ cur[q] \in 0..MaxBans => cur[q] \in Ids
  BY ConstantsAssumption DEF Ids
<1>4. QED
  BY <1>1, <1>2, <1>3, ProcFacts DEF IInv, HandlesExist, RowsKept

LEMMA TargetsKept ==
    ASSUME IInv, RowsKept, NEW p \in Procs,
           \A q \in Procs : q # p => pc'[q] = pc[q] /\ tgt'[q] = tgt[q] /\ net'[q] = net[q],
           pc'[p] \in {"eval", "insert"} => tgt'[p] \in IPs,
           pc'[p] \in {"ban", "banX"} => tgt'[p] \in IPs /\ Recorded(tgt[p])',
           pc'[p] = "addwl" => net'[p] \in Nets
    PROVE  TargetsRecorded'
<1>1. \A q \in Procs : q # p /\ pc'[q] \in {"ban", "banX"} => Recorded(tgt[q])'
  <2> SUFFICES ASSUME NEW q \in Procs, q # p, pc'[q] \in {"ban", "banX"}
               PROVE  Recorded(tgt[q])'
    OBVIOUS
  <2>1. tgt[q] \in IPs /\ Recorded(tgt[q]) /\ tgt'[q] = tgt[q]
    BY DEF IInv, TargetsRecorded
  <2>2. QED
    BY <2>1, StillRecorded DEF Recorded
<1>2. QED
  BY <1>1 DEF IInv, TargetsRecorded

LEMMA CheckKept ==
    ASSUME IInv, NoNewAuto,
           pc'["pipe"] = "insert" => pc["pipe"] = "insert" /\ tgt'["pipe"] = tgt["pipe"]
    PROVE  CheckStillHolds'
BY DEF IInv, CheckStillHolds, NoNewAuto

LEMMA CombineInv ==
    ASSUME DurableInv', TypeOK', HandlesExist', TargetsRecorded', CheckStillHolds'
    PROVE  IInv'
BY DEF IInv, DurableInv, TableOK

----------------------------------------------------------------------------
(* Enforcer calls: the address dropped is on record.                        *)

LEMMA BanBaseInv ==
    ASSUME IInv, NEW p \in Procs, BanBase(p)
    PROVE  IInv'
<1>1. tgt[p] \in IPs /\ Recorded(tgt[p])
  BY DEF IInv, TargetsRecorded, BanBase
<1>2. UNCHANGED <<bans, nextId, xmap>> /\ fw' \subseteq fw \cup {tgt[p]}
  BY DEF BanBase
<1>3. DurableInv' /\ RowsKept /\ NoNewAuto
  BY <1>1, <1>2, IInvDurable, DropStep
<1>4. TypeOK'
  <2>1. err' \in [Procs -> BOOLEAN]
    BY ErrType DEF IInv, TypeOK, BanBase
  <2>2. pc' \in [Procs -> PCs]
    BY DEF IInv, TypeOK, BanBase, Goto, PCs
  <2>3. QED
    BY <1>1, <1>2, <2>1, <2>2 DEF IInv, TypeOK, BanBase, whitelist, engine
<1>5. HandlesExist'
  BY <1>3, HandlesForget DEF BanBase
<1>6. TargetsRecorded'
  <2>1. Recorded(tgt[p])'
    BY <1>1, <1>3, StillRecorded DEF Recorded, BanBase
  <2>2. QED
    BY <1>1, <1>3, <2>1, TargetsKept DEF IInv, TypeOK, BanBase, Goto
<1>7. CheckStillHolds'
  BY <1>3, CheckKept, ProcFacts DEF IInv, TypeOK, BanBase, Goto
<1>8. QED
  BY <1>3, <1>4, <1>5, <1>6, <1>7, CombineInv

LEMMA BanXdpInv ==
    ASSUME IInv, NEW p \in Procs, BanXdp(p)
    PROVE  IInv'
<1>1. tgt[p] \in IPs /\ Recorded(tgt[p])
  BY DEF IInv, TargetsRecorded, BanXdp
<1>2. UNCHANGED <<bans, nextId, fw>> /\ xmap' \subseteq xmap \cup {tgt[p]}
  BY DEF BanXdp
<1>3. DurableInv' /\ RowsKept /\ NoNewAuto
  BY <1>1, <1>2, IInvDurable, DropStep
<1>4. TypeOK'
  <2>1. err' \in [Procs -> BOOLEAN]
    BY ErrType DEF IInv, TypeOK, BanXdp
  <2>2. pc' \in [Procs -> PCs]
    BY DEF IInv, TypeOK, BanXdp, Goto, PCs
  <2>3. QED
    BY <1>1, <1>2, <2>1, <2>2 DEF IInv, TypeOK, BanXdp, whitelist, engine
<1>5. HandlesExist'
  BY <1>3, HandlesForget DEF BanXdp
<1>6. TargetsRecorded'
  BY <1>3, TargetsKept DEF IInv, TypeOK, BanXdp, Goto
<1>7. CheckStillHolds'
  BY <1>3, CheckKept, ProcFacts DEF IInv, TypeOK, BanXdp, Goto
<1>8. QED
  BY <1>3, <1>4, <1>5, <1>6, <1>7, CombineInv

LEMMA UnbanBaseInv ==
    ASSUME IInv, NEW p \in Procs, UnbanBase(p)
    PROVE  IInv'
<1>1. UNCHANGED <<bans, nextId, xmap>> /\ fw' \subseteq fw
  BY DEF UnbanBase
<1>2. TableOK' /\ RowsKept /\ NoNewAuto
  BY <1>1, IInvDurable, TableFrame DEF DurableInv
<1>3. DurableInv'
  BY <1>1, <1>2, IInvDurable, TableStep
<1>4. TypeOK'
  <2>1. err' \in [Procs -> BOOLEAN]
    BY ErrType DEF IInv, TypeOK, UnbanBase
  <2>2. pc' \in [Procs -> PCs]
    BY DEF IInv, TypeOK, UnbanBase, Goto, PCs
  <2>3. QED
    BY <1>1, <2>1, <2>2 DEF IInv, TypeOK, UnbanBase, whitelist, engine
<1>5. HandlesExist'
  BY <1>2, HandlesForget DEF UnbanBase
<1>6. TargetsRecorded'
  BY <1>2, TargetsKept DEF IInv, TypeOK, UnbanBase, Goto
<1>7. CheckStillHolds'
  BY <1>2, CheckKept, ProcFacts DEF IInv, TypeOK, UnbanBase, Goto
<1>8. QED
  BY <1>3, <1>4, <1>5, <1>6, <1>7, CombineInv

LEMMA UnbanXdpInv ==
    ASSUME IInv, NEW p \in Procs, UnbanXdp(p)
    PROVE  IInv'
<1>1. UNCHANGED <<bans, nextId, fw>> /\ xmap' \subseteq xmap
  BY DEF UnbanXdp
<1>2. TableOK' /\ RowsKept /\ NoNewAuto
  BY <1>1, IInvDurable, TableFrame DEF DurableInv
<1>3. DurableInv'
  BY <1>1, <1>2, IInvDurable, TableStep
<1>4. TypeOK'
  <2>1. err' \in [Procs -> BOOLEAN]
    BY ErrType DEF IInv, TypeOK, UnbanXdp
  <2>2. pc' \in [Procs -> PCs]
    BY DEF IInv, TypeOK, UnbanXdp, Goto, PCs
  <2>3. QED
    BY <1>1, <2>1, <2>2 DEF IInv, TypeOK, UnbanXdp, whitelist, engine
<1>5. HandlesExist'
  BY <1>2, HandlesForget DEF UnbanXdp
<1>6. TargetsRecorded'
  BY <1>2, TargetsKept DEF IInv, TypeOK, UnbanXdp, Goto
<1>7. CheckStillHolds'
  BY <1>2, CheckKept, ProcFacts DEF IInv, TypeOK, UnbanXdp, Goto
<1>8. QED
  BY <1>3, <1>4, <1>5, <1>6, <1>7, CombineInv

LEMMA RecDelInv ==
    ASSUME IInv, NEW p \in {"main", "maint"}, RecDel(p)
    PROVE  IInv'
<1>p. p \in Procs
  BY ProcFacts
<1>1. UNCHANGED <<bans, nextId, fw>> /\ xmap' \subseteq xmap
  BY DEF RecDel
<1>2. TableOK' /\ RowsKept /\ NoNewAuto
  BY <1>1, IInvDurable, TableFrame DEF DurableInv
<1>3. DurableInv'
  BY <1>1, <1>2, IInvDurable, TableStep
<1>4. TypeOK'
  <2>1. ips' \in [Procs -> SUBSET IPs]
    BY <1>p DEF IInv, TypeOK, RecDel
  <2>2. pc' \in [Procs -> PCs]
    BY <1>p DEF IInv, TypeOK, RecDel, RecEnd, Goto, PCs
  <2>3. QED
    BY <1>1, <2>1, <2>2 DEF IInv, TypeOK, RecDel, whitelist, engine
<1>5. HandlesExist'
  BY <1>p, <1>2, HandlesForget DEF RecDel
<1>6. TargetsRecorded'
  <2>1. pc' = pc \/ pc' = [pc EXCEPT ![p] = RecEnd(p)]
    BY DEF RecDel, Goto
  <2>2. pc[p] = "recdel" /\ UNCHANGED <<tgt, net>>
    BY DEF RecDel
  <2>3. RecEnd(p) \in {"restore", "idle"}
    BY DEF RecEnd
  <2>4. pc'[p] \in {"recdel", "restore", "idle"} /\ \A q \in Procs : q # p => pc'[q] = pc[q]
    BY <1>p, <2>1, <2>2, <2>3 DEF IInv, TypeOK
  <2>5. QED
    BY <1>p, <1>2, <2>2, <2>4, TargetsKept
<1>7. CheckStillHolds'
  BY <1>p, <1>2, CheckKept, ProcFacts DEF IInv, TypeOK, RecDel, Goto
<1>8. QED
  BY <1>3, <1>4, <1>5, <1>6, <1>7, CombineInv

----------------------------------------------------------------------------
(* Steps that close or age a row.                                           *)

(* Closing through a goroutine's row handle, which may be empty (0).        *)
LEMMA CloseCurrent ==
    ASSUME IInv, NEW p \in Procs, UpdateBanStatus(cur[p]), UNCHANGED nextId
    PROVE  TableOK' /\ RowsKept /\ NoNewAuto
<1>1. TableOK
  BY IInvDurable DEF DurableInv
<1>2. CASE cur[p] \in Ids
  <2>1. bans[cur[p]].status # "none"
    BY <1>2, ConstantsAssumption DEF IInv, HandlesExist, Ids
  <2>2. QED
    BY <1>1, <1>2, <2>1, TableClose
<1>3. CASE cur[p] \notin Ids
  <2>1. bans' = bans
    BY <1>1, <1>3 DEF UpdateBanStatus, TableOK
  <2>2. QED
    BY <1>1, <2>1, TableFrame
<1>4. QED
  BY <1>2, <1>3

LEMMA ExpMarkInv ==
    ASSUME IInv, NEW id \in Ids, ExpMark(id)
    PROVE  IInv'
<1>1. bans[id].status # "none" /\ UNCHANGED <<nextId, fw, xmap>> /\ id \in Nat
  BY ProcFacts DEF IInv, HandlesExist, ExpMark, Pending, Ids
<1>2. TableOK' /\ RowsKept /\ NoNewAuto
  BY <1>1, IInvDurable, TableClose DEF DurableInv, ExpMark
<1>3. DurableInv'
  BY <1>1, <1>2, IInvDurable, TableStep
<1>a. CASE seen["exp"][id] = "dry_run"
  <2>1. /\ seen' = Visited("exp", id) /\ UNCHANGED <<tgt, cur, net>>
        /\ \E S : Goto("exp", NextScan(S))
    BY <1>a DEF ExpMark
  <2>2. \A S : NextScan(S) \in {"idle", "scan"}
    BY DEF NextScan
  <2>3. /\ pc'["exp"] \in {"idle", "scan"} /\ pc' \in [Procs -> PCs]
        /\ \A q \in Procs : q # "exp" => pc'[q] = pc[q]
    BY <2>1, <2>2, ProcFacts DEF IInv, TypeOK, Goto, PCs
  <2>4. seen' \in [Procs -> [Ids -> Statuses]]
    BY <1>1, <2>1, ProcFacts, ForgetType DEF IInv
  <2>5. TypeOK'
    BY <1>1, <1>2, <2>1, <2>3, <2>4 DEF IInv, TypeOK, TableOK, ExpMark, whitelist, engine
  <2>6. HandlesExist'
    BY <1>1, <1>2, <2>1, ProcFacts, HandlesForget
  <2>7. TargetsRecorded'
    BY <1>2, <2>1, <2>3, ProcFacts, TargetsKept
  <2>8. CheckStillHolds'
    BY <1>2, <2>1, <2>3, ProcFacts, CheckKept
  <2>9. QED
    BY <1>3, <2>5, <2>6, <2>7, <2>8, CombineInv
<1>b. CASE seen["exp"][id] # "dry_run"
  <2>1. /\ Goto("exp", "unban") /\ UNCHANGED <<seen, net>>
        /\ cur' = [cur EXCEPT !["exp"] = id]
        /\ tgt' = [tgt EXCEPT !["exp"] = bans[id].ip]
    BY <1>b DEF ExpMark
  <2>2. bans[id].ip \in IPs \cup {NoIP} /\ id \in 0..MaxBans
    BY ConstantsAssumption DEF IInv, TypeOK, Rows, Ids
  <2>3. /\ pc'["exp"] = "unban" /\ pc' \in [Procs -> PCs]
        /\ \A q \in Procs : q # "exp" => pc'[q] = pc[q] /\ tgt'[q] = tgt[q]
    BY <2>1, ProcFacts DEF IInv, TypeOK, Goto, PCs
  <2>4. TypeOK'
    BY <1>1, <1>2, <2>1, <2>2, <2>3, ProcFacts DEF IInv, TypeOK, TableOK, ExpMark, whitelist, engine
  <2>5. HandlesExist'
    <3>1. bans'[id].status # "none"
      BY <1>1, <1>2 DEF RowsKept
    <3>2. QED
      BY <1>2, <2>1, <3>1, ProcFacts, HandlesTake
  <2>6. TargetsRecorded'
    BY <1>2, <2>1, <2>3, ProcFacts, TargetsKept
  <2>7. CheckStillHolds'
    BY <1>2, <2>3, ProcFacts, CheckKept
  <2>8. QED
    BY <1>3, <2>4, <2>5, <2>6, <2>7, CombineInv
<1>4. QED
  BY <1>a, <1>b

LEMMA FallDueInv ==
    ASSUME IInv, NEW id \in Ids, FallDue(id)
    PROVE  IInv'
<1>1. bans[id].status # "none" /\ UNCHANGED <<nextId, fw, xmap, pc, locals>>
  BY DEF FallDue, CurrentStatus
<1>2. TableOK' /\ RowsKept /\ NoNewAuto
  BY <1>1, IInvDurable, TableDue DEF DurableInv, FallDue
<1>3. DurableInv'
  BY <1>1, <1>2, IInvDurable, TableStep
<1>4. TypeOK'
  BY <1>1, <1>2 DEF IInv, TypeOK, TableOK, FallDue, whitelist, engine, locals
<1>5. HandlesExist'
  BY <1>1, <1>2, ProcFacts, HandlesForget DEF locals
<1>6. TargetsRecorded'
  <2>1. \A i \in IPs : Recorded(i) => Recorded(i)'
    BY <1>2, StillRecorded
  <2>2. QED
    BY <1>1, <2>1 DEF IInv, TargetsRecorded, Recorded, locals
<1>7. CheckStillHolds'
  BY <1>1, <1>2, CheckKept DEF locals
<1>8. QED
  BY <1>3, <1>4, <1>5, <1>6, <1>7, CombineInv

LEMMA ApiBannedInv ==
    ASSUME IInv, NEW t \in ApiThreads, ApiBanned(t)
    PROVE  IInv'
<1>1. t \in Procs /\ UNCHANGED <<nextId, fw, xmap, seen>> /\ Return(t, "idle")
  BY ProcFacts DEF ApiBanned
<1>2. TableOK' /\ RowsKept /\ NoNewAuto
  <2>1. CASE err[t]
    BY <1>1, <2>1, CloseCurrent DEF ApiBanned
  <2>2. CASE ~err[t]
    BY <1>1, <2>2, IInvDurable, TableFrame DEF ApiBanned, DurableInv
  <2>3. QED
    BY <2>1, <2>2
<1>3. DurableInv'
  BY <1>1, <1>2, IInvDurable, TableStep
<1>4. TypeOK'
  BY <1>1, <1>2, ReturnType DEF IInv, TypeOK, TableOK, ApiBanned, PCs, whitelist, engine
<1>5. HandlesExist'
  BY <1>1, <1>2, HandlesForget DEF Return
<1>6. TargetsRecorded'
  BY <1>1, <1>2, TargetsKept DEF IInv, TypeOK, Return, Goto
<1>7. CheckStillHolds'
  BY <1>1, <1>2, CheckKept, ProcFacts DEF IInv, TypeOK, Return, Goto
<1>8. QED
  BY <1>3, <1>4, <1>5, <1>6, <1>7, CombineInv

LEMMA ApiExpireInv ==
    ASSUME IInv, NEW t \in ApiThreads, ApiExpire(t)
    PROVE  IInv'
<1>1. t \in Procs /\ UNCHANGED <<nextId, fw, xmap>> /\ cur[t] \in Nat
  BY ProcFacts, ConstantsAssumption DEF IInv, TypeOK, ApiExpire
<1>2. TableOK' /\ RowsKept /\ NoNewAuto
  <2>1. UpdateBanStatus(cur[t])
    BY DEF ApiExpire, UpdateBanStatus
  <2>2. QED
    BY <1>1, <2>1, CloseCurrent
<1>3. DurableInv'
  BY <1>1, <1>2, IInvDurable, TableStep
<1>4. seen' = Visited(t, cur[t]) \/ seen' = [seen EXCEPT ![t] = NothingSeen]
  BY DEF ApiExpire
<1>5. \/ Return(t, "idle")
      \/ Goto(t, "clear") /\ UNCHANGED <<tgt, cur, net, err>>
      \/ Goto(t, "addwl") /\ net[t] # {} /\ UNCHANGED <<tgt, cur, net, err>>
  BY DEF ApiExpire
<1>6. TypeOK'
  <2>1. seen' \in [Procs -> [Ids -> Statuses]]
    <3>1. /\ Visited(t, cur[t]) \in [Procs -> [Ids -> Statuses]]
          /\ [seen EXCEPT ![t] = NothingSeen] \in [Procs -> [Ids -> Statuses]]
      BY <1>1, ForgetType DEF IInv
    <3>2. QED
      BY <1>4, <3>1
  <2>2. /\ pc' \in [Procs -> PCs] /\ tgt' \in [Procs -> IPs \cup {NoIP}]
        /\ cur' \in [Procs -> 0..MaxBans] /\ net' \in [Procs -> Nets \cup {{}}]
        /\ err' \in [Procs -> BOOLEAN]
    <3>1. CASE Return(t, "idle")
      BY <1>1, <3>1, ReturnType DEF IInv, PCs
    <3>2. CASE (Goto(t, "clear") \/ Goto(t, "addwl")) /\ UNCHANGED <<tgt, cur, net, err>>
      BY <1>1, <3>2, GotoType DEF IInv, TypeOK, PCs
    <3>3. QED
      BY <1>5, <3>1, <3>2
  <2>3. QED
    BY <1>1, <1>2, <2>1, <2>2 DEF IInv, TypeOK, TableOK, ApiExpire, whitelist, engine
<1>7. HandlesExist'
  <2>1. cur' = cur \/ cur' = [cur EXCEPT ![t] = 0]
    BY <1>5 DEF Return
  <2>2. QED
    BY <1>1, <1>2, <1>4, <2>1, HandlesForget
<1>8. /\ \A q \in Procs : q # t => pc'[q] = pc[q] /\ tgt'[q] = tgt[q] /\ net'[q] = net[q]
      /\ pc'[t] \in {"idle", "clear"} \/ (pc'[t] = "addwl" /\ net'[t] \in Nets)
  BY <1>1, <1>5 DEF IInv, TypeOK, Return, Goto
<1>9. TargetsRecorded'
  BY <1>1, <1>2, <1>8, TargetsKept
<1>10. CheckStillHolds'
  BY <1>2, <1>8, CheckKept, ProcFacts
<1>11. QED
  BY <1>3, <1>6, <1>7, <1>9, <1>10, CombineInv

LEMMA RestoreRowInv ==
    ASSUME IInv, NEW id \in Ids, RestoreRow(id)
    PROVE  IInv'
<1>1. /\ bans[id].status # "none" /\ bans[id].ip \in IPs /\ id \in Nat
      /\ bans[id].status \notin Shadow
      /\ UNCHANGED <<nextId, fw, xmap, net>> /\ seen' = Visited("main", id)
  BY ProcFacts DEF IInv, HandlesExist, RowsDense, RestoreRow, Pending, Ids
<1>2. seen' \in [Procs -> [Ids -> Statuses]]
  BY <1>1, ProcFacts, ForgetType DEF IInv
<1>a. CASE Contains(bans[id].ip)
  <2>1. UpdateBanStatus(id) /\ UNCHANGED <<pc, tgt, cur>> /\ pc["main"] = "restoring"
    BY <1>a DEF RestoreRow
  <2>2. TableOK' /\ RowsKept /\ NoNewAuto
    BY <1>1, <2>1, IInvDurable, TableClose DEF DurableInv
  <2>3. DurableInv'
    BY <1>1, <2>2, IInvDurable, TableStep
  <2>4. TypeOK'
    BY <1>1, <1>2, <2>1, <2>2 DEF IInv, TypeOK, TableOK, RestoreRow, whitelist, engine
  <2>5. HandlesExist'
    BY <1>1, <2>1, <2>2, ProcFacts, HandlesForget
  <2>6. TargetsRecorded'
    BY <1>1, <2>1, <2>2, ProcFacts, TargetsKept
  <2>7. CheckStillHolds'
    BY <2>1, <2>2, CheckKept
  <2>8. QED
    BY <2>3, <2>4, <2>5, <2>6, <2>7, CombineInv
<1>b. CASE ~Contains(bans[id].ip)
  <2>1. /\ Goto("main", "ban") /\ UNCHANGED bans
        /\ tgt' = [tgt EXCEPT !["main"] = bans[id].ip]
        /\ cur' = [cur EXCEPT !["main"] = id]
    BY <1>b DEF RestoreRow
  <2>2. TableOK' /\ RowsKept /\ NoNewAuto
    BY <1>1, <2>1, IInvDurable, TableFrame DEF DurableInv
  <2>3. DurableInv'
    BY <1>1, <2>2, IInvDurable, TableStep
  <2>4. /\ pc'["main"] = "ban" /\ tgt'["main"] = bans[id].ip /\ pc' \in [Procs -> PCs]
        /\ \A q \in Procs : q # "main" => pc'[q] = pc[q] /\ tgt'[q] = tgt[q]
    BY <2>1, ProcFacts DEF IInv, TypeOK, Goto, PCs
  <2>5. TypeOK'
    <3>1. id \in 0..MaxBans
      BY ConstantsAssumption DEF Ids
    <3>2. QED
      BY <1>1, <1>2, <2>1, <2>4, <3>1, ProcFacts DEF IInv, TypeOK, RestoreRow, whitelist, engine
  <2>6. HandlesExist'
    BY <1>1, <2>1, <2>2, ProcFacts, HandlesTake
  <2>7. Recorded(tgt["main"])'
    BY <1>1, <2>1, <2>4 DEF Recorded
  <2>8. TargetsRecorded'
    BY <1>1, <2>2, <2>4, <2>7, ProcFacts, TargetsKept
  <2>9. CheckStillHolds'
    BY <2>2, <2>4, ProcFacts, CheckKept
  <2>10. QED
    BY <2>3, <2>5, <2>6, <2>8, <2>9, CombineInv
<1>3. QED
  BY <1>a, <1>b

----------------------------------------------------------------------------
(* Steps that open a row.                                                   *)

LEMMA ManualInsert ==
    ASSUME IInv, NEW i \in IPs, NEW e \in {"never", "later"}, CreateBan(i, "manual", e)
    PROVE  TableOK' /\ RowsKept /\ NoNewAuto
<1>1. "manual" \in CurrentStatus /\ "manual" \notin AutoStatus
  BY DEF CurrentStatus, AutoStatus
<1>2. /\ TableOK' /\ RowsKept
      /\ \A k \in Ids : k # nextId => bans'[k] = bans[k]
      /\ bans'[nextId].status = "manual"
  BY <1>1, IInvDurable, TableInsert DEF DurableInv
<1>3. QED
  BY <1>1, <1>2 DEF NoNewAuto

LEMMA ApiInsertInv ==
    ASSUME IInv, NEW t \in ApiThreads, ApiInsert(t)
    PROVE  IInv'
<1>1. t \in Procs /\ UNCHANGED <<fw, xmap, seen>> /\ tgt[t] \in IPs
  BY ProcFacts DEF IInv, TargetsRecorded, ApiInsert
<1>a. CASE UNCHANGED <<bans, nextId>> /\ Return(t, "idle")
  <2>1. TableOK' /\ RowsKept /\ NoNewAuto
    BY <1>a, IInvDurable, TableFrame DEF DurableInv
  <2>2. DurableInv'
    BY <1>1, <2>1, IInvDurable, TableStep
  <2>3. TypeOK'
    BY <1>1, <1>a, <2>1, ReturnType DEF IInv, TypeOK, ApiInsert, PCs, whitelist, engine
  <2>4. HandlesExist'
    BY <1>1, <1>a, <2>1, HandlesForget DEF Return
  <2>5. TargetsRecorded'
    BY <1>1, <1>a, <2>1, TargetsKept DEF IInv, TypeOK, Return, Goto
  <2>6. CheckStillHolds'
    BY <1>1, <1>a, <2>1, CheckKept, ProcFacts DEF IInv, TypeOK, Return, Goto
  <2>7. QED
    BY <2>2, <2>3, <2>4, <2>5, <2>6, CombineInv
<1>b. CASE \E e \in {"never", "later"} :
             /\ CreateBan(tgt[t], "manual", e) /\ Goto(t, "ban")
             /\ cur' = [cur EXCEPT ![t] = nextId] /\ UNCHANGED <<tgt, net, err>>
  <2>1. PICK e \in {"never", "later"} : CreateBan(tgt[t], "manual", e)
    BY <1>b
  <2>2. TableOK' /\ RowsKept /\ NoNewAuto
    BY <1>1, <2>1, ManualInsert
  <2>3. DurableInv'
    BY <1>1, <2>2, IInvDurable, TableStep
  <2>4. nextId \in Ids /\ bans'[nextId].status = "manual" /\ bans'[nextId].ip = tgt[t]
    <3>1. "manual" \in CurrentStatus
      BY DEF CurrentStatus
    <3>2. QED
      BY <1>1, <2>1, <3>1, IInvDurable, TableInsert DEF DurableInv
  <2>5. nextId \in 0..MaxBans
    BY <2>4, ConstantsAssumption DEF Ids
  <2>6. /\ pc'[t] = "ban" /\ pc' \in [Procs -> PCs]
        /\ \A q \in Procs : q # t => pc'[q] = pc[q]
    BY <1>1, <1>b DEF IInv, TypeOK, Goto, PCs
  <2>7. TypeOK'
    BY <1>1, <1>b, <2>2, <2>5, <2>6 DEF IInv, TypeOK, TableOK, ApiInsert, whitelist, engine
  <2>8. HandlesExist'
    BY <1>1, <1>b, <2>2, <2>4, HandlesTake
  <2>9. Recorded(tgt[t])'
    BY <1>b, <2>4 DEF Recorded, Shadow
  <2>10. TargetsRecorded'
    BY <1>1, <1>b, <2>2, <2>6, <2>9, TargetsKept
  <2>11. CheckStillHolds'
    BY <1>b, <2>2, <2>6, CheckKept, ProcFacts
  <2>12. QED
    BY <2>3, <2>7, <2>8, <2>10, <2>11, CombineInv
<1>2. QED
  BY <1>a, <1>b DEF ApiInsert

(* The check made before the insert still holds, so the ban stays single.   *)
LEMMA AutoInsert ==
    ASSUME IInv, pc["pipe"] = "insert", UNCHANGED <<fw, xmap>>,
           NEW s \in AutoStatus, NEW e \in {"never", "later"}, CreateBan(tgt["pipe"], s, e)
    PROVE  /\ DurableInv' /\ TableOK' /\ RowsKept /\ nextId \in Ids
           /\ bans'[nextId].status = s /\ s # "none" /\ bans'[nextId].ip = tgt["pipe"]
<1>1. tgt["pipe"] \in IPs /\ s \in CurrentStatus
  BY ProcFacts DEF IInv, TargetsRecorded, AutoStatus, CurrentStatus
<1>2. /\ TableOK' /\ RowsKept /\ nextId \in Ids
      /\ \A k \in Ids : k # nextId => bans'[k] = bans[k]
      /\ bans'[nextId].ip = tgt["pipe"] /\ bans'[nextId].status = s /\ s # "none"
  BY <1>1, IInvDurable, TableInsert DEF DurableInv
<1>3. SingleAutoBan'
  <2>1. \A k \in Ids : bans[k].ip = tgt["pipe"] => bans[k].status \notin AutoStatus
    BY DEF IInv, CheckStillHolds
  <2>2. QED
    BY <1>2, <2>1 DEF IInv, SingleAutoBan
<1>4. RecordedBeforeDropped'
  BY <1>2, IInvDurable, DropsRecorded DEF DurableInv
<1>5. QED
  BY <1>2, <1>3, <1>4, IInvDurable DEF DurableInv

LEMMA PipeInsertInv ==
    ASSUME IInv, PipeInsert
    PROVE  IInv'
<1>1. UNCHANGED <<fw, xmap, seen>> /\ tgt["pipe"] \in IPs /\ pc["pipe"] = "insert"
  BY ProcFacts DEF IInv, TargetsRecorded, PipeInsert
<1>2. DurableInv' /\ TableOK' /\ RowsKept
  <2>1. CASE UNCHANGED <<bans, nextId>>
    BY <1>1, <2>1, IInvDurable, TableFrame, TableStep DEF DurableInv
  <2>2. CASE \E e \in {"never", "later"}, s \in AutoStatus : CreateBan(tgt["pipe"], s, e)
    BY <1>1, <2>2, AutoInsert
  <2>3. QED
    BY <2>1, <2>2 DEF PipeInsert, AutoStatus
<1>a. CASE Return("pipe", "idle")
  <2>1. pc'["pipe"] = "idle" /\ \A q \in Procs : q # "pipe" => pc'[q] = pc[q] /\ tgt'[q] = tgt[q] /\ net'[q] = net[q]
    BY <1>a, ProcFacts DEF IInv, TypeOK, Return, Goto
  <2>2. TypeOK'
    BY <1>1, <1>2, <1>a, ProcFacts, ReturnType DEF IInv, TypeOK, TableOK, PipeInsert, PCs, whitelist, engine
  <2>3. HandlesExist'
    BY <1>1, <1>2, <1>a, ProcFacts, HandlesForget DEF Return
  <2>4. TargetsRecorded'
    BY <1>2, <2>1, ProcFacts, TargetsKept
  <2>5. CheckStillHolds'
    BY <2>1 DEF CheckStillHolds
  <2>6. QED
    BY <1>2, <2>2, <2>3, <2>4, <2>5, CombineInv
<1>b. CASE \E e \in {"never", "later"} :
             /\ CreateBan(tgt["pipe"], "active", e) /\ Goto("pipe", "ban")
             /\ cur' = [cur EXCEPT !["pipe"] = nextId] /\ UNCHANGED <<tgt, net, err>>
  <2>1. "active" \in AutoStatus
    BY DEF AutoStatus
  <2>2. nextId \in Ids /\ bans'[nextId].status = "active" /\ bans'[nextId].ip = tgt["pipe"]
    BY <1>1, <1>b, <2>1, AutoInsert
  <2>3. nextId \in 0..MaxBans
    BY <2>2, ConstantsAssumption DEF Ids
  <2>4. /\ pc'["pipe"] = "ban" /\ pc' \in [Procs -> PCs]
        /\ \A q \in Procs : q # "pipe" => pc'[q] = pc[q]
    BY <1>b, ProcFacts DEF IInv, TypeOK, Goto, PCs
  <2>5. TypeOK'
    BY <1>1, <1>2, <1>b, <2>3, <2>4, ProcFacts DEF IInv, TypeOK, TableOK, PipeInsert, whitelist, engine
  <2>6. HandlesExist'
    BY <1>1, <1>2, <1>b, <2>2, ProcFacts, HandlesTake
  <2>7. Recorded(tgt["pipe"])'
    BY <1>b, <2>2 DEF Recorded, Shadow
  <2>8. TargetsRecorded'
    BY <1>1, <1>2, <1>b, <2>4, <2>7, ProcFacts, TargetsKept
  <2>9. CheckStillHolds'
    BY <2>4 DEF CheckStillHolds
  <2>10. QED
    BY <1>2, <2>5, <2>6, <2>8, <2>9, CombineInv
<1>3. QED
  BY <1>a, <1>b DEF PipeInsert

----------------------------------------------------------------------------
(* The process ends and starts.                                             *)

LEMMA BootInv ==
    ASSUME IInv, Boot
    PROVE  IInv'
<1>1. UNCHANGED <<bans, nextId, fw, locals, wlDB, gauge>> /\ xmap' \subseteq xmap
  BY DEF Boot, InitXdp
<1>2. TableOK' /\ RowsKept /\ NoNewAuto
  BY <1>1, IInvDurable, TableFrame DEF DurableInv
<1>3. DurableInv'
  BY <1>1, <1>2, IInvDurable, TableStep
<1>4. /\ pc' \in [Procs -> PCs] /\ pc'["main"] \in {"reconcile", "restore"}
      /\ \A q \in Procs : q # "main" => pc'[q] = pc[q]
  BY ProcFacts DEF IInv, TypeOK, Boot, InitXdp, Goto, PCs
<1>5. TypeOK'
  <2>1. static' \subseteq IPs /\ local' \subseteq IPs /\ wlMem' \subseteq Nets /\ dryRun' \in BOOLEAN
    BY ConstantsAssumption DEF Boot, LoadWhitelist, ListWhitelist, ReloadStatic, IInv, TypeOK
  <2>2. xdp' \in {"open", "nil"} /\ enf' \in {"base", "composite", "xdp"} /\ boots' \in 0..MaxBoots
    BY ConstantsAssumption DEF Boot, InitXdp, SetupEnforcer, IInv, TypeOK
  <2>3. QED
    BY <1>1, <1>4, <2>1, <2>2 DEF IInv, TypeOK, locals
<1>6. HandlesExist'
  BY <1>1, <1>2, ProcFacts, HandlesForget DEF locals
<1>7. TargetsRecorded'
  BY <1>1, <1>2, <1>4, ProcFacts, TargetsKept DEF locals
<1>8. CheckStillHolds'
  BY <1>1, <1>2, <1>4, ProcFacts, CheckKept DEF locals
<1>9. QED
  BY <1>3, <1>5, <1>6, <1>7, <1>8, CombineInv

LEMMA DownType ==
    /\ AllDown \in [Procs -> PCs]
    /\ \A p \in Procs : AllDown[p] \in {"down", "idle"}
    /\ Each(NoIP) \in [Procs -> IPs \cup {NoIP}]
    /\ Each(0) \in [Procs -> 0..MaxBans] /\ \A p \in Procs : Each(0)[p] = 0
    /\ Each(NothingSeen) \in [Procs -> [Ids -> Statuses]]
    /\ \A p \in Procs, id \in Ids : Each(NothingSeen)[p][id] = "none"
    /\ Each({}) \in [Procs -> SUBSET IPs] /\ Each({}) \in [Procs -> Nets \cup {{}}]
    /\ Each({}) \in [Procs -> SUBSET Nets]
    /\ Each(FALSE) \in [Procs -> BOOLEAN]
<1>1. 0 \in 0..MaxBans
  BY ConstantsAssumption
<1>2. NothingSeen \in [Ids -> Statuses] /\ \A id \in Ids : NothingSeen[id] = "none"
  BY DEF NothingSeen, Statuses
<1>3. AllDown \in [Procs -> PCs] /\ \A p \in Procs : AllDown[p] \in {"down", "idle"}
  BY DEF AllDown, PCs
<1>4. QED
  BY <1>1, <1>2, <1>3 DEF Each

LEMMA CrashInv ==
    ASSUME IInv, Crash
    PROVE  IInv'
<1>1. UNCHANGED <<bans, nextId, fw, xmap>>
  BY DEF Crash, durable
<1>2. DurableInv' /\ RowsKept
  BY <1>1, IInvDurable, DurableFrame
<1>3. TypeOK'
  <2>1. 0 \in (-MaxBans)..MaxBans
    BY ConstantsAssumption
  <2>2. QED
    BY <1>1, <2>1, DownType DEF IInv, TypeOK, Crash, durable
<1>4. HandlesExist'
  BY DownType, ProcFacts DEF Crash, HandlesExist
<1>5. TargetsRecorded'
  BY DownType DEF Crash, TargetsRecorded
<1>6. CheckStillHolds'
  BY DownType, ProcFacts DEF Crash, CheckStillHolds
<1>7. QED
  BY <1>2, <1>3, <1>4, <1>5, <1>6, CombineInv

LEMMA InitInv == Init => IInv
<1> SUFFICES ASSUME Init PROVE IInv
  OBVIOUS
<1>1. NoRow \in Rows /\ NoRow.status = "none"
  BY DEF NoRow, Rows, Statuses, Expiries
<1>2. bans \in [Ids -> Rows] /\ \A id \in Ids : bans[id].status = "none"
  BY <1>1 DEF Init
<1>3. TypeOK
  <2>1. 0 \in (-MaxBans)..MaxBans /\ 1 \in 1..(MaxBans + 1) /\ 0 \in 0..MaxBoots
    BY ConstantsAssumption
  <2>2. QED
    BY <1>2, <2>1, DownType DEF Init, TypeOK
<1>4. RowsDense /\ SingleAutoBan /\ RecordedBeforeDropped
  BY <1>2 DEF Init, RowsDense, SingleAutoBan, RecordedBeforeDropped, AutoStatus
<1>5. HandlesExist /\ TargetsRecorded
  BY DownType, ProcFacts DEF Init, HandlesExist, TargetsRecorded
<1>6. CheckStillHolds
  BY DownType, ProcFacts DEF Init, CheckStillHolds
<1>7. QED
  BY <1>3, <1>4, <1>5, <1>6 DEF IInv

----------------------------------------------------------------------------
(* Every step keeps the invariant.                                          *)

LEMMA EnforcerInv ==
    ASSUME IInv, NEW p \in Procs, EnforcerStep(p)
    PROVE  IInv'
BY BanBaseInv, BanXdpInv, UnbanBaseInv, UnbanXdpInv DEF EnforcerStep

LEMMA ReconcileInv ==
    ASSUME IInv, NEW p \in {"main", "maint"}, ReconcileStep(p)
    PROVE  IInv'
<1>1. p \in Procs
  BY ProcFacts
<1>2. QED
  BY <1>1, RecStartInv, RecWantInv, RecHaveInv, RecDelInv DEF ReconcileStep

LEMMA PipeStepInv ==
    ASSUME IInv, PipeStep
    PROVE  IInv'
BY ProcFacts, PipeCheckInv, PipeInsertInv, PipeDoneInv, EnforcerInv DEF PipeStep

LEMMA ExpStepInv ==
    ASSUME IInv, ExpStep
    PROVE  IInv'
BY ProcFacts, ExpTickInv, ExpMarkInv, ExpDoneInv, EnforcerInv DEF ExpStep

LEMMA MainStepInv ==
    ASSUME IInv, MainStep
    PROVE  IInv'
BY ProcFacts, ReconcileInv, RestoreListInv, RestoreRowInv, RestoreNextInv, EnforcerInv,
   ReloadListInv, ReloadSetInv DEF MainStep, StartupStep, ReloadStep

LEMMA ApiStepInv ==
    ASSUME IInv, NEW t \in ApiThreads, ApiStep(t)
    PROVE  IInv'
<1>1. t \in Procs
  BY ProcFacts
<1>2. QED
  BY <1>1, ApiCheckInv, ApiInsertInv, ApiBannedInv, ApiUnbanFailedInv, ApiClearInv, ApiExpireInv,
     ApiAddWhitelistInv, EnforcerInv, ReloadListInv, ReloadSetInv DEF ApiStep, ReloadStep

LEMMA EnvironmentInv ==
    ASSUME IInv, Environment
    PROVE  IInv'
<1>1. ASSUME NEW t \in ApiThreads, ApiRequest(t)
      PROVE  IInv'
  BY <1>1, ApiCreateInv, ApiDeleteInv, ApiWhitelistInv, ApiUnwhitelistInv DEF ApiRequest
<1>2. QED
  BY <1>1, PipeTakeInv, FallDueInv, SighupInv, LocalRefreshInv, BootInv, CrashInv, ApiDetachInv
     DEF Environment

LEMMA StutterInv ==
    ASSUME IInv, UNCHANGED vars
    PROVE  IInv'
<1>1. UNCHANGED <<bans, nextId, fw, xmap>>
  BY DEF vars, durable
<1>2. DurableInv' /\ RowsKept
  BY <1>1, IInvDurable, DurableFrame
<1>3. TypeOK'
  BY DEF IInv, TypeOK, vars, durable, whitelist, engine, locals
<1>4. HandlesExist' /\ TargetsRecorded' /\ CheckStillHolds'
  BY DEF IInv, HandlesExist, TargetsRecorded, Recorded, CheckStillHolds, vars, durable, locals
<1>5. QED
  BY <1>2, <1>3, <1>4, CombineInv

LEMMA NextInv == IInv /\ [Next]_vars => IInv'
<1> SUFFICES ASSUME IInv, [Next]_vars
             PROVE  IInv'
  OBVIOUS
<1>1. CASE Environment
  BY <1>1, EnvironmentInv
<1>2. CASE PipeStep
  BY <1>2, PipeStepInv
<1>3. CASE ExpStep
  BY <1>3, ExpStepInv
<1>4. CASE MaintStep
  BY <1>4, ReconcileInv DEF MaintStep
<1>5. CASE MainStep
  BY <1>5, MainStepInv
<1>6. CASE \E t \in ApiThreads : ApiStep(t)
  BY <1>6, ApiStepInv
<1>7. CASE UNCHANGED vars
  BY <1>7, StutterInv
<1>8. QED
  BY <1>1, <1>2, <1>3, <1>4, <1>5, <1>6, <1>7 DEF Next

(* IInv holds in every reachable state, whatever the goroutines, handlers,  *)
(* faults, crashes and restarts of daemon.go and handlers.go do.            *)
THEOREM Inductive == Spec => []IInv
BY InitInv, NextInv, PTL DEF Spec

(* The types of the table, the kernel state and every goroutine's locals.   *)
THEOREM TypeCorrect == Spec => []TypeOK
<1>1. IInv => TypeOK
  BY DEF IInv
<1>2. QED
  BY <1>1, Inductive, PTL

(* Evaluate's check and insert are two statements, yet detection never has  *)
(* two open bans for an address: only the pipeline opens automatic bans and *)
(* it works on one threat at a time (engine.go:49-92, daemon.go:738-747).   *)
THEOREM SingleAuto == Spec => []SingleAutoBan
<1>1. IInv => SingleAutoBan
  BY DEF IInv
<1>2. QED
  BY <1>1, Inductive, PTL

(* The row is committed before the rule or the map entry on every path that *)
(* drops an address: pipeline, API and restore (daemon.go:749-794, 848-871, *)
(* handlers.go:123-191).                                                    *)
THEOREM WriteAhead == Spec => []RecordedBeforeDropped
<1>1. IInv => RecordedBeforeDropped
  BY DEF IInv
<1>2. QED
  BY <1>1, Inductive, PTL

----------------------------------------------------------------------------
(* The kill switch.                                                         *)

Frozen == xmap' = xmap /\ xdp' = "nil"

(* Every access to the map goes through the handle Close has closed.        *)
LEMMA EnforcerFrozen ==
    ASSUME xdp = "nil", NEW p, EnforcerStep(p) \/ ReconcileStep(p) \/ ReloadStep(p)
    PROVE  Frozen
<1>1. CASE BanBase(p) \/ BanXdp(p) \/ UnbanBase(p) \/ UnbanXdp(p)
  BY <1>1 DEF BanBase, BanXdp, UnbanBase, UnbanXdp, engine, Frozen
<1>2. CASE RecStart(p) \/ RecWant(p) \/ RecHave(p) \/ RecDel(p)
  BY <1>2 DEF RecStart, RecWant, RecHave, RecDel, durable, engine, Frozen
<1>3. CASE ReloadList(p) \/ ReloadSet(p)
  BY <1>3 DEF ReloadList, ReloadSet, durable, engine, Frozen
<1>4. QED
  BY <1>1, <1>2, <1>3 DEF EnforcerStep, ReconcileStep, ReloadStep

(* A step of a running daemon leaves a closed map alone.                    *)
LEMMA StepFrozen ==
    ASSUME xdp = "nil", pc["main"] # "down", [Next]_vars
    PROVE  Frozen
<1>1. CASE Environment
  <2>1. ASSUME NEW t \in ApiThreads, ApiRequest(t)
        PROVE  Frozen
    BY <2>1 DEF ApiRequest, ApiCreate, ApiDelete, ApiWhitelist, ApiUnwhitelist, durable, engine, Frozen
  <2>2. CASE Sighup \/ LocalRefresh \/ Boot \/ Crash \/ ApiDetach
    BY <2>2 DEF Sighup, LocalRefresh, Boot, Crash, ApiDetach, CloseXdp, durable, engine, Frozen
  <2>3. CASE (\E i \in IPs : PipeTake(i)) \/ (\E id \in Ids : FallDue(id))
    BY <2>3 DEF PipeTake, FallDue, durable, engine, Frozen
  <2>4. QED
    BY <1>1, <2>1, <2>2, <2>3 DEF Environment
<1>2. CASE PipeStep
  BY <1>2, EnforcerFrozen DEF PipeStep, PipeCheck, PipeInsert, PipeDone, durable, engine, Frozen
<1>3. CASE ExpStep
  BY <1>3, EnforcerFrozen DEF ExpStep, ExpTick, ExpMark, ExpDone, durable, engine, Frozen
<1>4. CASE MaintStep
  BY <1>4, EnforcerFrozen DEF MaintStep
<1>5. CASE MainStep
  BY <1>5, EnforcerFrozen
     DEF MainStep, StartupStep, RestoreList, RestoreRow, RestoreNext, durable, engine, Frozen
<1>6. CASE \E t \in ApiThreads : ApiStep(t)
  <2>1. PICK t \in ApiThreads : ApiStep(t)
    BY <1>6
  <2>2. CASE EnforcerStep(t) \/ ReloadStep(t)
    BY <2>2, EnforcerFrozen
  <2>3. CASE ApiCheck(t) \/ ApiInsert(t) \/ ApiBanned(t) \/ ApiUnbanFailed(t)
    BY <2>3 DEF ApiCheck, ApiInsert, ApiBanned, ApiUnbanFailed, durable, engine, Frozen
  <2>4. CASE (\E id \in Ids : ApiClear(t, id)) \/ ApiExpire(t) \/ ApiAddWhitelist(t)
    BY <2>4 DEF ApiClear, ApiExpire, ApiAddWhitelist, durable, engine, Frozen
  <2>5. QED
    BY <2>1, <2>2, <2>3, <2>4 DEF ApiStep
<1>7. CASE UNCHANGED vars
  BY <1>7 DEF vars, durable, engine, Frozen
<1>8. QED
  BY <1>1, <1>2, <1>3, <1>4, <1>5, <1>6, <1>7 DEF Next

(* A ban, unban or reconcile round in flight when detachXDP runs cannot     *)
(* change the pinned map afterwards, nor attach the program again           *)
(* (daemon.go:630-645, enforcer_linux.go:347-358).                          *)
THEOREM KillSwitch == Spec => KillSwitchFreezesMap
<1>1. [Next]_vars => [(xdp = "nil" /\ pc["main"] # "down") => (xmap' = xmap /\ xdp' = "nil")]_vars
  BY StepFrozen DEF Frozen
<1>2. QED
  BY <1>1, PTL DEF Spec, KillSwitchFreezesMap
=============================================================================
