--------------------------- MODULE BanLedgerProofs ---------------------------
(***************************************************************************)
(* The daemon implements the ledger: every step of every goroutine, handler,*)
(* crash and restart is one ledger step on the table and the drop state, or *)
(* none.  The lemmas say which ledger step a store statement or a backend   *)
(* call is; the inductive invariant of BanLifecycleProofs supplies what the *)
(* ledger asks for when a ban is opened or an address dropped.  The second  *)
(* and third parts are about the whitelist: it shields whoever no goroutine *)
(* has in hand, and a reload moves no entry it has no business with.        *)
(***************************************************************************)
EXTENDS BanLifecycleProofs

LedgerStep == [Ledger!Next]_(Ledger!vars)

LEMMA NoLedgerStep ==
    ASSUME UNCHANGED <<bans, nextId, fw, xmap>>
    PROVE  LedgerStep
BY DEF LedgerStep, Ledger!vars

(* UPDATE ... SET status = 'expired': a current row is closed, a closed one *)
(* stays as it is.                                                          *)
LEMMA CloseIsLedgerStep ==
    ASSUME IInv, NEW id \in Ids, bans[id].status # "none",
           bans' = [bans EXCEPT ![id].status = "expired"], UNCHANGED <<nextId, fw, xmap>>
    PROVE  LedgerStep
<1>1. bans \in [Ids -> Rows]
  BY DEF IInv, TypeOK
<1>2. CASE bans[id].status = "expired"
  <2>1. [bans[id] EXCEPT !.status = "expired"] = bans[id]
    BY <1>1, <1>2 DEF Rows
  <2>2. bans' = bans
    BY <1>1, <2>1
  <2>3. QED
    BY <2>2, NoLedgerStep
<1>3. CASE bans[id].status # "expired"
  <2>1. bans[id].status \in Ledger!Current
    BY <1>1, <1>3 DEF Rows, Statuses, CurrentStatus, Ledger!Current
  <2>2. Ledger!Close(id) /\ id \in Ledger!Ids
    BY <2>1 DEF Ledger!Close, Ledger!Ids, Ids
  <2>3. QED
    BY <2>2 DEF LedgerStep, Ledger!Next
<1>4. QED
  BY <1>2, <1>3

LEMMA UpdateIsLedgerStep ==
    ASSUME IInv, NEW id \in Ids, bans[id].status # "none",
           UpdateBanStatus(id), UNCHANGED <<nextId, fw, xmap>>
    PROVE  LedgerStep
BY CloseIsLedgerStep, NoLedgerStep DEF UpdateBanStatus

LEMMA DueIsLedgerStep ==
    ASSUME NEW id \in Ids, FallDue(id)
    PROVE  LedgerStep
<1>1. Ledger!FallDue(id) /\ id \in Ledger!Ids
  BY DEF FallDue, Ledger!FallDue, Ledger!Ids, Ids, CurrentStatus, Ledger!Current
<1>2. QED
  BY <1>1 DEF LedgerStep, Ledger!Next

(* INSERT: detection's only when it has no open ban for the address.        *)
LEMMA OpenIsLedgerStep ==
    ASSUME NEW i \in IPs, NEW s \in CurrentStatus, NEW e \in {"never", "later"},
           s # "manual" => \A id \in Ids : bans[id].ip = i => bans[id].status \notin AutoStatus,
           CreateBan(i, s, e), UNCHANGED <<fw, xmap>>
    PROVE  LedgerStep
<1>1. s \in Ledger!Current
  BY DEF CurrentStatus, Ledger!Current
<1>2. Ledger!Open(i, s, e)
  BY DEF CreateBan, Ledger!Open, Ledger!Ids, Ids, AutoStatus
<1>3. QED
  BY <1>1, <1>2 DEF LedgerStep, Ledger!Next

LEMMA DropIsLedgerStep ==
    ASSUME NEW i \in IPs, Recorded(i), UNCHANGED <<bans, nextId>>,
           fw' \cup xmap' = (fw \cup xmap) \cup {i}
    PROVE  LedgerStep
<1>1. Ledger!Drop(i)
  BY DEF Recorded, Shadow, Ledger!Drop, Ledger!Ids, Ids
<1>2. QED
  BY <1>1 DEF LedgerStep, Ledger!Next

LEMMA ReleaseIsLedgerStep ==
    ASSUME UNCHANGED <<bans, nextId>>, fw' \subseteq fw, xmap' \subseteq xmap
    PROVE  LedgerStep
<1>1. Ledger!Release
  BY DEF Ledger!Release
<1>2. QED
  BY <1>1 DEF LedgerStep, Ledger!Next

----------------------------------------------------------------------------
(* One lemma per group of actions.                                          *)

LEMMA EnforcerLedger ==
    ASSUME IInv, NEW p \in Procs, EnforcerStep(p)
    PROVE  LedgerStep
<1>1. CASE BanBase(p) \/ BanXdp(p)
  <2>1. tgt[p] \in IPs /\ Recorded(tgt[p])
    BY <1>1 DEF IInv, TargetsRecorded, BanBase, BanXdp
  <2>2. UNCHANGED <<bans, nextId>>
    BY <1>1 DEF BanBase, BanXdp
  <2>3. \/ fw' = fw \cup {tgt[p]} /\ xmap' = xmap
        \/ xmap' = xmap \cup {tgt[p]} /\ fw' = fw
        \/ UNCHANGED <<fw, xmap>>
    BY <1>1 DEF BanBase, BanXdp
  <2>4. QED
    BY <2>1, <2>2, <2>3, DropIsLedgerStep, NoLedgerStep
<1>2. CASE UnbanBase(p) \/ UnbanXdp(p)
  <2>1. UNCHANGED <<bans, nextId>> /\ fw' \subseteq fw /\ xmap' \subseteq xmap
    BY <1>2 DEF UnbanBase, UnbanXdp
  <2>2. QED
    BY <2>1, ReleaseIsLedgerStep
<1>3. QED
  BY <1>1, <1>2 DEF EnforcerStep

LEMMA ReconcileLedger ==
    ASSUME NEW p, ReconcileStep(p) \/ ReloadStep(p)
    PROVE  LedgerStep
<1>1. CASE RecDel(p)
  <2>1. UNCHANGED <<bans, nextId>> /\ fw' \subseteq fw /\ xmap' \subseteq xmap
    BY <1>1 DEF RecDel
  <2>2. QED
    BY <2>1, ReleaseIsLedgerStep
<1>2. CASE RecStart(p) \/ RecWant(p) \/ RecHave(p) \/ ReloadStep(p)
  <2>1. UNCHANGED <<bans, nextId, fw, xmap>>
    BY <1>2 DEF RecStart, RecWant, RecHave, ReloadStep, ReloadList, ReloadSet, durable
  <2>2. QED
    BY <2>1, NoLedgerStep
<1>3. QED
  BY <1>1, <1>2 DEF ReconcileStep

(* The check that PipeCheck made still holds when PipeInsert inserts, so the*)
(* two statements are one atomic Open of the ledger.                        *)
LEMMA PipeLedger ==
    ASSUME IInv, PipeStep
    PROVE  LedgerStep
<1>1. CASE PipeCheck \/ PipeDone
  <2>1. UNCHANGED <<bans, nextId, fw, xmap>>
    BY <1>1 DEF PipeCheck, PipeDone, durable
  <2>2. QED
    BY <2>1, NoLedgerStep
<1>2. CASE PipeInsert
  <2>1. CASE UNCHANGED <<bans, nextId>>
    BY <1>2, <2>1, NoLedgerStep DEF PipeInsert
  <2>2. CASE \E e \in {"never", "later"}, s \in AutoStatus : CreateBan(tgt["pipe"], s, e)
    <3>1. PICK e \in {"never", "later"}, s \in AutoStatus : CreateBan(tgt["pipe"], s, e)
      BY <2>2
    <3>2. tgt["pipe"] \in IPs /\ s \in CurrentStatus /\ UNCHANGED <<fw, xmap>>
      BY <1>2, ProcFacts DEF IInv, TargetsRecorded, AutoStatus, CurrentStatus, PipeInsert
    <3>3. \A id \in Ids : bans[id].ip = tgt["pipe"] => bans[id].status \notin AutoStatus
      BY <1>2 DEF IInv, CheckStillHolds, PipeInsert
    <3>4. QED
      BY <3>1, <3>2, <3>3, OpenIsLedgerStep
  <2>3. QED
    BY <1>2, <2>1, <2>2 DEF PipeInsert, AutoStatus
<1>3. CASE EnforcerStep("pipe")
  BY <1>3, ProcFacts, EnforcerLedger
<1>4. QED
  BY <1>1, <1>2, <1>3 DEF PipeStep

LEMMA ExpLedger ==
    ASSUME IInv, ExpStep
    PROVE  LedgerStep
<1>1. CASE ExpTick \/ ExpDone
  <2>1. UNCHANGED <<bans, nextId, fw, xmap>>
    BY <1>1 DEF ExpTick, ExpDone, durable
  <2>2. QED
    BY <2>1, NoLedgerStep
<1>2. ASSUME NEW id \in Ids, ExpMark(id)
      PROVE  LedgerStep
  <2>1. bans[id].status # "none"
    BY <1>2, ProcFacts DEF IInv, HandlesExist, ExpMark, Pending
  <2>2. UpdateBanStatus(id) /\ UNCHANGED <<nextId, fw, xmap>>
    BY <1>2 DEF ExpMark
  <2>3. QED
    BY <2>1, <2>2, UpdateIsLedgerStep
<1>3. CASE EnforcerStep("exp")
  BY <1>3, ProcFacts, EnforcerLedger
<1>4. QED
  BY <1>1, <1>2, <1>3 DEF ExpStep

LEMMA MainLedger ==
    ASSUME IInv, MainStep
    PROVE  LedgerStep
<1>1. CASE RestoreList \/ RestoreNext
  <2>1. UNCHANGED <<bans, nextId, fw, xmap>>
    BY <1>1 DEF RestoreList, RestoreNext, durable
  <2>2. QED
    BY <2>1, NoLedgerStep
<1>2. ASSUME NEW id \in Ids, RestoreRow(id)
      PROVE  LedgerStep
  <2>1. bans[id].status # "none" /\ UNCHANGED <<nextId, fw, xmap>>
    BY <1>2, ProcFacts DEF IInv, HandlesExist, RestoreRow, Pending
  <2>2. UpdateBanStatus(id) \/ UNCHANGED bans
    BY <1>2 DEF RestoreRow
  <2>3. QED
    BY <2>1, <2>2, UpdateIsLedgerStep, NoLedgerStep
<1>3. CASE EnforcerStep("main")
  BY <1>3, ProcFacts, EnforcerLedger
<1>4. QED
  BY <1>1, <1>2, <1>3, ReconcileLedger DEF MainStep, StartupStep

LEMMA ApiLedger ==
    ASSUME IInv, NEW t \in ApiThreads, ApiStep(t)
    PROVE  LedgerStep
<1>1. t \in Procs
  BY ProcFacts
<1>2. CASE ApiCheck(t) \/ ApiUnbanFailed(t) \/ (\E id \in Ids : ApiClear(t, id)) \/ ApiAddWhitelist(t)
  <2>1. UNCHANGED <<bans, nextId, fw, xmap>>
    BY <1>2 DEF ApiCheck, ApiUnbanFailed, ApiClear, ApiAddWhitelist, durable
  <2>2. QED
    BY <2>1, NoLedgerStep
<1>3. CASE ApiInsert(t)
  <2>1. tgt[t] \in IPs /\ UNCHANGED <<fw, xmap>>
    BY <1>1, <1>3 DEF IInv, TargetsRecorded, ApiInsert
  <2>2. "manual" \in CurrentStatus
    BY DEF CurrentStatus
  <2>3. CASE UNCHANGED <<bans, nextId>>
    BY <2>1, <2>3, NoLedgerStep
  <2>4. CASE \E e \in {"never", "later"} : CreateBan(tgt[t], "manual", e)
    BY <2>1, <2>2, <2>4, OpenIsLedgerStep
  <2>5. QED
    BY <1>3, <2>3, <2>4 DEF ApiInsert
<1>4. CASE ApiBanned(t) \/ ApiExpire(t)
  <2>1. UNCHANGED <<nextId, fw, xmap>>
    BY <1>4 DEF ApiBanned, ApiExpire
  <2>2. CASE UNCHANGED bans
    BY <2>1, <2>2, NoLedgerStep
  <2>3. CASE bans' = [bans EXCEPT ![cur[t]].status = "expired"]
    <3>1. CASE cur[t] \in Ids
      <4>1. bans[cur[t]].status # "none"
        BY <1>1, <3>1, ConstantsAssumption DEF IInv, HandlesExist, Ids
      <4>2. QED
        BY <2>1, <2>3, <3>1, <4>1, CloseIsLedgerStep
    <3>2. CASE cur[t] \notin Ids
      <4>1. bans' = bans
        BY <2>3, <3>2 DEF IInv, TypeOK
      <4>2. QED
        BY <2>1, <4>1, NoLedgerStep
    <3>3. QED
      BY <3>1, <3>2
  <2>4. QED
    BY <1>4, <2>2, <2>3 DEF ApiBanned, ApiExpire, UpdateBanStatus
<1>5. CASE EnforcerStep(t)
  BY <1>1, <1>5, EnforcerLedger
<1>6. QED
  BY <1>2, <1>3, <1>4, <1>5, ReconcileLedger DEF ApiStep

LEMMA EnvironmentLedger ==
    ASSUME Environment
    PROVE  LedgerStep
<1>1. ASSUME NEW t \in ApiThreads, ApiRequest(t)
      PROVE  UNCHANGED <<bans, nextId, fw, xmap>>
  BY <1>1 DEF ApiRequest, ApiCreate, ApiDelete, ApiWhitelist, ApiUnwhitelist, durable
<1>2. CASE Sighup \/ LocalRefresh \/ Crash \/ ApiDetach \/ \E i \in IPs : PipeTake(i)
  <2>1. UNCHANGED <<bans, nextId, fw, xmap>>
    BY <1>2 DEF Sighup, LocalRefresh, Crash, ApiDetach, CloseXdp, PipeTake, durable
  <2>2. QED
    BY <2>1, NoLedgerStep
<1>3. CASE Boot
  <2>1. UNCHANGED <<bans, nextId>> /\ fw' \subseteq fw /\ xmap' \subseteq xmap
    BY <1>3 DEF Boot, InitXdp
  <2>2. QED
    BY <2>1, ReleaseIsLedgerStep
<1>4. QED
  BY <1>1, <1>2, <1>3, NoLedgerStep, DueIsLedgerStep DEF Environment

LEMMA NextLedger == IInv /\ [Next]_vars => LedgerStep
<1> SUFFICES ASSUME IInv, [Next]_vars
             PROVE  LedgerStep
  OBVIOUS
<1>1. CASE UNCHANGED vars
  BY <1>1, NoLedgerStep DEF vars, durable
<1>2. CASE Next
  BY <1>2, EnvironmentLedger, PipeLedger, ExpLedger, ReconcileLedger, MainLedger, ApiLedger DEF Next, MaintStep
<1>3. QED
  BY <1>1, <1>2

(* The table and the kernel keep the ledger's promises however goroutines,  *)
(* handlers, faults, crashes and restarts interleave: rows are only closed, *)
(* a check and an insert act as one step, nothing is dropped off the record *)
(* (daemon.go, engine.go:38-106, handlers.go, store.go:92-224).             *)
THEOREM ImplementsLedger == Spec => LedgerSpec
<1>1. Init => Ledger!Init
  BY DEF Init, Ledger!Init, Ledger!Ids, Ids, NoRow
<1>2. IInv /\ [Next]_vars => [Ledger!Next]_(Ledger!vars)
  BY NextLedger DEF LedgerStep
<1>3. QED
  BY <1>1, <1>2, Inductive, PTL DEF Spec, LedgerSpec, Ledger!Spec
----------------------------------------------------------------------------
(* The whitelist.  A goroutine has an address in hand from the check of the *)
(* whitelist to the last backend call.  Every step of the daemon takes up   *)
(* only addresses that are not whitelisted, inserts only rows and drops     *)
(* only addresses that a goroutine has in hand.                             *)

Working == {"eval", "insert", "ban", "banX"}

TakesUnlisted ==
    \A p \in Procs : pc'[p] \in Working =>
        \/ pc[p] \in Working /\ tgt'[p] = tgt[p]
        \/ ~Contains(tgt'[p])

AddressesKept == nextId' = nextId /\ \A id \in Ids : bans'[id].ip = bans[id].ip
InsertsInHand ==
    \E p \in Procs : /\ pc[p] = "insert"
                     /\ \E s \in CurrentStatus, e \in Expiries : CreateBan(tgt[p], s, e)
RowsFromHand == AddressesKept \/ InsertsInHand

DropsFromHand ==
    \A i \in fw' \cup xmap' : i \in fw \cup xmap \/ \E p \in Procs : tgt[p] = i /\ pc[p] \in Working

ShieldStep == TakesUnlisted /\ RowsFromHand /\ DropsFromHand

(* The id a row will get has no address yet: what InsertsInHand overwrites  *)
(* is nobody's row.                                                         *)
BlankAhead == \A id \in Ids : id >= nextId => bans[id].ip = NoIP

LEMMA TableSame ==
    ASSUME UNCHANGED <<bans, nextId>>
    PROVE  RowsFromHand
BY DEF RowsFromHand, AddressesKept

LEMMA TableClosed ==
    ASSUME IInv, NEW id, UpdateBanStatus(id) \/ bans' = [bans EXCEPT ![id].status = "expired"],
           UNCHANGED nextId
    PROVE  RowsFromHand
<1>1. bans \in [Ids -> Rows]
  BY DEF IInv, TypeOK
<1>2. CASE UNCHANGED bans
  BY <1>2, TableSame
<1>3. CASE bans' = [bans EXCEPT ![id].status = "expired"]
  BY <1>1, <1>3 DEF RowsFromHand, AddressesKept, Rows
<1>4. QED
  BY <1>2, <1>3 DEF UpdateBanStatus

LEMMA DropsFewer ==
    ASSUME fw' \subseteq fw, xmap' \subseteq xmap
    PROVE  DropsFromHand
BY DEF DropsFromHand

(* The three ways a goroutine moves: it goes on with what it has in hand,   *)
(* lets go of it, or takes up an address that is not whitelisted.           *)
LEMMA HandsSame ==
    ASSUME UNCHANGED <<pc, tgt>>
    PROVE  TakesUnlisted
BY DEF TakesUnlisted

LEMMA HandsGoOn ==
    ASSUME IInv, NEW p \in Procs, NEW l, pc[p] \in Working, Goto(p, l), UNCHANGED tgt
    PROVE  TakesUnlisted
BY DEF IInv, TypeOK, Goto, TakesUnlisted

LEMMA HandsLetGo ==
    ASSUME IInv, NEW p \in Procs, NEW l, l \notin Working, Goto(p, l),
           UNCHANGED tgt \/ \E i : tgt' = [tgt EXCEPT ![p] = i]
    PROVE  TakesUnlisted
BY DEF IInv, TypeOK, Goto, TakesUnlisted

LEMMA HandsTakeUp ==
    ASSUME IInv, NEW p \in Procs, NEW l, NEW i, ~Contains(i), Goto(p, l),
           tgt' = [tgt EXCEPT ![p] = i]
    PROVE  TakesUnlisted
BY DEF IInv, TypeOK, Goto, TakesUnlisted

LEMMA EnforcerShield ==
    ASSUME IInv, NEW p \in Procs, EnforcerStep(p)
    PROVE  ShieldStep
<1>1. CASE BanBase(p) \/ BanXdp(p)
  <2>1. pc[p] \in Working /\ UNCHANGED <<bans, nextId, tgt>>
    BY <1>1 DEF BanBase, BanXdp, Working
  <2>2. \E l : Goto(p, l)
    BY <1>1 DEF BanBase, BanXdp
  <2>3. fw' \cup xmap' \subseteq fw \cup xmap \cup {tgt[p]}
    BY <1>1 DEF BanBase, BanXdp
  <2>4. DropsFromHand
    BY <2>1, <2>3 DEF DropsFromHand
  <2>5. QED
    BY <2>1, <2>2, <2>4, HandsGoOn, TableSame DEF ShieldStep
<1>2. CASE UnbanBase(p) \/ UnbanXdp(p)
  <2>1. fw' \subseteq fw /\ xmap' \subseteq xmap /\ UNCHANGED <<bans, nextId, tgt>>
    BY <1>2 DEF UnbanBase, UnbanXdp
  <2>2. \E l \in {"unbanned", "unbanX"} : Goto(p, l)
    BY <1>2 DEF UnbanBase, UnbanXdp
  <2>3. QED
    BY <2>1, <2>2, HandsLetGo, TableSame, DropsFewer DEF ShieldStep, Working
<1>3. QED
  BY <1>1, <1>2 DEF EnforcerStep

LEMMA ReconcileShield ==
    ASSUME IInv, NEW p \in Procs, ReconcileStep(p) \/ ReloadStep(p)
    PROVE  ShieldStep
<1>1. UNCHANGED <<bans, nextId>> /\ fw' \subseteq fw /\ xmap' \subseteq xmap
  BY DEF ReconcileStep, ReloadStep, RecStart, RecWant, RecHave, RecDel, ReloadList, ReloadSet, durable
<1>2. CASE ReconcileStep(p)
  <2>1. UNCHANGED tgt
    BY <1>2 DEF ReconcileStep, RecStart, RecWant, RecHave, RecDel
  <2>2. UNCHANGED pc \/ \E l \in {"recwant", "rechave", "recdel", "restore", "idle"} : Goto(p, l)
    BY <1>2 DEF ReconcileStep, RecStart, RecWant, RecHave, RecDel, RecEnd
  <2>3. QED
    BY <1>1, <2>1, <2>2, HandsSame, HandsLetGo, TableSame, DropsFewer DEF ShieldStep, Working
<1>3. CASE ReloadStep(p)
  <2>1. UNCHANGED tgt \/ \E i : tgt' = [tgt EXCEPT ![p] = i]
    BY <1>3 DEF ReloadStep, ReloadList, ReloadSet, Return
  <2>2. \E l \in {"setwl", "serve", "idle"} : Goto(p, l)
    BY <1>3 DEF ReloadStep, ReloadList, ReloadSet, Return, ReloadEnd
  <2>3. QED
    BY <1>1, <2>1, <2>2, HandsLetGo, TableSame, DropsFewer DEF ShieldStep, Working
<1>4. QED
  BY <1>2, <1>3

(* Evaluate and handleCreateBan alike: check the table, insert.             *)
LEMMA CheckShield ==
    ASSUME IInv, NEW p \in Procs, pc[p] = "eval",
           Return(p, "idle") \/ (Goto(p, "insert") /\ UNCHANGED tgt),
           UNCHANGED <<bans, nextId, fw, xmap>>
    PROVE  ShieldStep
<1>1. CASE Return(p, "idle")
  <2>1. Goto(p, "idle") /\ \E i : tgt' = [tgt EXCEPT ![p] = i]
    BY <1>1 DEF Return
  <2>2. QED
    BY <2>1, HandsLetGo, TableSame, DropsFewer DEF ShieldStep, Working
<1>2. CASE Goto(p, "insert") /\ UNCHANGED tgt
  BY <1>2, HandsGoOn, TableSame, DropsFewer DEF ShieldStep, Working
<1>3. QED
  BY <1>1, <1>2

LEMMA InsertShield ==
    ASSUME IInv, NEW p \in Procs, pc[p] = "insert", UNCHANGED <<fw, xmap>>,
           Return(p, "idle") \/ (Goto(p, "ban") /\ UNCHANGED tgt),
           \/ UNCHANGED <<bans, nextId>>
           \/ \E s \in CurrentStatus, e \in Expiries : CreateBan(tgt[p], s, e)
    PROVE  ShieldStep
<1>1. RowsFromHand
  BY TableSame DEF RowsFromHand, InsertsInHand
<1>2. TakesUnlisted
  <2>1. CASE Return(p, "idle")
    <3>1. Goto(p, "idle") /\ \E i : tgt' = [tgt EXCEPT ![p] = i]
      BY <2>1 DEF Return
    <3>2. QED
      BY <3>1, HandsLetGo DEF Working
  <2>2. CASE Goto(p, "ban") /\ UNCHANGED tgt
    BY <2>2, HandsGoOn DEF Working
  <2>3. QED
    BY <2>1, <2>2
<1>3. QED
  BY <1>1, <1>2, DropsFewer DEF ShieldStep

LEMMA PipeShield ==
    ASSUME IInv, PipeStep
    PROVE  ShieldStep
<1>0. "pipe" \in Procs
  BY ProcFacts
<1>1. CASE PipeCheck
  BY <1>0, <1>1, CheckShield DEF PipeCheck, durable
<1>2. CASE PipeInsert
  <2>1. \/ UNCHANGED <<bans, nextId>>
        \/ \E s \in CurrentStatus, e \in Expiries : CreateBan(tgt["pipe"], s, e)
    BY <1>2 DEF PipeInsert, CurrentStatus, Expiries
  <2>2. Return("pipe", "idle") \/ (Goto("pipe", "ban") /\ UNCHANGED tgt)
    BY <1>2 DEF PipeInsert
  <2>3. pc["pipe"] = "insert" /\ UNCHANGED <<fw, xmap>>
    BY <1>2 DEF PipeInsert
  <2>4. QED
    BY <1>0, <2>1, <2>2, <2>3, InsertShield
<1>3. CASE PipeDone
  <2>1. Goto("pipe", "idle") /\ \E i : tgt' = [tgt EXCEPT !["pipe"] = i]
    BY <1>3 DEF PipeDone, Return
  <2>2. UNCHANGED <<bans, nextId, fw, xmap>>
    BY <1>3 DEF PipeDone, durable
  <2>3. QED
    BY <1>0, <2>1, <2>2, HandsLetGo, TableSame, DropsFewer DEF ShieldStep, Working
<1>4. CASE EnforcerStep("pipe")
  BY <1>0, <1>4, EnforcerShield
<1>5. QED
  BY <1>1, <1>2, <1>3, <1>4 DEF PipeStep

LEMMA ExpShield ==
    ASSUME IInv, ExpStep
    PROVE  ShieldStep
<1>0. "exp" \in Procs
  BY ProcFacts
<1>1. CASE ExpTick \/ ExpDone
  <2>1. UNCHANGED tgt \/ \E i : tgt' = [tgt EXCEPT !["exp"] = i]
    BY <1>1 DEF ExpTick, ExpDone, Return
  <2>2. \E l \in {"idle", "scan"} : Goto("exp", l)
    BY <1>1 DEF ExpTick, ExpDone, Return, NextScan
  <2>3. UNCHANGED <<bans, nextId, fw, xmap>>
    BY <1>1 DEF ExpTick, ExpDone, durable
  <2>4. QED
    BY <1>0, <2>1, <2>2, <2>3, HandsLetGo, TableSame, DropsFewer DEF ShieldStep, Working
<1>2. ASSUME NEW id \in Ids, ExpMark(id)
      PROVE  ShieldStep
  <2>1. UNCHANGED tgt \/ \E i : tgt' = [tgt EXCEPT !["exp"] = i]
    BY <1>2 DEF ExpMark
  <2>2. \E l \in {"idle", "scan", "unban"} : Goto("exp", l)
    BY <1>2 DEF ExpMark, NextScan
  <2>3. UpdateBanStatus(id) /\ UNCHANGED <<nextId, fw, xmap>>
    BY <1>2 DEF ExpMark
  <2>4. QED
    BY <1>0, <2>1, <2>2, <2>3, HandsLetGo, TableClosed, DropsFewer DEF ShieldStep, Working
<1>3. CASE EnforcerStep("exp")
  BY <1>0, <1>3, EnforcerShield
<1>4. QED
  BY <1>1, <1>2, <1>3 DEF ExpStep

(* restoreBans re-applies a row only after a look at the whitelist.         *)
LEMMA MainShield ==
    ASSUME IInv, MainStep
    PROVE  ShieldStep
<1>0. "main" \in Procs
  BY ProcFacts
<1>1. CASE RestoreList \/ RestoreNext
  <2>1. UNCHANGED tgt \/ \E i : tgt' = [tgt EXCEPT !["main"] = i]
    BY <1>1 DEF RestoreList, RestoreNext, Return
  <2>2. \E l \in {"restoring", "serve"} : Goto("main", l)
    BY <1>1 DEF RestoreList, RestoreNext, Return
  <2>3. UNCHANGED <<bans, nextId, fw, xmap>>
    BY <1>1 DEF RestoreList, RestoreNext, durable
  <2>4. QED
    BY <1>0, <2>1, <2>2, <2>3, HandsLetGo, TableSame, DropsFewer DEF ShieldStep, Working
<1>2. ASSUME NEW id \in Ids, RestoreRow(id)
      PROVE  ShieldStep
  <2>1. UNCHANGED <<nextId, fw, xmap>>
    BY <1>2 DEF RestoreRow
  <2>2. CASE Contains(bans[id].ip)
    <3>1. UpdateBanStatus(id) /\ UNCHANGED <<pc, tgt>>
      BY <1>2, <2>2 DEF RestoreRow
    <3>2. QED
      BY <2>1, <3>1, HandsSame, TableClosed, DropsFewer DEF ShieldStep
  <2>3. CASE ~Contains(bans[id].ip)
    <3>1. Goto("main", "ban") /\ tgt' = [tgt EXCEPT !["main"] = bans[id].ip] /\ UNCHANGED bans
      BY <1>2, <2>3 DEF RestoreRow
    <3>2. TakesUnlisted
      BY <1>0, <2>3, <3>1, HandsTakeUp
    <3>3. QED
      BY <2>1, <3>1, <3>2, TableSame, DropsFewer DEF ShieldStep
  <2>4. QED
    BY <2>2, <2>3
<1>3. CASE EnforcerStep("main")
  BY <1>0, <1>3, EnforcerShield
<1>4. QED
  BY <1>0, <1>1, <1>2, <1>3, ReconcileShield DEF MainStep, StartupStep

LEMMA ApiShield ==
    ASSUME IInv, NEW t \in ApiThreads, ApiStep(t)
    PROVE  ShieldStep
<1>0. t \in Procs
  BY ProcFacts
<1>1. CASE ApiCheck(t)
  BY <1>0, <1>1, CheckShield DEF ApiCheck, durable
<1>2. CASE ApiInsert(t)
  <2>1. \/ UNCHANGED <<bans, nextId>>
        \/ \E s \in CurrentStatus, e \in Expiries : CreateBan(tgt[t], s, e)
    BY <1>2 DEF ApiInsert, CurrentStatus, Expiries
  <2>2. Return(t, "idle") \/ (Goto(t, "ban") /\ UNCHANGED tgt)
    BY <1>2 DEF ApiInsert
  <2>3. pc[t] = "insert" /\ UNCHANGED <<fw, xmap>>
    BY <1>2 DEF ApiInsert
  <2>4. QED
    BY <1>0, <2>1, <2>2, <2>3, InsertShield
<1>3. CASE ApiBanned(t) \/ ApiExpire(t)
  <2>1. UNCHANGED tgt \/ \E i : tgt' = [tgt EXCEPT ![t] = i]
    BY <1>3 DEF ApiBanned, ApiExpire, Return
  <2>2. \E l \in {"idle", "addwl", "clear"} : Goto(t, l)
    BY <1>3 DEF ApiBanned, ApiExpire, Return
  <2>3. UNCHANGED <<nextId, fw, xmap>>
    BY <1>3 DEF ApiBanned, ApiExpire
  <2>4. \/ UNCHANGED bans
        \/ UpdateBanStatus(cur[t])
        \/ bans' = [bans EXCEPT ![cur[t]].status = "expired"]
    BY <1>3 DEF ApiBanned, ApiExpire
  <2>5. RowsFromHand
    BY <2>3, <2>4, TableSame, TableClosed
  <2>6. QED
    BY <1>0, <2>1, <2>2, <2>3, <2>5, HandsLetGo, DropsFewer DEF ShieldStep, Working
<1>4. CASE ApiUnbanFailed(t) \/ (\E id \in Ids : ApiClear(t, id)) \/ ApiAddWhitelist(t)
  <2>1. UNCHANGED tgt \/ \E i : tgt' = [tgt EXCEPT ![t] = i]
    BY <1>4 DEF ApiUnbanFailed, ApiClear, ApiAddWhitelist, Return
  <2>2. \E l \in {"idle", "expire", "unban", "reload"} : Goto(t, l)
    BY <1>4 DEF ApiUnbanFailed, ApiClear, ApiAddWhitelist, Return
  <2>3. UNCHANGED <<bans, nextId, fw, xmap>>
    BY <1>4 DEF ApiUnbanFailed, ApiClear, ApiAddWhitelist, durable
  <2>4. QED
    BY <1>0, <2>1, <2>2, <2>3, HandsLetGo, TableSame, DropsFewer DEF ShieldStep, Working
<1>5. CASE EnforcerStep(t)
  BY <1>0, <1>5, EnforcerShield
<1>6. QED
  BY <1>0, <1>1, <1>2, <1>3, <1>4, <1>5, ReconcileShield DEF ApiStep

LEMMA EnvironmentShield ==
    ASSUME IInv, Environment
    PROVE  ShieldStep
<1>0. "pipe" \in Procs /\ "main" \in Procs /\ \A t \in ApiThreads : t \in Procs
  BY ProcFacts
<1>1. ASSUME NEW i \in IPs, PipeTake(i)
      PROVE  ShieldStep
  <2>1. ~Contains(i) /\ Goto("pipe", "eval") /\ tgt' = [tgt EXCEPT !["pipe"] = i]
    BY <1>1 DEF PipeTake
  <2>2. UNCHANGED <<bans, nextId, fw, xmap>>
    BY <1>1 DEF PipeTake, durable
  <2>3. QED
    BY <1>0, <2>1, <2>2, HandsTakeUp, TableSame, DropsFewer DEF ShieldStep
<1>2. ASSUME NEW id \in Ids, FallDue(id)
      PROVE  ShieldStep
  <2>1. UNCHANGED <<nextId, fw, xmap, pc, tgt>> /\ bans' = [bans EXCEPT ![id].exp = "due"]
    BY <1>2 DEF FallDue, locals
  <2>2. RowsFromHand
    BY <2>1 DEF RowsFromHand, AddressesKept, IInv, TypeOK, Rows
  <2>3. QED
    BY <2>1, <2>2, HandsSame, DropsFewer DEF ShieldStep
<1>3. CASE LocalRefresh \/ ApiDetach
  <2>1. UNCHANGED <<bans, nextId, fw, xmap, pc, tgt>>
    BY <1>3 DEF LocalRefresh, ApiDetach, CloseXdp, locals, durable
  <2>2. QED
    BY <2>1, HandsSame, TableSame, DropsFewer DEF ShieldStep
<1>4. CASE Sighup \/ Boot
  <2>1. UNCHANGED <<bans, nextId, tgt>> /\ fw' \subseteq fw /\ xmap' \subseteq xmap
    BY <1>4 DEF Sighup, Boot, InitXdp, locals, durable
  <2>2. \E l \in {"reload", "reconcile", "restore"} : Goto("main", l)
    BY <1>4 DEF Sighup, Boot
  <2>3. QED
    BY <1>0, <2>1, <2>2, HandsLetGo, TableSame, DropsFewer DEF ShieldStep, Working
<1>5. CASE Crash
  <2>1. UNCHANGED <<bans, nextId, fw, xmap>> /\ pc' = AllDown
    BY <1>5 DEF Crash, durable
  <2>2. TakesUnlisted
    BY <2>1 DEF TakesUnlisted, AllDown, Working
  <2>3. QED
    BY <2>1, <2>2, TableSame, DropsFewer DEF ShieldStep
<1>6. ASSUME NEW t \in ApiThreads, NEW i \in IPs, ApiCreate(t, i)
      PROVE  ShieldStep
  <2>1. ~Contains(i) /\ Goto(t, "eval") /\ tgt' = [tgt EXCEPT ![t] = i]
    BY <1>6 DEF ApiCreate
  <2>2. UNCHANGED <<bans, nextId, fw, xmap>>
    BY <1>6 DEF ApiCreate, durable
  <2>3. QED
    BY <1>0, <2>1, <2>2, HandsTakeUp, TableSame, DropsFewer DEF ShieldStep
<1>7. ASSUME NEW t \in ApiThreads,
             \/ \E i \in IPs : ApiDelete(t, i)
             \/ \E n \in Nets : ApiWhitelist(t, n) \/ ApiUnwhitelist(t, n)
      PROVE  ShieldStep
  <2>1. UNCHANGED <<bans, nextId, fw, xmap, tgt>>
    BY <1>7 DEF ApiDelete, ApiWhitelist, ApiUnwhitelist, durable, locals
  <2>2. \E l \in {"clear", "addwl", "reload"} : Goto(t, l)
    BY <1>7 DEF ApiDelete, ApiWhitelist, ApiUnwhitelist
  <2>3. QED
    BY <1>0, <2>1, <2>2, HandsLetGo, TableSame, DropsFewer DEF ShieldStep, Working
<1>8. QED
  BY <1>1, <1>2, <1>3, <1>4, <1>5, <1>6, <1>7 DEF Environment, ApiRequest

LEMMA NextShield == IInv /\ [Next]_vars => ShieldStep
<1> SUFFICES ASSUME IInv, [Next]_vars
             PROVE  ShieldStep
  OBVIOUS
<1>1. CASE UNCHANGED vars
  <2>1. UNCHANGED <<bans, nextId, fw, xmap, pc, tgt>>
    BY <1>1 DEF vars, durable, locals
  <2>2. QED
    BY <2>1, HandsSame, TableSame, DropsFewer DEF ShieldStep
<1>2. CASE Next
  BY <1>2, ProcFacts, EnvironmentShield, PipeShield, ExpShield, ReconcileShield, MainShield, ApiShield
  DEF Next, MaintStep
<1>3. QED
  BY <1>1, <1>2

LEMMA BlankStays == IInv /\ ShieldStep /\ BlankAhead => BlankAhead'
<1> SUFFICES ASSUME IInv, ShieldStep, BlankAhead
             PROVE  BlankAhead'
  OBVIOUS
<1>1. CASE AddressesKept
  BY <1>1 DEF AddressesKept, BlankAhead
<1>2. CASE InsertsInHand
  <2>1. PICK i, s, e : CreateBan(i, s, e)
    BY <1>2 DEF InsertsInHand
  <2>2. nextId' = nextId + 1 /\ nextId \in Nat /\ bans \in [Ids -> Rows]
    BY <2>1, ConstantsAssumption DEF CreateBan, IInv, TypeOK
  <2>3. \A id \in Ids : id # nextId => bans'[id] = bans[id]
    BY <2>1, <2>2 DEF CreateBan
  <2>4. ASSUME NEW id \in Ids, id >= nextId'
        PROVE  bans'[id].ip = NoIP
    BY <2>2, <2>3, <2>4, ConstantsAssumption DEF BlankAhead, Ids
  <2>5. QED
    BY <2>4 DEF BlankAhead
<1>3. QED
  BY <1>1, <1>2 DEF ShieldStep, RowsFromHand

LEMMA ShieldHolds ==
    ASSUME IInv, BlankAhead, ShieldStep, NEW i \in IPs, Contains(i), ~InHand(i)
    PROVE  /\ ~InHand(i)'
           /\ RowsOf(i)' = RowsOf(i)
           /\ i \in (fw \cup xmap)' => i \in fw \cup xmap
<1>1. \A p \in Procs : tgt[p] = i => pc[p] \notin Working
  BY DEF InHand, Working
<1>2. \A p \in Procs : tgt'[p] = i => pc'[p] \notin Working
  BY <1>1 DEF ShieldStep, TakesUnlisted
<1>3. ~InHand(i)'
  BY <1>2 DEF InHand, Working
<1>4. ASSUME AddressesKept
      PROVE  RowsOf(i)' = RowsOf(i)
  BY <1>4 DEF AddressesKept, RowsOf
<1>5. ASSUME InsertsInHand
      PROVE  RowsOf(i)' = RowsOf(i)
  <2>1. PICK p \in Procs, s \in CurrentStatus, e \in Expiries :
            pc[p] = "insert" /\ CreateBan(tgt[p], s, e)
    BY <1>5 DEF InsertsInHand
  <2>2. tgt[p] # i
    BY <1>1, <2>1 DEF Working
  <2>3. nextId \in Ids /\ bans \in [Ids -> Rows]
    BY <2>1 DEF CreateBan, IInv, TypeOK
  <2>4. bans[nextId].ip # i
    BY <2>3, ConstantsAssumption DEF BlankAhead, Ids
  <2>5. bans'[nextId].ip # i /\ \A id \in Ids : id # nextId => bans'[id] = bans[id]
    BY <2>1, <2>2, <2>3 DEF CreateBan
  <2>6. \A id \in Ids : bans'[id].ip = i <=> bans[id].ip = i
    BY <2>4, <2>5
  <2>7. QED
    BY <2>6 DEF RowsOf
<1>6. RowsOf(i)' = RowsOf(i)
  BY <1>4, <1>5 DEF ShieldStep, RowsFromHand
<1>7. i \in (fw \cup xmap)' => i \in fw \cup xmap
  BY <1>1 DEF ShieldStep, DropsFromHand
<1>8. QED
  BY <1>3, <1>6, <1>7

(* A whitelist entry protects from the moment no goroutine has the address  *)
(* in hand: whatever threats, requests, restores, expiries, reloads, faults *)
(* and crashes follow, it is not taken up, recorded or dropped anew         *)
(* (engine.go:42, handlers.go handleCreateBan, daemon.go restoreBans).      *)
THEOREM Shields == Spec => WhitelistShields
<1>1. Init => BlankAhead
  BY DEF Init, BlankAhead, NoRow
<1>2. IInv /\ [Next]_vars /\ BlankAhead => BlankAhead'
  BY NextShield, BlankStays
<1>3. IInv /\ BlankAhead /\ [Next]_vars =>
        [\A i \in IPs : (Contains(i) /\ ~InHand(i)) =>
            /\ ~InHand(i)'
            /\ RowsOf(i)' = RowsOf(i)
            /\ i \in (fw \cup xmap)' => i \in fw \cup xmap]_vars
  BY NextShield, ShieldHolds
<1>4. QED
  BY <1>1, <1>2, <1>3, Inductive, PTL DEF Spec, WhitelistShields
----------------------------------------------------------------------------
(* ReloadDynamic lists the table and swaps the list in two steps, so two    *)
(* reloads at a time can swap in the wrong order.  The damage is confined   *)
(* to entries whose rows changed meanwhile.                                 *)

SettleStep ==
    \A n \in Nets :
        (Agreed(n) /\ pc'["main"] # "down" /\ (n \in wlDB' <=> n \in wlDB)) => Agreed(n)'

(* Steps that neither read a list nor install one.                          *)
QuietList(p) ==
    /\ UNCHANGED <<wlMem, list>>
    /\ pc' = pc \/ \E l : l # "setwl" /\ Goto(p, l)

LEMMA QuietSettles ==
    ASSUME IInv, NEW p \in Procs, QuietList(p)
    PROVE  SettleStep
<1>1. pc \in [Procs -> PCs]
  BY DEF IInv, TypeOK
<1>2. \A q \in Procs : pc'[q] = "setwl" => pc[q] = "setwl"
  <2>1. CASE pc' = pc
    BY <2>1
  <2>2. CASE \E l : l # "setwl" /\ Goto(p, l)
    BY <1>1, <2>2 DEF Goto
  <2>3. QED
    BY <2>1, <2>2 DEF QuietList
<1>3. QED
  BY <1>2 DEF SettleStep, Agreed, QuietList

LEMMA EnforcerQuiet ==
    ASSUME NEW p \in Procs, EnforcerStep(p)
    PROVE  QuietList(p)
<1>1. UNCHANGED <<wlMem, list>>
  BY DEF EnforcerStep, BanBase, BanXdp, UnbanBase, UnbanXdp, whitelist, locals
<1>2. \E l \in {"banX", "banned", "unbanX", "unbanned"} : Goto(p, l)
  BY DEF EnforcerStep, BanBase, BanXdp, UnbanBase, UnbanXdp
<1>3. QED
  BY <1>1, <1>2 DEF QuietList

LEMMA ReconcileQuiet ==
    ASSUME NEW p \in Procs, ReconcileStep(p)
    PROVE  QuietList(p)
<1>1. UNCHANGED <<wlMem, list>>
  BY DEF ReconcileStep, RecStart, RecWant, RecHave, RecDel, whitelist
<1>2. UNCHANGED pc \/ \E l \in {"recwant", "rechave", "recdel", "restore", "idle"} : Goto(p, l)
  BY DEF ReconcileStep, RecStart, RecWant, RecHave, RecDel, RecEnd
<1>3. QED
  BY <1>1, <1>2 DEF QuietList

LEMMA PipeQuiet ==
    ASSUME PipeStep \/ \E i \in IPs : PipeTake(i)
    PROVE  QuietList("pipe")
<1>1. CASE EnforcerStep("pipe")
  BY <1>1, ProcFacts, EnforcerQuiet
<1>2. CASE PipeCheck \/ PipeInsert \/ PipeDone \/ \E i \in IPs : PipeTake(i)
  <2>1. UNCHANGED <<wlMem, list>>
    BY <1>2 DEF PipeCheck, PipeInsert, PipeDone, PipeTake, whitelist
  <2>2. \E l \in {"eval", "insert", "ban", "idle"} : Goto("pipe", l)
    BY <1>2 DEF PipeCheck, PipeInsert, PipeDone, PipeTake, Return
  <2>3. QED
    BY <2>1, <2>2 DEF QuietList
<1>3. QED
  BY <1>1, <1>2 DEF PipeStep

LEMMA ExpQuiet ==
    ASSUME ExpStep
    PROVE  QuietList("exp")
<1>1. CASE EnforcerStep("exp")
  BY <1>1, ProcFacts, EnforcerQuiet
<1>2. CASE ExpTick \/ ExpDone \/ \E id \in Ids : ExpMark(id)
  <2>1. UNCHANGED <<wlMem, list>>
    BY <1>2 DEF ExpTick, ExpDone, ExpMark, whitelist
  <2>2. \E l \in {"idle", "scan", "unban"} : Goto("exp", l)
    BY <1>2 DEF ExpTick, ExpDone, ExpMark, NextScan, Return
  <2>3. QED
    BY <2>1, <2>2 DEF QuietList
<1>3. QED
  BY <1>1, <1>2 DEF ExpStep

LEMMA StartupQuiet ==
    ASSUME StartupStep \/ Sighup
    PROVE  QuietList("main")
<1>1. CASE EnforcerStep("main") \/ ReconcileStep("main")
  BY <1>1, ProcFacts, EnforcerQuiet, ReconcileQuiet
<1>2. CASE RestoreList \/ RestoreNext \/ Sighup \/ \E id \in Ids : RestoreRow(id)
  <2>1. UNCHANGED <<wlMem, list>>
    BY <1>2 DEF RestoreList, RestoreNext, RestoreRow, Sighup, whitelist, locals
  <2>2. UNCHANGED pc \/ \E l \in {"restoring", "serve", "ban", "reload"} : Goto("main", l)
    BY <1>2 DEF RestoreList, RestoreNext, RestoreRow, Sighup, Return
  <2>3. QED
    BY <2>1, <2>2 DEF QuietList
<1>3. QED
  BY <1>1, <1>2 DEF StartupStep

LEMMA ApiQuiet ==
    ASSUME NEW t \in ApiThreads,
           \/ ApiCheck(t) \/ ApiInsert(t) \/ ApiBanned(t) \/ ApiUnbanFailed(t) \/ ApiExpire(t)
           \/ ApiAddWhitelist(t)
           \/ \E id \in Ids : ApiClear(t, id)
           \/ \E i \in IPs : ApiCreate(t, i) \/ ApiDelete(t, i)
           \/ \E n \in Nets : ApiWhitelist(t, n) \/ ApiUnwhitelist(t, n)
    PROVE  QuietList(t)
<1>1. UNCHANGED <<wlMem, list>>
  BY DEF ApiCheck, ApiInsert, ApiBanned, ApiUnbanFailed, ApiExpire, ApiClear, ApiCreate, ApiDelete,
         ApiAddWhitelist, ApiWhitelist, ApiUnwhitelist, whitelist, locals
<1>2. \E l \in {"idle", "insert", "ban", "addwl", "clear", "expire", "unban", "eval", "reload"} : Goto(t, l)
  BY DEF ApiCheck, ApiInsert, ApiBanned, ApiUnbanFailed, ApiExpire, ApiClear, ApiCreate, ApiDelete,
         ApiAddWhitelist, ApiWhitelist, ApiUnwhitelist, Return
<1>3. QED
  BY <1>1, <1>2 DEF QuietList

(* A list is read from the table; an agreed entry is the same in a list     *)
(* that is installed, whichever reload read it and however long ago.        *)
LEMMA ReloadSettles ==
    ASSUME IInv, NEW p \in Procs, ReloadStep(p)
    PROVE  SettleStep
<1>1. pc \in [Procs -> PCs] /\ list \in [Procs -> SUBSET Nets]
  BY DEF IInv, TypeOK
<1>2. CASE ReloadList(p)
  <2>1. UNCHANGED <<wlDB, wlMem>>
    BY <1>2 DEF ReloadList, durable, whitelist
  <2>2. CASE list' = [list EXCEPT ![p] = wlDB] /\ Goto(p, "setwl")
    <3>1. list'[p] = wlDB /\ \A q \in Procs \ {p} : list'[q] = list[q] /\ pc'[q] = pc[q]
      BY <1>1, <2>2 DEF Goto
    <3>2. QED
      BY <2>1, <3>1 DEF SettleStep, Agreed
  <2>3. CASE Return(p, ReloadEnd(p)) /\ UNCHANGED list
    <3>1. QuietList(p)
      BY <2>1, <2>3 DEF Return, ReloadEnd, QuietList
    <3>2. QED
      BY <3>1, QuietSettles
  <2>4. QED
    BY <1>2, <2>2, <2>3 DEF ReloadList, ListWhitelist
<1>3. CASE ReloadSet(p)
  <2>1. pc[p] = "setwl" /\ wlMem' = list[p] /\ UNCHANGED wlDB
    BY <1>3 DEF ReloadSet, durable
  <2>2. \A q \in Procs : pc'[q] = "setwl" => pc[q] = "setwl" /\ list'[q] = list[q]
    BY <1>1, <1>3 DEF ReloadSet, Return, ReloadEnd, Goto
  <2>3. QED
    BY <2>1, <2>2 DEF SettleStep, Agreed
<1>4. QED
  BY <1>2, <1>3 DEF ReloadStep

LEMMA BootSettles ==
    ASSUME IInv, Boot
    PROVE  SettleStep
<1>1. pc \in [Procs -> PCs]
  BY DEF IInv, TypeOK
<1>2. wlMem' = wlDB' /\ UNCHANGED <<wlDB, list>>
  BY DEF Boot, LoadWhitelist, ListWhitelist, locals
<1>3. \E l \in {"reconcile", "restore"} : Goto("main", l)
  BY DEF Boot
<1>4. \A q \in Procs : pc'[q] = "setwl" => pc[q] = "setwl"
  BY <1>1, <1>3 DEF Goto
<1>5. QED
  BY <1>2, <1>4 DEF SettleStep, Agreed

LEMMA NextSettles == IInv /\ [Next]_vars => SettleStep
<1> SUFFICES ASSUME IInv, [Next]_vars
             PROVE  SettleStep
  OBVIOUS
<1>0. "pipe" \in Procs /\ "exp" \in Procs /\ "main" \in Procs /\ "maint" \in Procs /\ ApiThreads \subseteq Procs
  BY ProcFacts
<1>1. CASE UNCHANGED vars \/ LocalRefresh \/ ApiDetach \/ \E id \in Ids : FallDue(id)
  <2>1. UNCHANGED <<wlMem, list, pc>>
    BY <1>1 DEF vars, durable, locals, whitelist, LocalRefresh, ApiDetach, FallDue
  <2>2. QED
    BY <1>0, <2>1, QuietSettles DEF QuietList
<1>2. CASE PipeStep \/ ExpStep \/ MaintStep \/ \E i \in IPs : PipeTake(i)
  BY <1>0, <1>2, QuietSettles, PipeQuiet, ExpQuiet, ReconcileQuiet DEF MaintStep
<1>3. CASE MainStep \/ Sighup
  BY <1>0, <1>3, QuietSettles, StartupQuiet, ReloadSettles DEF MainStep
<1>4. ASSUME NEW t \in ApiThreads, ApiStep(t) \/ ApiRequest(t)
      PROVE  SettleStep
  <2>1. CASE EnforcerStep(t) \/ ReloadStep(t)
    BY <1>0, <2>1, EnforcerQuiet, QuietSettles, ReloadSettles
  <2>2. QED
    BY <1>0, <1>4, <2>1, ApiQuiet, QuietSettles DEF ApiStep, ApiRequest
<1>5. CASE Boot
  BY <1>5, BootSettles
<1>6. CASE Crash
  BY <1>0, <1>6 DEF Crash, AllDown, SettleStep
<1>7. QED
  BY <1>1, <1>2, <1>3, <1>4, <1>5, <1>6 DEF Next, Environment

(* However many handlers and signals reload the whitelist at a time, over a *)
(* store that may fail at each of them, an entry on which the table, the    *)
(* list in memory and the lists in flight agree is moved by no reload: only *)
(* a request for that very entry, or the end of the process, does           *)
(* (whitelist.go ReloadDynamic, handlers.go handleAddWhitelist).            *)
THEOREM Settles == Spec => WhitelistSettles
<1>1. IInv /\ [Next]_vars =>
        [\A n \in Nets :
            (Agreed(n) /\ pc'["main"] # "down" /\ (n \in wlDB' <=> n \in wlDB)) => Agreed(n)']_vars
  BY NextSettles DEF SettleStep
<1>2. QED
  BY <1>1, Inductive, PTL DEF Spec, WhitelistSettles
=============================================================================
