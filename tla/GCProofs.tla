------------------------------ MODULE GCProofs ------------------------------
(* Proofs about GC, for any number of servers, stores, backups, transactions and *)
(* setups: every variable keeps its type, no safe point overtakes a backup that   *)
(* PD holds, and RECOVER TABLE leaves GC as it found it.                          *)
EXTENDS GC, TLAPS

USE ZenonT(5), SMTT(30)    \* the provers of a step that names none

Service == Backup \cup {"gc_worker"}
Tidb == [leader : Server, lease : Nat, lastRun : Nat, safePoint : Nat, enable : BOOLEAN]
Etcd == [saved : Nat, min : [Server -> Nat \cup {None}]]
PD == [service : [Service -> Nat \cup {None}], gc : Nat]
Worker == [pc : WorkerPC, now : Nat, last : Nat, value : Nat, tick : Nat, finish : Nat]
Job == [pc : JobPC, sp : Nat, wake : Nat]
Transaction == [pc : {"none", "running", "finished", "aborted"}, start : Nat]
Report == [pc : {"idle", "listed"}, list : SUBSET Nat, time : Nat]
Cache == [sp : Nat, time : Nat]
Table == [pc : {"live", "dropping", "dropped", "recovered"}, snapshot : Nat, ts : Nat,
          row : {"none", "todo", "done", "gone"}, destroyed : SUBSET Store]
BackupTask == [pc : {"none", "checked", "running", "failed", "finished"}, ts : Nat]

\* A worker takes the life time off a time that is not below it, and a backup was checked against
\* the safe point: no timestamp becomes negative.
Calculating == \A w \in Server : worker[w].pc = "calc" => worker[w].now >= LifeTime
Checked == \A b \in Backup : br[b].pc \in {"checked", "running"} => br[b].ts >= 1

Typed ==
    /\ setup \in Setups /\ tso \in Nat /\ tso >= TS(LifeTime) /\ up \subseteq Server
    /\ tidb \in Tidb /\ etcd \in Etcd /\ pd \in PD
    /\ worker \in [Server -> Worker] /\ job \in [Server -> Job] /\ txn \in [Txn -> Transaction]
    /\ report \in [Server -> Report] /\ cache \in [Server -> Cache] /\ tbl \in Table
    /\ br \in [Backup -> BackupTask]
    /\ Calculating /\ Checked

\* The oracle's conversions keep integers, ...
LEMMA Times ==
    /\ \A n \in Int : TS(n) \in Int /\ Physical(n) \in Int
    /\ \A n \in Nat : TS(n) \in Nat /\ Physical(n) \in Nat
  BY GCAssumption DEF TS, Physical

\* ... are monotone, and a timestamp lies between its physical time and the next.
LEMMA Order ==
    /\ \A n \in Int : TS(Physical(n)) <= n /\ n < TS(Physical(n)) + Logical
    /\ \A m, n \in Int : m <= n => TS(m) <= TS(n) /\ Physical(m) <= Physical(n)
    /\ \A m \in Int : TS(m + 1) = TS(m) + Logical /\ Physical(TS(m)) = m
    /\ \A m, n \in Int : n >= TS(m) => Physical(n) >= m
    /\ TS(0) = 0
  <1>0. Logical \in Int /\ Logical > 1
    BY GCAssumption
  <1>1. \A n \in Int : TS(Physical(n)) <= n /\ n < TS(Physical(n)) + Logical
    BY <1>0 DEF TS, Physical
  <1>2. \A m, n \in Int : m <= n => TS(m) <= TS(n)
    BY <1>0 DEF TS
  <1>3. \A m, n \in Int : m <= n => Physical(m) <= Physical(n)
    BY <1>0 DEF Physical
  <1>4. \A m \in Int : TS(m + 1) = TS(m) + Logical
    BY <1>0 DEF TS
  <1>5. \A m \in Int : Physical(TS(m)) = m
    BY <1>0 DEF TS, Physical
  <1>6. \A m, n \in Int : n >= TS(m) => Physical(n) >= m
    BY <1>0 DEF TS, Physical
  <1>7. TS(0) = 0
    BY <1>0 DEF TS
  <1> QED  BY <1>1, <1>2, <1>3, <1>4, <1>5, <1>6, <1>7

\* The next physical time.
LEMMA StepOf == \A m \in Int : TS(m + 1) = TS(m) + Logical
  BY Order

\* The time, and the newest safe point that the life time allows.
LEMMA Present ==
    ASSUME Typed
    PROVE  /\ Now \in Nat /\ Now >= LifeTime /\ Now + 1 \in Nat
           /\ TS(Now) \in Nat /\ TS(Now - LifeTime) \in Nat
           /\ TS(Now) <= tso /\ tso < TS(Now + 1) /\ TS(Now + 1) \in Nat
  <1>1. tso \in Nat /\ tso \in Int /\ tso >= TS(LifeTime) /\ LifeTime \in Nat /\ LifeTime \in Int
    BY GCAssumption DEF Typed
  <1>2. Physical(tso) \in Nat /\ Physical(tso) >= LifeTime
    BY <1>1, Times, Order
  <1>3. Physical(tso) - LifeTime \in Nat /\ Physical(tso) + 1 \in Nat /\ Physical(tso) \in Int
    BY <1>1, <1>2
  <1>4. /\ TS(Physical(tso)) \in Nat /\ TS(Physical(tso) - LifeTime) \in Nat
        /\ TS(Physical(tso) + 1) \in Nat /\ TS(Physical(tso) + 1) = TS(Physical(tso)) + Logical
    <2>1. TS(Physical(tso)) \in Nat  BY <1>2, Times
    <2>2. TS(Physical(tso) - LifeTime) \in Nat  BY <1>3, Times
    <2>3. TS(Physical(tso) + 1) \in Nat  BY <1>3, Times
    <2>4. TS(Physical(tso) + 1) = TS(Physical(tso)) + Logical  BY <1>3, StepOf
    <2> QED  BY <2>1, <2>2, <2>3, <2>4
  <1>5. TS(Physical(tso)) <= tso /\ tso < TS(Physical(tso)) + Logical
    BY <1>1, Order
  <1> QED  BY <1>2, <1>3, <1>4, <1>5 DEF Now

\* Init has the types.
LEMMA InitTyped == Init => Typed
  <1> SUFFICES ASSUME Init PROVE Typed
    OBVIOUS
  <1>1. TS(LifeTime) \in Nat /\ LifeTime \in Nat /\ TS(LifeTime) >= TS(LifeTime)
    BY GCAssumption, Times
  <1>2. setup \in Setups /\ tso \in Nat /\ tso >= TS(LifeTime) /\ up \subseteq Server
    BY <1>1 DEF Init
  <1>3. tidb \in Tidb /\ etcd \in Etcd /\ pd \in PD
    BY <1>2, GCAssumption DEF Init, Tidb, Etcd, PD, Service
  <1>4. worker \in [Server -> Worker] /\ job \in [Server -> Job]
    BY <1>1 DEF Init, Worker, Job, Idle, NoJob, WorkerPC, JobPC
  <1>5. txn \in [Txn -> Transaction] /\ tbl \in Table
    <2>1. setup.txn \in [Txn -> Transaction]
      BY <1>2, GCAssumption DEF Transaction
    <2>2. setup.tbl \in Table
      BY <1>2, StartAssumption DEF Table
    <2> QED  BY <2>1, <2>2 DEF Init
  <1>6. report \in [Server -> Report] /\ cache \in [Server -> Cache] /\ br \in [Backup -> BackupTask]
    BY <1>1 DEF Init, Report, Cache, BackupTask
  <1>7. Calculating /\ Checked
    BY DEF Init, Calculating, Checked, Idle
  <1> QED  BY <1>2, <1>3, <1>4, <1>5, <1>6, <1>7 DEF Typed

\* What the steps read of the types.
LEMMA FieldsNat ==
    ASSUME Typed
    PROVE  /\ \A w \in Server : worker[w].now \in Nat /\ worker[w].value \in Nat /\ worker[w].tick \in Nat
                                /\ worker[w].finish \in Nat /\ job[w].sp \in Nat /\ report[w].list \subseteq Nat
           /\ tidb.safePoint \in Nat
           /\ \A t \in Txn : txn[t].start \in Nat
           /\ \A b \in Backup : br[b].ts \in Nat
           /\ calcGlobalMinStartTS \subseteq Nat
           /\ pd.gc \in Nat /\ pd.service \in [Service -> Nat \cup {None}] /\ Services(pd.service) \subseteq Nat
  BY DEF Typed, Tidb, Etcd, PD, Worker, Job, Transaction, Report, BackupTask, calcGlobalMinStartTS, Services

LEMMA Fields ==
    ASSUME Typed
    PROVE  /\ \A w \in Server : worker[w].now \in Int /\ worker[w].value \in Int /\ worker[w].tick \in Int
                                /\ worker[w].finish \in Int /\ job[w].sp \in Int /\ report[w].list \subseteq Int
           /\ tidb.safePoint \in Int
           /\ \A t \in Txn : txn[t].start \in Int
           /\ \A b \in Backup : br[b].ts \in Int
           /\ calcGlobalMinStartTS \subseteq Int
           /\ pd.gc \in Int /\ pd.service \in [Service -> Int \cup {None}] /\ Services(pd.service) \subseteq Int
  BY FieldsNat

\* A step of a tick keeps the types of the workers.
LEMMA StepTyped ==
    ASSUME Typed, NEW w \in Server, NEW from, NEW to \in WorkerPC \ {"calc"}, Step(w, from, to)
    PROVE  worker' \in [Server -> Worker] /\ Calculating'
  <1>1. CASE to = "idle"
    <2>1. Idle(worker[w].tick, worker[w].finish) \in Worker
      BY FieldsNat DEF Idle, Worker, WorkerPC
    <2>2. worker' = [worker EXCEPT ![w] = Idle(worker[w].tick, worker[w].finish)]
      BY <1>1 DEF Step
    <2>3. worker' \in [Server -> Worker]
      BY <2>1, <2>2 DEF Typed
    <2>4. Calculating'
      BY <2>2 DEF Typed, Calculating, Idle
    <2> QED  BY <2>3, <2>4
  <1>2. CASE to # "idle"
    <2>1. worker' = [worker EXCEPT ![w] = [worker[w] EXCEPT !.pc = to]] /\ worker[w] \in Worker
      BY <1>2 DEF Step, Typed
    <2>2. worker' \in [Server -> Worker]
      BY <2>1 DEF Typed, Worker
    <2>3. Calculating'
      BY <2>1 DEF Typed, Calculating, Worker
    <2> QED  BY <2>2, <2>3
  <1> QED  BY <1>1, <1>2

\* PD's update keeps the type of the service safe points.
LEMMA UpdateTyped ==
    ASSUME Typed, NEW id \in Service, NEW sp \in Nat
    PROVE  UpdateServiceGCSafePoint(id, sp) \in [Service -> Nat \cup {None}]
  BY FieldsNat DEF UpdateServiceGCSafePoint

-----------------------------------------------------------------------------
(* The steps by who takes them, and what they leave alone. *)

TickStep(s) ==
    \/ CheckLeader(s) \/ LoadLease(s) \/ Register(s) \/ SaveLease(s) \/ CheckPrepare(s) \/ CalcSafePoint(s)
    \/ SetServiceSafePoint(s) \/ SaveLastRun(s) \/ SaveSafePoint(s) \/ TickFails(s)
RunStep(s) ==
    \/ ResolveLocks(s) \/ SaveSafePointKV(s) \/ LoadDeleteRanges(s) \/ UnsafeDestroyRange(s) \/ CompleteDeleteRange(s)
    \/ RedoDeleteRanges(s) \/ UploadSafePoint(s) \/ JobFails(s) \/ JobDone(s)
ReportStep(s) == ListProcesses(s) \/ StoreMinStartTS(s) \/ ExpireMinStartTS(s)
BackupStep(b) ==
    StartBackup(b) \/ UpdateServiceSafePoint(b) \/ KeeperPanics(b) \/ FinishBackup(b) \/ ExpireService(b)
TableStep ==
    \/ DropTable \/ InsertDeleteRange \/ RecoverTable \/ SetCheckFlag \/ DisableGC \/ CheckSafePoint
    \/ RemoveFromGCDeleteRange \/ CommitRecover \/ FinishRecoverTable

\* Every step is one of these.
LEMMA Sorted ==
    ASSUME [Next]_vars
    PROVE  \/ \E s \in Server : TickStep(s) \/ RunStep(s) \/ ReportStep(s) \/ LoadSafePoint(s) \/ Crash(s)
           \/ \E t \in Txn : Begin(t) \/ Finish(t)
           \/ \E b \in Backup : BackupStep(b)
           \/ TableStep \/ Tick \/ UNCHANGED vars
  BY DEF Next, TickStep, RunStep, ReportStep, BackupStep, TableStep

\* A tick changes its worker, mysql.tidb, the service safe points and, with its last step, its job.
LEMMA TickFrame ==
    ASSUME NEW s \in Server, TickStep(s)
    PROVE  /\ UNCHANGED <<setup, tso, etcd, up, txn, report, cache, tbl, ddl, br>>
           /\ SaveSafePoint(s) \/ UNCHANGED job
           /\ SetServiceSafePoint(s) \/ UNCHANGED pd
  BY DEF TickStep, CheckLeader, LoadLease, Register, SaveLease, CheckPrepare, CalcSafePoint, SetServiceSafePoint,
         SaveLastRun, SaveSafePoint, TickFails

\* A job changes itself, and with some steps what these are for.
LEMMA RunFrame ==
    ASSUME NEW s \in Server, RunStep(s)
    PROVE  /\ UNCHANGED <<setup, tso, tidb, up, report, cache, ddl, br>>
           /\ JobDone(s) \/ UNCHANGED worker
           /\ UploadSafePoint(s) \/ UNCHANGED pd
           /\ SaveSafePointKV(s) \/ UNCHANGED etcd
           /\ ResolveLocks(s) \/ UNCHANGED txn
           /\ UnsafeDestroyRange(s) \/ CompleteDeleteRange(s) \/ RedoDeleteRanges(s) \/ UNCHANGED tbl
           /\ SaveSafePointKV(s) \/ JobDone(s) \/ \E from \in JobPC \ {"none"}, to \in JobPC \ {"none"} : JobStep(s, from, to)
  <1>1. UNCHANGED <<setup, tso, tidb, up, report, cache, ddl, br>>
    BY DEF RunStep, ResolveLocks, SaveSafePointKV, LoadDeleteRanges, UnsafeDestroyRange, CompleteDeleteRange,
           RedoDeleteRanges, UploadSafePoint, JobFails, JobDone
  <1>2. /\ JobDone(s) \/ UNCHANGED worker
        /\ UploadSafePoint(s) \/ UNCHANGED pd
        /\ SaveSafePointKV(s) \/ UNCHANGED etcd
    BY DEF RunStep, ResolveLocks, SaveSafePointKV, LoadDeleteRanges, UnsafeDestroyRange, CompleteDeleteRange,
           RedoDeleteRanges, UploadSafePoint, JobFails, JobDone
  <1>3. /\ ResolveLocks(s) \/ UNCHANGED txn
        /\ UnsafeDestroyRange(s) \/ CompleteDeleteRange(s) \/ RedoDeleteRanges(s) \/ UNCHANGED tbl
    BY DEF RunStep, ResolveLocks, SaveSafePointKV, LoadDeleteRanges, UnsafeDestroyRange, CompleteDeleteRange,
           RedoDeleteRanges, UploadSafePoint, JobFails, JobDone
  <1>4. SaveSafePointKV(s) \/ JobDone(s) \/ \E from \in JobPC \ {"none"}, to \in JobPC \ {"none"} : JobStep(s, from, to)
    BY DEF RunStep, ResolveLocks, LoadDeleteRanges, UnsafeDestroyRange, CompleteDeleteRange,
           RedoDeleteRanges, UploadSafePoint, JobFails, JobPC
  <1> QED  BY <1>1, <1>2, <1>3, <1>4

\* Reports, ...
LEMMA ReportFrame ==
    ASSUME NEW s \in Server, ReportStep(s)
    PROVE  /\ UNCHANGED <<setup, tso, tidb, pd, up, worker, job, txn, cache, tbl, ddl, br>>
           /\ ListProcesses(s) => UNCHANGED etcd
           /\ ExpireMinStartTS(s) => UNCHANGED report
  BY DEF ReportStep, ListProcesses, StoreMinStartTS, ExpireMinStartTS

\* ... backups, ...
LEMMA BackupFrame ==
    ASSUME NEW b \in Backup, BackupStep(b)
    PROVE  /\ UNCHANGED <<setup, tso, tidb, etcd, up, worker, job, txn, report, cache, tbl, ddl>>
           /\ StartBackup(b) \/ KeeperPanics(b) => UNCHANGED pd
           /\ ExpireService(b) => UNCHANGED br
  BY DEF BackupStep, StartBackup, UpdateServiceSafePoint, KeeperPanics, FinishBackup, ExpireService

\* ... and DROP and RECOVER TABLE leave the workers and their jobs alone.
LEMMA TableFrame ==
    ASSUME TableStep
    PROVE  /\ UNCHANGED <<setup, etcd, pd, up, worker, job, txn, report, cache, br>>
           /\ UNCHANGED tso \/ (tso' = tso + 1 /\ Physical(tso + 1) = Now)
           /\ DisableGC \/ FinishRecoverTable \/ UNCHANGED tidb
  BY DEF TableStep, DropTable, InsertDeleteRange, RecoverTable, SetCheckFlag, DisableGC, CheckSafePoint,
         RemoveFromGCDeleteRange, CommitRecover, FinishRecoverTable, NewTS

\* A tick keeps the types.
LEMMA TickTyped ==
    ASSUME Typed, NEW s \in Server, TickStep(s)
    PROVE  Typed'
  <1>t. Now \in Nat /\ Now >= LifeTime /\ LifeTime \in Nat /\ Now + WorkerLease \in Nat
    BY Present, GCAssumption
  <1>1. worker' \in [Server -> Worker] /\ Calculating'
    <2>1. CASE CheckLeader(s)
      BY <1>t, <2>1 DEF CheckLeader, Typed, Worker, WorkerPC, Calculating
    <2>2. CASE LoadLease(s) \/ Register(s) \/ SaveLease(s) \/ SaveLastRun(s) \/ SaveSafePoint(s) \/ TickFails(s)
      BY <2>2, StepTyped DEF LoadLease, Register, SaveLease, SaveLastRun, SaveSafePoint, TickFails, WorkerPC
    <2>3. CASE CheckPrepare(s)
      <3>1. CASE Step(s, "prepare", "idle")  BY <3>1, StepTyped DEF WorkerPC
      <3>2. CASE worker' = [worker EXCEPT ![s].pc = "calc", ![s].now = Now, ![s].last = tidb.safePoint]
        <4>1. ASSUME NEW n \in Nat, NEW l \in Nat
              PROVE  [worker[s] EXCEPT !.pc = "calc", !.now = n, !.last = l] \in Worker
          BY ZenonT(60) DEF Typed, Worker, WorkerPC
        <4>2. worker' \in [Server -> Worker]
          BY <1>t, <3>2, <4>1, FieldsNat DEF Typed
        <4>3. Calculating'
          BY <1>t, <3>2 DEF Typed, Calculating, Worker
        <4> QED  BY <4>2, <4>3
      <3> QED  BY <2>3, <3>1, <3>2 DEF CheckPrepare
    <2>4. CASE CalcSafePoint(s)
      <3>1. PICK value : /\ value \in calcSafePointByMinStartTS(TS(worker[s].now - LifeTime)) \cup {TS(worker[s].now - LifeTime)}
                         /\ worker' = [worker EXCEPT ![s].pc = "service", ![s].value = value]
        BY <2>4 DEF CalcSafePoint
      <3>2. TS(worker[s].now - LifeTime) \in Nat
        <4>1. worker[s].now - LifeTime \in Nat
          BY <1>t, <2>4, FieldsNat DEF Typed, Calculating, CalcSafePoint
        <4> QED  BY <4>1, Times
      <3>3. value \in Nat
        BY <3>1, <3>2, FieldsNat DEF calcSafePointByMinStartTS, Least
      <3> QED  BY ZenonT(60), <3>1, <3>3 DEF Typed, Worker, WorkerPC, Calculating
    <2>5. CASE SetServiceSafePoint(s)
      <3> DEFINE service == UpdateServiceGCSafePoint("gc_worker", worker[s].value)
      <3>1. CASE Step(s, "service", "idle")  BY <3>1, StepTyped DEF WorkerPC
      <3>2. ASSUME NEW safePoint \in Least({worker[s].value} \cup Services(service)),
                   worker' = [worker EXCEPT ![s].pc = "run", ![s].value = safePoint]
            PROVE  worker' \in [Server -> Worker] /\ Calculating'
        <4>1. worker[s].value \in Nat /\ service \in [Service -> Nat \cup {None}]
          BY FieldsNat, UpdateTyped DEF Service
        <4>2. safePoint \in Nat
          BY <4>1 DEF Least, Services
        <4>3. worker' \in [Server -> Worker]
          BY ZenonT(60), <3>2, <4>2 DEF Typed, Worker, WorkerPC
        <4>4. Calculating'
          BY <3>2 DEF Typed, Calculating, Worker
        <4> QED  BY <4>3, <4>4
      <3> QED  BY <2>5, <3>1, <3>2 DEF SetServiceSafePoint
    <2> QED  BY <2>1, <2>2, <2>3, <2>4, <2>5 DEF TickStep
  <1>2. tidb' \in Tidb
    <2>1. worker[s].now \in Nat /\ Physical(worker[s].value) \in Nat
      BY FieldsNat, Times
    <2>2. \/ UNCHANGED tidb \/ tidb' = [tidb EXCEPT !.leader = s] \/ tidb' = [tidb EXCEPT !.lease = Now + WorkerLease]
          \/ tidb' = [tidb EXCEPT !.lastRun = worker[s].now] \/ tidb' = [tidb EXCEPT !.safePoint = Physical(worker[s].value)]
      BY DEF TickStep, CheckLeader, LoadLease, Register, SaveLease, CheckPrepare, CalcSafePoint,
             SetServiceSafePoint, SaveLastRun, SaveSafePoint, TickFails
    <2> QED  BY <1>t, <2>1, <2>2 DEF Typed, Tidb
  <1>3. pd' \in PD
    <2>1. CASE SetServiceSafePoint(s)
      <3>1. worker[s].value \in Nat  BY FieldsNat
      <3> QED  BY <2>1, <3>1, UpdateTyped DEF SetServiceSafePoint, Typed, PD, Service
    <2> QED  BY <2>1, TickFrame DEF Typed
  <1>4. job' \in [Server -> Job]
    <2>1. CASE SaveSafePoint(s)
      <3>1. worker[s].value \in Nat  BY FieldsNat
      <3>2. [pc |-> "resolve", sp |-> worker[s].value, wake |-> 0] \in Job  BY <3>1 DEF Job, JobPC
      <3> QED  BY <2>1, <3>2 DEF SaveSafePoint, Typed
    <2> QED  BY <2>1, TickFrame DEF Typed
  <1> QED  BY <1>1, <1>2, <1>3, <1>4, TickFrame DEF Typed, Checked

\* A job keeps the types.
LEMMA RunTyped ==
    ASSUME Typed, NEW s \in Server, RunStep(s)
    PROVE  Typed'
  <1>t. Now \in Nat /\ Now + CacheInterval \in Nat
    BY Present, GCAssumption
  <1>1. job' \in [Server -> Job]
    <2>1. CASE SaveSafePointKV(s)
      BY ZenonT(60), <1>t, <2>1 DEF SaveSafePointKV, Typed, Job, JobPC
    <2>2. CASE JobDone(s)
      BY <2>2 DEF JobDone, NoJob, Typed, Job, JobPC
    <2>3. CASE \E from \in JobPC \ {"none"}, to \in JobPC \ {"none"} : JobStep(s, from, to)
      BY <2>3 DEF JobStep, Typed, Job
    <2> QED  BY <2>1, <2>2, <2>3, RunFrame
  <1>2. worker' \in [Server -> Worker] /\ Calculating'
    <2>1. CASE JobDone(s)
      BY <1>t, <2>1 DEF JobDone, Typed, Worker, WorkerPC, Calculating
    <2> QED  BY <2>1, RunFrame DEF Typed, Calculating
  <1>3. pd' \in PD
    <2>1. CASE UploadSafePoint(s)
      <3>1. job[s].sp \in Nat  BY FieldsNat
      <3> QED  BY <2>1, <3>1 DEF UploadSafePoint, Typed, PD
    <2> QED  BY <2>1, RunFrame DEF Typed
  <1>4. etcd' \in Etcd
    <2>1. CASE SaveSafePointKV(s)
      <3>1. job[s].sp \in Nat  BY FieldsNat
      <3> QED  BY <2>1, <3>1 DEF SaveSafePointKV, Typed, Etcd
    <2> QED  BY <2>1, RunFrame DEF Typed
  <1>5. txn' \in [Txn -> Transaction]
    <2>1. CASE ResolveLocks(s)
      BY <2>1 DEF ResolveLocks, Typed, Transaction
    <2> QED  BY <2>1, RunFrame DEF Typed
  <1>6. tbl' \in Table
    <2>1. \/ tbl' = tbl \/ tbl' = [tbl EXCEPT !.destroyed = Store, !.row = "gone"]
          \/ tbl' = [tbl EXCEPT !.row = IF @ = "todo" THEN "done" ELSE @]
          \/ \E stores \in SUBSET Store : tbl' = [tbl EXCEPT !.destroyed = @ \cup stores]
      BY RunFrame DEF UnsafeDestroyRange, CompleteDeleteRange, RedoDeleteRanges
    <2> QED  BY ZenonT(60), <2>1 DEF Typed, Table
  <1> QED  BY <1>1, <1>2, <1>3, <1>4, <1>5, <1>6, RunFrame DEF Typed, Checked

\* Every step keeps the types.
LEMMA NextTyped == Typed /\ [Next]_vars => Typed'
  <1> SUFFICES ASSUME Typed, [Next]_vars PROVE Typed'
    OBVIOUS
  <1>t. Now \in Nat /\ TS(Now) \in Nat /\ TS(Now + 1) \in Nat /\ TS(Now - LifeTime) \in Nat /\ TS(LifeTime) \in Nat
        /\ LifeTime \in Nat
    BY Present, GCAssumption, Times
  <1>1. ASSUME NEW s \in Server, ReportStep(s) PROVE Typed'
    <2>1. CASE ListProcesses(s)
      <3> DEFINE list == {txn[t].start : t \in {x \in setup.txns : setup.server[x] = s /\ txn[x].pc = "running"}}
      <3>1. list \subseteq Nat
        BY FieldsNat, GCAssumption DEF Typed
      <3>2. report' = [report EXCEPT ![s].pc = "listed", ![s].list = list]  BY <2>1 DEF ListProcesses
      <3> HIDE DEF list
      <3>3. report' \in [Server -> Report]
        BY ZenonT(60), <3>1, <3>2 DEF Typed, Report
      <3> QED  BY <1>1, <2>1, <3>3, ReportFrame DEF Typed, Calculating, Checked
    <2>2. CASE StoreMinStartTS(s)
      <3>1. PICK min \in Least({TS(Now)} \cup {ts \in report[s].list : ts > TS(Now - MaxWait)}) :
              etcd' = [etcd EXCEPT !.min[s] = min]
        BY <2>2 DEF StoreMinStartTS
      <3>2. min \in Nat  BY <1>t, FieldsNat DEF Least
      <3>3. etcd' \in Etcd  BY <3>1, <3>2 DEF Typed, Etcd
      <3>4. report' \in [Server -> Report]
        BY <1>t, <2>2 DEF StoreMinStartTS, Typed, Report
      <3> QED  BY <1>1, <3>3, <3>4, ReportFrame DEF Typed, Calculating, Checked
    <2>3. CASE ExpireMinStartTS(s)
      <3>1. etcd' \in Etcd  BY <2>3 DEF ExpireMinStartTS, Typed, Etcd
      <3> QED  BY <1>1, <2>3, <3>1, ReportFrame DEF Typed, Calculating, Checked
    <2> QED  BY <1>1, <2>1, <2>2, <2>3 DEF ReportStep
  <1>2. ASSUME NEW s \in Server, LoadSafePoint(s) PROVE Typed'
    <2>1. [sp |-> etcd.saved, time |-> Now] \in Cache  BY <1>t DEF Cache, Typed, Etcd
    <2>2. cache' \in [Server -> Cache]  BY <1>2, <2>1 DEF LoadSafePoint, Typed
    <2> QED  BY <1>2, <2>2 DEF LoadSafePoint, Typed, Calculating, Checked
  <1>3. ASSUME NEW s \in Server, Crash(s) PROVE Typed'
    <2>1. worker' \in [Server -> Worker] /\ Calculating' /\ job' \in [Server -> Job]
      BY <1>t, <1>3 DEF Crash, Idle, NoJob, Typed, Worker, WorkerPC, Job, JobPC, Calculating
    <2>2. txn' \in [Txn -> Transaction]
      BY <1>3 DEF Crash, Typed, Transaction
    <2>3. report' \in [Server -> Report]
      BY ZenonT(60), <1>3 DEF Crash, Typed, Report
    <2> QED  BY <1>3, <2>1, <2>2, <2>3 DEF Crash, Typed, Checked
  <1>4. ASSUME NEW t \in Txn, Begin(t) \/ Finish(t) PROVE Typed'
    <2>1. tso' \in Nat /\ tso' >= TS(LifeTime)
      BY <1>t, <1>4 DEF Begin, Finish, NewTS, Typed
    <2>2. txn' \in [Txn -> Transaction]
      BY <1>4, <2>1 DEF Begin, Finish, Typed, Transaction
    <2> QED  BY <1>4, <2>1, <2>2 DEF Begin, Finish, Typed, Calculating, Checked
  <1>5. ASSUME NEW b \in Backup, BackupStep(b) PROVE Typed'
    <2>1. br' \in [Backup -> BackupTask] /\ Checked'
      <3>1. CASE StartBackup(b)
        <4>1. PICK ts \in {tso, TS(Now - LifeTime)} \ {0}, pc \in {"checked", "failed"} :
                br' = [br EXCEPT ![b] = [pc |-> pc, ts |-> ts]]
          BY <3>1 DEF StartBackup
        <4>2. ts \in Nat /\ ts >= 1  BY <4>1, <1>t, FieldsNat DEF Typed
        <4> DEFINE task == [pc |-> pc, ts |-> ts]
        <4>3. task \in BackupTask /\ task.ts >= 1  BY <4>1, <4>2 DEF BackupTask
        <4>4. br' = [br EXCEPT ![b] = task]  BY <4>1
        <4> HIDE DEF task
        <4>5. br' \in [Backup -> BackupTask]
          BY <4>3, <4>4 DEF Typed
        <4>6. \A c \in Backup : br'[c] = IF c = b THEN task ELSE br[c]
          BY <4>4 DEF Typed
        <4>7. Checked'
          BY <4>3, <4>6 DEF Typed, Checked
        <4> QED  BY <4>5, <4>7
      <3>2. CASE UpdateServiceSafePoint(b) \/ KeeperPanics(b) \/ FinishBackup(b) \/ ExpireService(b)
        <4>1. ExpireService(b) => br' = br
          BY DEF ExpireService
        <4>2. PICK p \in {"running", "failed", "finished"} :
                \/ br' = [br EXCEPT ![b].pc = p] /\ br[b].pc \in {"checked", "running"}
                \/ br' = br
          BY <3>2, <4>1 DEF UpdateServiceSafePoint, KeeperPanics, FinishBackup
        <4>3. CASE br' = br
          BY <4>3 DEF Typed, Checked
        <4>4. CASE br' = [br EXCEPT ![b].pc = p] /\ br[b].pc \in {"checked", "running"}
          <5> DEFINE task == [br[b] EXCEPT !.pc = p]
          <5>1. task \in BackupTask /\ task.ts = br[b].ts
            BY <4>2 DEF Typed, BackupTask
          <5>2. br' = [br EXCEPT ![b] = task]
            BY <4>4
          <5> HIDE DEF task
          <5>3. br' \in [Backup -> BackupTask] /\ \A c \in Backup : br'[c] = IF c = b THEN task ELSE br[c]
            BY <5>1, <5>2 DEF Typed
          <5> QED  BY <4>4, <5>1, <5>3 DEF Typed, Checked
        <4> QED  BY <4>2, <4>3, <4>4
      <3> QED  BY <1>5, <3>1, <3>2 DEF BackupStep
    <2>2. pd' \in PD
      <3>1. CASE UpdateServiceSafePoint(b)
        <4>1. br[b].ts - 1 \in Nat /\ b \in Service
          BY <3>1, FieldsNat DEF UpdateServiceSafePoint, Typed, Checked, Service
        <4> QED  BY <3>1, <4>1, UpdateTyped DEF UpdateServiceSafePoint, Typed, PD
      <3>2. CASE FinishBackup(b) \/ ExpireService(b)
        BY <3>2 DEF FinishBackup, ExpireService, Typed, PD
      <3> QED  BY <1>5, <3>1, <3>2, BackupFrame DEF BackupStep, Typed
    <2> QED  BY <1>5, <2>1, <2>2, BackupFrame DEF Typed, Calculating
  <1>6. CASE TableStep
    <2>1. tso' \in Nat /\ tso' >= TS(LifeTime)
      BY <1>t, <1>6, TableFrame DEF Typed
    <2>2. tidb' \in Tidb
      BY <1>6, TableFrame DEF DisableGC, FinishRecoverTable, Typed, Tidb
    <2>3. tbl' \in Table
      BY ZenonT(60), <1>6, <2>1 DEF TableStep, DropTable, InsertDeleteRange, RecoverTable, SetCheckFlag, DisableGC, CheckSafePoint,
         RemoveFromGCDeleteRange, CommitRecover, FinishRecoverTable, Typed, Table
    <2> QED  BY <1>6, <2>1, <2>2, <2>3, TableFrame DEF Typed, Calculating, Checked
  <1>7. CASE Tick
    <2>1. tso' \in Nat /\ tso' >= TS(LifeTime)
      BY <1>t, <1>7, Present DEF Tick, Typed
    <2> QED  BY <1>7, <2>1 DEF Tick, Typed, Calculating, Checked
  <1>8. CASE UNCHANGED vars
    BY <1>8 DEF vars, Typed, Calculating, Checked
  <1> QED  BY <1>1, <1>2, <1>3, <1>4, <1>5, <1>6, <1>7, <1>8, Sorted, TickTyped, RunTyped

-----------------------------------------------------------------------------
\* Every variable keeps its type, and no timestamp or safe point becomes negative, for any number of
\* servers, stores, transactions and backups.
THEOREM Typing == Spec => []TypeOK
  <1>1. Typed => TypeOK
    <2> SUFFICES ASSUME Typed PROVE TypeOK
      OBVIOUS
    <2>1. /\ setup \in Setups /\ tso \in Nat /\ up \subseteq Server
          /\ tidb.leader \in Server /\ {tidb.lease, tidb.lastRun, tidb.safePoint} \subseteq Nat
          /\ tidb.enable \in BOOLEAN
      BY DEF Typed, Tidb
    <2>2. /\ etcd.saved \in Nat /\ \A s \in Server : etcd.min[s] \in Nat \cup {None}
          /\ pd.gc \in Nat /\ \A s \in DOMAIN pd.service : pd.service[s] \in Nat \cup {None}
      BY DEF Typed, Etcd, PD
    <2>3. \A s \in Server :
            /\ worker[s].pc \in WorkerPC
            /\ worker[s].value \in Nat /\ worker[s].now \in Nat /\ worker[s].finish \in Nat
            /\ job[s].pc \in JobPC /\ job[s].sp \in Nat
      BY DEF Typed, Worker, Job
    <2>4. tbl.row \in {"none", "todo", "done", "gone"} /\ tbl.destroyed \subseteq Store
      BY DEF Typed, Table
    <2> QED  BY <2>1, <2>2, <2>3, <2>4 DEF TypeOK
  <1> QED  BY InitTyped, NextTyped, <1>1, PTL DEF Spec


\* The steps that give out a timestamp stay in the same physical time; the others that move the time
\* move it on.
LEMMA TimeGrows ==
    ASSUME Typed, [Next]_vars
    PROVE  /\ Now' >= Now /\ Now' \in Nat
           /\ Now' = Now \/ Tick
           /\ Tick => Now' = Now + 1
           /\ \A n \in Int : TS(Now - n) <= TS(Now' - n)
  <1>1. \/ tso' = tso \/ (tso' = tso + 1 /\ Physical(tso + 1) = Now) \/ Tick
    BY Sorted, TickFrame, RunFrame, ReportFrame, BackupFrame, TableFrame
       DEF LoadSafePoint, Crash, Begin, NewTS, Finish, vars
  <1>2. Now' = Now \/ Tick
    BY <1>1 DEF Now
  <1>3. Now \in Nat /\ Now + 1 \in Int  BY Present
  <1>4. Tick => Now' = Now + 1
    <2>1. Physical(TS(Now + 1)) = Now + 1  BY <1>3, Order
    <2> QED  BY <2>1 DEF Tick, Now
  <1>5. Now' >= Now /\ Now' \in Nat
    BY <1>2, <1>3, <1>4
  <1>6. ASSUME NEW n \in Int PROVE TS(Now - n) <= TS(Now' - n)
    <2>1. ASSUME NEW p \in Nat, NEW q \in Nat, q >= p PROVE TS(p - n) <= TS(q - n)
      <3>1. p - n \in Int /\ q - n \in Int /\ p - n <= q - n  BY <2>1
      <3> QED  BY <3>1, Order
    <2> QED  BY <1>3, <1>5, <2>1
  <1> QED  BY <1>2, <1>4, <1>5, <1>6

-----------------------------------------------------------------------------
(* RECOVER TABLE remembers that GC was on until it turns it on again. *)

DDL == [pc : {"none", "flag", "disable", "check", "remove", "commit", "done", "cancelled", "finished"},
        flag : BOOLEAN]

Remembered ==
    /\ ddl \in DDL
    /\ ddl.pc \in {"none", "flag", "finished"} => tidb.enable
    /\ ddl.pc \notin {"none", "flag", "finished"} => ddl.flag

\* Every step keeps what RECOVER TABLE remembers.
LEMMA NextRemembered == Typed /\ Remembered /\ [Next]_vars => Remembered'
  <1> SUFFICES ASSUME Typed, Remembered, [Next]_vars PROVE Remembered'
    OBVIOUS
  <1>1. ASSUME NEW s \in Server, TickStep(s) PROVE tidb'.enable = tidb.enable
    BY <1>1 DEF TickStep, CheckLeader, LoadLease, Register, SaveLease, CheckPrepare, CalcSafePoint,
                SetServiceSafePoint, SaveLastRun, SaveSafePoint, TickFails, Typed, Tidb
  <1>2. (tidb'.enable = tidb.enable /\ ddl' = ddl) \/ TableStep
    BY <1>1, Sorted, TickFrame, RunFrame, ReportFrame, BackupFrame DEF LoadSafePoint, Crash, Begin, Finish, Tick, vars
  <1>3. CASE TableStep
    <2>1. CASE DropTable \/ InsertDeleteRange \/ CommitRecover
      BY <2>1 DEF DropTable, InsertDeleteRange, CommitRecover, DDLStep, Remembered, DDL
    <2>2. CASE RecoverTable
      BY <2>2 DEF RecoverTable, DDLStep, Remembered, DDL
    <2>3. CASE SetCheckFlag
      BY <2>3 DEF SetCheckFlag, DDLStep, Remembered, DDL
    <2>4. CASE CheckSafePoint \/ RemoveFromGCDeleteRange
      BY <2>4 DEF CheckSafePoint, RemoveFromGCDeleteRange, DDLStep, Remembered, DDL
    <2>5. CASE DisableGC \/ FinishRecoverTable
      BY <2>5 DEF DisableGC, FinishRecoverTable, DDLStep, Remembered, DDL, Typed, Tidb
    <2> QED  BY <1>3, <2>1, <2>2, <2>3, <2>4, <2>5 DEF TableStep
  <1> QED  BY <1>2, <1>3 DEF Remembered

\* After RECOVER TABLE, GC is on as it was before, however often a transaction of the job failed and
\* in whichever step (onRecoverTable, finishRecoverTable).
THEOREM Restored == Spec => []GCRestored
  <1>1. Init => Remembered
    BY DEF Init, Remembered, DDL
  <1>2. Remembered => GCRestored
    BY DEF Remembered, GCRestored
  <1> QED  BY InitTyped, NextTyped, NextRemembered, <1>1, <1>2, PTL DEF Spec

-----------------------------------------------------------------------------
(* What a step may change. *)

\* A step of a tick.
LEMMA StepEffect ==
    ASSUME Typed, NEW s \in Server, NEW from, NEW to, Step(s, from, to)
    PROVE  /\ s \in up /\ worker[s].pc = from /\ worker'[s].pc = to
           /\ \A w \in Server \ {s} : worker'[w] = worker[w]
           /\ worker'[s].now \in {worker[s].now, 0}
           /\ to # "idle" => worker'[s].last = worker[s].last /\ worker'[s].value = worker[s].value
  <1>1. s \in up /\ worker[s].pc = from  BY DEF Step
  <1>2. CASE to = "idle"
    BY <1>1, <1>2 DEF Step, Idle, Typed
  <1>3. CASE to # "idle"
    BY <1>1, <1>3 DEF Step, Typed, Worker
  <1> QED  BY <1>1, <1>2, <1>3

\* A step of a job.
LEMMA JobEffect ==
    ASSUME Typed, NEW s \in Server, NEW from, NEW to, JobStep(s, from, to)
    PROVE  /\ s \in up /\ job[s].pc = from
           /\ \A w \in Server : /\ job'[w].pc = IF w = s THEN to ELSE job[w].pc
                                /\ job'[w].sp = job[w].sp /\ job'[w].wake = job[w].wake
  BY DEF JobStep, Typed, Job

\* A worker has a value from the calculation of a new safe point until it is saved. The calculation
\* and PD's answer give it; a tick remembers no time of the future.
Valued == {"service", "run", "save"}
WorkersKept ==
    \A w \in Server :
      /\ worker'[w].now \in {worker[w].now, 0, Now}
      /\ worker'[w].pc \in Valued =>
           \/ CalcSafePoint(w) /\ worker'[w].pc = "service"
           \/ SetServiceSafePoint(w)
           \/ worker'[w].value = worker[w].value /\ (worker'[w].pc = worker[w].pc \/ worker[w].pc = "run")

\* A job has the safe point that its worker saved.
JobsKept ==
    \A w \in Server : job'[w].pc # "none" =>
        \/ job[w].pc # "none" /\ job'[w].sp = job[w].sp
        \/ worker[w].pc = "save" /\ job'[w].sp = worker[w].value

\* A tick leaves the other workers alone.
LEMMA TickEffect ==
    ASSUME Typed, NEW s \in Server, TickStep(s)
    PROVE  WorkersKept /\ JobsKept /\ \A w \in Server \ {s} : worker'[w] = worker[w]
  <1>1. /\ \A w \in Server \ {s} : worker'[w] = worker[w]
        /\ worker'[s].now \in {worker[s].now, 0, Now}
        /\ worker'[s].pc \in Valued =>
             \/ CalcSafePoint(s) /\ worker'[s].pc = "service"
             \/ SetServiceSafePoint(s)
             \/ worker'[s].value = worker[s].value /\ worker[s].pc = "run"
    <2>1. CASE LoadLease(s) \/ Register(s) \/ SaveLease(s) \/ SaveSafePoint(s) \/ TickFails(s)
      <3>1. \E from, to \in WorkerPC \ Valued : Step(s, from, to) \/ \E pc \in WorkerPC : Step(s, pc, "idle")
        BY <2>1 DEF LoadLease, Register, SaveLease, SaveSafePoint, TickFails, WorkerPC, Valued
      <3> QED  BY SMTT(60), <3>1, StepEffect DEF Valued
    <2>2. CASE SaveLastRun(s)
      <3>1. Step(s, "run", "save")  BY <2>2 DEF SaveLastRun
      <3> QED  BY <3>1, StepEffect
    <2>3. CASE CheckLeader(s)
      BY <2>3 DEF CheckLeader, Typed, Worker, Valued
    <2>4. CASE CheckPrepare(s)
      <3>1. CASE Step(s, "prepare", "idle")  BY <3>1, StepEffect DEF Valued
      <3>2. CASE worker' = [worker EXCEPT ![s].pc = "calc", ![s].now = Now, ![s].last = tidb.safePoint]
        BY <3>2 DEF Typed, Worker, Valued
      <3> QED  BY <2>4, <3>1, <3>2 DEF CheckPrepare
    <2>5. CASE CalcSafePoint(s)
      <3>1. PICK value : worker' = [worker EXCEPT ![s].pc = "service", ![s].value = value]
        BY <2>5 DEF CalcSafePoint
      <3> QED  BY <2>5, <3>1 DEF Typed, Worker
    <2>6. CASE SetServiceSafePoint(s)
      <3>1. \/ Step(s, "service", "idle")
            \/ \E safePoint : worker' = [worker EXCEPT ![s].pc = "run", ![s].value = safePoint]
        BY <2>6 DEF SetServiceSafePoint
      <3>2. CASE Step(s, "service", "idle")  BY <2>6, <3>2, StepEffect
      <3>3. CASE \E safePoint : worker' = [worker EXCEPT ![s].pc = "run", ![s].value = safePoint]
        BY <2>6, <3>3 DEF Typed, Worker
      <3> QED  BY <3>1, <3>2, <3>3
    <2> QED  BY <2>1, <2>2, <2>3, <2>4, <2>5, <2>6 DEF TickStep
  <1>2. WorkersKept
    BY <1>1 DEF WorkersKept
  <1>3. JobsKept
    <2>1. SaveSafePoint(s) => JobsKept
      BY DEF SaveSafePoint, JobsKept, Typed, Job, Step
    <2> QED  BY <2>1, TickFrame DEF JobsKept
  <1> QED  BY <1>1, <1>2, <1>3

\* A job keeps its safe point, and leaves the others alone.
LEMMA RunEffect ==
    ASSUME Typed, NEW s \in Server, RunStep(s)
    PROVE  /\ s \in up /\ job[s].pc # "none"
           /\ \A w \in Server : /\ worker'[w].pc = worker[w].pc /\ worker'[w].last = worker[w].last
                                /\ worker'[w].value = worker[w].value /\ worker'[w].now = worker[w].now
                                /\ job'[w].pc # "none" => job[w].pc # "none" /\ job'[w].sp = job[w].sp
           /\ \A w \in Server \ {s} : job'[w] = job[w]
  <1>1. s \in up /\ job[s].pc # "none"
    BY RunFrame DEF SaveSafePointKV, JobDone, JobStep
  <1>2. \A w \in Server : /\ worker'[w].pc = worker[w].pc /\ worker'[w].last = worker[w].last
                          /\ worker'[w].value = worker[w].value /\ worker'[w].now = worker[w].now
    <2>1. JobDone(s) => \A w \in Server : /\ worker'[w].pc = worker[w].pc /\ worker'[w].last = worker[w].last
                                          /\ worker'[w].value = worker[w].value /\ worker'[w].now = worker[w].now
      BY DEF JobDone, Typed, Worker
    <2> QED  BY <2>1, RunFrame
  <1>3. /\ \A w \in Server : job'[w].pc # "none" => job[w].pc # "none" /\ job'[w].sp = job[w].sp
        /\ \A w \in Server \ {s} : job'[w] = job[w]
    <2>1. CASE SaveSafePointKV(s)
      BY <2>1 DEF SaveSafePointKV, Typed, Job
    <2>2. CASE JobDone(s)
      BY <2>2 DEF JobDone, NoJob, Typed, Job
    <2>3. CASE \E from \in JobPC \ {"none"}, to \in JobPC \ {"none"} : JobStep(s, from, to)
      BY <2>3 DEF JobStep, Typed, Job
    <2> QED  BY <2>1, <2>2, <2>3, RunFrame
  <1> QED  BY <1>1, <1>2, <1>3

\* So does every step.
LEMMA Kept ==
    ASSUME Typed, [Next]_vars
    PROVE  WorkersKept /\ JobsKept
  <1>1. ASSUME NEW s \in Server, RunStep(s) PROVE WorkersKept /\ JobsKept
    BY <1>1, RunEffect DEF WorkersKept, JobsKept
  <1>2. ASSUME NEW s \in Server, Crash(s) PROVE WorkersKept /\ JobsKept
    BY <1>2 DEF Crash, Idle, NoJob, Typed, WorkersKept, JobsKept, Valued
  <1>3. UNCHANGED <<worker, job>> => WorkersKept /\ JobsKept
    BY DEF WorkersKept, JobsKept
  <1>4. \/ \E s \in Server : TickStep(s) \/ RunStep(s) \/ Crash(s)
        \/ UNCHANGED <<worker, job>>
    BY Sorted, ReportFrame, BackupFrame, TableFrame DEF LoadSafePoint, Begin, Finish, Tick, vars
  <1> QED  BY <1>1, <1>2, <1>3, <1>4, TickEffect

\* Who changes the safe points that are stored, and the reports.
LEMMA Stored ==
    ASSUME Typed, [Next]_vars
    PROVE  /\ pd'.gc = pd.gc \/ \E s \in Server : UploadSafePoint(s)
           /\ etcd'.saved = etcd.saved \/ \E s \in Server : SaveSafePointKV(s)
           /\ etcd'.min = etcd.min \/ \E s \in Server : StoreMinStartTS(s) \/ ExpireMinStartTS(s)
           /\ \/ UNCHANGED pd
              \/ \E s \in Server : SetServiceSafePoint(s) \/ UploadSafePoint(s)
              \/ \E b \in Backup : UpdateServiceSafePoint(b) \/ FinishBackup(b) \/ ExpireService(b)
  <1>1. \/ UNCHANGED pd
        \/ \E s \in Server : SetServiceSafePoint(s) \/ UploadSafePoint(s)
        \/ \E b \in Backup : UpdateServiceSafePoint(b) \/ FinishBackup(b) \/ ExpireService(b)
    BY Sorted, TickFrame, RunFrame, ReportFrame, BackupFrame, TableFrame
       DEF BackupStep, LoadSafePoint, Crash, Begin, Finish, Tick, vars
  <1>2. ASSUME NEW s \in Server, SetServiceSafePoint(s) PROVE pd'.gc = pd.gc
    BY <1>2 DEF SetServiceSafePoint, Typed, PD
  <1>3. ASSUME NEW b \in Backup, UpdateServiceSafePoint(b) \/ FinishBackup(b) \/ ExpireService(b) PROVE pd'.gc = pd.gc
    BY <1>3 DEF UpdateServiceSafePoint, FinishBackup, ExpireService, Typed, PD
  <1>4. UNCHANGED etcd \/ \E s \in Server : SaveSafePointKV(s) \/ StoreMinStartTS(s) \/ ExpireMinStartTS(s)
    BY Sorted, TickFrame, RunFrame, ReportFrame, BackupFrame, TableFrame
       DEF ReportStep, LoadSafePoint, Crash, Begin, Finish, Tick, vars
  <1>5. ASSUME NEW s \in Server, SaveSafePointKV(s) PROVE etcd'.min = etcd.min
    BY <1>5 DEF SaveSafePointKV, Typed, Etcd
  <1>6. ASSUME NEW s \in Server, StoreMinStartTS(s) \/ ExpireMinStartTS(s) PROVE etcd'.saved = etcd.saved
    BY <1>6 DEF StoreMinStartTS, ExpireMinStartTS, Typed, Etcd
  <1> QED  BY <1>1, <1>2, <1>3, <1>4, <1>5, <1>6
-----------------------------------------------------------------------------
(* A backup that PD knows holds every safe point back. The safe points that are *)
(* under way count: a worker that has its answer from PD but has not started    *)
(* the job, and a job that has not uploaded its safe point.                     *)

Below(sp) == \A s \in Service : pd.service[s] # None => sp <= pd.service[s]

Held ==
    /\ pd.service["gc_worker"] # None
    /\ Below(pd.gc)
    /\ \A w \in Server : job[w].pc # "none" => Below(job[w].sp)
    /\ \A w \in Server : worker[w].pc \in {"run", "save"} => Below(worker[w].value)
    /\ \A b \in Backup : /\ pd.service[b] # None => pd.service[b] = br[b].ts - 1
                         /\ br[b].pc = "none" => pd.service[b] = None

\* Nothing is under way at first.
LEMMA InitHeld == Init => Held
  <1> SUFFICES ASSUME Init PROVE Held
    OBVIOUS
  <1>1. /\ pd.gc = 0 /\ pd.service = [s \in Service |-> IF s = "gc_worker" THEN 0 ELSE None]
        /\ \A w \in Server : worker[w].pc = "idle" /\ job[w].pc = "none"
    BY DEF Init, Service, Idle, NoJob
  <1>2. "gc_worker" \notin Backup /\ 0 # None
    BY GCAssumption
  <1> QED  BY <1>1, <1>2 DEF Held, Below, Service

\* A backup keeps its timestamp once it has started.
BackupsKept ==
    \A b \in Backup : /\ br[b].pc # "none" => br[b].ts' = br[b].ts
                      /\ br[b].pc' = "none" => br[b].pc = "none"

LEMMA BackupEffect ==
    ASSUME Typed, [Next]_vars
    PROVE  BackupsKept
  <1>1. UNCHANGED br \/ \E b \in Backup : BackupStep(b)
    BY Sorted, TickFrame, RunFrame, ReportFrame, TableFrame DEF LoadSafePoint, Crash, Begin, Finish, Tick, vars
  <1>2. ASSUME NEW b \in Backup, BackupStep(b) PROVE BackupsKept
    BY SMTT(60), <1>2 DEF BackupStep, StartBackup, UpdateServiceSafePoint, KeeperPanics, FinishBackup, ExpireService, BackupsKept,
                Typed, BackupTask
  <1> QED  BY <1>1, <1>2 DEF BackupsKept

\* Every step keeps Held.
LEMMA NextHeld == Typed /\ Held /\ [Next]_vars => Held'
  <1> SUFFICES ASSUME Typed, Held, [Next]_vars PROVE Held'
    OBVIOUS
  <1>k. WorkersKept /\ JobsKept /\ BackupsKept
    BY Kept, BackupEffect
  <1>1. ASSUME NEW s \in Server, SetServiceSafePoint(s) PROVE Held'
    <2> DEFINE service == UpdateServiceGCSafePoint("gc_worker", worker[s].value)
    <2>1. PICK safePoint \in Least({worker[s].value} \cup Services(service)) :
            IF worker[s].last < Physical(safePoint)
            THEN worker' = [worker EXCEPT ![s].pc = "run", ![s].value = safePoint]
            ELSE Step(s, "service", "idle")
      BY <1>1 DEF SetServiceSafePoint
    <2>2. /\ worker[s].value \in Int /\ pd.service \in [Service -> Int \cup {None}]
          /\ service \in [Service -> Int \cup {None}] /\ "gc_worker" \in Service
      BY SMTT(60), Fields, FieldsNat, UpdateTyped DEF Service
    <2>3. /\ service = pd.service \/ service = [pd.service EXCEPT !["gc_worker"] = worker[s].value]
          /\ service # pd.service => \E ts \in Services(pd.service) : ts <= worker[s].value
      BY <2>2 DEF UpdateServiceGCSafePoint, Services, Held
    <2>4. ASSUME NEW sp \in Int, Below(sp)
          PROVE  \A x \in Service : service[x] # None => sp <= service[x]
      <3>1. CASE service = pd.service  BY <2>4, <3>1 DEF Below
      <3>2. CASE service # pd.service
        <4>1. sp <= worker[s].value
          BY SMTT(60), <2>2, <2>3, <2>4, <3>2 DEF Services, Below
        <4> QED  BY <2>2, <2>3, <2>4, <4>1, <3>2 DEF Below
      <3> QED  BY <3>1, <3>2
    <2>5. service["gc_worker"] # None
      BY <2>2, <2>3, GCAssumption DEF Held
    <2>6. /\ pd' = [pd EXCEPT !.service = service] /\ job' = job /\ br' = br
      BY <1>1 DEF SetServiceSafePoint
    <2>7. \A b \in Backup : service[b] = pd.service[b]
      BY <2>2, <2>3, GCAssumption DEF Service
    <2>8. \A x \in Service : service[x] # None => safePoint <= service[x]
      BY <2>2 DEF Least, Services
    <2>9. pd'.service = service /\ pd'.gc = pd.gc
      BY <2>6 DEF Typed, PD
    <2> HIDE DEF service
    <2>10. \A w \in Server : worker[w].pc' \in {"run", "save"} =>
             \/ worker[w].pc \in {"run", "save"} /\ worker[w].value' = worker[w].value
             \/ worker[w].value' = safePoint
      <3>1. CASE Step(s, "service", "idle")  BY <3>1, StepEffect
      <3>2. CASE worker' = [worker EXCEPT ![s].pc = "run", ![s].value = safePoint]
        BY <3>2 DEF Typed, Worker
      <3> QED  BY <2>1, <3>1, <3>2
    <2>11. /\ \A w \in Server : worker[w].value \in Int /\ job[w].sp \in Int
           /\ pd.gc \in Int
      BY Fields
    <2>12. \A sp \in Int : Below(sp) => Below(sp)'
      BY <2>4, <2>9 DEF Below
    <2>13. \A w \in Server : worker[w].pc' \in {"run", "save"} => Below(worker[w].value)'
      BY ZenonT(60), <2>8, <2>9, <2>10, <2>11, <2>12 DEF Held, Below
    <2>14. Below(pd.gc)' /\ \A w \in Server : job[w].pc' # "none" => Below(job[w].sp)'
      BY <2>6, <2>9, <2>11, <2>12 DEF Held, Below
    <2> QED  BY <2>5, <2>6, <2>7, <2>9, <2>13, <2>14 DEF Held
  <1>2. ASSUME NEW s \in Server, UploadSafePoint(s) PROVE Held'
    <2>1. /\ JobStep(s, "upload", "done") /\ worker' = worker /\ br' = br
          /\ pd' = [pd EXCEPT !.gc = IF job[s].sp > @ THEN job[s].sp ELSE @]
      BY <1>2 DEF UploadSafePoint
    <2>2. pd'.service = pd.service /\ pd'.gc \in {pd.gc, job[s].sp}
      BY <2>1 DEF Typed, PD
    <2>3. job[s].pc # "none"
      BY <2>1 DEF JobStep
    <2> QED  BY <1>k, <2>1, <2>2, <2>3 DEF Held, Below, JobsKept
  <1>3. ASSUME NEW b \in Backup, UpdateServiceSafePoint(b) PROVE Held'
    <2> DEFINE service == UpdateServiceGCSafePoint(b, br[b].ts - 1)
    <2>1. /\ pd.service \in [Service -> Int \cup {None}] /\ br[b].ts \in Int /\ b \in Service /\ pd.gc \in Int
          /\ \A w \in Server : worker[w].value \in Int /\ job[w].sp \in Int
      BY Fields DEF Service
    <2>2. /\ br[b].pc \in {"checked", "running"} /\ br' = [br EXCEPT ![b].pc = "running"]
          /\ pd' = [pd EXCEPT !.service = service] /\ worker' = worker /\ job' = job
      BY <1>3 DEF UpdateServiceSafePoint
    <2>3. /\ service = pd.service \/ service = [pd.service EXCEPT ![b] = br[b].ts - 1]
          /\ service # pd.service => \E ts \in Services(pd.service) : ts <= br[b].ts - 1
      BY <2>1, GCAssumption DEF UpdateServiceGCSafePoint, Services, Held, Service
    <2>4. pd'.service = service /\ pd'.gc = pd.gc
      BY <2>2 DEF Typed, PD
    <2>5. \A sp \in Int : Below(sp) => Below(sp)'
      <3> SUFFICES ASSUME NEW sp \in Int, Below(sp) PROVE Below(sp)'
        OBVIOUS
      <3>1. CASE service = pd.service  BY <2>4, <3>1 DEF Below
      <3>2. CASE service # pd.service
        <4>1. sp <= br[b].ts - 1
          BY <2>1, <2>3, <3>2 DEF Services, Below
        <4> QED  BY <2>1, <2>3, <2>4, <3>2, <4>1 DEF Below
      <3> QED  BY <3>1, <3>2
    <2>6. \A c \in Backup : /\ br[c].ts' = br[c].ts
                            /\ br[c].pc' = "none" => br[c].pc = "none" /\ c # b
      BY <2>2 DEF Typed, BackupTask
    <2>7. service["gc_worker"] # None /\ \A c \in Backup : c # b => service[c] = pd.service[c]
      BY <2>1, <2>3, GCAssumption DEF Held, Service
    <2>8. service[b] # None => service[b] = br[b].ts - 1
      BY <2>1, <2>3 DEF Held
    <2> HIDE DEF service
    <2>9. \A c \in Backup : /\ pd'.service[c] # None => pd'.service[c] = br[c].ts' - 1
                            /\ br[c].pc' = "none" => pd'.service[c] = None
      BY <2>4, <2>6, <2>7, <2>8 DEF Held
    <2>10. /\ Below(pd.gc)' /\ \A w \in Server : job[w].pc' # "none" => Below(job[w].sp)'
           /\ \A w \in Server : worker[w].pc' \in {"run", "save"} => Below(worker[w].value)'
      BY <2>1, <2>2, <2>4, <2>5 DEF Held, Below
    <2> QED  BY <2>4, <2>7, <2>9, <2>10 DEF Held
  <1>4. ASSUME NEW b \in Backup, FinishBackup(b) \/ ExpireService(b) PROVE Held'
    <2>1. pd' = [pd EXCEPT !.service[b] = None] /\ worker' = worker /\ job' = job
      BY <1>4 DEF FinishBackup, ExpireService
    <2>2. pd'.service = [pd.service EXCEPT ![b] = None] /\ pd'.gc = pd.gc
      BY <2>1 DEF Typed, PD
    <2>3. pd.service \in [Service -> Int \cup {None}] /\ b # "gc_worker"
      BY Fields, GCAssumption
    <2> QED  BY <1>k, <2>1, <2>2, <2>3 DEF Held, Below, BackupsKept, Service
  <1>5. ASSUME UNCHANGED pd, \A w \in Server : ~SetServiceSafePoint(w) PROVE Held'
    <2>1. \A w \in Server : worker'[w].pc \in {"run", "save"} =>
            worker[w].pc \in {"run", "save"} /\ worker'[w].value = worker[w].value
      BY <1>k, <1>5 DEF WorkersKept, Valued
    <2> QED  BY ZenonT(60), <1>k, <1>5, <2>1 DEF Held, Below, JobsKept, BackupsKept
  <1> QED  BY <1>1, <1>2, <1>3, <1>4, <1>5, Stored

\* While PD has the service safe point of a backup, no safe point passes it, even if the backup
\* registered between the steps of a GC worker or lost its registration in between, for any number
\* of servers and backups.
THEOREM BackupsHold == Spec => []BackupKept
  <1>1. Typed /\ Held => BackupKept
    BY SMTT(60), Fields DEF Held, Below, BackupKept, Jobs, Service
  <1> QED  BY InitTyped, InitHeld, NextTyped, NextHeld, <1>1, PTL DEF Spec

=============================================================================
