-------------------------------- MODULE GC --------------------------------
(* The GC worker (store/gcworker/gc_worker.go) and everything that holds its  *)
(* safe point back or relies on it: the running transactions that the servers *)
(* report (domain/infosync/info.go), the backups that register a service safe *)
(* point (br/pkg/utils/safe_point.go), the cached safe point that reads are   *)
(* checked against, and DROP and RECOVER TABLE (ddl/table.go). A timestamp is *)
(* a physical time and a logical part, as the oracle composes it. A worker has *)
(* run before, and has its service safe point.                                *)
EXTENDS Integers

CONSTANTS Server, Store, Txn, Backup, None,
          Logical,          \* the logical parts of one physical time
          LifeTime, RunInterval, WorkerLease, WaitTime, CacheInterval,
          RedoDelay,        \* gcRedoDeleteRangeDelay
          MaxWait,          \* GCMaxWaitTime
          ReportInterval,
          Setups

ASSUME GCAssumption ==
    /\ Logical \in Nat \ {0, 1}
    /\ {LifeTime, RunInterval, WorkerLease, WaitTime, CacheInterval,
        RedoDelay, MaxWait, ReportInterval} \subseteq Nat
    /\ 2 * ReportInterval <= LifeTime      \* 30 seconds, and 10 minutes at least
    /\ LifeTime <= MaxWait                 \* 10 minutes, and a day
    /\ None \notin Int /\ None \notin Server /\ "gc_worker" \notin Backup
    /\ \A s \in Setups :
         s.leader \in Server /\ s.lease \in Nat /\ s.txns \subseteq Txn /\ s.txn \in [Txn -> [pc : {"none", "running"}, start : Nat]]

ASSUME CacheAssumption == CacheInterval > 0     \* 100 seconds

TS(time) == time * Logical                  \* oracle.GoTimeToTS
Physical(ts) == ts \div Logical             \* oracle.GetTimeFromTS

\* What the instances start from: transactions that began since the reports before the last, and a
\* table that is there or was dropped, none of whose data are destroyed.
ASSUME StartAssumption ==
    \A s \in Setups :
      /\ \A t \in s.txns : s.server[t] \in Server
      /\ \A t \in Txn : s.txn[t].pc = "running" => t \in s.txns /\ s.txn[t].start > TS(LifeTime - ReportInterval)
      /\ s.tbl \in [pc : {"live", "dropping", "dropped"}, snapshot : Nat, ts : Nat,
                    row : {"none", "todo"}, destroyed : {{}}]
      /\ IF s.tbl.pc = "dropped" THEN Physical(s.tbl.snapshot) < Physical(s.tbl.ts) ELSE s.tbl.row = "none"

\* What an instance lets happen: who runs a GC worker, which transactions and backups start and
\* where, which transactions write, what has begun, which other parts take part ("read", "drop",
\* "recover"), the faults, and the bound on the physical time.
Fault == {"crash", "error", "etcd", "silent", "expire", "pd", "commit", "label"}

VARIABLES setup,
          tso,      \* the newest timestamp
          tidb,     \* mysql.tidb: leader, its lease, last run time, safe point, enable
          etcd,     \* the saved safe point, and the reported minimum of each server
          pd,       \* the service safe points, and the safe point of TiKV
          up,       \* the servers that run
          worker,   \* the tick of each GC worker
          job,      \* the GC job of each worker
          txn, report, cache,
          tbl,      \* the table that is dropped, and its row of gc_delete_range
          ddl,      \* the RECOVER TABLE job
          br        \* the backups

vars == <<setup, tso, tidb, etcd, pd, up, worker, job, txn, report, cache, tbl, ddl, br>>

Now == Physical(tso)
Least(S) == {x \in S : \A y \in S : x <= y}     \* the minimum, as a set
May(fault) == fault \in setup.faults

NewTS == tso' = tso + 1 /\ Physical(tso + 1) = Now

Idle(tick, finish) == [pc |-> "idle", now |-> 0, last |-> 0, value |-> 0, tick |-> tick, finish |-> finish]
NoJob == [pc |-> "none", sp |-> 0, wake |-> 0]

Init ==
    /\ setup \in Setups
    /\ tso = TS(LifeTime)
    /\ tidb = [leader |-> setup.leader, lease |-> setup.lease, lastRun |-> 0, safePoint |-> 0, enable |-> TRUE]
    /\ etcd = [saved |-> 0, min |-> [s \in Server |-> None]]
    /\ pd = [service |-> [s \in Backup \cup {"gc_worker"} |-> IF s = "gc_worker" THEN 0 ELSE None], gc |-> 0]
    /\ up = Server
    /\ worker = [s \in Server |-> Idle(0, LifeTime)]
    /\ job = [s \in Server |-> NoJob]
    /\ txn = setup.txn
    /\ report = [s \in Server |-> [pc |-> "idle", list |-> {}, time |-> LifeTime]]
    /\ cache = [s \in Server |-> [sp |-> 0, time |-> LifeTime]]
    /\ tbl = setup.tbl
    /\ ddl = [pc |-> "none", flag |-> FALSE]
    /\ br = [b \in Backup |-> [pc |-> "none", ts |-> 0]]

-----------------------------------------------------------------------------
(* Leadership. The transaction of checkLeader covers none of these steps: every *)
(* value is loaded and saved by a session of its own.                           *)

Step(w, from, to) ==
    /\ w \in up /\ worker[w].pc = from
    /\ worker' = [worker EXCEPT ![w] = IF to = "idle" THEN Idle(@.tick, @.finish) ELSE [@ EXCEPT !.pc = to]]

\* The ticker fires once in an interval, which is the unit of time.
CheckLeader(w) ==
    /\ w \in setup.workers /\ w \in up
    /\ worker[w].pc = "idle" /\ worker[w].tick < Now
    /\ worker' = [worker EXCEPT ![w].pc = IF tidb.leader = w THEN "renew" ELSE "lease", ![w].tick = Now]
    /\ UNCHANGED <<setup, tso, tidb, etcd, pd, up, job, txn, report, cache, tbl, ddl, br>>

LoadLease(w) ==
    /\ Step(w, "lease", IF tidb.lease < Now THEN "register" ELSE "idle")
    /\ UNCHANGED <<setup, tso, tidb, etcd, pd, up, job, txn, report, cache, tbl, ddl, br>>

Register(w) ==
    /\ Step(w, "register", "renew")
    /\ tidb' = [tidb EXCEPT !.leader = w]
    /\ UNCHANGED <<setup, tso, etcd, pd, up, job, txn, report, cache, tbl, ddl, br>>

\* The lease is saved; leaderTick goes on unless a job runs.
SaveLease(w) ==
    /\ Step(w, "renew", IF job[w].pc = "none" THEN "prepare" ELSE "idle")
    /\ tidb' = [tidb EXCEPT !.lease = Now + WorkerLease]
    /\ UNCHANGED <<setup, tso, etcd, pd, up, job, txn, report, cache, tbl, ddl, br>>

-----------------------------------------------------------------------------
(* prepare: is GC on, is it time, and what is the new safe point. *)

checkGCInterval == tidb.lastRun + RunInterval <= Now

CheckPrepare(w) ==
    /\ w \in up /\ worker[w].pc = "prepare"
    /\ IF tidb.enable /\ checkGCInterval
       THEN worker' = [worker EXCEPT ![w].pc = "calc", ![w].now = Now, ![w].last = tidb.safePoint]
       ELSE Step(w, "prepare", "idle")
    /\ UNCHANGED <<setup, tso, tidb, etcd, pd, up, job, txn, report, cache, tbl, ddl, br>>

calcGlobalMinStartTS == {etcd.min[s] : s \in Server} \ {None}

SafePointAtMinStartTS(safePoint) == Least({safePoint} \cup calcGlobalMinStartTS)

calcSafePointByMinStartTS(safePoint) ==
    Least({safePoint} \cup {IF ts > 0 THEN ts - 1 ELSE ts : ts \in calcGlobalMinStartTS})

CalcByMaxWait(w) ==
    /\ w \in up /\ worker[w].pc = "calc"
    /\ \E value \in calcSafePointByMinStartTS(TS(worker[w].now - MaxWait)) :
         worker' = [worker EXCEPT ![w].pc = "service", ![w].value = value]
    /\ UNCHANGED <<setup, tso, tidb, etcd, pd, up, job, txn, report, cache, tbl, ddl, br>>

\* When etcd cannot be read, the safe point is what the life time allows.
CalcSafePoint(w) ==
    LET safePoint == TS(worker[w].now - LifeTime) IN
    /\ w \in up /\ worker[w].pc = "calc"
    /\ \E value \in calcSafePointByMinStartTS(safePoint) \cup (IF May("etcd") THEN {safePoint} ELSE {}) :
         worker' = [worker EXCEPT ![w].pc = "service", ![w].value = value]
    /\ UNCHANGED <<setup, tso, tidb, etcd, pd, up, job, txn, report, cache, tbl, ddl, br>>

\* PD refuses a service safe point below all others.
Services(service) == {service[s] : s \in DOMAIN service} \ {None}

UpdateAnyway(id, sp) == [pd.service EXCEPT ![id] = sp]

UpdateServiceGCSafePoint(id, sp) ==
    LET S == Services(pd.service) IN
    IF S = {} \/ \E ts \in S : ts <= sp THEN [pd.service EXCEPT ![id] = sp] ELSE pd.service

SetUncompared(w) ==
    LET service == UpdateServiceGCSafePoint("gc_worker", worker[w].value) IN
    /\ w \in up /\ worker[w].pc = "service"
    /\ pd' = [pd EXCEPT !.service = service]
    /\ \E safePoint \in Least({worker[w].value} \cup Services(service)) :
         worker' = [worker EXCEPT ![w].pc = "run", ![w].value = safePoint]
    /\ UNCHANGED <<setup, tso, tidb, etcd, up, job, txn, report, cache, tbl, ddl, br>>

\* The worker goes on with the least safe point of all services.
SetServiceSafePoint(w) ==
    LET service == UpdateServiceGCSafePoint("gc_worker", worker[w].value) IN
    /\ w \in up /\ worker[w].pc = "service"
    /\ pd' = [pd EXCEPT !.service = service]
    /\ \E safePoint \in Least({worker[w].value} \cup Services(service)) :
         IF worker[w].last < Physical(safePoint)
         THEN worker' = [worker EXCEPT ![w].pc = "run", ![w].value = safePoint]
         ELSE Step(w, "service", "idle")
    /\ UNCHANGED <<setup, tso, tidb, etcd, up, job, txn, report, cache, tbl, ddl, br>>

SaveLastRun(w) ==
    /\ Step(w, "run", "save")
    /\ tidb' = [tidb EXCEPT !.lastRun = worker[w].now]
    /\ UNCHANGED <<setup, tso, etcd, pd, up, job, txn, report, cache, tbl, ddl, br>>

\* The safe point is saved whether or not a job starts with it.
SaveSafePoint(w) ==
    /\ Step(w, "save", "idle")
    /\ tidb' = [tidb EXCEPT !.safePoint = Physical(worker[w].value)]
    /\ job' = IF Now - worker[w].finish < WaitTime THEN job
              ELSE [job EXCEPT ![w] = [pc |-> "resolve", sp |-> worker[w].value, wake |-> 0]]
    /\ UNCHANGED <<setup, tso, etcd, pd, up, txn, report, cache, tbl, ddl, br>>

\* A load, a save or a call of PD fails.
TickFails(w) ==
    /\ May("error")
    /\ \E pc \in {"lease", "register", "renew", "prepare", "calc", "service", "run", "save"} : Step(w, pc, "idle")
    /\ UNCHANGED <<setup, tso, tidb, etcd, pd, up, job, txn, report, cache, tbl, ddl, br>>

-----------------------------------------------------------------------------
(* runGCJob, beside the ticks of its worker. *)

JobStep(w, from, to) ==
    /\ w \in up /\ job[w].pc = from
    /\ job' = [job EXCEPT ![w].pc = to]

\* Locks up to the safe point are resolved whether or not they expired: the transactions that
\* wrote are rolled back.
ResolveLocks(w) ==
    /\ JobStep(w, "resolve", "saving")
    /\ txn' = [t \in Txn |-> IF txn[t].pc = "running" /\ t \in setup.writers /\ txn[t].start <= job[w].sp
                             THEN [txn[t] EXCEPT !.pc = "aborted"] ELSE txn[t]]
    /\ UNCHANGED <<setup, tso, tidb, etcd, pd, up, worker, report, cache, tbl, ddl, br>>

SaveIgnoringErrors(w) ==
    /\ w \in up /\ job[w].pc = "saving"
    /\ \E saved \in {job[w].sp, etcd.saved} : etcd' = [etcd EXCEPT !.saved = saved]
    /\ job' = [job EXCEPT ![w].pc = "sleep", ![w].wake = Now + CacheInterval]
    /\ UNCHANGED <<setup, tso, tidb, pd, up, worker, txn, report, cache, tbl, ddl, br>>

\* The safe point is saved for the caches of all servers, which have an interval to load it.
SaveSafePointKV(w) ==
    /\ w \in up /\ job[w].pc = "saving"
    /\ etcd' = [etcd EXCEPT !.saved = job[w].sp]
    /\ job' = [job EXCEPT ![w].pc = "sleep", ![w].wake = Now + CacheInterval]
    /\ UNCHANGED <<setup, tso, tidb, pd, up, worker, txn, report, cache, tbl, ddl, br>>

LoadDeleteRanges(w) ==
    /\ Now >= job[w].wake
    /\ JobStep(w, "sleep", IF tbl.row = "todo" /\ tbl.ts < job[w].sp THEN "destroy" ELSE "redo")
    /\ UNCHANGED <<setup, tso, tidb, etcd, pd, up, worker, txn, report, cache, tbl, ddl, br>>

DestroyIgnoringErrors(w) ==
    /\ JobStep(w, "destroy", "complete")
    /\ \E stores \in IF May("error") THEN SUBSET Store ELSE {Store} :
         tbl' = [tbl EXCEPT !.destroyed = @ \cup stores]
    /\ UNCHANGED <<setup, tso, tidb, etcd, pd, up, worker, txn, report, cache, ddl, br>>

\* When a store does not destroy its part of the range, the row stays for the next job.
UnsafeDestroyRange(w) ==
    /\ \E stores \in IF May("error") THEN SUBSET Store ELSE {Store} :
         /\ JobStep(w, "destroy", IF stores = Store THEN "complete" ELSE "redo")
         /\ tbl' = [tbl EXCEPT !.destroyed = @ \cup stores]
    /\ UNCHANGED <<setup, tso, tidb, etcd, pd, up, worker, txn, report, cache, ddl, br>>

\* The row moves to gc_delete_range_done, unless the transaction fails.
CompleteDeleteRange(w) ==
    /\ JobStep(w, "complete", "redo")
    /\ \/ tbl' = [tbl EXCEPT !.row = IF @ = "todo" THEN "done" ELSE @]
       \/ May("error") /\ UNCHANGED tbl
    /\ UNCHANGED <<setup, tso, tidb, etcd, pd, up, worker, txn, report, cache, ddl, br>>

\* What was destroyed long ago is destroyed once more, and its row forgotten.
RedoDeleteRanges(w) ==
    /\ JobStep(w, "redo", "upload")
    /\ IF tbl.row = "done" /\ tbl.ts < job[w].sp - TS(RedoDelay)
       THEN \/ tbl' = [tbl EXCEPT !.destroyed = Store, !.row = "gone"]
            \/ May("error") /\ \E stores \in SUBSET Store : tbl' = [tbl EXCEPT !.destroyed = @ \cup stores]
       ELSE UNCHANGED tbl
    /\ UNCHANGED <<setup, tso, tidb, etcd, pd, up, worker, txn, report, cache, ddl, br>>

UploadSafePoint(w) ==
    /\ JobStep(w, "upload", "done")
    /\ pd' = [pd EXCEPT !.gc = IF job[w].sp > @ THEN job[w].sp ELSE @]
    /\ UNCHANGED <<setup, tso, tidb, etcd, up, worker, txn, report, cache, tbl, ddl, br>>

\* Any step of the job but those of the ranges ends it with its error.
JobFails(w) ==
    /\ May("error")
    /\ \E pc \in {"resolve", "saving", "sleep", "redo", "upload"} : JobStep(w, pc, "done")
    /\ UNCHANGED <<setup, tso, tidb, etcd, pd, up, worker, txn, report, cache, tbl, ddl, br>>

\* The loop of the worker takes the result between two ticks.
JobDone(w) ==
    /\ w \in up /\ worker[w].pc = "idle" /\ job[w].pc = "done"
    /\ job' = [job EXCEPT ![w] = NoJob]
    /\ worker' = [worker EXCEPT ![w].finish = Now]
    /\ UNCHANGED <<setup, tso, tidb, etcd, pd, up, txn, report, cache, tbl, ddl, br>>

-----------------------------------------------------------------------------
(* Transactions, what the servers report of them, and the safe point they cache. *)

\* The server of a transaction is part of the setup.
Hosts == {setup.server[t] : t \in setup.txns}

Begin(t) ==
    /\ t \in setup.txns /\ setup.server[t] \in up /\ txn[t].pc = "none"
    /\ NewTS
    /\ txn' = [txn EXCEPT ![t] = [pc |-> "running", start |-> tso']]
    /\ UNCHANGED <<setup, tidb, etcd, pd, up, worker, job, report, cache, tbl, ddl, br>>

Finish(t) ==
    /\ txn[t].pc = "running"
    /\ txn' = [txn EXCEPT ![t].pc = "finished"]
    /\ UNCHANGED <<setup, tso, tidb, etcd, pd, up, worker, job, report, cache, tbl, ddl, br>>

\* ReportMinStartTS lists the transactions before it asks for the time.
ListProcesses(s) ==
    /\ s \in up \cap Hosts /\ report[s].pc = "idle" /\ ~May("silent")
    /\ report' = [report EXCEPT ![s].pc = "listed",
                     ![s].list = {txn[t].start : t \in {x \in setup.txns : setup.server[x] = s /\ txn[x].pc = "running"}}]
    /\ UNCHANGED <<setup, tso, tidb, etcd, pd, up, worker, job, txn, cache, tbl, ddl, br>>

StoreMinStartTS(s) ==
    /\ s \in up /\ report[s].pc = "listed"
    /\ \E min \in Least({TS(Now)} \cup {ts \in report[s].list : ts > TS(Now - MaxWait)}) :
         etcd' = [etcd EXCEPT !.min[s] = min]
    /\ report' = [report EXCEPT ![s] = [pc |-> "idle", list |-> {}, time |-> Now]]
    /\ UNCHANGED <<setup, tso, tidb, pd, up, worker, job, txn, cache, tbl, ddl, br>>

\* The key of a server goes with its etcd session.
ExpireMinStartTS(s) ==
    /\ etcd.min[s] # None
    /\ s \notin up \/ May("expire")
    /\ etcd' = [etcd EXCEPT !.min[s] = None]
    /\ UNCHANGED <<setup, tso, tidb, pd, up, worker, job, txn, report, cache, tbl, ddl, br>>

\* The client of TiKV loads the saved safe point now and then, ...
LoadSafePoint(s) ==
    /\ s \in up \cap Hosts /\ "read" \in setup.parts
    /\ cache' = [cache EXCEPT ![s] = [sp |-> etcd.saved, time |-> Now]]
    /\ UNCHANGED <<setup, tso, tidb, etcd, pd, up, worker, job, txn, report, tbl, ddl, br>>

\* ... and lets a transaction read when it is fresh and not above the start.
CheckVisibility(s, start) == Now - cache[s].time < CacheInterval /\ cache[s].sp <= start

-----------------------------------------------------------------------------
(* Backups. *)

CheckGCSafePoint(ts) == ts > pd.gc

\* A backup of now, of some time ago, or of the changes since an earlier one. It starts, too, when
\* PD does not answer the check.
StartBackup(b) ==
    /\ b \in setup.backups /\ br[b].pc = "none"
    /\ \E ts \in {tso, TS(Now - LifeTime)} \ {0}, pc \in {"checked", "failed"} :
         /\ IF CheckGCSafePoint(ts) THEN pc = "checked" ELSE pc = "failed" \/ May("pd")
         /\ br' = [br EXCEPT ![b] = [pc |-> pc, ts |-> ts]]
    /\ UNCHANGED <<setup, tso, tidb, etcd, pd, up, worker, job, txn, report, cache, tbl, ddl>>

\* At the start and then by the keeper. That PD refused is no more than a warning.
UpdateServiceSafePoint(b) ==
    /\ br[b].pc \in {"checked", "running"}
    /\ br' = [br EXCEPT ![b].pc = "running"]
    /\ pd' = [pd EXCEPT !.service = UpdateServiceGCSafePoint(b, br[b].ts - 1)]
    /\ UNCHANGED <<setup, tso, tidb, etcd, up, worker, job, txn, report, cache, tbl, ddl>>

\* The keeper finds the backup overtaken, and aborts it.
KeeperPanics(b) ==
    /\ br[b].pc = "running" /\ ~CheckGCSafePoint(br[b].ts)
    /\ br' = [br EXCEPT ![b].pc = "failed"]
    /\ UNCHANGED <<setup, tso, tidb, etcd, pd, up, worker, job, txn, report, cache, tbl, ddl>>

\* The backup ends and removes its service safe point.
FinishBackup(b) ==
    /\ br[b].pc = "running"
    /\ br' = [br EXCEPT ![b].pc = "finished"]
    /\ pd' = [pd EXCEPT !.service[b] = None]
    /\ UNCHANGED <<setup, tso, tidb, etcd, up, worker, job, txn, report, cache, tbl, ddl>>

\* The TTL of a service safe point that is not kept up ends.
ExpireService(b) ==
    /\ pd.service[b] # None
    /\ br[b].pc # "running" \/ May("pd")
    /\ pd' = [pd EXCEPT !.service[b] = None]
    /\ UNCHANGED <<setup, tso, tidb, etcd, up, worker, job, txn, report, cache, tbl, ddl, br>>

-----------------------------------------------------------------------------
(* DROP TABLE and RECOVER TABLE. *)

DropTable ==
    /\ "drop" \in setup.parts /\ tbl.pc = "live"
    /\ NewTS
    /\ tbl' = [tbl EXCEPT !.pc = "dropping", !.snapshot = tso']
    /\ UNCHANGED <<setup, tidb, etcd, pd, up, worker, job, txn, report, cache, ddl, br>>

\* The schema versions of the job take more than one physical time.
InsertDeleteRange ==
    /\ tbl.pc = "dropping" /\ Now > Physical(tbl.snapshot)
    /\ NewTS
    /\ tbl' = [tbl EXCEPT !.pc = "dropped", !.row = "todo", !.ts = tso']
    /\ UNCHANGED <<setup, tidb, etcd, pd, up, worker, job, txn, report, cache, ddl, br>>

ValidateSnapshot == TS(tidb.safePoint) <= tbl.snapshot

DDLStep(from, to) == ddl.pc = from /\ ddl' = [ddl EXCEPT !.pc = to]

RecoverTable ==
    /\ "recover" \in setup.parts
    /\ tbl.pc = "dropped" /\ tbl.row # "none" /\ ValidateSnapshot
    /\ DDLStep("none", "flag")
    /\ UNCHANGED <<setup, tso, tidb, etcd, pd, up, worker, job, txn, report, cache, tbl, br>>

\* The first step only notes whether GC is on.
SetCheckFlag ==
    /\ ddl.pc = "flag"
    /\ ddl' = [pc |-> "disable", flag |-> tidb.enable]
    /\ UNCHANGED <<setup, tso, tidb, etcd, pd, up, worker, job, txn, report, cache, tbl, br>>

DisableWithFlag ==
    /\ ddl.pc = "disable"
    /\ ddl' = [pc |-> "check", flag |-> tidb.enable]
    /\ tidb' = [tidb EXCEPT !.enable = FALSE]
    /\ UNCHANGED <<setup, tso, etcd, pd, up, worker, job, txn, report, cache, tbl, br>>

DisableGC ==
    /\ DDLStep("disable", "check")
    /\ tidb' = [tidb EXCEPT !.enable = FALSE]
    /\ UNCHANGED <<setup, tso, etcd, pd, up, worker, job, txn, report, cache, tbl, br>>

CheckNothing ==
    /\ DDLStep("check", "remove")
    /\ UNCHANGED <<setup, tso, tidb, etcd, pd, up, worker, job, txn, report, cache, tbl, br>>

CheckSafePoint ==
    /\ DDLStep("check", IF ValidateSnapshot THEN "remove" ELSE "cancelled")
    /\ UNCHANGED <<setup, tso, tidb, etcd, pd, up, worker, job, txn, report, cache, tbl, br>>

\* A transaction of its own, before that of the job.
RemoveFromGCDeleteRange ==
    /\ DDLStep("remove", "commit")
    /\ tbl' = [tbl EXCEPT !.row = IF @ = "todo" THEN "none" ELSE @]
    /\ UNCHANGED <<setup, tso, tidb, etcd, pd, up, worker, job, txn, report, cache, br>>

\* The table is public with the transaction of the job; when it fails the step runs again,
\* and when PD does not take the label rules the job is cancelled.
CommitRecover ==
    /\ \/ DDLStep("commit", "done") /\ tbl' = [tbl EXCEPT !.pc = "recovered"]
       \/ May("commit") /\ DDLStep("commit", "disable") /\ UNCHANGED tbl
       \/ May("label") /\ DDLStep("commit", "cancelled") /\ UNCHANGED tbl
    /\ UNCHANGED <<setup, tso, tidb, etcd, pd, up, worker, job, txn, report, cache, br>>

\* GC is turned on again before the transaction that finishes the job commits.
FinishRecoverTable ==
    /\ ddl.pc \in {"done", "cancelled"}
    /\ tidb' = [tidb EXCEPT !.enable = @ \/ ddl.flag]
    /\ \/ ddl' = [ddl EXCEPT !.pc = "finished"]
       \/ May("commit") /\ ddl' = [ddl EXCEPT !.pc = IF @ = "done" THEN "done" ELSE "disable"]
    /\ UNCHANGED <<setup, tso, etcd, pd, up, worker, job, txn, report, cache, tbl, br>>

-----------------------------------------------------------------------------
\* Time waits for what is done many times in the periods that depend on it: the reports of the
\* servers, the leader that renews its lease, and a DDL step between two of its statements.
Tick ==
    /\ Now < setup.maxTime
    /\ \A s \in Hosts \cap up : May("silent") \/ Now < report[s].time + ReportInterval
    /\ tidb.leader \in up => Now < tidb.lease
    /\ ddl.pc # "remove"
    /\ tso' = TS(Now + 1)
    /\ UNCHANGED <<setup, tidb, etcd, pd, up, worker, job, txn, report, cache, tbl, ddl, br>>

Crash(s) ==
    /\ May("crash") /\ s \in up /\ s \in setup.crashing
    /\ up' = up \ {s}
    /\ worker' = [worker EXCEPT ![s] = Idle(0, LifeTime)]
    /\ job' = [job EXCEPT ![s] = NoJob]
    /\ txn' = [t \in Txn |-> IF t \in setup.txns /\ setup.server[t] = s /\ txn[t].pc = "running"
                             THEN [txn[t] EXCEPT !.pc = "finished"] ELSE txn[t]]
    /\ report' = [report EXCEPT ![s].pc = "idle", ![s].list = {}]
    /\ UNCHANGED <<setup, tso, tidb, etcd, pd, cache, tbl, ddl, br>>

Next ==
    \/ \E s \in Server :
         \/ CheckLeader(s) \/ LoadLease(s) \/ Register(s) \/ SaveLease(s)
         \/ CheckPrepare(s) \/ CalcSafePoint(s) \/ SetServiceSafePoint(s) \/ SaveLastRun(s)
         \/ SaveSafePoint(s) \/ TickFails(s)
         \/ ResolveLocks(s) \/ SaveSafePointKV(s) \/ LoadDeleteRanges(s) \/ UnsafeDestroyRange(s)
         \/ CompleteDeleteRange(s) \/ RedoDeleteRanges(s) \/ UploadSafePoint(s) \/ JobFails(s) \/ JobDone(s)
         \/ ListProcesses(s) \/ StoreMinStartTS(s) \/ ExpireMinStartTS(s) \/ LoadSafePoint(s)
         \/ Crash(s)
    \/ \E t \in Txn : Begin(t) \/ Finish(t)
    \/ \E b \in Backup :
         StartBackup(b) \/ UpdateServiceSafePoint(b) \/ KeeperPanics(b) \/ FinishBackup(b) \/ ExpireService(b)
    \/ DropTable \/ InsertDeleteRange
    \/ RecoverTable \/ SetCheckFlag \/ DisableGC \/ CheckSafePoint \/ RemoveFromGCDeleteRange
    \/ CommitRecover \/ FinishRecoverTable
    \/ Tick

Spec == Init /\ [][Next]_vars

-----------------------------------------------------------------------------
Jobs == {w \in Server : job[w].pc # "none"}
Used == {pd.gc, etcd.saved} \cup {job[w].sp : w \in Jobs}

\* A transaction that is not older than GCMaxWaitTime is never overtaken by a safe point, although
\* a server reports its transactions only now and then (ReportMinStartTS) and a GC worker reads the
\* reports before others are written; without the reports, LifeTime is what it can rely on.
TxnKept ==
    LET limit == IF May("etcd") \/ May("silent") \/ May("expire") THEN LifeTime ELSE MaxWait IN
    \A t \in Txn :
        txn[t].start > TS(Now - limit) =>
            /\ txn[t].pc # "aborted"
            /\ txn[t].pc = "running" => \A sp \in Used : sp < txn[t].start

\* A transaction that may read (CheckVisibility) finds everything it can see: no version of its
\* snapshot was collected, and no range that was dropped after its start was destroyed, because
\* runGCJob waits for the caches after it saves the safe point.
NoSilentRead ==
    \A t \in setup.txns :
        "read" \in setup.parts /\ txn[t].pc = "running" /\ CheckVisibility(setup.server[t], txn[t].start) =>
            /\ pd.gc <= txn[t].start
            /\ tbl.destroyed # {} => tbl.ts <= txn[t].start

\* While PD has the service safe point of a backup, no safe point passes it, even if the backup
\* registered between the calls of a GC job or lost its registration in between.
BackupKept ==
    \A b \in Backup : pd.service[b] # None =>
        pd.gc < br[b].ts /\ \A w \in Jobs : job[w].sp < br[b].ts

\* A table that was recovered has its data, whatever a GC job was doing when GC was turned off.
RecoverSafe == tbl.pc = "recovered" => tbl.destroyed = {}

\* The row of a range goes only after its data, and data go only when RECOVER TABLE would refuse.
RangeGone ==
    /\ tbl.row \in {"done", "gone"} => tbl.destroyed = Store
    /\ tbl.destroyed # {} => ~ValidateSnapshot

\* After RECOVER TABLE, GC is on as it was before, however often a transaction of the job failed.
GCRestored == ddl.pc \in {"none", "flag", "finished"} => tidb.enable

\* The saved safe points never go back, across jobs, errors and changes of the leader.
NeverDecreases ==
    [][/\ etcd'.saved >= etcd.saved
       /\ tidb'.safePoint >= tidb.safePoint]_vars

WorkerPC == {"idle", "lease", "register", "renew", "prepare", "calc", "service", "run", "save"}
JobPC == {"none", "resolve", "saving", "sleep", "destroy", "complete", "redo", "upload", "done"}

\* Every variable keeps its type: timestamps and safe points, the steps of leaders and of GC jobs.
TypeOK ==
    /\ setup \in Setups /\ tso \in Nat
    /\ tidb.leader \in Server /\ {tidb.lease, tidb.lastRun, tidb.safePoint} \subseteq Nat
    /\ tidb.enable \in BOOLEAN
    /\ etcd.saved \in Nat /\ \A s \in Server : etcd.min[s] \in Nat \cup {None}
    /\ pd.gc \in Nat /\ \A s \in DOMAIN pd.service : pd.service[s] \in Nat \cup {None}
    /\ up \subseteq Server
    /\ \A s \in Server :
         /\ worker[s].pc \in WorkerPC
         /\ worker[s].value \in Nat /\ worker[s].now \in Nat /\ worker[s].finish \in Nat
         /\ job[s].pc \in JobPC
         /\ job[s].sp \in Nat
    /\ tbl.row \in {"none", "todo", "done", "gone"} /\ tbl.destroyed \subseteq Store
===========================================================================
