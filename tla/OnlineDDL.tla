----------------------------- MODULE OnlineDDL -----------------------------
(***************************************************************************)
(* Online schema change: DDL jobs that add and drop an index, run by the   *)
(* DDL owner one schema state at a time, while the transactions of every   *)
(* server keep writing rows.  After each state the owner waits until all   *)
(* servers use the new version (schema lease) or hold no older metadata    *)
(* lock (EnableMDL), so that no two servers are ever two states apart.     *)
(*                                                                         *)
(* Composed here: the job table, its dispatcher and worker (src/ddl), the  *)
(* schema syncer over etcd (src/ddl/syncer), the domain that reloads the   *)
(* schema and acquires metadata locks (src/domain), the schema validator   *)
(* (SchemaDeltas), and the transactions of src/session, src/planner and    *)
(* src/table that use a schema version.                                    *)
(***************************************************************************)
EXTENDS SchemaDeltas, Integers, FiniteSets

CONSTANTS
    Server,         \* TiDB servers, by their DDL ID
    Table,
    Job,            \* job IDs, natural numbers
    Setups          \* what a behaviour may start from, see Setup

\* runErr: a run fails after it took a version; dupKey: the backfill meets a
\* duplicate; commit: a commit is applied but reported as failed; rollback: a
\* commit fails; serverInfo: etcd fails while the owner lists the servers; self:
\* a version is not published; fullLoad: diffs cannot be applied; expire: the
\* schema lease runs out; session: an etcd session is lost; retire: an owner gives
\* up; overlap: it does while its workers still run; flap: it is elected again
\* within one tick of its dispatch loop; stall: a server stops for longer than the owner's
\* polling interval between publishing a version and updating its validator.
Faults == {"runErr", "dupKey", "commit", "rollback", "serverInfo", "self", "fullLoad",
           "expire", "session", "retire", "overlap", "flap", "stall"}

Setup == [candidate : SUBSET Server,        \* servers that campaign (tidb_enable_ddl)
          client : SUBSET Server,           \* servers that run transactions
          crashing : SUBSET Server,         \* servers that may restart
          jobs : SUBSET Job,                \* jobs that are submitted
          tableOf : [Job -> Table],
          kind : [Job -> {"addIndex", "dropIndex"}],
          cancellable : SUBSET Job,         \* jobs somebody cancels
          mdl : BOOLEAN,                    \* tidb_enable_metadata_lock
          faulty : SUBSET Faults,           \* what may go wrong
          maxVersion : Nat \ {0}]           \* bound on schema versions

ASSUME SetupAssumption == Job \subseteq Nat /\ Setups \subseteq Setup

VARIABLES
    schema,     \* TiKV: version, diff of each version, and the tables
    job,        \* TiKV: mysql.tidb_ddl_job and the history
    mdlInfo,    \* TiKV: mysql.tidb_mdl_info, 0 for no row
    data,       \* TiKV: one row of each table and its index entry
    self,       \* etcd: the version each server publishes (lease mode)
    byJob,      \* etcd: the version each DDL ID publishes for a job (MDL), 0 for no key
    session,    \* each server's etcd session: "ok", "lost", or "reload" once it is back
    ddl,        \* each server's ddl: owner flag, once, unsynced jobs, backfills
    worker,     \* each server's goroutine for a job
    domain,     \* each server's infoschema and Reload in progress
    validator,  \* each server's schema validator
    mdlCheck,   \* each server's mdlCheckTableInfo and mdlCheckLoop
    txn,        \* each client's transaction
    setup       \* settings of the cluster, and who does what

tikv == <<schema, job, mdlInfo, data>>
etcd == <<self, byJob, session>>
server == <<ddl, worker, domain, validator, mdlCheck, txn>>
vars == <<tikv, etcd, server, setup>>

Candidate == setup.candidate
Client == setup.client
Crashing == setup.crashing
TableOf == setup.tableOf
Kind == setup.kind
Cancellable == setup.cancellable
EnableMDL == setup.mdl
Faulty == setup.faulty
MaxVersion == setup.maxVersion

NoTable == "noTable"
Unset == <<>>       \* a version whose diff is not written (yet)

\* The DDL IDs of servers that restarted: their keys for a job stay in etcd.
Dead == "dead"
NoKeys == [m \in Server \cup {Dead} |-> 0]

IndexState == {"none", "deleteOnly", "writeOnly", "writeReorg", "public", "deleteReorg"}
JobState == {"none", "running", "cancelling", "rollingback", "done", "rollbackDone",
             "cancelled", "synced"}

\* step counts the state changes of the table's index.
TableInfo == [state : IndexState, step : Nat]

Zeroes == [j \in Job |-> 0]
IdleWorker == [pc |-> "idle", ver |-> 0, job |-> [st |-> "none", reorg |-> FALSE],
               state |-> "none", seen |-> {}, conflict |-> FALSE]
NoLock == -1        \* no entry in relatedTableForMDL
NoTxn == [pc |-> "idle", t |-> NoTable, ver |-> 0, mdl |-> NoLock, got |-> 0,
          used |-> [state |-> "none", step |-> 0], at |-> 0]
NewDDL == [owner |-> FALSE, once |-> TRUE, unsynced |-> {}, reorg |-> [j \in Job |-> "none"]]
NewMDLCheck == [newest |-> 0, jobs |-> Zeroes, saved |-> 0, need |-> FALSE,
                cache |-> Zeroes, todo |-> Zeroes]
Loaded(v, tables) == [ver |-> v, tbl |-> tables, pc |-> "idle", old |-> 0,
                      change |-> NoChange, full |-> FALSE]
Booted(v) == Update(NewValidator, 0, v, NoChange)

\* The tables whose index a job is to drop have it when the model starts.
InitialTable(t) ==
    [state |-> IF \E j \in setup.jobs : TableOf[j] = t /\ Kind[j] = "dropIndex"
                                        /\ \A k \in setup.jobs : TableOf[k] = t => j <= k
               THEN "public" ELSE "none",
     step |-> 0]

Init ==
    /\ setup \in Setups
    /\ schema = [ver |-> 1, diff |-> [v \in 1..MaxVersion |-> IF v = 1 THEN <<NoTable, "none">> ELSE Unset],
                 tbl |-> [t \in Table |-> InitialTable(t)]]
    /\ job = [j \in Job |-> [st |-> "none", reorg |-> FALSE, where |-> "absent"]]
    /\ mdlInfo = Zeroes
    /\ data = [t \in Table |-> [row |-> FALSE, idx |-> FALSE]]
    /\ self = [n \in Server |-> 1]
    /\ byJob = [j \in Job |-> NoKeys]
    /\ session = [n \in Server |-> "ok"]
    /\ ddl = [n \in Server |-> NewDDL]
    /\ worker = [n \in Server |-> [j \in Job |-> IdleWorker]]
    /\ domain = [n \in Server |-> Loaded(1, schema.tbl)]
    /\ validator = [n \in Server |-> Booted(1)]
    /\ mdlCheck = [n \in Server |-> NewMDLCheck]
    /\ txn = [n \in Server |-> NoTxn]

-----------------------------------------------------------------------------
(* The job's own state machine: what one run of a job does to its table.   *)

Result(st, reorg, state, rc) == [st |-> st, reorg |-> reorg, state |-> state, rc |-> rc]

\* Mutant of AddNext: delete only is skipped.
AddNextSkip == [none |-> "writeOnly", deleteOnly |-> "writeOnly", writeOnly |-> "writeReorg"]

AddNext == [none |-> "deleteOnly", deleteOnly |-> "writeOnly", writeOnly |-> "writeReorg"]

\* Mutant of DropNext: write only is skipped.
DropNextSkip == [public |-> "deleteOnly", writeOnly |-> "deleteOnly",
                 deleteOnly |-> "deleteReorg", deleteReorg |-> "none"]

DropNext == [public |-> "writeOnly", writeOnly |-> "deleteOnly",
             deleteOnly |-> "deleteReorg", deleteReorg |-> "none"]

\* Also the way back of a rolling back add index.  An index that does not exist
\* cancels the job (checkDropIndex), and a state a drop cannot meet is an error.
onDropIndex(c, s, rc) ==
    CASE s = "none" -> Result("cancelled", c.reorg, s, rc)
      [] s = "deleteReorg" ->
            Result(IF c.st = "rollingback" THEN "rollbackDone" ELSE "done", c.reorg, "none", rc)
      [] s \in {"public", "writeOnly", "deleteOnly"} -> Result(c.st, c.reorg, DropNext[s], rc)
      [] OTHER -> Result(c.st, c.reorg, s, rc)

convertAddIdxJob2RollbackJob(c) == Result("rollingback", c.reorg, "deleteOnly", "none")

\* Write reorganisation takes several runs: the first only sets the snapshot
\* (reorg), the next starts the backfill in a goroutine (rc), and each later one
\* waits a while for it to end.  A cancelled backfill ends as a rollback.
runReorgJob(c, s, rc) ==
    CASE ~c.reorg -> {Result(c.st, TRUE, s, rc)}
      [] c.reorg /\ c.st = "cancelling" ->
            {convertAddIdxJob2RollbackJob(c)} \cup (IF rc = "running" THEN {Result(c.st, TRUE, s, rc)} ELSE {})
      [] c.reorg /\ c.st # "cancelling" /\ rc # "done" -> {Result(c.st, TRUE, s, "running")}
      [] OTHER -> {Result("done", TRUE, "public", "none")}
                    \cup (IF "dupKey" \in Faulty THEN {convertAddIdxJob2RollbackJob(c)} ELSE {})

onCreateIndex(c, s, rc) ==
    CASE c.st = "rollingback" -> {onDropIndex(c, s, rc)}
      [] c.st # "rollingback" /\ s = "public" -> {Result("cancelled", c.reorg, s, rc)}
      [] c.st # "rollingback" /\ s \in DOMAIN AddNext -> {Result(c.st, FALSE, AddNext[s], rc)}
      [] c.st # "rollingback" /\ s = "writeReorg" -> runReorgJob(c, s, rc)
      [] OTHER -> {Result(c.st, c.reorg, s, rc)}

\* A cancelled add index leaves through delete only, whatever state it reached; a
\* drop index can only be cancelled before its first state.
convertJob2RollbackJob(kind, c, s, rc) ==
    CASE kind = "addIndex" /\ s = "writeReorg" /\ c.reorg -> onCreateIndex(c, s, rc)
      [] kind = "addIndex" /\ s = "none" -> {Result("cancelled", c.reorg, s, rc)}
      [] kind = "dropIndex" /\ s \in {"none", "public"} -> {Result("cancelled", c.reorg, s, rc)}
      [] kind = "dropIndex" /\ s \notin {"none", "public"} -> {Result("running", c.reorg, s, rc)}
      [] OTHER -> {convertAddIdxJob2RollbackJob(c)}

runDDLJob(kind, c, s, rc) ==
    LET r == [c EXCEPT !.st = IF @ = "rollingback" THEN @ ELSE "running"]
    IN  IF c.st = "cancelling" THEN convertJob2RollbackJob(kind, c, s, rc)
        ELSE IF kind = "addIndex" THEN onCreateIndex(r, s, rc)
        ELSE {onDropIndex(r, s, rc)}

-----------------------------------------------------------------------------
(* The job table and its dispatcher (src/ddl/job_table.go).                *)

InTable(j) == job[j].where \in {"queue", "processing"}

\* DoDDLJob: the session's job is inserted into mysql.tidb_ddl_job.
SubmitJob(j) ==
    /\ j \in setup.jobs
    /\ job[j].where = "absent"
    /\ \A k \in setup.jobs : k < j => job[k].where # "absent"
    /\ job' = [job EXCEPT ![j].where = "queue"]
    /\ UNCHANGED <<schema, mdlInfo, data, etcd, server, setup>>

\* Writing a job's row makes the commit of any other open transaction on it fail.
Conflicting(j, n, w) ==
    [m \in Server |-> [w[m] EXCEPT ![j].conflict = @ \/ (m # n /\ w[m][j].pc \in {"commit", "finish"})]]

\* A job that is queued has not reached a state of its own yet.
IsRollbackable(j) ==
    Kind[j] = "dropIndex" /\ job[j].where = "processing" =>
        schema.tbl[TableOf[j]].state \notin {"deleteOnly", "deleteReorg", "writeOnly"}

\* Mutant of CancelJob: the job is over at once, whatever its worker is doing.
CancelJobAtOnce(j) ==
    /\ j \in Cancellable
    /\ InTable(j)
    /\ job[j].st \in {"none", "running"}
    /\ IsRollbackable(j)
    /\ job' = [job EXCEPT ![j].st = "cancelled", ![j].where = "history"]
    /\ UNCHANGED <<schema, mdlInfo, data, etcd, server, setup>>

\* cancelConcurrencyJobs, in a transaction of its own.  (To cancel a job again that
\* is cancelling leaves its row as it is, and is left out.)
CancelJob(j) ==
    /\ j \in Cancellable
    /\ InTable(j)
    /\ job[j].st \in {"none", "running"}
    /\ IsRollbackable(j)
    /\ job' = [job EXCEPT ![j].st = "cancelling"]
    /\ worker' = Conflicting(j, "nobody", worker)
    /\ UNCHANGED <<schema, mdlInfo, data, etcd, ddl, domain, validator, mdlCheck, txn, setup>>

\* Owner election (src/owner): a server wins once the previous owner is gone.
Elect(n) ==
    /\ n \in Candidate
    /\ \A m \in Server : ~ddl[m].owner
    /\ ddl[n].once \/ "flap" \in Faulty
    /\ ddl' = [ddl EXCEPT ![n].owner = TRUE]
    /\ UNCHANGED <<tikv, etcd, worker, domain, validator, mdlCheck, txn, setup>>

Retire(n) ==
    /\ ddl[n].owner
    /\ \/ "overlap" \in Faulty
       \/ "retire" \in Faulty /\ \A j \in Job : worker[n][j].pc = "idle"
    /\ ddl' = [ddl EXCEPT ![n].owner = FALSE]
    /\ UNCHANGED <<tikv, etcd, worker, domain, validator, mdlCheck, txn, setup>>

\* The dispatch loop of a server that is not the owner.
DispatchNotOwner(n) ==
    /\ ~ddl[n].owner /\ ~ddl[n].once
    /\ ddl' = [ddl EXCEPT ![n].once = TRUE]
    /\ UNCHANGED <<tikv, etcd, worker, domain, validator, mdlCheck, txn, setup>>

\* A new job waits for the processing one of its table, and for older ones.
Eligible(j) ==
    /\ job[j].where = "queue"
    /\ \A k \in Job : TableOf[k] = TableOf[j] =>
         /\ job[k].where # "processing"
         /\ job[k].where = "queue" => j <= k

\* getJob looks up reorganisation jobs and the others separately, and takes the
\* jobs that are processing first, then those with smaller IDs.
Runnable(n, j) ==
    LET processing(k) == job[k].where = "processing" /\ worker[n][k].pc = "idle"
        first(P(_)) == P(j) /\ \A k \in Job : (Kind[k] = Kind[j] /\ k < j) => ~P(k)
    IN  \/ first(processing)
        \/ /\ \A k \in Job : Kind[k] = Kind[j] => ~processing(k)
           /\ first(Eligible)

\* loadDDLJobAndRun: read the job, mark it as processing, start its goroutine.
GetJob(n, j) ==
    /\ ddl[n].owner
    /\ worker[n][j].pc = "idle"
    /\ Runnable(n, j)
    /\ job' = [job EXCEPT ![j].where = "processing"]
    /\ worker' = [worker EXCEPT ![n][j] =
            [IdleWorker EXCEPT !.pc = "start", !.job = [st |-> job[j].st, reorg |-> job[j].reorg]]]
    /\ UNCHANGED <<schema, mdlInfo, data, etcd, ddl, domain, validator, mdlCheck, txn, setup>>

\* Mutant of NonEmptyVersion: the last version, whether it has a diff or not.
LastVersion == schema.ver

\* GetSchemaVersionWithNonEmptyDiff: the last version may have no diff yet.
NonEmptyVersion == IF schema.diff[schema.ver] = Unset THEN schema.ver - 1 ELSE schema.ver

Waits(st) == st \in {"running", "rollingback", "done", "rollbackDone"}

\* Mutant of SyncFirst: the flag that a new owner has yet to wait is ignored.
SyncFirstNoOnce(n, j) == j \in ddl[n].unsynced

\* delivery2worker first waits for the version the job's last run may have left
\* behind, in this goroutine's own server (isSynced) or in another owner (once).
SyncFirst(n, j) == j \in ddl[n].unsynced \/ ddl[n].once

CheckSync(n, j) ==
    LET w == worker[n][j]
        to(pc, ver) == worker' = [worker EXCEPT ![n][j].pc = pc, ![n][j].ver = ver]
    IN  /\ w.pc = "start"
        /\ \/ /\ ~SyncFirst(n, j)
              /\ to("run", 0) /\ UNCHANGED ddl
           \/ /\ SyncFirst(n, j) /\ EnableMDL
              /\ IF mdlInfo[j] # 0 THEN to("waitMDL", mdlInfo[j]) ELSE to("run", 0)
              /\ UNCHANGED ddl
           \/ /\ SyncFirst(n, j) /\ ~EnableMDL
              /\ IF Waits(w.job.st)
                 THEN to("waitSynced", NonEmptyVersion) /\ UNCHANGED ddl
                 ELSE to("run", 0) /\ ddl' = [ddl EXCEPT ![n].once = FALSE]
        /\ UNCHANGED <<tikv, etcd, domain, validator, mdlCheck, txn, setup>>

-----------------------------------------------------------------------------
(* The schema syncer's wait (src/ddl/syncer/syncer.go).                    *)

\* Servers with a live etcd session: their keys have not expired.
Registered == {m \in Server : session[m] # "lost"}

\* Mutant of AllSynced: a server that published nothing is taken for one that is
\* up to date.
AllSyncedAnyKey(j, ver, seen) ==
    IF EnableMDL THEN \A m \in DOMAIN byJob[j] : byJob[j][m] # 0 => byJob[j][m] >= ver
    ELSE \A m \in Registered \ seen : self[m] # 0 => self[m] >= ver - 1

\* One round of OwnerCheckAllVersions.  With metadata locks every registered
\* server must have published the job's version, and no key may be older; with
\* the lease every key not seen in an earlier round must have reached it, and the
\* 50 ms before the first round see the publishing server's Reload to its end.
AllSynced(j, ver, seen) ==
    IF EnableMDL
    THEN /\ \A m \in Registered : byJob[j][m] >= ver
         /\ \A m \in DOMAIN byJob[j] : byJob[j][m] # 0 => byJob[j][m] >= ver
    ELSE \A m \in Registered \ seen :
            self[m] >= ver /\ ("stall" \in Faulty \/ domain[m].pc # "update")

\* A round that fails remembers the keys it saw before the one that is behind.
RecheckVersions(n, j) ==
    LET w == worker[n][j]
    IN  /\ ~EnableMDL
        /\ w.pc \in {"wait", "waitSynced"} /\ w.ver # 0
        /\ \E m \in Registered \ w.seen :
             /\ self[m] >= w.ver /\ ("stall" \in Faulty \/ domain[m].pc # "update")
             /\ \E k \in Registered \ w.seen : self[k] < w.ver
             /\ worker' = [worker EXCEPT ![n][j].seen = @ \cup {m}]
        /\ UNCHANGED <<tikv, etcd, ddl, domain, validator, mdlCheck, txn, setup>>

\* waitSchemaSynced is over: on to the run.
WaitSchemaSynced(n, j) ==
    LET w == worker[n][j]
    IN  /\ w.pc = "waitSynced"
        /\ AllSynced(j, w.ver, w.seen)
        /\ worker' = [worker EXCEPT ![n][j].pc = "run", ![n][j].ver = 0, ![n][j].seen = {}]
        /\ ddl' = [ddl EXCEPT ![n].once = FALSE]
        /\ UNCHANGED <<tikv, etcd, domain, validator, mdlCheck, txn, setup>>

\* waitSchemaSyncedForMDL, then cleanMDLInfo; the job itself runs the next time.
\* An error leaves everything as it is.
WaitSchemaSyncedForMDL(n, j) ==
    LET w == worker[n][j]
    IN  /\ w.pc = "waitMDL"
        /\ worker' = [worker EXCEPT ![n][j] = IdleWorker]
        /\ \/ /\ AllSynced(j, w.ver, {})
              /\ ddl' = [ddl EXCEPT ![n].once = FALSE]
              /\ mdlInfo' = [mdlInfo EXCEPT ![j] = 0]
              /\ byJob' = [byJob EXCEPT ![j] = NoKeys]
           \/ /\ "serverInfo" \in Faulty
              /\ UNCHANGED <<ddl, mdlInfo, byJob>>
        /\ UNCHANGED <<schema, job, data, self, session, domain, validator, mdlCheck, txn, setup>>

-----------------------------------------------------------------------------
(* The worker (src/ddl/ddl_worker.go, HandleDDLJobTable).                  *)

\* Mutant of HoldsVersion: nobody holds the version lock.
HoldsVersionNever(n, j) == FALSE

\* schemaVersionManager: one job at a time is between taking a version and the
\* commit of that version's diff.
HoldsVersion(n, j) == worker[n][j].pc = "commit" /\ worker[n][j].ver # 0

\* The transaction begins and the job runs in it.  A new version is taken in a
\* transaction of its own (setSchemaVersion), so it is visible before the commit.
RunJob(n, j) ==
    LET w == worker[n][j]
        s == schema.tbl[TableOf[j]].state
        take(isNew) == /\ isNew => /\ \A k \in Job \ {j} : ~HoldsVersion(n, k)
                                   /\ schema.ver < MaxVersion
                       /\ schema' = IF isNew THEN [schema EXCEPT !.ver = @ + 1] ELSE schema
        open(pc, ver, st, reorg, state) ==
            worker' = [worker EXCEPT ![n][j] = [@ EXCEPT !.pc = pc, !.ver = ver, !.state = state,
                           !.conflict = FALSE, !.job = [st |-> st, reorg |-> reorg]]]
    IN  /\ w.pc = "run"
        /\ \/ /\ w.job.st \in {"done", "rollbackDone"}
              /\ open("finish", 0, IF w.job.st = "done" THEN "synced" ELSE w.job.st, w.job.reorg, s)
              /\ UNCHANGED <<schema, ddl>>
           \/ /\ w.job.st \notin {"done", "rollbackDone"}
              /\ \E r \in runDDLJob(Kind[j], w.job, s, ddl[n].reorg[j]) :
                   /\ take(r.state # s)
                   /\ ddl' = [ddl EXCEPT ![n].reorg[j] = r.rc]
                   /\ open(IF r.st = "cancelled" THEN "finish" ELSE "commit",
                           IF r.state # s THEN schema.ver + 1 ELSE 0, r.st, r.reorg, r.state)
           \/ /\ w.job.st \in {"none", "running"} /\ "runErr" \in Faulty
              /\ take(TRUE)
              /\ open("commit", 0, "running", w.job.reorg, s)
              /\ UNCHANGED ddl
        /\ UNCHANGED <<job, mdlInfo, data, etcd, domain, validator, mdlCheck, txn, setup>>

\* What the commit writes: the table, the diff of its version, the metadata lock
\* info of the job, and the job.  An index that is gone keeps no entries.
Write(n, j) ==
    LET w == worker[n][j]
        t == TableOf[j]
    IN  /\ schema' = IF w.ver = 0 THEN schema
                     ELSE [schema EXCEPT !.diff[w.ver] = <<t, Kind[j]>>,
                                         !.tbl[t] = [state |-> w.state, step |-> @.step + 1]]
        /\ mdlInfo' = IF EnableMDL /\ w.ver # 0 THEN [mdlInfo EXCEPT ![j] = w.ver] ELSE mdlInfo
        /\ job' = IF InTable(j) THEN [job EXCEPT ![j].st = w.job.st, ![j].reorg = w.job.reorg] ELSE job
        /\ data' = IF w.ver # 0 /\ w.state = "none" THEN [data EXCEPT ![t].idx = FALSE] ELSE data

\* The job's transaction commits; registerSync.
Commit(n, j) ==
    LET w == worker[n][j]
    IN  /\ w.pc = "commit" /\ ~w.conflict
        /\ Write(n, j)
        /\ worker' = Conflicting(j, n, [worker EXCEPT ![n][j].pc = "wait"])
        /\ ddl' = [ddl EXCEPT ![n].unsynced = @ \cup {j}]
        /\ UNCHANGED <<etcd, domain, validator, mdlCheck, txn, setup>>

\* The commit fails, or fails as far as the worker can tell.
CommitError(n, j) ==
    LET w == worker[n][j]
    IN  /\ w.pc = "commit"
        /\ \/ /\ w.conflict \/ "rollback" \in Faulty
              /\ worker' = [worker EXCEPT ![n][j] = IdleWorker]
              /\ UNCHANGED tikv
           \/ /\ "commit" \in Faulty /\ ~w.conflict
              /\ Write(n, j)
              /\ worker' = Conflicting(j, n, [worker EXCEPT ![n][j] = IdleWorker])
        /\ UNCHANGED <<ddl, etcd, domain, validator, mdlCheck, txn, setup>>

\* HandleJobDone: the job moves to the history, unless its row was changed.
Finish(n, j) ==
    LET w == worker[n][j]
    IN  /\ w.pc = "finish"
        /\ \/ /\ ~w.conflict
              /\ job' = [job EXCEPT ![j] = [st |-> w.job.st, reorg |-> w.job.reorg, where |-> "history"]]
              /\ worker' = Conflicting(j, n, [worker EXCEPT ![n][j].pc = "clean"])
           \/ /\ w.conflict
              /\ worker' = [worker EXCEPT ![n][j] = IdleWorker]
              /\ UNCHANGED job
        /\ UNCHANGED <<schema, mdlInfo, data, etcd, ddl, domain, validator, mdlCheck, txn, setup>>

\* waitSchemaChanged returns nothing: what follows does not know whether it ended
\* because every server is synced or because the servers could not be listed.
WaitSchemaChanged(n, j) ==
    LET w == worker[n][j]
    IN  /\ w.pc = "wait"
        /\ \/ ~Waits(w.job.st) \/ w.ver = 0
           \/ AllSynced(j, w.ver, w.seen)
           \/ EnableMDL /\ "serverInfo" \in Faulty
        /\ worker' = [worker EXCEPT ![n][j].pc = "clean"]
        /\ UNCHANGED <<tikv, etcd, ddl, domain, validator, mdlCheck, txn, setup>>

\* cleanMDLInfo, then synced.
Clean(n, j) ==
    /\ worker[n][j].pc = "clean"
    /\ IF EnableMDL
       THEN /\ mdlInfo' = [mdlInfo EXCEPT ![j] = 0]
            /\ byJob' = [byJob EXCEPT ![j] = NoKeys]
       ELSE UNCHANGED <<mdlInfo, byJob>>
    /\ ddl' = [ddl EXCEPT ![n].unsynced = @ \ {j}]
    /\ worker' = [worker EXCEPT ![n][j] = IdleWorker]
    /\ UNCHANGED <<schema, job, data, self, session, domain, validator, mdlCheck, txn, setup>>

Locked(t) == \E n \in Client : txn[n].pc = "prewritten" /\ txn[n].t = t

\* The backfill goroutine: every row gets its index entry, in transactions that
\* lock the row, as long as the server is the owner (isReorgRunnable).
Backfill(n, j) ==
    /\ ddl[n].owner /\ ddl[n].reorg[j] = "running"
    /\ ~Locked(TableOf[j])
    /\ ddl' = [ddl EXCEPT ![n].reorg[j] = "done"]
    /\ data' = [data EXCEPT ![TableOf[j]].idx = @ \/ data[TableOf[j]].row]
    /\ UNCHANGED <<schema, job, mdlInfo, etcd, worker, domain, validator, mdlCheck, txn, setup>>

-----------------------------------------------------------------------------
(* The domain: loadSchemaInLoop, Reload and mdlCheckLoop (src/domain).     *)

\* refreshMDLCheckTableInfo: the locks asked for up to the loaded version.
Refresh(n, ver) ==
    mdlCheck' = [mdlCheck EXCEPT ![n].newest = ver,
                     ![n].jobs = [j \in Job |-> IF mdlInfo[j] <= ver THEN mdlInfo[j] ELSE 0]]

\* The validator at the end of a Reload; the one that follows a new etcd session
\* restarts it.
EndReload(n, v) ==
    /\ validator' = [validator EXCEPT ![n] = IF session[n] = "reload" THEN Restart(v) ELSE v]
    /\ session' = [session EXCEPT ![n] = IF @ = "reload" THEN "ok" ELSE @]
    /\ Refresh(n, domain'[n].ver)

Gathered(from, to) == SelectSeq(SubSeq(schema.diff, from + 1, to), LAMBDA d : d # Unset)

\* Reload when the needed version is the loaded one: only the lease is renewed.
ReloadHit(n) ==
    /\ session[n] # "lost" /\ domain[n].pc = "idle"
    /\ domain[n].ver = NonEmptyVersion
    /\ UNCHANGED domain
    /\ EndReload(n, Update(validator[n], 0, NonEmptyVersion, NoChange))
    /\ UNCHANGED <<tikv, self, byJob, ddl, worker, txn, setup>>

\* Reload of newer versions, through their diffs or in full.  The infoschema is
\* in use from here on.
LoadSchema(n) ==
    LET d == domain[n]
        needed == NonEmptyVersion
        change == Gathered(d.ver, needed)
        touched == {p[1] : p \in ToSet(change)}
        load(tables, c, full) ==
            domain' = [domain EXCEPT ![n] = [ver |-> needed, tbl |-> tables, old |-> d.ver,
                          change |-> c, full |-> full, pc |-> IF EnableMDL THEN "update" ELSE "self"]]
    IN  /\ session[n] # "lost" /\ d.pc = "idle"
        /\ d.ver < needed
        /\ \/ load([t \in Table |-> IF t \in touched THEN schema.tbl[t] ELSE d.tbl[t]], change, FALSE)
           \/ "fullLoad" \in Faulty /\ load(schema.tbl, NoChange, TRUE)
        /\ UNCHANGED <<tikv, etcd, ddl, worker, validator, mdlCheck, txn, setup>>

\* UpdateSelfVersion; an error is only logged.  (With metadata locks the key it
\* writes is read by nobody.)
UpdateSelfVersion(n) ==
    /\ domain[n].pc = "self"
    /\ \/ self' = [self EXCEPT ![n] = domain[n].ver]
       \/ "self" \in Faulty /\ UNCHANGED self
    /\ domain' = [domain EXCEPT ![n].pc = "update"]
    /\ UNCHANGED <<tikv, byJob, session, ddl, worker, validator, mdlCheck, txn, setup>>

\* Mutant of UpdateValidator: the version is read again.
UpdateValidatorAgain(n) ==
    LET d == domain[n]
    IN  /\ d.pc = "update"
        /\ domain' = [domain EXCEPT ![n] = Loaded(d.ver, d.tbl)]
        /\ EndReload(n, Update(validator[n], d.old, NonEmptyVersion, d.change))
        /\ UNCHANGED <<tikv, self, byJob, ddl, worker, txn, setup>>

\* The validator learns of the new version last.
UpdateValidator(n) ==
    LET d == domain[n]
        v == IF d.full THEN Reset(validator[n]) ELSE validator[n]
    IN  /\ d.pc = "update"
        /\ domain' = [domain EXCEPT ![n] = Loaded(d.ver, d.tbl)]
        /\ EndReload(n, Update(v, d.old, d.ver, d.change))
        /\ UNCHANGED <<tikv, self, byJob, ddl, worker, txn, setup>>

\* Mutant of OldLock: a lock that is being taken (0) blocks nobody.
OldLockNotZero(n, j, ver) ==
    txn[n].mdl \notin {NoLock, 0} /\ txn[n].t = TableOf[j] /\ txn[n].mdl < ver

\* RemoveLockDDLJobs: a session of the server holds an older lock on the table.
OldLock(n, j, ver) == txn[n].mdl # NoLock /\ txn[n].t = TableOf[j] /\ txn[n].mdl < ver

\* Mutant of MDLCheck: a job that was blocked is not checked again.
MDLCheckOnce(n) ==
    LET m == mdlCheck[n]
        ready == {j \in Job : m.jobs[j] # 0 /\ ~OldLock(n, j, m.jobs[j])}
    IN  /\ EnableMDL
        /\ m.todo = Zeroes
        /\ m.newest > m.saved \/ m.need
        /\ mdlCheck' = [mdlCheck EXCEPT ![n].saved = m.newest, ![n].need = FALSE,
                ![n].todo = [j \in Job |-> IF j \in ready /\ m.cache[j] < m.jobs[j] THEN m.jobs[j] ELSE 0]]
        /\ UNCHANGED <<tikv, etcd, ddl, worker, domain, validator, txn, setup>>

\* One tick of mdlCheckLoop that finds work: the jobs no old transaction blocks
\* are to be reported to the owner.
MDLCheck(n) ==
    LET m == mdlCheck[n]
        ready == {j \in Job : m.jobs[j] # 0 /\ ~OldLock(n, j, m.jobs[j])}
    IN  /\ EnableMDL
        /\ m.todo = Zeroes
        /\ m.newest > m.saved \/ m.need
        /\ mdlCheck' = [mdlCheck EXCEPT ![n].saved = m.newest,
                ![n].need = \E j \in Job \ ready : m.jobs[j] # 0,
                ![n].todo = [j \in Job |-> IF j \in ready /\ m.cache[j] < m.jobs[j] THEN m.jobs[j] ELSE 0]]
        /\ UNCHANGED <<tikv, etcd, ddl, worker, domain, validator, txn, setup>>

\* UpdateSelfVersion for one job; an error leaves the job for the next tick.
MDLReport(n, j) ==
    LET ver == mdlCheck[n].todo[j]
    IN  /\ ver # 0
        /\ \/ /\ byJob' = [byJob EXCEPT ![j][n] = ver]
              /\ mdlCheck' = [mdlCheck EXCEPT ![n].todo[j] = 0, ![n].cache[j] = ver]
           \/ /\ "self" \in Faulty
              /\ mdlCheck' = [mdlCheck EXCEPT ![n].todo[j] = 0, ![n].need = TRUE]
              /\ UNCHANGED byJob
        /\ UNCHANGED <<tikv, self, session, ddl, worker, domain, validator, txn, setup>>

\* The lease on the schema runs out before the next Reload.
Expire(n) ==
    /\ "expire" \in Faulty /\ validator[n].fresh
    /\ validator' = [validator EXCEPT ![n].fresh = FALSE]
    /\ UNCHANGED <<tikv, etcd, ddl, worker, domain, mdlCheck, txn, setup>>

\* The etcd session ends: the server's keys expire and the validator stops.
SessionDone(n) ==
    /\ "session" \in Faulty /\ session[n] = "ok" /\ domain[n].pc = "idle"
    /\ session' = [session EXCEPT ![n] = "lost"]
    /\ validator' = [validator EXCEPT ![n] = Stop(@)]
    /\ UNCHANGED <<tikv, self, byJob, ddl, worker, domain, mdlCheck, txn, setup>>

\* Syncer.Restart: a new session, and a key that holds InitialVersion.
RestartSyncer(n) ==
    /\ session[n] = "lost"
    /\ session' = [session EXCEPT ![n] = "reload"]
    /\ self' = [self EXCEPT ![n] = 0]
    /\ UNCHANGED <<tikv, byJob, server, setup>>

\* A server restarts under a new DDL ID, with a full load of the schema.
Crash(n) ==
    LET left(k) == IF k[Dead] = 0 \/ (k[n] # 0 /\ k[n] < k[Dead]) THEN k[n] ELSE k[Dead]
    IN  /\ n \in Crashing
        /\ ddl' = [ddl EXCEPT ![n] = NewDDL]
        /\ worker' = [worker EXCEPT ![n] = [j \in Job |-> IdleWorker]]
        /\ domain' = [domain EXCEPT ![n] = Loaded(NonEmptyVersion, schema.tbl)]
        /\ validator' = [validator EXCEPT ![n] = Booted(NonEmptyVersion)]
        /\ mdlCheck' = [mdlCheck EXCEPT ![n] = NewMDLCheck]
        /\ txn' = [txn EXCEPT ![n] = NoTxn]
        /\ self' = [self EXCEPT ![n] = NonEmptyVersion]
        /\ byJob' = [j \in Job |-> [byJob[j] EXCEPT ![n] = 0, ![Dead] = left(byJob[j])]]
        /\ session' = [session EXCEPT ![n] = "ok"]
        /\ UNCHANGED <<tikv, setup>>

-----------------------------------------------------------------------------
(* Transactions: one at a time on each client, on one row of one table.    *)

BeginTxn(n) ==
    /\ n \in Client /\ txn[n].pc = "idle"
    /\ \E t \in {TableOf[j] : j \in setup.jobs} :
         txn' = [txn EXCEPT ![n] = [NoTxn EXCEPT !.pc = IF EnableMDL THEN "begun" ELSE "active",
                     !.t = t, !.ver = domain[n].ver, !.used = domain[n].tbl[t]]]
    /\ UNCHANGED <<tikv, etcd, ddl, worker, domain, validator, mdlCheck, setup>>

\* tryLockMDLAndUpdateSchemaIfNecessary stores 0 first, so that a lock that is
\* being taken blocks the owner...
LockMDL(n) ==
    /\ txn[n].pc = "begun"
    /\ txn' = [txn EXCEPT ![n].pc = "locking", ![n].mdl = 0]
    /\ UNCHANGED <<tikv, etcd, ddl, worker, domain, validator, mdlCheck, setup>>

\* ... then it takes the table from the domain's current schema.  An index that
\* became public since the transaction began is only written...
UpdateSchema(n) ==
    LET now == domain[n].tbl[txn[n].t]
        isNew == now.state = "public" /\ txn[n].used.state = "none"
    IN  /\ txn[n].pc = "locking"
        /\ txn' = [txn EXCEPT ![n].pc = "fetched", ![n].got = domain[n].ver,
                       ![n].used = IF isNew THEN [now EXCEPT !.state = "writeReorg"] ELSE now]
        /\ UNCHANGED <<tikv, etcd, ddl, worker, domain, validator, mdlCheck, setup>>

\* ... and stores the version of that schema, which need not be the current one
\* any more.
LockedMDL(n) ==
    /\ txn[n].pc = "fetched"
    /\ txn' = [txn EXCEPT ![n].pc = "active", ![n].mdl = txn[n].got, ![n].got = 0]
    /\ UNCHANGED <<tikv, etcd, ddl, worker, domain, validator, mdlCheck, setup>>

\* The prewrite locks the row; the commit timestamp comes after it.
Prewrite(n) ==
    /\ txn[n].pc = "active"
    /\ ~Locked(txn[n].t)
    /\ txn' = [txn EXCEPT ![n].pc = "prewritten", ![n].at = schema.tbl[txn[n].t].step]
    /\ UNCHANGED <<tikv, etcd, ddl, worker, domain, validator, mdlCheck, setup>>

\* The index states that AddRecord writes to (src/table/tables/tables.go).
writable(state) == state \in {"writeOnly", "writeReorg", "public"}

\* The row is inserted if it is absent and deleted if it is there; a delete also
\* removes the entry of an index in any state (deletableIndices).
Applied(d, state) ==
    IF d.row THEN [row |-> FALSE, idx |-> d.idx /\ state = "none"]
    ELSE [row |-> TRUE, idx |-> d.idx \/ writable(state)]

\* The schema check of the two-phase commit: commit or roll back.  Unknown is asked
\* again some times before it rolls back: this step may come late.
CommitTxn(n) ==
    LET x == txn[n]
        result == Check(validator[n], x.ver, {x.t}, ~EnableMDL)
    IN  /\ x.pc = "prewritten"
        /\ \/ /\ result = "Succ"
              /\ data' = [data EXCEPT ![x.t] = Applied(@, x.used.state)]
              /\ txn' = [txn EXCEPT ![n].pc = "committed"]
           \/ /\ result \in {"Fail", "Unknown"}
              /\ txn' = [txn EXCEPT ![n] = NoTxn]
              /\ UNCHANGED data
        /\ UNCHANGED <<schema, job, mdlInfo, etcd, ddl, worker, domain, validator, mdlCheck, setup>>

\* The transaction's context is cleared, and its metadata locks with it.
EndTxn(n) ==
    /\ txn[n].pc \in {"begun", "locking", "fetched", "active", "committed"}
    /\ txn' = [txn EXCEPT ![n] = NoTxn]
    /\ UNCHANGED <<tikv, etcd, ddl, worker, domain, validator, mdlCheck, setup>>

-----------------------------------------------------------------------------

\* The goroutine that runs a job, from delivery2worker on.
Worker(n, j) ==
    \/ CheckSync(n, j)
    \/ RecheckVersions(n, j)
    \/ WaitSchemaSynced(n, j)
    \/ WaitSchemaSyncedForMDL(n, j)
    \/ RunJob(n, j)
    \/ Commit(n, j)
    \/ CommitError(n, j)
    \/ Finish(n, j)
    \/ WaitSchemaChanged(n, j)
    \/ Clean(n, j)

Reload(n) ==
    \/ ReloadHit(n)
    \/ LoadSchema(n)
    \/ UpdateSelfVersion(n)
    \/ UpdateValidator(n)

Transact(n) ==
    \/ LockMDL(n)
    \/ UpdateSchema(n)
    \/ LockedMDL(n)
    \/ Prewrite(n)
    \/ CommitTxn(n)
    \/ EndTxn(n)

Next ==
    \/ \E j \in Job : SubmitJob(j) \/ CancelJob(j)
    \/ \E n \in Server, j \in Job :
         \/ GetJob(n, j)
         \/ Worker(n, j)
         \/ Backfill(n, j)
         \/ MDLReport(n, j)
    \/ \E n \in Server :
         \/ Elect(n)
         \/ Retire(n)
         \/ DispatchNotOwner(n)
         \/ Reload(n)
         \/ MDLCheck(n)
         \/ Expire(n)
         \/ SessionDone(n)
         \/ RestartSyncer(n)
         \/ Crash(n)
         \/ BeginTxn(n)
         \/ Transact(n)

Spec == Init /\ [][Next]_vars

\* Goroutines run, tickers tick and transactions end.  A backfill that meets a
\* row lock is tried again, and so is the check for old locks, 20 times a second,
\* while a lock is only just being taken.
Fairness ==
    /\ WF_vars(\E n \in Server : Elect(n))
    /\ \A n \in Server :
         /\ WF_vars(DispatchNotOwner(n))
         /\ WF_vars(Reload(n))
         /\ WF_vars(RestartSyncer(n))
         /\ WF_vars(MDLCheck(n))
         /\ SF_vars(MDLCheck(n) /\ mdlCheck'[n].todo # Zeroes)
         /\ WF_vars(Transact(n))
         /\ \A j \in Job :
              /\ WF_vars(GetJob(n, j))
              /\ WF_vars(Worker(n, j))
              /\ SF_vars(Backfill(n, j))
              /\ WF_vars(MDLReport(n, j))

FairSpec == Spec /\ Fairness

-----------------------------------------------------------------------------

\* The types, and: no server loads a version that was not taken, and no validator
\* is ahead of its server's infoschema (Reload updates it last).
TypeOK ==
    /\ setup \in Setups
    /\ schema \in [ver : 1..MaxVersion, diff : [1..MaxVersion -> {Unset} \cup
                        (Table \cup {NoTable}) \X {"addIndex", "dropIndex", "none"}],
                   tbl : [Table -> TableInfo]]
    /\ job \in [Job -> [st : JobState, reorg : BOOLEAN,
                        where : {"absent", "queue", "processing", "history"}]]
    /\ mdlInfo \in [Job -> 0..MaxVersion]
    /\ data \in [Table -> [row : BOOLEAN, idx : BOOLEAN]]
    /\ self \in [Server -> 0..MaxVersion]
    /\ byJob \in [Job -> [Server \cup {Dead} -> 0..MaxVersion]]
    /\ session \in [Server -> {"ok", "lost", "reload"}]
    /\ ddl \in [Server -> [owner : BOOLEAN, once : BOOLEAN, unsynced : SUBSET Job,
                           reorg : [Job -> {"none", "running", "done"}]]]
    /\ worker \in [Server -> [Job -> [pc : {"idle", "start", "waitMDL", "waitSynced", "run",
                                            "commit", "finish", "wait", "clean"},
                                      ver : 0..MaxVersion, job : [st : JobState, reorg : BOOLEAN],
                                      state : IndexState, seen : SUBSET Server, conflict : BOOLEAN]]]
    /\ mdlCheck \in [Server -> [newest : 0..MaxVersion, jobs : [Job -> 0..MaxVersion],
                                saved : 0..MaxVersion, need : BOOLEAN,
                                cache : [Job -> 0..MaxVersion], todo : [Job -> 0..MaxVersion]]]
    /\ \A n \in Server :
         /\ domain[n].ver \in 1..schema.ver
         /\ domain[n].tbl \in [Table -> TableInfo]
         /\ domain[n].pc \in {"idle", "self", "update"}
         /\ validator[n].latest \in 0..domain[n].ver
         /\ txn[n] \in [pc : {"idle", "begun", "locking", "fetched", "active", "prewritten", "committed"},
                        t : Table \cup {NoTable}, ver : 0..MaxVersion, mdl : {NoLock} \cup 0..MaxVersion, got : 0..MaxVersion,
                        used : TableInfo, at : Nat]

\* No transaction commits under a schema that is two states behind the one at its
\* commit timestamp: "at most two different schema version in the TiDB cluster"
\* (loadSchemaInLoop), which waitSchemaChanged, the schema check and the metadata
\* lock are there to keep.
TwoVersions ==
    \A n \in Client : txn[n].pc = "committed" => txn[n].at \in {txn[n].used.step, txn[n].used.step + 1}

Readable(t) == schema.tbl[t].state = "public" \/ \E n \in Server : domain[n].tbl[t].state = "public"

\* An index that some server reads agrees with the rows, whatever the schemas the
\* servers wrote them under (onCreateIndex, the backfill, onDropIndex).
IndexConsistent == \A t \in Table : Readable(t) => data[t].idx = data[t].row

\* A server that loaded version v has every change of the tables up to v, and none
\* after it: skipping a version that has no diff loses nothing (tryLoadSchemaDiffs,
\* GetSchemaVersionWithNonEmptyDiff, schemaVersionManager).
DomainConsistent ==
    \A n \in Server, t \in Table :
        domain[n].tbl[t].step =
            Cardinality({v \in 1..domain[n].ver : schema.diff[v] # Unset /\ schema.diff[v][1] = t})

\* A public index only goes away through a job that drops it: a cancelled add
\* index takes back no more than it did (convertNotReorgAddIdxJob2RollbackJob).
PublicKept ==
    [][\A t \in Table : schema.tbl[t].state = "public" /\ schema'.tbl[t].state # "public"
         => \E j \in Job : TableOf[j] = t /\ Kind[j] = "dropIndex" /\ job[j].where = "processing"]_vars

\* Every job in the job table gets to the history: the waits for servers and for old
\* transactions all end (delivery2worker, OwnerCheckAllVersions, mdlCheckLoop).
JobsFinish == \A j \in Job : InTable(j) ~> job[j].where = "history"
=============================================================================
