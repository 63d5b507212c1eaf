# TLA+ models of TiDB

This directory holds TLA+ models of the parts of TiDB where several servers and
goroutines have to agree, the TLC configurations that check them on small
instances, and TLAPS proofs of what holds for instances of any size. Paths are
relative to `src/`.

## The system and its parts

TiDB servers are stateless SQL front ends over TiKV (storage, transactions), PD
(timestamps, safe points) and etcd (membership, election, small coordination
keys). What they must agree on is the schema, who runs DDL, who may serve a table
from memory, which row IDs are handed out, what old data may be removed, and who
deletes expired rows.

| Part | Code | Model |
|---|---|---|
| Online DDL: job table, dispatcher, worker, index jobs, rollback | `ddl/` | `OnlineDDL` |
| Schema syncer | `ddl/syncer/` | `OnlineDDL` |
| Domain: schema loading, metadata lock loop | `domain/domain.go` | `OnlineDDL` |
| Schema validator | `domain/schema_validator.go` | `SchemaDeltas`, `SchemaValidator`, and in `OnlineDDL` |
| How transactions use a schema | `session/`, `planner/core/preprocess.go`, `domain/schema_checker.go`, `table/tables/` | `OnlineDDL` |
| Owner election | `owner/` | election and retirement as steps of `OnlineDDL` and `AutoIDService` |
| Cached tables | `table/tables/state_remote.go`, `cache.go`, `session/session.go` | `CachedTable` |
| Auto-increment allocators | `meta/autoid/`, `ddl/table.go`, `infoschema/builder.go` | `AutoID`, `UniqueIDs` |
| AutoID service and its clients | `autoid_service/`, `meta/autoid/autoid_service.go` | `AutoIDService` |
| GC worker, reported start timestamps, cached safe point | `store/gcworker/`, `domain/infosync/`, `util/gcutil/` | `GC` |
| DROP and RECOVER TABLE against GC | `ddl/table.go`, `ddl/delete_range.go` | `GC` |
| Service safe points of backups | `br/pkg/utils/safe_point.go` | `GC` |
| TTL jobs | `ttl/ttlworker/` | `TTL` |
| Other DDL jobs, unistore, transaction contexts, meta encoding | | not modelled |
| Parser, types, planner, expressions, executors, statistics, privileges, server protocol, utilities | | not modelled: sequential and data-heavy, or I/O |

`PROJECT.json` has the complete list with reasons, the hazards of each part at
their lines, and for every definition the lines it models.

The parts meet in three places. A validator is a component of `OnlineDDL` and has
a module of its own; both take its operations from `SchemaDeltas`. GC,
transactions, backups and RECOVER TABLE share safe points, so `GC` is a
composition. `AutoID` and `AutoIDService` are two ways to use the same counter; a
table uses one of them.

## Modules

A module that has several kinds of instances (`OnlineDDL`, `GC`, `TTL`,
`AutoIDService`) takes a constant `Setups`: a set of records that say who takes
part and what may go wrong. `Init` picks one, and it stays. One run so covers
several instances, and the proofs cover every set of them.

### SchemaDeltas and SchemaValidator

`SchemaDeltas` holds the validator's record (started, latest version, lease still
valid, queue of deltas) and its operations as operators: `Update`, `Stop`,
`Restart`, `Reset`, `enqueue` with its merging (`containIn`) and its limit
(`MaxDeltaSchemaCount` is `tidb_max_delta_schema_count`), `findNewerDeltas`,
`isRelatedTablesChanged` and `Check`. It has no state, so two modules share it.

`SchemaValidator` runs one validator beside the full history of committed
changes; reloads through diffs or in full, expiring leases, and lost and restored
etcd sessions come in any order. The history is the reference: what `Check` says
from its bounded queue is compared with what really changed.

Left out: schema amendment, lease 0, and a check without table IDs.

### OnlineDDL

The composition: every server has a dispatcher and workers (if it may become the
owner), a domain that loads schemas, a validator, a metadata lock loop and one
client transaction at a time. The shared state is TiKV (`schema`, `job`,
`mdlInfo`, `data`) and etcd (`self`, `byJob`, `session`).

| State or action | Code |
|---|---|
| `job`, `GetJob`, `Runnable`, `CheckSync`, `Clean` | `job_table.go`: `getJob`, `loadDDLJobAndRun`, `delivery2worker` |
| `RunJob`, `Commit`, `CommitError`, `Finish` | `ddl_worker.go`: `HandleDDLJobTable`, `finishDDLJob` |
| `runDDLJob`, `onCreateIndex`, `onDropIndex`, `runReorgJob`, `convertJob2RollbackJob` | `index.go`, `reorg.go`, `rollingback.go` |
| `WaitSchemaChanged`, `WaitSchemaSynced`, `WaitSchemaSyncedForMDL`, `AllSynced`, `RecheckVersions` | `ddl_worker.go`, `syncer.go`: `OwnerCheckAllVersions` |
| `HoldsVersion`, `NonEmptyVersion` | `schemaVersionManager`, `GetSchemaVersionWithNonEmptyDiff` |
| `ReloadHit`, `LoadSchema`, `UpdateSelfVersion`, `UpdateValidator` | `domain.go`: `Reload`, `loadInfoSchema`, `tryLoadSchemaDiffs` |
| `MDLCheck`, `MDLReport`, `OldLock` | `mdlCheckLoop`, `RemoveLockDDLJobs` |
| `SessionDone`, `RestartSyncer` | `loadSchemaInLoop` |
| `LockMDL`, `UpdateSchema`, `LockedMDL` | `tryLockMDLAndUpdateSchemaIfNecessary` |
| `Prewrite`, `CommitTxn`, `Applied` | two-phase commit (external), `CheckBySchemaVer`, `AddRecord`, `removeRowIndices` |

Abstractions: one index per table and one row whose index entry is present or
not; a transaction inserts the row or deletes it. The state of a job is that of
its table's index. A backfill is one transaction that waits for row locks and
goes on only while its server is the owner. Data of a dropped index is removed
with the commit of state `none`. Two deletions by `cleanMDLInfo` (row and etcd
keys) are one step; selecting and marking a job is one step; losing the session
and stopping the validator is one step, and so is a reload that ends with
`Restart` and `refreshMDLCheckTableInfo`. `UpdateValidator` is the `Reset` of a full
load with the `Update` after it; a check between the two meets a validator without
a version, as after a restart, in the window that `"stall"` is about. The sessions of the syncer and of the
server info are one. A server that restarts has a new DDL ID; the keys it left
for a job have no lease and remain under `Dead`. A commit check that answers
`Unknown` is asked again by the code for a while: the step may come late, and
then rolls back. Cancelling a job twice is left out.

Which faults may happen is the field `faulty` of a setup, explained in the module.
Without `"stall"` the owner's 50 ms before its first check are taken to be enough
for a server's `Reload` to get from publishing a version to its end.

### CachedTable

The row of `mysql.table_cache_meta` (`row`), each server's copy of it (`handle`),
the one call under way that holds the handle's token (`call`), the cached data
(`cache`), its loaders, the committing transaction and its keep-alive goroutine.
`lockForReadTxn`, `lockForWriteTxn`, `renewReadTxn` and `renewWriteTxn` are the
transactions of `state_remote.go` as functions of the row; each method is a
begin step that takes a timestamp and (for the optimistic ones) a snapshot, and
an end step that commits, conflicts, or fails with its effect applied or not.
Time is the sequence of PD's timestamps; a lease is a timestamp without its
logical part. The contents of the table are the set of commit timestamps.

Abstractions: one table and one writing session per server; committing the lock
row consumes no timestamp; the keep-alive's ticker may fire at any time; the
order "commit timestamp, check, commit" and that a snapshot read waits for
transactions that hold a commit timestamp come from the client library
(external). `Restart` stands for a crash and for a schema change that replaces
the table object. The size limit of the cache is left out. A renewal of a read
lease looks at the cached data, takes the token and reads the row in one step.

### AutoID and UniqueIDs

`counter` is the table's value in the meta store; `base[s]` and `end[s]` are the
range that server `s` has reserved. `rebase`, `AllocLocal`, `AllocRange` and the
functions under them (`CalcNeededBatchSize`, `SeekToFirstAutoID`, the checks
against overflow) are those of `meta/autoid/autoid.go`, for signed and unsigned
columns; integers wrap at `Max`, which stands for 2^63 - 1 or 2^64 - 1. A
transaction may be applied and still report an error (`AllocUndetermined`,
`RebaseUndetermined`). ALTER TABLE AUTO_INCREMENT is `AdjustNewBase`,
`RunRebaseAutoID` (which may run again, or be cancelled) and `LoadSchema` on every
server. The job reads the counter and rebases in two transactions, here in one
step: what is handed out in between only makes the rebase smaller.

`UniqueIDs` is the promise: an ID is given at most once, and what a server gives is
above all it gave or was told of. `AutoID!Implements` says that the allocators
keep it; `times` and `floor` are history that only serves this mapping.

Left out: FORCE (which may hand IDs out again by intent), sequences, the in-memory
allocator of temporary tables, shard bits.

### AutoIDService

The leader keeps `val[s]`, a range of the same counter, for the sessions of all
servers. A handler checks the leadership (`Admit`), an Alloc waits for the mutex
(`Lock`), and the request is served later (`AllocRebase`, `AllocLocal`,
`AllocFetch`, `AllocStore`, `AllocTake`, `Rebase`); in between, the leader may lose
its session, close or crash. N = 0 reads the base (`AllocZero`) and, where it is 0,
stores the table's RowID counter (`rowID` of a setup) as the end of the range
(`AllocRowID`). `Close` gives the rest of the range back to the counter. Clients
keep a connection, drop it after an RPC error, and call again.

Rebase and N = 0 do not take the mutex. A setup says with `"race"` whether they run
beside other handlers, and with `rowID` whether the table uses its RowID counter
(a table with AUTO_ID_CACHE 1 and no clustered integer key does). Two of the
combinations break the properties in the code, and the runs leave them out: a
Rebase with `"race"`; and N = 0 with a RowID counter above 0, together with a
Rebase, an offset above 1 or `"race"` (see "Where the code and what it says
differ"). What is left: any of them with the RowID counter at 0, where the end
that N = 0 stores is below every base, and a RowID counter above 0 where the next
call is an Alloc with offset 1, which reserves a range because the base is 0.

Left out: ForceRebase, several tables, etcd's campaign.

### GC

| State or action | Code |
|---|---|
| `tidb`, `CheckLeader`, `LoadLease`, `Register`, `SaveLease` | `gc_worker.go`: `checkLeader`, and `mysql.tidb` |
| `CheckPrepare`, `CalcSafePoint`, `SetServiceSafePoint`, `SaveLastRun`, `SaveSafePoint` | `prepare`, `calcNewSafePoint`, `calcSafePointByMinStartTS`, `setGCWorkerServiceSafePoint`, `leaderTick` |
| `ResolveLocks`, `SaveSafePointKV`, `LoadDeleteRanges`, `UnsafeDestroyRange`, `CompleteDeleteRange`, `RedoDeleteRanges`, `UploadSafePoint` | `runGCJob` |
| `ListProcesses`, `StoreMinStartTS`, `ExpireMinStartTS` | `infosync/info.go`: `ReportMinStartTS` |
| `LoadSafePoint`, `CheckVisibility` | the TiKV client (external) |
| `StartBackup`, `UpdateServiceSafePoint`, `KeeperPanics`, `FinishBackup` | `br/pkg/utils/safe_point.go` and its callers |
| `DropTable`, `InsertDeleteRange`, `RecoverTable` ... `FinishRecoverTable` | `ddl/table.go`: `onRecoverTable`; `ddl_worker.go`: `finishRecoverTable` |

A timestamp is a physical time and a logical part. Every value of `mysql.tidb` is
loaded and saved in a session of its own. The saves, and the loads of
`checkLeader`, are steps; the loads at the start of `prepare` (enabled, time, last
run, last safe point) are one step, `CheckPrepare`, which is the same as long as
one worker acts. `Tick` waits for what
is done many times in the periods that depend on it: reports are at most
`ReportInterval` old (unless the setup has `"silent"`), a leader that runs renews
its lease, and a DDL job gets from its check of the safe point to the removal of
the range in less than a physical time. The last one is needed: the job checks
and removes in two transactions.

Left out: physical lock scanning, GC without a distributed GC worker, placement
and label rules of dropped tables (their failure is in), concurrency settings,
lock resolution for log backup. FLASHBACK TABLE and RECOVER SCHEMA run the same
steps as RECOVER TABLE.

### TTL

One table's row of `mysql.tidb_ttl_table_status` (`row`), and for every server its
cache of it, the job loop, the running job, the scan workers and the delete
workers with their retry buffers. The cases of the `select` in `jobLoop` are
`updateTableStatusCache`, `updateHeartBeat`, `updateTaskState`, `checkJobs`,
`resizeScanWorkers`, `resizeDelWorkers` and the scheduling steps; `lockNewJob` and
`createNewJob` are two, because a server may stop after its transaction. A time is
kept as its age. `MaxLag` is how old the loop's `now` may be when it is used.

Results are matched by the table and not by the job, as in the code: a scan that
lingers after its job was cancelled counts for the next one. A delete worker that
is stopped, and a DELETE that cannot be built, lose rows that were counted, so
only the timeout ends such a job; `Accounted` leaves these faults out, and
`AlwaysServed` includes them.

Left out: several tables, `CancelJob`, the status column (which decides nothing),
the SQL that selects the rows, timeouts of `WaitStopped`.

## What TLC checks

| Run | What it shows |
|---|---|
| `schema_validator` | No stale transaction passes the bounded, merged queue (`StaleNeverPasses`); none that the queue covers is failed for nothing (`NoSpuriousAbort`). |
| `online_ddl` | An index job under metadata locks, also with an owner that crashes between any two steps. No transaction commits two states behind the schema (`TwoVersions`); an index that somebody can read agrees with the rows (`IndexConsistent`); a server's tables are exactly those of its version (`DomainConsistent`). |
| `online_ddl_lease` | The same under the schema lease, where the validator stops old transactions, and for two jobs under metadata locks; and a public index only goes away through a drop, whatever is cancelled (`PublicKept`). |
| `online_ddl_live` | Every job gets to the history (`JobsFinish`), in both modes. |
| `cached_table` | A cached read equals a snapshot read (`CacheCoherent`); leases that writers rely on are backed by the row (`WriteLeaseBacked`, `LocalWriteBacked`). Renewals of a write lease do not fail here, and a commit does not stall before its check. |
| `cached_table_faults` | Whatever fails: a write lock excludes readable caches, leases never decrease, readers cannot push a waiting writer back. |
| `autoid` | The allocators implement `UniqueIDs` (`Implements`), every answer is on the caller's grid of increment and offset up to the largest ID (`OnGrid`), and an ALTER TABLE that every server loaded is honoured (`RebaseHonoured`). |
| `autoid_service` | No ID is received twice (`Unique`); while leaders go only by stopping, IDs increase over all sessions (`Increasing`); where they close in order, none is left out (`NoGap`). |
| `gc` | No safe point overtakes a transaction GC waits for (`TxnKept`) or a backup that PD holds (`BackupKept`); a transaction that may read misses nothing (`NoSilentRead`); recovered tables have their data (`RecoverSafe`); rows of ranges go after their data (`RangeGone`); GC is on again after RECOVER TABLE (`GCRestored`); saved safe points never go back (`NeverDecreases`). |
| `ttl` | Every selected row is deleted, counted as an error or still with a worker (`Accounted`); a finished job has nothing left (`FinishedWhole`); a server that keeps its heartbeats owns what it runs (`OneOwner`); a running job is not taken away while its heartbeat is fresh (`NotTakenAway`); jobs always end and follow each other (`AlwaysServed`). |

### Bounds

Every run has two servers: the hazards are between the owner and another server,
a reader and a writer, or a leader and its successor.

| Run | Bounds, and why they are enough |
|---|---|
| `schema_validator` | 5 versions, 2 tables and 2 actions, a queue of 3: merging, dropping and resets all happen. |
| `online_ddl` | 4 instances, one job. Transactions on both servers, so that servers one state apart write the same row, with an owner that retires and is elected again; a DROP INDEX with a crashing owner; a cancelled ADD INDEX, or one that meets a duplicate, with transactions; failing etcd calls. `maxVersion` is what the jobs need, and in the fault instances (3) bounds how often versions are taken. |
| `online_ddl_lease` | 9 instances. With the lease: leases that run out, full loads, retiring owners, failing commits, etcd calls and reloads (with and without full loads). With metadata locks: two jobs racing for versions with failing commits; a cancelled ADD INDEX before a DROP INDEX of the same table, with an owner that retires while its workers run; a cancelled DROP INDEX. A queue of 2 deltas. |
| `online_ddl_live` | 2 instances without faults, one per mode; in the one with metadata locks transactions come and go for ever. |
| `cached_table` | 7 timestamps, a read lease of 5 and a write lease of 2: leases run out and are renewed. A commit after a granted read lease needs more; the theorem `Coherence` has it. |
| `cached_table_faults` | 6 timestamps, commits that stall for as long as the run lasts. |
| `autoid` | `Max` 6, steps of 2, 1 or 2 IDs at a time, increments 1 and 2, offsets 1 and 3, one ALTER TABLE: ranges run out, and so do the IDs. |
| `autoid_service` | `Max` 7, a batch of 2, two sessions, 8 instances by the calls, the RowID counter (0, or 5, above the first ranges) and the faults; `room` bounds the counter up to which calls are made, and one instance goes up to `Max`. |
| `gc` | 7 instances, physical times up to 5 to 7 with a life time of 2, so that two or three jobs follow each other; two stores, so that a range is destroyed in part. |
| `ttl` | 7 instances; a heartbeat expires after 2, a job times out after 3, and `now` is at most 1 old; at most 2 tasks of a job, 2 rows of a batch, one retry and a buffer of one item. Instances about the managers select no rows. |

Behaviours end at a bound in the runs of `CachedTable`, `GC` and `AutoIDService`,
and with time standing still in instances of `TTL`; the others also check that
the system never deadlocks. Symmetry is used where servers, sessions, tables or
actions only differ in name and no liveness is checked.

`"flap"` (an owner elected again within one tick of its dispatch loop) is not
combined with crashes: the election key of a crashed owner lives for the session
TTL, which is many ticks.

### Fairness

`JobsFinish` assumes that goroutines run (weak fairness on election, dispatch,
workers, reload, reports), that transactions end, and strong fairness for two
steps that are retried for ever while others may disable them for a moment: the
backfill, which retries on row locks, and the metadata lock check, which looks 20
times a second. Nothing is assumed of faults, and the liveness run has none.

`AlwaysServed` assumes that time goes on, that workers run, and that a case of the
`select` in `jobLoop` that stays ready is picked in the end (weak fairness on each),
which Go's random choice among ready cases and repeating tickers justify. Faults,
stops and starts are not fair. The instances include failing heartbeats, lost rows
and scans that linger; the property asks for a server that does not stop and an
open schedule window.

## Where the code and what it says differ

Two runs check that TLC finds a property violated, with a quotation in
`PROJECT.json`:

| Run | Difference |
|---|---|
| `cached_table_phantom` | A failed renewal leaves a write lock in the local copy, and `LockForWrite` trusts it. |
| `online_ddl_once` | A new owner's `once` flag covers one job, not every interrupted one; with the lease even a job that needs no wait clears it. |

The models show more of them when a setup allows the fault or the assumption is
dropped. They are why the runs above leave that case out:

| Difference | Where | How to see it |
|---|---|---|
| A wait that ended with an error counts as done. | `ddl/ddl_worker.go:1391` | `TwoVersions`, metadata locks, `"serverInfo"` |
| A commit with an unknown outcome is followed by a run without a wait. | `ddl/ddl_worker.go:895` | `TwoVersions`, metadata locks, `"commit"` |
| With metadata locks, too, `once` covers one interrupted job only. | `ddl/job_table.go:252` | `TwoVersions`, two tables, a crashing owner |
| After the validator restarts it has no version, so it only compares the lease. | `domain/domain.go:804` | `TwoVersions`, lease, `"session"` |
| The version is published before the validator knows it. | `domain/domain.go:484` | `TwoVersions`, lease, `"stall"` |
| The version lock is local, but two owners' workers may overlap. | `meta/meta.go:402` | `DomainConsistent`, two candidates, `"overlap"` |
| Rolling back by name takes another job's index. | `ddl/rollingback.go:102` | `PublicKept`, two ADD INDEX jobs on one table, the second cancelled |
| A cancellation is overwritten by a worker that read the job before. | `ddl/ddl_worker.go:884` | a job's `st` goes from `"cancelling"` back to `"running"` in the instance `Cancelled` |
| The wait has no end of its own. | `ddl/ddl_worker.go:1390` | `JobsFinish`, lease, `"self"` |
| The key that a crashed server left for a job has no lease, and the next owner waits for it. | `ddl/syncer/syncer.go:319` | `JobsFinish`, metadata locks, a crashing owner |
| A renewal extends a write lock that is not its own. | `table/tables/state_remote.go:352` | `CacheCoherent`, `MaxStall = 2`, `MaxTSO = 11` |
| A renewal overwrites freshly loaded data. | `table/tables/cache.go:300` | a `cache` that is not loaded, with a lease and no loader, in `cached_table` |
| Two GC workers that both find the lease ended both lead: `checkLeader` and `prepare` read and write in sessions of their own, outside of their transaction. | `store/gcworker/gc_worker.go:359`, `:1788` | `NeverDecreases`, three workers, or a leader that does not renew in time |
| RECOVER TABLE removes the row of the range in a transaction of its own; when the label rules then fail the job is cancelled, and no job deletes the range. | `ddl/table.go:471` | `tbl.row = "none"` with `tbl.pc = "dropped"` in the instance `Failing` |
| The AutoID service closes without asking whether it still leads, and gives back a range below its successor's. | `autoid_service/autoid.go:319` | `Unique`, `"oldClose"` |
| Rebase does not take the mutex of Alloc. | `autoid_service/autoid.go:492` | `Increasing`, `Alloc(1, 1, 1)` and `ToBase(4)` with `"race"` |
| N = 0 stores the RowID counter as the end of a range of the other counter. A Rebase (or an offset) within that end moves the base without a transaction, and the next Alloc hands out IDs that nobody reserved. | `autoid_service/autoid.go:434`, `:218` | `Increasing`, `Alloc(1, 2, 1)`, `ToBase(3)` and `Zero`, `rowID = 4`, no fault; `Unique`, the same with `rowID = 5` and `"crash"` |
| N = 0 reads the base and stores the end without the mutex: the end of a range that an Alloc has just reserved moves up to the RowID counter. | `autoid_service/autoid.go:418`, `:434` | `Unique`, `Alloc(1, 1, 1)` and `Zero`, `rowID = 5`, `"race"` and `"crash"` |
| A server that leads again goes on with the range it kept, so IDs are smaller than those of the leader between. | `autoid_service/autoid.go:371` | `Increasing` without its condition, `"lose"` |

## What is proved

The theorems hold for every set of servers, stores, transactions, tables and
setups and every value of the intervals, under the named assumptions of the
modules (which TLC evaluates in every run) and those listed here.

| Module | Theorem | Statement | Assumed |
|---|---|---|---|
| `SchemaValidatorProofs` | `History`, `Typing` | `Spec => []Inv`, `Spec => []TypeOK` | |
| | `NoStaleCommit` | `Spec => []StaleNeverPasses` | |
| | `NoNeedlessAbort` | `Spec => []NoSpuriousAbort` | |
| `CachedTableProofs` | `Typing`, `Locking` | `Spec => []TypeOK`, `Spec => []LockInv` | |
| | `Exclusion` | `Spec => []WriteExcludesRead` | |
| | `LeaseMonotone` | `Spec => LeaseNeverDecreases` | |
| | `IntendTheorem` | `Spec => IntendStopsReaders` | |
| `CachedTableCoherence` | `WriterLeases`, `LocalLocks` | `Spec => [](WriteLeaseBacked /\ LocalWriteBacked)` | renewals of a write lease do not fail |
| | `Coherence` | `Spec => []CacheCoherent` | that, and `MaxStall = 0` |
| `AutoIDProofs` | `Typing` | `Spec => []TypeOK` | |
| | `Refinement` | `Spec => Implements` | |
| | `Altering` | `Spec => RebaseHonoured` | |
| `GCProofs` | `Typing` | `Spec => []TypeOK` | |
| | `Restored` | `Spec => []GCRestored` | |
| | `BackupsHold` | `Spec => []BackupKept` | |
| `GCTransactions` | `TransactionsKept` | `Spec => []TxnKept` | |
| `GCCollection` | `OneLeader` | `Spec => []OneActs` | `Standby` |
| | `OneLeaderCollects` | `Spec /\ []OneActs => [](NoSilentRead /\ RangeGone /\ RecoverSafe) /\ NeverDecreases` | |
| | `NoLostRead`, `RowsKept`, `TablesRecovered`, `NoSetback` | each of the four from `Spec` alone | `Standby` |
| `TTLProofs` | `Managers` | `Spec => []Inv` | |
| | `Ownership` | `Spec => []OneOwner` | |
| | `TakeOver` | `Spec => NotTakenAway` | |

None of the properties is inductive as it stands. The arguments:

*Schema validator.* `Inv` says what the merged queue records: each delta has every
change since the delta before it (`Covers`), and no change that is older than a
version in use below it (`Exact`). A stale transaction fails because of the first:
take the version `x` that changed its table and the first newer delta that reaches
`x`; the delta before does not reach it, so this one covers it. None is failed for
nothing because of the second. That there is a first delta, and that a flattened
sequence holds what its parts hold, rest on the least element of a set of numbers,
from the well-foundedness of `<`.

*Cached tables.* A call under way holds a snapshot of the row and may still grant a
lease from it. `LockInv` says that every read lease that was granted, or that such
a call may still grant, is covered by the row: it has run out, or the row is READ
or INTEND with a lease at least as long. What a transaction may do to the row
(`RowStep`: it moves forward in the order `Before` and uncovers no lease) is shown
once for each of the four. Exclusion is then immediate, because WRITE covers only
leases that have run out. `CoherenceInv` adds the data: what a server holds, is
loading, or is about to store again is a snapshot (`SnapshotAt`) that no commit
within its lease has changed (`Frozen`). A commit passes its check only under a
backed write lease, hence under WRITE, hence when every lease still covered has
run out. Both assumptions are needed: `cached_table_phantom` violates coherence
without the first, a renewal that extends another server's write lock without the
second. The theorem includes what the bounds of `cached_table` are too small for: a
lease that expires, is written through and is granted again during a renewal of the
old one.

*AutoID.* `Reservation`: the ranges of the servers are disjoint, below the counter,
not handed out yet, and above all that their server handed out or was told of.
Most of the work is the arithmetic: under the checks for exhaustion neither
`SeekToFirstAutoID` nor `CalcNeededBatchSize` wraps around, and what a caller
derives from an answer lies within it. `Altered` adds that servers that loaded the
last ALTER TABLE hold IDs from its base on only.

*GC.* `Held`: every safe point in use, that of a worker that has its answer from PD
and that of a job that has not uploaded it included, is below every service safe
point, also because PD refuses to take one below all others. For transactions,
`Allowed` says that no safe point in use is newer than the life time allows, and
`Reported` that a running transaction is younger than that until the minimum of
its server covers it: a report lists the processes before it takes the time, and
two reports fit into the life time. The rest needs one acting worker: then a job
that is to save its safe point has a later one than the last (`Ordered`), a cache
that is fresh covers what was collected, because a job waits as long as a cache
is fresh (`Caught`), data go with a saved safe point after the drop (`Ranged`), and
between the check of RECOVER TABLE and the removal of the row no job is about to
destroy (`Sparing`). `OneLeader` shows it for a leader with one standby, whose lease
lasts at first (`Standby`); `OneLeaderCollects` is for any number of workers.

*TTL.* `Owned`: with heartbeats in time, a server that runs a job, or locked it and
is about to create it, is the owner of the row, its cache says so, and the heartbeat
is at most as old as the loop's last turn plus its lag. As `2 * MaxLag <= Expire`,
nobody else finds it too old. `Placed` says that a job is with one server. Without
heartbeats in time `OneOwner` claims nothing; `NotTakenAway` holds in any case,
because `lockNewJob` looks again in its transaction and `finish` compares the ID.

Only model-checked: everything about `OnlineDDL` and `AutoIDService`; `OnGrid` of
`AutoID` (its statement is about remainders, which the provers do not decide);
`TypeOK`, `Accounted` and `FinishedWhole` of `TTL` (the last two are about sums over
sets and sequences, which need induction over data); and all liveness, as fairness
is outside of what the provers handle.

## Not modelled

Other kinds of DDL jobs use the same dispatcher and waits with other ladders of
states; ingest and the merge of temporary indexes are variants of the backfill.
The campaign of `owner/` (session, watch, revision) is etcd's. `unistore` is a mock
of TiKV for tests; what the modules need of the storage is part of each. BR,
Lightning and Dumpling move data; only their service safe points are modelled.
`PROJECT.json` lists the other parts with reasons.
