-------------------------------- MODULE TTL --------------------------------
(* The TTL job managers of the servers (ttl/ttlworker/job_manager.go), their   *)
(* scan workers (scan.go) and delete workers (del.go), and the row that one    *)
(* table has in mysql.tidb_ttl_table_status. A server that restarts has a new  *)
(* ID, so it is another member of Server. A time is kept as its age, and ages  *)
(* grow with Tick; a job ID (a UUID) may come back when nothing holds it.      *)
EXTENDS Integers, Sequences, FiniteSets, FiniteSetsExt

CONSTANTS Server, JobID, Scanner, Deleter, None,
          Expire,           \* 2 * updateTTLTableStatusCacheInterval
          RunInterval,      \* TTLJobRunInterval
          JobTimeout,       \* ttlJobTimeout
          MaxLag,           \* how old the loop's now may be: jobManagerLoopTickerInterval
          DelBatchSize, DelMaxRetry, DelBufferSize,
          ErrorRateCnt,     \* taskStartCheckErrorRateCnt
          Setups

\* What an instance lets happen: the servers that run at first, that start later and that stop; the
\* workers at first; whether time passes; the scan tasks of a job, the batches of a task and the rows
\* of a batch; and what goes wrong. "slow": a loop may be late with its heartbeat; "beat", "lock",
\* "create", "finish", "delete": that statement fails; "linger": a scan goes on for long after its job
\* was cancelled; "build": a DELETE cannot be built; "resize", "shrink": the numbers of scan and
\* delete workers change; "window": the schedule window may be closed.
Fault == {"slow", "linger", "beat", "lock", "create", "finish", "delete", "build", "shrink", "resize", "window"}

ASSUME TTLAssumption ==
    /\ {Expire, RunInterval, JobTimeout, MaxLag, DelBatchSize, DelMaxRetry, DelBufferSize} \subseteq Nat \ {0}
    /\ ErrorRateCnt \in Nat /\ JobID \subseteq Nat /\ None \notin JobID \cup Server
    /\ IsFiniteSet(Scanner)
    /\ 2 * MaxLag <= Expire
    /\ \A u \in Setups : u.faults \subseteq Fault /\ u.tasks \in Nat \ {0}

VARIABLES setup,
          up,       \* a server: "new", "up" or "down"
          row,      \* the row of the table: current job, owner, heartbeat, last finish
          cache,    \* tableStatusCache of each server, as far as it is read
          loop,     \* the job loop: pc, age of now, time since the last heartbeat, job it locked
          job,      \* the running job of each server
          stats,    \* the statistics of each job
          scan, del     \* the workers of each server

vars == <<setup, up, row, cache, loop, job, stats, scan, del>>

May(fault) == fault \in setup.faults
Timely == setup.faults \cap {"slow", "beat"} = {}

NoRow == [job |-> None, owner |-> None, hb |-> 0, last |-> None]
Status(r) == [owner |-> r.owner, hb |-> r.hb, last |-> r.last]
NoJob == [id |-> None, age |-> 0, iter |-> 0, done |-> 0]
NewLoop == [pc |-> "loop", lag |-> 0, quiet |-> 0, id |-> None]
NoStats == [total |-> 0, ok |-> 0, err |-> 0]
Idle == [pc |-> "idle", id |-> None, stop |-> FALSE, left |-> 0, n |-> 0]
IdleDel == [pc |-> "idle", id |-> None, left |-> 0, retry |-> 0, cnt |-> 0, buf |-> <<>>]

Init ==
    /\ setup \in Setups
    /\ up = [s \in Server |-> IF s \in setup.first THEN "up" ELSE "new"]
    /\ row = NoRow
    /\ cache = [s \in Server |-> Status(NoRow)]
    /\ loop = [s \in Server |-> NewLoop]
    /\ job = [s \in Server |-> NoJob]
    /\ stats = [j \in JobID |-> NoStats]
    /\ scan = [s \in Server |-> [w \in Scanner |-> IF w \in setup.scanners THEN Idle ELSE [Idle EXCEPT !.pc = "off"]]]
    /\ del = [s \in Server |-> [d \in Deleter |-> IF d \in setup.deleters THEN IdleDel ELSE [IdleDel EXCEPT !.pc = "off"]]]

\* One round of jobLoop is over, and the next takes its now before it waits.
NextRound(s) == loop' = [loop EXCEPT ![s] = [@ EXCEPT !.pc = "loop", !.lag = 0, !.id = None]]
InLoop(s) == up[s] = "up" /\ loop[s].pc = "loop"

-----------------------------------------------------------------------------
(* The status row and its cache. *)

\* Mutant of couldTrySchedule: a job that has an owner is left to it.
couldTryFree(status, lag) ==
    IF status.owner # None THEN FALSE
    ELSE IF status.last = None THEN TRUE ELSE status.last - lag > RunInterval

couldTrySchedule(status, lag) ==
    IF status.owner # None THEN status.hb - lag > Expire
    ELSE IF status.last = None THEN TRUE ELSE status.last - lag > RunInterval

\* Jobs that this server runs according to its cache.
localJob(s) == job[s] # NoJob /\ cache[s].owner = s

updateTableStatusCache(s) ==
    /\ InLoop(s)
    /\ cache' = [cache EXCEPT ![s] = Status(row)]
    /\ NextRound(s)
    /\ UNCHANGED <<setup, up, row, job, stats, scan, del>>

\* Mutant of updateHeartBeat: a job whose tasks are all scheduled gets no heartbeat.
updateHeartBeatSpawning(s) ==
    /\ InLoop(s)
    /\ row' = IF localJob(s) /\ row.owner = s /\ job[s].iter < setup.tasks THEN [row EXCEPT !.hb = 0] ELSE row
    /\ loop' = [loop EXCEPT ![s] = [@ EXCEPT !.lag = 0, !.quiet = 0]]
    /\ UNCHANGED <<setup, up, cache, job, stats, scan, del>>

updateHeartBeat(s) ==
    /\ InLoop(s)
    /\ \/ row' = IF localJob(s) /\ row.owner = s THEN [row EXCEPT !.hb = 0] ELSE row
       \/ May("beat") /\ UNCHANGED row
    /\ loop' = [loop EXCEPT ![s] = [@ EXCEPT !.lag = 0, !.quiet = 0]]
    /\ UNCHANGED <<setup, up, cache, job, stats, scan, del>>

-----------------------------------------------------------------------------
(* Scheduling. *)

idleScanWorkers(s) == {w \in Scanner : scan[s][w].pc = "idle"}

\* The job j of server s gives its next tasks to idle workers.
Spawn(s, j) ==
    LET n == Min({Cardinality(idleScanWorkers(s)), setup.tasks - j.iter}) IN
    \E W \in {V \in SUBSET idleScanWorkers(s) : Cardinality(V) = n} :
        /\ scan' = [scan EXCEPT ![s] = [w \in Scanner |->
                       IF w \in W THEN [pc |-> "loop", id |-> j.id, stop |-> FALSE, left |-> setup.batches, n |-> 0] ELSE scan[s][w]]]
        /\ job' = [job EXCEPT ![s] = [j EXCEPT !.iter = @ + n]]

\* updateTaskState finds the job of a result by the table, and rescheduleJobs follows.
updateTaskState(s) ==
    LET W == {w \in Scanner : scan[s][w].pc = "result"} IN
    /\ InLoop(s) /\ W # {}
    /\ job' = IF job[s] = NoJob THEN job ELSE [job EXCEPT ![s].done = @ + Cardinality(W)]
    /\ scan' = [scan EXCEPT ![s] = [w \in Scanner |-> IF w \in W THEN Idle ELSE scan[s][w]]]
    /\ loop' = [loop EXCEPT ![s].pc = "schedule"]
    /\ UNCHANGED <<setup, up, row, cache, stats, del>>

Scheduling(s) == up[s] = "up" /\ loop[s].pc \in {"loop", "schedule"}

rescheduleLocal(s) ==
    /\ Scheduling(s)
    /\ localJob(s) /\ idleScanWorkers(s) # {} /\ job[s].iter < setup.tasks
    /\ Spawn(s, job[s])
    /\ NextRound(s)
    /\ UNCHANGED <<setup, up, row, cache, stats, del>>

\* Nothing holds an unused ID any more.
Unused == {j \in JobID :
    /\ row.job # j
    /\ \A s \in Server :
         /\ job[s].id # j /\ loop[s].id # j
         /\ \A w \in Scanner : scan[s][w].id # j
         /\ \A d \in Deleter : del[s][d].id # j /\ \A i \in DOMAIN del[s][d].buf : del[s][d].buf[i].id # j}

CanTry(s) ==
    /\ Scheduling(s)
    /\ job[s] = NoJob /\ idleScanWorkers(s) # {}
    /\ couldTrySchedule(cache[s], loop[s].lag)

\* The transaction of lockNewJob reads the row again. The last finish time is kept in the table, but
\* is read only where there is no owner, and is then that of a later job.
lockNewJob(s) ==
    /\ CanTry(s)
    /\ couldTrySchedule(row, loop[s].lag)
    /\ \E j \in Unused :
         /\ \A k \in Unused : j <= k
         /\ row' = [job |-> j, owner |-> s, hb |-> loop[s].lag, last |-> None]
         /\ stats' = [stats EXCEPT ![j] = NoStats]
         /\ \/ loop' = [loop EXCEPT ![s] = [@ EXCEPT !.pc = "locked", !.id = j]]
            \/ May("lock") /\ NextRound(s)
    /\ UNCHANGED <<setup, up, cache, job, scan, del>>

\* The window is closed, there is nothing to schedule, or the row in the table does not allow it.
NothingToSchedule(s) ==
    /\ Scheduling(s)
    /\ May("window") \/ ~(localJob(s) /\ idleScanWorkers(s) # {} /\ job[s].iter < setup.tasks)
    /\ May("window") \/ ~(CanTry(s) /\ couldTrySchedule(row, loop[s].lag))
    /\ loop[s].pc = "schedule" \/ loop[s].lag > 0
    /\ NextRound(s)
    /\ UNCHANGED <<setup, up, row, cache, job, stats, scan, del>>

\* The cache is read again, the ranges are split, and the first tasks are scheduled.
createNewJob(s) ==
    /\ up[s] = "up" /\ loop[s].pc = "locked"
    /\ \/ /\ cache' = [cache EXCEPT ![s] = Status(row)]
          /\ Spawn(s, [id |-> loop[s].id, age |-> loop[s].lag, iter |-> 0, done |-> 0])
       \/ /\ May("create")
          /\ cache' \in {cache, [cache EXCEPT ![s] = Status(row)]}
          /\ UNCHANGED <<job, scan>>
    /\ NextRound(s)
    /\ UNCHANGED <<setup, up, row, stats, del>>

-----------------------------------------------------------------------------
(* The end of a job. *)

\* Mutant of Finished: the rows are not waited for.
FinishedScans(s) == job[s].iter = setup.tasks /\ job[s].done = setup.tasks

Finished(s) ==
    LET j == job[s] IN
    /\ j.iter = setup.tasks /\ j.done = setup.tasks
    /\ stats[j.id].total = stats[j.id].err + stats[j.id].ok

\* Mutant of finish: the job ID is not compared.
finishAny(s) ==
    \/ row' = [job |-> None, owner |-> None, hb |-> 0, last |-> 0]
    \/ May("finish") /\ UNCHANGED row

\* finish: the current job becomes the last one, if it is still the current one.
finish(s) ==
    \/ row' = IF row.job = job[s].id THEN [job |-> None, owner |-> None, hb |-> 0, last |-> 0] ELSE row
    \/ May("finish") /\ UNCHANGED row

\* The context of the job of server s is cancelled.
Cancel(s) ==
    scan' = [scan EXCEPT ![s] = [w \in Scanner |-> [scan[s][w] EXCEPT !.stop = @ \/ scan[s][w].id = job[s].id]]]

\* checkFinishedJob, then checkNotOwnJob.
checkJobs(s) ==
    /\ InLoop(s) /\ job[s] # NoJob
    /\ IF Finished(s) \/ job[s].age - loop[s].lag > JobTimeout
       THEN /\ finish(s)
            /\ job' = [job EXCEPT ![s] = NoJob]
            /\ IF Finished(s) THEN UNCHANGED scan ELSE Cancel(s)
       ELSE /\ cache[s].owner # s
            /\ job' = [job EXCEPT ![s] = NoJob]
            /\ Cancel(s)
            /\ UNCHANGED row
    /\ NextRound(s)
    /\ UNCHANGED <<setup, up, cache, stats, del>>

-----------------------------------------------------------------------------
(* The workers. *)

\* Errors exceed 40% of the rows.
TooManyErrors(j) ==
    /\ stats[j].total > ErrorRateCnt
    /\ 10 * stats[j].err > 4 * stats[j].total

\* A round of doScan: the task ends, or selects another batch.
doScan(s, w) ==
    LET t == scan[s][w] IN
    /\ up[s] = "up" /\ t.pc = "loop"
    /\ \/ scan' = [scan EXCEPT ![s][w].pc = "result"]
       \/ /\ ~t.stop /\ ~TooManyErrors(t.id) /\ t.left > 0
          /\ \E n \in 1 .. setup.rows :
                scan' = [scan EXCEPT ![s][w].pc = "send", ![s][w].n = n, ![s][w].left = @ - 1]
    /\ UNCHANGED <<setup, up, row, cache, loop, job, stats, del>>

\* The channel to the delete workers has no buffer.
SendDelTask(s, w, d) ==
    LET t == scan[s][w] IN
    /\ up[s] = "up" /\ t.pc = "send" /\ del[s][d].pc = "idle"
    /\ scan' = [scan EXCEPT ![s][w].pc = "inc"]
    /\ del' = [del EXCEPT ![s][d].pc = "delete", ![s][d].id = t.id, ![s][d].left = t.n]
    /\ UNCHANGED <<setup, up, row, cache, loop, job, stats>>

IncTotalRows(s, w) ==
    LET t == scan[s][w] IN
    /\ up[s] = "up" /\ t.pc = "inc"
    /\ stats' = [stats EXCEPT ![t.id].total = @ + t.n]
    /\ scan' = [scan EXCEPT ![s][w].pc = "loop", ![s][w].n = 0]
    /\ UNCHANGED <<setup, up, row, cache, loop, job, del>>

\* One DELETE of doDelete: it succeeds, fails, is to be retried, or cannot be built, in which case
\* the rows after it are dropped.
doDelete(s, d) ==
    LET t == del[s][d]
        b == Min({t.left, DelBatchSize}) IN
    /\ up[s] = "up" /\ t.pc = "delete" /\ t.left > 0
    /\ \/ /\ stats' = [stats EXCEPT ![t.id].ok = @ + b]
          /\ del' = [del EXCEPT ![s][d].left = @ - b]
       \/ /\ May("delete")
          /\ stats' = [stats EXCEPT ![t.id].err = @ + b]
          /\ del' = [del EXCEPT ![s][d].left = @ - b]
       \/ /\ May("delete")
          /\ del' = [del EXCEPT ![s][d].left = @ - b, ![s][d].retry = @ + b]
          /\ UNCHANGED stats
       \/ /\ May("build")
          /\ stats' = [stats EXCEPT ![t.id].err = @ + b]
          /\ del' = [del EXCEPT ![s][d].left = 0]
    /\ UNCHANGED <<setup, up, row, cache, loop, job, scan>>

Recorded(s, d, buf) == del' = [del EXCEPT ![s][d] = [IdleDel EXCEPT !.buf = buf]]

\* Mutant of recordRetryItem: rows that had all their retries are dropped.
recordDropping(s, d) ==
    LET t == del[s][d]
        item == [id |-> t.id, rows |-> t.retry, cnt |-> t.cnt] IN
    /\ up[s] = "up" /\ t.pc = "delete" /\ t.left = 0 /\ Len(t.buf) < DelBufferSize
    /\ Recorded(s, d, IF t.retry = 0 \/ t.cnt >= DelMaxRetry THEN t.buf ELSE Append(t.buf, item))
    /\ UNCHANGED <<setup, up, row, cache, loop, job, stats, scan>>

\* Mutant of recordRetryItem: the size of the buffer is not looked at.
recordUnbounded(s, d) ==
    LET t == del[s][d]
        item == [id |-> t.id, rows |-> t.retry, cnt |-> t.cnt] IN
    /\ up[s] = "up" /\ t.pc = "delete" /\ t.left = 0 /\ t.cnt < DelMaxRetry
    /\ Recorded(s, d, IF t.retry = 0 THEN t.buf ELSE Append(t.buf, item))
    /\ UNCHANGED <<setup, up, row, cache, loop, job, stats, scan>>

\* recordRetryItem: too many retries, or a full buffer whose oldest item makes room.
recordRetryItem(s, d) ==
    LET t == del[s][d]
        item == [id |-> t.id, rows |-> t.retry, cnt |-> t.cnt] IN
    /\ up[s] = "up" /\ t.pc = "delete" /\ t.left = 0
    /\ \/ /\ t.retry = 0
          /\ Recorded(s, d, t.buf)
          /\ UNCHANGED stats
       \/ /\ t.retry > 0 /\ t.cnt >= DelMaxRetry
          /\ stats' = [stats EXCEPT ![t.id].err = @ + t.retry]
          /\ Recorded(s, d, t.buf)
       \/ /\ t.retry > 0 /\ t.cnt < DelMaxRetry /\ Len(t.buf) < DelBufferSize
          /\ Recorded(s, d, Append(t.buf, item))
          /\ UNCHANGED stats
       \/ /\ t.retry > 0 /\ t.cnt < DelMaxRetry /\ Len(t.buf) >= DelBufferSize
          /\ stats' = [stats EXCEPT ![Head(t.buf).id].err = @ + Head(t.buf).rows]
          /\ Recorded(s, d, Append(Tail(t.buf), item))
    /\ UNCHANGED <<setup, up, row, cache, loop, job, scan>>

\* DoRetry takes the oldest item once it is due.
DoRetry(s, d) ==
    LET t == del[s][d] IN
    /\ up[s] = "up" /\ t.pc = "idle" /\ t.buf # <<>>
    /\ del' = [del EXCEPT ![s][d] = [pc |-> "delete", id |-> Head(t.buf).id, left |-> Head(t.buf).rows,
                                     retry |-> 0, cnt |-> Head(t.buf).cnt + 1, buf |-> Tail(t.buf)]]
    /\ UNCHANGED <<setup, up, row, cache, loop, job, stats, scan>>

\* resizeScanWorkers: a worker is stopped and its task counts as finished.
resizeScanWorkers(s, w) ==
    /\ InLoop(s) /\ May("resize")
    /\ \/ /\ scan[s][w].pc = "off"
          /\ scan' = [scan EXCEPT ![s][w] = Idle]
          /\ UNCHANGED job
       \/ /\ scan[s][w].pc \notin {"off", "inc"}
          /\ \E v \in Scanner \ {w} : scan[s][v].pc # "off"
          /\ scan' = [scan EXCEPT ![s][w] = [Idle EXCEPT !.pc = "off"]]
          /\ job' = IF scan[s][w].pc = "idle" \/ job[s] = NoJob THEN job ELSE [job EXCEPT ![s].done = @ + 1]
    /\ NextRound(s)
    /\ UNCHANGED <<setup, up, row, cache, stats, del>>

\* resizeDelWorkers: a stopped worker gives up its batch, or that and the next one, and loses the
\* rest of its rows and its buffer. What it has to retry may still push the oldest item out.
resizeDelWorkers(s, d) ==
    LET t == del[s][d]
        gaveUp(k) == Min({t.left, k * DelBatchSize}) + (IF t.cnt >= DelMaxRetry THEN t.retry ELSE 0)
        evicts == t.retry > 0 /\ t.cnt < DelMaxRetry /\ Len(t.buf) >= DelBufferSize
        evicted(i) == IF evicts /\ Head(t.buf).id = i THEN Head(t.buf).rows ELSE 0 IN
    /\ InLoop(s) /\ May("shrink")
    /\ \/ /\ t.pc = "off"
          /\ del' = [del EXCEPT ![s][d] = IdleDel]
          /\ UNCHANGED stats
       \/ /\ t.pc # "off" /\ \E e \in Deleter \ {d} : del[s][e].pc # "off"
          /\ del' = [del EXCEPT ![s][d] = [IdleDel EXCEPT !.pc = "off"]]
          /\ IF t.pc = "idle" THEN UNCHANGED stats
             ELSE \E k \in {1, 2} :
                    stats' = [i \in DOMAIN stats |->
                                [stats[i] EXCEPT !.err = @ + evicted(i) + (IF i = t.id THEN gaveUp(k) ELSE 0)]]
    /\ NextRound(s)
    /\ UNCHANGED <<setup, up, row, cache, job, scan>>

-----------------------------------------------------------------------------
\* A server stops, with everything it has in memory.
Stop(s) ==
    /\ up[s] = "up" /\ s \in setup.stopping
    /\ up' = [up EXCEPT ![s] = "down"]
    /\ cache' = [cache EXCEPT ![s] = Status(NoRow)]
    /\ loop' = [loop EXCEPT ![s] = NewLoop]
    /\ job' = [job EXCEPT ![s] = NoJob]
    /\ scan' = [scan EXCEPT ![s] = [w \in Scanner |-> Idle]]
    /\ del' = [del EXCEPT ![s] = [d \in Deleter |-> IdleDel]]
    /\ UNCHANGED <<setup, row, stats>>

Start(s) ==
    /\ up[s] = "new" /\ s \in setup.later
    /\ up' = [up EXCEPT ![s] = "up"]
    /\ UNCHANGED <<setup, row, cache, loop, job, stats, scan, del>>

Aged(age, bound) == IF age = None THEN None ELSE Min({age + 1, bound + MaxLag + 1})
AgedRow(r) == [r EXCEPT !.hb = IF r.owner = None THEN 0 ELSE Aged(@, Expire), !.last = Aged(@, RunInterval)]

\* A scan or a result of a job that the server does not run.
Lingers(s, w) ==
    scan[s][w].pc \notin {"idle", "off"} /\ scan[s][w].id \notin {job[s].id, loop[s].id}

\* Time goes on: every running loop gets its turn, unless it is slow, and a cancelled scan ends,
\* unless it lingers.
Tick ==
    /\ setup.time
    /\ \A s \in Server : up[s] = "up" =>
         /\ loop[s].lag < MaxLag
         /\ loop[s].quiet < MaxLag \/ May("slow")
         /\ May("linger") \/ \A w \in Scanner : ~Lingers(s, w)
    /\ row' = AgedRow(row)
    /\ cache' = [s \in Server |-> AgedRow(cache[s])]
    /\ loop' = [s \in Server |-> IF up[s] = "up"
                  THEN [loop[s] EXCEPT !.lag = @ + 1, !.quiet = IF May("slow") THEN 0 ELSE @ + 1] ELSE loop[s]]
    /\ job' = [s \in Server |-> IF job[s] = NoJob THEN NoJob ELSE [job[s] EXCEPT !.age = Aged(@, JobTimeout)]]
    /\ UNCHANGED <<setup, up, stats, scan, del>>

Next ==
    \/ \E s \in Server :
         \/ updateTableStatusCache(s) \/ updateHeartBeat(s) \/ updateTaskState(s)
         \/ rescheduleLocal(s) \/ lockNewJob(s) \/ NothingToSchedule(s) \/ createNewJob(s) \/ checkJobs(s)
         \/ Start(s) \/ Stop(s)
         \/ \E w \in Scanner :
              \/ doScan(s, w) \/ IncTotalRows(s, w) \/ resizeScanWorkers(s, w)
              \/ \E d \in Deleter : SendDelTask(s, w, d)
         \/ \E d \in Deleter :
              doDelete(s, d) \/ recordRetryItem(s, d) \/ DoRetry(s, d) \/ resizeDelWorkers(s, d)
    \/ Tick

ScanStep(s, w) == doScan(s, w) \/ IncTotalRows(s, w) \/ \E d \in Deleter : SendDelTask(s, w, d)
DelStep(s, d) == doDelete(s, d) \/ recordRetryItem(s, d) \/ DoRetry(s, d)

\* Time goes on, the workers run, and the tickers of jobLoop keep firing, so that a case of its
\* select that stays ready is picked in the end.
Fairness ==
    /\ WF_vars(Tick)
    /\ \A s \in Server :
         /\ WF_vars(updateTableStatusCache(s)) /\ WF_vars(updateHeartBeat(s)) /\ WF_vars(checkJobs(s))
         /\ WF_vars(updateTaskState(s))
         /\ WF_vars(rescheduleLocal(s) \/ lockNewJob(s) \/ createNewJob(s)
                      \/ (loop[s].pc = "schedule" /\ NothingToSchedule(s)))
         /\ WF_vars(\E w \in Scanner : ScanStep(s, w))
         /\ WF_vars(\E d \in Deleter : DelStep(s, d))

Spec == Init /\ [][Next]_vars /\ Fairness

-----------------------------------------------------------------------------
Age(bound) == 0 .. bound + MaxLag + 1
RowType ==
    [job : JobID \cup {None}, owner : Server \cup {None}, hb : Age(Expire), last : Age(RunInterval) \cup {None}]

\* Every variable has its type; a retry buffer holds at most its maximal size, and a server at
\* most one job of a table.
TypeOK ==
    /\ up \in [Server -> {"new", "up", "down"}]
    /\ row \in RowType
    /\ row.job = None <=> row.owner = None
    /\ \A s \in Server :
         /\ job[s].id \in JobID \cup {None} /\ job[s].iter \in 0 .. setup.tasks /\ job[s].done \in Nat
         /\ loop[s].lag \in 0 .. MaxLag /\ loop[s].pc \in {"loop", "schedule", "locked"}
         /\ \A d \in Deleter : Len(del[s][d].buf) <= DelBufferSize /\ del[s][d].cnt <= DelMaxRetry

\* The rows of job j that delete workers of server s still have.
Outstanding(s, j) ==
    LET OfWorker(d) == (IF del[s][d].id = j THEN del[s][d].left + del[s][d].retry ELSE 0)
          + MapThenSumSet(LAMBDA i : IF del[s][d].buf[i].id = j THEN del[s][d].buf[i].rows ELSE 0, DOMAIN del[s][d].buf)
    IN MapThenSumSet(OfWorker, Deleter)

Uncounted(s, j) == MapThenSumSet(LAMBDA w : IF scan[s][w].pc = "inc" /\ scan[s][w].id = j THEN scan[s][w].n ELSE 0, Scanner)

\* Every row that a job selected is deleted, counted as an error, or still with a delete worker,
\* although TotalRows is counted after the rows are sent and retries are dropped at their limits.
Accounted ==
    setup.faults \cap {"shrink", "build"} = {} => \A s \in Server : up[s] = "up" /\ job[s] # NoJob =>
        LET j == job[s].id IN
        stats[j].total + Uncounted(s, j) = stats[j].ok + stats[j].err + Outstanding(s, j)

\* A job that counts as finished has no scan that still runs, and no rows left to delete.
FinishedWhole ==
    "linger" \notin setup.faults => \A s \in Server : up[s] = "up" /\ job[s] # NoJob /\ Finished(s) =>
        /\ \A w \in Scanner : scan[s][w].id # job[s].id
        /\ Outstanding(s, job[s].id) = 0

\* A server that keeps its heartbeat going and takes a job for its own is right.
OneOwner ==
    Timely => \A s \in Server : up[s] = "up" /\ localJob(s) => row.owner = s /\ row.job = job[s].id

\* The row of a job changes hands only when its heartbeat is too old, or when nobody runs it.
NotTakenAway ==
    [][row.job # None /\ row'.job # row.job =>
         row.hb > Expire \/ \A s \in Server : job'[s].id # row.job]_vars

\* A job never stays in the row for ever, whatever became of its owner, its workers and its rows,
\* and the table never stays without a job for ever, as long as some server does not stop.
AlwaysServed ==
    setup.time /\ "window" \notin setup.faults /\ setup.first \ setup.stopping # {} =>
        []<><<row'.job # row.job>>_vars
=============================================================================
