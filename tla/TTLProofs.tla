----------------------------- MODULE TTLProofs -----------------------------
(* Proofs about TTL: as long as every server keeps its heartbeats, a TTL job   *)
(* has one owner; and a job is never taken out of the status row while it runs *)
(* and its heartbeat is fresh. For any servers, workers, intervals and faults. *)
EXTENDS TTL, FiniteSetTheorems, TLAPS

USE ZenonT(5), SMTT(30)    \* the provers of a step that names none

JobOrNone == JobID \cup {None}
OwnerOrNone == Server \cup {None}
RowRecord == [job : JobOrNone, owner : OwnerOrNone, hb : Nat, last : Nat \cup {None}]
StatusRecord == [owner : OwnerOrNone, hb : Nat, last : Nat \cup {None}]
LoopRecord == [pc : {"loop", "schedule", "locked"}, lag : 0 .. MaxLag, quiet : 0 .. MaxLag, id : JobOrNone]
JobRecord == [id : JobOrNone, age : Nat, iter : 0 .. setup.tasks, done : Nat]

\* The types of what the managers share and keep; the workers do not matter here.
Typed ==
    /\ setup \in Setups
    /\ up \in [Server -> {"new", "up", "down"}]
    /\ row \in RowRecord
    /\ cache \in [Server -> StatusRecord]
    /\ loop \in [Server -> LoopRecord]
    /\ job \in [Server -> JobRecord]

\* A server has a job: it runs it, or it locked it and is about to create it.
Holds(s, j) == j # None /\ (job[s].id = j \/ loop[s].id = j)

\* A job is in one place, and only servers that run have one.
Placed ==
    /\ row.job = None <=> row.owner = None
    /\ \A s \in Server :
         /\ job[s] # NoJob => job[s].id # None
         /\ loop[s].id # None <=> loop[s].pc = "locked"
         /\ loop[s].pc = "locked" => job[s] = NoJob
         /\ up[s] # "up" => job[s] = NoJob /\ loop[s].pc # "locked"
    /\ \A s, t \in Server : \A j \in JobID : Holds(s, j) /\ Holds(t, j) => s = t

\* With heartbeats in time, a server that has a job is its owner, knows it, and its last heartbeat
\* is not older than the time since the loop last had its turn at it, and one interval of lag.
Owned ==
    Timely => \A s \in Server : \A j \in JobID : Holds(s, j) =>
        /\ row.owner = s /\ row.job = j
        /\ row.hb <= loop[s].quiet + MaxLag
        /\ job[s] # NoJob => cache[s].owner = s

Inv == Typed /\ Placed /\ Owned

-----------------------------------------------------------------------------
\* The intervals are numbers, and None is neither a job nor a server.
LEMMA Constants ==
    /\ MaxLag \in Nat /\ 0 \in 0 .. MaxLag /\ Expire \in Nat /\ RunInterval \in Nat /\ JobTimeout \in Nat
    /\ 2 * MaxLag <= Expire
    /\ JobID \subseteq Nat /\ None \notin JobID /\ None \notin Server
  BY TTLAssumption

\* The smaller of two numbers.
LEMMA MinOfTwo == \A a, b \in Int : Min({a, b}) \in {a, b} /\ Min({a, b}) <= a /\ Min({a, b}) <= b
  <1> SUFFICES ASSUME NEW a \in Int, NEW b \in Int
               PROVE  Min({a, b}) \in {a, b} /\ Min({a, b}) <= a /\ Min({a, b}) <= b
    OBVIOUS
  <1>1. \E x \in {a, b} : \A y \in {a, b} : x <= y
    OBVIOUS
  <1> QED  BY <1>1 DEF Min

\* A time that gets older by one step.
LEMMA AgedType ==
    ASSUME NEW age \in Nat \cup {None}, NEW bound \in Nat
    PROVE  /\ Aged(age, bound) \in Nat \cup {None}
           /\ age \in Nat => Aged(age, bound) \in Nat /\ Aged(age, bound) <= age + 1
  <1>1. MaxLag \in Nat  BY TTLAssumption
  <1>2. CASE age = None  BY <1>2 DEF Aged
  <1>3. CASE age # None
    <2>1. age + 1 \in Int /\ bound + MaxLag + 1 \in Int  BY <1>1, <1>3
    <2>2. Min({age + 1, bound + MaxLag + 1}) \in {age + 1, bound + MaxLag + 1}
          /\ Min({age + 1, bound + MaxLag + 1}) <= age + 1
      BY <2>1, MinOfTwo
    <2> QED  BY <1>1, <1>3, <2>2 DEF Aged
  <1> QED  BY <1>2, <1>3

\* Init has the invariant.
LEMMA InitInv == Init => Inv
  <1> SUFFICES ASSUME Init PROVE Inv  OBVIOUS
  <1>1. Typed
    BY TTLAssumption DEF Init, Typed, NoRow, Status, NewLoop, NoJob, RowRecord, StatusRecord, LoopRecord,
      JobRecord, JobOrNone, OwnerOrNone
  <1>2. Placed
    BY TTLAssumption DEF Init, Placed, NoRow, NewLoop, NoJob, Holds
  <1>3. Owned
    BY TTLAssumption DEF Init, Owned, NewLoop, NoJob, Holds
  <1> QED  BY <1>1, <1>2, <1>3 DEF Inv

-----------------------------------------------------------------------------
(* Every action keeps the invariant. *)

\* A step of a worker, or one that only changes what a job counts, leaves the owners alone.
LEMMA Kept ==
    ASSUME Inv, UNCHANGED <<setup, up, row, cache>>,
           loop' \in [Server -> LoopRecord], job' \in [Server -> JobRecord]',
           \A s \in Server : /\ loop'[s].quiet = loop[s].quiet /\ loop'[s].id = loop[s].id
                             /\ loop'[s].pc = loop[s].pc \/ {loop[s].pc, loop'[s].pc} \subseteq {"loop", "schedule"}
                             /\ job'[s].id = job[s].id /\ (job'[s] = NoJob <=> job[s] = NoJob)
    PROVE  Inv'
  <1>1. Typed'  BY DEF Inv, Typed, StatusRecord, LoopRecord, RowRecord
  <1>2. \A s \in Server : \A j \in JobID : Holds(s, j)' <=> Holds(s, j)  BY DEF Holds
  <1>3. \A s \in Server : loop'[s].pc = "locked" <=> loop[s].pc = "locked"  OBVIOUS
  <1>4. Placed'  BY <1>2, <1>3 DEF Inv, Placed
  <1>5. Owned'  BY <1>2 DEF Inv, Owned, Timely
  <1> QED  BY <1>1, <1>4, <1>5 DEF Inv

\* Scheduling tasks of job j on server s only moves its iterator.
LEMMA SpawnEffect ==
    ASSUME Typed, NEW s \in Server, NEW j \in JobRecord, Spawn(s, j), UNCHANGED setup
    PROVE  /\ job' \in [Server -> JobRecord]'
           /\ job'[s].id = j.id
           /\ \A t \in Server \ {s} : job'[t] = job[t]
  <1>1. PICK W : job' = [job EXCEPT ![s] = [j EXCEPT !.iter = @ + Min({Cardinality(idleScanWorkers(s)), setup.tasks - j.iter})]]
    BY DEF Spawn
  <1> DEFINE n == Min({Cardinality(idleScanWorkers(s)), setup.tasks - j.iter})
  <1>2. idleScanWorkers(s) \subseteq Scanner /\ IsFiniteSet(Scanner)
    BY TTLAssumption DEF idleScanWorkers
  <1>3. Cardinality(idleScanWorkers(s)) \in Nat
    BY <1>2, FS_Subset, FS_CardinalityType
  <1>4. setup.tasks \in Nat /\ j.iter \in 0 .. setup.tasks
    BY TTLAssumption DEF Typed, JobRecord
  <1>5. n \in Nat /\ n <= setup.tasks - j.iter
    <2> DEFINE c == Cardinality(idleScanWorkers(s))
               d == setup.tasks - j.iter
    <2>1. c \in Nat /\ d \in Nat  BY <1>3, <1>4
    <2> HIDE DEF c, d
    <2>2. Min({c, d}) \in {c, d} /\ Min({c, d}) <= d  BY <2>1, MinOfTwo
    <2>3. Min({c, d}) \in Nat /\ Min({c, d}) <= d  BY <2>1, <2>2
    <2> QED  BY <2>3 DEF c, d
  <1>6. [j EXCEPT !.iter = @ + n] \in JobRecord /\ [j EXCEPT !.iter = @ + n].id = j.id
    BY <1>4, <1>5 DEF JobRecord
  <1>7. job' = [job EXCEPT ![s] = [j EXCEPT !.iter = @ + n]]  BY <1>1
  <1> HIDE DEF n
  <1>8. job' \in [Server -> JobRecord]  BY <1>6, <1>7 DEF Typed
  <1> QED  BY <1>6, <1>7, <1>8 DEF Typed, JobRecord

\* The next round of the loop of server s, or the end of one.
LEMMA RoundTyped ==
    ASSUME Typed, NEW s \in Server, NextRound(s)
    PROVE  /\ loop' \in [Server -> LoopRecord]
           /\ loop'[s].pc = "loop" /\ loop'[s].id = None /\ loop'[s].quiet = loop[s].quiet
           /\ \A t \in Server \ {s} : loop'[t] = loop[t]
  <1> DEFINE new == [loop[s] EXCEPT !.pc = "loop", !.lag = 0, !.id = None]
  <1>1. loop[s] \in LoopRecord  BY DEF Typed
  <1>2. new \in LoopRecord /\ new.pc = "loop" /\ new.id = None /\ new.quiet = loop[s].quiet
    BY <1>1, Constants DEF LoopRecord, JobOrNone
  <1>3. loop' = [loop EXCEPT ![s] = new]  BY DEF NextRound, Typed
  <1> HIDE DEF new
  <1> QED  BY <1>2, <1>3 DEF Typed

\* The cache is read again.
LEMMA CacheInv == ASSUME Inv, NEW s \in Server, updateTableStatusCache(s) PROVE Inv'
  <1>1. /\ loop' \in [Server -> LoopRecord]
        /\ loop'[s].pc = "loop" /\ loop'[s].id = None /\ loop'[s].quiet = loop[s].quiet
        /\ \A t \in Server \ {s} : loop'[t] = loop[t]
    BY RoundTyped DEF updateTableStatusCache, Inv
  <1>2. /\ UNCHANGED <<setup, up, row, job>> /\ cache' = [cache EXCEPT ![s] = Status(row)]
        /\ loop[s].pc = "loop"
    BY DEF updateTableStatusCache, InLoop
  <1>3. Typed'
    BY <1>1, <1>2 DEF Inv, Typed, Status, RowRecord, StatusRecord, JobRecord
  <1>4. \A t \in Server : \A j \in JobID : Holds(t, j)' <=> Holds(t, j)
    BY <1>1, <1>2 DEF Holds, Inv, Placed
  <1>5. Placed'  BY <1>1, <1>2, <1>4 DEF Inv, Placed
  <1>6. Owned'
    <2> SUFFICES ASSUME Timely, NEW t \in Server, NEW j \in JobID, Holds(t, j)
                 PROVE  /\ row.owner = t /\ row.job = j
                        /\ row.hb <= loop[t].quiet + MaxLag
                        /\ job[t] # NoJob => cache'[t].owner = t
      BY <1>1, <1>2, <1>4 DEF Owned, Timely
    <2>1. /\ row.owner = t /\ row.job = j /\ row.hb <= loop[t].quiet + MaxLag
          /\ job[t] # NoJob => cache[t].owner = t
      BY DEF Inv, Owned
    <2> QED  BY <1>2, <2>1 DEF Inv, Typed, Status
  <1> QED  BY <1>3, <1>5, <1>6 DEF Inv

\* The heartbeat of the owner makes the row fresh; those of others do not touch it.
LEMMA HeartBeatInv == ASSUME Inv, NEW s \in Server, updateHeartBeat(s) PROVE Inv'
  <1>1. /\ UNCHANGED <<setup, up, cache, job>>
        /\ loop' = [loop EXCEPT ![s] = [@ EXCEPT !.lag = 0, !.quiet = 0]]
        /\ row' \in {row, [row EXCEPT !.hb = 0]}
        /\ Timely => row' = IF localJob(s) /\ row.owner = s THEN [row EXCEPT !.hb = 0] ELSE row
        /\ loop[s].pc = "loop"
    BY DEF updateHeartBeat, InLoop, Timely, May
  <1>2. /\ row' \in RowRecord /\ row'.owner = row.owner /\ row'.job = row.job /\ row'.hb <= row.hb
    BY <1>1 DEF Inv, Typed, RowRecord
  <1>3. /\ loop' \in [Server -> LoopRecord] /\ loop'[s].quiet = 0
        /\ \A t \in Server : loop'[t].pc = loop[t].pc /\ loop'[t].id = loop[t].id
        /\ \A t \in Server \ {s} : loop'[t] = loop[t]
    <2> DEFINE new == [loop[s] EXCEPT !.lag = 0, !.quiet = 0]
    <2>1. loop[s] \in LoopRecord /\ loop \in [Server -> LoopRecord]  BY DEF Inv, Typed
    <2>2. new \in LoopRecord /\ new.quiet = 0 /\ new.pc = loop[s].pc /\ new.id = loop[s].id
      BY <2>1, Constants DEF LoopRecord
    <2>3. loop' = [loop EXCEPT ![s] = new]  BY <1>1, <2>1
    <2> HIDE DEF new
    <2> QED  BY <2>1, <2>2, <2>3
  <1>4. Typed'  BY <1>1, <1>2, <1>3 DEF Inv, Typed, JobRecord, StatusRecord
  <1>5. \A t \in Server : \A j \in JobID : Holds(t, j)' <=> Holds(t, j)
    BY <1>1, <1>3 DEF Holds
  <1>6. Placed'  BY <1>1, <1>2, <1>3, <1>5 DEF Inv, Placed
  <1>7. Owned'
    <2> SUFFICES ASSUME Timely, NEW t \in Server, NEW j \in JobID, Holds(t, j)
                 PROVE  /\ row'.owner = t /\ row'.job = j
                        /\ row'.hb <= loop'[t].quiet + MaxLag
                        /\ job[t] # NoJob => cache[t].owner = t
      BY <1>1, <1>5 DEF Owned, Timely
    <2>1. /\ row.owner = t /\ row.job = j /\ row.hb <= loop[t].quiet + MaxLag
          /\ job[t] # NoJob => cache[t].owner = t
      BY DEF Inv, Owned
    <2>2. row'.hb <= loop'[t].quiet + MaxLag
      <3>1. CASE t # s
        BY <1>2, <1>3, <2>1, <3>1, Constants DEF Inv, Typed, RowRecord, LoopRecord
      <3>2. CASE t = s
        <4>1. job[s] # NoJob  BY <1>1, <3>2, Constants DEF Inv, Placed, Holds, NoJob
        <4>2. row'.hb = 0  BY <1>1, <2>1, <3>2, <4>1 DEF localJob, Inv, Typed, RowRecord
        <4> QED  BY <1>3, <3>2, <4>2, Constants
      <3> QED  BY <3>1, <3>2
    <2> QED  BY <1>2, <2>1, <2>2
  <1> QED  BY <1>4, <1>6, <1>7 DEF Inv

\* Steps that leave the loop in a round of its own, or in the next one, and the jobs where they are.
LEMMA RoundKept ==
    ASSUME Inv, NEW s \in Server, loop[s].pc # "locked", NextRound(s), UNCHANGED <<setup, up, row, cache>>,
           job' \in [Server -> JobRecord]',
           \A t \in Server : job'[t].id = job[t].id /\ (job'[t] = NoJob <=> job[t] = NoJob)
    PROVE  Inv'
  <1>1. /\ loop' \in [Server -> LoopRecord]
        /\ loop'[s].pc = "loop" /\ loop'[s].id = None /\ loop'[s].quiet = loop[s].quiet
        /\ \A t \in Server \ {s} : loop'[t] = loop[t]
    BY RoundTyped DEF Inv
  <1>2. loop[s].id = None /\ loop[s].pc \in {"loop", "schedule"}
    BY DEF Inv, Placed, Typed, LoopRecord
  <1> QED  BY <1>1, <1>2, Kept

\* Counting finished tasks keeps the record of a job.
LEMMA Counted ==
    ASSUME Typed, NEW s \in Server, NEW n \in Nat, UNCHANGED setup, job[s] # NoJob => job[s].id # None,
           job' = IF job[s] = NoJob THEN job ELSE [job EXCEPT ![s].done = @ + n]
    PROVE  /\ job' \in [Server -> JobRecord]'
           /\ \A t \in Server : job'[t].id = job[t].id /\ (job'[t] = NoJob <=> job[t] = NoJob)
  <1>1. CASE job[s] = NoJob  BY <1>1 DEF Typed, JobRecord
  <1>2. CASE job[s] # NoJob
    <2> DEFINE new == [job[s] EXCEPT !.done = @ + n]
    <2>1. job[s] \in JobRecord  BY DEF Typed
    <2>2. new \in JobRecord /\ new.id = job[s].id  BY <2>1 DEF JobRecord
    <2>3. new # NoJob  BY <1>2, <2>2 DEF NoJob
    <2>4. job' = [job EXCEPT ![s] = new]  BY <1>2 DEF Typed
    <2> HIDE DEF new
    <2>5. job' \in [Server -> JobRecord]  BY <2>2, <2>4 DEF Typed
    <2> QED  BY <1>2, <2>2, <2>3, <2>4, <2>5 DEF Typed, JobRecord
  <1> QED  BY <1>1, <1>2

\* updateTaskState counts results, and leaves the job where it is.
LEMMA TaskStateInv == ASSUME Inv, NEW s \in Server, updateTaskState(s) PROVE Inv'
  <1> DEFINE W == {w \in Scanner : scan[s][w].pc = "result"}
  <1>1. /\ UNCHANGED <<setup, up, row, cache>> /\ loop[s].pc = "loop"
        /\ job' = IF job[s] = NoJob THEN job ELSE [job EXCEPT ![s].done = @ + Cardinality(W)]
        /\ loop' = [loop EXCEPT ![s].pc = "schedule"]
    BY DEF updateTaskState, InLoop
  <1>2. W \subseteq Scanner /\ IsFiniteSet(Scanner)  BY TTLAssumption
  <1>3. Cardinality(W) \in Nat  BY <1>2, FS_Subset, FS_CardinalityType
  <1> HIDE DEF W
  <1>4. Typed /\ (job[s] # NoJob => job[s].id # None)  BY DEF Inv, Placed
  <1>5. /\ job' \in [Server -> JobRecord]'
        /\ \A t \in Server : job'[t].id = job[t].id /\ (job'[t] = NoJob <=> job[t] = NoJob)
    BY <1>1, <1>3, <1>4, Counted
  <1>6. /\ loop' \in [Server -> LoopRecord]
        /\ \A t \in Server : /\ loop'[t].quiet = loop[t].quiet /\ loop'[t].id = loop[t].id
                             /\ loop'[t].pc = loop[t].pc \/ {loop[t].pc, loop'[t].pc} \subseteq {"loop", "schedule"}
    BY <1>1 DEF Inv, Typed, LoopRecord
  <1> QED  BY <1>1, <1>5, <1>6, Kept

\* rescheduleJobs gives tasks of the job that the server has to idle workers.
LEMMA RescheduleInv == ASSUME Inv, NEW s \in Server, rescheduleLocal(s) PROVE Inv'
  <1>1. /\ UNCHANGED <<setup, up, row, cache>> /\ NextRound(s) /\ loop[s].pc # "locked"
        /\ Spawn(s, job[s]) /\ job[s] # NoJob
    BY DEF rescheduleLocal, Scheduling, localJob
  <1>2. Typed /\ job[s] \in JobRecord /\ job[s].id # None  BY <1>1 DEF Inv, Typed, Placed
  <1>3. /\ job' \in [Server -> JobRecord]' /\ job'[s].id = job[s].id
        /\ \A t \in Server \ {s} : job'[t] = job[t]
    BY <1>1, <1>2, SpawnEffect
  <1>4. \A t \in Server : job'[t].id = job[t].id /\ (job'[t] = NoJob <=> job[t] = NoJob)
    BY <1>1, <1>2, <1>3 DEF NoJob
  <1> QED  BY <1>1, <1>3, <1>4, RoundKept

\* A round of rescheduleJobs with nothing to do.
LEMMA NothingInv == ASSUME Inv, NEW s \in Server, NothingToSchedule(s) PROVE Inv'
  <1>1. UNCHANGED <<setup, up, row, cache, job>> /\ NextRound(s) /\ loop[s].pc # "locked"
    BY DEF NothingToSchedule, Scheduling
  <1>2. job' \in [Server -> JobRecord]'  BY <1>1 DEF Inv, Typed, JobRecord
  <1> QED  BY <1>1, <1>2, RoundKept

\* resizeScanWorkers counts the task of a stopped worker as finished.
LEMMA ResizeScanInv ==
    ASSUME Inv, NEW s \in Server, NEW w \in Scanner, resizeScanWorkers(s, w) PROVE Inv'
  <1>1. /\ UNCHANGED <<setup, up, row, cache>> /\ NextRound(s) /\ loop[s].pc # "locked"
        /\ job' = job \/ job' = IF job[s] = NoJob THEN job ELSE [job EXCEPT ![s].done = @ + 1]
    BY DEF resizeScanWorkers, InLoop
  <1>2. Typed /\ (job[s] # NoJob => job[s].id # None)  BY DEF Inv, Placed
  <1>3. /\ job' \in [Server -> JobRecord]'
        /\ \A t \in Server : job'[t].id = job[t].id /\ (job'[t] = NoJob <=> job[t] = NoJob)
    <2>1. CASE job' = job  BY <1>1, <1>2, <2>1 DEF Typed, JobRecord
    <2>2. CASE job' = IF job[s] = NoJob THEN job ELSE [job EXCEPT ![s].done = @ + 1]
      BY <1>1, <1>2, <2>2, Counted
    <2> QED  BY <1>1, <2>1, <2>2
  <1> QED  BY <1>1, <1>3, RoundKept

\* resizeDelWorkers touches only the workers and the statistics.
LEMMA ResizeDelInv ==
    ASSUME Inv, NEW s \in Server, NEW d \in Deleter, resizeDelWorkers(s, d) PROVE Inv'
  <1>1. UNCHANGED <<setup, up, row, cache, job>> /\ NextRound(s) /\ loop[s].pc # "locked"
    BY DEF resizeDelWorkers, InLoop
  <1>2. job' \in [Server -> JobRecord]'  BY <1>1 DEF Inv, Typed, JobRecord
  <1> QED  BY <1>1, <1>2, RoundKept

\* A row that is held by a server whose heartbeats are in time is not to be scheduled: this is
\* where the interval of couldTrySchedule is twice that of the loop.
LEMMA HeldIsFresh ==
    ASSUME Inv, Timely, NEW t \in Server, NEW j \in JobID, Holds(t, j), NEW lag \in 0 .. MaxLag
    PROVE  ~couldTrySchedule(row, lag)
  <1>1. row.owner = t /\ row.hb <= loop[t].quiet + MaxLag /\ row.owner # None
    BY Constants DEF Inv, Owned
  <1>2. row.hb \in Nat /\ loop[t].quiet \in 0 .. MaxLag  BY DEF Inv, Typed, RowRecord, LoopRecord
  <1>3. ~(row.hb - lag > Expire)  BY <1>1, <1>2, Constants
  <1> QED  BY <1>1, <1>3 DEF couldTrySchedule

\* What lockNewJob does to the row and the loop, and when.
LEMMA LockEffect ==
    ASSUME Inv, NEW s \in Server, lockNewJob(s)
    PROVE  /\ UNCHANGED <<setup, up, cache, job>> /\ up[s] = "up" /\ job[s] = NoJob /\ loop[s].pc # "locked"
           /\ couldTrySchedule(row, loop[s].lag)
           /\ \E j \in JobID :
                /\ \A t \in Server : ~Holds(t, j)
                /\ row' = [job |-> j, owner |-> s, hb |-> loop[s].lag, last |-> None]
                /\ \/ loop' = [loop EXCEPT ![s] = [@ EXCEPT !.pc = "locked", !.id = j]]
                   \/ NextRound(s)
  <1>1. PICK j \in Unused :
            /\ row' = [job |-> j, owner |-> s, hb |-> loop[s].lag, last |-> None]
            /\ \/ loop' = [loop EXCEPT ![s] = [@ EXCEPT !.pc = "locked", !.id = j]]
               \/ NextRound(s)
    BY DEF lockNewJob
  <1>2. j \in JobID /\ \A t \in Server : job[t].id # j /\ loop[t].id # j  BY DEF Unused
  <1>3. \A t \in Server : ~Holds(t, j)  BY <1>2 DEF Holds
  <1> QED  BY <1>1, <1>2, <1>3 DEF lockNewJob, CanTry, Scheduling

\* lockNewJob takes a row that nobody holds, unless heartbeats are late.
LEMMA LockInv == ASSUME Inv, NEW s \in Server, lockNewJob(s) PROVE Inv'
  <1>1. /\ UNCHANGED <<setup, up, cache, job>> /\ up[s] = "up" /\ job[s] = NoJob /\ loop[s].pc # "locked"
        /\ couldTrySchedule(row, loop[s].lag)
    BY LockEffect
  <1>2. PICK j \in JobID :
            /\ \A t \in Server : ~Holds(t, j)
            /\ row' = [job |-> j, owner |-> s, hb |-> loop[s].lag, last |-> None]
            /\ \/ loop' = [loop EXCEPT ![s] = [@ EXCEPT !.pc = "locked", !.id = j]]
               \/ NextRound(s)
    BY LockEffect
  <1>3. loop[s] \in LoopRecord /\ loop \in [Server -> LoopRecord] /\ loop[s].lag \in 0 .. MaxLag
        /\ loop[s].quiet \in 0 .. MaxLag
    BY DEF Inv, Typed, LoopRecord
  <1>4. /\ loop' \in [Server -> LoopRecord]
        /\ loop'[s].quiet = loop[s].quiet
        /\ \/ loop'[s].pc = "locked" /\ loop'[s].id = j
           \/ loop'[s].pc = "loop" /\ loop'[s].id = None
        /\ \A t \in Server \ {s} : loop'[t] = loop[t]
    <2>1. CASE NextRound(s)  BY <2>1, RoundTyped DEF Inv
    <2>2. CASE loop' = [loop EXCEPT ![s] = [@ EXCEPT !.pc = "locked", !.id = j]]
      <3> DEFINE new == [loop[s] EXCEPT !.pc = "locked", !.id = j]
      <3>1. new \in LoopRecord /\ new.pc = "locked" /\ new.id = j /\ new.quiet = loop[s].quiet
        BY <1>3 DEF LoopRecord, JobOrNone
      <3>2. loop' = [loop EXCEPT ![s] = new]  BY <1>3, <2>2
      <3> HIDE DEF new
      <3> QED  BY <1>3, <3>1, <3>2
    <2> QED  BY <1>2, <2>1, <2>2
  <1>5. row' \in RowRecord /\ row'.job = j /\ row'.owner = s /\ row'.hb = loop[s].lag
    BY <1>2, <1>3 DEF RowRecord, JobOrNone, OwnerOrNone
  <1>6. Typed'  BY <1>1, <1>4, <1>5 DEF Inv, Typed, StatusRecord, JobRecord
  <1>7. \A t \in Server : \A k \in JobID : Holds(t, k)' => Holds(t, k) \/ (t = s /\ k = j)
    BY <1>1, <1>4 DEF Holds
  <1>8. Placed'
    <2>1. j # None /\ s # None  BY Constants
    <2>2. row'.job # None /\ row'.owner # None  BY <1>5, <2>1
    <2>3. \A t \in Server :
            /\ job'[t] # NoJob => job'[t].id # None
            /\ loop'[t].id # None <=> loop'[t].pc = "locked"
            /\ loop'[t].pc = "locked" => job'[t] = NoJob
            /\ up'[t] # "up" => job'[t] = NoJob /\ loop'[t].pc # "locked"
      BY <1>1, <1>4, <2>1 DEF Inv, Placed
    <2>4. \A t, u \in Server : \A k \in JobID : Holds(t, k)' /\ Holds(u, k)' => t = u
      BY <1>2, <1>7 DEF Inv, Placed
    <2> QED  BY <2>2, <2>3, <2>4 DEF Placed
  <1>9. Owned'
    <2> SUFFICES ASSUME Timely, NEW t \in Server, NEW k \in JobID, Holds(t, k)'
                 PROVE  /\ row'.owner = t /\ row'.job = k
                        /\ row'.hb <= loop'[t].quiet + MaxLag
                        /\ job'[t] # NoJob => cache'[t].owner = t
      BY <1>1 DEF Owned, Timely
    <2>1. ~Holds(t, k)  BY <1>1, <1>3, HeldIsFresh
    <2>2. t = s /\ k = j  BY <1>7, <2>1
    <2>3. row'.hb <= loop'[s].quiet + MaxLag  BY <1>3, <1>4, <1>5, Constants
    <2> QED  BY <1>1, <1>5, <2>2, <2>3
  <1> QED  BY <1>6, <1>8, <1>9 DEF Inv

\* createNewJob turns the lock into a job of the same server, which its new cache shows.
LEMMA CreateInv == ASSUME Inv, NEW s \in Server, createNewJob(s) PROVE Inv'
  <1> DEFINE new == [id |-> loop[s].id, age |-> loop[s].lag, iter |-> 0, done |-> 0]
  <1>1. /\ UNCHANGED <<setup, up, row>> /\ up[s] = "up" /\ loop[s].pc = "locked" /\ NextRound(s)
        /\ \/ cache' = [cache EXCEPT ![s] = Status(row)] /\ Spawn(s, new)
           \/ cache' \in {cache, [cache EXCEPT ![s] = Status(row)]} /\ job' = job
    BY DEF createNewJob
  <1>2. /\ loop' \in [Server -> LoopRecord]
        /\ loop'[s].pc = "loop" /\ loop'[s].id = None /\ loop'[s].quiet = loop[s].quiet
        /\ \A t \in Server \ {s} : loop'[t] = loop[t]
    BY <1>1, RoundTyped DEF Inv
  <1>3. loop[s].id # None /\ job[s] = NoJob /\ loop[s].id \in JobID /\ loop[s].lag \in Nat
    BY <1>1, Constants DEF Inv, Placed, Typed, LoopRecord, JobOrNone
  <1>4. /\ cache' \in [Server -> StatusRecord]
        /\ cache'[s].owner \in {cache[s].owner, row.owner}
        /\ \A t \in Server \ {s} : cache'[t] = cache[t]
    <2>1. Status(row) \in StatusRecord /\ Status(row).owner = row.owner
      BY DEF Inv, Typed, Status, RowRecord, StatusRecord
    <2>2. cache \in [Server -> StatusRecord] /\ cache' \in {cache, [cache EXCEPT ![s] = Status(row)]}
      BY <1>1 DEF Inv, Typed
    <2> QED  BY <2>1, <2>2
  <1>5. /\ job' \in [Server -> JobRecord]'
        /\ job'[s] = NoJob \/ (job'[s].id = loop[s].id /\ cache' = [cache EXCEPT ![s] = Status(row)])
        /\ \A t \in Server \ {s} : job'[t] = job[t]
    <2>1. CASE cache' = [cache EXCEPT ![s] = Status(row)] /\ Spawn(s, new)
      <3>1. setup.tasks \in Nat  BY TTLAssumption DEF Inv, Typed
      <3>2. new \in JobRecord /\ new.id = loop[s].id
        BY <1>3, <3>1 DEF JobRecord, JobOrNone
      <3> HIDE DEF new
      <3>3. Typed /\ Spawn(s, new) /\ UNCHANGED setup  BY <1>1, <2>1 DEF Inv
      <3>4. job' \in [Server -> JobRecord]' /\ job'[s].id = new.id /\ \A t \in Server \ {s} : job'[t] = job[t]
        BY <3>2, <3>3, SpawnEffect
      <3> QED  BY <2>1, <3>2, <3>4
    <2>2. CASE job' = job  BY <1>1, <1>3, <2>2 DEF Inv, Typed, JobRecord
    <2> QED  BY <1>1, <2>1, <2>2
  <1> HIDE DEF new
  <1>6. Typed'  BY <1>1, <1>2, <1>4, <1>5 DEF Inv, Typed, RowRecord
  <1>7. \A t \in Server : \A k \in JobID : Holds(t, k)' => Holds(t, k)
    BY <1>2, <1>3, <1>5, Constants DEF Holds, NoJob
  <1>8. Placed'
    <2>1. \A t \in Server :
            /\ job'[t] # NoJob => job'[t].id # None
            /\ loop'[t].id # None <=> loop'[t].pc = "locked"
            /\ loop'[t].pc = "locked" => job'[t] = NoJob
            /\ up'[t] # "up" => job'[t] = NoJob /\ loop'[t].pc # "locked"
      BY <1>1, <1>2, <1>3, <1>5 DEF Inv, Placed
    <2>2. \A t, u \in Server : \A k \in JobID : Holds(t, k)' /\ Holds(u, k)' => t = u
      BY <1>7 DEF Inv, Placed
    <2> QED  BY <1>1, <2>1, <2>2 DEF Inv, Placed
  <1>9. Owned'
    <2> SUFFICES ASSUME Timely, NEW t \in Server, NEW k \in JobID, Holds(t, k)'
                 PROVE  /\ row.owner = t /\ row.job = k
                        /\ row.hb <= loop'[t].quiet + MaxLag
                        /\ job'[t] # NoJob => cache'[t].owner = t
      BY <1>1 DEF Owned, Timely
    <2>1. /\ row.owner = t /\ row.job = k /\ row.hb <= loop[t].quiet + MaxLag
          /\ job[t] # NoJob => cache[t].owner = t
      BY <1>7 DEF Inv, Owned
    <2>2. loop'[t].quiet = loop[t].quiet  BY <1>2
    <2>3. job'[t] # NoJob => cache'[t].owner = t
      <3>1. CASE t # s  BY <1>4, <1>5, <2>1, <3>1
      <3>2. CASE t = s  BY <1>5, <2>1, <3>2 DEF Inv, Typed, Status
      <3> QED  BY <3>1, <3>2
    <2> QED  BY <2>1, <2>2, <2>3
  <1> QED  BY <1>6, <1>8, <1>9 DEF Inv

\* What checkFinishedJob and checkNotOwnJob do to the row and the jobs.
LEMMA CheckEffect ==
    ASSUME Inv, NEW s \in Server, checkJobs(s)
    PROVE  /\ UNCHANGED <<setup, up, cache>> /\ NextRound(s) /\ loop[s].pc = "loop" /\ job[s] # NoJob
           /\ job' = [job EXCEPT ![s] = NoJob]
           /\ \/ row' = row
              \/ row.job = job[s].id /\ row' = [job |-> None, owner |-> None, hb |-> 0, last |-> 0]
  <1>1. /\ UNCHANGED <<setup, up, cache>> /\ NextRound(s) /\ loop[s].pc = "loop" /\ job[s] # NoJob
        /\ job' = [job EXCEPT ![s] = NoJob] /\ (finish(s) \/ row' = row)
    BY DEF checkJobs, InLoop
  <1> QED  BY <1>1 DEF finish

\* The end of a job releases the row of that job only.
LEMMA CheckInv == ASSUME Inv, NEW s \in Server, checkJobs(s) PROVE Inv'
  <1>1. /\ UNCHANGED <<setup, up, cache>> /\ NextRound(s) /\ loop[s].pc = "loop" /\ job[s] # NoJob
        /\ job' = [job EXCEPT ![s] = NoJob]
        /\ \/ row' = row
           \/ row.job = job[s].id /\ row' = [job |-> None, owner |-> None, hb |-> 0, last |-> 0]
    BY CheckEffect
  <1>2. /\ loop' \in [Server -> LoopRecord]
        /\ loop'[s].pc = "loop" /\ loop'[s].id = None /\ loop'[s].quiet = loop[s].quiet
        /\ \A t \in Server \ {s} : loop'[t] = loop[t]
    BY <1>1, RoundTyped DEF Inv
  <1>3. /\ job' \in [Server -> JobRecord]' /\ job'[s] = NoJob /\ job'[s].id = None
        /\ \A t \in Server \ {s} : job'[t] = job[t]
    <2>1. setup.tasks \in Nat  BY TTLAssumption DEF Inv, Typed
    <2>2. NoJob \in JobRecord  BY <2>1 DEF NoJob, JobRecord, JobOrNone
    <2>3. job' \in [Server -> JobRecord]  BY <1>1, <2>2 DEF Inv, Typed
    <2>4. job' \in [Server -> JobRecord]'  BY <1>1, <2>3 DEF JobRecord
    <2> QED  BY <1>1, <2>4 DEF Inv, Typed, NoJob
  <1>4. row' \in RowRecord /\ (row'.job = None <=> row'.owner = None)
    BY <1>1 DEF Inv, Placed, Typed, RowRecord, JobOrNone, OwnerOrNone
  <1>5. Typed'  BY <1>1, <1>2, <1>3, <1>4 DEF Inv, Typed, StatusRecord
  <1>6. \A t \in Server : \A k \in JobID : Holds(t, k)' => Holds(t, k) /\ t # s
    BY <1>2, <1>3, Constants DEF Holds
  <1>7. Placed'
    <2>1. \A t \in Server :
            /\ job'[t] # NoJob => job'[t].id # None
            /\ loop'[t].id # None <=> loop'[t].pc = "locked"
            /\ loop'[t].pc = "locked" => job'[t] = NoJob
            /\ up'[t] # "up" => job'[t] = NoJob /\ loop'[t].pc # "locked"
      BY <1>1, <1>2, <1>3 DEF Inv, Placed
    <2>2. \A t, u \in Server : \A k \in JobID : Holds(t, k)' /\ Holds(u, k)' => t = u
      BY <1>6 DEF Inv, Placed
    <2> QED  BY <1>4, <2>1, <2>2 DEF Placed
  <1>8. Owned'
    <2> SUFFICES ASSUME Timely, NEW t \in Server, NEW k \in JobID, Holds(t, k)'
                 PROVE  /\ row'.owner = t /\ row'.job = k
                        /\ row'.hb <= loop'[t].quiet + MaxLag
                        /\ job'[t] # NoJob => cache'[t].owner = t
      BY <1>1 DEF Owned, Timely
    <2>1. Holds(t, k) /\ t # s  BY <1>6
    <2>2. /\ row.owner = t /\ row.job = k /\ row.hb <= loop[t].quiet + MaxLag
          /\ job[t] # NoJob => cache[t].owner = t
      BY <2>1 DEF Inv, Owned
    <2>3. row' = row
      <3>1. CASE row.job = job[s].id
        <4>1. Holds(s, k)  BY <2>1, <2>2, <3>1 DEF Holds
        <4> QED  BY <2>1, <4>1 DEF Inv, Placed
      <3> QED  BY <1>1, <3>1
    <2> QED  BY <1>1, <1>2, <1>3, <2>1, <2>2, <2>3
  <1> QED  BY <1>5, <1>7, <1>8 DEF Inv

\* A server that stops forgets its job, and the row keeps it.
LEMMA StopInv == ASSUME Inv, NEW s \in Server, Stop(s) PROVE Inv'
  <1>1. /\ UNCHANGED <<setup, row>> /\ up' = [up EXCEPT ![s] = "down"]
        /\ cache' = [cache EXCEPT ![s] = Status(NoRow)]
        /\ loop' = [loop EXCEPT ![s] = NewLoop] /\ job' = [job EXCEPT ![s] = NoJob]
    BY DEF Stop
  <1>2. setup.tasks \in Nat  BY TTLAssumption DEF Inv, Typed
  <1>3. /\ NoJob \in JobRecord /\ NoJob.id = None
        /\ NewLoop \in LoopRecord /\ NewLoop.id = None /\ NewLoop.pc = "loop"
        /\ Status(NoRow) \in StatusRecord
    BY <1>2, Constants DEF NoJob, JobRecord, JobOrNone, NewLoop, LoopRecord, Status, NoRow, StatusRecord, OwnerOrNone
  <1>4. /\ job' \in [Server -> JobRecord] /\ loop' \in [Server -> LoopRecord] /\ cache' \in [Server -> StatusRecord]
        /\ up' \in [Server -> {"new", "up", "down"}]
        /\ job'[s] = NoJob /\ loop'[s] = NewLoop /\ up'[s] = "down"
        /\ \A t \in Server \ {s} : job'[t] = job[t] /\ loop'[t] = loop[t] /\ cache'[t] = cache[t] /\ up'[t] = up[t]
    BY <1>1, <1>3 DEF Inv, Typed
  <1>5. Typed'  BY <1>1, <1>4 DEF Inv, Typed, RowRecord, JobRecord
  <1>6. \A t \in Server : \A k \in JobID : Holds(t, k)' => Holds(t, k) /\ t # s
    BY <1>3, <1>4, Constants DEF Holds
  <1>7. Placed'
    <2>1. \A t \in Server :
            /\ job'[t] # NoJob => job'[t].id # None
            /\ loop'[t].id # None <=> loop'[t].pc = "locked"
            /\ loop'[t].pc = "locked" => job'[t] = NoJob
            /\ up'[t] # "up" => job'[t] = NoJob /\ loop'[t].pc # "locked"
      BY <1>3, <1>4 DEF Inv, Placed
    <2>2. \A t, u \in Server : \A k \in JobID : Holds(t, k)' /\ Holds(u, k)' => t = u
      BY <1>6 DEF Inv, Placed
    <2> QED  BY <1>1, <2>1, <2>2 DEF Inv, Placed
  <1>8. Owned'
    <2> SUFFICES ASSUME Timely, NEW t \in Server, NEW k \in JobID, Holds(t, k)'
                 PROVE  /\ row.owner = t /\ row.job = k
                        /\ row.hb <= loop'[t].quiet + MaxLag
                        /\ job'[t] # NoJob => cache'[t].owner = t
      BY <1>1 DEF Owned, Timely
    <2> QED  BY <1>4, <1>6 DEF Inv, Owned
  <1> QED  BY <1>5, <1>7, <1>8 DEF Inv

\* A server that starts has no job yet.
LEMMA StartInv == ASSUME Inv, NEW s \in Server, Start(s) PROVE Inv'
  <1>1. UNCHANGED <<setup, row, cache, loop, job>> /\ up' = [up EXCEPT ![s] = "up"]
    BY DEF Start
  <1>2. Typed'  BY <1>1 DEF Inv, Typed, RowRecord, StatusRecord, LoopRecord, JobRecord
  <1>3. \A t \in Server : \A k \in JobID : Holds(t, k)' <=> Holds(t, k)  BY <1>1 DEF Holds
  <1>4. Placed'  BY <1>1, <1>3 DEF Inv, Placed, Typed
  <1>5. Owned'  BY <1>1, <1>3 DEF Inv, Owned, Timely
  <1> QED  BY <1>2, <1>4, <1>5 DEF Inv

\* A row, or what a cache has of one, gets older.
LEMMA AgedRecords ==
    ASSUME Typed
    PROVE  /\ AgedRow(row) \in RowRecord /\ AgedRow(row).job = row.job /\ AgedRow(row).owner = row.owner
           /\ row.owner # None => AgedRow(row).hb <= row.hb + 1
           /\ \A s \in Server : AgedRow(cache[s]) \in StatusRecord /\ AgedRow(cache[s]).owner = cache[s].owner
  <1>1. row \in RowRecord /\ row.hb \in Nat /\ row.last \in Nat \cup {None}  BY DEF Typed, RowRecord
  <1>2. Expire \in Nat /\ RunInterval \in Nat  BY Constants
  <1>3. /\ Aged(row.hb, Expire) \in Nat /\ Aged(row.hb, Expire) <= row.hb + 1
        /\ Aged(row.last, RunInterval) \in Nat \cup {None}
    BY <1>1, <1>2, AgedType
  <1>4. /\ AgedRow(row) \in RowRecord /\ AgedRow(row).job = row.job /\ AgedRow(row).owner = row.owner
        /\ row.owner # None => AgedRow(row).hb <= row.hb + 1
    BY <1>1, <1>3 DEF AgedRow, RowRecord
  <1>5. ASSUME NEW s \in Server
        PROVE  AgedRow(cache[s]) \in StatusRecord /\ AgedRow(cache[s]).owner = cache[s].owner
    <2>1. cache[s] \in StatusRecord /\ cache[s].hb \in Nat /\ cache[s].last \in Nat \cup {None}
      BY DEF Typed, StatusRecord
    <2>2. Aged(cache[s].hb, Expire) \in Nat /\ Aged(cache[s].last, RunInterval) \in Nat \cup {None}
      BY <1>2, <2>1, AgedType
    <2> QED  BY <2>1, <2>2 DEF AgedRow, StatusRecord
  <1> QED  BY <1>4, <1>5

\* Time goes on: the row of a job gets older no faster than its owner's loop has been quiet.
LEMMA TickInv == ASSUME Inv, Tick PROVE Inv'
  <1>1. /\ UNCHANGED <<setup, up>> /\ row' = AgedRow(row) /\ cache' = [s \in Server |-> AgedRow(cache[s])]
        /\ loop' = [s \in Server |-> IF up[s] = "up"
              THEN [loop[s] EXCEPT !.lag = @ + 1, !.quiet = IF May("slow") THEN 0 ELSE @ + 1] ELSE loop[s]]
        /\ job' = [s \in Server |-> IF job[s] = NoJob THEN NoJob ELSE [job[s] EXCEPT !.age = Aged(@, JobTimeout)]]
        /\ \A s \in Server : up[s] = "up" => loop[s].lag < MaxLag /\ (loop[s].quiet < MaxLag \/ May("slow"))
    BY DEF Tick
  <1>2. Typed  BY DEF Inv
  <1>3. /\ row' \in RowRecord /\ row'.job = row.job /\ row'.owner = row.owner
        /\ row.owner # None => row'.hb <= row.hb + 1
        /\ \A s \in Server : cache'[s] \in StatusRecord /\ cache'[s].owner = cache[s].owner
    BY <1>1, <1>2, AgedRecords
  <1>4. ASSUME NEW s \in Server
        PROVE  /\ loop'[s] \in LoopRecord /\ loop'[s].pc = loop[s].pc /\ loop'[s].id = loop[s].id
               /\ up[s] = "up" /\ ~May("slow") => loop'[s].quiet = loop[s].quiet + 1
    <2>1. loop[s] \in LoopRecord  BY <1>2 DEF Typed
    <2>2. CASE up[s] # "up"  BY <1>1, <2>1, <2>2
    <2>3. CASE up[s] = "up"
      <3> DEFINE q == IF May("slow") THEN 0 ELSE loop[s].quiet + 1
                 new == [loop[s] EXCEPT !.lag = @ + 1, !.quiet = q]
      <3>1. loop[s].lag + 1 \in 0 .. MaxLag /\ q \in 0 .. MaxLag
        <4>1. loop[s].lag < MaxLag /\ (loop[s].quiet < MaxLag \/ May("slow"))  BY <1>1, <2>3
        <4>2. loop[s].lag \in 0 .. MaxLag /\ loop[s].quiet \in 0 .. MaxLag  BY <2>1 DEF LoopRecord
        <4> QED  BY <4>1, <4>2, Constants
      <3>2. loop'[s] = new  BY <1>1, <2>3
      <3>3. ~May("slow") => q = loop[s].quiet + 1  OBVIOUS
      <3> HIDE DEF q
      <3>4. new \in LoopRecord /\ new.pc = loop[s].pc /\ new.id = loop[s].id /\ new.quiet = q
        BY <2>1, <3>1 DEF LoopRecord
      <3> QED  BY <3>2, <3>3, <3>4
    <2> QED  BY <2>2, <2>3
  <1>5. ASSUME NEW s \in Server
        PROVE  job'[s] \in JobRecord /\ job'[s].id = job[s].id /\ (job'[s] = NoJob <=> job[s] = NoJob)
    <2>1. job[s] \in JobRecord /\ (job[s] # NoJob => job[s].id # None)  BY DEF Inv, Typed, Placed
    <2>2. CASE job[s] = NoJob  BY <1>1, <2>1, <2>2
    <2>3. CASE job[s] # NoJob
      <3> DEFINE a == Aged(job[s].age, JobTimeout)
                 new == [job[s] EXCEPT !.age = a]
      <3>1. job[s].age \in Nat /\ JobTimeout \in Nat  BY <2>1, Constants DEF JobRecord
      <3>2. a \in Nat  BY <3>1, AgedType
      <3>3. job'[s] = new  BY <1>1, <2>3
      <3> HIDE DEF a
      <3>4. new \in JobRecord /\ new.id = job[s].id  BY <2>1, <3>2 DEF JobRecord
      <3> QED  BY <2>1, <2>3, <3>3, <3>4 DEF NoJob
    <2> QED  BY <2>2, <2>3
  <1>6. Typed'
    <2>1. loop' \in [Server -> LoopRecord]  BY <1>1, <1>4
    <2>2. job' \in [Server -> JobRecord]  BY <1>1, <1>5
    <2>3. cache' \in [Server -> StatusRecord]  BY <1>1, <1>3
    <2> QED  BY <1>1, <1>2, <1>3, <2>1, <2>2, <2>3 DEF Typed, JobRecord
  <1>7. \A t \in Server : \A k \in JobID : Holds(t, k)' <=> Holds(t, k)
    BY <1>4, <1>5 DEF Holds
  <1>8. Placed'
    <2>1. UNCHANGED up  BY <1>1
    <2>2. row'.job = None <=> row'.owner = None  BY <1>3 DEF Inv, Placed
    <2>3. \A t \in Server :
            /\ job'[t] # NoJob => job'[t].id # None
            /\ loop'[t].id # None <=> loop'[t].pc = "locked"
            /\ loop'[t].pc = "locked" => job'[t] = NoJob
            /\ up'[t] # "up" => job'[t] = NoJob /\ loop'[t].pc # "locked"
      BY <1>4, <1>5, <2>1 DEF Inv, Placed
    <2>4. \A t, u \in Server : \A k \in JobID : Holds(t, k)' /\ Holds(u, k)' => t = u
      BY <1>7 DEF Inv, Placed
    <2> QED  BY <2>2, <2>3, <2>4 DEF Placed
  <1>9. Owned'
    <2> SUFFICES ASSUME Timely, NEW t \in Server, NEW k \in JobID, Holds(t, k)
                 PROVE  /\ row'.owner = t /\ row'.job = k
                        /\ row'.hb <= loop'[t].quiet + MaxLag
                        /\ job'[t] # NoJob => cache'[t].owner = t
      BY <1>1, <1>7 DEF Owned, Timely
    <2>1. /\ row.owner = t /\ row.job = k /\ row.hb <= loop[t].quiet + MaxLag
          /\ job[t] # NoJob => cache[t].owner = t
      BY DEF Inv, Owned
    <2>2. up[t] = "up"  BY Constants DEF Inv, Placed, Holds, NoJob
    <2>3. loop'[t].quiet = loop[t].quiet + 1  BY <1>4, <2>2 DEF Timely, May
    <2>4. row'.hb <= row.hb + 1  BY <1>3, <2>1, Constants
    <2>5. row'.hb <= loop'[t].quiet + MaxLag
      BY <1>2, <1>3, <2>1, <2>3, <2>4, Constants DEF Typed, RowRecord, LoopRecord
    <2> QED  BY <1>3, <1>5, <2>1, <2>5
  <1> QED  BY <1>6, <1>8, <1>9 DEF Inv

\* Scan and delete workers touch nothing that the managers decide by.
LEMMA WorkerInv == ASSUME Inv, UNCHANGED <<setup, up, row, cache, loop, job>> PROVE Inv'
  <1>1. loop' \in [Server -> LoopRecord] /\ job' \in [Server -> JobRecord]'
    BY DEF Inv, Typed, JobRecord
  <1> QED  BY <1>1, Kept

\* Every step keeps the invariant.
LEMMA NextInv == Inv /\ [Next]_vars => Inv'
  <1> SUFFICES ASSUME Inv, [Next]_vars PROVE Inv'  OBVIOUS
  <1>1. CASE UNCHANGED vars  BY <1>1, WorkerInv DEF vars
  <1>2. CASE Tick  BY <1>2, TickInv
  <1>3. ASSUME NEW s \in Server, NEW w \in Scanner,
               doScan(s, w) \/ IncTotalRows(s, w) \/ \E d \in Deleter : SendDelTask(s, w, d)
        PROVE  Inv'
    <2>1. UNCHANGED <<setup, up, row, cache, loop, job>>  BY <1>3 DEF doScan, IncTotalRows, SendDelTask
    <2> QED  BY <2>1, WorkerInv
  <1>4. ASSUME NEW s \in Server, NEW d \in Deleter, doDelete(s, d) \/ recordRetryItem(s, d) \/ DoRetry(s, d)
        PROVE  Inv'
    <2>1. UNCHANGED <<setup, up, row, cache, loop, job>>  BY <1>4 DEF doDelete, recordRetryItem, DoRetry
    <2> QED  BY <2>1, WorkerInv
  <1>5. ASSUME NEW s \in Server,
               \/ updateTableStatusCache(s) \/ updateHeartBeat(s) \/ updateTaskState(s)
               \/ rescheduleLocal(s) \/ lockNewJob(s) \/ NothingToSchedule(s) \/ createNewJob(s) \/ checkJobs(s)
               \/ Start(s) \/ Stop(s)
        PROVE  Inv'
    BY <1>5, CacheInv, HeartBeatInv, TaskStateInv, RescheduleInv, LockInv, NothingInv, CreateInv, CheckInv,
      StartInv, StopInv
  <1>6. CASE Next
    BY <1>2, <1>3, <1>4, <1>5, <1>6, ResizeScanInv, ResizeDelInv DEF Next
  <1> QED  BY <1>1, <1>6

\* The invariant of the managers.
THEOREM Managers == Spec => []Inv
  <1>1. Inv /\ [Next]_vars => Inv'  BY NextInv
  <1> QED  BY InitInv, <1>1, PTL DEF Spec

\* A server that keeps its heartbeat going and takes a job for its own (localJobs) is right, however
\* many servers schedule, stop and start: it is the owner of the row, and the row is about that job.
THEOREM Ownership == Spec => []OneOwner
  <1>1. Inv => OneOwner
    <2> SUFFICES ASSUME Inv, Timely, NEW s \in Server, localJob(s)
                 PROVE  row.owner = s /\ row.job = job[s].id
      BY DEF OneOwner
    <2>1. job[s].id \in JobID /\ Holds(s, job[s].id)
      BY DEF localJob, Inv, Placed, Typed, JobRecord, JobOrNone, Holds
    <2> QED  BY <2>1 DEF Inv, Owned
  <1> QED  BY Managers, <1>1, PTL

\* The job of the row is replaced or released only when its heartbeat is too old, or when no server
\* runs it: lockNewJob looks again in its transaction, and finish compares the job ID.
THEOREM TakeOver == Spec => NotTakenAway
  <1> DEFINE A == row.job # None /\ row'.job # row.job =>
                    row.hb > Expire \/ \A s \in Server : job'[s].id # row.job
  <1>1. ASSUME Inv, [Next]_vars PROVE A
    <2> SUFFICES ASSUME row.job # None, row'.job # row.job
                 PROVE  row.hb > Expire \/ \A s \in Server : job'[s].id # row.job
      OBVIOUS
    <2>1. CASE \E s \in Server : lockNewJob(s)
      <3>1. PICK s \in Server : lockNewJob(s)  BY <2>1
      <3>2. couldTrySchedule(row, loop[s].lag)  BY <1>1, <3>1, LockEffect
      <3>3. row.owner # None /\ row.hb \in Nat /\ loop[s].lag \in 0 .. MaxLag
        BY <1>1 DEF Inv, Placed, Typed, RowRecord, LoopRecord
      <3> QED  BY <3>2, <3>3, Constants DEF couldTrySchedule
    <2>2. CASE \E s \in Server : checkJobs(s)
      <3>1. PICK s \in Server : checkJobs(s)  BY <2>2
      <3>2. job' = [job EXCEPT ![s] = NoJob] /\ row.job = job[s].id  BY <1>1, <3>1, CheckEffect
      <3>3. row.job \in JobID /\ job \in [Server -> JobRecord]
        BY <1>1 DEF Inv, Typed, RowRecord, JobOrNone
      <3>4. ASSUME NEW t \in Server PROVE job'[t].id # row.job
        <4>1. CASE t = s  BY <3>2, <3>3, <4>1 DEF NoJob
        <4>2. CASE t # s  BY <1>1, <3>2, <3>3, <4>2 DEF Inv, Placed, Holds
        <4> QED  BY <4>1, <4>2
      <3> QED  BY <3>4
    <2>3. CASE UNCHANGED vars  BY <2>3 DEF vars
    <2>4. CASE Tick
      <3>1. row'.job = row.job  BY <1>1, <2>4, AgedRecords DEF Tick, Inv
      <3> QED  BY <3>1
    <2>5. ASSUME NEW s \in Server,
                 \/ updateTableStatusCache(s) \/ updateHeartBeat(s) \/ updateTaskState(s)
                 \/ rescheduleLocal(s) \/ NothingToSchedule(s) \/ createNewJob(s) \/ Start(s) \/ Stop(s)
          PROVE  row'.job = row.job
      BY <1>1, <2>5 DEF updateTableStatusCache, updateHeartBeat, updateTaskState, rescheduleLocal,
        NothingToSchedule, createNewJob, Start, Stop, Inv, Typed, RowRecord
    <2>6. ASSUME NEW s \in Server, NEW w \in Scanner,
                 doScan(s, w) \/ IncTotalRows(s, w) \/ resizeScanWorkers(s, w) \/ \E d \in Deleter : SendDelTask(s, w, d)
          PROVE  row'.job = row.job
      BY <2>6 DEF doScan, IncTotalRows, resizeScanWorkers, SendDelTask
    <2>7. ASSUME NEW s \in Server, NEW d \in Deleter,
                 doDelete(s, d) \/ recordRetryItem(s, d) \/ DoRetry(s, d) \/ resizeDelWorkers(s, d)
          PROVE  row'.job = row.job
      BY <2>7 DEF doDelete, recordRetryItem, DoRetry, resizeDelWorkers
    <2> QED  BY <1>1, <2>1, <2>2, <2>3, <2>4, <2>5, <2>6, <2>7 DEF Next
  <1>2. Inv /\ [Next]_vars => [A]_vars  BY <1>1
  <1>3. Spec => [][A]_vars  BY Managers, <1>2, PTL DEF Spec
  <1> QED  BY <1>3 DEF NotTakenAway
=============================================================================
