---------------------------- MODULE GCCollection ----------------------------
(* Proofs about what GC collects, for any number of servers, stores, transactions *)
(* and setups: while one GC worker acts at a time, the saved safe points never go  *)
(* back, and what was collected or destroyed is neither read nor recovered; with   *)
(* one worker beside the leader, one acts at a time.                               *)
EXTENDS GCProofs

USE ZenonT(5), SMTT(30)    \* the provers of a step that names none

\* The steps of the others: they change nothing that a worker, a job or RECOVER TABLE relies on.
Apart ==
    /\ UNCHANGED <<setup, up, worker, job, tidb, cache, tbl, ddl>>
    /\ Now' = Now /\ etcd'.saved = etcd.saved /\ pd'.gc = pd.gc

LEMMA Sides ==
    ASSUME Typed, [Next]_vars
    PROVE  \/ Apart \/ Tick \/ TableStep
           \/ \E s \in Server : TickStep(s) \/ RunStep(s) \/ LoadSafePoint(s) \/ Crash(s)
  <1>1. ASSUME NEW s \in Server, ReportStep(s) PROVE Apart
    <2>1. etcd'.saved = etcd.saved
      BY <1>1 DEF ReportStep, ListProcesses, StoreMinStartTS, ExpireMinStartTS, Typed, Etcd
    <2> QED  BY <1>1, <2>1, ReportFrame DEF Apart, Now
  <1>2. ASSUME NEW b \in Backup, BackupStep(b) PROVE Apart
    <2>1. pd'.gc = pd.gc
      BY <1>2 DEF BackupStep, StartBackup, UpdateServiceSafePoint, KeeperPanics, FinishBackup, ExpireService, Typed, PD
    <2> QED  BY <1>2, <2>1, BackupFrame DEF Apart, Now
  <1>3. ASSUME NEW t \in Txn, Begin(t) \/ Finish(t) PROVE Apart
    BY <1>3 DEF Begin, NewTS, Finish, Apart, Now
  <1>4. ASSUME UNCHANGED vars PROVE Apart
    BY <1>4 DEF vars, Apart, Now
  <1> QED  BY <1>1, <1>2, <1>3, <1>4, Sorted

\* A tick gives out no timestamp; its steps write what they are for.
LEMMA TickKeeps ==
    ASSUME Typed, NEW s \in Server, TickStep(s)
    PROVE  /\ Now' = Now /\ pd'.gc = pd.gc
           /\ SaveSafePoint(s) \/ tidb'.safePoint = tidb.safePoint
           /\ Register(s) \/ tidb'.leader = tidb.leader
           /\ SaveLease(s) \/ tidb'.lease = tidb.lease
           /\ \A w \in Server : job'[w] = job[w] \/ (w = s /\ SaveSafePoint(s) /\ job'[w].pc = "resolve")
  <1>1. Now' = Now
    BY TickFrame DEF Now
  <1>2. pd'.gc = pd.gc
    BY TickFrame DEF SetServiceSafePoint, Typed, PD
  <1>3. /\ SaveSafePoint(s) \/ tidb'.safePoint = tidb.safePoint
        /\ Register(s) \/ tidb'.leader = tidb.leader
        /\ SaveLease(s) \/ tidb'.lease = tidb.lease
    BY DEF TickStep, CheckLeader, LoadLease, Register, SaveLease, CheckPrepare, CalcSafePoint, SetServiceSafePoint,
           SaveLastRun, SaveSafePoint, TickFails, Typed, Tidb
  <1>4. \A w \in Server : job'[w] = job[w] \/ (w = s /\ SaveSafePoint(s) /\ job'[w].pc = "resolve")
    BY TickFrame DEF SaveSafePoint, Typed
  <1> QED  BY <1>1, <1>2, <1>3, <1>4

\* DROP and RECOVER TABLE change nothing of mysql.tidb but the switch.
LEMMA TableKeeps ==
    ASSUME Typed, TableStep
    PROVE  /\ Now' = Now /\ tidb'.leader = tidb.leader /\ tidb'.lease = tidb.lease
           /\ tidb'.safePoint = tidb.safePoint
  <1>1. Now' = Now
    BY TableFrame DEF Now
  <1> QED  BY <1>1, TableFrame DEF DisableGC, FinishRecoverTable, Typed, Tidb

\* A crash ends the worker and its job.
LEMMA CrashKeeps ==
    ASSUME Typed, NEW s \in Server, Crash(s)
    PROVE  /\ UNCHANGED <<setup, tidb, etcd, pd, cache, tbl, ddl>> /\ Now' = Now /\ up' = up \ {s}
           /\ worker'[s].pc = "idle" /\ job'[s].pc = "none"
           /\ \A w \in Server \ {s} : worker'[w] = worker[w] /\ job'[w] = job[w]
  BY DEF Crash, Now, Typed, Idle, NoJob

-----------------------------------------------------------------------------
(* Leadership. The properties of the saved safe points and of what was destroyed *)
(* rest on one worker acting at a time.                                          *)

\* One GC worker at most beside the leader, whose lease lasts at first.
Standby ==
    \A u \in Setups : u.lease >= LifeTime /\ \E w \in Server : u.workers \subseteq {u.leader, w}

\* The steps of a leader; with a job, it acts beside them.
Leading == {"prepare", "calc", "service", "run", "save"}
Acting(w) == worker[w].pc \in Leading \/ job[w].pc # "none"
OneActs == \A v, w \in Server : Acting(v) /\ Acting(w) => v = w

\* The first leader keeps its lease until it crashes; the other takes over only then.
Led ==
    /\ setup.leader \in up => tidb.leader = setup.leader /\ Now <= tidb.lease
    /\ \A w \in Server :
         /\ worker[w].pc # "idle" \/ job[w].pc # "none" => w \in setup.workers \cap up
         /\ worker[w].pc = "register" => setup.leader \notin up
         /\ w # setup.leader /\ (worker[w].pc = "renew" \/ Acting(w)) => setup.leader \notin up

\* A step after which no worker leads that did not before.
Follows ==
    \A w \in Server :
      /\ worker'[w].pc # "idle" \/ job'[w].pc # "none" => worker[w].pc # "idle" \/ job[w].pc # "none"
      /\ worker'[w].pc = "register" => worker[w].pc = "register"
      /\ worker'[w].pc = "renew" \/ Acting(w)' => worker[w].pc = "renew" \/ Acting(w)

\* A tick keeps Led.
LEMMA TickLed ==
    ASSUME Typed, Led, NEW s \in Server, TickStep(s)
    PROVE  Led'
  <1>t. Now \in Nat /\ tidb.lease \in Nat /\ WorkerLease \in Nat
    BY Present, GCAssumption DEF Typed, Tidb
  <1>e. /\ UNCHANGED <<setup, up>> /\ Now' = Now
        /\ SaveSafePoint(s) \/ UNCHANGED job
        /\ Register(s) \/ tidb'.leader = tidb.leader
        /\ SaveLease(s) \/ tidb'.lease = tidb.lease
        /\ \A w \in Server \ {s} : worker'[w] = worker[w] /\ job'[w] = job[w]
    BY TickFrame, TickKeeps, TickEffect
  <1>0. ASSUME tidb'.leader = tidb.leader, Now <= tidb.lease => Now <= tidb'.lease, Follows PROVE Led'
    BY <1>0, <1>e DEF Led, Follows
  <1>1. CASE CheckLeader(s)
    <2>1. UNCHANGED <<tidb, job>> /\ s \in setup.workers \cap up
          /\ worker'[s].pc = IF tidb.leader = s THEN "renew" ELSE "lease"
      BY <1>1 DEF CheckLeader, Typed, Worker
    <2> QED  BY <1>e, <2>1 DEF Led, Acting, Leading
  <1>2. CASE LoadLease(s)
    <2>1. /\ worker[s].pc = "lease" /\ UNCHANGED <<tidb, job>>
          /\ worker'[s].pc = IF tidb.lease < Now THEN "register" ELSE "idle"
      BY <1>2, StepEffect DEF LoadLease
    <2>2. tidb.lease < Now => setup.leader \notin up
      BY <1>t DEF Led
    <2> QED  BY <1>e, <2>1, <2>2 DEF Led, Acting, Leading
  <1>3. CASE Register(s)
    <2>1. worker[s].pc = "register" /\ UNCHANGED job /\ worker'[s].pc = "renew"
      BY <1>3, StepEffect DEF Register
    <2>2. setup.leader \notin up  BY <2>1 DEF Led
    <2> QED  BY <1>e, <2>1, <2>2 DEF Led, Acting, Leading
  <1>4. CASE SaveLease(s)
    <2>1. /\ worker[s].pc = "renew" /\ UNCHANGED job /\ tidb'.leader = tidb.leader /\ tidb'.lease = Now + WorkerLease
          /\ worker'[s].pc \in {"prepare", "idle"}
      BY <1>4, StepEffect DEF SaveLease, Typed, Tidb
    <2>2. Now <= tidb'.lease  BY <1>t, <2>1
    <2>3. Follows
      BY <1>e, <2>1 DEF Follows, Acting, Leading
    <2> QED  BY <1>0, <2>1, <2>2, <2>3
  <1>5. CASE CheckPrepare(s) \/ CalcSafePoint(s) \/ SetServiceSafePoint(s) \/ SaveLastRun(s) \/ TickFails(s) \/ SaveSafePoint(s)
    <2>1. /\ worker[s].pc # "idle" /\ worker'[s].pc \in {"idle", "calc", "service", "run", "save"}
          /\ worker'[s].pc # "idle" => worker[s].pc \in Leading
      <3>1. CASE TickFails(s) \/ SaveLastRun(s) \/ SaveSafePoint(s)
        <4>1. \E from \in WorkerPC \ {"idle"} : Step(s, from, "idle") \/ (from = "run" /\ Step(s, from, "save"))
          BY <3>1 DEF TickFails, SaveLastRun, SaveSafePoint, WorkerPC
        <4> QED  BY <4>1, StepEffect DEF Leading
      <3>2. CASE CheckPrepare(s)
        BY <3>2 DEF CheckPrepare, Step, Idle, Typed, Worker, Leading
      <3>3. CASE CalcSafePoint(s)
        BY <3>3 DEF CalcSafePoint, Typed, Worker, Leading
      <3>4. CASE SetServiceSafePoint(s)
        BY <3>4 DEF SetServiceSafePoint, Step, Idle, Typed, Worker, Leading
      <3> QED  BY <1>5, <3>1, <3>2, <3>3, <3>4
    <2>2. tidb'.leader = tidb.leader /\ tidb'.lease = tidb.lease
      BY <1>5 DEF CheckPrepare, CalcSafePoint, SetServiceSafePoint, SaveLastRun, TickFails, SaveSafePoint, Typed, Tidb
    <2>3. SaveSafePoint(s) => worker[s].pc = "save"
      BY StepEffect DEF SaveSafePoint
    <2>4. Follows
      BY <1>e, <2>1, <2>3 DEF Follows, Acting, Leading
    <2> QED  BY <1>0, <2>2, <2>4
  <1> QED  BY <1>1, <1>2, <1>3, <1>4, <1>5 DEF TickStep

\* Every step keeps Led: nobody but the first leader acts before it crashed.
LEMMA NextLed ==
    ASSUME Typed, Led, [Next]_vars
    PROVE  Led'
  <1>0. ASSUME UNCHANGED <<setup, up>>, Now' = Now, tidb'.leader = tidb.leader, tidb'.lease = tidb.lease, Follows
        PROVE  Led'
    BY <1>0 DEF Led, Follows
  <1>s. UNCHANGED <<worker, job>> => Follows
    BY DEF Follows, Acting
  <1>1. CASE Apart
    BY <1>1, <1>0, <1>s DEF Apart
  <1>2. CASE TableStep
    BY <1>2, <1>0, <1>s, TableFrame, TableKeeps
  <1>3. ASSUME NEW s \in Server, LoadSafePoint(s) PROVE Led'
    BY <1>3, <1>0, <1>s DEF LoadSafePoint, Now
  <1>4. ASSUME NEW s \in Server, RunStep(s) PROVE Led'
    <2>1. Follows
      BY <1>4, RunEffect DEF Follows, Acting
    <2> QED  BY <1>4, <1>0, <2>1, RunFrame DEF Now
  <1>5. CASE Tick
    <2>1. UNCHANGED <<setup, up, worker, job, tidb>> /\ (tidb.leader \in up => Now < tidb.lease)
      BY <1>5 DEF Tick
    <2>2. Now \in Nat /\ tidb.lease \in Nat /\ Now' = Now + 1
      BY <1>5, Present, TimeGrows DEF Typed, Tidb
    <2>3. setup'.leader \in up' => tidb'.leader = setup'.leader /\ Now' <= tidb'.lease
      BY <2>1, <2>2 DEF Led
    <2> QED  BY <2>1, <2>3 DEF Led, Acting
  <1>6. ASSUME NEW s \in Server, Crash(s) PROVE Led'
    BY <1>6, CrashKeeps DEF Led, Acting, Leading
  <1> QED  BY <1>1, <1>2, <1>3, <1>4, <1>5, <1>6, TickLed, Sides

\* With one GC worker beside the leader, whose lease has not ended at first, one worker acts at a time:
\* the other takes over (checkLeader) only after the leader crashed, because a leader that runs renews
\* its lease in time. (Two candidates that both find the lease ended would both lead.)
THEOREM OneLeader ==
    ASSUME Standby
    PROVE  Spec => []OneActs
  <1> DEFINE Inv == Typed /\ Led
  <1>1. Init => Inv
    <2> SUFFICES ASSUME Init PROVE Led
      BY InitTyped
    <2>1. setup \in Setups /\ setup.lease >= LifeTime /\ LifeTime \in Nat /\ tidb.lease = setup.lease
      BY GCAssumption DEF Init, Standby
    <2>2. Now = LifeTime
      BY <2>1, Order DEF Init, Now
    <2>3. setup.lease \in Nat  BY <2>1, GCAssumption
    <2> QED  BY <2>1, <2>2, <2>3 DEF Init, Led, Idle, NoJob, Acting, Leading
  <1>2. Inv /\ [Next]_vars => Inv'
    BY NextTyped, NextLed
  <1>3. Inv => OneActs
    <2> SUFFICES ASSUME Inv, NEW v \in Server, NEW w \in Server, Acting(v), Acting(w), v # w PROVE FALSE
      BY DEF OneActs
    <2>1. v \in setup.workers \cap up /\ w \in setup.workers \cap up
      BY DEF Led, Acting, Leading
    <2>2. PICK x \in Server : setup.workers \subseteq {setup.leader, x}
      BY DEF Standby, Typed
    <2>3. v = setup.leader \/ w = setup.leader  BY <2>1, <2>2
    <2> QED  BY <2>1, <2>3 DEF Led
  <1> HIDE DEF Inv
  <1> QED  BY <1>1, <1>2, <1>3, PTL DEF Spec

-----------------------------------------------------------------------------
(* The saved safe points. *)

\* A job that waited for the caches has saved its safe point. One that is to save it saves a later
\* one than the last, because a tick goes on only with a later one.
Waited == {"destroy", "complete", "redo", "upload"}
Saving == {"resolve", "saving"}
OrderedJob(w) ==
    /\ worker[w].pc \in Leading => job[w].pc = "none"
    /\ job[w].pc # "none" => Physical(job[w].sp) <= tidb.safePoint
    /\ job[w].pc \in Saving => job[w].sp > etcd.saved
    /\ job[w].pc \in Waited \cup {"sleep"} => job[w].sp = etcd.saved
OrderedTick(w) ==
    /\ worker[w].pc \in Leading \ {"prepare"} => worker[w].last = tidb.safePoint
    /\ worker[w].pc \in {"run", "save"} => Physical(worker[w].value) > tidb.safePoint
Ordered ==
    /\ \A w \in Server : OrderedJob(w) /\ OrderedTick(w)
    /\ Physical(etcd.saved) <= tidb.safePoint
    /\ pd.gc <= etcd.saved

Onward == etcd'.saved >= etcd.saved /\ tidb'.safePoint >= tidb.safePoint

\* The numbers that are compared.
LEMMA Numbers ==
    ASSUME Typed
    PROVE  /\ etcd.saved \in Nat /\ tidb.safePoint \in Nat /\ pd.gc \in Nat /\ tbl.ts \in Nat
           /\ \A w \in Server : worker[w].value \in Nat /\ job[w].sp \in Nat /\ job[w].wake \in Nat
           /\ \A w \in Server : Physical(worker[w].value) \in Nat /\ Physical(job[w].sp) \in Nat
           /\ Physical(etcd.saved) \in Nat /\ Now \in Nat
  <1>1. /\ etcd.saved \in Nat /\ tidb.safePoint \in Nat /\ pd.gc \in Nat /\ tbl.ts \in Nat
        /\ \A w \in Server : worker[w].value \in Nat /\ job[w].sp \in Nat /\ job[w].wake \in Nat
    BY FieldsNat DEF Typed, Etcd, PD, Table, Job
  <1> QED  BY <1>1, Times, Present

\* A tick keeps Ordered.
LEMMA TickOrdered ==
    ASSUME Typed, Ordered, OneActs, [Next]_vars, NEW s \in Server, TickStep(s)
    PROVE  Ordered' /\ Onward
  <1>n. /\ etcd.saved \in Nat /\ tidb.safePoint \in Nat /\ worker[s].value \in Nat
        /\ Physical(etcd.saved) \in Nat /\ Physical(worker[s].value) \in Nat
    BY Numbers
  <1>e. /\ etcd' = etcd /\ pd'.gc = pd.gc
        /\ SaveSafePoint(s) \/ (UNCHANGED job /\ tidb'.safePoint = tidb.safePoint)
        /\ \A w \in Server \ {s} : worker'[w] = worker[w] /\ job'[w] = job[w]
    BY TickFrame, TickKeeps, TickEffect
  <1>s. OrderedJob(s) /\ OrderedTick(s)
    BY DEF Ordered
  <1>0. ASSUME ~SaveSafePoint(s), worker'[s].pc \in Leading => job[s].pc = "none", OrderedTick(s)'
        PROVE  Ordered' /\ Onward
    <2>1. OrderedJob(s)'
      BY <1>0, <1>e, <1>s DEF OrderedJob
    <2>2. \A w \in Server \ {s} : OrderedJob(w)' /\ OrderedTick(w)'
      BY <1>0, <1>e DEF Ordered, OrderedJob, OrderedTick
    <2> QED  BY <1>0, <1>e, <1>n, <2>1, <2>2 DEF Ordered, Onward
  <1>1. CASE ~SaveSafePoint(s) /\ (CheckLeader(s) \/ LoadLease(s) \/ Register(s) \/ TickFails(s))
    <2>1. worker'[s].pc \notin Leading
      <3>1. CASE CheckLeader(s)
        BY <3>1 DEF CheckLeader, Typed, Worker, Leading
      <3>2. CASE LoadLease(s) \/ Register(s) \/ TickFails(s)
        <4>1. \E from \in WorkerPC : \E to \in {"register", "renew", "idle"} : Step(s, from, to)
          BY <3>2 DEF LoadLease, Register, TickFails, WorkerPC
        <4> QED  BY <4>1, StepEffect DEF Leading
      <3> QED  BY <1>1, <3>1, <3>2
    <2> QED  BY <1>0, <1>1, <2>1 DEF Leading, OrderedTick
  <1>2. CASE ~SaveSafePoint(s) /\ SaveLease(s)
    <2>1. worker'[s].pc \in {"prepare", "idle"} /\ (worker'[s].pc = "prepare" => job[s].pc = "none")
      BY <1>2, StepEffect DEF SaveLease
    <2> QED  BY <1>0, <1>2, <2>1 DEF Leading, OrderedTick
  <1>3. CASE ~SaveSafePoint(s) /\ CheckPrepare(s)
    <2>1. worker[s].pc = "prepare" /\ (worker'[s].pc = "idle" \/ (worker'[s].pc = "calc" /\ worker'[s].last = tidb.safePoint))
      BY <1>3 DEF CheckPrepare, Step, Idle, Typed, Worker
    <2> QED  BY <1>0, <1>3, <1>e, <1>s, <2>1 DEF Leading, OrderedJob, OrderedTick
  <1>4. CASE ~SaveSafePoint(s) /\ CalcSafePoint(s)
    <2>1. worker[s].pc = "calc" /\ worker'[s].pc = "service" /\ worker'[s].last = worker[s].last
      BY <1>4 DEF CalcSafePoint, Typed, Worker
    <2> QED  BY <1>0, <1>4, <1>e, <1>s, <2>1 DEF Leading, OrderedJob, OrderedTick
  <1>5. CASE ~SaveSafePoint(s) /\ SetServiceSafePoint(s)
    <2>1. /\ worker[s].pc = "service"
          /\ \/ worker'[s].pc = "idle"
             \/ worker'[s].pc = "run" /\ worker'[s].last = worker[s].last /\ worker[s].last < Physical(worker'[s].value)
      BY <1>5 DEF SetServiceSafePoint, Step, Idle, Typed, Worker
    <2>2. Physical(worker'[s].value) \in Nat
      BY NextTyped, Times DEF Typed, Worker
    <2>3. worker'[s].pc = "run" => Physical(worker'[s].value) > tidb.safePoint
      BY <1>n, <1>s, <2>1, <2>2 DEF OrderedTick, Leading
    <2> QED  BY <1>0, <1>5, <1>e, <1>s, <2>1, <2>3 DEF Leading, OrderedJob, OrderedTick
  <1>6. CASE ~SaveSafePoint(s) /\ SaveLastRun(s)
    <2>1. /\ worker[s].pc = "run" /\ worker'[s].pc = "save" /\ worker'[s].last = worker[s].last
          /\ worker'[s].value = worker[s].value
      BY <1>6, StepEffect DEF SaveLastRun
    <2> QED  BY <1>0, <1>6, <1>e, <1>s, <2>1 DEF Leading, OrderedJob, OrderedTick
  <1>7. CASE SaveSafePoint(s)
    <2>1. worker[s].pc = "save" /\ worker'[s].pc = "idle"
      BY <1>7, StepEffect DEF SaveSafePoint
    <2>2. /\ tidb'.safePoint = Physical(worker[s].value)
          /\ job'[s] = job[s] \/ (job'[s].pc = "resolve" /\ job'[s].sp = worker[s].value)
      BY <1>7 DEF SaveSafePoint, Typed, Tidb
    <2>3. job[s].pc = "none" /\ Physical(worker[s].value) > tidb.safePoint
      BY <1>s, <2>1 DEF OrderedJob, OrderedTick, Leading
    <2>4. \A w \in Server \ {s} : job[w].pc = "none" /\ worker[w].pc \notin Leading
      BY <2>1 DEF OneActs, Acting, Leading
    <2>5. worker[s].value > etcd.saved
      <3>1. worker[s].value <= etcd.saved => Physical(worker[s].value) <= Physical(etcd.saved)
        BY <1>n, Order
      <3> QED  BY <1>n, <2>3, <3>1 DEF Ordered
    <2>6. Onward /\ Physical(etcd.saved) <= tidb'.safePoint
      BY <1>n, <1>e, <2>2, <2>3 DEF Ordered, Onward
    <2>7. Physical(worker[s].value) <= tidb'.safePoint
      BY <1>n, <2>2
    <2>8. \A w \in Server \ {s} : OrderedJob(w)' /\ OrderedTick(w)'
      BY <1>e, <2>4 DEF OrderedJob, OrderedTick, Leading, Saving, Waited
    <2>9. OrderedJob(s)' /\ OrderedTick(s)'
      BY <1>e, <2>1, <2>2, <2>3, <2>5, <2>7 DEF OrderedJob, OrderedTick, Leading, Saving, Waited
    <2> QED  BY <1>e, <2>6, <2>8, <2>9 DEF Ordered
  <1> QED  BY <1>1, <1>2, <1>3, <1>4, <1>5, <1>6, <1>7 DEF TickStep

\* Every step keeps Ordered while one worker acts, and moves no saved safe point back.
LEMMA NextOrdered ==
    ASSUME Typed, Ordered, OneActs, [Next]_vars
    PROVE  Ordered' /\ Onward
  <1>n. /\ etcd.saved \in Nat /\ tidb.safePoint \in Nat /\ pd.gc \in Nat
        /\ \A w \in Server : job[w].sp \in Nat
    BY Numbers
  <1>1. ASSUME UNCHANGED <<worker, job>>, tidb'.safePoint = tidb.safePoint, etcd'.saved = etcd.saved, pd'.gc = pd.gc
        PROVE  Ordered' /\ Onward
    BY <1>1, <1>n DEF Ordered, OrderedJob, OrderedTick, Onward
  <1>2. CASE Apart
    BY <1>2, <1>1 DEF Apart
  <1>3. CASE TableStep
    BY <1>3, <1>1, TableFrame, TableKeeps
  <1>4. CASE Tick \/ \E s \in Server : LoadSafePoint(s)
    BY <1>4, <1>1 DEF LoadSafePoint, Tick
  <1>5. ASSUME NEW s \in Server, Crash(s) PROVE Ordered' /\ Onward
    <2>1. \A w \in Server : OrderedJob(w)' /\ OrderedTick(w)'
      BY <1>5, CrashKeeps DEF Ordered, OrderedJob, OrderedTick, Leading, Saving, Waited
    <2> QED  BY <1>5, <1>n, <2>1, CrashKeeps DEF Ordered, Onward
  <1>6. ASSUME NEW s \in Server, RunStep(s) PROVE Ordered' /\ Onward
    <2>e. /\ tidb' = tidb /\ job[s].pc # "none"
          /\ \A w \in Server : worker'[w].pc = worker[w].pc
          /\ \A w \in Server \ {s} : job'[w] = job[w]
      BY <1>6, RunFrame, RunEffect
    <2>o. \A w \in Server : worker[w].pc \notin Leading /\ (w # s => job[w].pc = "none")
      BY <2>e DEF OneActs, Acting, Ordered, OrderedJob
    <2>0. ASSUME OrderedJob(s)', Physical(etcd'.saved) <= tidb.safePoint, pd'.gc <= etcd'.saved, etcd'.saved >= etcd.saved
          PROVE  Ordered' /\ Onward
      <3>1. \A w \in Server \ {s} : OrderedJob(w)'
        BY <2>e, <2>o DEF OrderedJob, Saving, Waited
      <3>2. \A w \in Server : OrderedTick(w)'
        BY <2>e, <2>o DEF OrderedTick, Leading
      <3>3. Onward
        BY <1>n, <2>e, <2>0 DEF Onward
      <3> QED  BY <2>e, <2>0, <3>1, <3>2, <3>3 DEF Ordered
    <2>s. OrderedJob(s) /\ Physical(etcd.saved) <= tidb.safePoint /\ pd.gc <= etcd.saved /\ etcd.saved >= etcd.saved
      BY <1>n DEF Ordered
    <2>1. CASE JobDone(s)
      <3>1. UNCHANGED <<etcd, pd>> /\ job'[s].pc = "none"
        BY <2>1 DEF JobDone, NoJob, Typed
      <3> QED  BY <2>0, <2>e, <2>s, <3>1 DEF OrderedJob, Saving, Waited
    <2>2. CASE SaveSafePointKV(s)
      <3>1. job[s].pc = "saving" /\ job'[s].pc = "sleep" /\ job'[s].sp = job[s].sp /\ etcd'.saved = job[s].sp /\ pd' = pd
        BY <2>2 DEF SaveSafePointKV, Typed, Job, Etcd
      <3>2. job[s].sp > etcd.saved /\ Physical(job[s].sp) <= tidb.safePoint
        BY <2>s, <3>1 DEF OrderedJob, Saving
      <3>3. pd'.gc <= etcd'.saved /\ etcd'.saved >= etcd.saved
        BY <1>n, <2>s, <3>1, <3>2
      <3>4. OrderedJob(s)'
        BY <2>e, <2>o, <3>1, <3>2 DEF OrderedJob, Saving, Waited
      <3> QED  BY <2>0, <3>1, <3>2, <3>3, <3>4
    <2>3. CASE \E from \in JobPC \ {"none"}, to \in JobPC \ {"none"} : JobStep(s, from, to) /\ ~SaveSafePointKV(s) /\ ~JobDone(s)
      <3>1. etcd' = etcd /\ pd'.gc <= etcd.saved
        <4>1. UploadSafePoint(s) => job[s].pc = "upload" /\ pd'.gc \in {pd.gc, job[s].sp}
          BY DEF UploadSafePoint, JobStep, Typed, PD
        <4> QED  BY <1>6, <1>n, <2>3, <2>s, <4>1, RunFrame DEF OrderedJob, Waited
      <3>2. /\ job'[s].sp = job[s].sp
            /\ job'[s].pc \in Saving => job[s].pc \in Saving
            /\ job'[s].pc \in Waited \cup {"sleep"} => job[s].pc \in Waited \cup {"sleep"}
        <4>1. \E from \in JobPC \ {"none"} : \E to \in JobPC :
                /\ JobStep(s, from, to)
                /\ to \in Saving => from \in Saving
                /\ to \in Waited \cup {"sleep"} => from \in Waited \cup {"sleep"}
          BY <1>6, <2>3 DEF RunStep, ResolveLocks, LoadDeleteRanges, UnsafeDestroyRange, CompleteDeleteRange, RedoDeleteRanges,
                            UploadSafePoint, JobFails, JobPC, Waited, Saving
        <4> QED  BY <4>1, JobEffect
      <3>3. OrderedJob(s)'
        BY <2>e, <2>o, <2>s, <3>1, <3>2 DEF OrderedJob
      <3> QED  BY <2>0, <2>s, <3>1, <3>3
    <2> QED  BY <1>6, <2>1, <2>2, <2>3, RunFrame
  <1> QED  BY <1>2, <1>3, <1>4, <1>5, <1>6, TickOrdered, Sides

\* Nothing was saved at first.
LEMMA InitOrdered == Init => Ordered
  <1> SUFFICES ASSUME Init PROVE Ordered
    OBVIOUS
  <1>1. Physical(0) = 0
    BY Order
  <1> QED  BY <1>1 DEF Init, Ordered, OrderedJob, OrderedTick, Idle, NoJob, Leading, Saving, Waited

-----------------------------------------------------------------------------
(* What was destroyed. *)

\* Data go with a safe point that was saved, after the table was dropped; rows go after the data.
Dropped == {"dropped", "recovered"}
Ranged ==
    /\ tbl.pc \notin Dropped => tbl.row = "none" /\ tbl.destroyed = {}
    /\ tbl.pc \in Dropped => Physical(tbl.snapshot) < Physical(tbl.ts)
    /\ \A w \in Server :
         /\ job[w].pc = "complete" => tbl.destroyed = Store
         /\ job[w].pc \in {"destroy", "complete"} => tbl.ts < job[w].sp /\ tbl.pc \in Dropped
    /\ tbl.row \in {"done", "gone"} => tbl.destroyed = Store
    /\ tbl.destroyed # {} => tbl.ts < etcd.saved
    /\ ddl.pc # "none" => tbl.pc \in Dropped

\* What a server caches while it is fresh covers what was collected, and so it will when a job wakes:
\* the job waits for as long as a cache is fresh.
Fresh(s) == Now - cache[s].time < CacheInterval
Caught ==
    /\ \A s \in Server :
         /\ cache[s].time <= Now
         /\ Fresh(s) => pd.gc <= cache[s].sp /\ (tbl.destroyed # {} => tbl.ts < cache[s].sp)
         /\ \A w \in Server :
              job[w].pc \in Waited \cup {"sleep"} /\ cache[s].time > job[w].wake - CacheInterval =>
                  job[w].sp <= cache[s].sp
    /\ \A w \in Server : job[w].pc \in Waited => job[w].wake <= Now

\* Nothing was destroyed, and no job is about to. Between the check of the safe point and the removal
\* of the row, that includes the jobs that wake meanwhile.
Spared ==
    /\ tbl.destroyed = {} /\ (tbl.row \in {"done", "gone"} => Store = {})
    /\ \A w \in Server : job[w].pc \notin {"destroy", "complete"}
Sparing ==
    /\ ddl.pc = "remove" =>
         Spared /\ \A w \in Server : job[w].pc = "sleep" => job[w].wake > Now \/ job[w].sp <= tbl.ts
    /\ ddl.pc \in {"commit", "done"} \/ tbl.pc = "recovered" => Spared /\ tbl.row # "todo"

Destroying == Ranged /\ Caught /\ Sparing
Collecting == Typed /\ Remembered /\ Ordered /\ Destroying

\* A job keeps Destroying while one worker acts: what it destroys or collects is covered by every cache
\* that is fresh, and no job that saw the row when the safe point was checked is still to destroy it.
LEMMA RunDestroying ==
    ASSUME Collecting, OneActs, [Next]_vars, NEW s \in Server, RunStep(s)
    PROVE  Destroying'
  <1>i. Typed /\ Ordered /\ OrderedJob(s) /\ Ranged /\ Caught /\ Sparing
    BY DEF Collecting, Destroying, Ordered
  <1>t. tbl \in Table /\ job \in [Server -> Job] /\ etcd \in Etcd /\ pd \in PD
    BY <1>i DEF Typed
  <1>n. /\ Now \in Nat /\ CacheInterval \in Nat /\ CacheInterval > 0 /\ etcd.saved \in Nat /\ tbl.ts \in Nat
        /\ job[s].sp \in Nat /\ job[s].wake \in Nat /\ \A v \in Server : cache[v].time \in Nat /\ cache[v].sp \in Nat
    BY <1>i, Numbers, GCAssumption, CacheAssumption DEF Typed, Cache
  <1>e. /\ UNCHANGED <<ddl, cache>> /\ Now' = Now
        /\ \A w \in Server \ {s} : job'[w] = job[w] /\ job[w].pc = "none"
    BY <1>i, RunFrame, RunEffect DEF OneActs, Acting, Now
  <1>o. etcd'.saved \in Nat /\ etcd'.saved >= etcd.saved
    BY <1>i, NextOrdered, NextTyped, Numbers DEF Onward, Typed, Etcd
  <1>c. tbl.destroyed # {} => tbl.ts < etcd'.saved
    <2>1. tbl.destroyed # {} => tbl.ts < etcd.saved
      BY <1>i DEF Ranged
    <2> QED  BY <1>n, <1>o, <2>1
  <1>w. ASSUME job[s].pc \in Waited, NEW v \in Server, Fresh(v) PROVE job[s].sp <= cache[v].sp
    <2>1. cache[v].time > job[s].wake - CacheInterval
      BY <1>i, <1>n, <1>w DEF Fresh, Caught
    <2> QED  BY <1>i, <1>w, <2>1 DEF Caught
  <1>1. CASE ResolveLocks(s) \/ JobFails(s) \/ JobDone(s)
    <2>1. tbl' = tbl /\ pd' = pd /\ job'[s].pc \in {"saving", "done", "none"}
      BY <1>t, <1>1 DEF ResolveLocks, JobFails, JobDone, JobStep, NoJob, Job
    <2>2. Ranged'  BY <1>c, <1>e, <1>i, <2>1 DEF Ranged
    <2>3. Caught'  BY <1>e, <1>i, <2>1 DEF Caught, Fresh, Waited
    <2>4. Sparing'  BY <1>e, <1>i, <2>1 DEF Sparing, Spared
    <2> QED  BY <2>2, <2>3, <2>4 DEF Destroying
  <1>2. CASE SaveSafePointKV(s)
    <2>1. tbl' = tbl /\ pd' = pd /\ job'[s].pc = "sleep" /\ job'[s].wake = Now + CacheInterval
      BY <1>t, <1>2 DEF SaveSafePointKV, Job
    <2>2. Ranged'  BY <1>c, <1>e, <1>i, <2>1 DEF Ranged
    <2>3. job'[s].wake > Now /\ \A v \in Server : ~(cache[v].time > job'[s].wake - CacheInterval)
      <3>1. \A v \in Server : cache[v].time <= Now
        BY <1>i DEF Caught
      <3> QED  BY <1>n, <2>1, <3>1
    <2>4. Caught'  BY <1>e, <1>i, <2>1, <2>3 DEF Caught, Fresh, Waited
    <2>5. Sparing'  BY <1>e, <1>i, <2>1, <2>3 DEF Sparing, Spared
    <2> QED  BY <2>2, <2>4, <2>5 DEF Destroying
  <1>3. CASE LoadDeleteRanges(s)
    <2>1. /\ tbl' = tbl /\ pd' = pd /\ job[s].pc = "sleep" /\ Now >= job[s].wake
          /\ job'[s].sp = job[s].sp /\ job'[s].wake = job[s].wake
          /\ job'[s].pc = IF tbl.row = "todo" /\ tbl.ts < job[s].sp THEN "destroy" ELSE "redo"
      <3>1. /\ JobStep(s, "sleep", IF tbl.row = "todo" /\ tbl.ts < job[s].sp THEN "destroy" ELSE "redo")
            /\ tbl' = tbl /\ pd' = pd /\ Now >= job[s].wake
        BY <1>3 DEF LoadDeleteRanges
      <3> QED  BY <1>i, <3>1, JobEffect
    <2>2. Ranged'  BY <1>c, <1>e, <1>i, <2>1 DEF Ranged
    <2>3. job'[s].wake <= Now /\ (ddl.pc = "remove" => ~(tbl.ts < job[s].sp))
      BY <1>i, <1>n, <2>1 DEF Sparing
    <2>4. Caught'  BY <1>e, <1>i, <2>1, <2>3 DEF Caught, Fresh, Waited
    <2>5. Sparing'  BY <1>e, <1>i, <2>1, <2>3 DEF Sparing, Spared
    <2> QED  BY <2>2, <2>4, <2>5 DEF Destroying
  <1>4. ASSUME tbl'.pc = tbl.pc, tbl'.ts = tbl.ts, pd' = pd, job[s].pc \in Waited,
               job'[s].sp = job[s].sp, job'[s].wake = job[s].wake, tbl'.destroyed = tbl.destroyed \/ tbl.ts < job[s].sp
        PROVE  Caught'
    <2>1. \A v \in Server : Fresh(v) /\ tbl'.destroyed # {} => tbl.ts < cache[v].sp
      <3> SUFFICES ASSUME NEW v \in Server, Fresh(v), tbl'.destroyed # {} PROVE tbl.ts < cache[v].sp
        OBVIOUS
      <3>1. CASE tbl'.destroyed = tbl.destroyed
        BY <1>i, <3>1 DEF Caught
      <3>2. CASE tbl.ts < job[s].sp
        <4>1. job[s].sp <= cache[v].sp  BY <1>4, <1>w
        <4> QED  BY <1>n, <3>2, <4>1
      <3> QED  BY <1>4, <3>1, <3>2
    <2> QED  BY <1>e, <1>i, <1>4, <2>1 DEF Caught, Fresh
  <1>5. CASE UnsafeDestroyRange(s)
    <2>1. PICK stores \in SUBSET Store : /\ JobStep(s, "destroy", IF stores = Store THEN "complete" ELSE "redo")
                                         /\ tbl' = [tbl EXCEPT !.destroyed = @ \cup stores]
      BY <1>5 DEF UnsafeDestroyRange
    <2>2. /\ tbl'.row = tbl.row /\ tbl'.pc = tbl.pc /\ tbl'.ts = tbl.ts /\ tbl'.snapshot = tbl.snapshot
          /\ tbl'.destroyed = tbl.destroyed \cup stores /\ tbl.destroyed \subseteq Store
      BY <1>t, <2>1 DEF Table
    <2>3. /\ job[s].pc = "destroy" /\ job'[s].sp = job[s].sp /\ job'[s].wake = job[s].wake
          /\ job'[s].pc = IF stores = Store THEN "complete" ELSE "redo"
      BY <1>i, <2>1, JobEffect
    <2>4. etcd' = etcd /\ pd' = pd
      BY <1>5 DEF UnsafeDestroyRange
    <2>5. tbl.ts < job[s].sp /\ job[s].sp = etcd.saved /\ tbl.pc \in Dropped
      BY <1>i, <2>3 DEF Ranged, OrderedJob, Waited
    <2>6. Ranged'  BY <1>e, <1>i, <2>2, <2>3, <2>4, <2>5 DEF Ranged
    <2>7. Caught'  BY <1>4, <2>2, <2>3, <2>4, <2>5 DEF Waited
    <2>8. Sparing'  BY <1>e, <1>i, <2>2, <2>3 DEF Sparing, Spared
    <2> QED  BY <2>6, <2>7, <2>8 DEF Destroying
  <1>6. CASE CompleteDeleteRange(s)
    <2>1. /\ tbl'.destroyed = tbl.destroyed /\ (tbl'.row = tbl.row \/ (tbl.row = "todo" /\ tbl'.row = "done"))
          /\ tbl'.pc = tbl.pc /\ tbl'.ts = tbl.ts /\ tbl'.snapshot = tbl.snapshot
      BY <1>t, <1>6 DEF CompleteDeleteRange, Table
    <2>2. /\ job[s].pc = "complete" /\ job'[s].pc = "redo" /\ job'[s].sp = job[s].sp /\ job'[s].wake = job[s].wake
          /\ pd' = pd
      BY <1>i, <1>6, JobEffect DEF CompleteDeleteRange
    <2>3. Ranged'  BY <1>c, <1>e, <1>i, <2>1, <2>2 DEF Ranged
    <2>4. Caught'  BY <1>4, <2>1, <2>2 DEF Waited
    <2>5. Sparing'  BY <1>e, <1>i, <2>1, <2>2 DEF Sparing, Spared
    <2> QED  BY <2>3, <2>4, <2>5 DEF Destroying
  <1>7. CASE RedoDeleteRanges(s)
    <2>1. /\ etcd' = etcd /\ pd' = pd
          /\ job[s].pc = "redo" /\ job'[s].pc = "upload" /\ job'[s].sp = job[s].sp /\ job'[s].wake = job[s].wake
      BY <1>i, <1>7, JobEffect DEF RedoDeleteRanges
    <2>2. CASE tbl' = tbl
      <3>1. Ranged'  BY <1>e, <1>i, <2>1, <2>2 DEF Ranged
      <3>2. Caught'  BY <1>4, <2>1, <2>2 DEF Waited
      <3>3. Sparing'  BY <1>e, <1>i, <2>1, <2>2 DEF Sparing, Spared
      <3> QED  BY <3>1, <3>2, <3>3 DEF Destroying
    <2>3. CASE tbl' # tbl
      <3>1. tbl.row = "done" /\ tbl.ts < job[s].sp - TS(RedoDelay)
        BY <1>7, <2>3 DEF RedoDeleteRanges
      <3>2. TS(RedoDelay) \in Nat
        BY Times, GCAssumption
      <3>3. tbl.ts < job[s].sp
        BY <1>n, <3>1, <3>2
      <3>4. /\ tbl'.pc = tbl.pc /\ tbl'.ts = tbl.ts /\ tbl'.snapshot = tbl.snapshot /\ tbl'.row \in {"done", "gone"}
            /\ \E stores \in SUBSET Store : tbl'.destroyed \in {Store, tbl.destroyed \cup stores}
        BY <1>t, <1>7, <2>3, <3>1 DEF RedoDeleteRanges, Table
      <3>5. tbl.destroyed = Store /\ tbl'.destroyed = Store /\ tbl.pc \in Dropped /\ job[s].sp = etcd.saved
        BY <1>i, <2>1, <3>1, <3>4 DEF Ranged, OrderedJob, Waited
      <3>6. Ranged'  BY <1>e, <1>i, <2>1, <3>3, <3>4, <3>5 DEF Ranged
      <3>7. Caught'  BY <1>4, <2>1, <3>3, <3>4 DEF Waited
      <3>8. Sparing'  BY <1>e, <1>i, <2>1, <3>1, <3>4, <3>5 DEF Sparing, Spared
      <3> QED  BY <3>6, <3>7, <3>8 DEF Destroying
    <2> QED  BY <2>2, <2>3
  <1>8. CASE UploadSafePoint(s)
    <2>1. tbl' = tbl /\ job[s].pc = "upload" /\ job'[s].pc = "done" /\ pd'.gc \in {pd.gc, job[s].sp}
      BY <1>i, <1>t, <1>8, JobEffect DEF UploadSafePoint, PD
    <2>2. Ranged'  BY <1>c, <1>e, <1>i, <2>1 DEF Ranged
    <2>3. \A v \in Server : Fresh(v) => pd'.gc <= cache[v].sp
      BY <1>i, <1>w, <2>1 DEF Caught, Waited
    <2>4. Caught'  BY <1>e, <1>i, <2>1, <2>3 DEF Caught, Fresh, Waited
    <2>5. Sparing'  BY <1>e, <1>i, <2>1 DEF Sparing, Spared
    <2> QED  BY <2>2, <2>4, <2>5 DEF Destroying
  <1> QED  BY <1>1, <1>2, <1>3, <1>5, <1>6, <1>7, <1>8 DEF RunStep

\* A range that ends below a safe point has ended for the validation of its snapshot.
LEMMA Passed ==
    ASSUME Typed, Ranged, tbl.pc \in Dropped, NEW sp \in Nat, Physical(sp) <= tidb.safePoint, tbl.ts < sp
    PROVE  ~ValidateSnapshot
  <1>1. tbl.ts \in Nat /\ tbl.snapshot \in Nat /\ tidb.safePoint \in Nat
    BY DEF Typed, Table, Tidb
  <1>2. Physical(tbl.ts) <= Physical(sp)
    BY <1>1, Order
  <1>3. Physical(tbl.snapshot) < tidb.safePoint
    BY <1>1, <1>2, Times DEF Ranged
  <1>4. TS(tidb.safePoint) <= tbl.snapshot => Physical(tbl.snapshot) >= tidb.safePoint
    <2>1. \A m, n \in Int : TS(m) \in Int /\ (TS(m) <= n => n >= TS(m))
      BY Times
    <2>2. \A m, n \in Int : TS(m) <= n => Physical(n) >= m
      BY <2>1, Order
    <2> QED  BY <1>1, <2>2
  <1> QED  BY <1>1, <1>3, <1>4, Times DEF ValidateSnapshot

\* DROP and RECOVER TABLE keep Destroying: when the safe point is checked, the jobs that could destroy
\* the range have not saved a safe point above it, or have not woken up.
LEMMA TableDestroying ==
    ASSUME Collecting, TableStep
    PROVE  Destroying'
  <1>i. Typed /\ Ordered /\ Ranged /\ Caught /\ Sparing
    BY DEF Collecting, Destroying
  <1>t. tbl \in Table /\ ddl \in DDL /\ tso \in Nat
    BY DEF Collecting, Typed, Remembered
  <1>n. etcd.saved \in Nat /\ tbl.ts \in Nat /\ \A w \in Server : job[w].sp \in Nat
    BY <1>i, Numbers
  <1>e. UNCHANGED <<job, pd, etcd, cache>> /\ Now' = Now
    BY <1>i, TableFrame, TableKeeps
  <1>0. ASSUME tbl'.destroyed = tbl.destroyed, tbl.destroyed = {} \/ tbl'.ts = tbl.ts
        PROVE  Caught'
    BY <1>e, <1>i, <1>0 DEF Caught, Fresh
  <1>1. CASE DropTable
    <2>1. /\ tbl.pc = "live" /\ tbl'.pc = "dropping" /\ tbl'.row = tbl.row /\ tbl'.ts = tbl.ts /\ ddl' = ddl
          /\ tbl'.destroyed = tbl.destroyed
      BY <1>t, <1>1 DEF DropTable, Table
    <2>2. Ranged' /\ ddl.pc = "none"  BY <1>e, <1>i, <2>1 DEF Ranged, Dropped
    <2>3. Sparing'  BY <2>1, <2>2 DEF Sparing
    <2> QED  BY <1>0, <2>1, <2>2, <2>3 DEF Destroying
  <1>2. CASE InsertDeleteRange
    <2>1. /\ tbl.pc = "dropping" /\ tbl'.pc = "dropped" /\ tbl'.row = "todo" /\ ddl' = ddl /\ tbl'.snapshot = tbl.snapshot
          /\ tbl'.ts = tso + 1 /\ Physical(tso + 1) = Now /\ Now > Physical(tbl.snapshot)
          /\ tbl'.destroyed = tbl.destroyed
      BY <1>t, <1>2 DEF InsertDeleteRange, NewTS, Table
    <2>2. Now \in Int /\ Physical(tbl.snapshot) \in Int
      BY <1>t, Times DEF Now, Table
    <2>3. Physical(tbl'.snapshot) < Physical(tbl'.ts)
      BY <2>1, <2>2
    <2>4. tbl.destroyed = {} /\ ddl.pc = "none"
      BY <1>i, <2>1 DEF Ranged, Dropped
    <2>5. Ranged'  BY <1>e, <1>i, <2>1, <2>3, <2>4 DEF Ranged, Dropped
    <2>6. Sparing'  BY <2>1, <2>4 DEF Sparing
    <2> QED  BY <1>0, <2>1, <2>4, <2>5, <2>6 DEF Destroying
  <1>3. CASE RecoverTable \/ SetCheckFlag \/ DisableGC \/ FinishRecoverTable
    <2>1. tbl' = tbl /\ (tbl.pc = "dropped" \/ ddl.pc # "none")
          /\ (ddl'.pc = ddl.pc \/ ddl'.pc \in {"flag", "disable", "check", "finished"})
      BY <1>t, <1>3 DEF RecoverTable, SetCheckFlag, DisableGC, DDLStep, FinishRecoverTable, DDL
    <2>2. Ranged'  BY <1>e, <1>i, <2>1 DEF Ranged, Dropped
    <2>3. Sparing'  BY <1>e, <1>i, <2>1 DEF Sparing, Spared
    <2> QED  BY <1>0, <2>1, <2>2, <2>3 DEF Destroying
  <1>4. CASE CheckSafePoint
    <2>1. tbl' = tbl /\ ddl.pc = "check" /\ ddl'.pc = IF ValidateSnapshot THEN "remove" ELSE "cancelled"
      BY <1>t, <1>4 DEF CheckSafePoint, DDLStep, DDL
    <2>2. Ranged'  BY <1>e, <1>i, <2>1 DEF Ranged
    <2>3. CASE ~ValidateSnapshot
      <3>1. Sparing'  BY <1>e, <1>i, <2>1, <2>3 DEF Sparing, Spared
      <3> QED  BY <1>0, <2>1, <2>2, <3>1 DEF Destroying
    <2>4. CASE ValidateSnapshot
      <3>1. \A sp \in Nat : Physical(sp) <= tidb.safePoint => ~(tbl.ts < sp)
        BY <1>i, <2>1, <2>4, Passed DEF Ranged
      <3>2. tbl.destroyed = {}
        BY <1>i, <1>n, <3>1 DEF Ranged, Ordered
      <3>3. \A w \in Server : job[w].pc # "none" => ~(tbl.ts < job[w].sp)
        BY <1>i, <1>n, <3>1 DEF Ordered, OrderedJob
      <3>4. \A w \in Server : job[w].pc # "none" => job[w].sp <= tbl.ts
        BY <1>n, <3>3
      <3>5. Spared
        BY <1>i, <3>2, <3>3 DEF Spared, Ranged
      <3>6. Sparing'  BY <1>e, <1>i, <2>1, <2>4, <3>4, <3>5 DEF Sparing, Spared
      <3> QED  BY <1>0, <2>1, <2>2, <3>6 DEF Destroying
    <2> QED  BY <2>3, <2>4
  <1>5. CASE RemoveFromGCDeleteRange
    <2>1. /\ ddl.pc = "remove" /\ ddl'.pc = "commit" /\ tbl'.destroyed = tbl.destroyed
          /\ tbl'.pc = tbl.pc /\ tbl'.ts = tbl.ts /\ tbl'.snapshot = tbl.snapshot
          /\ tbl'.row = IF tbl.row = "todo" THEN "none" ELSE tbl.row
      BY <1>t, <1>5 DEF RemoveFromGCDeleteRange, DDLStep, Table, DDL
    <2>2. Ranged'  BY <1>e, <1>i, <2>1 DEF Ranged
    <2>3. Spared  BY <1>i, <2>1 DEF Sparing
    <2>4. Sparing'  BY <1>e, <2>1, <2>3 DEF Sparing, Spared
    <2> QED  BY <1>0, <2>1, <2>2, <2>4 DEF Destroying
  <1>6. CASE CommitRecover
    <2>1. /\ ddl.pc = "commit" /\ ddl'.pc \in {"done", "disable", "cancelled"} /\ tbl'.destroyed = tbl.destroyed
          /\ tbl'.pc \in {tbl.pc, "recovered"} /\ tbl'.ts = tbl.ts /\ tbl'.snapshot = tbl.snapshot
          /\ tbl'.row = tbl.row
      BY <1>t, <1>6 DEF CommitRecover, DDLStep, Table, DDL
    <2>2. Ranged'  BY <1>e, <1>i, <2>1 DEF Ranged, Dropped
    <2>3. Spared /\ tbl.row # "todo"  BY <1>i, <2>1 DEF Sparing
    <2>4. Sparing'  BY <1>e, <2>1, <2>3 DEF Sparing, Spared
    <2> QED  BY <1>0, <2>1, <2>2, <2>4 DEF Destroying
  <1> QED  BY <1>1, <1>2, <1>3, <1>4, <1>5, <1>6 DEF TableStep

\* Every step keeps Collecting while one worker acts.
LEMMA NextCollecting ==
    ASSUME Collecting, OneActs, [Next]_vars
    PROVE  Collecting'
  <1>i. Typed /\ Ordered /\ Ranged /\ Caught /\ Sparing
    BY DEF Collecting, Destroying
  <1>n. /\ Now \in Nat /\ CacheInterval \in Nat /\ etcd.saved \in Nat /\ pd.gc \in Nat /\ tbl.ts \in Nat
        /\ \A w \in Server : job[w].sp \in Nat /\ job[w].wake \in Nat /\ cache[w].time \in Nat
    BY <1>i, Numbers, GCAssumption DEF Typed, Cache
  <1>0. ASSUME UNCHANGED <<tbl, ddl, cache>>, Now' = Now, pd'.gc = pd.gc, etcd'.saved = etcd.saved,
               \A w \in Server : job'[w] = job[w] \/ job'[w].pc \in {"none", "resolve"}
        PROVE  Destroying'
    <2>1. Ranged'  BY <1>i, <1>0 DEF Ranged
    <2>2. Caught'  BY <1>i, <1>0 DEF Caught, Fresh, Waited
    <2>3. Sparing'  BY <1>i, <1>0 DEF Sparing, Spared
    <2> QED  BY <2>1, <2>2, <2>3 DEF Destroying
  <1>1. Apart => Destroying'
    BY <1>0 DEF Apart
  <1>2. ASSUME NEW s \in Server, TickStep(s) PROVE Destroying'
    BY <1>0, <1>2, <1>i, TickFrame, TickKeeps
  <1>3. ASSUME NEW s \in Server, Crash(s) PROVE Destroying'
    BY <1>0, <1>3, <1>i, CrashKeeps
  <1>4. ASSUME NEW s \in Server, LoadSafePoint(s) PROVE Destroying'
    <2>1. /\ UNCHANGED <<job, pd, tbl, ddl, etcd>> /\ Now' = Now
          /\ cache'[s].sp = etcd.saved /\ cache'[s].time = Now
          /\ \A w \in Server \ {s} : cache'[w] = cache[w]
      BY <1>4, <1>i DEF LoadSafePoint, Typed, Now
    <2>2. Ranged'  BY <1>i, <2>1 DEF Ranged
    <2>3. pd.gc <= etcd.saved /\ (tbl.destroyed # {} => tbl.ts < etcd.saved) /\ Now <= Now
          /\ \A w \in Server : job[w].pc \in Waited \cup {"sleep"} => job[w].sp <= etcd.saved
      BY <1>i, <1>n DEF Ordered, OrderedJob, Ranged
    <2>4. Caught'  BY <1>i, <2>1, <2>3 DEF Caught, Fresh
    <2>5. Sparing'  BY <1>i, <2>1 DEF Sparing, Spared
    <2> QED  BY <2>2, <2>4, <2>5 DEF Destroying
  <1>5. ASSUME Tick PROVE Destroying'
    <2>1. UNCHANGED <<job, pd, tbl, ddl, etcd, cache>> /\ ddl.pc # "remove"
      BY <1>5 DEF Tick
    <2>2. Now' \in Nat /\ Now' >= Now
      BY <1>i, TimeGrows
    <2>3. \A s \in Server : cache'[s].time <= Now' /\ (Fresh(s)' => Fresh(s)) /\ (job'[s].pc \in Waited => job'[s].wake <= Now')
      <3>1. \A s \in Server : cache[s].time <= Now /\ (job[s].pc \in Waited => job[s].wake <= Now)
        BY <1>i DEF Caught
      <3> QED  BY <1>n, <2>1, <2>2, <3>1 DEF Fresh
    <2>4. Ranged'  BY <1>i, <2>1 DEF Ranged
    <2>5. Caught'  BY <1>i, <2>1, <2>3 DEF Caught
    <2>6. Sparing'  BY <1>i, <2>1 DEF Sparing, Spared
    <2> QED  BY <2>4, <2>5, <2>6 DEF Destroying
  <1>6. Destroying'
    BY <1>1, <1>2, <1>3, <1>4, <1>5, <1>i, RunDestroying, TableDestroying, Sides
  <1> QED  BY <1>6, NextTyped, NextRemembered, NextOrdered DEF Collecting

\* Nothing was destroyed at first.
LEMMA InitCollecting == Init => Collecting
  <1> SUFFICES ASSUME Init PROVE Destroying
    <2>1. Init => Remembered
      BY DEF Init, Remembered, DDL
    <2> QED  BY <2>1, InitTyped, InitOrdered DEF Collecting
  <1>1. /\ tbl.pc \in {"live", "dropping", "dropped"} /\ tbl.destroyed = {}
        /\ tbl.row \in {"none", "todo"}
        /\ IF tbl.pc = "dropped" THEN Physical(tbl.snapshot) < Physical(tbl.ts) ELSE tbl.row = "none"
    BY StartAssumption DEF Init
  <1>2. /\ ddl.pc = "none" /\ \A w \in Server : job[w].pc = "none" /\ cache[w].time = LifeTime /\ cache[w].sp = 0
        /\ pd.gc = 0 /\ Now = LifeTime /\ LifeTime \in Nat
    <2>1. LifeTime \in Nat /\ tso = TS(LifeTime)
      BY GCAssumption DEF Init
    <2>2. Now = LifeTime
      BY <2>1, Order DEF Now
    <2> QED  BY <2>1, <2>2 DEF Init, NoJob
  <1>3. Ranged  BY <1>1, <1>2 DEF Ranged, Dropped
  <1>4. Caught  BY <1>1, <1>2 DEF Caught, Fresh, Waited
  <1>5. Sparing  BY <1>1, <1>2 DEF Sparing
  <1> QED  BY <1>3, <1>4, <1>5 DEF Destroying

\* While one worker acts at a time, for any number of workers: no transaction that may read misses a
\* version, the row of a range goes after its data, a recovered table has its data, and the saved
\* safe points never go back (runGCJob, CheckVisibility, onRecoverTable).
THEOREM OneLeaderCollects == Spec /\ []OneActs => [](NoSilentRead /\ RangeGone /\ RecoverSafe) /\ NeverDecreases
  <1>1. Collecting => NoSilentRead /\ RangeGone /\ RecoverSafe
    <2> SUFFICES ASSUME Collecting PROVE NoSilentRead /\ RangeGone /\ RecoverSafe
      OBVIOUS
    <2>i. Typed /\ Ordered /\ Ranged /\ Caught /\ Sparing
      BY DEF Collecting, Destroying
    <2>n. /\ etcd.saved \in Nat /\ pd.gc \in Nat /\ tbl.ts \in Nat /\ \A t \in Txn : txn[t].start \in Nat
          /\ \A s \in Server : cache[s].sp \in Nat
      BY <2>i, Numbers DEF Typed, Cache, Transaction
    <2>1. NoSilentRead
      <3> SUFFICES ASSUME NEW t \in setup.txns, CheckVisibility(setup.server[t], txn[t].start)
                   PROVE  pd.gc <= txn[t].start /\ (tbl.destroyed # {} => tbl.ts <= txn[t].start)
        BY DEF NoSilentRead
      <3>1. t \in Txn /\ setup.server[t] \in Server
        BY <2>i, GCAssumption, StartAssumption DEF Typed
      <3>2. Fresh(setup.server[t]) /\ cache[setup.server[t]].sp <= txn[t].start
        BY DEF CheckVisibility, Fresh
      <3>3. /\ pd.gc <= cache[setup.server[t]].sp
            /\ tbl.destroyed # {} => tbl.ts < cache[setup.server[t]].sp
        BY <2>i, <3>1, <3>2 DEF Caught
      <3>4. /\ txn[t].start \in Nat /\ cache[setup.server[t]].sp \in Nat /\ pd.gc \in Nat /\ tbl.ts \in Nat
        BY <2>n, <3>1
      <3> QED  BY <3>2, <3>3, <3>4
    <2>2. RangeGone
      <3>1. tbl.destroyed # {} => tbl.pc \in Dropped /\ tbl.ts < etcd.saved /\ Physical(etcd.saved) <= tidb.safePoint
        BY <2>i DEF Ranged, Ordered
      <3>2. tbl.destroyed # {} => ~ValidateSnapshot
        BY <2>i, <2>n, <3>1, Passed
      <3> QED  BY <2>i, <3>2 DEF RangeGone, Ranged
    <2>3. RecoverSafe
      BY <2>i DEF RecoverSafe, Sparing, Spared
    <2> QED  BY <2>1, <2>2, <2>3
  <1>2. Collecting /\ OneActs /\ [Next]_vars =>
          [etcd'.saved >= etcd.saved /\ tidb'.safePoint >= tidb.safePoint]_vars
    BY NextOrdered DEF Collecting, Onward
  <1> QED  BY <1>1, <1>2, InitCollecting, NextCollecting, PTL DEF Spec, NeverDecreases

\* With one GC worker beside the leader, a transaction that may read finds every version it can see.
THEOREM NoLostRead ==
    ASSUME Standby
    PROVE  Spec => []NoSilentRead
  BY OneLeader, OneLeaderCollects, PTL

\* With one GC worker beside the leader, the row of a range goes after its data, and its data go when
\* RECOVER TABLE would refuse.
THEOREM RowsKept ==
    ASSUME Standby
    PROVE  Spec => []RangeGone
  BY OneLeader, OneLeaderCollects, PTL

\* With one GC worker beside the leader, a table that RECOVER TABLE gave back has its data.
THEOREM TablesRecovered ==
    ASSUME Standby
    PROVE  Spec => []RecoverSafe
  BY OneLeader, OneLeaderCollects, PTL

\* With one GC worker beside the leader, the saved safe points never go back.
THEOREM NoSetback ==
    ASSUME Standby
    PROVE  Spec => NeverDecreases
  BY OneLeader, OneLeaderCollects, PTL
=============================================================================
