--------------------------- MODULE GCTransactions ---------------------------
(* Proofs about transactions and GC, for any number of servers, transactions and *)
(* setups: no safe point overtakes a transaction that GC waits for.               *)
EXTENDS GCProofs

USE ZenonT(5), SMTT(30)    \* the provers of a step that names none

-----------------------------------------------------------------------------
(* Transactions. Whatever the reports say, no safe point is newer than the life *)
(* time allows; and while the reports are there, a transaction is younger than  *)
(* that until the minimum of its server covers it.                              *)

Unheard == May("etcd") \/ May("silent") \/ May("expire")
Limit == IF Unheard THEN LifeTime ELSE MaxWait

\* No safe point in use, and none that a tick is about to use, is above x.
UpTo(x) ==
    /\ pd.gc <= x /\ etcd.saved <= x
    /\ \A w \in Server : /\ job[w].pc # "none" => job[w].sp <= x
                         /\ worker[w].pc \in Valued => worker[w].value <= x

Allowed ==
    /\ UpTo(TS(Now - LifeTime))
    /\ \A w \in Server : worker[w].now <= Now

Reporting ==
    /\ \A s \in Server : report[s].time <= Now
    /\ ~May("silent") => \A s \in Hosts \cap up : Now <= report[s].time + ReportInterval
    /\ \A t \in Txn : txn[t].pc = "running" => t \in setup.txns /\ setup.server[t] \in up

Covered(start, r, min) ==
    /\ r.pc = "listed" => start \in r.list \/ start > TS(r.time)
    /\ (min # None /\ min <= start) \/ start > TS(r.time - ReportInterval)

Reported ==
    ~Unheard => \A t \in Txn :
        txn[t].pc = "running" /\ txn[t].start > TS(Now - MaxWait) =>
            Covered(txn[t].start, report[setup.server[t]], etcd.min[setup.server[t]])

Young ==
    \A t \in Txn : txn[t].start > TS(Now - Limit) =>
        /\ txn[t].pc # "aborted"
        /\ txn[t].pc = "running" => UpTo(txn[t].start - 1)

\* Only the calculation of a new safe point can pass a bound that all others keep.
LEMMA Flow ==
    ASSUME Typed, [Next]_vars, NEW x \in Int, UpTo(x), \A w \in Server : ~CalcSafePoint(w)
    PROVE  UpTo(x)'
  <1>k. WorkersKept /\ JobsKept
    BY Kept
  <1>1. pd'.gc <= x
    <2>1. ASSUME NEW s \in Server, UploadSafePoint(s) PROVE pd'.gc <= x
      <3>1. pd'.gc \in {pd.gc, job[s].sp} /\ job[s].pc # "none"
        BY <2>1 DEF UploadSafePoint, JobStep, Typed, PD
      <3> QED  BY <3>1 DEF UpTo
    <2> QED  BY <2>1, Stored DEF UpTo
  <1>2. etcd'.saved <= x
    <2>1. ASSUME NEW s \in Server, SaveSafePointKV(s) PROVE etcd'.saved <= x
      <3>1. etcd'.saved = job[s].sp /\ job[s].pc # "none"
        BY <2>1 DEF SaveSafePointKV, Typed, Etcd
      <3> QED  BY <3>1 DEF UpTo
    <2> QED  BY <2>1, Stored DEF UpTo
  <1>3. ASSUME NEW w \in Server, worker'[w].pc \in Valued PROVE worker'[w].value <= x
    <2>1. CASE SetServiceSafePoint(w)
      <3> DEFINE service == UpdateServiceGCSafePoint("gc_worker", worker[w].value)
      <3>1. PICK safePoint \in Least({worker[w].value} \cup Services(service)) :
              \/ worker' = [worker EXCEPT ![w].pc = "run", ![w].value = safePoint]
              \/ Step(w, "service", "idle")
        BY <2>1 DEF SetServiceSafePoint
      <3>2. worker[w].value <= x /\ worker[w].value \in Int /\ safePoint <= worker[w].value
        BY <2>1, Fields DEF SetServiceSafePoint, UpTo, Valued, Least
      <3>3. safePoint \in Int
        <4>1. worker[w].value \in Nat /\ service \in [Service -> Nat \cup {None}]
          BY FieldsNat, UpdateTyped DEF Service
        <4> QED  BY <4>1 DEF Least, Services
      <3>4. ~Step(w, "service", "idle")
        BY <1>3, StepEffect DEF Valued
      <3>5. worker'[w].value = safePoint
        BY <3>1, <3>4 DEF Typed, Worker
      <3> QED  BY <3>2, <3>3, <3>5
    <2>2. CASE worker'[w].value = worker[w].value /\ worker[w].pc \in Valued
      BY <2>2 DEF UpTo
    <2> QED  BY <1>k, <1>3, <2>1, <2>2 DEF WorkersKept, Valued
  <1>4. ASSUME NEW w \in Server, job'[w].pc # "none" PROVE job'[w].sp <= x
    BY <1>k, <1>4 DEF JobsKept, UpTo, Valued
  <1> QED  BY <1>1, <1>2, <1>3, <1>4 DEF UpTo

\* A bound may be raised.
LEMMA FlowUp ==
    ASSUME Typed, [Next]_vars, NEW x \in Int, NEW y \in Int, x <= y, UpTo(x), \A w \in Server : ~CalcSafePoint(w)
    PROVE  UpTo(y)'
  <1>1. Typed'  BY NextTyped
  <1>2. /\ pd'.gc \in Int /\ etcd'.saved \in Int
        /\ \A w \in Server : job'[w].sp \in Int /\ worker'[w].value \in Int
    BY <1>1 DEF Typed, PD, Etcd, Job, Worker
  <1>3. UpTo(x)'  BY Flow
  <1> QED  BY <1>2, <1>3 DEF UpTo

\* What the calculation of a new safe point gives.
LEMMA Calculation ==
    ASSUME Typed, NEW w \in Server, CalcSafePoint(w)
    PROVE  \E value \in Nat :
             /\ worker' = [worker EXCEPT ![w].pc = "service", ![w].value = value]
             /\ value <= TS(worker[w].now - LifeTime)
             /\ ~May("etcd") => \A s \in Server : etcd.min[s] # None =>
                                   value <= IF etcd.min[s] > 0 THEN etcd.min[s] - 1 ELSE etcd.min[s]
  <1> DEFINE safePoint == TS(worker[w].now - LifeTime)
  <1>1. PICK value : /\ value \in calcSafePointByMinStartTS(safePoint) \cup (IF May("etcd") THEN {safePoint} ELSE {})
                     /\ worker' = [worker EXCEPT ![w].pc = "service", ![w].value = value]
    BY DEF CalcSafePoint
  <1>2. safePoint \in Nat
    <2>1. worker[w].now - LifeTime \in Nat
      BY FieldsNat, GCAssumption DEF Typed, Calculating, CalcSafePoint
    <2> QED  BY <2>1, Times
  <1>3. etcd.min \in [Server -> Nat \cup {None}] /\ None \notin Nat
    BY GCAssumption DEF Typed, Etcd
  <1> DEFINE below(ts) == IF ts > 0 THEN ts - 1 ELSE ts
  <1>4. \A ts \in calcGlobalMinStartTS : ts \in Nat /\ below(ts) \in Nat
    BY FieldsNat
  <1>5. \A s \in Server : etcd.min[s] # None => etcd.min[s] \in calcGlobalMinStartTS
    BY DEF calcGlobalMinStartTS
  <1> DEFINE S == {safePoint} \cup {below(ts) : ts \in calcGlobalMinStartTS}
  <1>6. value \in Least(S) \/ (May("etcd") /\ value = safePoint)
    BY <1>1 DEF calcSafePointByMinStartTS
  <1>7. S \subseteq Nat /\ safePoint \in S /\ \A s \in Server : etcd.min[s] # None => below(etcd.min[s]) \in S
    BY <1>2, <1>4, <1>5
  <1> HIDE DEF S, safePoint
  <1>8. value \in Nat /\ value <= safePoint
    <2>1. CASE value \in Least(S)
      <3>1. value \in S /\ \A y \in S : value <= y  BY <2>1 DEF Least
      <3> QED  BY <1>7, <3>1
    <2>2. CASE value = safePoint
      BY <1>2, <2>2
    <2> QED  BY <1>6, <2>1, <2>2
  <1>9. ~May("etcd") => \A s \in Server : etcd.min[s] # None => value <= below(etcd.min[s])
    BY <1>6, <1>7 DEF Least
  <1> QED  BY <1>1, <1>8, <1>9 DEF safePoint

\* A new value keeps a bound that it does not pass itself.
LEMMA CalculationUpTo ==
    ASSUME Typed, NEW w \in Server, CalcSafePoint(w), NEW value \in Nat, NEW x \in Int, UpTo(x), value <= x,
           worker' = [worker EXCEPT ![w].pc = "service", ![w].value = value]
    PROVE  UpTo(x)'
  <1>1. /\ \A v \in Server \ {w} : worker'[v] = worker[v]
        /\ worker'[w].value = value
    BY DEF Typed, Worker
  <1> QED  BY <1>1 DEF UpTo, CalcSafePoint

\* The life time keeps every safe point back.
LEMMA NextAllowed ==
    ASSUME Typed, Allowed, [Next]_vars
    PROVE  Allowed'
  <1>t. /\ Now \in Nat /\ Now' \in Nat /\ Now <= Now' /\ LifeTime \in Int
        /\ TS(Now - LifeTime) \in Int /\ TS(Now - LifeTime) <= TS(Now' - LifeTime)
    BY Present, TimeGrows, GCAssumption
  <1>1. TS(Now' - LifeTime) \in Int
    BY <1>t, Times
  <1>2. UpTo(TS(Now - LifeTime))'
    <2>1. PICK x \in Int : x = TS(Now - LifeTime)  BY <1>t
    <2>2. PICK y \in Int : y = TS(Now' - LifeTime)  BY <1>1
    <2>3. UpTo(x)  BY <2>1 DEF Allowed
    <2>4. UpTo(y)'
      <3>1. CASE \A w \in Server : ~CalcSafePoint(w)
        BY <1>t, <2>1, <2>2, <2>3, <3>1, FlowUp
      <3>2. ASSUME NEW w \in Server, CalcSafePoint(w) PROVE UpTo(y)'
        <4>1. PICK value \in Nat :
                /\ worker' = [worker EXCEPT ![w].pc = "service", ![w].value = value]
                /\ value <= TS(worker[w].now - LifeTime)
          BY <3>2, Calculation
        <4>2. worker[w].now <= Now /\ worker[w].now \in Int
          BY <3>2, Fields DEF Allowed, CalcSafePoint
        <4>3. TS(worker[w].now - LifeTime) \in Int /\ TS(worker[w].now - LifeTime) <= x
          <5>1. worker[w].now - LifeTime \in Int /\ Now - LifeTime \in Int /\ worker[w].now - LifeTime <= Now - LifeTime
            BY <1>t, <4>2
          <5> QED  BY <2>1, <5>1, Times, Order
        <4>4. value <= x  BY <4>1, <4>3
        <4>5. UpTo(x)'  BY <2>3, <3>2, <4>1, <4>4, CalculationUpTo
        <4>6. x = y
          BY <3>2, <2>1, <2>2 DEF CalcSafePoint, Now
        <4> QED  BY <4>5, <4>6
      <3> QED  BY <3>1, <3>2
    <2> QED  BY <2>2, <2>4 DEF UpTo
  <1>3. \A w \in Server : worker'[w].now <= Now'
    <2> SUFFICES ASSUME NEW w \in Server PROVE worker'[w].now <= Now'
      OBVIOUS
    <2>1. worker[w].now <= Now /\ worker[w].now \in Int
      BY Fields DEF Allowed
    <2> QED  BY <1>t, <2>1, Kept DEF WorkersKept
  <1> QED  BY <1>2, <1>3 DEF Allowed

\* The steps that change what the servers report or run; setups never change.
LEMMA Quiet ==
    ASSUME Typed, [Next]_vars
    PROVE  /\ setup' = setup
           /\ \/ UNCHANGED <<up, txn, report>> /\ Now' = Now /\ etcd'.min = etcd.min
              \/ Tick
              \/ \E t \in Txn : Begin(t) \/ Finish(t)
              \/ \E s \in Server :
                   ResolveLocks(s) \/ ListProcesses(s) \/ StoreMinStartTS(s) \/ ExpireMinStartTS(s) \/ Crash(s)
  <1>1. UNCHANGED setup
    BY Sorted, TickFrame, RunFrame, ReportFrame, BackupFrame, TableFrame
       DEF LoadSafePoint, Crash, Begin, Finish, Tick, vars
  <1>2. \/ UNCHANGED <<up, txn, report>>
        \/ Tick
        \/ \E t \in Txn : Begin(t) \/ Finish(t)
        \/ \E s \in Server : ResolveLocks(s) \/ ListProcesses(s) \/ StoreMinStartTS(s) \/ ExpireMinStartTS(s) \/ Crash(s)
    BY Sorted, TickFrame, RunFrame, BackupFrame, TableFrame DEF ReportStep, LoadSafePoint, vars
  <1> QED  BY <1>1, <1>2, Stored, TimeGrows

\* Reports are as old as the interval at most, and transactions run where a server is up.
LEMMA NextReporting ==
    ASSUME Typed, Reporting, [Next]_vars
    PROVE  Reporting'
  <1>t. /\ Now \in Nat /\ Now' \in Nat /\ Now <= Now' /\ ReportInterval \in Nat
        /\ \A s \in Server : report[s].time \in Nat /\ report'[s].time \in Nat
    BY Present, TimeGrows, GCAssumption, NextTyped DEF Typed, Report
  <1>s. setup' = setup /\ Hosts' = Hosts /\ \A f : May(f)' = May(f)
    BY Quiet DEF Hosts, May
  <1>h. Hosts \subseteq Server
    BY StartAssumption DEF Typed, Hosts
  <1>1. CASE UNCHANGED <<up, txn, report>> /\ Now' = Now
    BY <1>1, <1>s DEF Reporting
  <1>2. CASE Tick
    <2>1. UNCHANGED <<up, txn, report>> /\ \A s \in Hosts \cap up : May("silent") \/ Now < report[s].time + ReportInterval
      BY <1>2 DEF Tick
    <2>2. Now' = Now + 1
      <3>1. Physical(TS(Now + 1)) = Now + 1
        <4>1. Now + 1 \in Int  BY <1>t
        <4> QED  BY <4>1, Order
      <3> QED  BY <1>2, <3>1 DEF Tick, Now
    <2>3. \A s \in Server : report'[s].time <= Now'
      BY <1>t, <2>1 DEF Reporting
    <2>4. ~May("silent")' => \A s \in (Hosts \cap up)' : Now' <= report'[s].time + ReportInterval
      <3> SUFFICES ASSUME ~May("silent"), NEW s \in Hosts \cap up PROVE Now + 1 <= report[s].time + ReportInterval
        BY <1>s, <2>1, <2>2
      <3> QED  BY <1>h, <1>t, <2>1
    <2>5. \A t \in Txn : txn'[t].pc = "running" => t \in setup'.txns /\ setup'.server[t] \in up'
      BY <1>s, <2>1 DEF Reporting
    <2> QED  BY <2>3, <2>4, <2>5 DEF Reporting
  <1>3. ASSUME NEW t \in Txn, Begin(t) \/ Finish(t) PROVE Reporting'
    <2>1. UNCHANGED <<up, report>> /\ Now' = Now
      <3>1. UNCHANGED <<up, report>>  BY <1>3 DEF Begin, Finish
      <3>2. Begin(t) => tso' = tso + 1 /\ Physical(tso + 1) = Now  BY DEF Begin, NewTS
      <3>3. Finish(t) => tso' = tso  BY DEF Finish
      <3> QED  BY <1>3, <3>1, <3>2, <3>3 DEF Now
    <2>2. \A u \in Txn : txn'[u].pc = "running" => u \in setup.txns /\ setup.server[u] \in up
      BY <1>3 DEF Begin, Finish, Reporting, Typed, Transaction
    <2> QED  BY <1>s, <2>1, <2>2 DEF Reporting
  <1>4. ASSUME NEW s \in Server, ResolveLocks(s) \/ ExpireMinStartTS(s) PROVE Reporting'
    <2>1. UNCHANGED <<tso, up, report>> /\ \A u \in Txn : txn'[u].pc = "running" => txn[u].pc = "running"
      BY <1>4 DEF ResolveLocks, ExpireMinStartTS, Typed, Transaction
    <2> QED  BY <1>s, <2>1 DEF Reporting, Now
  <1>5. ASSUME NEW s \in Server, ListProcesses(s) PROVE Reporting'
    <2>1. UNCHANGED <<tso, up, txn>> /\ \A r \in Server : report'[r].time = report[r].time
      BY <1>5 DEF ListProcesses, Typed, Report
    <2> QED  BY <1>s, <1>h, <2>1 DEF Reporting, Now
  <1>6. ASSUME NEW s \in Server, StoreMinStartTS(s) PROVE Reporting'
    <2>1. UNCHANGED <<tso, up, txn>> /\ \A r \in Server : report'[r].time = IF r = s THEN Now ELSE report[r].time
      BY <1>6 DEF StoreMinStartTS, Typed, Report
    <2>2. Now' = Now  BY <2>1 DEF Now
    <2> QED  BY <1>s, <1>h, <1>t, <2>1, <2>2 DEF Reporting
  <1>7. ASSUME NEW s \in Server, Crash(s) PROVE Reporting'
    <2>1. UNCHANGED tso /\ up' = up \ {s} /\ \A r \in Server : report'[r].time = report[r].time
      BY <1>7 DEF Crash, Typed, Report
    <2>2. \A u \in Txn : txn'[u].pc = "running" => txn[u].pc = "running" /\ (u \in setup.txns => setup.server[u] # s)
      BY <1>7 DEF Crash, Typed, Transaction
    <2>3. Now' = Now  BY <2>1 DEF Now
    <2> QED  BY <1>s, <1>h, <2>1, <2>2, <2>3 DEF Reporting
  <1> QED  BY <1>1, <1>2, <1>3, <1>4, <1>5, <1>6, <1>7, Quiet

\* A transaction that begins is newer than the present time, which its server reported last.
LEMMA BeginsCovered ==
    ASSUME Typed, Reporting, NEW t \in Txn, Begin(t), NEW s \in Server, NEW min
    PROVE  /\ txn'[t].start > TS(Now) /\ txn'[t].start \in Int
           /\ Covered(txn'[t].start, report[s], min)
  <1>1. txn'[t].start = tso + 1 /\ tso \in Nat
    BY DEF Begin, NewTS, Typed
  <1>2. TS(Now) <= tso /\ TS(Now) \in Int /\ Now \in Int
    BY Present
  <1>3. report[s].time \in Int /\ report[s].time <= Now /\ ReportInterval \in Nat
    BY GCAssumption DEF Typed, Report, Reporting
  <1>4. TS(report[s].time) <= TS(Now) /\ TS(report[s].time) \in Int
    BY <1>2, <1>3, Order, Times
  <1>5. TS(report[s].time - ReportInterval) <= TS(Now) /\ TS(report[s].time - ReportInterval) \in Int
    <2>1. report[s].time - ReportInterval \in Int /\ report[s].time - ReportInterval <= Now
      BY <1>2, <1>3
    <2> QED  BY <1>2, <2>1, Order, Times
  <1> QED  BY <1>1, <1>2, <1>4, <1>5 DEF Covered

\* A report covers the transactions that it lists; those that began since were listed by none before.
LEMMA StoreCovers ==
    ASSUME Typed, Reporting, ~May("silent"), NEW s \in Server, s \in Hosts, StoreMinStartTS(s), NEW start \in Int,
           start > TS(Now - MaxWait), Covered(start, report[s], etcd.min[s])
    PROVE  Covered(start, report'[s], etcd'.min[s])
  <1>1. PICK min \in Least({TS(Now)} \cup {ts \in report[s].list : ts > TS(Now - MaxWait)}) :
          etcd' = [etcd EXCEPT !.min[s] = min]
    BY DEF StoreMinStartTS
  <1>2. etcd'.min[s] = min
    BY <1>1 DEF Typed, Etcd
  <1>3. report'[s] = [pc |-> "idle", list |-> {}, time |-> Now] /\ report[s].pc = "listed" /\ s \in up
    BY DEF StoreMinStartTS, Typed
  <1>4. TS(Now) \in Nat /\ report[s].list \subseteq Nat /\ None \notin Nat
    BY Present, FieldsNat, GCAssumption
  <1>5. min \in Nat /\ min # None
    BY <1>1, <1>4 DEF Least
  <1>6. CASE start \in report[s].list
    <2>1. min <= start  BY <1>1, <1>6 DEF Least
    <2> QED  BY <1>2, <1>3, <1>5, <2>1 DEF Covered
  <1>7. CASE start > TS(report[s].time)
    <2>1. /\ Now \in Int /\ report[s].time \in Int /\ ReportInterval \in Int
          /\ Now - ReportInterval <= report[s].time
      BY <1>3, Present, GCAssumption DEF Typed, Report, Reporting
    <2>2. TS(Now - ReportInterval) <= TS(report[s].time) /\ TS(Now - ReportInterval) \in Int /\ TS(report[s].time) \in Int
      <3>1. Now - ReportInterval \in Int  BY <2>1
      <3> QED  BY <2>1, <3>1, Times, Order
    <2>3. start > TS(Now - ReportInterval)  BY <1>7, <2>2
    <2> QED  BY <1>2, <1>3, <2>3 DEF Covered
  <1> QED  BY <1>3, <1>6, <1>7 DEF Covered

\* While the reports are there, a transaction is covered until it is too old to be waited for.
LEMMA NextReported ==
    ASSUME Typed, Reporting, Reported, [Next]_vars
    PROVE  Reported'
  <1>s. setup' = setup /\ Unheard' = Unheard /\ (Unheard <=> May("etcd") \/ May("silent") \/ May("expire"))
    BY Quiet DEF Unheard, May
  <1> SUFFICES ASSUME ~Unheard, NEW t \in Txn, txn'[t].pc = "running", txn'[t].start > TS(Now' - MaxWait)
               PROVE  Covered(txn'[t].start, report'[setup.server[t]], etcd'.min[setup.server[t]])
    BY <1>s DEF Reported
  <1> DEFINE s == setup.server[t]
  <1>r. Reporting'  BY NextReporting
  <1>h. t \in setup.txns /\ s \in Server /\ s \in up' /\ s \in Hosts
    <2>1. t \in setup.txns /\ s \in up'  BY <1>r, <1>s DEF Reporting
    <2>2. s \in Server  BY <2>1, StartAssumption DEF Typed
    <2> QED  BY <2>1, <2>2 DEF Hosts
  <1>t. TS(Now - MaxWait) <= TS(Now' - MaxWait) /\ TS(Now - MaxWait) \in Int /\ TS(Now' - MaxWait) \in Int
    <2>0. MaxWait \in Nat
      BY GCAssumption
    <2>1. Now \in Nat /\ Now' \in Nat /\ Now' >= Now
      BY Present, TimeGrows
    <2>2. Now - MaxWait \in Int /\ Now' - MaxWait \in Int /\ Now - MaxWait <= Now' - MaxWait
      <3>1. \A m, n, k \in Nat : n >= m => m - k \in Int /\ n - k \in Int /\ m - k <= n - k
        OBVIOUS
      <3> QED  BY <2>0, <2>1, <3>1
    <2> QED  BY <2>2, Times, Order
  <1>f. txn[t].start \in Int  BY Fields
  <1>0. ASSUME txn[t].pc = "running", txn'[t].start = txn[t].start
        PROVE  txn'[t].start > TS(Now - MaxWait) /\ Covered(txn'[t].start, report[s], etcd.min[s])
    <2>1. txn[t].start > TS(Now - MaxWait)
      BY <1>0, <1>t, <1>f
    <2> QED  BY <1>0, <2>1 DEF Reported
  <1> HIDE DEF s
  <1>1. CASE UNCHANGED <<up, txn, report>> /\ Now' = Now /\ etcd'.min = etcd.min
    BY <1>1, <1>0 DEF s
  <1>2. CASE Tick
    BY <1>2, <1>0 DEF Tick, s
  <1>3. ASSUME NEW u \in Txn, Begin(u) PROVE Covered(txn'[t].start, report'[s], etcd'.min[s])
    <2>0. report' = report /\ etcd' = etcd /\ txn' = [txn EXCEPT ![u] = [pc |-> "running", start |-> tso']]
      BY <1>3 DEF Begin
    <2>1. CASE u = t
      <3>1. Covered(txn'[t].start, report[s], etcd.min[s])
        BY <1>3, <1>h, <2>1, BeginsCovered
      <3> QED  BY <2>0, <3>1
    <2>2. CASE u # t
      <3>1. txn'[t] = txn[t]
        BY <2>0, <2>2 DEF Typed
      <3> QED  BY <1>0, <2>0, <3>1
    <2> QED  BY <2>1, <2>2
  <1>4. ASSUME NEW u \in Txn, Finish(u) PROVE Covered(txn'[t].start, report'[s], etcd'.min[s])
    <2>1. txn[t].pc = "running" /\ txn'[t].start = txn[t].start
      BY <1>4 DEF Finish, Typed, Transaction
    <2> QED  BY <1>4, <1>0, <2>1 DEF Finish
  <1>5. ASSUME NEW v \in Server, ResolveLocks(v) PROVE Covered(txn'[t].start, report'[s], etcd'.min[s])
    <2>1. txn[t].pc = "running" /\ txn'[t].start = txn[t].start
      BY <1>5 DEF ResolveLocks, Typed, Transaction
    <2> QED  BY <1>5, <1>0, <2>1 DEF ResolveLocks
  <1>6. ASSUME NEW v \in Server, ListProcesses(v) PROVE Covered(txn'[t].start, report'[s], etcd'.min[s])
    <2>1. /\ UNCHANGED <<txn, etcd>>
          /\ report' = [report EXCEPT ![v].pc = "listed",
                          ![v].list = {txn[x].start : x \in {y \in setup.txns : setup.server[y] = v /\ txn[y].pc = "running"}}]
      BY <1>6 DEF ListProcesses
    <2>2. Covered(txn[t].start, report[s], etcd.min[s]) /\ txn[t].pc = "running"
      BY <1>0, <2>1
    <2>3. CASE v = s
      <3>1. txn[t].start \in {txn[x].start : x \in {y \in setup.txns : setup.server[y] = v /\ txn[y].pc = "running"}}
        BY <1>h, <2>2, <2>3 DEF s
      <3>2. report'[s].time = report[s].time /\ txn[t].start \in report'[s].list
        BY <1>h, <2>1, <2>3, <3>1 DEF Typed, Report
      <3> QED  BY <2>1, <2>2, <3>2 DEF Covered
    <2>4. CASE v # s
      BY <1>h, <2>1, <2>2, <2>4 DEF Typed
    <2> QED  BY <2>3, <2>4
  <1>7. ASSUME NEW v \in Server, StoreMinStartTS(v) PROVE Covered(txn'[t].start, report'[s], etcd'.min[s])
    <2>1. UNCHANGED txn /\ txn[t].pc = "running" /\ txn[t].start > TS(Now - MaxWait) /\ Covered(txn[t].start, report[s], etcd.min[s])
      BY <1>7, <1>0 DEF StoreMinStartTS
    <2>2. CASE v = s
      BY <1>7, <1>f, <1>h, <1>s, <2>1, <2>2, StoreCovers
    <2>3. CASE v # s
      <3>1. report'[s] = report[s] /\ etcd'.min[s] = etcd.min[s]
        BY <1>7, <1>h, <2>3 DEF StoreMinStartTS, Typed, Etcd
      <3> QED  BY <2>1, <3>1
    <2> QED  BY <2>2, <2>3
  <1>8. ASSUME NEW v \in Server, ExpireMinStartTS(v) PROVE Covered(txn'[t].start, report'[s], etcd'.min[s])
    <2>1. UNCHANGED <<txn, report, up>> /\ v # s
      BY <1>8, <1>s, <1>h DEF ExpireMinStartTS
    <2>2. etcd'.min[s] = etcd.min[s]
      BY <1>8, <1>h, <2>1 DEF ExpireMinStartTS, Typed, Etcd
    <2> QED  BY <1>0, <2>1, <2>2
  <1>9. ASSUME NEW v \in Server, Crash(v) PROVE Covered(txn'[t].start, report'[s], etcd'.min[s])
    <2>1. up' = up \ {v} /\ UNCHANGED etcd
      BY <1>9 DEF Crash
    <2>2. v # s  BY <1>h, <2>1
    <2>3. report'[s] = report[s]
      BY <1>9, <1>h, <2>2 DEF Crash, Typed
    <2>4. txn[t].pc = "running" /\ txn'[t].start = txn[t].start
      BY <1>9 DEF Crash, Typed, Transaction
    <2> QED  BY <1>0, <2>1, <2>3, <2>4
  <1> QED  BY <1>1, <1>2, <1>3, <1>4, <1>5, <1>6, <1>7, <1>8, <1>9, Quiet DEF s

\* What a step does that starts, and aborts, no transaction.
TxnsKept ==
    \A t \in Txn : /\ txn'[t].start = txn[t].start
                   /\ txn'[t].pc \in {"running", "aborted"} => txn[t].pc = txn'[t].pc

\* A new safe point is below every transaction that is waited for: of those that no report covers yet,
\* the life time takes care.
LEMMA CalculationBelow ==
    ASSUME Typed, Allowed, Reporting, Reported, Young, ~Unheard, NEW w \in Server, NEW value \in Nat,
           worker[w].pc = "calc", value <= TS(worker[w].now - LifeTime),
           \A s \in Server : etcd.min[s] # None => value <= IF etcd.min[s] > 0 THEN etcd.min[s] - 1 ELSE etcd.min[s],
           NEW t \in Txn, txn[t].pc = "running", txn[t].start > TS(Now - MaxWait)
    PROVE  value <= txn[t].start - 1
  <1> DEFINE s == setup.server[t]
  <1>1. t \in setup.txns /\ s \in up /\ s \in Server /\ s \in Hosts
    <2>1. t \in setup.txns /\ s \in up  BY DEF Reporting
    <2> QED  BY <2>1 DEF Hosts, Typed
  <1>2. Covered(txn[t].start, report[s], etcd.min[s])
    BY DEF Reported
  <1>3. txn[t].start \in Nat /\ worker[w].now \in Nat /\ report[s].time \in Nat /\ Now \in Nat
        /\ LifeTime \in Nat /\ ReportInterval \in Nat /\ 2 * ReportInterval <= LifeTime
    BY <1>1, FieldsNat, Present, GCAssumption DEF Typed, Report
  <1>4. CASE etcd.min[s] # None /\ etcd.min[s] <= txn[t].start
    <2>1. etcd.min[s] \in Nat  BY <1>1, <1>4 DEF Typed, Etcd
    <2>2. CASE etcd.min[s] > 0
      BY <1>1, <1>3, <1>4, <2>1, <2>2
    <2>3. CASE etcd.min[s] = 0
      <3>1. value = 0  BY <1>1, <1>4, <2>3
      <3>2. pd.gc <= txn[t].start - 1 /\ pd.gc \in Nat
        BY FieldsNat DEF Young, Limit, UpTo
      <3> QED  BY <1>3, <3>1, <3>2
    <2> QED  BY <2>1, <2>2, <2>3
  <1>5. CASE txn[t].start > TS(report[s].time - ReportInterval)
    <2>1. Now <= report[s].time + ReportInterval
      BY <1>1 DEF Reporting, Unheard
    <2>2. worker[w].now <= Now
      BY DEF Allowed
    <2>3. worker[w].now - LifeTime <= report[s].time - ReportInterval
      BY <1>3, <2>1, <2>2
    <2>4. TS(worker[w].now - LifeTime) <= TS(report[s].time - ReportInterval)
          /\ TS(worker[w].now - LifeTime) \in Int /\ TS(report[s].time - ReportInterval) \in Int
      <3>1. worker[w].now - LifeTime \in Int /\ report[s].time - ReportInterval \in Int  BY <1>3
      <3> QED  BY <2>3, <3>1, Order, Times
    <2> QED  BY <1>3, <1>5, <2>4
  <1> QED  BY <1>2, <1>4, <1>5 DEF Covered

\* Every step keeps the transactions that GC waits for.
LEMMA NextYoung ==
    ASSUME Typed, Allowed, Reporting, Reported, Young, [Next]_vars
    PROVE  Young'
  <1>s. setup' = setup /\ Limit' = Limit /\ Limit \in Int
    BY Quiet, GCAssumption DEF Limit, Unheard, May
  <1>t. TS(Now - Limit) <= TS(Now' - Limit) /\ TS(Now - Limit) \in Int /\ TS(Now' - Limit) \in Int
    <2>1. Now - Limit \in Int /\ Now' - Limit \in Int
      BY <1>s, Present, TimeGrows
    <2> QED  BY <1>s, <2>1, Times, TimeGrows
  <1>f. \A t \in Txn : txn[t].start \in Int  BY Fields
  <1> SUFFICES ASSUME NEW t \in Txn, txn'[t].start > TS(Now' - Limit)
               PROVE  /\ txn'[t].pc # "aborted"
                      /\ txn'[t].pc = "running" => UpTo(txn[t].start - 1)'
    BY <1>s DEF Young
  <1>1. ASSUME NEW w \in Server, CalcSafePoint(w)
        PROVE  /\ txn'[t].pc # "aborted"
               /\ txn'[t].pc = "running" => UpTo(txn[t].start - 1)'
    <2>1. txn' = txn /\ Now' = Now /\ worker[w].pc = "calc"
      BY <1>1 DEF CalcSafePoint, Now
    <2>2. txn[t].pc # "aborted"
      BY <2>1 DEF Young
    <2>3. ASSUME txn[t].pc = "running" PROVE UpTo(txn[t].start - 1)'
      <3>1. PICK x \in Int : x = txn[t].start - 1  BY <1>f
      <3>2. UpTo(x)
        BY <2>1, <2>3, <3>1 DEF Young
      <3>3. PICK value \in Nat :
              /\ worker' = [worker EXCEPT ![w].pc = "service", ![w].value = value]
              /\ value <= TS(worker[w].now - LifeTime)
              /\ ~May("etcd") => \A s \in Server : etcd.min[s] # None =>
                                    value <= IF etcd.min[s] > 0 THEN etcd.min[s] - 1 ELSE etcd.min[s]
        BY <1>1, Calculation
      <3>4. value <= x
        <4>1. CASE Unheard
          <5>1. worker[w].now \in Int /\ worker[w].now <= Now /\ Now \in Int /\ LifeTime \in Int
            BY Fields, Present, GCAssumption DEF Allowed
          <5>2. TS(worker[w].now - LifeTime) <= TS(Now - LifeTime) /\ TS(worker[w].now - LifeTime) \in Int
            <6>1. worker[w].now - LifeTime \in Int /\ Now - LifeTime \in Int /\ worker[w].now - LifeTime <= Now - LifeTime
              BY <5>1
            <6> QED  BY <6>1, Order, Times
          <5>3. txn[t].start > TS(Now - LifeTime) /\ TS(Now - LifeTime) \in Int
            BY <1>s, <1>t, <2>1, <4>1 DEF Limit
          <5> QED  BY <1>f, <3>1, <3>3, <5>2, <5>3
        <4>2. CASE ~Unheard
          <5>1. txn[t].start > TS(Now - MaxWait)
            BY <1>s, <2>1, <4>2 DEF Limit
          <5>2. ~May("etcd")  BY <4>2 DEF Unheard
          <5>3. value <= txn[t].start - 1
            BY <2>1, <2>3, <3>3, <4>2, <5>1, <5>2, CalculationBelow
          <5> QED  BY <3>1, <5>3
        <4> QED  BY <4>1, <4>2
      <3>5. UpTo(x)'
        BY <1>1, <3>2, <3>3, <3>4, CalculationUpTo
      <3> QED  BY <2>1, <3>1, <3>5
    <2> QED  BY <2>1, <2>2, <2>3
  <1>2. ASSUME \A w \in Server : ~CalcSafePoint(w), txn'[t].start = txn[t].start, txn[t].pc = "running"
        PROVE  UpTo(txn[t].start - 1)'
    <2>1. PICK x \in Int : x = txn[t].start - 1  BY <1>f
    <2>2. txn[t].start > TS(Now - Limit)  BY <1>2, <1>f, <1>t
    <2>3. UpTo(x)  BY <1>2, <2>1, <2>2 DEF Young
    <2>4. UpTo(x)'  BY <1>2, <2>3, Flow
    <2> QED  BY <1>2, <2>1, <2>4
  <1>3. ASSUME \A w \in Server : ~CalcSafePoint(w), TxnsKept
        PROVE  /\ txn'[t].pc # "aborted"
               /\ txn'[t].pc = "running" => UpTo(txn[t].start - 1)'
    <2>1. txn[t].start > TS(Now - Limit)  BY <1>3, <1>f, <1>t DEF TxnsKept
    <2>2. txn[t].pc # "aborted"  BY <2>1 DEF Young
    <2> QED  BY <1>2, <1>3, <2>2 DEF TxnsKept
  <1>4. ASSUME \A w \in Server : ~CalcSafePoint(w), NEW u \in Txn, Begin(u)
        PROVE  /\ txn'[t].pc # "aborted"
               /\ txn'[t].pc = "running" => UpTo(txn[t].start - 1)'
    <2>1. txn' = [txn EXCEPT ![u] = [pc |-> "running", start |-> tso']]
      BY <1>4 DEF Begin
    <2>2. CASE u = t
      <3>1. txn'[t].start > TS(Now) /\ txn'[t].start \in Int
        <4>1. PICK s : s = setup.server[u] /\ s \in Server
          BY <1>4, StartAssumption DEF Begin, Typed
        <4> QED  BY <1>4, <2>2, <4>1, BeginsCovered
      <3>2. PICK x \in Int : x = TS(Now - LifeTime)  BY Present
      <3>3. PICK y \in Int : y = txn'[t].start - 1  BY <3>1
      <3>4. x <= y
        <4>1. Now - LifeTime \in Int /\ Now \in Int /\ Now - LifeTime <= Now  BY Present, GCAssumption
        <4>2. TS(Now - LifeTime) <= TS(Now) /\ TS(Now) \in Int  BY <4>1, Order, Times
        <4> QED  BY <3>1, <3>2, <3>3, <4>2
      <3>5. UpTo(x)  BY <3>2 DEF Allowed
      <3>6. UpTo(y)'  BY <1>4, <3>4, <3>5, FlowUp
      <3> QED  BY <2>1, <2>2, <3>3, <3>6 DEF Typed
    <2>3. CASE u # t
      <3>1. txn'[t] = txn[t]  BY <2>1, <2>3 DEF Typed
      <3>2. txn[t].pc # "aborted"  BY <3>1, <1>f, <1>t DEF Young
      <3> QED  BY <1>2, <1>4, <3>1, <3>2
    <2> QED  BY <2>2, <2>3
  <1>5. ASSUME \A w \in Server : ~CalcSafePoint(w), NEW v \in Server, ResolveLocks(v)
        PROVE  /\ txn'[t].pc # "aborted"
               /\ txn'[t].pc = "running" => UpTo(txn[t].start - 1)'
    <2>1. /\ job[v].pc = "resolve"
          /\ txn'[t] = IF txn[t].pc = "running" /\ t \in setup.writers /\ txn[t].start <= job[v].sp
                       THEN [txn[t] EXCEPT !.pc = "aborted"] ELSE txn[t]
      BY <1>5 DEF ResolveLocks, JobStep
    <2>2. txn'[t].start = txn[t].start
      BY <2>1 DEF Typed, Transaction
    <2>3. txn[t].start > TS(Now - Limit)  BY <1>f, <1>t, <2>2
    <2>4. ~(txn[t].pc = "running" /\ txn[t].start <= job[v].sp)
      <3> SUFFICES ASSUME txn[t].pc = "running" PROVE ~(txn[t].start <= job[v].sp)
        OBVIOUS
      <3>1. job[v].sp <= txn[t].start - 1 /\ job[v].sp \in Int
        BY <2>1, <2>3, Fields DEF Young, UpTo
      <3> QED  BY <1>f, <3>1
    <2>5. txn'[t] = txn[t]  BY <2>1, <2>4
    <2> QED  BY <1>2, <1>5, <2>2, <2>3, <2>5 DEF Young
  <1>6. ASSUME NEW v \in Server, ListProcesses(v) \/ StoreMinStartTS(v) \/ ExpireMinStartTS(v) \/ Crash(v)
        PROVE  TxnsKept
    BY <1>6 DEF ListProcesses, StoreMinStartTS, ExpireMinStartTS, Crash, TxnsKept, Typed, Transaction
  <1>7. ASSUME NEW u \in Txn, Finish(u) PROVE TxnsKept
    BY <1>7 DEF Finish, TxnsKept, Typed, Transaction
  <1>8. ASSUME Tick \/ UNCHANGED txn PROVE TxnsKept
    BY <1>8 DEF Tick, TxnsKept
  <1> QED  BY <1>1, <1>3, <1>4, <1>5, <1>6, <1>7, <1>8, Quiet

\* A transaction that is not older than GCMaxWaitTime is never overtaken by a safe point and never
\* loses its locks to a GC job, although a server reports its transactions only now and then
\* (ReportMinStartTS) and a GC worker reads the reports before others are written; without the reports,
\* LifeTime is what it can rely on. For any number of servers, GC workers, transactions and faults.
THEOREM TransactionsKept == Spec => []TxnKept
  <1> DEFINE Inv == Typed /\ Allowed /\ Reporting /\ Reported /\ Young
  <1>1. Init => Inv
    <2> SUFFICES ASSUME Init PROVE Inv
      OBVIOUS
    <2>0. Typed  BY InitTyped
    <2>1. /\ LifeTime \in Nat /\ ReportInterval \in Nat /\ 2 * ReportInterval <= LifeTime /\ LifeTime <= MaxWait
          /\ MaxWait \in Nat
      BY GCAssumption
    <2>2. Now = LifeTime /\ TS(Now - LifeTime) = 0
      <3>1. Now = LifeTime  BY <2>1, Order DEF Init, Now
      <3> QED  BY <2>1, <3>1, Order
    <2>i. /\ pd.gc = 0 /\ etcd.saved = 0 /\ up = Server
          /\ \A w \in Server : /\ worker[w].pc = "idle" /\ worker[w].now = 0 /\ job[w].pc = "none"
                               /\ report[w].pc = "idle" /\ report[w].time = LifeTime
      BY DEF Init, Idle, NoJob
    <2>3. Allowed
      BY <2>1, <2>2, <2>i DEF Allowed, UpTo, Valued
    <2>4. /\ \A t \in Txn : txn[t].pc \in {"none", "running"} /\ txn[t].start \in Nat
          /\ \A t \in Txn : txn[t].pc = "running" => t \in setup.txns /\ setup.server[t] \in Server
                                                   /\ txn[t].start > TS(LifeTime - ReportInterval)
      <3>1. setup \in Setups /\ txn = setup.txn  BY DEF Init
      <3> QED  BY <3>1, GCAssumption, StartAssumption
    <2>5. Reporting
      <3>1. Hosts \subseteq Server
        BY <2>0, StartAssumption DEF Hosts, Typed
      <3>3. LifeTime <= Now /\ Now <= LifeTime + ReportInterval  BY <2>1, <2>2
      <3> QED  BY <2>4, <2>i, <3>1, <3>3 DEF Reporting
    <2>6. Reported
      <3> SUFFICES ASSUME NEW t \in Txn, txn[t].pc = "running"
                   PROVE  Covered(txn[t].start, report[setup.server[t]], etcd.min[setup.server[t]])
        BY DEF Reported
      <3>1. report[setup.server[t]].pc = "idle" /\ report[setup.server[t]].time = LifeTime
        BY <2>4, <2>i
      <3> QED  BY <2>4, <3>1 DEF Covered
    <2>7. Young
      <3> SUFFICES ASSUME NEW t \in Txn, txn[t].pc = "running" PROVE UpTo(txn[t].start - 1)
        BY <2>4 DEF Young
      <3>1. txn[t].start > 0
        <4>1. LifeTime - ReportInterval \in Nat  BY <2>1
        <4>2. TS(LifeTime - ReportInterval) \in Nat  BY <4>1, Times
        <4> QED  BY <2>4, <4>2
      <3>2. 0 <= txn[t].start - 1  BY <2>4, <3>1
      <3> QED  BY <2>i, <3>2 DEF UpTo, Valued
    <2> QED  BY <2>0, <2>3, <2>5, <2>6, <2>7
  <1>2. Inv /\ [Next]_vars => Inv'
    BY NextTyped, NextAllowed, NextReporting, NextReported, NextYoung
  <1>3. Inv => TxnKept
    <2> SUFFICES ASSUME Inv, NEW t \in Txn, txn[t].start > TS(Now - Limit)
                 PROVE  /\ txn[t].pc # "aborted"
                        /\ txn[t].pc = "running" => \A sp \in Used : sp < txn[t].start
      BY DEF TxnKept, Limit, Unheard
    <2>1. txn[t].pc # "aborted" /\ (txn[t].pc = "running" => UpTo(txn[t].start - 1))
      BY DEF Young
    <2>2. txn[t].start \in Int /\ pd.gc \in Int /\ etcd.saved \in Int /\ \A w \in Server : job[w].sp \in Int
      BY SMTT(60), Fields DEF Typed, Etcd
    <2> QED  BY <2>1, <2>2 DEF UpTo, Used, Jobs
  <1> HIDE DEF Inv
  <1> QED  BY <1>1, <1>2, <1>3, PTL DEF Spec

=============================================================================
