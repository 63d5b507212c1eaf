------------------------- MODULE CachedTableProofs -------------------------
(***************************************************************************)
(* Proofs about CachedTable, for any number of servers, any leases and any *)
(* number of timestamps.                                                   *)
(***************************************************************************)
EXTENDS CachedTable, TLAPS

USE ZenonT(5), SMTT(30)    \* the provers of a step that names none

\* A lease is a timestamp, and lies after the timestamp it starts from
\* (cache.go, leaseFromTS).
LEMMA LeaseType ==
    ASSUME NEW ts \in TS, NEW dur \in Nat
    PROVE  leaseFromTS(ts, dur) \in TS
<1>1. Logical \in Nat /\ Logical > 0
  BY LeaseAssumption
<1>2. ts \div Logical \in Nat
  BY <1>1 DEF TS
<1>3. (ts \div Logical) * Logical \in Nat
  BY <1>1, <1>2
<1> QED
  BY <1>3 DEF leaseFromTS, TS

\* The transactions of state_remote.go write well-formed rows.
LEMMA TxnTypes ==
    ASSUME NEW now \in TS, NEW r \in Row, NEW a \in TS, NEW b \in TS
    PROVE  /\ lockForReadTxn(now, r, a).row \in Row
           /\ lockForWriteTxn(now, r).row \in Row
           /\ lockForWriteTxn(now, r).local \in Handle
           /\ renewReadTxn(now, r, a, b).row \in Row
           /\ renewReadTxn(now, r, a, b).lease \in TS
           /\ renewWriteTxn(now, r, a).row \in Row
<1>1. leaseFromTS(now, WriteLease) \in TS
  BY LeaseType, LeaseAssumption
<1>2. lockForReadTxn(now, r, a).row \in Row
  BY DEF lockForReadTxn, updateRow, Row, LockType, TS
<1>3. lockForWriteTxn(now, r).row \in Row /\ lockForWriteTxn(now, r).local \in Handle
  BY <1>1 DEF lockForWriteTxn, updateRow, Row, Handle, LockType, TS
<1>4. renewReadTxn(now, r, a, b).row \in Row /\ renewReadTxn(now, r, a, b).lease \in TS
  BY DEF renewReadTxn, updateRow, Row, LockType, TS
<1>5. renewWriteTxn(now, r, a).row \in Row
  BY DEF renewWriteTxn, updateRow, Row, LockType, TS
<1> QED
  BY <1>2, <1>3, <1>4, <1>5

\* The values that stand for "nothing yet" are well-formed.
LEMMA ConstTypes ==
    /\ InitRow \in Row /\ NoHandle \in Handle /\ NoData \in CacheData /\ Idle \in Call
    /\ NoTxn \in Txn /\ NoRenewer \in Renewer
  BY DEF InitRow, Row, LockType, NoHandle, Handle, NoData, CacheData, Idle, Call, Op,
         NoTxn, Txn, NoRenewer, Renewer, TS

\* TypeOK is inductive: every operation of the lock, of the cache and of the
\* commit leaves well-formed rows, leases and goroutine states behind.
THEOREM Typing == Spec => []TypeOK
<1>1. Init => TypeOK
  BY ConstTypes DEF Init, TypeOK, TS
<1>2. TypeOK /\ [Next]_vars => TypeOK'
  <2> SUFFICES ASSUME TypeOK, [Next]_vars PROVE TypeOK'
    OBVIOUS
  <2> USE ConstTypes
  <2>adv. ASSUME NEW t \in TS, Advance(t) PROVE tso' \in TS
    BY <2>adv DEF Advance
  <2>ts. tso + 1 \in TS /\ (GetTS => tso' = tso + 1)
    BY DEF TypeOK, TS, GetTS, Advance
  <2>1. CASE Tick
    BY <2>1 DEF Tick, Advance, TypeOK, TS
  <2>2. ASSUME NEW n \in Node, NEW ts \in ReadTS, BeginLockForRead(n, ts) PROVE TypeOK'
    <3>1. ts \in TS
      BY BoundAssumption DEF ReadTS, TS, TypeOK
    <3>2. [op |-> "lockRead", arg |-> ts, now |-> tso + 1, snap |-> row, data |-> NoData] \in Call
      BY <3>1, <2>ts DEF Call, Op, TypeOK
    <3>3. LocalCopy(row) \in Handle
      BY DEF LocalCopy, Row, Handle, TypeOK
    <3> QED
      BY <2>2, <2>ts, <3>2, <3>3 DEF BeginLockForRead, TypeOK
  <2>3. ASSUME NEW n \in Node, NEW ts \in ReadTS, BeginRenewReadLease(n, ts) PROVE TypeOK'
    <3>1. ts \in TS
      BY BoundAssumption DEF ReadTS, TS, TypeOK
    <3>2. [op |-> "renewRead", arg |-> ts, now |-> tso + 1, snap |-> row, data |-> cache[n]] \in Call
      BY <3>1, <2>ts DEF Call, Op, TypeOK
    <3>3. LocalCopy(row) \in Handle
      BY DEF LocalCopy, Row, Handle, TypeOK
    <3> QED
      BY <2>3, <2>ts, <3>2, <3>3 DEF BeginRenewReadLease, TypeOK
  <2>4. ASSUME NEW n \in Node, EndLockForRead(n) PROVE TypeOK'
    <3> DEFINE c == call[n]
               lease == leaseFromTS(c.arg, ReadLease)
    <3>1. c \in Call /\ c.arg \in TS /\ c.now \in TS /\ c.snap \in Row
      BY DEF TypeOK, Call
    <3>2. lease \in TS
      BY <3>1, LeaseType, LeaseAssumption
    <3>3. lockForReadTxn(c.now, c.snap, lease).row \in Row
      BY <3>1, <3>2, TxnTypes
    <3>4. /\ [start |-> c.arg, lease |-> lease, loaded |-> FALSE, buf |-> {}] \in CacheData
          /\ [ts |-> c.arg, startTS |-> 0, buf |-> {}, lease |-> 0, pc |-> "load"] \in Loader
      BY <3>1, <3>2 DEF CacheData, Loader, TS
    <3> HIDE DEF lease
    <3>5. /\ row' \in Row /\ call' \in [Node -> Call]
          /\ UNCHANGED <<tso, handle, txn, renewer, commits>>
      BY <2>4, <3>3 DEF EndLockForRead, TypeOK, lease
    <3>6. cache' \in [Node -> CacheData] /\ loader' \in [Node -> SUBSET Loader]
      <4>1. CASE lockForReadTxn(c.now, c.snap, lease).succ
        <5> DEFINE d == [start |-> c.arg, lease |-> lease, loaded |-> FALSE, buf |-> {}]
                   l == [ts |-> c.arg, startTS |-> 0, buf |-> {}, lease |-> 0, pc |-> "load"]
        <5>1. /\ cache' = [cache EXCEPT ![n] = d]
              /\ loader' = [loader EXCEPT ![n] = @ \cup {l}]
          BY <2>4, <4>1 DEF EndLockForRead, lease
        <5> HIDE DEF d, l
        <5>2. d \in CacheData /\ l \in Loader
          BY <3>4 DEF d, l
        <5> QED
          BY <5>1, <5>2 DEF TypeOK
      <4>2. CASE ~lockForReadTxn(c.now, c.snap, lease).succ
        BY <2>4, <4>2 DEF EndLockForRead, TypeOK, lease
      <4> QED
        BY <4>1, <4>2
    <3> QED
      BY <3>5, <3>6 DEF TypeOK
  <2>5. ASSUME NEW n \in Node, EndRenewReadLease(n) PROVE TypeOK'
    <3> DEFINE c == call[n]
               res == renewReadTxn(c.now, c.snap, c.data.lease, leaseFromTS(c.arg, ReadLease))
    <3>1. c.arg \in TS /\ c.now \in TS /\ c.snap \in Row /\ c.data \in CacheData
      BY DEF TypeOK, Call
    <3>2. leaseFromTS(c.arg, ReadLease) \in TS /\ c.data.lease \in TS
      BY <3>1, LeaseType, LeaseAssumption DEF CacheData
    <3>3. res.row \in Row /\ res.lease \in TS
      BY <3>1, <3>2, TxnTypes
    <3>4. [c.data EXCEPT !.lease = res.lease] \in CacheData
      BY <3>1, <3>3 DEF CacheData
    <3> QED
      BY <2>5, <3>3, <3>4 DEF EndRenewReadLease, TypeOK
  <2>6. ASSUME NEW n \in Node, FailRead(n) PROVE TypeOK'
    <3> DEFINE c == call[n]
    <3>1. c.arg \in TS /\ c.now \in TS /\ c.snap \in Row /\ c.data \in CacheData
      BY DEF TypeOK, Call
    <3>2. leaseFromTS(c.arg, ReadLease) \in TS /\ c.data.lease \in TS
      BY <3>1, LeaseType, LeaseAssumption DEF CacheData
    <3>3. /\ renewReadTxn(c.now, c.snap, c.data.lease, leaseFromTS(c.arg, ReadLease)).row \in Row
          /\ lockForReadTxn(c.now, c.snap, leaseFromTS(c.arg, ReadLease)).row \in Row
      BY <3>1, <3>2, TxnTypes
    <3> QED
      BY <2>6, <3>3 DEF FailRead, TypeOK
  <2>7. ASSUME NEW n \in Node, NEW l \in loader[n],
               LoadData(n, l) \/ LoadFail(n, l) \/ CheckLoaded(n, l) \/ StoreLoaded(n, l)
        PROVE  TypeOK'
    <3>1. l \in Loader
      BY DEF TypeOK
    <3>2. /\ [l EXCEPT !.startTS = tso + 1, !.buf = commits, !.pc = "check"] \in Loader
          /\ [l EXCEPT !.lease = cache[n].lease, !.pc = "store"] \in Loader
          /\ [start |-> l.startTS, lease |-> l.lease, loaded |-> TRUE, buf |-> l.buf] \in CacheData
      BY <3>1, <2>ts DEF Loader, TypeOK, CacheData
    <3>3. CASE LoadData(n, l)
      BY <3>3, <3>2, <2>ts DEF LoadData, TypeOK
    <3>4. CASE LoadFail(n, l)
      BY <3>4 DEF LoadFail, TypeOK
    <3>5. CASE CheckLoaded(n, l)
      BY <3>5, <3>2 DEF CheckLoaded, TypeOK
    <3>6. CASE StoreLoaded(n, l)
      BY <3>6, <3>2 DEF StoreLoaded, TypeOK
    <3> QED
      BY <2>7, <3>3, <3>4, <3>5, <3>6
  <2>8. ASSUME NEW n \in Node, FastLockForWrite(n) PROVE TypeOK'
    <3>1. [txn[n] EXCEPT !.st = "locked", !.lease = handle[n].lease, !.keep = TRUE] \in Txn
      BY DEF TypeOK, Txn, Handle
    <3> QED
      BY <2>8, <3>1 DEF FastLockForWrite, TypeOK
  <2>9. ASSUME NEW n \in Node, BeginLockForWrite(n) PROVE TypeOK'
    <3>1. /\ [Idle EXCEPT !.op = "lockWrite", !.now = tso + 1] \in Call
          /\ [NoTxn EXCEPT !.st = "locking"] \in Txn
      BY <2>ts DEF Call, Op, Txn
    <3> QED
      BY <2>9, <2>ts, <3>1 DEF BeginLockForWrite, TypeOK
  <2>10. ASSUME NEW n \in Node, EndLockForWrite(n) \/ FailLockForWrite(n) PROVE TypeOK'
    <3>1. call[n].now \in TS /\ call[n] \in Call
      BY DEF TypeOK, Call
    <3>2. /\ lockForWriteTxn(call[n].now, row).row \in Row
          /\ lockForWriteTxn(call[n].now, row).local \in Handle
          /\ LocalCopy(row) \in Handle
          /\ leaseFromTS(call[n].now, WriteLease) \in TS
      BY <3>1, TxnTypes, LeaseType, LeaseAssumption DEF TypeOK, LocalCopy, Row, Handle
    <3>3. /\ [call[n] EXCEPT !.now = 0] \in Call
          /\ [txn[n] EXCEPT !.st = "locked", !.keep = TRUE,
                            !.lease = leaseFromTS(call[n].now, WriteLease)] \in Txn
      BY <3>1, <3>2 DEF TypeOK, Txn, Call, TS
    <3>4. CASE EndLockForWrite(n)
      BY <3>4, <3>2, <3>3 DEF EndLockForWrite, TypeOK
    <3>5. CASE FailLockForWrite(n)
      BY <3>5, <3>2 DEF FailLockForWrite, TypeOK
    <3> QED
      BY <2>10, <3>4, <3>5
  <2>11. ASSUME NEW n \in Node, TickKeepAlive(n) PROVE TypeOK'
    <3>1. [newLease |-> leaseFromTS(txn[n].lease, WriteLease), live |-> TRUE] \in Renewer
      BY LeaseType, LeaseAssumption DEF TypeOK, Txn, Renewer
    <3> QED
      BY <2>11, <3>1 DEF TickKeepAlive, TypeOK
  <2>12. ASSUME NEW n \in Node, BeginRenewWriteLease(n) PROVE TypeOK'
    <3>1. [Idle EXCEPT !.op = "renewWrite", !.now = tso + 1] \in Call
      BY <2>ts DEF Call, Op
    <3> QED
      BY <2>12, <2>ts, <3>1 DEF BeginRenewWriteLease, TypeOK
  <2>13. ASSUME NEW n \in Node, EndRenewWriteLease(n) \/ FailRenewWriteLease(n) PROVE TypeOK'
    <3>1. call[n].now \in TS /\ renewer[n].newLease \in TS
      BY DEF TypeOK, Call, Renewer
    <3>2. /\ renewWriteTxn(call[n].now, row, renewer[n].newLease).row \in Row
          /\ LocalCopy(row) \in Handle
          /\ [lockType |-> "WRITE", lease |-> renewer[n].newLease] \in Handle
      BY <3>1, TxnTypes DEF TypeOK, LocalCopy, Row, Handle, LockType
    <3>3. /\ [txn[n] EXCEPT !.lease = renewer[n].newLease] \in Txn
          /\ [txn[n] EXCEPT !.keep = FALSE] \in Txn
      BY <3>1 DEF TypeOK, Txn
    <3>4. CASE EndRenewWriteLease(n)
      BY <3>4, <3>2, <3>3 DEF EndRenewWriteLease, TypeOK
    <3>5. CASE FailRenewWriteLease(n)
      BY <3>5, <3>2, <3>3 DEF FailRenewWriteLease, TypeOK
    <3> QED
      BY <2>13, <3>4, <3>5
  <2>14. ASSUME NEW n \in Node, GetCommitTS(n) PROVE TypeOK'
    <3>1. [txn[n] EXCEPT !.st = "check", !.cts = tso + 1] \in Txn
      BY <2>ts DEF TypeOK, Txn
    <3> QED
      BY <2>14, <2>ts, <3>1 DEF GetCommitTS, TypeOK
  <2>15. ASSUME NEW n \in Node, Commit(n) PROVE TypeOK'
    <3>1. [renewer[n] EXCEPT !.live = FALSE] \in Renewer /\ txn[n].cts \in TS
      BY DEF TypeOK, Renewer, Txn
    <3> QED
      BY <2>15, <3>1 DEF Commit, TypeOK
  <2>16. ASSUME NEW n \in Node, Restart(n) PROVE TypeOK'
    BY <2>16 DEF Restart, TypeOK
  <2>17. CASE UNCHANGED vars
    BY <2>17 DEF vars, TypeOK
  <2> QED
    BY NodeAssumption, <2>1, <2>2, <2>3, <2>4, <2>5, <2>6, <2>7, <2>8, <2>9, <2>10, <2>11, <2>12,
       <2>13, <2>14, <2>15, <2>16, <2>17 DEF Next, Read, Write
<1> QED
  BY <1>1, <1>2, PTL DEF Spec

-----------------------------------------------------------------------------
(* The row of the lock *)

\* The parts of a well-formed state.
LEMMA Fields ==
    ASSUME TypeOK
    PROVE  /\ tso \in Nat /\ row \in Row
           /\ call \in [Node -> Call] /\ cache \in [Node -> CacheData] /\ loader \in [Node -> SUBSET Loader]
           /\ \A n \in Node : /\ call[n].now \in Nat /\ call[n].arg \in Nat /\ call[n].snap \in Row
                               /\ call[n].data.lease \in TS /\ cache[n].lease \in TS
           /\ \A n \in Node : \A l \in loader[n] : l \in Loader /\ l.ts \in TS /\ l.lease \in TS
<1>1. /\ tso \in Nat /\ row \in Row
      /\ call \in [Node -> Call] /\ cache \in [Node -> CacheData] /\ loader \in [Node -> SUBSET Loader]
  BY DEF TypeOK, TS
<1>2. \A c \in Call : c.now \in Nat /\ c.arg \in Nat /\ c.snap \in Row /\ c.data \in CacheData
  BY DEF Call, TS
<1>3. \A d \in CacheData : d.lease \in TS
  BY DEF CacheData
<1>4. \A l \in Loader : l.ts \in TS /\ l.lease \in TS
  BY DEF Loader
<1> QED
  BY <1>1, <1>2, <1>3, <1>4

\* What \div leaves over is less than the divisor.
LEMMA DivBounds ==
    ASSUME NEW a \in Nat, NEW L \in Nat, L > 0
    PROVE  /\ a \div L \in Nat /\ L * (a \div L) \in Nat
           /\ L * (a \div L) <= a /\ a < L * (a \div L) + L
<1>1. a \div L \in Nat
  OBVIOUS
<1>2. a % L \in 0 .. L - 1 /\ a = L * (a \div L) + (a % L)
  OBVIOUS
<1> QED
  BY <1>1, <1>2

\* A larger quotient is a whole divisor larger.
LEMMA MulMono ==
    ASSUME NEW p \in Nat, NEW q \in Nat, NEW L \in Nat, p < q
    PROVE  L * p + L <= L * q
<1>1. PICK d \in Nat : q = p + 1 + d
  <2>1. q - p - 1 \in Nat /\ q = p + 1 + (q - p - 1)
    OBVIOUS
  <2> QED BY <2>1
<1>2. L * q = L * p + L + L * d
  BY <1>1
<1>3. L * d \in Nat /\ L * p \in Nat
  BY <1>1
<1> QED
  BY <1>2, <1>3

\* A lease runs out after the timestamp it starts from, and leases that start
\* later do not run out earlier (cache.go, leaseFromTS).
LEMMA LeaseBounds ==
    ASSUME NEW a \in TS, NEW b \in TS, NEW dur \in Nat, dur >= Logical, a <= b
    PROVE  /\ leaseFromTS(a, dur) > a
           /\ leaseFromTS(a, dur) <= leaseFromTS(b, dur)
<1> DEFINE p == a \div Logical
           q == b \div Logical
<1>1. Logical \in Nat /\ Logical > 0
  BY LeaseAssumption
<1>2. /\ p \in Nat /\ Logical * p \in Nat /\ Logical * p <= a /\ a < Logical * p + Logical
      /\ q \in Nat /\ Logical * q \in Nat /\ Logical * q <= b /\ b < Logical * q + Logical
  BY <1>1, DivBounds DEF TS
<1>3. p * Logical = Logical * p /\ q * Logical = Logical * q
  BY <1>1, <1>2
<1> HIDE DEF p, q
<1>4. leaseFromTS(a, dur) = Logical * p + dur /\ leaseFromTS(b, dur) = Logical * q + dur
  BY <1>3 DEF leaseFromTS, p, q
<1>5. p <= q
  <2> SUFFICES ASSUME q < p PROVE FALSE
    BY <1>2
  <2>1. Logical * q + Logical <= Logical * p
    BY <1>1, <1>2, MulMono
  <2> QED
    BY <1>1, <1>2, <2>1 DEF TS
<1>6. Logical * p <= Logical * q
  <2>1. CASE p = q
    BY <2>1, <1>2
  <2>2. CASE p < q
    <3>1. Logical * p + Logical <= Logical * q
      BY <1>1, <1>2, <2>2, MulMono
    <3> QED
      BY <1>1, <1>2, <3>1
  <2> QED
    BY <1>2, <1>5, <2>1, <2>2
<1> QED
  BY <1>1, <1>2, <1>4, <1>6 DEF TS

\* A transaction at time t moves the row from r to q.
RowStep(t, r, q) ==
    /\ RowOK(q)
    /\ q = r \/ Before(r, q)
    /\ \A g \in TS : CoveredBy(t, r, g) => CoveredBy(t, q, g)
    /\ r.lockType = "WRITE" /\ r.lease > t => q.lockType = "WRITE" /\ q.lease >= r.lease
    /\ r.lockType = "INTEND" /\ q # r =>
          \/ q.lockType = "WRITE" /\ t > r.oldReadLease
          \/ q.lockType = "READ" /\ t > r.lease

\* LockForRead moves the row forward: to a lease that is not smaller, and never
\* away from a read lease that still runs.
LEMMA LockForReadStep ==
    ASSUME NEW now \in TS, NEW t \in TS, NEW r \in Row, NEW a \in TS,
           now >= 1, now <= t, RowOK(r)
    PROVE  RowStep(t, r, lockForReadTxn(now, r, a).row)
  BY SMTT(60) DEF RowStep, RowOK, Before, Rank, CoveredBy, lockForReadTxn, updateRow, Row, LockType, TS

\* A READ lock covers its own lease, and what covers a lease covers a shorter one.
LEMMA Shorter ==
    ASSUME NEW t \in Nat, NEW r \in Row
    PROVE  /\ r.lockType = "READ" => CoveredBy(t, r, r.lease)
           /\ \A g, h \in TS : g <= h /\ CoveredBy(t, r, h) => CoveredBy(t, r, g)
<1>1. r.lease \in Nat /\ r.oldReadLease \in Nat
  BY DEF Row, TS
<1>2. r.lease <= r.lease
  BY <1>1
<1> QED
  BY SMTT(30), <1>1, <1>2 DEF CoveredBy, TS

\* RenewReadLease renews only under a READ lock, to the lease that it finds or writes.
LEMMA RenewReadGrant ==
    ASSUME NEW now, NEW r \in Row, NEW old, NEW new \in TS,
           renewReadTxn(now, r, old, new).lease > 0
    PROVE  LET res == renewReadTxn(now, r, old, new) IN
           /\ r.lockType = "READ" /\ res.lease \in TS
           /\ \/ res.lease = r.lease
              \/ res.row # r /\ res.row.lockType = "READ" /\ res.row.lease = res.lease
  BY DEF renewReadTxn, updateRow, Row, TS

\* LockForRead grants the lease it writes, or one within a READ lock it found.
LEMMA LockForReadGrant ==
    ASSUME NEW now \in TS, NEW r \in Row, NEW a \in TS, now >= 1, RowOK(r),
           lockForReadTxn(now, r, a).succ
    PROVE  \/ /\ lockForReadTxn(now, r, a).row # r
              /\ lockForReadTxn(now, r, a).row.lockType = "READ"
              /\ lockForReadTxn(now, r, a).row.lease = a
           \/ r.lockType = "READ" /\ a <= r.lease
<1>1. /\ updateRow(r, "READ", a).lockType = "READ" /\ updateRow(r, "READ", a).lease = a
      /\ r.lease \in Nat /\ r.lockType \in LockType /\ now \in Nat /\ a \in Nat
  BY DEF updateRow, Row, TS
<1>2. CASE now > r.lease
  <2>1. lockForReadTxn(now, r, a).row = updateRow(r, "READ", a) /\ a > now
    BY <1>2 DEF lockForReadTxn
  <2> QED
    BY <1>1, <1>2, <2>1
<1>3. CASE ~(now > r.lease)
  <2>1. r.lockType \notin {"INTEND", "WRITE", "NONE"}
    BY <1>1, <1>3 DEF lockForReadTxn, RowOK
  <2>2. a > r.lease => lockForReadTxn(now, r, a).row = updateRow(r, "READ", a)
    BY <1>3, <2>1 DEF lockForReadTxn
  <2>3. r.lockType = "READ"
    BY <1>1, <2>1 DEF LockType
  <2> QED
    BY <1>1, <2>2, <2>3
<1> QED
  BY <1>2, <1>3

\* The same for one round of lockForWriteOnce: INTEND keeps the old read lease, and
\* WRITE comes only after it.
LEMMA LockForWriteStep ==
    ASSUME NEW now \in TS, NEW t \in TS, NEW r \in Row, now >= 1, now <= t, RowOK(r)
    PROVE  /\ RowStep(t, r, lockForWriteTxn(now, r).row)
           /\ ~lockForWriteTxn(now, r).wait =>
                /\ lockForWriteTxn(now, r).row.lockType = "WRITE"
                /\ lockForWriteTxn(now, r).row.lease >= leaseFromTS(now, WriteLease)
           /\ LET h == lockForWriteTxn(now, r).local
              IN  h.lockType = "WRITE" /\ h.lease > t =>
                    /\ lockForWriteTxn(now, r).row.lockType = "WRITE"
                    /\ lockForWriteTxn(now, r).row.lease >= h.lease
<1> DEFINE ts == leaseFromTS(now, WriteLease)
<1>1. ts \in TS /\ ts > now
  BY LeaseType, LeaseBounds, LeaseAssumption DEF TS
<1>2. /\ r.lease > 0 => leaseFromTS(r.lease, WriteLease) > r.lease
      /\ now <= r.lease => ts <= leaseFromTS(r.lease, WriteLease)
      /\ r.oldReadLease <= now => leaseFromTS(r.oldReadLease, WriteLease) <= ts
  BY LeaseBounds, LeaseAssumption DEF Row, TS
<1>3. /\ r.lease \in TS /\ r.oldReadLease \in TS /\ r.lockType \in LockType
      /\ leaseFromTS(r.lease, WriteLease) \in TS /\ leaseFromTS(r.oldReadLease, WriteLease) \in TS
  BY LeaseType, LeaseAssumption DEF Row
<1> HIDE DEF ts
<1> DEFINE q == lockForWriteTxn(now, r)
<1>4. CASE now > r.lease
  <2>1. /\ q.wait = FALSE
        /\ q.row = [lockType |-> "WRITE", lease |-> ts, oldReadLease |-> r.oldReadLease]
        /\ q.local = [lockType |-> r.lockType, lease |-> r.lease]
    BY <1>1, <1>3, <1>4 DEF lockForWriteTxn, updateRow, ts, TS
  <2>2. q.row.lockType \in LockType /\ q.row.lease \in TS /\ q.row.oldReadLease \in TS
    BY <1>1, <1>3, <2>1 DEF LockType
  <2> HIDE DEF q
  <2>3. RowOK(q.row) /\ (q.row = r \/ Before(r, q.row))
    BY <1>1, <1>2, <1>3, <1>4, <2>1, <2>2 DEF RowOK, Before, Rank, LockType, TS
  <2>4. \A g \in TS : CoveredBy(t, r, g) => CoveredBy(t, q.row, g)
    BY <1>1, <1>3, <1>4, <2>1, <2>2 DEF RowOK, CoveredBy, LockType, TS
  <2>5. r.lockType = "WRITE" /\ r.lease > t => q.row.lockType = "WRITE" /\ q.row.lease >= r.lease
    BY <1>1, <1>3, <1>4, <2>1, <2>2 DEF TS
  <2>6. r.lockType = "INTEND" /\ q.row # r => q.row.lockType = "WRITE" /\ t > r.oldReadLease
    BY <1>3, <1>4, <2>1 DEF RowOK, TS
  <2>7. RowStep(t, r, q.row)
    BY <1>3, <2>2, <2>3, <2>4, <2>5, <2>6 DEF RowStep, TS
  <2> QED
    BY SMTT(60), <1>1, <1>3, <1>4, <2>1, <2>7 DEF ts, q, TS
<1>5. CASE now <= r.lease /\ r.lockType = "READ"
  <2>1. /\ q.wait = TRUE
        /\ q.row = [lockType |-> "INTEND", oldReadLease |-> r.lease,
                     lease |-> IF ts < r.lease THEN r.lease ELSE ts]
        /\ q.local = [lockType |-> "INTEND", lease |-> ts]
    BY <1>1, <1>3, <1>5 DEF lockForWriteTxn, updateRow, ts, TS
  <2>2. q.row.lockType \in LockType /\ q.row.lease \in TS /\ q.row.oldReadLease \in TS
    BY <1>1, <1>3, <2>1 DEF LockType
  <2> HIDE DEF q
  <2>3. RowOK(q.row) /\ (q.row = r \/ Before(r, q.row))
    BY <1>1, <1>2, <1>3, <1>5, <2>1, <2>2 DEF RowOK, Before, Rank, LockType, TS
  <2>4. \A g \in TS : CoveredBy(t, r, g) => CoveredBy(t, q.row, g)
    BY <1>1, <1>3, <1>5, <2>1, <2>2 DEF RowOK, CoveredBy, LockType, TS
  <2>5. r.lockType = "WRITE" /\ r.lease > t => q.row.lockType = "WRITE" /\ q.row.lease >= r.lease
    BY <1>1, <1>3, <1>5, <2>1, <2>2 DEF TS
  <2>6. r.lockType = "INTEND" /\ q.row # r => q.row.lockType = "WRITE" /\ t > r.oldReadLease
    BY <1>3, <1>5, <2>1 DEF RowOK, TS
  <2>7. RowStep(t, r, q.row)
    BY <1>3, <2>2, <2>3, <2>4, <2>5, <2>6 DEF RowStep, TS
  <2> QED
    BY <1>1, <1>3, <1>5, <2>1, <2>7 DEF ts, q, TS
<1>6. CASE now <= r.lease /\ r.lockType = "INTEND" /\ now > r.oldReadLease
  <2>1. /\ q.wait = FALSE
        /\ q.row = [lockType |-> "WRITE", lease |-> ts, oldReadLease |-> r.oldReadLease]
        /\ q.local = [lockType |-> "WRITE", lease |-> ts]
    BY <1>1, <1>3, <1>6 DEF lockForWriteTxn, updateRow, ts, TS
  <2>2. q.row.lockType \in LockType /\ q.row.lease \in TS /\ q.row.oldReadLease \in TS
    BY <1>1, <1>3, <2>1 DEF LockType
  <2> HIDE DEF q
  <2>3. RowOK(q.row) /\ (q.row = r \/ Before(r, q.row))
    BY <1>1, <1>2, <1>3, <1>6, <2>1, <2>2 DEF RowOK, Before, Rank, LockType, TS
  <2>4. \A g \in TS : CoveredBy(t, r, g) => CoveredBy(t, q.row, g)
    BY <1>1, <1>3, <1>6, <2>1, <2>2 DEF RowOK, CoveredBy, LockType, TS
  <2>5. r.lockType = "WRITE" /\ r.lease > t => q.row.lockType = "WRITE" /\ q.row.lease >= r.lease
    BY <1>1, <1>3, <1>6, <2>1, <2>2 DEF TS
  <2>6. r.lockType = "INTEND" /\ q.row # r => q.row.lockType = "WRITE" /\ t > r.oldReadLease
    BY <1>3, <1>6, <2>1 DEF RowOK, TS
  <2>7. RowStep(t, r, q.row)
    BY <1>3, <2>2, <2>3, <2>4, <2>5, <2>6 DEF RowStep, TS
  <2> QED
    BY <1>1, <1>3, <1>6, <2>1, <2>7 DEF ts, q, TS
<1>7. CASE now <= r.lease /\ r.lockType = "INTEND" /\ now <= r.oldReadLease
  <2>1. /\ q.wait = TRUE
        /\ q.row = r
        /\ q.local = [lockType |-> r.lockType, lease |-> r.lease]
    BY <1>1, <1>3, <1>7 DEF lockForWriteTxn, updateRow, ts, TS
  <2>2. q.row.lockType \in LockType /\ q.row.lease \in TS /\ q.row.oldReadLease \in TS
    BY <1>1, <1>3, <2>1 DEF LockType
  <2> HIDE DEF q
  <2>3. RowOK(q.row) /\ (q.row = r \/ Before(r, q.row))
    BY <1>1, <1>2, <1>3, <1>7, <2>1, <2>2 DEF RowOK, Before, Rank, LockType, TS
  <2>4. \A g \in TS : CoveredBy(t, r, g) => CoveredBy(t, q.row, g)
    BY <1>1, <1>3, <1>7, <2>1, <2>2 DEF RowOK, CoveredBy, LockType, TS
  <2>5. r.lockType = "WRITE" /\ r.lease > t => q.row.lockType = "WRITE" /\ q.row.lease >= r.lease
    BY <1>1, <1>3, <1>7, <2>1, <2>2 DEF TS
  <2>6. r.lockType = "INTEND" /\ q.row # r => q.row.lockType = "WRITE" /\ t > r.oldReadLease
    BY <1>3, <1>7, <2>1 DEF RowOK, TS
  <2>7. RowStep(t, r, q.row)
    BY <1>3, <2>2, <2>3, <2>4, <2>5, <2>6 DEF RowStep, TS
  <2> QED
    BY <1>1, <1>3, <1>7, <2>1, <2>7 DEF ts, q, TS
<1>8. CASE now <= r.lease /\ r.lockType = "WRITE"
  <2>1. /\ q.wait = FALSE
        /\ q.row = IF ts > r.lease
                    THEN [lockType |-> "WRITE", lease |-> ts, oldReadLease |-> r.oldReadLease] ELSE r
        /\ q.local = IF ts > r.lease THEN [lockType |-> "WRITE", lease |-> ts] ELSE [lockType |-> r.lockType, lease |-> r.lease]
    BY <1>1, <1>3, <1>8 DEF lockForWriteTxn, updateRow, ts, TS
  <2>2. q.row.lockType \in LockType /\ q.row.lease \in TS /\ q.row.oldReadLease \in TS
    BY <1>1, <1>3, <2>1 DEF LockType
  <2> HIDE DEF q
  <2>3. RowOK(q.row) /\ (q.row = r \/ Before(r, q.row))
    BY <1>1, <1>2, <1>3, <1>8, <2>1, <2>2 DEF RowOK, Before, Rank, LockType, TS
  <2>4. \A g \in TS : CoveredBy(t, r, g) => CoveredBy(t, q.row, g)
    BY <1>1, <1>3, <1>8, <2>1, <2>2 DEF RowOK, CoveredBy, LockType, TS
  <2>5. r.lockType = "WRITE" /\ r.lease > t => q.row.lockType = "WRITE" /\ q.row.lease >= r.lease
    BY <1>1, <1>3, <1>8, <2>1, <2>2 DEF TS
  <2>6. r.lockType = "INTEND" /\ q.row # r => q.row.lockType = "WRITE" /\ t > r.oldReadLease
    BY <1>3, <1>8, <2>1 DEF RowOK, TS
  <2>7. RowStep(t, r, q.row)
    BY <1>3, <2>2, <2>3, <2>4, <2>5, <2>6 DEF RowStep, TS
  <2> QED
    BY <1>1, <1>3, <1>8, <2>1, <2>7 DEF ts, q, TS
<1>9. ~(now <= r.lease /\ r.lockType = "NONE")
  BY <1>3 DEF RowOK, TS
<1>10. \/ now > r.lease
       \/ now <= r.lease /\ r.lockType = "READ"
       \/ now <= r.lease /\ r.lockType = "INTEND" /\ now > r.oldReadLease
       \/ now <= r.lease /\ r.lockType = "INTEND" /\ now <= r.oldReadLease
       \/ now <= r.lease /\ r.lockType = "WRITE"
  BY <1>3, <1>9 DEF LockType, TS
<1> QED
  BY ONLY <1>4, <1>5, <1>6, <1>7, <1>8, <1>10

\* A transaction that writes nothing is a step of the row, too.
LEMMA NoStep ==
    ASSUME NEW t \in TS, NEW r \in Row, RowOK(r)
    PROVE  RowStep(t, r, r)
  BY DEF RowStep, Row, TS

\* The same for RenewReadLease, which only extends a READ lock.
LEMMA RenewReadStep ==
    ASSUME NEW t \in TS, NEW now \in TS, NEW r \in Row, NEW a \in TS, NEW b \in TS, RowOK(r)
    PROVE  RowStep(t, r, renewReadTxn(now, r, a, b).row)
<1> DEFINE q == renewReadTxn(now, r, a, b).row
<1> SUFFICES RowStep(t, r, q)
  OBVIOUS
<1>1. \/ q = r
      \/ r.lockType = "READ" /\ b > r.lease /\ q = updateRow(r, "READ", b)
  BY DEF renewReadTxn
<1> HIDE DEF q
<1>2. CASE q = r
  BY <1>2, NoStep
<1>3. CASE r.lockType = "READ" /\ b > r.lease /\ q = updateRow(r, "READ", b)
  <2>1. r.lease \in Nat /\ b \in Nat /\ q.lockType = "READ" /\ q.lease = b
    BY <1>3 DEF updateRow, Row, TS
  <2>2. \A g \in TS : CoveredBy(t, r, g) => CoveredBy(t, q, g)
    BY <1>3, <2>1 DEF CoveredBy, TS
  <2>3. RowOK(q) /\ Before(r, q)
    BY <1>3, <2>1 DEF RowOK, Before
  <2> QED
    BY <1>3, <2>2, <2>3 DEF RowStep
<1> QED
  BY <1>1, <1>2, <1>3

\* The same for RenewWriteLease, which only extends a WRITE lock.
LEMMA RenewWriteStep ==
    ASSUME NEW t \in TS, NEW now \in TS, NEW r \in Row, NEW a \in TS, RowOK(r)
    PROVE  RowStep(t, r, renewWriteTxn(now, r, a).row)
  BY DEF RowStep, RowOK, Before, Rank, CoveredBy, renewWriteTxn, updateRow, Row, LockType, TS

\* Every step moves the row by one of the transactions above, or not at all.
LEMMA RowMoves ==
    ASSUME TypeOK, LockInv, [Next]_vars
    PROVE  RowStep(tso, row, row')
<1> USE DEF TypeOK
<1>0. ASSUME row' = row PROVE RowStep(tso, row, row')
  BY <1>0, NoStep DEF LockInv
<1>1. ASSUME NEW n \in Node PROVE LockOK(n) /\ call[n] \in Call /\ renewer[n] \in Renewer
  BY <1>1 DEF LockInv
<1>2. ASSUME NEW n \in Node, EndLockForRead(n) \/ (FailRead(n) /\ call[n].op = "lockRead")
      PROVE  RowStep(tso, row, row')
  <2> DEFINE new == lockForReadTxn(call[n].now, call[n].snap, leaseFromTS(call[n].arg, ReadLease)).row
  <2>1. row' = row \/ (row' = new /\ call[n].snap = row)
    BY <1>2 DEF EndLockForRead, FailRead, Conflict
  <2>2. call[n].op = "lockRead" /\ call[n].now \in TS /\ leaseFromTS(call[n].arg, ReadLease) \in TS
    BY <1>1, <1>2, LeaseType, LeaseAssumption DEF EndLockForRead, Call
  <2>3. call[n].snap = row => RowStep(tso, row, new)
    BY <1>1, <2>2, LockForReadStep DEF LockOK, SnapOK
  <2> QED
    BY <1>0, <2>1, <2>3
<1>3. ASSUME NEW n \in Node, EndRenewReadLease(n) \/ (FailRead(n) /\ call[n].op # "lockRead")
      PROVE  RowStep(tso, row, row')
  <2> DEFINE new == renewReadTxn(call[n].now, call[n].snap, call[n].data.lease,
                                 leaseFromTS(call[n].arg, ReadLease)).row
  <2>1. row' = row \/ (row' = new /\ call[n].snap = row)
    BY <1>3 DEF EndRenewReadLease, FailRead, Conflict
  <2>2. /\ call[n].now \in TS /\ call[n].data.lease \in TS
        /\ leaseFromTS(call[n].arg, ReadLease) \in TS
    BY <1>1, LeaseType, LeaseAssumption DEF Call, CacheData
  <2>3. call[n].snap = row => RowStep(tso, row, new)
    BY <2>2, RenewReadStep DEF LockInv
  <2> QED
    BY <1>0, <2>1, <2>3
<1>4. ASSUME NEW n \in Node, EndLockForWrite(n) \/ FailLockForWrite(n)
      PROVE  RowStep(tso, row, row')
  <2>1. row' = row \/ row' = lockForWriteTxn(call[n].now, row).row
    BY <1>4 DEF EndLockForWrite, FailLockForWrite
  <2>2. call[n].now \in TS /\ call[n].now >= 1
    BY <1>1, <1>4 DEF EndLockForWrite, FailLockForWrite, Call, TS
  <2>3. RowStep(tso, row, lockForWriteTxn(call[n].now, row).row)
    BY <1>1, <2>2, LockForWriteStep DEF LockInv, LockOK
  <2> QED
    BY <1>0, <2>1, <2>3
<1>5. ASSUME NEW n \in Node, EndRenewWriteLease(n) \/ FailRenewWriteLease(n)
      PROVE  RowStep(tso, row, row')
  <2>1. row' = row \/ row' = renewWriteTxn(call[n].now, row, renewer[n].newLease).row
    BY <1>5 DEF EndRenewWriteLease, FailRenewWriteLease
  <2>2. call[n].now \in TS /\ renewer[n].newLease \in TS
    BY <1>1 DEF Call, Renewer
  <2>3. RowStep(tso, row, renewWriteTxn(call[n].now, row, renewer[n].newLease).row)
    BY <2>2, RenewWriteStep DEF LockInv
  <2> QED
    BY <1>0, <2>1, <2>3
<1>6. ASSUME NEW n \in Node,
             \/ \E ts \in ReadTS : BeginLockForRead(n, ts) \/ BeginRenewReadLease(n, ts)
             \/ \E l \in loader[n] :
                   LoadData(n, l) \/ LoadFail(n, l) \/ CheckLoaded(n, l) \/ StoreLoaded(n, l)
             \/ FastLockForWrite(n) \/ BeginLockForWrite(n) \/ TickKeepAlive(n)
             \/ BeginRenewWriteLease(n) \/ GetCommitTS(n) \/ Commit(n) \/ Restart(n)
      PROVE  row' = row
  BY <1>6 DEF BeginLockForRead, BeginRenewReadLease, LoadData, LoadFail, CheckLoaded, StoreLoaded,
              FastLockForWrite, BeginLockForWrite, TickKeepAlive, BeginRenewWriteLease,
              GetCommitTS, Commit, Restart
<1>7. Tick \/ UNCHANGED vars => row' = row
  BY DEF Tick, vars
<1> QED
  BY NodeAssumption, <1>0, <1>2, <1>3, <1>4, <1>5, <1>6, <1>7 DEF Next, Read, Write

\* PD's timestamps only grow.
LEMMA TimeMoves ==
    ASSUME TypeOK, [Next]_vars
    PROVE  tso' >= tso
<1>1. tso \in Nat /\ (GetTS => tso' = tso + 1)
  BY DEF TypeOK, TS, GetTS, Advance
<1>2. Tick => tso' >= tso
  BY <1>1 DEF Tick, Advance
<1>3. ASSUME NEW n \in Node, Read(n) \/ Write(n) \/ Restart(n) PROVE tso' = tso \/ GetTS
  BY <1>3 DEF Read, Write, BeginLockForRead, BeginRenewReadLease, EndLockForRead, EndRenewReadLease,
              FailRead, LoadData, LoadFail, CheckLoaded, StoreLoaded, FastLockForWrite,
              BeginLockForWrite, EndLockForWrite, FailLockForWrite, TickKeepAlive,
              BeginRenewWriteLease, EndRenewWriteLease, FailRenewWriteLease, GetCommitTS, Commit,
              Restart
<1> QED
  BY NodeAssumption, <1>1, <1>2, <1>3 DEF Next, vars

-----------------------------------------------------------------------------
(* LockInv: the row of the lock covers every read lease that a server holds or may *)
(* still be granted, whatever fails.                                               *)


\* A lease that is covered stays covered.
LEMMA StaysCovered ==
    ASSUME TypeOK, TypeOK', RowStep(tso, row, row'), tso' >= tso, NEW g \in TS, Covered(g)
    PROVE  Covered(g)'
<1>1. CoveredBy(tso, row', g)
  BY DEF RowStep, Covered
<1> QED
  BY <1>1 DEF Covered, CoveredBy, TypeOK, Row, TS

\* The snapshot of a running transaction stays what it was: an earlier row.
LEMMA SnapStays ==
    ASSUME TypeOK, TypeOK', RowStep(tso, row, row'), tso' >= tso, NEW c \in Call, SnapOK(c)
    PROVE  SnapOK(c)'
<1> SUFFICES ASSUME c.op \in {"lockRead", "renewRead"}
             PROVE  /\ c.now >= 1 /\ RowOK(c.snap)
                    /\ c.snap = row' \/ Before(c.snap, row')
                    /\ c.snap.lockType = "READ" => Covered(c.snap.lease)'
  BY DEF SnapOK
<1>1. /\ row \in Row /\ row' \in Row /\ c.snap \in Row
      /\ row' = row \/ Before(row, row')
      /\ c.snap = row \/ Before(c.snap, row)
  BY DEF TypeOK, Call, RowStep, SnapOK
<1>2. c.snap = row' \/ Before(c.snap, row')
  BY <1>1 DEF Before, Rank, Row, LockType, TS
<1>3. c.snap.lockType = "READ" => Covered(c.snap.lease)'
  BY <1>1, StaysCovered DEF SnapOK, Row
<1> QED
  BY <1>2, <1>3 DEF SnapOK

\* A timestamp of the past stays in the past.
LEMMA StaysPast ==
    \A a, b, c \in Nat : a <= b /\ c >= b => a <= c
  OBVIOUS

\* What a step must show of a server: only of the parts that it changes.
LEMMA LockMoves ==
    ASSUME TypeOK, TypeOK', RowStep(tso, row, row'), tso' >= tso, NEW n \in Node, LockOK(n),
           \/ call'[n] = call[n]
           \/ /\ call'[n].now <= tso' /\ call'[n].arg <= tso'
              /\ SnapOK(call[n])' /\ Covered(call[n].data.lease)',
           cache'[n].lease = cache[n].lease \/ Covered(cache[n].lease)',
           \A l \in loader'[n] :
              \/ \E k \in loader[n] : l.ts = k.ts /\ l.lease = k.lease
              \/ /\ \/ \E k \in loader[n] : l.ts = k.ts
                    \/ l.ts <= tso' /\ Covered(leaseFromTS(l.ts, ReadLease))'
                 /\ Covered(l.lease)'
    PROVE  LockOK(n)'
<1>1. /\ call[n] \in Call /\ call[n].now \in Nat /\ call[n].arg \in Nat
      /\ call[n].data.lease \in TS /\ cache[n].lease \in TS /\ tso \in Nat /\ tso' \in Nat
  BY Fields DEF TypeOK, TS
<1>2. SnapOK(call[n])' /\ Covered(call[n].data.lease)' /\ call'[n].now <= tso' /\ call'[n].arg <= tso'
  <2>1. CASE call'[n] = call[n]
    <3>c. PICK c \in Call : c = call[n]
      BY <1>1
    <3>1. SnapOK(c) /\ Covered(c.data.lease) /\ c.now <= tso /\ c.arg <= tso /\ c.data.lease \in TS
      BY <1>1, <3>c DEF LockOK
    <3>2. SnapOK(c)' /\ Covered(c.data.lease)'
      BY <3>1, SnapStays, StaysCovered
    <3>3. c.now <= tso' /\ c.arg <= tso'
      BY <1>1, <3>c, <3>1, StaysPast
    <3> QED
      BY <2>1, <3>c, <3>2, <3>3 DEF SnapOK, Covered
  <2> QED
    BY <2>1
<1>3. Covered(cache[n].lease)'
  BY <1>1, StaysCovered DEF LockOK
<1>4. ASSUME NEW l \in loader'[n]
      PROVE  l.ts <= tso' /\ Covered(leaseFromTS(l.ts, ReadLease))' /\ Covered(l.lease)'
  <2>1. ASSUME NEW k \in loader[n], l.ts = k.ts
        PROVE  l.ts <= tso' /\ Covered(leaseFromTS(l.ts, ReadLease))'
    <3>1. k.ts \in TS /\ k \in loader[n]
      BY Fields
    <3>2. leaseFromTS(k.ts, ReadLease) \in TS
      BY <3>1, LeaseType, LeaseAssumption
    <3>3. k.ts <= tso /\ Covered(leaseFromTS(k.ts, ReadLease))
      BY <3>1 DEF LockOK
    <3>4. Covered(leaseFromTS(k.ts, ReadLease))'
      BY <3>2, <3>3, StaysCovered
    <3>5. k.ts <= tso'
      BY <1>1, <3>1, <3>3, StaysPast DEF TS
    <3> QED
      BY <2>1, <3>4, <3>5
  <2>2. ASSUME NEW k \in loader[n], l.lease = k.lease
        PROVE  Covered(l.lease)'
    <3>1. k.lease \in TS /\ Covered(k.lease)
      BY Fields DEF LockOK
    <3> QED
      BY <2>2, <3>1, StaysCovered
  <2> QED
    BY <1>4, <2>1, <2>2
<1> QED
  BY <1>2, <1>3, <1>4 DEF LockOK

\* LockInv is inductive.
LEMMA LockNext ==
    ASSUME TypeOK, TypeOK', LockInv, [Next]_vars
    PROVE  LockInv'
<1>1. RowStep(tso, row, row') /\ tso' >= tso
  BY RowMoves, TimeMoves
<1>2. tso \in Nat /\ tso' \in Nat /\ row \in Row /\ RowOK(row) /\ (GetTS => tso' = tso + 1)
  BY DEF TypeOK, LockInv, TS, GetTS, Advance
<1>3. \A m \in Node : LockOK(m)
  BY DEF LockInv
<1>0. /\ \A m \in Node : call[m] \in Call /\ cache[m] \in CacheData /\ loader[m] \subseteq Loader
      /\ Covered(0)' /\ Idle.op = "idle" /\ Idle.now = 0 /\ Idle.arg = 0
      /\ Idle.data = NoData /\ NoData.lease = 0
  <2>1. Covered(0)'
    BY <1>2 DEF Covered, CoveredBy
  <2>2. Idle.op = "idle" /\ Idle.now = 0 /\ Idle.arg = 0 /\ Idle.data = NoData /\ NoData.lease = 0
    BY DEF Idle, NoData
  <2> QED
    BY <2>1, <2>2, Fields
<1> SUFFICES ASSUME NEW m \in Node PROVE LockOK(m)'
  BY <1>1, <1>2 DEF LockInv, RowStep
<1>4. ASSUME call'[m] = call[m], cache'[m].lease = cache[m].lease, loader'[m] \subseteq loader[m]
      PROVE  LockOK(m)'
  BY <1>1, <1>3, <1>4, LockMoves
<1>i. call'[m] = Idle => /\ call'[m].now <= tso' /\ call'[m].arg <= tso'
                         /\ SnapOK(call[m])' /\ Covered(call[m].data.lease)'
  BY <1>0, <1>2 DEF SnapOK
<1>5. ASSUME NEW n \in Node, call'[m] = call[m] \/ (m = n /\ call'[m] = Idle),
             cache'[m].lease = cache[m].lease \/ Covered(cache[m].lease)',
             loader'[m] \subseteq loader[m]
      PROVE  LockOK(m)'
  BY <1>1, <1>3, <1>5, <1>i, LockMoves
<1>6. ASSUME NEW n \in Node, NEW ts \in ReadTS,
             BeginLockForRead(n, ts) \/ BeginRenewReadLease(n, ts)
      PROVE  LockOK(m)'
  <2>1. /\ tso' = tso + 1 /\ row' = row /\ UNCHANGED <<cache, loader>>
        /\ ts \in Nat /\ ts <= tso
        /\ \/ call' = [call EXCEPT ![n] = [op |-> "lockRead", arg |-> ts, now |-> tso + 1,
                                            snap |-> row, data |-> NoData]]
           \/ call' = [call EXCEPT ![n] = [op |-> "renewRead", arg |-> ts, now |-> tso + 1,
                                            snap |-> row, data |-> cache[n]]]
    <3>1. ts \in Nat /\ ts <= tso
      BY <1>2, BoundAssumption DEF ReadTS
    <3> QED
      BY <1>2, <1>6, <3>1 DEF BeginLockForRead, BeginRenewReadLease
  <2>2. CASE m # n
    BY <1>4, <2>1, <2>2 DEF TypeOK
  <2>3. CASE m = n
    <3>1. /\ call'[m].arg = ts /\ call'[m].now = tso + 1 /\ call'[m].snap = row
          /\ call'[m].data \in {NoData, cache[m]}
      BY <2>1, <2>3 DEF TypeOK
    <3>2. Covered(cache[m].lease)'
      BY <1>0, <1>1, <1>3, <2>1, StaysCovered DEF LockOK, CacheData
    <3>3. Covered(call[m].data.lease)'
      BY <1>0, <2>1, <3>1, <3>2
    <3>4. row.lockType = "READ" => Covered(row.lease)'
      BY <1>2, <2>1, Shorter DEF Covered
    <3>5. SnapOK(call[m])'
      <4>1. tso + 1 >= 1 /\ row' = row
        BY <1>2, <2>1
      <4> QED
        BY <1>2, <3>1, <3>4, <4>1 DEF SnapOK
    <3>6. call'[m].now <= tso' /\ call'[m].arg <= tso'
      <4>1. tso + 1 <= tso + 1 /\ ts <= tso + 1
        BY <1>2, <2>1
      <4> QED
        BY <2>1, <3>1, <4>1
    <3>7. cache'[m].lease = cache[m].lease /\ loader'[m] = loader[m]
      BY <2>1
    <3> QED
      BY <1>1, <1>3, <3>3, <3>5, <3>6, <3>7, LockMoves
  <2> QED
    BY <2>2, <2>3
<1>7. ASSUME NEW n \in Node, EndLockForRead(n) PROVE LockOK(m)'
  <2>c. PICK c \in Call : c = call[n]
    BY <1>0
  <2> DEFINE lease == leaseFromTS(c.arg, ReadLease)
             res == lockForReadTxn(c.now, c.snap, lease)
  <2>0. c.arg \in TS /\ c.now \in TS /\ c.snap \in Row /\ lease \in TS
    BY LeaseType, LeaseAssumption DEF TypeOK, Call
  <2>1. /\ c.op = "lockRead" /\ tso' = tso /\ call' = [call EXCEPT ![n] = Idle]
        /\ row' = IF res.row = c.snap THEN row ELSE res.row
        /\ ~res.succ => UNCHANGED <<cache, loader>>
        /\ res.succ =>
            /\ cache' = [cache EXCEPT ![n] = [start |-> c.arg, lease |-> lease,
                                              loaded |-> FALSE, buf |-> {}]]
            /\ loader' = [loader EXCEPT ![n] = @ \cup
                   {[ts |-> c.arg, startTS |-> 0, buf |-> {}, lease |-> 0, pc |-> "load"]}]
    BY <1>7, <2>c DEF EndLockForRead
  <2>2. CASE m # n \/ ~res.succ
    BY ZenonT(60), <1>5, <2>1, <2>2 DEF TypeOK
  <2>3. CASE m = n /\ res.succ
    <3>1. c.snap.lockType = "READ" => Covered(c.snap.lease)
      BY <1>3, <2>c, <2>1, <2>3 DEF LockOK, SnapOK
    <3>2. c.snap.lockType = "READ" => Covered(c.snap.lease)'
      BY <1>1, <2>0, <3>1, StaysCovered DEF Row
    <3>3. c.now >= 1 /\ c.now <= tso /\ c.arg <= tso /\ RowOK(c.snap)
      BY <1>3, <2>c, <2>1, <2>3 DEF LockOK, SnapOK
    <3> HIDE DEF lease
    <3>4. Covered(lease)'
      <4>1. CASE row' = res.row /\ res.row.lockType = "READ" /\ res.row.lease = lease
        BY <2>0, <4>1 DEF Covered, CoveredBy, TS
      <4>2. CASE c.snap.lockType = "READ" /\ lease <= c.snap.lease
        <5>1. tso' \in Nat /\ row' \in Row /\ c.snap.lease \in TS
          BY <1>2, <2>0 DEF TypeOK, Row
        <5> QED
          BY <2>0, <3>2, <4>2, <5>1, Shorter DEF Covered
      <4>3. \/ res.row # c.snap /\ res.row.lockType = "READ" /\ res.row.lease = lease
            \/ c.snap.lockType = "READ" /\ lease <= c.snap.lease
        BY <2>0, <2>3, <3>3, LockForReadGrant
      <4> QED
        BY <2>1, <4>1, <4>2, <4>3
    <3>5. /\ call'[m] = Idle /\ cache'[m].lease = lease
          /\ loader'[m] = loader[m] \cup
                 {[ts |-> c.arg, startTS |-> 0, buf |-> {}, lease |-> 0, pc |-> "load"]}
      <4>0. call \in [Node -> Call] /\ cache \in [Node -> CacheData] /\ loader \in [Node -> SUBSET Loader]
        BY Fields
      <4>1. call'[m] = Idle
        BY <2>1, <2>3, <4>0
      <4>2. cache'[m].lease = lease
        BY <2>1, <2>3, <4>0
      <4>3. loader'[m] = loader[m] \cup
                 {[ts |-> c.arg, startTS |-> 0, buf |-> {}, lease |-> 0, pc |-> "load"]}
        BY <2>1, <2>3, <4>0
      <4> QED
        BY <4>1, <4>2, <4>3
    <3>6. /\ call'[m].now <= tso' /\ call'[m].arg <= tso'
          /\ SnapOK(call[m])' /\ Covered(call[m].data.lease)'
      BY <1>i, <3>5
    <3>7. Covered(cache[m].lease)'
      BY <3>4, <3>5
    <3>8. \A l \in loader'[m] :
             \/ \E k \in loader[m] : l.ts = k.ts /\ l.lease = k.lease
             \/ /\ l.ts <= tso' /\ Covered(leaseFromTS(l.ts, ReadLease))'
                /\ Covered(l.lease)'
      <4> DEFINE new == [ts |-> c.arg, startTS |-> 0, buf |-> {}, lease |-> 0, pc |-> "load"]
      <4>1. new.ts = c.arg /\ new.lease = 0
        OBVIOUS
      <4>2. new.ts <= tso' /\ Covered(leaseFromTS(new.ts, ReadLease))' /\ Covered(new.lease)'
        BY <1>0, <2>1, <3>3, <3>4, <4>1 DEF lease
      <4> HIDE DEF new
      <4> QED
        BY <3>5, <4>2 DEF new
    <3> QED
      BY <1>1, <1>3, <3>6, <3>7, <3>8, LockMoves
  <2> QED
    BY <2>2, <2>3
<1>8. ASSUME NEW n \in Node, EndRenewReadLease(n) PROVE LockOK(m)'
  <2>c. PICK c \in Call : c = call[n]
    BY <1>0
  <2> DEFINE lease == leaseFromTS(c.arg, ReadLease)
             res == renewReadTxn(c.now, c.snap, c.data.lease, lease)
  <2>0. /\ c.arg \in TS /\ c.now \in TS /\ c.snap \in Row /\ c.data \in CacheData
        /\ c.data.lease \in TS /\ lease \in TS
    BY LeaseType, LeaseAssumption DEF Call, CacheData
  <2>1. /\ c.op = "renewRead" /\ tso' = tso /\ call' = [call EXCEPT ![n] = Idle]
        /\ row' = IF res.row = c.snap THEN row ELSE res.row
        /\ loader' = loader
        /\ ~(res.lease > 0) => cache' = cache
        /\ res.lease > 0 => cache' = [cache EXCEPT ![n] = [c.data EXCEPT !.lease = res.lease]]
    BY <1>8, <2>c DEF EndRenewReadLease
  <2>2. CASE m # n \/ ~(res.lease > 0)
    BY <1>5, <2>1, <2>2 DEF TypeOK
  <2>3. CASE m = n /\ res.lease > 0
    <3>1. c.snap.lockType = "READ" => Covered(c.snap.lease)
      BY <1>3, <2>c, <2>1, <2>3 DEF LockOK, SnapOK
    <3>2. c.snap.lockType = "READ" => Covered(c.snap.lease)'
      BY <1>1, <2>0, <3>1, StaysCovered DEF Row
    <3>3. /\ c.snap.lockType = "READ" /\ res.lease \in TS
          /\ \/ res.lease = c.snap.lease
             \/ res.row # c.snap /\ res.row.lockType = "READ" /\ res.row.lease = res.lease
      <4>1. renewReadTxn(c.now, c.snap, c.data.lease, lease).lease > 0
        BY <2>3
      <4>2. c.snap \in Row /\ lease \in TS
        BY <2>0
      <4> HIDE DEF lease
      <4> QED
        BY <4>1, <4>2, RenewReadGrant
    <3>4. Covered(res.lease)'
      <4>1. tso' \in Nat /\ row' \in Row
        BY <1>2 DEF TypeOK
      <4>2. CASE res.lease = c.snap.lease
        BY <3>2, <3>3, <4>2
      <4>3. CASE res.row # c.snap /\ res.row.lockType = "READ" /\ res.row.lease = res.lease
        BY <2>1, <4>1, <4>3, Shorter DEF Covered
      <4> QED
        BY <3>3, <4>2, <4>3
    <3>5. cache'[m].lease = res.lease
      <4>1. cache'[m] = [c.data EXCEPT !.lease = res.lease]
        BY <2>1, <2>3, Fields
      <4> QED
        BY <2>0, <4>1 DEF CacheData
    <3>6. Covered(cache[m].lease)'
      BY <3>4, <3>5
    <3> QED
      BY <1>5, <2>1, <2>3, <3>6 DEF TypeOK
  <2> QED
    BY <2>2, <2>3
<1>9. ASSUME NEW n \in Node, NEW l \in loader[n],
             LoadData(n, l) \/ LoadFail(n, l) \/ CheckLoaded(n, l) \/ StoreLoaded(n, l)
      PROVE  LockOK(m)'
  <2>0. l \in Loader /\ l.lease \in TS /\ cache[n].lease \in TS /\ Covered(l.lease) /\ Covered(cache[n].lease)
    BY <1>3, Fields DEF LockOK
  <2>1. Covered(l.lease)' /\ (cache'[n] = cache[n] => Covered(cache[n].lease)')
    BY <1>1, <2>0, StaysCovered
  <2>2. CASE m # n
    BY <1>4, <1>9, <2>2 DEF LoadData, LoadFail, CheckLoaded, StoreLoaded, TypeOK
  <2>3. CASE m = n /\ LoadData(n, l)
    <3>1. /\ call' = call /\ cache' = cache
          /\ loader'[m] = (loader[m] \ {l}) \cup
               {[l EXCEPT !.startTS = tso + 1, !.buf = commits, !.pc = "check"]}
      BY <2>3 DEF LoadData, TypeOK
    <3>2. \A k \in loader'[m] : \E j \in loader[m] : k.ts = j.ts /\ k.lease = j.lease
      BY <2>0, <2>3, <3>1 DEF Loader
    <3> QED
      BY <1>1, <1>3, <3>1, <3>2, LockMoves
  <2>4. CASE m = n /\ LoadFail(n, l)
    BY <1>4, <2>4 DEF LoadFail, TypeOK
  <2>5. CASE m = n /\ CheckLoaded(n, l)
    <3>1. /\ call' = call /\ cache' = cache
          /\ loader'[m] \subseteq loader[m] \cup {[l EXCEPT !.lease = cache[n].lease, !.pc = "store"]}
      BY <2>5 DEF CheckLoaded, TypeOK
    <3>2. ASSUME NEW k \in loader'[m], k \notin loader[m]
          PROVE  k.ts = l.ts /\ Covered(k.lease)'
      <4>1. k.ts = l.ts /\ k.lease = cache[n].lease
        BY ZenonT(60), <2>0, <3>1, <3>2 DEF Loader
      <4> QED
        BY <1>1, <2>0, <4>1, StaysCovered
    <3> QED
      BY <1>1, <1>3, <2>5, <3>1, <3>2, LockMoves
  <2>6. CASE m = n /\ StoreLoaded(n, l)
    <3>1. /\ call' = call /\ loader'[m] \subseteq loader[m] /\ cache'[m].lease = l.lease
      BY <2>6 DEF StoreLoaded, TypeOK
    <3>2. Covered(cache[m].lease)'
      BY <2>1, <3>1
    <3> QED
      BY <1>5, <2>6, <3>1, <3>2
  <2> QED
    BY <1>9, <2>2, <2>3, <2>4, <2>5, <2>6
<1>10. ASSUME NEW n \in Node, BeginLockForWrite(n) \/ BeginRenewWriteLease(n) \/ EndLockForWrite(n)
       PROVE  LockOK(m)'
  <2>1. UNCHANGED <<cache, loader>>
    BY <1>10 DEF BeginLockForWrite, BeginRenewWriteLease, EndLockForWrite
  <2>2. CASE m # n
    BY <1>4, <1>10, <2>1, <2>2 DEF BeginLockForWrite, BeginRenewWriteLease, EndLockForWrite, TypeOK
  <2>3. CASE m = n /\ (BeginLockForWrite(n) \/ BeginRenewWriteLease(n))
    <3>1. /\ call'[m].op \in {"lockWrite", "renewWrite"} /\ call'[m].now = tso'
          /\ call'[m].arg = 0 /\ call'[m].data = NoData
      <4>1. \/ call'[m] = [Idle EXCEPT !.op = "lockWrite", !.now = tso + 1]
            \/ call'[m] = [Idle EXCEPT !.op = "renewWrite", !.now = tso + 1]
        BY <2>3 DEF BeginLockForWrite, BeginRenewWriteLease, TypeOK
      <4>2. tso' = tso + 1
        BY <1>2, <2>3 DEF BeginLockForWrite, BeginRenewWriteLease
      <4> QED
        BY <4>1, <4>2 DEF Idle
    <3>2. SnapOK(call[m])' /\ Covered(call[m].data.lease)' /\ call'[m].now <= tso' /\ call'[m].arg <= tso'
      <4>1. tso' <= tso' /\ 0 <= tso'
        BY <1>2
      <4> QED
        BY <1>0, <3>1, <4>1 DEF SnapOK
    <3> QED
      BY <1>1, <1>3, <2>1, <3>2, LockMoves
  <2>4. CASE m = n /\ EndLockForWrite(n)
    <3>1. /\ call[m].op = "lockWrite"
          /\ call'[m] = Idle \/ call'[m] = [call[m] EXCEPT !.now = 0]
      BY <2>4 DEF EndLockForWrite, TypeOK
    <3>2. CASE call'[m] = Idle
      BY <1>5, <2>1, <3>2
    <3>3. CASE call'[m] = [call[m] EXCEPT !.now = 0]
      <4>1. /\ call'[m].op = "lockWrite" /\ call'[m].now = 0 /\ call'[m].arg = call[m].arg
            /\ call'[m].data = call[m].data /\ call[m].arg \in Nat /\ call[m].data.lease \in TS
        BY <1>0, <3>1, <3>3 DEF Call, CacheData, TS
      <4>2. SnapOK(call[m])' /\ Covered(call[m].data.lease)' /\ call'[m].now <= tso' /\ call'[m].arg <= tso'
        <5>1. Covered(call[m].data.lease) /\ call[m].arg <= tso
          BY <1>3 DEF LockOK
        <5>c. PICK g \in TS : g = call[m].data.lease
          BY <4>1
        <5>2. Covered(g)'
          BY <1>1, <5>1, <5>c, StaysCovered
        <5>3. Covered(call[m].data.lease)'
          BY <4>1, <5>c, <5>2 DEF Covered
        <5>4. call'[m].now <= tso' /\ call'[m].arg <= tso'
          <6>1. \A x \in Nat : x <= tso => x <= tso'
            BY <1>1, <1>2
          <6>2. 0 <= tso'
            BY <1>2
          <6> QED
            BY <4>1, <5>1, <6>1, <6>2
        <5> QED
          BY <4>1, <5>3, <5>4 DEF SnapOK
      <4> QED
        BY <1>1, <1>3, <2>1, <4>2, LockMoves
    <3> QED
      BY <3>1, <3>2, <3>3
  <2> QED
    BY <1>10, <2>2, <2>3, <2>4
<1>11. ASSUME NEW n \in Node, FailRead(n) \/ FailLockForWrite(n) \/ EndRenewWriteLease(n) \/ FailRenewWriteLease(n)
       PROVE  LockOK(m)'
  BY <1>5, <1>11 DEF FailRead, FailLockForWrite, EndRenewWriteLease, FailRenewWriteLease, TypeOK
<1>12. ASSUME NEW n \in Node, Restart(n) PROVE LockOK(m)'
  <2>1. CASE m # n
    BY <1>4, <1>12, <2>1 DEF Restart, TypeOK
  <2>2. CASE m = n
    <3>1. call'[m] = Idle /\ cache'[m] = NoData /\ loader'[m] = {}
      BY <1>12, <2>2 DEF Restart, TypeOK
    <3>2. Covered(cache[m].lease)'
      BY <1>0, <3>1
    <3> QED
      BY <1>5, <3>1, <3>2
  <2> QED
    BY <2>1, <2>2
<1>13. ASSUME NEW n \in Node, FastLockForWrite(n) \/ TickKeepAlive(n) \/ GetCommitTS(n) \/ Commit(n)
       PROVE  LockOK(m)'
  BY <1>4, <1>13 DEF FastLockForWrite, TickKeepAlive, GetCommitTS, Commit
<1>14. CASE Tick \/ UNCHANGED vars
  BY <1>4, <1>14 DEF Tick, vars
<1> QED
  BY NodeAssumption, <1>6, <1>7, <1>8, <1>9, <1>10, <1>11, <1>12, <1>13, <1>14 DEF Next, Read, Write

\* The row covers every read lease, whatever fails and however long a commit
\* takes (state_remote.go, all operations).
THEOREM Locking == Spec => []LockInv
<1>1. Init => LockInv
  BY SMTT(60) DEF Init, LockInv, LockOK, SnapOK, RowOK, Covered, CoveredBy, InitRow, Idle, NoData
<1>2. TypeOK /\ TypeOK' /\ LockInv /\ [Next]_vars => LockInv'
  BY LockNext
<1> QED
  BY <1>1, <1>2, Typing, PTL DEF Spec

\* While the lock is WRITE, no server has cached data it could still serve at the
\* current time (state_remote.go, LockForRead and lockForWriteOnce).
THEOREM Exclusion == Spec => []WriteExcludesRead
<1>1. TypeOK /\ LockInv => WriteExcludesRead
  BY DEF TypeOK, LockInv, LockOK, Covered, CoveredBy, WriteExcludesRead
<1> QED
  BY <1>1, Typing, Locking, PTL

\* "Never, never decrease lease" (state_remote.go, every updateRow).
THEOREM LeaseMonotone == Spec => LeaseNeverDecreases
<1>1. TypeOK /\ TypeOK' /\ LockInv /\ [Next]_vars => [row'.lease >= row.lease]_row
  <2> SUFFICES ASSUME TypeOK, TypeOK', LockInv, [Next]_vars, row' # row
               PROVE  row'.lease >= row.lease
    OBVIOUS
  <2>1. Before(row, row')
    BY RowMoves DEF RowStep
  <2> QED
    BY <2>1 DEF Before, TypeOK, Row, TS
<1> QED
  BY <1>1, Typing, Locking, PTL DEF Spec, LeaseNeverDecreases

\* Readers cannot starve a writer that announced itself (state_remote.go,
\* lockForWriteOnce).
THEOREM IntendTheorem == Spec => IntendStopsReaders
<1>1. TypeOK /\ LockInv /\ [Next]_vars =>
        [row.lockType = "INTEND" /\ row' # row =>
          \/ row'.lockType = "WRITE" /\ tso > row.oldReadLease
          \/ row'.lockType = "READ" /\ tso > row.lease]_row
  BY RowMoves DEF RowStep
<1> QED
  BY <1>1, Typing, Locking, PTL DEF Spec, IntendStopsReaders
=============================================================================
