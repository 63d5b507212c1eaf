------------------------ MODULE CachedTableCoherence ------------------------
(***************************************************************************)
(* Proof that cached tables are coherent, for any number of servers, any   *)
(* leases, any clock skew and any number of timestamps.  CoherenceInv says *)
(* that the data of a server is a snapshot that no commit within its lease *)
(* has changed; it rests on LockInv (CachedTableProofs), on the leases of  *)
(* writers, which the row of the lock backs, and on the two assumptions of *)
(* the theorem.                                                            *)
(***************************************************************************)
EXTENDS CachedTableProofs

USE ZenonT(5), SMTT(30)    \* the provers of a step that names none

(* The leases of writers. *)

\* While a commitTS is being checked no timestamp is handed out.
LEMMA CheckStays ==
    ASSUME MaxStall = 0, TypeOK, TypeOK', [Next]_vars,
           \A n \in Node : txn[n].st = "check" => txn[n].cts = tso
    PROVE  /\ \A n \in Node : txn'[n].st = "check" => txn'[n].cts = tso'
           /\ \A n \in Node : txn'[n].st = "check" =>
                \/ txn[n].st = "check" /\ txn'[n].cts = txn[n].cts
                \/ txn'[n].cts > tso
           /\ tso' # tso => \A n \in Node : txn[n].st # "check"
<1>0. /\ tso \in Nat /\ tso' \in Nat
      /\ \A n \in Node : txn[n].cts \in Nat
  BY DEF TypeOK, Txn, TS
<1>1. ASSUME NEW t \in Nat, Advance(t), t > tso PROVE \A n \in Node : txn[n].st # "check"
  BY <1>0, <1>1 DEF Advance
<1>2. GetTS => tso' = tso + 1 /\ \A n \in Node : txn[n].st # "check"
  BY <1>0, <1>1 DEF GetTS, Advance
<1> DEFINE Kept(n) == txn'[n].st = "check" => txn[n].st = "check" /\ txn'[n].cts = txn[n].cts
<1>3. ASSUME tso' = tso \/ GetTS, \A n \in Node : Kept(n)
      PROVE  /\ \A n \in Node : txn'[n].st = "check" => txn'[n].cts = tso'
             /\ \A n \in Node : Kept(n)
             /\ tso' # tso => \A n \in Node : txn[n].st # "check"
  BY <1>2, <1>3
<1>4. CASE Tick
  <2>1. \A n \in Node : txn[n].st # "check"
    BY <1>0, <1>1, <1>4 DEF Tick
  <2> QED
    BY <1>4, <2>1 DEF Tick
<1>5. CASE UNCHANGED vars
  BY <1>5 DEF vars
<1>6. ASSUME NEW n \in Node, Read(n) PROVE (tso' = tso \/ GetTS) /\ txn' = txn
  BY <1>6 DEF Read, BeginLockForRead, BeginRenewReadLease, EndLockForRead, EndRenewReadLease,
              FailRead, LoadData, LoadFail, CheckLoaded, StoreLoaded
<1>7. ASSUME NEW n \in Node,
             \/ FastLockForWrite(n) \/ BeginLockForWrite(n) \/ EndLockForWrite(n)
             \/ FailLockForWrite(n) \/ TickKeepAlive(n) \/ BeginRenewWriteLease(n)
             \/ EndRenewWriteLease(n) \/ FailRenewWriteLease(n) \/ Commit(n) \/ Restart(n)
      PROVE  (tso' = tso \/ GetTS) /\ \A m \in Node : Kept(m)
  <2>1. tso' = tso \/ GetTS
    BY <1>7 DEF FastLockForWrite, BeginLockForWrite, EndLockForWrite, FailLockForWrite,
                TickKeepAlive, BeginRenewWriteLease, EndRenewWriteLease, FailRenewWriteLease,
                Commit, Restart
  <2>2. \/ txn' = txn
        \/ \E new \in Txn : /\ txn' = [txn EXCEPT ![n] = new]
                            /\ new.st = "check" => txn[n].st = "check" /\ new.cts = txn[n].cts
    <3>1. /\ txn[n] \in Txn /\ txn'[n] \in Txn
          /\ NoTxn.st = "idle"
      BY DEF TypeOK, NoTxn
    <3>2. CASE FastLockForWrite(n) \/ EndLockForWrite(n)
      <4>1. txn' = txn \/ (txn' = [txn EXCEPT ![n] = txn'[n]] /\ txn'[n].st = "locked")
        <5>1. CASE FastLockForWrite(n)
          BY <3>1, <5>1 DEF FastLockForWrite, TypeOK, Txn
        <5>2. CASE EndLockForWrite(n)
          <6> DEFINE new == [txn[n] EXCEPT !.st = "locked", !.keep = TRUE,
                                           !.lease = leaseFromTS(call[n].now, WriteLease)]
          <6>1. txn' = txn \/ txn' = [txn EXCEPT ![n] = new]
            BY <5>2 DEF EndLockForWrite
          <6>2. new.st = "locked"
            BY <3>1 DEF Txn
          <6> HIDE DEF new
          <6> QED
            BY <6>1, <6>2 DEF TypeOK
        <5> QED
          BY <3>2, <5>1, <5>2
      <4> QED
        BY <3>1, <4>1
    <3>3. CASE BeginLockForWrite(n)
      BY <3>1, <3>3 DEF BeginLockForWrite, TypeOK, NoTxn
    <3>4. CASE FailLockForWrite(n) \/ Commit(n) \/ Restart(n)
      BY <3>1, <3>4 DEF FailLockForWrite, Commit, Restart, TypeOK
    <3>5. CASE EndRenewWriteLease(n) \/ FailRenewWriteLease(n)
      BY <3>1, <3>5 DEF EndRenewWriteLease, FailRenewWriteLease, TypeOK, Txn
    <3>6. CASE TickKeepAlive(n) \/ BeginRenewWriteLease(n)
      BY <3>6 DEF TickKeepAlive, BeginRenewWriteLease
    <3> QED
      BY <1>7, <3>2, <3>3, <3>4, <3>5, <3>6
  <2> QED
    BY <2>1, <2>2 DEF TypeOK
<1>8. ASSUME NEW n \in Node, GetCommitTS(n)
      PROVE  /\ tso' = tso + 1 /\ \A m \in Node : txn[m].st # "check"
             /\ \A m \in Node : IF m = n THEN txn'[m].cts = tso + 1 ELSE txn'[m] = txn[m]
  <2>1. [txn[n] EXCEPT !.st = "check", !.cts = tso + 1].cts = tso + 1
    BY DEF TypeOK, Txn
  <2> QED
    BY <1>2, <1>8, <2>1 DEF GetCommitTS, TypeOK
<1>9. ASSUME NEW n \in Node, GetCommitTS(n)
      PROVE  /\ \A m \in Node : txn'[m].st = "check" => txn'[m].cts = tso' /\ txn'[m].cts > tso
             /\ \A m \in Node : txn[m].st # "check"
  BY <1>0, <1>8, <1>9
<1> HIDE DEF Kept
<1>10. CASE \E n \in Node : GetCommitTS(n)
  BY <1>9, <1>10
<1>11. CASE ~\E n \in Node : GetCommitTS(n)
  <2>1. Tick \/ UNCHANGED vars \/ ((tso' = tso \/ GetTS) /\ \A n \in Node : Kept(n))
    BY NodeAssumption, <1>6, <1>7, <1>11 DEF Next, Write, Kept
  <2> QED
    BY <1>3, <1>4, <1>5, <2>1 DEF Kept
<1> QED
  BY <1>10, <1>11

\* The lease of a writer and of a local copy is backed by the row, if a renewal
\* of a write lease that ends with an error does not happen.
LEMMA BackedNext ==
    ASSUME "renewWrite" \notin Faulty, TypeOK, TypeOK', LockInv, [Next]_vars,
           WriteLeaseBacked, LocalWriteBacked
    PROVE  WriteLeaseBacked' /\ LocalWriteBacked'
<1> DEFINE Backed(lease) == lease > tso => row.lockType = "WRITE" /\ row.lease >= lease
           W(m) == Backed(txn[m].lease)
           H(m) == handle[m].lockType = "WRITE" => Backed(handle[m].lease)
<1>0. /\ RowStep(tso, row, row') /\ tso' >= tso /\ tso \in Nat /\ tso' \in Nat
      /\ row.lease \in Nat /\ row'.lease \in Nat
  BY RowMoves, TimeMoves DEF TypeOK, Row, TS
<1>1. ASSUME NEW g \in Nat, Backed(g) PROVE Backed(g)'
  BY <1>0, <1>1 DEF RowStep
<1>2. /\ \A m \in Node : txn[m] \in Txn /\ handle[m] \in Handle
      /\ \A m \in Node : txn[m].lease \in Nat /\ handle[m].lease \in Nat
  BY DEF TypeOK, Txn, Handle, TS
<1>3. \A m \in Node : W(m) /\ H(m)
  BY DEF WriteLeaseBacked, LocalWriteBacked
<1> SUFFICES ASSUME NEW m \in Node PROVE W(m)' /\ H(m)'
  BY DEF WriteLeaseBacked, LocalWriteBacked
<1>4. txn'[m].lease = txn[m].lease => W(m)'
  BY <1>1, <1>2, <1>3
<1>5. handle'[m] = handle[m] => H(m)'
  BY <1>1, <1>2, <1>3
<1>6. handle'[m] = LocalCopy(row) => H(m)'
  <2>1. row.lockType = "WRITE" /\ row.lease > tso' =>
          row'.lockType = "WRITE" /\ row'.lease >= row.lease
    BY <1>0 DEF RowStep
  <2>2. LocalCopy(row).lockType = row.lockType /\ LocalCopy(row).lease = row.lease
    BY DEF LocalCopy
  <2> QED
    BY <2>1, <2>2
<1>7. (txn'[m].lease = 0 => W(m)') /\ (handle'[m].lockType # "WRITE" => H(m)')
  BY <1>0
<1>8. NoTxn.lease = 0 /\ NoHandle.lockType = "NONE" /\ [NoTxn EXCEPT !.st = "locking"].lease = 0
  BY DEF NoTxn, NoHandle
<1> HIDE DEF W, H, Backed
<1>9. ASSUME NEW n \in Node, Read(n) PROVE W(m)' /\ H(m)'
  <2>1. txn' = txn /\ (handle' = handle \/ handle' = [handle EXCEPT ![n] = LocalCopy(row)])
    BY <1>9 DEF Read, BeginLockForRead, BeginRenewReadLease, EndLockForRead, EndRenewReadLease,
                FailRead, LoadData, LoadFail, CheckLoaded, StoreLoaded
  <2> QED
    BY <1>4, <1>5, <1>6, <2>1 DEF TypeOK
<1>10. ASSUME NEW n \in Node, FastLockForWrite(n) PROVE W(m)' /\ H(m)'
  <2>1. [txn[n] EXCEPT !.st = "locked", !.lease = handle[n].lease, !.keep = TRUE].lease = handle[n].lease
    BY <1>2 DEF Txn
  <2>2. /\ handle' = handle /\ handle[n].lockType = "WRITE"
        /\ txn'[m].lease = IF m = n THEN handle[n].lease ELSE txn[m].lease
    BY <1>10, <2>1 DEF FastLockForWrite, TypeOK
  <2>3. Backed(handle[n].lease)
    BY <1>3, <2>2 DEF H
  <2>4. m = n => txn'[m].lease = handle[n].lease /\ handle[n].lease \in Nat
    BY <1>2, <2>2
  <2>5. m = n => W(m)'
    BY <1>1, <2>2, <2>3, <2>4 DEF W
  <2> QED
    BY <1>4, <1>5, <2>2, <2>5
<1>11. ASSUME NEW n \in Node, EndLockForWrite(n) PROVE W(m)' /\ H(m)'
  <2> DEFINE res == lockForWriteTxn(call[n].now, row)
             lease == leaseFromTS(call[n].now, WriteLease)
             new == [txn[n] EXCEPT !.st = "locked", !.keep = TRUE, !.lease = lease]
  <2>1. /\ tso' = tso /\ row' = res.row
        /\ handle' = [handle EXCEPT ![n] = res.local]
        /\ IF res.wait THEN txn' = txn ELSE txn' = [txn EXCEPT ![n] = new]
    BY <1>11 DEF EndLockForWrite
  <2>2. /\ call[n].now \in TS /\ call[n].now >= 1 /\ call[n].now <= tso /\ RowOK(row)
        /\ lease \in TS
    BY <1>11, LeaseType, LeaseAssumption DEF EndLockForWrite, TypeOK, Call, TS, LockInv, LockOK
  <2>3. /\ ~res.wait => res.row.lockType = "WRITE" /\ res.row.lease >= lease
        /\ res.local.lockType = "WRITE" /\ res.local.lease > tso =>
              res.row.lockType = "WRITE" /\ res.row.lease >= res.local.lease
    BY <2>2, LockForWriteStep DEF TypeOK
  <2>4. new.lease = lease
    BY <1>2 DEF Txn
  <2> HIDE DEF res, lease, new
  <2>5. CASE m # n
    BY <1>4, <1>5, <2>1, <2>5 DEF TypeOK
  <2>6. CASE m = n
    <3>1. H(m)'
      <4>1. handle'[m] = res.local
        BY <2>1, <2>6 DEF TypeOK
      <4> QED
        BY <2>1, <2>3, <4>1 DEF H, Backed
    <3>2. W(m)'
      <4>1. CASE res.wait
        BY <1>4, <2>1, <4>1
      <4>2. CASE ~res.wait
        <5>1. txn'[m].lease = lease
          BY <2>1, <2>4, <2>6, <4>2 DEF TypeOK
        <5> QED
          BY <2>1, <2>3, <4>2, <5>1 DEF W, Backed
      <4> QED
        BY <4>1, <4>2
    <3> QED
      BY <3>1, <3>2
  <2> QED
    BY <2>5, <2>6
<1>12. ASSUME NEW n \in Node, EndRenewWriteLease(n) PROVE W(m)' /\ H(m)'
  <2> DEFINE lease == renewer[n].newLease
             res == renewWriteTxn(call[n].now, row, lease)
             new == [txn[n] EXCEPT !.lease = lease]
  <2>1. /\ tso' = tso /\ row' = res.row
        /\ handle' = [handle EXCEPT ![n] =
              IF res.succ THEN [lockType |-> "WRITE", lease |-> lease] ELSE LocalCopy(row)]
        /\ txn' = txn \/ (res.succ /\ txn' = [txn EXCEPT ![n] = new])
    BY <1>12 DEF EndRenewWriteLease
  <2>2. lease \in Nat /\ new.lease = lease
    BY <1>2 DEF TypeOK, Renewer, TS, Txn
  <2>3. res.succ => res.row.lockType = "WRITE" /\ res.row.lease >= lease
    BY <1>0, <2>2 DEF renewWriteTxn, updateRow
  <2> HIDE DEF res, lease, new
  <2>4. CASE m # n
    BY <1>4, <1>5, <2>1, <2>4 DEF TypeOK
  <2>5. CASE m = n
    <3>1. H(m)'
      <4>1. CASE res.succ
        BY <2>1, <2>3, <2>5, <4>1 DEF H, Backed, TypeOK
      <4>2. CASE ~res.succ
        BY <1>6, <2>1, <2>5, <4>2 DEF TypeOK
      <4> QED
        BY <4>1, <4>2
    <3>2. txn'[m].lease = txn[m].lease \/ (res.succ /\ txn'[m].lease = lease)
      BY <2>1, <2>2, <2>5 DEF TypeOK
    <3>3. W(m)'
      BY <1>4, <2>1, <2>3, <3>2 DEF W, Backed
    <3> QED
      BY <3>1, <3>3
  <2> QED
    BY <2>4, <2>5
<1>13. ASSUME NEW n \in Node, BeginLockForWrite(n) \/ FailLockForWrite(n) \/ Commit(n) \/ Restart(n)
       PROVE  W(m)' /\ H(m)'
  <2>1. txn'[m].lease = txn[m].lease \/ txn'[m].lease = 0
    BY ZenonT(60), <1>8, <1>13 DEF BeginLockForWrite, FailLockForWrite, Commit, Restart, TypeOK
  <2>2. handle'[m] = handle[m] \/ handle'[m] = LocalCopy(row) \/ handle'[m] = NoHandle
    BY <1>13 DEF BeginLockForWrite, FailLockForWrite, Commit, Restart, TypeOK
  <2> QED
    BY <1>4, <1>5, <1>6, <1>7, <1>8, <2>1, <2>2
<1>14. ASSUME NEW n \in Node, GetCommitTS(n) \/ TickKeepAlive(n) \/ BeginRenewWriteLease(n)
       PROVE  W(m)' /\ H(m)'
  <2>1. [txn[n] EXCEPT !.st = "check", !.cts = tso + 1].lease = txn[n].lease
    BY <1>2 DEF Txn
  <2>2. txn'[m].lease = txn[m].lease /\ handle' = handle
    BY <1>14, <2>1 DEF GetCommitTS, TickKeepAlive, BeginRenewWriteLease, TypeOK
  <2> QED
    BY <1>4, <1>5, <2>2
<1>15. CASE Tick \/ UNCHANGED vars
  BY <1>4, <1>5, <1>15 DEF Tick, vars
<1>16. \A n \in Node : ~FailRenewWriteLease(n)
  BY DEF FailRenewWriteLease
<1> QED
  BY NodeAssumption, <1>9, <1>10, <1>11, <1>12, <1>13, <1>14, <1>15, <1>16 DEF Next, Write

\* The lease a commit is checked against, and the one the fast path of LockForWrite
\* uses, are backed by the row however long a commit takes (session.go,
\* commitTSCheck; state_remote.go, LockForWrite), provided that no renewal of a
\* write lease ends with an error.
THEOREM WriterLeases ==
    ASSUME "renewWrite" \notin Faulty
    PROVE  Spec => [](WriteLeaseBacked /\ LocalWriteBacked)
<1>1. Init => WriteLeaseBacked /\ LocalWriteBacked
  BY DEF Init, WriteLeaseBacked, LocalWriteBacked, NoTxn, NoHandle
<1>2. TypeOK /\ TypeOK' /\ LockInv /\ (WriteLeaseBacked /\ LocalWriteBacked) /\ [Next]_vars
        => (WriteLeaseBacked /\ LocalWriteBacked)'
  BY BackedNext
<1> QED
  BY <1>1, <1>2, Typing, Locking, PTL DEF Spec

\* The write lock in a server's local copy, which the fast path of LockForWrite trusts, is the
\* row's (state_remote.go, LockForWrite).
THEOREM LocalLocks ==
    ASSUME "renewWrite" \notin Faulty
    PROVE  Spec => []LocalWriteBacked
  BY WriterLeases, PTL

-----------------------------------------------------------------------------
(* The data. *)

\* A transaction that passes commitTSCheck commits at the current time, under a
\* WRITE lock; no other step commits.
LEMMA CommitsMove ==
    ASSUME TypeOK, CoherenceInv, [Next]_vars
    PROVE  \/ commits' = commits
           \/ /\ commits' = commits \cup {tso} /\ tso' = tso /\ row' = row
              /\ row.lockType = "WRITE"
              /\ \E m \in Node : txn[m].st = "check" /\ txn[m].cts = tso
<1>1. ASSUME NEW n \in Node, Commit(n), commits' # commits
      PROVE  /\ commits' = commits \cup {tso} /\ tso' = tso /\ row' = row
             /\ row.lockType = "WRITE"
             /\ txn[n].st = "check" /\ txn[n].cts = tso
  <2>1. /\ txn[n].st = "check" /\ txn[n].cts < txn[n].lease
        /\ commits' = commits \cup {txn[n].cts} /\ tso' = tso /\ row' = row
    BY <1>1 DEF Commit, commitTSCheck
  <2>2. txn[n].cts = tso
    BY <2>1 DEF CoherenceInv
  <2>3. row.lockType = "WRITE"
    BY <2>1, <2>2 DEF CoherenceInv, WriteLeaseBacked, TypeOK, Txn, TS
  <2> QED
    BY <2>1, <2>2, <2>3
<1>2. ASSUME NEW n \in Node, Read(n) \/ (Write(n) /\ ~Commit(n)) \/ Restart(n) PROVE commits' = commits
  BY <1>2 DEF Read, Write, BeginLockForRead, BeginRenewReadLease, EndLockForRead, EndRenewReadLease,
              FailRead, LoadData, LoadFail, CheckLoaded, StoreLoaded, FastLockForWrite,
              BeginLockForWrite, EndLockForWrite, FailLockForWrite, TickKeepAlive,
              BeginRenewWriteLease, EndRenewWriteLease, FailRenewWriteLease, GetCommitTS, Restart
<1>3. Tick \/ UNCHANGED vars => commits' = commits
  BY DEF Tick, vars
<1> QED
  BY NodeAssumption, <1>1, <1>2, <1>3 DEF Next

\* What a commit may not disturb: data frozen within a covered lease, snapshots
\* of the past.
LEMMA DataStays ==
    ASSUME MaxStall = 0, TypeOK, TypeOK', LockInv, CoherenceInv, [Next]_vars
    PROVE  /\ \A start \in TS, g \in TS : Frozen(start, g) /\ Covered(g) => Frozen(start, g)'
           /\ \A start \in TS, buf \in SUBSET TS : SnapshotAt(buf, start) => SnapshotAt(buf, start)'
           /\ \A c \in commits' : c <= tso'
<1>1. /\ tso \in Nat /\ tso' \in Nat /\ tso' >= tso /\ commits \in SUBSET Nat /\ commits' \in SUBSET Nat
      /\ \A m \in Node : txn[m].cts \in Nat
      /\ \A m \in Node : txn'[m].cts \in Nat
  BY TimeMoves DEF TypeOK, Txn, TS
<1>2. ASSUME NEW start \in TS, Past(start) PROVE Past(start)'
  <2>1. start \in Nat /\ start <= tso'
    BY <1>1, <1>2 DEF Past, TS
  <2>2. \A n \in Node : txn'[n].st = "check" =>
                \/ txn[n].st = "check" /\ txn'[n].cts = txn[n].cts
                \/ txn'[n].cts > tso
    BY CheckStays DEF CoherenceInv
  <2> QED
    BY <1>1, <1>2, <2>1, <2>2 DEF Past
<1>3. CASE commits' = commits
  BY <1>1, <1>2, <1>3 DEF Frozen, SnapshotAt, CoherenceInv
<1>4. CASE /\ commits' = commits \cup {tso} /\ tso' = tso /\ row.lockType = "WRITE"
           /\ \E m \in Node : txn[m].st = "check" /\ txn[m].cts = tso
  <2>1. \A start \in TS : Past(start) => start < tso
    BY <1>4 DEF Past
  <2>2. \A g \in TS : Covered(g) => g <= tso
    BY <1>4 DEF Covered, CoveredBy
  <2>3. \A start \in TS, g \in TS : Frozen(start, g) /\ Covered(g) => Frozen(start, g)'
    BY <1>1, <1>4, <2>2 DEF Frozen, TS
  <2>4. ASSUME NEW start \in TS, NEW buf \in SUBSET TS, SnapshotAt(buf, start) PROVE SnapshotAt(buf, start)'
    <3>1. {c \in commits' : c <= start} = {c \in commits : c <= start}
      BY <1>1, <1>4, <2>1, <2>4 DEF SnapshotAt, TS
    <3> QED
      BY <1>2, <2>4, <3>1 DEF SnapshotAt
  <2> QED
    BY <1>1, <1>4, <2>3, <2>4 DEF CoherenceInv
<1> QED
  BY <1>3, <1>4, CommitsMove

\* What a step must show of a server: only of the parts that it changes.
LEMMA DataMoves ==
    ASSUME MaxStall = 0, TypeOK, TypeOK', LockInv, CoherenceInv, [Next]_vars, NEW n \in Node,
           cache'[n] = cache[n] \/ DataOK(cache[n])',
           call'[n] = call[n] \/ CallDataOK(call[n])',
           \A l \in loader'[n] :
              \/ LoaderOK(n, l)'
              \/ /\ l \in loader[n]
                 /\ l.pc # "load" =>
                      /\ \/ cache'[n] = cache[n]
                         \/ cache'[n].start = l.ts => Frozen(l.startTS, cache[n].lease)'
                      /\ \/ call'[n].data = call[n].data
                         \/ call'[n].data.start = l.ts => Frozen(l.startTS, call[n].data.lease)'
    PROVE  CoherentAt(n)'
<1>1. /\ \A start \in TS, g \in TS : Frozen(start, g) /\ Covered(g) => Frozen(start, g)'
      /\ \A start \in TS, buf \in SUBSET TS : SnapshotAt(buf, start) => SnapshotAt(buf, start)'
  BY DataStays
<1>2. CoherentAt(n) /\ LockOK(n)
  BY DEF CoherenceInv, LockInv
<1>3. /\ cache[n] \in CacheData /\ call[n] \in Call /\ call[n].data \in CacheData
      /\ loader[n] \subseteq Loader
      /\ cache[n].lease \in TS /\ call[n].data.lease \in TS
  BY DEF TypeOK, Call, CacheData
<1>4. ASSUME NEW d \in CacheData, DataOK(d), Covered(d.lease) PROVE DataOK(d)'
  <2>1. d.start \in TS /\ d.lease \in TS /\ d.buf \in SUBSET TS
    BY DEF CacheData
  <2> QED
    BY <1>1, <1>4, <2>1 DEF DataOK
<1>5. DataOK(cache[n])'
  BY <1>2, <1>3, <1>4 DEF CoherentAt, LockOK, DataOK, SnapshotAt, Frozen, Past
<1>6. CallDataOK(call[n])'
  <2> SUFFICES ASSUME call'[n] = call[n] PROVE CallDataOK(call[n])'
    OBVIOUS
  <2>c. PICK c \in Call : c = call[n]
    BY <1>3
  <2>1. c.now \in TS /\ c.snap \in Row /\ c.snap.lease \in TS /\ c.data \in CacheData
    BY DEF Call, Row
  <2>2. CallDataOK(c) /\ SnapOK(c) /\ Covered(c.data.lease)
    BY <1>2, <2>c DEF CoherentAt, LockOK
  <2>3. DataOK(c.data)'
    BY <1>4, <2>1, <2>2 DEF CallDataOK
  <2>4. ASSUME c.op \in {"lockRead", "renewRead"}, c.snap.lockType = "READ"
        PROVE  Frozen(c.now, c.snap.lease)' /\ (c.snap = row' => \A t \in commits' : t <= c.now)
    <3>1. Frozen(c.now, c.snap.lease)'
      BY <1>1, <2>1, <2>2, <2>4 DEF CallDataOK, SnapOK
    <3>2. ASSUME c.snap = row' PROVE commits' = commits /\ row' = row
      <4>1. row' = row \/ Before(row, row')
        BY RowMoves DEF RowStep
      <4>2. c.snap = row \/ Before(c.snap, row)
        BY <2>2, <2>4 DEF SnapOK
      <4>3. row' = row
        BY <3>2, <4>1, <4>2 DEF Before, Rank, TypeOK, Row, LockType, TS
      <4> QED
        BY <2>4, <3>2, <4>3, CommitsMove
    <3> QED
      BY <2>2, <2>4, <3>1, <3>2 DEF CallDataOK
  <2>5. CallDataOK(c)'
    BY <2>3, <2>4 DEF CallDataOK
  <2> QED
    BY <2>c, <2>5
<1>7. ASSUME NEW l \in loader'[n] PROVE LoaderOK(n, l)'
  <2> SUFFICES ASSUME l \in loader[n], l.pc # "load",
                      \/ cache'[n] = cache[n]
                      \/ cache'[n].start = l.ts => Frozen(l.startTS, cache[n].lease)',
                      \/ call'[n].data = call[n].data
                      \/ call'[n].data.start = l.ts => Frozen(l.startTS, call[n].data.lease)'
               PROVE  LoaderOK(n, l)'
    BY <1>7 DEF LoaderOK
  <2>1. /\ l \in Loader /\ l.ts \in TS /\ l.startTS \in TS /\ l.lease \in TS /\ l.buf \in SUBSET TS
        /\ leaseFromTS(l.ts, ReadLease) \in TS
    BY <1>3, LeaseType, LeaseAssumption DEF Loader
  <2>2. LoaderOK(n, l) /\ Covered(leaseFromTS(l.ts, ReadLease)) /\ Covered(l.lease)
    BY <1>2 DEF CoherentAt, LockOK
  <2>3. /\ SnapshotAt(l.buf, l.startTS)'
        /\ Frozen(l.startTS, leaseFromTS(l.ts, ReadLease))' /\ Frozen(l.startTS, l.lease)'
    BY <1>1, <2>1, <2>2 DEF LoaderOK
  <2>4. ASSUME NEW g \in TS, Covered(g), Frozen(l.startTS, g) PROVE Frozen(l.startTS, g)'
    BY <1>1, <2>1, <2>4
  <2>5. cache'[n].start = l.ts => Frozen(l.startTS, cache[n].lease)'
    <3>1. CASE cache'[n] = cache[n]
      <4>1. PICK g \in TS : g = cache[n].lease
        BY <1>3
      <4>2. cache[n].start = l.ts => Frozen(l.startTS, g)'
        BY <1>2, <2>2, <2>4, <4>1 DEF LoaderOK, LockOK
      <4> QED
        BY <3>1, <4>1, <4>2
    <3> QED
      BY <3>1
  <2>6. call'[n].data.start = l.ts => Frozen(l.startTS, call[n].data.lease)'
    <3>1. CASE call'[n].data = call[n].data
      <4>1. PICK g \in TS : g = call[n].data.lease
        BY <1>3
      <4>2. call[n].data.start = l.ts => Frozen(l.startTS, g)'
        BY <1>2, <2>2, <2>4, <4>1 DEF LoaderOK, LockOK
      <4> QED
        BY <3>1, <4>1, <4>2
    <3> QED
      BY <3>1
  <2> QED
    BY <2>2, <2>3, <2>5, <2>6 DEF LoaderOK
<1> QED
  BY <1>5, <1>6, <1>7 DEF CoherentAt

\* CoherenceInv is inductive.
LEMMA CoherenceNext ==
    ASSUME "renewWrite" \notin Faulty, MaxStall = 0,
           TypeOK, TypeOK', LockInv, LockInv', CoherenceInv, [Next]_vars
    PROVE  CoherenceInv'
<1>0. /\ \A m \in Node : call[m] \in Call /\ cache[m] \in CacheData /\ loader[m] \subseteq Loader
      /\ \A m \in Node : CoherentAt(m) /\ LockOK(m)
      /\ tso \in Nat /\ row \in Row /\ commits \subseteq Nat /\ (GetTS => tso' = tso + 1)
      /\ \A c \in commits : c <= tso
      /\ \A m \in Node : txn[m].st = "check" => txn[m].cts = tso
      /\ \A m \in Node : txn[m].cts \in Nat
  BY DEF TypeOK, Txn, CoherenceInv, LockInv, TS, GetTS, Advance
<1> SUFFICES ASSUME NEW m \in Node PROVE CoherentAt(m)'
  <2>1. \A c \in commits' : c <= tso'
    BY DataStays
  <2>2. \A n \in Node : txn'[n].st = "check" => txn'[n].cts = tso'
    BY <1>0, CheckStays
  <2>3. WriteLeaseBacked' /\ LocalWriteBacked'
    BY BackedNext DEF CoherenceInv
  <2> QED
    BY <2>1, <2>2, <2>3 DEF CoherenceInv
\* A server that does not move, or drops a goroutine or its call.
<1>1. /\ Idle.op = "idle" /\ Idle.data = NoData
      /\ NoData.lease = 0 /\ NoData.loaded = FALSE /\ NoData \in CacheData
  BY ConstTypes DEF Idle, NoData
<1>2. \A start : Frozen(start, 0)'
  BY DEF Frozen, TypeOK, TS
<1>3. ASSUME call'[m].op \notin {"lockRead", "renewRead"}, call'[m].data = NoData
      PROVE  CallDataOK(call[m])'
  BY <1>1, <1>3 DEF CallDataOK, DataOK
<1>4. ASSUME \/ call'[m] = call[m]
             \/ call'[m].op \notin {"lockRead", "renewRead"} /\ call'[m].data = NoData,
             cache'[m] = cache[m], loader'[m] \subseteq loader[m]
      PROVE  CoherentAt(m)'
  <2>1. CASE call'[m] = call[m]
    BY <1>4, <2>1, DataMoves
  <2>2. CASE call'[m].op \notin {"lockRead", "renewRead"} /\ call'[m].data = NoData
    <3>1. CallDataOK(call[m])'
      BY <1>3, <2>2
    <3>2. \A l : Frozen(l.startTS, call[m].data.lease)'
      BY <1>1, <1>2, <2>2
    <3> QED
      BY <1>4, <3>1, <3>2, DataMoves
  <2> QED
    BY <1>4, <2>1, <2>2
<1>5. ASSUME NEW n \in Node, NEW ts \in ReadTS,
             BeginLockForRead(n, ts) \/ BeginRenewReadLease(n, ts)
      PROVE  CoherentAt(m)'
  <2>1. /\ tso' = tso + 1 /\ row' = row /\ commits' = commits /\ UNCHANGED <<cache, loader>>
        /\ UNCHANGED txn
        /\ \/ call' = [call EXCEPT ![n] = [op |-> "lockRead", arg |-> ts, now |-> tso + 1,
                                            snap |-> row, data |-> NoData]]
           \/ call' = [call EXCEPT ![n] = [op |-> "renewRead", arg |-> ts, now |-> tso + 1,
                                            snap |-> row, data |-> cache[n]]]
    BY <1>0, <1>5 DEF BeginLockForRead, BeginRenewReadLease
  <2>2. CASE m # n
    BY <1>4, <2>1, <2>2 DEF TypeOK
  <2>3. CASE m = n
    <3>1. /\ call'[m].now = tso + 1
          /\ call'[m].data \in {NoData, cache[m]}
      BY <2>1, <2>3 DEF TypeOK
    <3>2. \A t \in commits' : t <= call'[m].now
      BY <1>0, <2>1, <3>1
    <3>3. Frozen(call[m].now, call[m].snap.lease)'
      BY <1>0, <2>1, <3>1 DEF Frozen
    <3>4. DataOK(cache[m])'
      <4>1. CoherentAt(m) /\ Covered(cache[m].lease)
        BY <1>0 DEF LockOK
      <4>2. PICK d \in CacheData : d = cache[m]
        BY <1>0
      <4>3. d.start \in TS /\ d.lease \in TS /\ d.buf \in SUBSET TS
        BY DEF CacheData
      <4>4. DataOK(d)'
        BY <4>1, <4>2, <4>3, DataStays DEF CoherentAt, DataOK
      <4> QED
        BY <2>1, <4>2, <4>4
    <3>5. DataOK(call[m].data)'
      <4>1. CASE call'[m].data = NoData
        BY <1>1, <4>1 DEF DataOK
      <4>2. CASE call'[m].data = cache[m]
        BY <2>1, <3>4, <4>2
      <4> QED
        BY <3>1, <4>1, <4>2
    <3>6. CallDataOK(call[m])'
      BY <3>2, <3>3, <3>5 DEF CallDataOK
    <3>7. ASSUME NEW l \in loader[m], l.pc # "load", call'[m].data.start = l.ts
          PROVE  Frozen(l.startTS, call[m].data.lease)'
      <4>1. CASE call'[m].data = NoData
        BY <1>1, <1>2, <4>1
      <4>2. CASE call'[m].data = cache[m]
        <5>1. cache[m].start = l.ts => Frozen(l.startTS, cache[m].lease)
          BY <1>0, <3>7 DEF CoherentAt, LoaderOK
        <5> QED
          BY <2>1, <3>7, <4>2, <5>1 DEF Frozen
      <4> QED
        BY <3>1, <4>1, <4>2
    <3> QED
      BY <2>1, <3>6, <3>7, DataMoves
  <2> QED
    BY <2>2, <2>3
<1>6. ASSUME NEW n \in Node, EndLockForRead(n) PROVE CoherentAt(m)'
  <2> DEFINE lease == leaseFromTS(call[n].arg, ReadLease)
             d == [start |-> call[n].arg, lease |-> lease, loaded |-> FALSE, buf |-> {}]
  <2>n. PICK new : new = [ts |-> call[n].arg, startTS |-> 0, buf |-> {}, lease |-> 0, pc |-> "load"]
    OBVIOUS
  <2>1. /\ commits' = commits /\ call' = [call EXCEPT ![n] = Idle]
        /\ \/ UNCHANGED <<cache, loader>>
           \/ /\ cache' = [cache EXCEPT ![n] = d]
              /\ loader' = [loader EXCEPT ![n] = @ \cup {new}]
    BY <1>6, <2>n DEF EndLockForRead
  <2>2. CASE m # n \/ UNCHANGED <<cache, loader>>
    BY <1>1, <1>4, <2>1, <2>2 DEF TypeOK
  <2>3. CASE m = n /\ cache' = [cache EXCEPT ![n] = d] /\ loader' = [loader EXCEPT ![n] = @ \cup {new}]
    <3>1. /\ call'[m] = Idle /\ loader'[m] = loader[m] \cup {new}
          /\ cache'[m].start = call[m].arg /\ cache'[m].loaded = FALSE /\ cache'[m].lease = lease
      BY <2>1, <2>3 DEF TypeOK
    <3>2. DataOK(cache[m])' /\ CallDataOK(call[m])' /\ LoaderOK(m, new)'
      BY <1>1, <1>3, <2>n, <3>1 DEF DataOK, LoaderOK
    <3>3. \A l : Frozen(l.startTS, call[m].data.lease)'
      BY <1>1, <1>2, <3>1
    <3>4. ASSUME NEW l \in loader[m], l.pc # "load", cache'[m].start = l.ts
          PROVE  Frozen(l.startTS, cache[m].lease)'
      <4>1. Frozen(l.startTS, leaseFromTS(l.ts, ReadLease))
        BY <1>0, <3>4 DEF CoherentAt, LoaderOK
      <4> QED
        BY <2>1, <2>3, <3>1, <3>4, <4>1 DEF Frozen
    <3> QED
      BY <3>1, <3>2, <3>3, <3>4, DataMoves
  <2> QED
    BY <2>1, <2>2, <2>3
<1>7. ASSUME NEW n \in Node, EndRenewReadLease(n) PROVE CoherentAt(m)'
  <2>c. PICK c \in Call : c = call[n]
    BY <1>0
  <2> DEFINE lease == leaseFromTS(c.arg, ReadLease)
             res == renewReadTxn(c.now, c.snap, c.data.lease, lease)
  <2>0. /\ c.now \in Nat /\ c.snap \in Row /\ c.data \in CacheData /\ c.snap.lease \in Nat
        /\ c.data.lease \in Nat /\ lease \in Nat
    BY LeaseType, LeaseAssumption DEF Call, CacheData, Row, TS
  <2>1. /\ c.op = "renewRead" /\ commits' = commits /\ call' = [call EXCEPT ![n] = Idle]
        /\ ~Conflict(c.snap, res.row)
        /\ tso' = tso /\ txn' = txn /\ loader' = loader
        /\ ~(res.lease > 0) => cache' = cache
        /\ res.lease > 0 => cache' = [cache EXCEPT ![n] = [c.data EXCEPT !.lease = res.lease]]
    BY <1>7, <2>c DEF EndRenewReadLease
  <2>2. CASE m # n \/ ~(res.lease > 0)
    BY <1>1, <1>4, <2>1, <2>2 DEF TypeOK
  <2>3. CASE m = n /\ res.lease > 0
    <3>1. /\ call'[m] = Idle
          /\ cache'[m].start = c.data.start /\ cache'[m].lease = res.lease
          /\ cache'[m].loaded = c.data.loaded /\ cache'[m].buf = c.data.buf
      BY <2>0, <2>1, <2>3 DEF TypeOK, CacheData
    <3>2. /\ DataOK(c.data)
          /\ c.snap.lockType = "READ" => Frozen(c.now, c.snap.lease)
          /\ c.snap.lockType = "READ" /\ c.snap = row => \A t \in commits : t <= c.now
          /\ \A l \in loader[m] : l.pc # "load" /\ c.data.start = l.ts => Frozen(l.startTS, c.data.lease)
      BY <1>0, <2>c, <2>1, <2>3 DEF CoherentAt, CallDataOK, LoaderOK
    <3>3. /\ c.snap.lockType = "READ" /\ c.now < c.snap.lease
          /\ \/ res.lease = c.snap.lease /\ (c.now < c.data.lease \/ c.data.lease = c.snap.lease)
             \/ c.data.lease = c.snap.lease /\ res.row # c.snap
      BY <2>0, <2>3 DEF renewReadTxn, updateRow
    <3>4. res.row # c.snap => c.snap = row
      BY <2>1 DEF Conflict
    <3> HIDE DEF res
    <3>5. ASSUME NEW start, Frozen(start, c.data.lease) PROVE Frozen(start, res.lease)
      <4> SUFFICES ASSUME NEW t \in commits, t > start PROVE t >= res.lease
        BY DEF Frozen
      <4>1. t \in Nat /\ t >= c.data.lease
        BY <1>0, <3>5 DEF Frozen
      <4>2. CASE res.lease = c.snap.lease /\ c.now < c.data.lease
        <5>1. t > c.now
          BY <2>0, <4>1, <4>2
        <5> QED
          BY <3>2, <3>3, <4>2, <5>1 DEF Frozen
      <4>3. CASE c.data.lease = c.snap.lease /\ res.lease = c.snap.lease
        BY <4>1, <4>3
      <4>4. CASE c.data.lease = c.snap.lease /\ res.row # c.snap
        <5>1. t <= c.now
          BY <3>2, <3>3, <3>4, <4>4
        <5> QED
          BY <2>0, <3>3, <4>1, <4>4, <5>1
      <4> QED
        BY <3>3, <4>2, <4>3, <4>4
    <3>6. \A start : Frozen(start, c.data.lease) => Frozen(start, cache[m].lease)'
      BY <2>1, <3>1, <3>5 DEF Frozen
    <3>7. \A buf, start : SnapshotAt(buf, start) => SnapshotAt(buf, start)'
      BY <2>1 DEF SnapshotAt, Past
    <3>8. DataOK(cache[m])'
      BY <3>1, <3>2, <3>6, <3>7 DEF DataOK
    <3>9. CallDataOK(call[m])' /\ \A l : Frozen(l.startTS, call[m].data.lease)'
      BY <1>1, <1>2, <1>3, <3>1
    <3>10. \A l \in loader[m] : l.pc # "load" /\ cache'[m].start = l.ts => Frozen(l.startTS, cache[m].lease)'
      BY <3>1, <3>2, <3>6
    <3> QED
      BY <2>1, <3>8, <3>9, <3>10, DataMoves
  <2> QED
    BY <2>2, <2>3
<1>8. ASSUME NEW n \in Node, NEW l \in loader[n], LoadData(n, l) PROVE CoherentAt(m)'
  <2>n. PICK new : new = [l EXCEPT !.startTS = tso + 1, !.buf = commits, !.pc = "check"]
    OBVIOUS
  <2>s. PICK start \in Nat : start = tso + 1
    BY <1>0
  <2>1. /\ UNCHANGED <<call, cache, commits, txn>> /\ tso' = tso + 1
        /\ \A k \in Node : txn[k].st # "check"
        /\ loader' = [loader EXCEPT ![n] = (@ \ {l}) \cup {new}]
    BY <1>0, <1>8, <2>n DEF LoadData
  <2>2. CASE m # n
    BY <1>4, <2>1, <2>2 DEF TypeOK
  <2>3. CASE m = n
    <3>1. l \in Loader /\ l.ts \in Nat /\ l.ts <= tso
      BY <1>0 DEF Loader, LockOK, TS
    <3>2. /\ new.ts = l.ts /\ new.startTS = start /\ new.buf = commits /\ new.lease = l.lease
      BY <2>n, <2>s, <3>1 DEF Loader
    <3>3. loader'[m] = (loader[m] \ {l}) \cup {new}
      BY <2>1, <2>3 DEF TypeOK
    <3>4. \A t \in commits' : t \in Nat /\ t < start
      BY <1>0, <2>s, <2>1
    <3>5. commits' = {t \in commits' : t <= start} /\ Past(start)'
      BY <2>s, <2>1, <3>4 DEF Past
    <3>6. \A g : Frozen(new.startTS, g)'
      BY <3>2, <3>4 DEF Frozen
    <3>7. new.ts < new.startTS /\ SnapshotAt(new.buf, new.startTS)'
      BY <1>0, <2>s, <2>1, <3>1, <3>2, <3>5 DEF SnapshotAt
    <3>8. LoaderOK(m, new)'
      BY <3>6, <3>7 DEF LoaderOK
    <3> QED
      BY <2>1, <3>3, <3>8, DataMoves
  <2> QED
    BY <2>2, <2>3
<1>9. ASSUME NEW n \in Node, NEW l \in loader[n], CheckLoaded(n, l) PROVE CoherentAt(m)'
  <2>n. PICK new : new = [l EXCEPT !.lease = cache[n].lease, !.pc = "store"]
    OBVIOUS
  <2>1. /\ UNCHANGED <<call, cache, commits, txn, tso>> /\ l.pc = "check"
        /\ loader' = [loader EXCEPT ![n] = (@ \ {l}) \cup
                          (IF cache[n].start = l.ts THEN {new} ELSE {})]
    BY <1>9, <2>n DEF CheckLoaded
  <2>2. CASE m # n
    BY <1>4, <2>1, <2>2 DEF TypeOK
  <2>3. CASE m = n
    <3>1. l \in Loader
      BY <1>0
    <3>2. /\ new.ts = l.ts /\ new.startTS = l.startTS /\ new.buf = l.buf
          /\ new.lease = cache[m].lease
      BY <2>n, <2>3, <3>1 DEF Loader
    <3>3. loader'[m] \subseteq loader[m] \cup (IF cache[m].start = l.ts THEN {new} ELSE {})
      BY <2>1, <2>3 DEF TypeOK
    <3>4. LoaderOK(m, l)
      BY <1>0, <2>3 DEF CoherentAt
    <3>5. cache[m].start = l.ts => LoaderOK(m, new)
      BY <2>1, <3>2, <3>4 DEF LoaderOK
    <3>6. cache[m].start = l.ts => LoaderOK(m, new)'
      BY <2>1, <3>5 DEF LoaderOK, SnapshotAt, Past, Frozen
    <3> QED
      BY <2>1, <3>3, <3>6, DataMoves
  <2> QED
    BY <2>2, <2>3
<1>10. ASSUME NEW n \in Node, NEW l \in loader[n], StoreLoaded(n, l) PROVE CoherentAt(m)'
  <2>1. /\ UNCHANGED <<call, commits, txn, tso>> /\ l.pc = "store"
        /\ cache' = [cache EXCEPT ![n] = [start |-> l.startTS, lease |-> l.lease,
                                          loaded |-> TRUE, buf |-> l.buf]]
        /\ loader' = [loader EXCEPT ![n] = @ \ {l}]
    BY <1>10 DEF StoreLoaded
  <2>2. CASE m # n
    BY <1>4, <2>1, <2>2 DEF TypeOK
  <2>3. CASE m = n
    <3>1. /\ cache'[m].start = l.startTS /\ cache'[m].lease = l.lease /\ cache'[m].buf = l.buf
          /\ loader'[m] = loader[m] \ {l}
      BY <2>1, <2>3 DEF TypeOK
    <3>2. SnapshotAt(l.buf, l.startTS) /\ Frozen(l.startTS, l.lease)
      BY <1>0, <2>1, <2>3 DEF CoherentAt, LoaderOK
    <3>3. SnapshotAt(l.buf, l.startTS)' /\ Frozen(l.startTS, l.lease)'
      BY <2>1, <3>2 DEF SnapshotAt, Past, Frozen
    <3>4. DataOK(cache[m])'
      BY <3>1, <3>3 DEF DataOK
    <3>5. ASSUME NEW k \in loader[m], k.pc # "load", cache'[m].start = k.ts
          PROVE  Frozen(k.startTS, cache[m].lease)'
      <4>1. k.ts < k.startTS /\ k.ts \in Nat /\ k.startTS \in Nat
        BY <1>0, <3>5 DEF CoherentAt, LoaderOK, Loader, TS
      <4>2. Frozen(k.ts, l.lease)'
        BY <3>1, <3>3, <3>5
      <4>3. Frozen(k.startTS, l.lease)'
        <5>1. \A c \in commits' : c \in Nat /\ (c > k.ts => c >= l.lease)
          BY <1>0, <2>1, <4>2 DEF Frozen
        <5>2. \A c \in commits' : c > k.startTS => c > k.ts
          BY <4>1, <5>1
        <5> QED
          BY <5>1, <5>2 DEF Frozen
      <4> QED
        BY <3>1, <4>3
    <3> QED
      BY <2>1, <3>1, <3>4, <3>5, DataMoves
  <2> QED
    BY <2>2, <2>3
<1>11. ASSUME NEW n \in Node, NEW l \in loader[n], LoadFail(n, l) PROVE CoherentAt(m)'
  BY <1>4, <1>11 DEF LoadFail, TypeOK
<1>12. ASSUME NEW n \in Node,
              FailRead(n) \/ FailLockForWrite(n) \/ EndRenewWriteLease(n) \/ FailRenewWriteLease(n)
       PROVE  CoherentAt(m)'
  BY <1>1, <1>4, <1>12 DEF FailRead, FailLockForWrite, EndRenewWriteLease, FailRenewWriteLease, TypeOK
<1>13. ASSUME NEW n \in Node, BeginLockForWrite(n) \/ BeginRenewWriteLease(n) PROVE CoherentAt(m)'
  <2>1. /\ UNCHANGED <<cache, loader>>
        /\ \/ call' = [call EXCEPT ![n] = [Idle EXCEPT !.op = "lockWrite", !.now = tso + 1]]
           \/ call' = [call EXCEPT ![n] = [Idle EXCEPT !.op = "renewWrite", !.now = tso + 1]]
    BY <1>13 DEF BeginLockForWrite, BeginRenewWriteLease
  <2>2. /\ [Idle EXCEPT !.op = "lockWrite", !.now = tso + 1].op = "lockWrite"
        /\ [Idle EXCEPT !.op = "renewWrite", !.now = tso + 1].op = "renewWrite"
        /\ [Idle EXCEPT !.op = "lockWrite", !.now = tso + 1].data = NoData
        /\ [Idle EXCEPT !.op = "renewWrite", !.now = tso + 1].data = NoData
    BY DEF Idle
  <2> QED
    BY <1>4, <2>1, <2>2 DEF TypeOK
<1>14. ASSUME NEW n \in Node, EndLockForWrite(n) PROVE CoherentAt(m)'
  <2>1. /\ UNCHANGED <<cache, loader>> /\ call[n].op = "lockWrite"
        /\ \/ call' = [call EXCEPT ![n] = Idle]
           \/ call' = [call EXCEPT ![n] = [call[n] EXCEPT !.now = 0]]
    BY <1>14 DEF EndLockForWrite
  <2>2. CASE call' = [call EXCEPT ![n] = Idle] \/ m # n
    BY <1>1, <1>4, <2>1, <2>2 DEF TypeOK
  <2>3. CASE call' = [call EXCEPT ![n] = [call[n] EXCEPT !.now = 0]] /\ m = n
    <3>c. PICK c \in Call : c = call[m]
      BY <1>0
    <3>1. /\ call'[m].op = "lockWrite" /\ call'[m].data = c.data
      BY <2>1, <2>3, <3>c DEF TypeOK, Call
    <3>2. DataOK(c.data) /\ Covered(c.data.lease)
      BY <1>0, <3>c DEF CoherentAt, CallDataOK, LockOK
    <3>3. c.data.start \in TS /\ c.data.lease \in TS /\ c.data.buf \in SUBSET TS
      BY DEF Call, CacheData
    <3>4. DataOK(c.data)'
      BY <3>2, <3>3, DataStays DEF DataOK
    <3>5. CallDataOK(call[m])'
      BY <3>1, <3>4 DEF CallDataOK
    <3> QED
      BY <2>1, <3>c, <3>1, <3>5, DataMoves
  <2> QED
    BY <2>1, <2>2, <2>3
<1>15. ASSUME NEW n \in Node, Restart(n) PROVE CoherentAt(m)'
  <2>1. CASE m # n
    BY <1>4, <1>15, <2>1 DEF Restart, TypeOK
  <2>2. CASE m = n
    <3>1. call'[m] = Idle /\ cache'[m] = NoData /\ loader'[m] = {}
      BY <1>15, <2>2 DEF Restart, TypeOK
    <3> QED
      BY <1>1, <1>3, <3>1 DEF CoherentAt, DataOK
  <2> QED
    BY <2>1, <2>2
<1>16. ASSUME NEW n \in Node, FastLockForWrite(n) \/ TickKeepAlive(n) \/ GetCommitTS(n) \/ Commit(n)
       PROVE  CoherentAt(m)'
  BY <1>4, <1>16 DEF FastLockForWrite, TickKeepAlive, GetCommitTS, Commit
<1>17. CASE Tick \/ UNCHANGED vars
  BY <1>4, <1>17 DEF Tick, vars
<1> QED
  BY NodeAssumption, <1>5, <1>6, <1>7, <1>8, <1>9, <1>10, <1>11, <1>12, <1>13, <1>14, <1>15, <1>16,
     <1>17 DEF Next, Read, Write

\* A read served from the MemBuffer sees what a snapshot read of TiKV sees
\* (cache.go, TryReadFromCache), provided that no renewal of a write lease ends
\* with an error and that no timestamp is handed out between a commitTS and its
\* check.  Reads, locks and loads may fail, servers restart and clocks differ.
THEOREM Coherence ==
    ASSUME "renewWrite" \notin Faulty, MaxStall = 0
    PROVE  Spec => []CacheCoherent
<1>1. Init => CoherenceInv
  BY DEF Init, CoherenceInv, CoherentAt, DataOK, CallDataOK, WriteLeaseBacked, LocalWriteBacked,
         NoData, Idle, NoTxn, NoHandle
<1>2. TypeOK /\ TypeOK' /\ LockInv /\ LockInv' /\ CoherenceInv /\ [Next]_vars => CoherenceInv'
  BY CoherenceNext
<1>3. TypeOK /\ CoherenceInv => CacheCoherent
  <2> SUFFICES ASSUME TypeOK, CoherenceInv, NEW n \in Node, cache[n].loaded,
                      NEW ts \in cache[n].start .. cache[n].lease - 1
               PROVE  cache[n].buf = {c \in commits : c <= ts}
    BY DEF CacheCoherent
  <2>1. /\ cache[n].start \in Nat /\ cache[n].lease \in Nat /\ commits \subseteq Nat
    BY DEF TypeOK, CacheData, TS
  <2>2. cache[n].buf = {c \in commits : c <= cache[n].start} /\ Frozen(cache[n].start, cache[n].lease)
    BY DEF CoherenceInv, CoherentAt, DataOK, SnapshotAt
  <2>3. \A c \in commits : c <= cache[n].start <=> c <= ts
    BY <2>1, <2>2 DEF Frozen
  <2> QED
    BY <2>2, <2>3
<1> QED
  BY <1>1, <1>2, <1>3, Typing, Locking, PTL DEF Spec
=============================================================================
