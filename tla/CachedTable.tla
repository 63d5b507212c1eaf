---------------------------- MODULE CachedTable ----------------------------
(***************************************************************************)
(* The lease protocol of cached tables (ALTER TABLE t CACHE).              *)
(*                                                                         *)
(* Every TiDB server may keep the rows of a small table in memory.  One    *)
(* row of mysql.table_cache_meta is the lock of the table:                 *)
(*     NONE -> READ -> INTEND -> WRITE -> READ ...                         *)
(* with a lease that is a TSO timestamp.  A server that holds a READ lease *)
(* serves reads at ts < lease from memory; a transaction that writes the   *)
(* table first turns the lock to WRITE (through INTEND, which waits for    *)
(* the READ lease to run out), keeps the WRITE lease alive while it        *)
(* commits, and lets the commit through only if commitTS < its lease.      *)
(*                                                                         *)
(* Sources: table/tables/state_remote.go (the lock), table/tables/cache.go *)
(* (the cache of one server), session/session.go (the commit).             *)
(*                                                                         *)
(* Time is the TSO of PD: tso is the last timestamp handed out.  A lease   *)
(* is a timestamp with its logical part cut off (leaseFromTS).             *)
(***************************************************************************)
EXTENDS Integers, FiniteSets

CONSTANTS
    Node,        \* TiDB servers (more precisely: cachedTable objects)
    Reader,      \* servers with sessions that read the table
    Writer,      \* servers with sessions that write the table
    Crashing,    \* servers that may restart
    ReadLease,   \* @@tidb_table_cache_lease, in timestamps
    WriteLease,  \* cacheTableWriteLease, in timestamps
    Logical,     \* timestamps with the same physical part
    MaxSkew,     \* |wall clock of a server - physical time of PD| is at most this
    MaxStall,    \* timestamps PD may hand out between commitTS and its check
    Faulty,      \* operations whose transaction may end with an error
    MaxAge,      \* a reader's timestamp is at most this far behind tso
    MaxLoader,   \* bound: loading goroutines in flight per server
    MaxTSO       \* bound: timestamps handed out

Op == {"lockRead", "renewRead", "lockWrite", "renewWrite"}
FaultyOp == Op \cup {"load"}

ASSUME NodeAssumption == Reader \subseteq Node /\ Writer \subseteq Node /\ Crashing \subseteq Node
ASSUME LeaseAssumption ==
    /\ Logical \in Nat \ {0}
    /\ ReadLease \in Nat /\ WriteLease \in Nat
    /\ ReadLease >= Logical /\ WriteLease >= Logical
ASSUME BoundAssumption ==
    /\ MaxSkew \in Nat /\ MaxStall \in Nat /\ MaxAge \in Nat
    /\ MaxLoader \in Nat /\ MaxTSO \in Nat
ASSUME FaultyAssumption == Faulty \subseteq FaultyOp

VARIABLES
    tso,      \* the last timestamp PD handed out
    row,      \* the row of mysql.table_cache_meta
    handle,   \* handle[n]: the local copy of the lock in stateRemoteHandle
    call,     \* call[n]: the StateRemote method run by the holder of the token
    cache,    \* cache[n]: cachedTable.cacheData
    loader,   \* loader[n]: goroutines started by updateLockForRead
    txn,      \* txn[n]: the committing transaction of server n
    renewer,  \* renewer[n]: a call of cachedTable.renew by the keep-alive goroutine
    commits   \* commit timestamps of the transactions that wrote the table

vars == <<tso, row, handle, call, cache, loader, txn, renewer, commits>>

TS == Nat
LockType == {"NONE", "READ", "INTEND", "WRITE"}
Row == [lockType : LockType, lease : TS, oldReadLease : TS]
Handle == [lockType : LockType, lease : TS]
\* buf is what the MemBuffer shows: the commits its snapshot saw.  loaded is
\* MemBuffer # nil, and lease = 0 is a cacheData that was never stored.
CacheData == [start : TS, lease : TS, loaded : BOOLEAN, buf : SUBSET TS]
Call == [op : Op \cup {"idle"}, arg : TS, now : TS, snap : Row, data : CacheData]
Loader == [ts : TS, startTS : TS, buf : SUBSET TS, lease : TS,
           pc : {"load", "check", "store"}]
Txn == [st : {"idle", "locking", "locked", "check"}, lease : TS, cts : TS,
        keep : BOOLEAN]
Renewer == [newLease : TS, live : BOOLEAN]

InitRow == [lockType |-> "NONE", lease |-> 0, oldReadLease |-> 0]
NoHandle == [lockType |-> "NONE", lease |-> 0]
NoData == [start |-> 0, lease |-> 0, loaded |-> FALSE, buf |-> {}]
Idle == [op |-> "idle", arg |-> 0, now |-> 0, snap |-> InitRow, data |-> NoData]
NoTxn == [st |-> "idle", lease |-> 0, cts |-> 0, keep |-> FALSE]
NoRenewer == [newLease |-> 0, live |-> FALSE]

Init ==
    /\ tso = 1
    /\ row = InitRow
    /\ handle = [n \in Node |-> NoHandle]
    /\ call = [n \in Node |-> Idle]
    /\ cache = [n \in Node |-> NoData]
    /\ loader = [n \in Node |-> {}]
    /\ txn = [n \in Node |-> NoTxn]
    /\ renewer = [n \in Node |-> NoRenewer]
    /\ commits = {}

-----------------------------------------------------------------------------
(* Timestamps *)

\* Mutant: the duration is taken off instead of added.
leaseFromTSMinus(ts, dur) == (ts \div Logical) * Logical - dur

\* The lease dur after ts: the physical part of ts, plus dur.
leaseFromTS(ts, dur) == (ts \div Logical) * Logical + dur

\* PD's timestamp moves to t.  While a transaction is between its commitTS and
\* the check of it, at most MaxStall more timestamps are handed out.
Advance(t) ==
    /\ t <= MaxTSO
    /\ tso' = t
    /\ \A m \in Node : txn[m].st = "check" => t - txn[m].cts <= MaxStall

GetTS == Advance(tso + 1)

\* Time passes.
Tick ==
    /\ \E t \in tso + 1 .. MaxTSO : Advance(t)
    /\ UNCHANGED <<row, handle, call, cache, loader, txn, renewer, commits>>

-----------------------------------------------------------------------------
(* What the transactions of state_remote.go do to the row.  now is the     *)
(* start timestamp of the transaction, r the row it loads.                 *)

\* updateRow leaves oldReadLease alone.
updateRow(r, lockType, lease) ==
    [lockType |-> lockType, lease |-> lease, oldReadLease |-> r.oldReadLease]

\* Mutant: "Note the check, don't decrease the lease value" is dropped.
lockForReadNoCheck(now, r, newLease) ==
    LET read == updateRow(r, "READ", newLease)
    IN  IF now > r.lease \/ r.lockType \notin {"INTEND", "WRITE"}
        THEN [succ |-> TRUE, row |-> read]
        ELSE [succ |-> FALSE, row |-> r]

\* Mutant: the type of the lock only decides whether the row is updated.
lockForReadShared(now, r, newLease) ==
    LET read == updateRow(r, "READ", newLease)
    IN  [succ |-> newLease > now,
         row |-> IF newLease > r.lease /\ (now > r.lease \/ r.lockType = "READ") THEN read ELSE r]

\* Both kinds of lock are outdated once now > lease; a lease is never decreased.
lockForReadTxn(now, r, newLease) ==
    LET read == updateRow(r, "READ", newLease)
    IN  IF now > r.lease
        THEN [succ |-> newLease > now, row |-> IF newLease > now THEN read ELSE r]
        ELSE IF r.lockType \in {"INTEND", "WRITE"}
        THEN [succ |-> FALSE, row |-> r]
        ELSE [succ |-> TRUE, row |-> IF newLease > r.lease THEN read ELSE r]

\* wait: the READ lease has not run out, sleep and try again.  local: the local
\* copy afterwards (loadRow stores r, some branches overwrite it).
lockForWriteTxn(now, r) ==
    LET ts    == leaseFromTS(now, WriteLease)
        write == updateRow(r, "WRITE", ts)
        seen  == [lockType |-> r.lockType, lease |-> r.lease]
        mine  == [lockType |-> "WRITE", lease |-> ts]
    IN  IF now > r.lease
        THEN [wait |-> FALSE, row |-> write, local |-> seen]
        ELSE IF r.lockType = "NONE"
        THEN [wait |-> FALSE, row |-> write, local |-> mine]
        ELSE IF r.lockType = "READ"
        THEN [wait |-> TRUE,
              row |-> [lockType |-> "INTEND", oldReadLease |-> r.lease,
                       lease |-> IF ts < r.lease THEN r.lease ELSE ts],
              local |-> [lockType |-> "INTEND", lease |-> ts]]
        ELSE IF r.lockType = "INTEND"
        THEN IF now > r.oldReadLease
             THEN [wait |-> FALSE, row |-> write, local |-> mine]
             ELSE [wait |-> TRUE, row |-> r, local |-> seen]
        ELSE [wait |-> FALSE,
              row |-> IF ts > r.lease THEN write ELSE r,
              local |-> IF ts > r.lease THEN mine ELSE seen]

\* Mutant: the type of the lock is not looked at.
renewReadAnyLock(now, r, oldLocalLease, newValue) ==
    IF now >= r.lease \/ newValue <= r.lease
    THEN [lease |-> 0, row |-> r]
    ELSE [lease |-> newValue, row |-> updateRow(r, "READ", newValue)]

\* The lease the caller may use from now on, 0 if the renewal fails.
renewReadTxn(now, r, oldLocalLease, newValue) ==
    IF now >= r.lease \/ r.lockType # "READ"
    THEN [lease |-> 0, row |-> r]
    ELSE IF oldLocalLease # r.lease
    THEN [lease |-> IF now < oldLocalLease THEN r.lease ELSE 0, row |-> r]
    ELSE IF newValue > r.lease
    THEN [lease |-> newValue, row |-> updateRow(r, "READ", newValue)]
    ELSE [lease |-> r.lease, row |-> r]

\* Mutant: the expiry of the lease is not looked at.
renewWriteExpired(now, r, newLease) ==
    [succ |-> TRUE,
     row |-> IF newLease > r.lease THEN updateRow(r, "WRITE", newLease) ELSE r]

renewWriteTxn(now, r, newLease) ==
    IF now >= r.lease \/ r.lockType # "WRITE"
    THEN [succ |-> FALSE, row |-> r]
    ELSE [succ |-> TRUE,
          row |-> IF newLease > r.lease
                  THEN updateRow(r, "WRITE", newLease) ELSE r]

\* An optimistic transaction that writes the row fails when the row changed
\* after its snapshot.  (No value of the row ever comes back: leases only grow.)
Conflict(snap, new) == new # snap /\ row # snap

LocalCopy(r) == [lockType |-> r.lockType, lease |-> r.lease]

-----------------------------------------------------------------------------
(* Reading: TryReadFromCache, updateLockForRead, renewLease *)

ReadTS == {ts \in (tso - MaxAge) .. tso : ts >= 1}

InCache(d, ts) == ts >= d.start /\ ts < d.lease

\* A read at ts misses the cache: take the token, begin the transaction of
\* LockForRead and load the row.  Nothing happens when the token is taken or
\* when the local copy already shows a write lock or an intention.
BeginLockForRead(n, ts) ==
    /\ call[n].op = "idle"
    /\ ~InCache(cache[n], ts)
    /\ LET newLease == leaseFromTS(ts, ReadLease)
       IN  ~(handle[n].lease >= newLease /\ handle[n].lockType \in {"INTEND", "WRITE"})
    /\ GetTS
    /\ call' = [call EXCEPT ![n] = [op |-> "lockRead", arg |-> ts, now |-> tso + 1,
                                    snap |-> row, data |-> NoData]]
    /\ handle' = [handle EXCEPT ![n] = LocalCopy(row)]
    /\ UNCHANGED <<row, cache, loader, txn, renewer, commits>>

\* LockForRead commits.  On success cacheData is stored without a MemBuffer and
\* a goroutine is started that loads it.
EndLockForRead(n) ==
    LET c     == call[n]
        lease == leaseFromTS(c.arg, ReadLease)
        res   == lockForReadTxn(c.now, c.snap, lease)
    IN  /\ c.op = "lockRead"
        /\ ~Conflict(c.snap, res.row)
        /\ row' = IF res.row = c.snap THEN row ELSE res.row
        /\ IF res.succ
           THEN /\ Cardinality(loader[n]) < MaxLoader
                /\ cache' = [cache EXCEPT ![n] = [start |-> c.arg, lease |-> lease,
                                                  loaded |-> FALSE, buf |-> {}]]
                /\ loader' = [loader EXCEPT ![n] = @ \cup
                     {[ts |-> c.arg, startTS |-> 0, buf |-> {}, lease |-> 0, pc |-> "load"]}]
           ELSE UNCHANGED <<cache, loader>>
        /\ call' = [call EXCEPT ![n] = Idle]
        /\ UNCHANGED <<tso, handle, txn, renewer, commits>>

\* A read at ts hits the cache and at most half of the lease is left: take the
\* token and begin the transaction of RenewReadLease on the data of this moment.
BeginRenewReadLease(n, ts) ==
    /\ call[n].op = "idle"
    /\ InCache(cache[n], ts)
    /\ cache[n].lease - leaseFromTS(ts, 0) <= ReadLease \div 2
    /\ GetTS
    /\ call' = [call EXCEPT ![n] = [op |-> "renewRead", arg |-> ts, now |-> tso + 1,
                                    snap |-> row, data |-> cache[n]]]
    /\ handle' = [handle EXCEPT ![n] = LocalCopy(row)]
    /\ UNCHANGED <<row, cache, loader, txn, renewer, commits>>

\* RenewReadLease commits; the data captured at the start is stored again with
\* the new lease, whatever cacheData is now.
EndRenewReadLease(n) ==
    LET c   == call[n]
        res == renewReadTxn(c.now, c.snap, c.data.lease, leaseFromTS(c.arg, ReadLease))
    IN  /\ c.op = "renewRead"
        /\ ~Conflict(c.snap, res.row)
        /\ row' = IF res.row = c.snap THEN row ELSE res.row
        /\ cache' = IF res.lease > 0
                    THEN [cache EXCEPT ![n] = [c.data EXCEPT !.lease = res.lease]]
                    ELSE cache
        /\ call' = [call EXCEPT ![n] = Idle]
        /\ UNCHANGED <<tso, handle, loader, txn, renewer, commits>>

\* The optimistic transaction of LockForRead or RenewReadLease ends with an
\* error: a write conflict, or a failure after which the row may have been
\* updated all the same.  The caller gives up.
FailRead(n) ==
    LET c   == call[n]
        new == IF c.op = "lockRead"
               THEN lockForReadTxn(c.now, c.snap, leaseFromTS(c.arg, ReadLease)).row
               ELSE renewReadTxn(c.now, c.snap, c.data.lease,
                                 leaseFromTS(c.arg, ReadLease)).row
    IN  /\ c.op \in {"lockRead", "renewRead"}
        /\ \/ Conflict(c.snap, new) /\ row' = row
           \/ c.op \in Faulty /\ row' = row
           \/ c.op \in Faulty /\ new # c.snap /\ ~Conflict(c.snap, new) /\ row' = new
        /\ call' = [call EXCEPT ![n] = Idle]
        /\ UNCHANGED <<tso, handle, cache, loader, txn, renewer, commits>>

-----------------------------------------------------------------------------
(* The goroutine that loads the data, concurrent with everything above *)

\* loadDataFromOriginalTable: a snapshot at a fresh timestamp.  The read waits
\* for the locks of a transaction that already has an earlier commitTS.
LoadData(n, l) ==
    /\ l \in loader[n] /\ l.pc = "load"
    /\ \A m \in Node : txn[m].st # "check"
    /\ GetTS
    /\ loader' = [loader EXCEPT ![n] = (@ \ {l}) \cup
          {[l EXCEPT !.startTS = tso + 1, !.buf = commits, !.pc = "check"]}]
    /\ UNCHANGED <<row, handle, call, cache, txn, renewer, commits>>

\* The load fails and cacheData stays as it is.
LoadFail(n, l) ==
    /\ l \in loader[n] /\ l.pc = "load" /\ "load" \in Faulty
    /\ loader' = [loader EXCEPT ![n] = @ \ {l}]
    /\ UNCHANGED <<tso, row, handle, call, cache, txn, renewer, commits>>

\* cacheData.Load(): go on only if it is still the one of this goroutine.
CheckLoaded(n, l) ==
    /\ l \in loader[n] /\ l.pc = "check"
    /\ loader' = [loader EXCEPT ![n] = (@ \ {l}) \cup
          (IF cache[n].start = l.ts
           THEN {[l EXCEPT !.lease = cache[n].lease, !.pc = "store"]} ELSE {})]
    /\ UNCHANGED <<tso, row, handle, call, cache, txn, renewer, commits>>

\* cacheData.Store() with the lease seen by the Load().
StoreLoaded(n, l) ==
    /\ l \in loader[n] /\ l.pc = "store"
    /\ cache' = [cache EXCEPT ![n] = [start |-> l.startTS, lease |-> l.lease,
                                      loaded |-> TRUE, buf |-> l.buf]]
    /\ loader' = [loader EXCEPT ![n] = @ \ {l}]
    /\ UNCHANGED <<tso, row, handle, call, txn, renewer, commits>>

-----------------------------------------------------------------------------
(* Writing: doCommit, WriteLockAndKeepAlive, LockForWrite *)

\* A session commits a transaction that wrote the table (start() takes the token),
\* and LockForWrite returns at once: the local copy shows a WRITE lock with more
\* than half of the lease left on the wall clock of this server.
FastLockForWrite(n) ==
    /\ txn[n].st = "idle" /\ call[n].op = "idle"
    /\ handle[n].lockType = "WRITE"
    /\ \E skew \in -MaxSkew .. MaxSkew : handle[n].lease > tso + skew + WriteLease \div 2
    /\ txn' = [txn EXCEPT ![n] = [@ EXCEPT !.st = "locked", !.lease = handle[n].lease,
                                           !.keep = TRUE]]
    /\ UNCHANGED <<tso, row, handle, call, cache, loader, renewer, commits>>

\* A session commits: take the token (or wake up from the sleep of an earlier round) and begin the
\* pessimistic transaction of lockForWriteOnce.
BeginLockForWrite(n) ==
    /\ \/ /\ txn[n].st = "idle" /\ call[n].op = "idle"
          /\ \/ handle[n].lockType # "WRITE"
             \/ \E skew \in -MaxSkew .. MaxSkew :
                   handle[n].lease <= tso + skew + WriteLease \div 2
       \/ call[n].op = "lockWrite" /\ call[n].now = 0
    /\ GetTS
    /\ call' = [call EXCEPT ![n] = [Idle EXCEPT !.op = "lockWrite", !.now = tso + 1]]
    /\ txn' = [txn EXCEPT ![n] = [NoTxn EXCEPT !.st = "locking"]]
    /\ UNCHANGED <<row, handle, cache, loader, renewer, commits>>

\* select ... for update, update, commit: nobody else changes the row between.
EndLockForWrite(n) ==
    LET c   == call[n]
        res == lockForWriteTxn(c.now, row)
    IN  /\ c.op = "lockWrite" /\ c.now > 0
        /\ row' = res.row
        /\ handle' = [handle EXCEPT ![n] = res.local]
        /\ IF res.wait
           THEN /\ call' = [call EXCEPT ![n] = [@ EXCEPT !.now = 0]]
                /\ txn' = txn
           ELSE /\ call' = [call EXCEPT ![n] = Idle]
                /\ txn' = [txn EXCEPT ![n] =
                     [@ EXCEPT !.st = "locked", !.keep = TRUE,
                               !.lease = leaseFromTS(c.now, WriteLease)]]
        /\ UNCHANGED <<tso, cache, loader, renewer, commits>>

\* Mutant: the local copy is updated although the transaction failed.
FailLockForWriteLocal(n) ==
    LET c == call[n]
    IN  /\ c.op = "lockWrite" /\ c.now > 0 /\ c.op \in Faulty
        /\ row' \in {row, lockForWriteTxn(c.now, row).row}
        /\ handle' = [handle EXCEPT ![n] =
              [lockType |-> "WRITE", lease |-> leaseFromTS(c.now, WriteLease)]]
        /\ call' = [call EXCEPT ![n] = Idle]
        /\ txn' = [txn EXCEPT ![n] = NoTxn]
        /\ UNCHANGED <<tso, cache, loader, renewer, commits>>

\* The transaction of lockForWriteOnce ends with an error, applied or not; the
\* local copy is what loadRow stored, and the commit of the session fails.
FailLockForWrite(n) ==
    LET c == call[n]
    IN  /\ c.op = "lockWrite" /\ c.now > 0 /\ c.op \in Faulty
        /\ row' \in {row, lockForWriteTxn(c.now, row).row}
        /\ handle' = [handle EXCEPT ![n] = LocalCopy(row)]
        /\ call' = [call EXCEPT ![n] = Idle]
        /\ txn' = [txn EXCEPT ![n] = NoTxn]
        /\ UNCHANGED <<tso, cache, loader, renewer, commits>>

\* The ticker of the keep-alive goroutine: compute the new lease, wait for the token.
TickKeepAlive(n) ==
    /\ txn[n].keep /\ renewer[n] = NoRenewer
    /\ renewer' = [renewer EXCEPT ![n] = [newLease |-> leaseFromTS(txn[n].lease, WriteLease),
                                          live |-> TRUE]]
    /\ UNCHANGED <<tso, row, handle, call, cache, loader, txn, commits>>

BeginRenewWriteLease(n) ==
    /\ renewer[n] # NoRenewer /\ call[n].op = "idle"
    /\ GetTS
    /\ call' = [call EXCEPT ![n] = [Idle EXCEPT !.op = "renewWrite", !.now = tso + 1]]
    /\ UNCHANGED <<row, handle, cache, loader, txn, renewer, commits>>

\* RenewWriteLease commits; on success the lease the commit is checked against
\* moves on (if the commit is not over already).
EndRenewWriteLease(n) ==
    LET c   == call[n]
        new == renewer[n].newLease
        res == renewWriteTxn(c.now, row, new)
    IN  /\ c.op = "renewWrite"
        /\ row' = res.row
        /\ handle' = [handle EXCEPT ![n] =
              IF res.succ THEN [lockType |-> "WRITE", lease |-> new] ELSE LocalCopy(row)]
        /\ txn' = IF res.succ /\ renewer[n].live
                  THEN [txn EXCEPT ![n] = [@ EXCEPT !.lease = new]] ELSE txn
        /\ call' = [call EXCEPT ![n] = Idle]
        /\ renewer' = [renewer EXCEPT ![n] = NoRenewer]
        /\ UNCHANGED <<tso, cache, loader, commits>>

\* The transaction of RenewWriteLease ends with an error, applied or not.  The
\* local copy is nevertheless set from succ, and the goroutine ends.
FailRenewWriteLease(n) ==
    LET c   == call[n]
        new == renewer[n].newLease
        res == renewWriteTxn(c.now, row, new)
    IN  /\ c.op = "renewWrite" /\ c.op \in Faulty
        /\ row' \in {row, res.row}
        /\ handle' = [handle EXCEPT ![n] =
              IF res.succ THEN [lockType |-> "WRITE", lease |-> new] ELSE LocalCopy(row)]
        /\ txn' = IF renewer[n].live
                  THEN [txn EXCEPT ![n] = [@ EXCEPT !.keep = FALSE]] ELSE txn
        /\ call' = [call EXCEPT ![n] = Idle]
        /\ renewer' = [renewer EXCEPT ![n] = NoRenewer]
        /\ UNCHANGED <<tso, cache, loader, commits>>

\* The keys are prewritten and the transaction gets its commitTS.
GetCommitTS(n) ==
    /\ txn[n].st = "locked"
    /\ GetTS
    /\ txn' = [txn EXCEPT ![n] = [@ EXCEPT !.st = "check", !.cts = tso + 1]]
    /\ UNCHANGED <<row, handle, call, cache, loader, renewer, commits>>

\* Mutant: the commit timestamp is not compared with the lease.
commitTSCheckNone(n) == txn[n].lease > 0

\* commitTSCheck, then the commit of the primary key, or the rollback; stop()
\* ends the keep-alive goroutine, except for a renew() that it is inside of.
commitTSCheck(n) == txn[n].cts < txn[n].lease

Commit(n) ==
    /\ txn[n].st = "check"
    /\ commits' = IF commitTSCheck(n) THEN commits \cup {txn[n].cts} ELSE commits
    /\ txn' = [txn EXCEPT ![n] = NoTxn]
    /\ renewer' = [renewer EXCEPT ![n] = [@ EXCEPT !.live = FALSE]]
    /\ UNCHANGED <<tso, row, handle, call, cache, loader>>

\* The server crashes, or a schema change replaces the cachedTable object.
Restart(n) ==
    /\ handle' = [handle EXCEPT ![n] = NoHandle]
    /\ call' = [call EXCEPT ![n] = Idle]
    /\ cache' = [cache EXCEPT ![n] = NoData]
    /\ loader' = [loader EXCEPT ![n] = {}]
    /\ txn' = [txn EXCEPT ![n] = NoTxn]
    /\ renewer' = [renewer EXCEPT ![n] = NoRenewer]
    /\ UNCHANGED <<tso, row, commits>>

Read(n) ==
    \/ \E ts \in ReadTS : BeginLockForRead(n, ts) \/ BeginRenewReadLease(n, ts)
    \/ EndLockForRead(n) \/ EndRenewReadLease(n) \/ FailRead(n)
    \/ \E l \in loader[n] :
          LoadData(n, l) \/ LoadFail(n, l) \/ CheckLoaded(n, l) \/ StoreLoaded(n, l)

Write(n) ==
    \/ FastLockForWrite(n)
    \/ BeginLockForWrite(n) \/ EndLockForWrite(n) \/ FailLockForWrite(n)
    \/ TickKeepAlive(n) \/ BeginRenewWriteLease(n) \/ EndRenewWriteLease(n)
    \/ FailRenewWriteLease(n) \/ GetCommitTS(n) \/ Commit(n)

Next ==
    \/ Tick
    \/ \E n \in Reader : Read(n)
    \/ \E n \in Writer : Write(n)
    \/ \E n \in Crashing : Restart(n)

Spec == Init /\ [][Next]_vars

-----------------------------------------------------------------------------
(* Properties *)

\* The types: above all that every lease is a timestamp (leaseFromTS).
TypeOK ==
    /\ tso \in TS
    /\ row \in Row
    /\ handle \in [Node -> Handle]
    /\ call \in [Node -> Call]
    /\ cache \in [Node -> CacheData]
    /\ loader \in [Node -> SUBSET Loader]
    /\ txn \in [Node -> Txn]
    /\ renewer \in [Node -> Renewer]
    /\ commits \in SUBSET TS

\* A read served from the MemBuffer at any ts in [Start, Lease) sees exactly the
\* transactions a snapshot read of TiKV at ts sees (cache.go, TryReadFromCache).
CacheCoherent ==
    \A n \in Node : cache[n].loaded =>
        \A ts \in cache[n].start .. cache[n].lease - 1 :
            cache[n].buf = {c \in commits : c <= ts}

\* "The TiKV data will not be modified until the lease expire" (state_remote.go,
\* LockForRead): while the lock is WRITE no server has cached data it could
\* still serve at the current time.
WriteExcludesRead ==
    row.lockType = "WRITE" => \A n \in Node : cache[n].lease <= tso

\* The lease a commit is checked against is backed by the row as long as it has
\* not run out (session.go, commitTSCheck; cache.go, renew).
WriteLeaseBacked ==
    \A n \in Node : txn[n].lease > tso => row.lockType = "WRITE" /\ row.lease >= txn[n].lease

\* What the fast path of LockForWrite relies on: a WRITE lock in the local copy
\* that has not run out is a WRITE lock in the row.
LocalWriteBacked ==
    \A n \in Node : handle[n].lockType = "WRITE" /\ handle[n].lease > tso
        => row.lockType = "WRITE" /\ row.lease >= handle[n].lease

\* "Never, never decrease lease": no step moves the lease of the row back
\* (state_remote.go, every updateRow).
LeaseNeverDecreases == [][row'.lease >= row.lease]_row

\* Readers cannot starve a writer: once the lock is INTEND, no step extends the
\* read lease the writer waits for, and the lock goes back to READ only after
\* the writer gave up for a whole lease (state_remote.go, lockForWriteOnce).
IntendStopsReaders ==
    [][row.lockType = "INTEND" /\ row' # row =>
          \/ row'.lockType = "WRITE" /\ tso > row.oldReadLease
          \/ row'.lockType = "READ" /\ tso > row.lease]_row

-----------------------------------------------------------------------------
(* Inductive invariants, proved in CachedTableProofs and                   *)
(* CachedTableCoherence                                                    *)

\* With the row r at time t, nobody can write the table before the read lease g
\* has run out.
CoveredBy(t, r, g) ==
    \/ g <= t
    \/ r.lockType = "READ" /\ g <= r.lease
    \/ r.lockType = "INTEND" /\ g <= r.oldReadLease

Covered(g) == CoveredBy(tso, row, g)

RowOK(r) ==
    /\ r.lockType = "NONE" => r.lease = 0
    /\ r.lockType = "INTEND" => /\ r.oldReadLease <= r.lease
                                /\ r.lease <= leaseFromTS(r.oldReadLease, WriteLease)

Rank(t) == IF t = "NONE" THEN 0 ELSE IF t = "READ" THEN 1 ELSE IF t = "INTEND" THEN 2 ELSE 3

\* r is an earlier value of the row than q.
Before(r, q) ==
    \/ r.lease < q.lease
    \/ r.lease = q.lease /\ Rank(r.lockType) < Rank(q.lockType)

\* What a running LockForRead or RenewReadLease may still grant from its snapshot.
SnapOK(c) ==
    c.op \in {"lockRead", "renewRead"} =>
        /\ c.now >= 1 /\ RowOK(c.snap)
        /\ c.snap = row \/ Before(c.snap, row)
        /\ c.snap.lockType = "READ" => Covered(c.snap.lease)

LockOK(n) ==
    /\ call[n].now <= tso /\ call[n].arg <= tso
    /\ SnapOK(call[n])
    /\ Covered(cache[n].lease) /\ Covered(call[n].data.lease)
    /\ \A l \in loader[n] :
          l.ts <= tso /\ Covered(leaseFromTS(l.ts, ReadLease)) /\ Covered(l.lease)

\* The lock: every read lease that was granted, or that a running transaction
\* may still grant from its snapshot, is covered by the row.
LockInv == tso >= 1 /\ RowOK(row) /\ \A n \in Node : LockOK(n)

\* No commit after start, other than those at or after lease.
Frozen(start, lease) == \A c \in commits : c > start => c >= lease

\* Timestamp start is in the past, and before every commit that is under way.
Past(start) == start <= tso /\ \A m \in Node : txn[m].st = "check" => start < txn[m].cts

\* buf is the table at start.
SnapshotAt(buf, start) == Past(start) /\ buf = {c \in commits : c <= start}

DataOK(d) == d.loaded => SnapshotAt(d.buf, d.start) /\ Frozen(d.start, d.lease)

CallDataOK(c) ==
    /\ DataOK(c.data)
    /\ c.op \in {"lockRead", "renewRead"} /\ c.snap.lockType = "READ" =>
          /\ Frozen(c.now, c.snap.lease)
          /\ c.snap = row => \A t \in commits : t <= c.now

LoaderOK(n, l) ==
    l.pc # "load" =>
        /\ l.ts < l.startTS /\ SnapshotAt(l.buf, l.startTS)
        /\ Frozen(l.startTS, leaseFromTS(l.ts, ReadLease)) /\ Frozen(l.startTS, l.lease)
        /\ cache[n].start = l.ts => Frozen(l.startTS, cache[n].lease)
        /\ call[n].data.start = l.ts => Frozen(l.startTS, call[n].data.lease)

\* The data: what a server has in memory, is loading or is about to store again
\* is a snapshot that no commit within its lease has changed.
CoherentAt(n) ==
    /\ DataOK(cache[n]) /\ CallDataOK(call[n])
    /\ \A l \in loader[n] : LoaderOK(n, l)

CoherenceInv ==
    /\ \A c \in commits : c <= tso
    /\ \A n \in Node : txn[n].st = "check" => txn[n].cts = tso
    /\ \A n \in Node : CoherentAt(n)
    /\ WriteLeaseBacked /\ LocalWriteBacked
=============================================================================
