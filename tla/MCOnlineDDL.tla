---------------------------- MODULE MCOnlineDDL ----------------------------
(* Instances of OnlineDDL for TLC. *)
EXTENDS OnlineDDL

CONSTANTS a, b, t1, t2

OneTable == [j \in Job |-> t1]
TwoTables == [j \in Job |-> IF j = 1 THEN t1 ELSE t2]
Add == [j \in Job |-> "addIndex"]
Drop == [j \in Job |-> "dropIndex"]
AddDrop == [j \in Job |-> IF j = 1 THEN "addIndex" ELSE "dropIndex"]

\* Transactions on both servers, and an owner that retires and is elected again.
TwoClients ==
    [candidate |-> {a}, client |-> {a, b}, crashing |-> {}, jobs |-> {1},
     tableOf |-> OneTable, kind |-> Add, cancellable |-> {}, mdl |-> TRUE,
     faulty |-> {"retire", "flap"}, maxVersion |-> 5]

\* The owner crashes between any two steps, or retires.
CrashingOwner ==
    [TwoClients EXCEPT !.client = {b}, !.crashing = {a}, !.kind = Drop,
                       !.faulty = {"retire"}, !.maxVersion = 3]

\* An ADD INDEX that is cancelled or meets a duplicate.
Cancelled ==
    [TwoClients EXCEPT !.client = {b}, !.cancellable = {1}, !.faulty = {"dupKey"}, !.maxVersion = 6]

\* Then a DROP INDEX of the same table; no transactions, but an owner that retires while its
\* workers run.
CancelledOverlap ==
    [Cancelled EXCEPT !.client = {}, !.jobs = {1, 2}, !.kind = AddDrop,
                      !.faulty = {"dupKey", "overlap"}, !.maxVersion = 9]

\* A DROP INDEX that is cancelled before, during or after its first run; no
\* transactions.
CancelledDrop ==
    [Cancelled EXCEPT !.client = {}, !.kind = Drop, !.faulty = {"retire", "rollback"}, !.maxVersion = 4]

\* Two jobs race for versions; no transactions.
FaultyMDL ==
    [TwoClients EXCEPT !.client = {}, !.jobs = {1, 2}, !.tableOf = TwoTables,
                       !.faulty = {"commit", "rollback", "runErr"}, !.maxVersion = 3]

\* Servers that are not listed, or do not publish their version.
FaultyEtcd ==
    [TwoClients EXCEPT !.client = {}, !.faulty = {"commit", "serverInfo", "self"}, !.maxVersion = 3]

\* Under the schema lease: a lease that runs out, and loads of the whole schema.
Lease ==
    [TwoClients EXCEPT !.client = {b}, !.mdl = FALSE, !.faulty = {"expire"}]
LeaseFull == [Lease EXCEPT !.faulty = {"fullLoad"}, !.maxVersion = 3]

\* Owners that retire under the lease.
LeaseRetire ==
    [Lease EXCEPT !.kind = Drop, !.faulty = {"retire"}, !.maxVersion = 4]

\* Commits, etcd calls and reloads that fail.
FaultyLease ==
    [Lease EXCEPT !.client = {}, !.maxVersion = 3,
                  !.faulty = {"commit", "session"}]
FaultySelf == [FaultyLease EXCEPT !.faulty = {"self", "session", "stall"}]
FaultyLeaseFull == [FaultyLease EXCEPT !.faulty = {"session", "stall", "runErr", "fullLoad"}]

\* Two interrupted jobs, and an owner that crashes.
Interrupted ==
    [Lease EXCEPT !.crashing = {a}, !.jobs = {1, 2}, !.tableOf = TwoTables,
                  !.faulty = {}, !.maxVersion = 6]

\* One job under metadata locks; and the lease, two jobs, or a cancelled DROP INDEX.
MDLSetups == {TwoClients, CrashingOwner, Cancelled, FaultyEtcd}
LeaseSetups == {Lease, LeaseFull, LeaseRetire, FaultyLease, FaultySelf, FaultyLeaseFull,
                FaultyMDL, CancelledOverlap, CancelledDrop}
LiveSetups == {[TwoClients EXCEPT !.client = {b}, !.faulty = {}],
               [Lease EXCEPT !.client = {}, !.faulty = {}]}
OnceSetups == {Interrupted}
=============================================================================
