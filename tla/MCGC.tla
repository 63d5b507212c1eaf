-------------------------------- MODULE MCGC --------------------------------
(* Instances of GC for TLC. *)
EXTENDS GC

CONSTANTS a, b, p, q, t1, t2, x, y

Servers == [t \in Txn |-> b]

NoTxn == [t \in Txn |-> [pc |-> "none", start |-> 0]]
Running == [NoTxn EXCEPT ![t1] = [pc |-> "running", start |-> 3]]
Live == [pc |-> "live", snapshot |-> 0, ts |-> 0, row |-> "none", destroyed |-> {}]
Dropping == [Live EXCEPT !.pc = "dropping", !.snapshot = 1]
Dropped == [Live EXCEPT !.pc = "dropped", !.snapshot = 1, !.ts = 3, !.row = "todo"]

\* Transactions on one server, the GC worker on the other.
Transactions ==
    [workers |-> {a}, leader |-> a, lease |-> 4, crashing |-> {}, txns |-> {t1}, server |-> Servers,
     writers |-> {t1}, txn |-> NoTxn, tbl |-> Live, backups |-> {}, parts |-> {}, faults |-> {}, maxTime |-> 6]

\* The reports are lost now and then, at first that of an older transaction.
Unreported == [Transactions EXCEPT !.txn = Running, !.faults = {"etcd", "expire"}, !.maxTime = 5]

\* Old transactions, which only the cached safe point keeps from reading.
Reading == [Transactions EXCEPT !.writers = {}, !.txn = Running, !.tbl = Dropping, !.parts = {"read"},
                                  !.faults = {"silent"}, !.maxTime = 6]

\* The leader crashes between any two steps, and the other worker takes over.
TakeOver ==
    [Transactions EXCEPT !.workers = {a, b}, !.crashing = {a}, !.txns = {}, !.tbl = Dropped,
                         !.faults = {"crash", "error"}, !.maxTime = 6]

\* Two backups register, lose their registrations, and end.
Backups == [Transactions EXCEPT !.txns = {}, !.backups = {x, y}, !.faults = {"pd"}, !.maxTime = 5]

\* DROP and RECOVER TABLE, ...
Recovering == [Transactions EXCEPT !.txns = {}, !.parts = {"drop", "recover"}, !.maxTime = 7]

\* ... and a RECOVER TABLE beside a GC job, with transactions and calls that fail.
Failing ==
    [Transactions EXCEPT !.txns = {}, !.tbl = Dropped, !.parts = {"recover"},
                         !.faults = {"commit", "label", "error"}, !.maxTime = 5]

AllSetups == {Transactions, Unreported, Reading, TakeOver, Backups, Recovering, Failing}
=============================================================================
