---------------------------- MODULE SchemaDeltas ----------------------------
(***************************************************************************)
(* The schema validator's data and its operations, as values and operators *)
(* (src/domain/schema_validator.go).  A validator remembers the latest     *)
(* schema version the server loaded, whether its lease on that version is  *)
(* still valid, and a bounded queue of deltas: which tables each loaded    *)
(* version changed, and how.  The module holds no state, so that the state *)
(* machine of one validator and the model of the whole cluster share it.   *)
(*                                                                         *)
(* A change is the sequence of <<table, action>> pairs of a diff load, or  *)
(* NoChange (a nil change) for a full load or a cache hit.  Real time is   *)
(* reduced to one bit: fresh is TRUE until latestSchemaExpire has passed.  *)
(***************************************************************************)
EXTENDS Naturals, Sequences, SequencesExt

CONSTANTS MaxDeltaSchemaCount   \* tidb_max_delta_schema_count

ASSUME DeltaAssumption == MaxDeltaSchemaCount \in Nat

NoChange == <<>>

Delta(ver, change) == [ver |-> ver, related |-> change]

\* NewSchemaValidator
NewValidator == [started |-> TRUE, latest |-> 0, fresh |-> FALSE, deltas |-> <<>>]

Stop(v) == [v EXCEPT !.started = FALSE, !.latest = 0, !.deltas = <<>>]

Restart(v) == [v EXCEPT !.started = TRUE]

Reset(v) == [v EXCEPT !.started = TRUE, !.latest = 0, !.deltas = <<>>]

\* Mutant of containIn: compares the tables, not what was done to them.
containInByCount(last, delta) == Len(last.related) <= Len(delta.related)

\* Every pair of the last delta occurs in the new one, and the new one is no
\* shorter: then it makes the last one superfluous.
containIn(last, delta) ==
    /\ Len(last.related) <= Len(delta.related)
    /\ ToSet(last.related) \subseteq ToSet(delta.related)

\* Mutant of enqueue: the queue drops its newest delta when it is full.
enqueueDropNewest(deltas, delta) ==
    IF Len(deltas) < MaxDeltaSchemaCount THEN Append(deltas, delta) ELSE deltas

\* Mutant of enqueue: the head stays when the queue is too long.
enqueueUnbounded(deltas, delta) ==
    IF MaxDeltaSchemaCount = 0 THEN deltas ELSE Append(deltas, delta)

\* The first delta is never merged; the head leaves when the queue is too long.
enqueue(deltas, delta) ==
    LET merged == IF Len(deltas) > 1 /\ containIn(Last(deltas), delta)
                  THEN [deltas EXCEPT ![Len(deltas)] = delta]
                  ELSE Append(deltas, delta)
    IN  IF MaxDeltaSchemaCount = 0 THEN deltas
        ELSE IF Len(merged) > MaxDeltaSchemaCount THEN Tail(merged)
        ELSE merged

\* Ignored by a stopped validator.  A version other than oldVer is a delta, and
\* a cache hit passes 0 for oldVer.
Update(v, oldVer, currVer, change) ==
    IF ~v.started THEN v
    ELSE [v EXCEPT !.latest = currVer, !.fresh = TRUE,
                   !.deltas = IF currVer = oldVer THEN @ ELSE enqueue(@, Delta(currVer, change))]

\* Mutant of findNewerDeltas: the delta of currVer itself counts as newer.
findNewerDeltasOrSame(deltas, currVer) ==
    LET old == {i \in DOMAIN deltas : deltas[i].ver < currVer}
        pos == IF old = {} THEN 0 ELSE CHOOSE i \in old : \A k \in old : k <= i
    IN  SubSeq(deltas, pos + 1, Len(deltas))

\* The longest suffix of the queue whose versions are all newer than currVer.
findNewerDeltas(deltas, currVer) ==
    LET old == {i \in DOMAIN deltas : deltas[i].ver <= currVer}
        pos == IF old = {} THEN 0 ELSE CHOOSE i \in old : \A k \in old : k <= i
    IN  SubSeq(deltas, pos + 1, Len(deltas))

\* An empty history, and one that does not reach back to currVer, count as a
\* change.
isRelatedTablesChanged(v, currVer, tables) ==
    LET newer == findNewerDeltas(v.deltas, currVer)
    IN  \/ v.deltas = <<>>
        \/ Len(newer) = Len(v.deltas)
        \/ \E d \in ToSet(newer) : \E p \in ToSet(d.related) : p[1] \in tables

\* Check of a transaction that used version schemaVer for these tables; needCheck
\* is FALSE for a transaction that holds metadata locks.
Check(v, schemaVer, tables, needCheck) ==
    IF ~v.started THEN "Unknown"
    ELSE IF schemaVer < v.latest
         THEN IF needCheck /\ isRelatedTablesChanged(v, schemaVer, tables) THEN "Fail" ELSE "Succ"
    ELSE IF v.fresh THEN "Succ" ELSE "Unknown"
=============================================================================
