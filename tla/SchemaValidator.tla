-------------------------- MODULE SchemaValidator --------------------------
(***************************************************************************)
(* One server's schema validator beside the schema it validates: versions  *)
(* are committed to the store, the server reloads them through             *)
(* Domain.Reload (src/domain/domain.go), and the loss of the etcd session  *)
(* stops and restarts the validator (loadSchemaInLoop).  The question is   *)
(* whether the bounded, merged queue of deltas ever lets a transaction     *)
(* pass that used a version its tables have left.                          *)
(***************************************************************************)
EXTENDS SchemaDeltas

CONSTANTS Table, Action, MaxVersion

ASSUME VersionAssumption == MaxVersion \in Nat \ {0}

VARIABLES
    changed,    \* the committed diffs: changed[v] is what version v changed
    loaded,     \* version of the infoschema the server uses
    used,       \* versions a running transaction may still be using
    validator

vars == <<changed, loaded, used, validator>>

Latest == Len(changed)

Change == {NoChange} \cup {<<<<t, a>>>> : t \in Table, a \in Action}

\* What tryLoadSchemaDiffs gathers from the diffs of the versions in (from, to].
Gathered(from, to) == FlattenSeq(SubSeq(changed, from + 1, to))

Init ==
    /\ changed = <<NoChange>>
    /\ loaded = 1
    /\ used = {1}
    /\ validator = Update(NewValidator, 0, 1, NoChange)

Load(v) ==
    /\ loaded' = Latest
    /\ used' = used \cup {Latest}
    /\ validator' = v
    /\ UNCHANGED changed

NewVersion ==
    /\ Latest < MaxVersion
    /\ \E c \in Change : changed' = Append(changed, c)
    /\ UNCHANGED <<loaded, used, validator>>

\* The needed version is cached: oldSchemaVersion is 0 and nothing changed.
ReloadHit ==
    /\ loaded = Latest
    /\ Load(Update(validator, 0, Latest, NoChange))

ReloadDiff ==
    /\ loaded < Latest
    /\ Load(Update(validator, loaded, Latest, Gathered(loaded, Latest)))

\* Too many diffs, or a diff that cannot be applied: Reset comes first.
ReloadFull ==
    /\ loaded < Latest
    /\ Load(Update(Reset(validator), loaded, Latest, NoChange))

\* The lease on the loaded version runs out.
Expire ==
    /\ validator.fresh
    /\ validator' = [validator EXCEPT !.fresh = FALSE]
    /\ UNCHANGED <<changed, loaded, used>>

SessionLost ==
    /\ validator.started
    /\ validator' = Stop(validator)
    /\ UNCHANGED <<changed, loaded, used>>

\* mustReload came before it: the loaded version is the latest one.
SessionBack ==
    /\ ~validator.started
    /\ loaded = Latest
    /\ validator' = Restart(validator)
    /\ UNCHANGED <<changed, loaded, used>>

\* A transaction that used an old version ends.
Forget ==
    /\ \E v \in used \ {loaded} : used' = used \ {v}
    /\ UNCHANGED <<changed, loaded, validator>>

Next ==
    \/ NewVersion
    \/ ReloadHit
    \/ ReloadDiff
    \/ ReloadFull
    \/ Expire
    \/ SessionLost
    \/ SessionBack
    \/ Forget

Spec == Init /\ [][Next]_vars

-----------------------------------------------------------------------------

\* The types, and: the queue of deltas keeps to tidb_max_delta_schema_count, and the
\* validator knows of no version the server has not loaded (Update, enqueue).
TypeOK ==
    /\ changed \in Seq(Change) /\ Latest <= MaxVersion
    /\ loaded \in 1..Latest
    /\ used \subseteq 1..loaded
    /\ validator \in [started : BOOLEAN, latest : 0..loaded, fresh : BOOLEAN,
                      deltas : Seq([ver : 1..loaded, related : Seq(Table \X Action)])]
    /\ Len(validator.deltas) <= MaxDeltaSchemaCount

Touched(from, to) == {p[1] : p \in ToSet(Gathered(from, to))}

\* A transaction whose version is older than the validator's latest one passes
\* Check only if no version in between changed a table it wrote, however the
\* deltas were merged, dropped or reset in the meantime (Check, enqueue).
StaleNeverPasses ==
    \A v \in used, t \in Table :
        (v < validator.latest /\ Check(validator, v, {t}, TRUE) = "Succ")
            => t \notin Touched(v, validator.latest)

\* The queue of deltas costs no transaction that it still covers: Check fails
\* one whose version is not older than the oldest delta only if a table it
\* wrote was really changed since (isRelatedTablesChanged, containIn).
NoSpuriousAbort ==
    \A v \in used, t \in Table :
        /\ validator.deltas # <<>>
        /\ validator.deltas[1].ver <= v
        /\ Check(validator, v, {t}, TRUE) = "Fail"
        => t \in Touched(v, validator.latest)
=============================================================================
