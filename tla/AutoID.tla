------------------------------- MODULE AutoID -------------------------------
(* The auto-increment allocators of one table (meta/autoid/autoid.go): every  *)
(* server caches a range of IDs that it reserved in the table's counter, and  *)
(* hands IDs out of it. A server here is what shares one allocator: sessions  *)
(* still on an old schema beside those on the new one are a server of their   *)
(* own.                                                                       *)
EXTENDS Integers

CONSTANTS Server,
          Max,          \* math.MaxInt64 or math.MaxUint64
          Steps,        \* the step of an allocator, and what NextStep may make of it
          Sizes,        \* the n of a call of Alloc
          Increments, Offsets,
          Bases,        \* the values users insert or set
          Alters        \* bound: how many ALTER TABLE AUTO_INCREMENT run

ASSUME AutoIDAssumption ==
    /\ Max \in Nat \ {0}
    /\ Steps \subseteq 1..Max /\ Sizes \subseteq 1..Max
    /\ Increments \subseteq 1..Max /\ Offsets \subseteq 1..Max
    /\ Bases \subseteq 1..Max /\ Alters \in Nat
    /\ \A n \in Sizes, inc \in Increments : (n + 1) * inc <= Max   \* far below 2^63 in practice

ID == 1..Max
Wanted == Bases \cup {off - 1 : off \in Offsets}
Call == [n : Sizes, inc : Increments, off : Offsets]
NoCall == [n |-> 0, inc |-> 0, off |-> 0]

VARIABLES unsigned,   \* the column is unsigned
          counter,    \* the table's value in the meta store
          base, end,  \* base[s], end[s]: server s has (base, end] reserved
          call,       \* call[s]: the Alloc that has the mutex of s and rebased to its offset
          times,      \* times[i]: how often i was handed out
          floor,      \* floor[s]: the largest ID s handed out or was told about
          ddl         \* ALTER TABLE AUTO_INCREMENT: its base, whether it runs, who has not loaded it,
                      \* and how many may still come

vars == <<unsigned, counter, base, end, call, times, floor, ddl>>

Init ==
    /\ unsigned \in BOOLEAN
    /\ counter = 0
    /\ base = [s \in Server |-> 0]
    /\ end = [s \in Server |-> 0]
    /\ call = [s \in Server |-> NoCall]
    /\ times = [i \in ID |-> 0]
    /\ floor = [s \in Server |-> 0]
    /\ ddl = [base |-> 1, run |-> FALSE, pending |-> {}, left |-> Alters]

-----------------------------------------------------------------------------
(* The arithmetic of int64 and uint64. *)

UInt64(x) == x % (IF unsigned THEN Max + 1 ELSE 2 * (Max + 1))
Int64(x) == IF unsigned THEN UInt64(x) ELSE UInt64(x + Max + 1) - (Max + 1)

\* Go's division truncates towards zero.
Quotient(x, y) == IF x >= 0 THEN x \div y ELSE -((-x) \div y)

SeekToFirstAutoID(b, inc, off) ==
    Int64(Int64(Quotient(Int64(b + inc - off), inc) * inc) + off)

SeekToFirstAutoIDUnSigned(b, inc, off) ==
    UInt64(UInt64((UInt64(b + inc - off) \div inc) * inc) + off)

CalcNeededBatchSize(b, n, inc, off) ==
    IF inc = 1 THEN n
    ELSE Int64(Int64(SeekToFirstAutoID(b, inc, off) + (n - 1) * inc) - b)

Lesser(x, y) == IF x <= y THEN x ELSE y
Greater(x, y) == IF x >= y THEN x ELSE y

-----------------------------------------------------------------------------
(* Rebase: a user inserted v, or Alloc has to start at an offset. *)

\* Mutant of rebase: the counter is not looked at.
rebaseNoCounter(s, v, step, allocIDs) ==
    IF v <= base[s] THEN [counter |-> counter, base |-> base[s], end |-> end[s]]
    ELSE IF v <= end[s] THEN [counter |-> counter, base |-> v, end |-> end[s]]
    ELSE LET newEnd == IF allocIDs THEN Lesser(Max - step, v) + step ELSE v
         IN [counter |-> newEnd, base |-> v, end |-> newEnd]

\* Mutant of rebase: the new end is not kept below the largest ID.
rebaseNoLimit(s, v, step, allocIDs) ==
    IF v <= base[s] THEN [counter |-> counter, base |-> base[s], end |-> end[s]]
    ELSE IF v <= end[s] THEN [counter |-> counter, base |-> v, end |-> end[s]]
    ELSE LET newBase == Greater(counter, v)
             newEnd == IF allocIDs THEN newBase + step ELSE newBase
         IN [counter |-> newEnd, base |-> newBase, end |-> newEnd]

\* rebase4Signed and rebase4Unsigned: counter, base and end afterwards.
rebase(s, v, step, allocIDs) ==
    IF v <= base[s] THEN [counter |-> counter, base |-> base[s], end |-> end[s]]
    ELSE IF v <= end[s] THEN [counter |-> counter, base |-> v, end |-> end[s]]
    ELSE LET newBase == Greater(counter, v)
             newEnd == IF allocIDs THEN Lesser(Max - step, newBase) + step ELSE newBase
         IN [counter |-> newEnd, base |-> newBase, end |-> newEnd]

Assign(s, r) ==
    /\ counter' = r.counter
    /\ base' = [base EXCEPT ![s] = r.base]
    /\ end' = [end EXCEPT ![s] = r.end]

Rebase(s, v) ==
    /\ call[s] = NoCall
    /\ \E step \in Steps : Assign(s, rebase(s, v, step, TRUE))
    /\ floor' = [floor EXCEPT ![s] = Greater(floor[s], v)]
    /\ UNCHANGED <<unsigned, call, times, ddl>>

\* The commit is applied, but reported as failed: the allocator keeps its range, and the
\* caller (an insert, or Alloc on its way to an offset) gives up.
RebaseUndetermined(s, v) ==
    /\ call[s] = NoCall
    /\ end[s] < v
    /\ \E step \in Steps : counter' = rebase(s, v, step, TRUE).counter
    /\ UNCHANGED <<unsigned, base, end, call, times, floor, ddl>>

-----------------------------------------------------------------------------
(* Alloc. *)

\* The mutex is held from the rebase to the offset until IDs are handed out.
AllocRebase(s, c) ==
    /\ call[s] = NoCall
    /\ c.off - 1 > base[s]
    /\ \E step \in Steps : Assign(s, rebase(s, c.off - 1, step, TRUE))
    /\ call' = [call EXCEPT ![s] = c]
    /\ UNCHANGED <<unsigned, times, floor, ddl>>

Allocating(s, c) == IF call[s] = NoCall THEN c.off - 1 <= base[s] ELSE call[s] = c

\* Mutant of Derived: the IDs of a batch are next to each other.
DerivedByOne(min, c) ==
    {UInt64(SeekToFirstAutoIDUnSigned(min, c.inc, c.off) + k) : k \in 0..(c.n - 1)}

\* What a caller makes of the answer (min, max] (AllocBatchAutoIncrementValue).
Derived(min, c) ==
    {UInt64(SeekToFirstAutoIDUnSigned(min, c.inc, c.off) + k * c.inc) : k \in 0..(c.n - 1)}

HandOut(s, c, min, max) ==
    /\ times' = [i \in ID |-> IF i \in Derived(min, c) THEN times[i] + 1 ELSE times[i]]
    /\ floor' = [floor EXCEPT ![s] = Greater(floor[s], max)]
    /\ call' = [call EXCEPT ![s] = NoCall]

\* The check that keeps base + n1 from overflowing.
Exhausted(s, n1) == Max - base[s] <= n1

Needed(b, c) == CalcNeededBatchSize(b, c.n, c.inc, c.off)

FitsRange(s, c) ==
    /\ Allocating(s, c)
    /\ ~Exhausted(s, Needed(base[s], c))
    /\ Int64(base[s] + Needed(base[s], c)) <= end[s]

AllocLocal(s, c) ==
    LET max == Int64(base[s] + Needed(base[s], c)) IN
    /\ FitsRange(s, c)
    /\ base' = [base EXCEPT ![s] = max]
    /\ HandOut(s, c, base[s], max)
    /\ UNCHANGED <<unsigned, counter, end, ddl>>

NeedsRange(s, c) ==
    /\ Allocating(s, c)
    /\ ~Exhausted(s, Needed(base[s], c))
    /\ Int64(base[s] + Needed(base[s], c)) > end[s]

\* How much the transaction adds to the counter, and that it is enough.
Reserved(c, step) == Lesser(Max - counter, Greater(step, Needed(counter, c)))
Enough(c, step) == Reserved(c, step) >= Needed(counter, c)

AllocRange(s, c) ==
    LET max == Int64(counter + Needed(counter, c)) IN
    /\ NeedsRange(s, c)
    /\ counter # Max
    /\ \E step \in Steps :
          /\ Enough(c, step)
          /\ Assign(s, [counter |-> counter + Reserved(c, step), base |-> max,
                        end |-> counter + Reserved(c, step)])
    /\ HandOut(s, c, counter, max)
    /\ UNCHANGED <<unsigned, ddl>>

\* The range is reserved, but the commit reported as failed: it is lost.
AllocUndetermined(s, c) ==
    /\ NeedsRange(s, c)
    /\ \E step \in Steps : Enough(c, step) /\ counter' = counter + Reserved(c, step)
    /\ call' = [call EXCEPT ![s] = NoCall]
    /\ UNCHANGED <<unsigned, base, end, times, floor, ddl>>

\* The IDs have run out: the statement fails and lets go of the mutex.
AllocFails(s, c) ==
    /\ call[s] = c
    /\ \/ Exhausted(s, Needed(base[s], c))
       \/ NeedsRange(s, c) /\ \E step \in Steps : ~Enough(c, step)
    /\ call' = [call EXCEPT ![s] = NoCall]
    /\ UNCHANGED <<unsigned, counter, base, end, times, floor, ddl>>

-----------------------------------------------------------------------------
(* ALTER TABLE ... AUTO_INCREMENT = v without FORCE (onRebaseAutoID). *)

NextGlobalAutoID == UInt64(counter + 1)

AdjustNewBase(v) ==
    /\ ~ddl.run /\ ddl.pending = {} /\ ddl.left > 0
    /\ ddl' = [ddl EXCEPT !.base = Greater(v, NextGlobalAutoID), !.run = TRUE, !.left = @ - 1]
    /\ UNCHANGED <<unsigned, counter, base, end, call, times, floor>>

\* The job adjusts the base again, and its own allocator is new: it rebases without
\* reserving a range. The job's transaction may fail after that, and the job runs again.
\* An error of the rebase cancels the job, which then sets no base.
RunRebaseAutoID ==
    LET newBase == Greater(ddl.base, NextGlobalAutoID)
        rebased == Greater(counter, newBase - 1) IN
    /\ ddl.run
    /\ \/ /\ counter' = rebased
          /\ ddl' \in {ddl, [ddl EXCEPT !.base = newBase, !.run = FALSE, !.pending = Server]}
       \/ /\ counter' \in {counter, rebased}
          /\ ddl' = [ddl EXCEPT !.base = 1, !.run = FALSE]
    /\ UNCHANGED <<unsigned, base, end, call, times, floor>>

NewAllocator(s) ==
    /\ base' = [base EXCEPT ![s] = 0]
    /\ end' = [end EXCEPT ![s] = 0]
    /\ call' = [call EXCEPT ![s] = NoCall]
    /\ ddl' = [ddl EXCEPT !.pending = @ \ {s}]
    /\ UNCHANGED <<unsigned, counter, times, floor>>

\* Mutant of LoadSchema: the new schema takes the allocator over as it is.
LoadSchemaKeeps(s) ==
    /\ s \in ddl.pending /\ call[s] = NoCall
    /\ ddl' = [ddl EXCEPT !.pending = @ \ {s}]
    /\ UNCHANGED <<unsigned, counter, base, end, call, times, floor>>

\* A load of the new schema drops the allocator (filterAllocators, applyCreateTable).
LoadSchema(s) == s \in ddl.pending /\ call[s] = NoCall /\ NewAllocator(s)

\* The server restarts.
Restart(s) == NewAllocator(s)

Next ==
    \/ \E s \in Server :
          \/ \E v \in Bases : Rebase(s, v)
          \/ \E v \in Wanted : RebaseUndetermined(s, v)
          \/ \E c \in Call : \/ AllocRebase(s, c) \/ AllocLocal(s, c) \/ AllocRange(s, c)
                             \/ AllocUndetermined(s, c) \/ AllocFails(s, c)
          \/ LoadSchema(s)
          \/ Restart(s)
    \/ \E v \in Bases : AdjustNewBase(v)
    \/ RunRebaseAutoID

Spec == Init /\ [][Next]_vars

-----------------------------------------------------------------------------
(* Properties. *)

\* The counter, the ranges and what is told of them stay within the width of the
\* column, and calls and ALTER TABLE keep their shape (rebase, Alloc).
TypeOK ==
    /\ unsigned \in BOOLEAN
    /\ counter \in 0..Max
    /\ base \in [Server -> 0..Max] /\ end \in [Server -> 0..Max]
    /\ call \in [Server -> Call \cup {NoCall}]
    /\ times \in [ID -> Nat]
    /\ floor \in [Server -> 0..Max]
    /\ ddl \in [base : 1..(Max + 1), run : BOOLEAN, pending : SUBSET Server,
               left : 0..Alters]

\* No ID is handed out twice, by whatever servers, and what a server hands out is above
\* all it handed out or was told of before, restarts and lost commits included.
Promise == INSTANCE UniqueIDs WITH Server <- Server, ID <- ID, times <- times, floor <- floor
Implements == Promise!Spec

Grid(lo, hi, c) ==
    \E first \in (lo + 1)..hi :
       /\ first % c.inc = c.off % c.inc
       /\ first + (c.n - 1) * c.inc <= hi
       /\ Derived(lo, c) = {first + k * c.inc : k \in 0..(c.n - 1)}

\* Whatever call comes next gets as many IDs as it asks for, on the grid of its increment
\* and offset and out of the range that is reserved for it, also next to the largest ID
\* (CalcNeededBatchSize and the checks against overflow around it).
OnGrid ==
    \A s \in Server, c \in Call :
       /\ FitsRange(s, c) => Grid(base[s], end[s], c)
       /\ NeedsRange(s, c) /\ (\E step \in Steps : Enough(c, step)) => Grid(counter, Max, c)

\* When all servers have loaded an ALTER TABLE AUTO_INCREMENT, no ID below its base is
\* handed out any more (onRebaseAutoID with filterAllocators).
RebaseHonoured ==
    [][ddl.pending = {} /\ ~ddl.run => \A i \in ID : times'[i] # times[i] => i >= ddl.base]_vars
=============================================================================
