--------------------------- MODULE AutoIDService ---------------------------
(* The AutoID service (autoid_service/autoid.go): one server, elected through *)
(* etcd, hands out the auto-increment IDs of a table with AUTO_ID_CACHE 1 to  *)
(* the allocators of all servers (meta/autoid/autoid_service.go), here its    *)
(* clients. It keeps a range of the table's counter in memory, and gives the  *)
(* rest back when it closes. A handler checks the leadership first and works  *)
(* later; Rebase and N = 0 do not take the mutex that Alloc holds.            *)
EXTENDS Integers, FiniteSets

CONSTANTS Server, Client, None,
          Max,          \* math.MaxInt64, or math.MaxUint64 for an unsigned column
          Batch,        \* batch
          Setups

\* What an instance lets happen: the calls of the clients, made as long as the counter is at most
\* room; whether the column is unsigned; the RowID counter of the table; and what goes wrong.
\* "lost": an answer is lost; "commit": a transaction reports an error after it was applied;
\* "lose": the leader loses its etcd session; "late": it notices only after the others do;
\* "busyClose": a server closes while it works on an Alloc; "oldClose": one closes that is not the
\* leader any more; "race": handlers that take no mutex run beside others.
Fault == {"crash", "lost", "commit", "lose", "late", "close", "busyClose", "oldClose", "race"}

ASSUME AutoIDServiceAssumption ==
    /\ Max \in Nat \ {0} /\ Batch \in 1 .. Max
    /\ \A u \in Setups : u.faults \subseteq Fault /\ u.rowID \in Nat /\ u.unsigned \in BOOLEAN

VARIABLES setup,
          counter,  \* IncrementID of the table in the meta store
          val,      \* val[s]: the autoIDValue of the table on server s: (base, end] is reserved
          up,       \* the servers that run
          owner,    \* the leader according to etcd
          isOwner,  \* isOwner[s]: s takes itself for the leader
          conn,     \* conn[c]: the server that client c is connected to
          req,      \* req[c]: the request of client c and how far it is
          taken,    \* the IDs that were taken out of a range
          times,    \* times[i]: how often ID i was received
          floor     \* floor[c]: the largest ID that session c received or set

vars == <<setup, counter, val, up, owner, isOwner, conn, req, taken, times, floor>>
election == <<up, owner, isOwner>>
received == <<times, floor>>

ID == 1 .. Max
May(fault) == fault \in setup.faults
NoVal == [base |-> 0, end |-> 0]
NoReq == [pc |-> "idle"]

Init ==
    /\ setup \in Setups
    /\ counter = 0
    /\ val = [s \in Server |-> NoVal]
    /\ up = Server
    /\ owner = None
    /\ isOwner = [s \in Server |-> FALSE]
    /\ conn = [c \in Client |-> None]
    /\ req = [c \in Client |-> NoReq]
    /\ taken = {}
    /\ times = [i \in ID |-> 0]
    /\ floor = [c \in Client |-> 0]

Lesser(x, y) == IF x <= y THEN x ELSE y
Greater(x, y) == IF x >= y THEN x ELSE y

-----------------------------------------------------------------------------
(* The arithmetic of a range. *)

UInt64(x) == x % (IF setup.unsigned THEN Max + 1 ELSE 2 * (Max + 1))
Int64(x) == IF setup.unsigned THEN UInt64(x) ELSE UInt64(x + Max + 1) - (Max + 1)

\* Go's division truncates towards zero.
Quotient(x, y) == IF x >= 0 THEN x \div y ELSE -((-x) \div y)

seekToFirstAutoID(base, inc, off) == Int64(Int64(Quotient(Int64(base + inc - off), inc) * inc) + off)

calcNeededBatchSize(base, n, inc, off) ==
    IF inc = 1 THEN n ELSE Int64(Int64(seekToFirstAutoID(base, inc, off) + (n - 1) * inc) - base)

\* The IDs a client makes of the answer (min, max].
Derived(min, n, inc, off) ==
    LET first == IF inc = 1 THEN min + 1 ELSE seekToFirstAutoID(min, inc, off) IN
    {first + k * inc : k \in 0 .. n - 1}

-----------------------------------------------------------------------------
(* A client is a session. GetClient asks etcd when the server has no connection; another    *)
(* session of the server may have dropped the one that this session used.                   *)

Send(c, call, s) ==
    /\ req[c].pc = "idle" /\ counter <= setup.room /\ s \in {conn[c], owner} \ {None}
    /\ conn' = [conn EXCEPT ![c] = s]
    /\ req' = [req EXCEPT ![c] = [pc |-> "sent", srv |-> s, call |-> call, new |-> NoVal, n1 |-> 0, min |-> 0,
                                  seen |-> CHOOSE m \in {floor[d] : d \in Client} : \A d \in Client : floor[d] <= m]]
    /\ UNCHANGED <<setup, counter, val, election, taken, received>>

\* An RPC error (no leader there, or no answer): the connection is dropped and the call made again.
Failed(c) == conn' = [conn EXCEPT ![c] = None] /\ req' = [req EXCEPT ![c] = NoReq]

NotLeader(c) ==
    /\ req[c].pc = "sent"
    /\ ~(req[c].srv \in up /\ isOwner[req[c].srv])
    /\ Failed(c)
    /\ UNCHANGED <<setup, counter, val, election, taken, received>>

\* An answer with a message: no retry, and the connection stays.
Refused(c) == req' = [req EXCEPT ![c] = NoReq] /\ UNCHANGED conn

-----------------------------------------------------------------------------
(* The handlers. *)

Working(s) == {c \in Client : req[c].pc \notin {"idle", "sent", "wait", "reply"} /\ req[c].srv = s}
Holder(s) == {c \in Working(s) : req[c].call.kind = "alloc"}

\* A handler checks the leadership once.
Admit(c) ==
    /\ req[c].pc = "sent" /\ req[c].srv \in up /\ isOwner[req[c].srv]
    /\ req' = [req EXCEPT ![c].pc = "wait"]
    /\ UNCHANGED <<setup, counter, val, election, conn, taken, received>>

\* An Alloc then waits for the mutex. Rebase and N = 0 do not take it, but run beside other handlers
\* only with "race".
Lock(c) ==
    LET r == req[c] IN
    /\ r.pc = "wait"
    /\ r.call.kind = "alloc" => Holder(r.srv) = {}
    /\ May("race") \/ Working(r.srv) = {}
    /\ req' = [req EXCEPT ![c].pc = r.call.kind]
    /\ UNCHANGED <<setup, counter, val, election, conn, taken, received>>

\* Mutant of rebase: the counter is not looked at.
rebaseNoCounter(v, base) ==
    IF base <= v.base THEN [counter |-> counter, base |-> v.base, end |-> v.end]
    ELSE IF base <= v.end THEN [counter |-> counter, base |-> base, end |-> v.end]
    ELSE LET newEnd == Lesser(Max - Batch, base) + Batch
         IN [counter |-> newEnd, base |-> base, end |-> newEnd]

\* Mutant of rebase: a value in the range is taken for one that was handed out.
rebaseInRange(v, base) ==
    IF base <= v.end THEN [counter |-> counter, base |-> v.base, end |-> v.end]
    ELSE LET newBase == Greater(counter, base)
             newEnd == Lesser(Max - Batch, newBase) + Batch
         IN [counter |-> newEnd, base |-> newBase, end |-> newEnd]

\* rebase4Signed and rebase4Unsigned, as counter and range afterwards.
rebase(v, base) ==
    IF base <= v.base THEN [counter |-> counter, base |-> v.base, end |-> v.end]
    ELSE IF base <= v.end THEN [counter |-> counter, base |-> base, end |-> v.end]
    ELSE LET newBase == Greater(counter, base)
             newEnd == Lesser(Max - Batch, newBase) + Batch
         IN [counter |-> newEnd, base |-> newBase, end |-> newEnd]

\* Alloc first rebases to its offset.
AllocRebase(c) ==
    LET r == req[c]
        t == rebase(val[r.srv], r.call.off - 1) IN
    /\ r.pc = "alloc" /\ r.call.off - 1 > val[r.srv].base
    /\ counter' = t.counter
    /\ val' = [val EXCEPT ![r.srv] = [base |-> t.base, end |-> t.end]]
    /\ UNCHANGED <<setup, election, conn, req, taken, received>>

\* The range has room: alloc4Signed and alloc4Unsigned need no transaction.
HasRoom(v, n1) == ~(Int64(v.base + n1) > v.end \/ v.base = 0)

AllocLocal(c) ==
    LET r == req[c]
        v == val[r.srv]
        n1 == calcNeededBatchSize(v.base, r.call.n, r.call.inc, r.call.off) IN
    /\ r.pc = "alloc" /\ r.call.off - 1 <= v.base
    /\ \/ /\ ~setup.unsigned /\ Max - v.base <= n1
          /\ Refused(c)
       \/ /\ setup.unsigned \/ Max - v.base > n1
          /\ HasRoom(v, n1)
          /\ req' = [req EXCEPT ![c].pc = "take", ![c].n1 = n1]
          /\ UNCHANGED conn
    /\ UNCHANGED <<setup, counter, val, election, taken, received>>

\* The next range of the counter; the transaction may report an error after it was applied. At the
\* largest ID it fails (step < n1), so the code's check for it afterwards finds nothing.
AllocFetch(c) ==
    LET r == req[c]
        v == val[r.srv]
        n1 == calcNeededBatchSize(counter, r.call.n, r.call.inc, r.call.off)
        step == Lesser(Max - counter, Greater(Batch, n1))
    IN
    /\ r.pc = "alloc" /\ r.call.off - 1 <= v.base
    /\ LET local == calcNeededBatchSize(v.base, r.call.n, r.call.inc, r.call.off) IN
         (setup.unsigned \/ Max - v.base > local) /\ ~HasRoom(v, local)
    /\ \/ /\ step < n1
          /\ Refused(c) /\ UNCHANGED counter
       \/ /\ step >= n1
          /\ counter' = counter + step
          /\ \/ /\ req' = [req EXCEPT ![c].pc = "store", ![c].n1 = n1, ![c].new = [base |-> counter, end |-> counter + step]]
                /\ UNCHANGED conn
             \/ May("commit") /\ Refused(c)
    /\ UNCHANGED <<setup, val, election, taken, received>>

AllocStore(c) ==
    /\ req[c].pc = "store"
    /\ val' = [val EXCEPT ![req[c].srv] = req[c].new]
    /\ req' = [req EXCEPT ![c].pc = "take"]
    /\ UNCHANGED <<setup, counter, election, conn, taken, received>>

AllocTake(c) ==
    LET r == req[c]
        min == val[r.srv].base IN
    /\ r.pc = "take"
    /\ val' = [val EXCEPT ![r.srv].base = Int64(min + r.n1)]
    /\ req' = [req EXCEPT ![c].pc = "reply", ![c].min = min]
    /\ taken' = taken \cup Derived(min, r.call.n, r.call.inc, r.call.off)
    /\ UNCHANGED <<setup, counter, election, conn, received>>

\* N = 0 asks for the current value, and looks further where nothing is cached.
AllocZero(c) ==
    LET r == req[c] IN
    /\ r.pc = "zero"
    /\ req' = [req EXCEPT ![c].pc = IF val[r.srv].base # 0 THEN "reply" ELSE "rowID"]
    /\ UNCHANGED <<setup, counter, val, election, conn, taken, received>>

\* The RowID counter, which is not the one the IDs come from, becomes the end of the range; nothing
\* was reserved up to there. The assignment stays when the transaction fails.
AllocRowID(c) ==
    /\ req[c].pc = "rowID"
    /\ val' = [val EXCEPT ![req[c].srv].end = setup.rowID]
    /\ \/ req' = [req EXCEPT ![c].pc = "reply"] /\ UNCHANGED conn
       \/ May("commit") /\ Refused(c)
    /\ UNCHANGED <<setup, counter, election, taken, received>>

Rebase(c) ==
    LET r == req[c]
        t == rebase(val[r.srv], r.call.base) IN
    /\ r.pc = "rebase"
    /\ counter' = t.counter
    /\ \/ /\ val' = [val EXCEPT ![r.srv] = [base |-> t.base, end |-> t.end]]
          /\ req' = [req EXCEPT ![c].pc = "reply"]
          /\ UNCHANGED conn
       \/ /\ r.call.base > val[r.srv].end /\ May("commit")
          /\ Refused(c)
          /\ UNCHANGED val
    /\ UNCHANGED <<setup, election, taken, received>>

-----------------------------------------------------------------------------
\* The client has the answer, or it is lost on the way.
Receive(c) ==
    LET r == req[c]
        ids == Derived(r.min, r.call.n, r.call.inc, r.call.off) IN
    /\ r.pc = "reply"
    /\ CASE r.call.kind = "alloc" ->
              /\ times' = [i \in ID |-> IF i \in ids THEN times[i] + 1 ELSE times[i]]
              /\ floor' = [floor EXCEPT ![c] = CHOOSE m \in ids : \A i \in ids : i <= m]
         [] r.call.kind = "rebase" ->
              /\ floor' = [floor EXCEPT ![c] = Greater(@, r.call.base)]
              /\ UNCHANGED times
         [] OTHER -> UNCHANGED received
    /\ req' = [req EXCEPT ![c] = NoReq]
    /\ UNCHANGED <<setup, counter, val, election, conn, taken>>

Lose(c) ==
    /\ May("lost") /\ req[c].pc = "reply"
    /\ Failed(c)
    /\ UNCHANGED <<setup, counter, val, election, taken, received>>

-----------------------------------------------------------------------------
(* Leadership. *)

Elect(s) ==
    /\ owner = None /\ s \in up
    /\ owner' = s
    /\ isOwner' = [isOwner EXCEPT ![s] = TRUE]
    /\ UNCHANGED <<setup, counter, val, up, conn, req, taken, received>>

LoseSession(s) ==
    /\ owner = s /\ May("lose")
    /\ owner' = None
    /\ isOwner' = IF May("late") THEN isOwner ELSE [isOwner EXCEPT ![s] = FALSE]
    /\ UNCHANGED <<setup, counter, val, up, conn, req, taken, received>>

RetireOwner(s) ==
    /\ isOwner[s] /\ owner # s
    /\ isOwner' = [isOwner EXCEPT ![s] = FALSE]
    /\ UNCHANGED <<setup, counter, val, up, owner, conn, req, taken, received>>

\* The server is gone, and with it the requests it was working on.
Gone(s) ==
    /\ up' = up \ {s}
    /\ owner' = IF owner = s THEN None ELSE owner
    /\ isOwner' = [isOwner EXCEPT ![s] = FALSE]
    /\ val' = [val EXCEPT ![s] = NoVal]
    /\ LET C == {c \in Client : req[c].pc # "idle" /\ req[c].srv = s} IN
         /\ req' = [c \in Client |-> IF c \in C THEN NoReq ELSE req[c]]
         /\ conn' = [c \in Client |-> IF c \in C THEN None ELSE conn[c]]
    /\ UNCHANGED <<setup, taken, received>>

Crash(s) ==
    /\ s \in up /\ May("crash")
    /\ Gone(s)
    /\ UNCHANGED counter

\* Mutant of Close: the range is not given back.
CloseKeeping(s) ==
    /\ s \in up /\ May("close")
    /\ Gone(s)
    /\ UNCHANGED counter

\* The RPC server stops, what is left of the range goes back to the counter (forceRebase), and the
\* leadership is given up; whether the server is the leader is not asked. The base is compared as an
\* int64, so an unsigned one in the upper half counts as negative.
Close(s) ==
    /\ s \in up /\ May("close")
    /\ owner = s \/ val[s].base = 0 \/ May("oldClose")
    /\ Holder(s) = {} \/ May("busyClose")
    /\ counter' = IF val[s].base > 0 /\ ~(setup.unsigned /\ val[s].base > Max \div 2) THEN val[s].base ELSE counter
    /\ Gone(s)

Start(s) ==
    /\ s \notin up
    /\ up' = up \cup {s}
    /\ UNCHANGED <<setup, counter, val, owner, isOwner, conn, req, taken, received>>

Next ==
    \/ \E c \in Client :
         \/ \E call \in setup.calls, s \in Server : Send(c, call, s)
         \/ NotLeader(c) \/ Admit(c) \/ Lock(c) \/ AllocRebase(c) \/ AllocLocal(c) \/ AllocFetch(c) \/ AllocStore(c)
         \/ AllocTake(c) \/ AllocZero(c) \/ AllocRowID(c) \/ Rebase(c) \/ Receive(c) \/ Lose(c)
    \/ \E s \in Server :
         Elect(s) \/ LoseSession(s) \/ RetireOwner(s) \/ Crash(s) \/ Close(s) \/ Start(s)

Spec == Init /\ [][Next]_vars

-----------------------------------------------------------------------------
\* No ID is received twice: leaders may change while handlers of the old one still work, answers
\* may be lost, and a leader that closes gives back what it did not hand out. The code does not keep
\* this with "oldClose", nor when N = 0 stored a RowID counter above 0 as the end of a range and a
\* Rebase, an offset or an Alloc under way ("race") then uses that end.
Unique == \A i \in ID : times[i] <= 1

\* As long as a leader goes only when it stops, an ID is above all that any session had received or
\* set when it was asked for; not so with a Rebase and "race", or in the cases of N = 0 above.
Increasing ==
    "lose" \notin setup.faults => \A c \in Client :
        req[c].pc = "reply" /\ req[c].call.kind = "alloc" => req[c].min >= req[c].seen

\* When IDs are asked for one by one and leaders go by closing, no ID is left out: Close gives the
\* rest of a range back.
NoGap ==
    setup.faults \subseteq {"lost", "close"} /\ setup.calls = {[kind |-> "alloc", n |-> 1, inc |-> 1, off |-> 1]} =>
        taken = 1 .. Cardinality(taken)
=============================================================================
