----------------------------- MODULE UniqueIDs -----------------------------
(* What the allocators of a table promise: no ID is handed out twice, and what *)
(* a server hands out is above everything it has handed out or was told about. *)
EXTENDS Naturals

CONSTANTS Server, ID

VARIABLES times,    \* times[i]: how often ID i was handed out
          floor     \* floor[s]: the largest ID that server s handed out or was told about

vars == <<times, floor>>

Init == times = [i \in ID |-> 0] /\ floor = [s \in Server |-> 0]

\* Server s hands out a set of new IDs.
Give(s) ==
    LET S == {i \in ID : times'[i] # times[i]} IN
    /\ S # {}
    /\ \A i \in S : times[i] = 0 /\ floor[s] < i /\ i <= floor'[s]
    /\ times' = [i \in ID |-> IF i \in S THEN 1 ELSE times[i]]
    /\ floor'[s] \in S
    /\ floor' = [floor EXCEPT ![s] = floor'[s]]

\* Server s is told of an ID that a user chose.
Tell(s) ==
    /\ floor'[s] \in ID
    /\ floor[s] < floor'[s]
    /\ floor' = [floor EXCEPT ![s] = floor'[s]]
    /\ UNCHANGED times

Next == \E s \in Server : Give(s) \/ Tell(s)

Spec == Init /\ [][Next]_vars
=============================================================================
