-------------------------- MODULE MCAutoIDService --------------------------
(* Two servers that may lead and two sessions, in instances that differ in the *)
(* calls made and in what goes wrong.                                          *)
EXTENDS AutoIDService, TLC

CONSTANTS a, b, c, d

MCServer == {a, b}
MCClient == {c, d}
Sym == Permutations(MCServer) \cup Permutations(MCClient)

Alloc(n, inc, off) == [kind |-> "alloc", n |-> n, inc |-> inc, off |-> off]
ToBase(base) == [kind |-> "rebase", base |-> base]
Zero == [kind |-> "zero"]

Instance(calls, unsigned, room, rowID, faults) ==
    [calls |-> calls, unsigned |-> unsigned, room |-> room, rowID |-> rowID, faults |-> faults]

MCSetups == {
    \* Leaders stop, in order or not, and answers are lost.
    Instance({Alloc(1, 1, 1)}, FALSE, 5, 0, {"close", "lost"}),
    Instance({Alloc(1, 1, 1), Alloc(2, 1, 1), ToBase(2)}, TRUE, 2, 0, {"close", "busyClose"}),
    Instance({Alloc(1, 2, 1), ToBase(3), Zero}, FALSE, 4, 0, {"crash", "close", "busyClose", "commit"}),
    Instance({Alloc(1, 2, 1), ToBase(5)}, FALSE, Max, 0, {"commit"}),
    \* The table uses its RowID counter, or N = 0 runs beside an Alloc. With both of them, or with a
    \* Rebase or an offset and a RowID counter above 0, the code keeps neither Unique nor Increasing.
    Instance({Alloc(1, 1, 1), Zero}, FALSE, 3, 5, {"crash", "close", "busyClose", "commit"}),
    Instance({Alloc(1, 1, 1), Zero}, FALSE, 3, 0, {"race", "crash", "close"}),
    \* Leaders lose their session, and do not notice at once.
    Instance({Alloc(1, 1, 1), Alloc(1, 2, 3), ToBase(2)}, FALSE, 2, 0, {"lose", "late", "lost"}),
    Instance({Alloc(1, 1, 1), ToBase(4)}, FALSE, 2, 0, {"lose", "crash", "commit"})}
=============================================================================
