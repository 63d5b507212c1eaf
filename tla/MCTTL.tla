------------------------------- MODULE MCTTL -------------------------------
(* Two servers and one table. Some instances are about the managers, with jobs *)
(* that scan nothing; some about one server and the rows of its jobs.          *)
EXTENDS TTL

CONSTANTS s1, s2, w1, w2, d1, d2

Instance(first, later, stopping, scanners, deleters, time, tasks, batches, rows, faults) ==
    [first |-> first, later |-> later, stopping |-> stopping, scanners |-> scanners, deleters |-> deleters,
     time |-> time, tasks |-> tasks, batches |-> batches, rows |-> rows, faults |-> faults]

MCSetups == {
    \* A server stops at any point of its job; a transaction, a cache update or a finish fails.
    Instance({s1, s2}, {}, {s1}, {w1}, {d1}, TRUE, 1, 0, 1, {"lock", "create", "finish"}),
    \* A server starts later, and takes over from one that stops.
    Instance({s1}, {s2}, {s1}, {w1}, {d1}, TRUE, 1, 0, 1, {}),
    \* Heartbeats come late, and a job is taken from an owner that runs.
    Instance({s1, s2}, {}, {}, {w1}, {d1}, TRUE, 1, 0, 1, {"slow"}),
    \* Heartbeats fail, and scans go on for long.
    Instance({s1}, {}, {}, {w1}, {d1}, TRUE, 1, 0, 1, {"beat", "linger"}),
    \* Rows that nobody deletes, so that only the timeout ends the job.
    Instance({s1}, {}, {}, {w1}, {d1}, TRUE, 1, 1, 1, {"build"}),
    \* Two scans of one job, retries, and workers that come and go.
    Instance({s1}, {}, {}, {w1, w2}, {d1}, FALSE, 2, 1, 2, {"delete", "resize"}),
    Instance({s1}, {}, {}, {w1}, {d1, d2}, FALSE, 2, 1, 1, {"shrink", "window"})}
=============================================================================
