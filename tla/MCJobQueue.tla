----------------------------- MODULE MCJobQueue -----------------------------
(* Instances of JobQueue for TLC. *)
EXTENDS JobQueue

Budget(s, c, d) ==
    [k \in Budgets |-> CASE k = "stops" -> s [] k = "crashes" -> c [] k = "dbfails" -> d]

\* A stop, so that two workers overlap, a crash and a failed statement.
StopAndFaults == Budget(1, 1, 1)

Undisturbed == Budget(0, 0, 0)
=============================================================================
