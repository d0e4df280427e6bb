----------------------------- MODULE MCPipeline -----------------------------
(* Instances of Pipeline for TLC. *)
EXTENDS Pipeline

Budget(c, m, cr, s, d) ==
    [k \in Budgets |-> CASE k = "cmds" -> c
                         [] k = "modes" -> m
                         [] k = "crashes" -> cr
                         [] k = "stops" -> s
                         [] k = "dbfails" -> d]

\* A command, a mode change, a crash and a database failure.
OneOfEach == Budget(1, 1, 1, 0, 1)

\* A command, a crash and a stop.
CommandCrashAndStop == Budget(1, 0, 1, 1, 0)

\* One command, no fault at all.
OneCommand == Budget(1, 0, 0, 0, 0)

\* Nobody intervenes and nothing fails.
Undisturbed == Budget(0, 0, 0, 0, 0)
=============================================================================
