------------------------------ MODULE RunRecord ------------------------------
(***************************************************************************)
(* What the table ho_task_runs promises of a run, whoever writes it: a     *)
(* record begins as running, gets one result at most, keeps it, and goes   *)
(* away only with its task or its site.                                    *)
(***************************************************************************)
CONSTANT Runs

VARIABLE status

Results == {"completed", "failed"}
RunStates == {"absent", "running"} \cup Results

RecordInit == status = [r \in Runs |-> "absent"]

Begin(r) == status[r] = "absent" /\ status' = [status EXCEPT ![r] = "running"]

End(r) ==
    /\ status[r] = "running"
    /\ \E s \in Results : status' = [status EXCEPT ![r] = s]

\* ON DELETE CASCADE, and the removal of the database.
Forget(S) == status' = [r \in Runs |-> IF r \in S THEN "absent" ELSE status[r]]

RecordNext ==
    \/ \E r \in Runs : Begin(r) \/ End(r)
    \/ \E S \in SUBSET Runs : Forget(S)

RecordSpec == RecordInit /\ [][RecordNext]_status
=============================================================================
