--------------------------- MODULE JobQueueProofs ---------------------------
(* Theorems about JobQueue, for any number of jobs and any set of workers. *)
EXTENDS JobQueue, TLAPS

\* The initial table is well typed and nothing runs.
LEMMA JobsInit == Init => TypeOK /\ JobInv
<1> SUFFICES ASSUME Init PROVE TypeOK /\ JobInv
    OBVIOUS
<1> USE JobsAssumption DEF Init, Holding
<1>1. TypeOK
    BY DEF TypeOK, Statuses, Points, Budgets
<1>2. JobInv
    BY DEF JobInv, OneRunner, AttemptsBounded, FailedAtLimit, StopsLoseNothing, Orphan
<1> QED
    BY <1>1, <1>2

\* Both ways to enqueue insert a row with a limit that is a number.
LEMMA EnqueueInserts ==
    \A j \in Jobs : Enqueue(j) \/ ActionEnqueue(j) => \E n \in Nat : Insert(j, n)
<1> SUFFICES ASSUME NEW j \in Jobs, Enqueue(j) \/ ActionEnqueue(j)
             PROVE  \E n \in Nat : Insert(j, n)
    OBVIOUS
<1>0. Requests \subseteq Nat
    BY JobsAssumption
<1>1. CASE Enqueue(j)
  <2>1. PICK n \in Requests : Insert(j, CASE n < 1 -> 1 [] n > 10 -> 10 [] OTHER -> n)
      BY <1>1 DEF Enqueue
  <2>2. (CASE n < 1 -> 1 [] n > 10 -> 10 [] OTHER -> n) \in Nat
      BY <1>0
  <2> QED
      BY <2>1, <2>2
<1>2. CASE ActionEnqueue(j)
    BY <1>2, <1>0 DEF ActionEnqueue
<1> QED
    BY <1>1, <1>2

\* Every step of the tools, the workers and the manager keeps the types.
LEMMA JobsTyped == TypeOK /\ JobInv /\ [Next]_vars => TypeOK'
<1> SUFFICES ASSUME TypeOK, JobInv, [Next]_vars PROVE TypeOK'
    OBVIOUS
<1> USE JobsAssumption DEF TypeOK, Holding, Points, Statuses, Budgets, Spend, Goto, rows
<1>1. ASSUME NEW j \in Jobs, Enqueue(j) \/ ActionEnqueue(j) \/ Cancel(j) \/ Due(j) PROVE TypeOK'
  <2>1. ASSUME NEW n \in Nat, Insert(j, n) PROVE TypeOK'
    <3>1. PICK now \in BOOLEAN : due' = [due EXCEPT ![j] = now]
        BY <2>1 DEF Insert
    <3>2. due' \in [Jobs -> BOOLEAN]
        BY <3>1, Zenon
    <3>3. status' \in [Jobs -> Statuses] /\ limit' \in [Jobs -> Nat]
        BY <2>1 DEF Insert
    <3>4. UNCHANGED <<attempts, pc, job, handle, used>>
        BY <2>1 DEF Insert
    <3> QED
        BY <3>2, <3>3, <3>4
  <2>2. CASE Cancel(j)
      BY <2>2 DEF Cancel
  <2>3. CASE Due(j)
    <3>1. due' \in [Jobs -> BOOLEAN]
        BY <2>3, Zenon DEF Due
    <3> QED
        BY <2>3, <3>1 DEF Due
  <2> QED
      BY <1>1, <2>1, <2>2, <2>3, EnqueueInserts
<1>2. ASSUME NEW w \in Workers, WorkerStep(w) \/ Start(w) \/ Exit(w) PROVE TypeOK'
  <2>1. CASE Select(w)
    <3>1. PICK j \in Jobs : job' = [job EXCEPT ![w] = j]
        BY <2>1 DEF Select
    <3>2. j \in Nat \ {0}
        BY JobsAssumption DEF Jobs
    <3>3. pc' = [pc EXCEPT ![w] = "claim"] /\ UNCHANGED <<rows, handle, used>>
        BY <2>1 DEF Select
    <3>4. job' \in [Workers -> Nat \ {0}] /\ pc' \in [Workers -> Points]
        BY <3>1, <3>2, <3>3
    <3>5. \A v \in Workers : pc'[v] \in {"claim"} \cup Holding => job'[v] \in Jobs
        BY <3>1, <3>3
    <3> QED
        BY <3>3, <3>4, <3>5
  <2>2. CASE Claim(w)
      BY <2>2 DEF Claim
  <2>3. CASE Execute(w)
      BY <2>3 DEF Execute
  <2>4. CASE Complete(w)
      BY <2>4 DEF Complete, Report
  <2>5. CASE Judge(w)
      BY <2>5 DEF Judge
  <2>6. CASE Retry(w)
    <3>1. due' \in [Jobs -> BOOLEAN]
      <4>1. CASE UNCHANGED due
          BY <4>1, Zenon
      <4>2. CASE due' = [due EXCEPT ![job[w]] = FALSE]
          BY <4>2, Zenon
      <4> QED
          BY <2>6, <4>1, <4>2 DEF Retry
    <3>2. status' \in [Jobs -> Statuses] /\ used' \in [Budgets -> Nat]
        BY <2>6 DEF Retry
    <3>3. pc' \in [Workers -> Points] /\ \A v \in Workers : pc'[v] \in {"claim"} \cup Holding => job'[v] \in Jobs
        BY <2>6 DEF Retry
    <3>4. UNCHANGED <<attempts, limit, job, handle>>
        BY <2>6 DEF Retry
    <3> QED
        BY <3>1, <3>2, <3>3, <3>4
  <2>7. CASE GiveUp(w)
      BY <2>7 DEF GiveUp, Report
  <2>8. CASE Start(w)
      BY <2>8 DEF Start
  <2>9. CASE Exit(w)
      BY <2>9 DEF Exit
  <2> QED
      BY <1>2, <2>1, <2>2, <2>3, <2>4, <2>5, <2>6, <2>7, <2>8, <2>9 DEF WorkerStep
<1>3. CASE Stop
    BY <1>3 DEF Stop
<1>4. CASE Crash
    BY <1>4 DEF Crash
<1>5. CASE UNCHANGED vars
    BY <1>5 DEF vars
<1> QED
    BY <1>1, <1>2, <1>3, <1>4, <1>5 DEF Next

\* The counts of a job can be compared.
LEMMA CountsTyped == TypeOK => \A j \in Jobs : attempts[j] \in Nat /\ limit[j] \in Nat
<1> SUFFICES ASSUME attempts \in [Jobs -> Nat], limit \in [Jobs -> Nat], NEW j \in Jobs
             PROVE  attempts[j] \in Nat /\ limit[j] \in Nat
    BY DEF TypeOK
<1> QED
    OBVIOUS

\* Every step keeps what a claim, a retry and a result rely on.
LEMMA JobsStep == TypeOK /\ JobInv /\ [Next]_vars => JobInv'
<1> SUFFICES ASSUME TypeOK, JobInv, [Next]_vars PROVE JobInv'
    OBVIOUS
<1>0. TypeOK'
    BY JobsTyped
<1> USE <1>0, JobsAssumption
    DEF TypeOK, JobInv, OneRunner, AttemptsBounded, FailedAtLimit, StopsLoseNothing, Orphan,
        Holds, Holding, Points, Budgets, Spend, Goto, rows
<1>1. CASE \E j \in Jobs : Enqueue(j) \/ ActionEnqueue(j) \/ Cancel(j) \/ Due(j)
    BY <1>1, EnqueueInserts DEF Insert, Cancel, Due, Statuses
<1>2. ASSUME NEW w \in Workers, WorkerStep(w) \/ Start(w) \/ Exit(w) PROVE JobInv'
  <2>1. CASE Select(w)
      BY <2>1 DEF Select
  <2>2. CASE Claim(w)
    <3>1. CASE status[job[w]] = "pending" /\ UNCHANGED used
      <4>1. CASE pc' = [pc EXCEPT ![w] = "poll"] /\ UNCHANGED <<status, attempts>>
          BY <2>2, <4>1 DEF Claim
      <4>2. CASE /\ status' = [status EXCEPT ![job[w]] = "running"]
                 /\ attempts' = [attempts EXCEPT ![job[w]] = @ + 1]
                 /\ pc' = [pc EXCEPT ![w] = "exec"]
        <5> UNCHANGED <<limit, due, job, handle>>
            BY <2>2 DEF Claim
        <5>1. \A v \in Workers \ {w} : pc[v] \in Holding => job[v] # job[w]
            BY <3>1
        <5>2. OneRunner'
            BY <4>2, <5>1
        <5> DEFINE mine == job[w]
        <5>a. /\ mine \in Jobs
              /\ \A j \in Jobs : attempts[j] \in Nat /\ limit[j] \in Nat
              /\ \A j \in Jobs : attempts'[j] = IF j = mine THEN attempts[j] + 1 ELSE attempts[j]
              /\ \A j \in Jobs : status'[j] = IF j = mine THEN "running" ELSE status[j]
              /\ attempts[mine] = 0 \/ attempts[mine] < limit[mine]
              /\ UNCHANGED <<limit, used>>
            BY <2>2, <3>1, <4>2, CountsTyped DEF Claim
        <5> HIDE DEF mine
        <5>b. AttemptsBounded'
          <6> SUFFICES ASSUME NEW j \in Jobs PROVE attempts'[j] <= limit[j] \/ attempts'[j] <= 1
              BY <5>a DEF AttemptsBounded
          <6>1. CASE j = mine
              BY ONLY <5>a, <6>1
          <6>2. CASE j # mine
              BY <5>a, <6>2
          <6> QED
              BY <6>1, <6>2
        <5>c. FailedAtLimit'
            BY <5>a
        <5>3. AttemptsBounded' /\ FailedAtLimit'
            BY <5>b, <5>c
        <5>4. StopsLoseNothing'
            BY <3>1, <4>2
        <5>5. \A v \in Workers :
                /\ pc'[v] \in Holding => status'[job'[v]] \in {"running", "cancelled"}
                /\ pc'[v] = "retry" => attempts'[job'[v]] < limit'[job'[v]]
                /\ pc'[v] = "giveup" => attempts'[job'[v]] >= limit'[job'[v]] \/ used'["dbfails"] > 0
            BY <3>1, <4>2, <5>1
        <5> QED
            BY <3>1, <4>2, <5>2, <5>3, <5>4, <5>5
      <4> QED
          BY <2>2, <3>1, <4>1, <4>2 DEF Claim
    <3>2. CASE status[job[w]] # "pending" \/ Spend("dbfails")
        BY <2>2, <3>2 DEF Claim
    <3> QED
        BY <2>2, <3>1, <3>2 DEF Claim
  <2>3. CASE Execute(w)
      BY <2>3 DEF Execute
  <2>4. CASE Complete(w)
      BY <2>4 DEF Complete, Report
  <2>5. CASE Judge(w)
    <3> /\ pc[w] = "erred"
        /\ UNCHANGED <<status, attempts, limit, due, job, handle>>
        BY <2>5 DEF Judge
    <3>1. CASE Spend("dbfails") /\ pc' = [pc EXCEPT ![w] = "giveup"]
        BY <3>1
    <3>2. CASE /\ attempts[job[w]] < limit[job[w]] /\ UNCHANGED used
               /\ pc' = [pc EXCEPT ![w] = "retry"]
        BY <3>2
    <3>3. CASE /\ ~(attempts[job[w]] < limit[job[w]]) /\ UNCHANGED used
               /\ pc' = [pc EXCEPT ![w] = "giveup"]
      <4>1. attempts[job[w]] \in Nat /\ limit[job[w]] \in Nat
          BY CountsTyped
      <4>2. attempts[job[w]] >= limit[job[w]]
          BY ONLY <3>3, <4>1
      <4> QED
          BY <3>3, <4>2
    <3> QED
        BY <2>5, <3>1, <3>2, <3>3 DEF Judge
  <2>6. CASE Retry(w)
      BY <2>6 DEF Retry
  <2>7. CASE GiveUp(w)
      BY <2>7 DEF GiveUp, Report
  <2>8. CASE Start(w)
      BY <2>8 DEF Start
  <2>9. CASE Exit(w)
      BY <2>9 DEF Exit
  <2> QED
      BY <1>2, <2>1, <2>2, <2>3, <2>4, <2>5, <2>6, <2>7, <2>8, <2>9 DEF WorkerStep
<1>3. CASE Stop
    BY <1>3 DEF Stop
<1>4. CASE Crash
    BY <1>4 DEF Crash
<1>5. CASE UNCHANGED vars
    BY <1>5 DEF vars
<1> QED
    BY <1>1, <1>2, <1>3, <1>4, <1>5 DEF Next

\* The inductive invariant of the queue: claims are exclusive, attempts bounded, and
\* whatever a worker holds is marked running or cancelled.
THEOREM JobsInvariant == Spec => [](TypeOK /\ JobInv)
<1>1. TypeOK /\ JobInv /\ [Next]_vars => (TypeOK /\ JobInv)'
    BY JobsTyped, JobsStep
<1> QED
    BY JobsInit, <1>1, PTL DEF Spec

\* Type correctness.
THEOREM JobsTypeCorrect == Spec => []TypeOK
    BY JobsInvariant, PTL

\* A job is run by one worker at a time, however many stopped workers overlap.
THEOREM JobsOneRunner == Spec => []OneRunner
<1>1. JobInv => OneRunner
    BY DEF JobInv
<1> QED
    BY JobsInvariant, <1>1, PTL

\* A job is never claimed more often than its limit allows.
THEOREM JobsAttemptsBounded == Spec => []AttemptsBounded
<1>1. JobInv => AttemptsBounded
    BY DEF JobInv
<1> QED
    BY JobsInvariant, <1>1, PTL

\* Without crashes and failed statements no job is lost by stops and starts.
THEOREM JobsStopsLoseNothing == Spec => []StopsLoseNothing
<1>1. JobInv => StopsLoseNothing
    BY DEF JobInv
<1> QED
    BY JobsInvariant, <1>1, PTL

\* No step changes the status of a job that is completed or has failed.
LEMMA ResultKept ==
    TypeOK /\ JobInv /\ [Next]_vars =>
        \A j \in Jobs : status[j] \in {"completed", "failed"} => status'[j] = status[j]
<1> SUFFICES ASSUME TypeOK, JobInv, [Next]_vars, NEW j \in Jobs,
                    status[j] \in {"completed", "failed"}
             PROVE  status'[j] = status[j]
    OBVIOUS
<1> USE DEF TypeOK, JobInv, Holding, rows
<1>1. CASE \E k \in Jobs : Enqueue(k) \/ ActionEnqueue(k) \/ Cancel(k) \/ Due(k)
    BY <1>1, EnqueueInserts DEF Insert, Cancel, Due
<1>2. CASE \E w \in Workers : WorkerStep(w) \/ Start(w) \/ Exit(w)
    BY <1>2 DEF WorkerStep, Select, Claim, Execute, Complete, Report, Judge, Retry, GiveUp,
                Start, Exit
<1>3. CASE Stop \/ Crash \/ UNCHANGED vars
    BY <1>3 DEF Stop, Crash, vars
<1> QED
    BY <1>1, <1>2, <1>3 DEF Next

\* A result stands, against late workers, cancellations and retries.
THEOREM JobsResultStands == Spec => ResultStands
<1>1. TypeOK /\ JobInv /\ [Next]_vars =>
        [\A j \in Jobs : status[j] \in {"completed", "failed"} => status'[j] = status[j]]_vars
    BY ResultKept
<1> QED
    BY JobsInvariant, <1>1, PTL DEF Spec, ResultStands
=============================================================================
