--------------------------- MODULE SchedulerProofs ---------------------------
(* Scheduled tasks, for any number of tasks, runs, workers and edits: the     *)
(* scheduler, its workers and the owner's edits leave the site in order, and   *)
(* no time that comes is run twice; a run is in one pair of hands at a time,   *)
(* and the table of runs records what RunRecord promises.                     *)
EXTENDS Scheduler, SitesProofs, FiniteSetTheorems

Trouble == spent["crashes"] + spent["failures"]

\* A task whose run is recorded and whose next_run is still the old one is the task the
\* scheduler is at, unless a crash or a failed statement has come in between.
FiredIsCurrent ==
    \A t \in fired : Trouble > 0 \/ (cur = t /\ spc \in {"send", "waiting", "fail", "advance"})

RunsTyped == made \in Nat /\ of \in [Runs -> Tasks \cup {NoTask}]

SchedInv == SitesInv /\ RunsTyped /\ FiredIsCurrent

-----------------------------------------------------------------------------
\* Whatever is not a step of the site leaves it alone, or is a statement that failed.
LEMMA SiteLeftAlone == Next => SiteStep \/ UNCHANGED siteVars \/ Failing
<1> USE DEF EditOthers
<1>1. PassStep => UNCHANGED siteVars \/ Failing
  BY DEF PassStep, InitializeNextRun, PassBegins, Record, Send, SendWaits, MarkFailed, SetStatus, Advance
<1>2. ASSUME NEW w \in Workers
      PROVE  WorkerStep(w) \/ BuildBegins(w) \/ BuildEnds(w) \/ Leave(w) => UNCHANGED siteVars \/ Failing
  BY DEF WorkerStep, Take, ExecuteNativeAction, ExecuteScheduledTask, Ran, Finalize, SetStatus, Count,
         BuildBegins, BuildEnds, Leave
<1>3. ASSUME NEW t \in Tasks
      PROVE  \/ CreateTask(t) \/ UpdateTask(t) \/ UpdateNextRun(t) \/ ToggleTaskRead(t)
             \/ DeleteTask(t) \/ RunNow(t) \/ TimePasses(t)
             => UNCHANGED siteVars
  BY DEF CreateTask, UpdateTask, UpdateNextRun, ToggleTaskRead, DeleteTask, RunNow, TimePasses
<1>4. ToggleTaskWrite => UNCHANGED siteVars
  BY DEF ToggleTaskWrite
<1>5. QED
  BY <1>1, <1>2, <1>3, <1>4 DEF Next

\* A failed statement counts as a trouble and changes nothing else.
LEMMA FailingCounts ==
    ASSUME SitesTypeOK, Failing PROVE spent' \in [Troubles -> Nat] /\ Trouble' = Trouble + 1 /\ Trouble \in Nat
  BY DEF SitesTypeOK, Failing, SiteSpend, Troubles, Trouble

LEMMA FailingKeepsSite == SitesInv /\ Failing => SitesInv'
<1> SUFFICES ASSUME SitesInv, Failing PROVE SitesInv'
  OBVIOUS
<1>1. /\ spent' \in [Troubles -> Nat] /\ (spent["crashes"] > 0 => spent'["crashes"] > 0)
      /\ spent'["failures"] > 0
  BY DEF SitesInv, SitesTypeOK, Failing, SiteSpend, Troubles
<1>2. SitesTypeOK'
  BY <1>1 DEF SitesInv, SitesTypeOK, Failing
<1>3. (ListedHasData /\ WorkerHasDatabase /\ SitesOrder /\ UndoFailed)'
  BY <1>1 DEF SitesInv, ListedHasData, WorkerHasDatabase, SitesOrder, UndoFailed, Failing
<1>4. QED
  BY <1>2, <1>3 DEF SitesInv

\* The site under its scheduler goes through nothing but steps that keep it in order.
LEMMA SchedulerKeepsSite == SitesInv /\ [Next]_vars => SitesInv'
<1> SUFFICES ASSUME SitesInv, [Next]_vars PROVE SitesInv'
  OBVIOUS
<1>1. CASE SiteStep
  BY <1>1, SitesStep DEF SiteStep
<1>2. CASE UNCHANGED siteVars
  BY <1>2, SitesStep
<1>3. CASE Failing
  BY <1>3, FailingKeepsSite
<1>4. QED
  BY <1>1, <1>2, <1>3, SiteLeftAlone DEF vars

-----------------------------------------------------------------------------
\* No step but a crash forgets what the scheduler is at before next_run was moved on.
LEMMA SchedulerStep == SchedInv /\ [Next]_vars => SchedInv'
<1> SUFFICES ASSUME SchedInv, [Next]_vars PROVE RunsTyped' /\ FiredIsCurrent'
  BY SchedulerKeepsSite DEF SchedInv
<1> USE DEF SchedInv
<1>1. SitesTypeOK /\ SitesTypeOK'
  BY SchedulerKeepsSite DEF SitesInv
<1>2. Trouble \in Nat /\ Trouble' \in Nat
  BY <1>1 DEF SitesTypeOK, Troubles, Trouble
<1>3. CASE UNCHANGED <<of, made, spc, cur>> /\ fired' \subseteq fired /\ UNCHANGED siteVars
  BY <1>3 DEF RunsTyped, FiredIsCurrent, Trouble, siteVars
<1>4. CASE UNCHANGED <<of, made>> /\ fired' \subseteq fired /\ Failing
  <2>1. Trouble' > 0
    BY <1>1, <1>2, <1>4, FailingCounts
  <2>2. QED
    BY <1>4, <2>1 DEF RunsTyped, FiredIsCurrent
<1>5. CASE SiteStep
  <2>1. Trouble' >= Trouble
    <3>1. UNCHANGED spent \/ \E k \in Troubles : SiteSpend(k)
      BY <1>5 DEF SiteStep, SitesNext, CreateRow, CreateDb, CreateUndo, CreateEvent, DeleteStop, DeleteRow, DeleteFiles,
         AdminRequest, BrainStart, BrainStop, ToggleRead, ToggleWrite, SweepList, SweepOpen, Halt, Restart, Troubles
    <3>2. ASSUME NEW k \in Troubles, SiteSpend(k) PROVE Trouble' >= Trouble
      BY <1>1, <3>2 DEF SiteSpend, SitesTypeOK, Troubles, Trouble
    <3>3. QED
      BY <1>2, <3>1, <3>2 DEF Trouble
  <2>2. CASE up'
    BY <1>2, <1>5, <2>1, <2>2 DEF SiteStep, RunsTyped, FiredIsCurrent, taskVars, passVars
  <2>3. CASE ~up'
    <3>1. Halt
      BY <1>5, <2>3 DEF SiteStep, SitesNext, CreateRow, CreateDb, CreateUndo, CreateEvent, DeleteStop, DeleteRow, DeleteFiles,
         AdminRequest, BrainStart, BrainStop, ToggleRead, ToggleWrite, SweepList, SweepOpen, Restart
    <3>2. Trouble' > 0
      BY <1>1, <3>1 DEF Halt, SiteSpend, SitesTypeOK, Troubles, Trouble
    <3>3. QED
      BY <1>5, <3>2 DEF SiteStep, RunsTyped, FiredIsCurrent
  <2>4. QED
    BY <2>2, <2>3
<1>6. ASSUME PassStep PROVE RunsTyped' /\ FiredIsCurrent'
  <2>1. CASE InitializeNextRun \/ PassBegins
    BY <1>2, <2>1 DEF InitializeNextRun, PassBegins, RunsTyped, FiredIsCurrent, runVars, ghosts, siteVars, Trouble
  <2>2. ASSUME NEW t \in Tasks, Record(t) PROVE RunsTyped' /\ FiredIsCurrent'
    <3>1. CASE /\ made < NumRuns /\ made' = made + 1 /\ of' = [of EXCEPT ![made'] = t]
               /\ fired' = fired \cup {t} /\ UNCHANGED siteVars
      <4>1. RunsTyped'
        <5>1. made' \in Nat
          BY <3>1 DEF RunsTyped
        <5>2. of' \in [Runs -> Tasks \cup {NoTask}]
          BY <3>1 DEF RunsTyped
        <5>3. QED
          BY <5>1, <5>2 DEF RunsTyped
      <4>2. Trouble' = Trouble /\ cur' = t /\ spc = "next" /\ spc' = "send"
        BY <2>2, <3>1 DEF Record, siteVars, Trouble
      <4>3. QED
        BY <3>1, <4>1, <4>2 DEF FiredIsCurrent
    <3>2. CASE UNCHANGED <<siteVars, runVars, ghosts>>
      <4>1. Trouble' = Trouble /\ spc = "next"
        BY <2>2, <3>2 DEF Record, siteVars, Trouble
      <4>2. QED
        BY <3>2, <4>1 DEF RunsTyped, FiredIsCurrent, runVars, ghosts
    <3>3. CASE Failing /\ UNCHANGED <<runVars, ghosts>>
      BY <1>4, <3>3 DEF runVars, ghosts
    <3>4. QED
      BY <2>2, <3>1, <3>2, <3>3 DEF Record
  <2>3. CASE Send \/ SendWaits
    BY <2>3 DEF Send, SendWaits, RunsTyped, FiredIsCurrent, runVars, ghosts, siteVars, Trouble
  <2>4. CASE MarkFailed
    <3>1. CASE Failing
      BY <1>4, <2>4, <3>1 DEF MarkFailed, ghosts
    <3>2. CASE UNCHANGED siteVars
      BY <2>4, <3>2 DEF MarkFailed, RunsTyped, FiredIsCurrent, ghosts, siteVars, Trouble
    <3>3. QED
      BY <2>4, <3>1, <3>2 DEF MarkFailed, SetStatus
  <2>5. CASE Advance
    <3>1. CASE Failing /\ fired' = fired
      BY <1>4, <2>5, <3>1 DEF Advance, runVars
    <3>2. CASE UNCHANGED siteVars /\ fired' = fired \ {cur}
      BY <2>5, <3>2 DEF Advance, RunsTyped, FiredIsCurrent, runVars, siteVars, Trouble
    <3>3. QED
      BY <2>5, <3>1, <3>2 DEF Advance
  <2>6. QED
    BY <1>6, <2>1, <2>2, <2>3, <2>4, <2>5 DEF PassStep
<1>7. ASSUME NEW w \in Workers, WorkerStep(w) \/ BuildBegins(w) \/ BuildEnds(w) \/ Leave(w)
      PROVE  RunsTyped' /\ FiredIsCurrent'
  <2>1. UNCHANGED <<of, made, spc, cur, fired>>
    BY <1>7 DEF WorkerStep, Take, ExecuteNativeAction, ExecuteScheduledTask, Ran, Finalize, Count,
       BuildBegins, BuildEnds, Leave, runVars, passVars, ghosts
  <2>2. UNCHANGED siteVars \/ Failing
    BY <1>7 DEF WorkerStep, Take, ExecuteNativeAction, ExecuteScheduledTask, Ran, Finalize, SetStatus, Count,
       BuildBegins, BuildEnds, Leave
  <2>3. QED
    BY <1>3, <1>4, <2>1, <2>2
<1>8. ASSUME NEW t \in Tasks,
             \/ CreateTask(t) \/ UpdateTask(t) \/ UpdateNextRun(t) \/ ToggleTaskRead(t)
             \/ DeleteTask(t) \/ RunNow(t) \/ TimePasses(t)
      PROVE  RunsTyped' /\ FiredIsCurrent'
  <2>1. UNCHANGED <<of, made, spc, cur>> /\ fired' \subseteq fired /\ UNCHANGED siteVars
    BY <1>8 DEF CreateTask, UpdateTask, UpdateNextRun, ToggleTaskRead, DeleteTask, RunNow, TimePasses,
       EditOthers, runVars, passVars, ghosts
  <2>2. QED
    BY <1>3, <2>1
<1>9. CASE ToggleTaskWrite
  BY <1>3, <1>9 DEF ToggleTaskWrite, EditOthers, runVars, passVars
<1>10. CASE UNCHANGED vars
  BY <1>3, <1>10 DEF vars, schedVars, runVars, passVars, ghosts
<1>11. QED
  BY <1>5, <1>6, <1>7, <1>8, <1>9, <1>10 DEF Next

\* The invariant of every behaviour of the scheduler and its site.
THEOREM SchedulerInvariant == FairSpec => []SchedInv
<1>1. Init => SchedInv
  <2> SUFFICES ASSUME Init PROVE SchedInv
    OBVIOUS
  <2>1. SitesInv
    BY SitesStarts DEF Init
  <2>2. RunsTyped
    BY DEF Init, RunsTyped
  <2>3. FiredIsCurrent
    BY DEF Init, FiredIsCurrent
  <2>4. QED
    BY <2>1, <2>2, <2>3 DEF SchedInv
<1>2. QED
  BY <1>1, SchedulerStep, PTL DEF FairSpec, Spec

\* A listed site has its data, with the scheduler and its workers at work, but for the two
\* exceptions of the property: the process died, or a failed creation could not be undone
\* (server/admin/sites.go).
THEOREM SchedulerListedHasData == FairSpec => []ListedHasData
<1>1. SchedInv => ListedHasData
  BY DEF SchedInv, SitesInv
<1>2. QED
  BY <1>1, SchedulerInvariant, PTL

\* The worker that scheduled tasks are sent to works on the open database.
THEOREM SchedulerWorkerHasDatabase == FairSpec => []WorkerHasDatabase
<1>1. SchedInv => WorkerHasDatabase
  BY DEF SchedInv, SitesInv
<1>2. QED
  BY <1>1, SchedulerInvariant, PTL

\* A time that comes is recorded as one run (brain/scheduler.go, checkDueTasksForSite):
\* nothing but a crash or a failed statement between the record and the new next_run
\* can repeat it, whatever the owner edits meanwhile.
THEOREM SchedulerNotTwice == FairSpec => NotTwice
<1> DEFINE Once == \A t \in Tasks : t \in fired /\ made' > made /\ of'[made'] = t
                       => spent["crashes"] + spent["failures"] > 0
<1>1. SchedInv /\ [Next]_vars => [Once]_vars
  <2> SUFFICES ASSUME SchedInv, [Next]_vars, NEW t \in Tasks, t \in fired, made' > made, of'[made'] = t
              PROVE  spent["crashes"] + spent["failures"] > 0
    OBVIOUS
  <2>1. PICK u \in Tasks : Record(u) /\ made' = made + 1 /\ of' = [of EXCEPT ![made'] = u] /\ made < NumRuns
    BY DEF SchedInv, RunsTyped, Next, vars, schedVars, SiteStep, PassStep, InitializeNextRun, PassBegins, Record,
       Send, SendWaits, MarkFailed, Advance, WorkerStep, Take, ExecuteNativeAction, ExecuteScheduledTask, Ran,
       Finalize, Count, BuildBegins, BuildEnds, Leave, CreateTask, UpdateTask, UpdateNextRun, ToggleTaskRead,
       DeleteTask, RunNow, TimePasses, ToggleTaskWrite, EditOthers, runVars
  <2>2. spc = "next"
    BY <2>1 DEF Record
  <2>3. QED
    BY <2>2 DEF SchedInv, FiredIsCurrent, Trouble
<1>2. QED
  BY <1>1, SchedulerInvariant, PTL DEF FairSpec, Spec, NotTwice
-----------------------------------------------------------------------------
\* What may have left a run behind.
Bother == spent["stops"] + spent["crashes"] + spent["failures"]

Commands == [task : Tasks \cup {NoTask}, run : Nat]
Working == {"native", "prompt", "finalize"}

\* A worker has the run, or a place of a channel has it.
Hold(w, r) == wpc[w] \in Working /\ wrun[w] = r
In(w, i, r) == i \in 1 .. Len(queue[w]) /\ queue[w][i].run = r
InHand(r) == \/ AtScheduler(r)
             \/ \E w \in Workers : Hold(w, r) \/ \E i \in Nat : In(w, i, r)

HandsTyped ==
    /\ status \in [Runs -> {"absent", "running", "completed", "failed"}]
    /\ made \in 0 .. NumRuns /\ cur \in Tasks \cup {NoTask} /\ curRun \in 0 .. made
    /\ queue \in [Workers -> Seq(Commands)]
    /\ wpc \in [Workers -> {"off", "free", "building", "count"} \cup Working]
    /\ wrun \in [Workers -> 0 .. made]
    /\ \A w \in Workers : Len(queue[w]) <= Slots /\ \A i \in 1 .. Len(queue[w]) : queue[w][i].run \in 0 .. made
    /\ spc = "waiting" => handle # 0

\* No two hands have the same run.
Apart ==
    \A r \in Runs, v, w \in Workers :
        /\ AtScheduler(r) => ~Hold(w, r) /\ \A i \in Nat : ~In(w, i, r)
        /\ Hold(v, r) => (Hold(w, r) => v = w) /\ \A i \in Nat : ~In(w, i, r)
        /\ \A i, j \in Nat : In(v, i, r) /\ In(w, j, r) => v = w /\ i = j

\* A run in a hand has not ended; one that was not recorded is not there.
Unended ==
    /\ \A r \in Runs : r > made => status[r] = "absent"
    /\ \A r \in Runs : InHand(r) => status[r] \in {"absent", "running"}

\* As long as nothing was stopped, crashed or failed, the site has one worker on one
\* database, and no run that is running is in no hand.
CalmInv == Bother = 0 =>
    /\ deleting = "no" /\ row # "gone" /\ late = {}
    /\ \A w \in Workers : wpc[w] # "off" \/ queue[w] # <<>> => w = handle
    /\ spc \notin {"init", "idle"} => held = cached /\ held # 0
    /\ \A r \in Runs : status[r] = "running" => InHand(r)

WayInv == HandsTyped /\ Apart /\ Unended /\ CalmInv

-----------------------------------------------------------------------------
\* A step of the site spends nothing, or one trouble.
LEMMA SiteBothers == ASSUME SitesTypeOK, SiteStep PROVE UNCHANGED spent \/ \E k \in Troubles : SiteSpend(k)
  BY DEF SiteStep, SitesNext, CreateRow, CreateDb, CreateUndo, CreateEvent, DeleteStop, DeleteRow, DeleteFiles,
     AdminRequest, BrainStart, BrainStop, ToggleRead, ToggleWrite, SweepList, SweepOpen, Halt, Restart, Troubles

\* Troubles are counted and not forgotten.
LEMMA BotherGrows ==
    ASSUME SitesTypeOK, [Next]_vars
    PROVE  Bother \in Nat /\ Bother' \in Nat /\ Bother' >= Bother /\ (Failing => Bother' > 0)
<1>1. spent \in [Troubles -> Nat] /\ Bother \in Nat
  BY DEF SitesTypeOK, Bother, Troubles
<1>2. ASSUME NEW k \in Troubles, SiteSpend(k) PROVE Bother' \in Nat /\ Bother' >= Bother
  BY <1>1, <1>2 DEF SiteSpend, Troubles, Bother
<1>3. Failing => Bother' \in Nat /\ Bother' > Bother
  BY <1>1 DEF Failing, SiteSpend, Troubles, Bother
<1>4. UNCHANGED spent => Bother' = Bother
  BY DEF Bother
<1>5. QED
  BY <1>1, <1>2, <1>3, <1>4, SiteBothers, SiteLeftAlone DEF vars, siteVars

\* The hands of the next state are among those of this one, or one run was handed on.
LEMMA ApartShrinks ==
    ASSUME Apart,
           \A r \in Runs : AtScheduler(r)' => AtScheduler(r),
           \A r \in Runs, w \in Workers : Hold(w, r)' => Hold(w, r),
           \A r \in Runs, w \in Workers, i \in Nat : In(w, i, r)' => In(w, i, r)
    PROVE  Apart'
  BY DEF Apart

\* Runs whose status stays, or that are in no hand when it changes, are no harm to Unended.
LEMMA UnendedStays ==
    ASSUME HandsTyped, Unended, made' = made,
           \A r \in Runs : \/ status'[r] \in {status[r], "absent"}
                           \/ status[r] # "absent" /\ ~InHand(r)',
           \A r \in Runs : InHand(r)' => InHand(r)
    PROVE  Unended'
  BY DEF Unended, HandsTyped

\* What a run recorded is: one of the runs.
LEMMA RunsAre == ASSUME HandsTyped PROVE 0 \notin Runs /\ NumRuns \in Nat /\ \A r \in 1 .. made : r \in Runs
  BY SchedulerAssumption DEF HandsTyped, Runs

\* A command goes to the end of the worker's channel.
LEMMA PutIs ==
    ASSUME HandsTyped, handle \in Workers, Room(handle), Put(handle)
    PROVE  /\ queue' \in [Workers -> Seq(Commands)]
           /\ \A w \in Workers :
                 Len(queue'[w]) <= Slots /\ \A i \in 1 .. Len(queue'[w]) : queue'[w][i].run \in 0 .. made
           /\ \A w \in Workers, i \in Nat, r \in Runs :
                 In(w, i, r)' <=> In(w, i, r) \/ (w = handle /\ i = Len(queue[handle]) + 1 /\ r = curRun)
<1> DEFINE e == [task |-> cur, run |-> curRun]
           q == queue[handle]
<1>0. curRun \in Nat /\ cur \in Tasks \cup {NoTask} /\ q \in Seq(Commands) /\ curRun \in 0 .. made /\ Slots \in Nat
  BY SchedulerAssumption DEF HandsTyped
<1>1. e \in Commands /\ e.run = curRun /\ q \in Seq(Commands) /\ curRun \in 0 .. made /\ Slots \in Nat
  BY <1>0 DEF Commands
<1>2. queue' = [queue EXCEPT ![handle] = Append(q, e)] /\ Len(q) < Slots
  BY DEF Put, Room
<1> HIDE DEF e
<1>3. Append(q, e) \in Seq(Commands) /\ Len(Append(q, e)) = Len(q) + 1 /\ Len(q) \in Nat
  BY <1>1
<1>4. \A i \in 1 .. Len(q) : Append(q, e)[i] = q[i]
  BY <1>1
<1>5. Append(q, e)[Len(q) + 1] = e
  BY <1>1
<1>6. /\ queue' \in [Workers -> Seq(Commands)] /\ queue'[handle] = Append(q, e)
      /\ \A w \in Workers : w # handle => queue'[w] = queue[w]
  BY <1>2, <1>3 DEF HandsTyped
<1>7. ASSUME NEW w \in Workers
      PROVE  Len(queue'[w]) <= Slots /\ \A i \in 1 .. Len(queue'[w]) : queue'[w][i].run \in 0 .. made
  <2>1. CASE w = handle
    <3>1. Len(queue'[w]) <= Slots
      BY <1>1, <1>2, <1>3, <1>6, <2>1
    <3>2. ASSUME NEW i \in 1 .. Len(queue'[w]) PROVE queue'[w][i].run \in 0 .. made
      <4>1. CASE i \in 1 .. Len(q)
        BY <1>4, <1>6, <2>1, <4>1 DEF HandsTyped
      <4>2. CASE i = Len(q) + 1
        BY <1>1, <1>5, <1>6, <2>1, <4>2
      <4>3. QED
        BY <1>3, <1>6, <2>1, <4>1, <4>2
    <3>3. QED
      BY <3>1, <3>2
  <2>2. CASE w # handle
    BY <1>6, <2>2 DEF HandsTyped
  <2>3. QED
    BY <2>1, <2>2
<1>8. ASSUME NEW w \in Workers, NEW i \in Nat, NEW r \in Runs
      PROVE  In(w, i, r)' <=> In(w, i, r) \/ (w = handle /\ i = Len(queue[handle]) + 1 /\ r = curRun)
  <2>1. CASE w # handle
    BY <1>6, <2>1 DEF In
  <2>2. CASE w = handle /\ i \in 1 .. Len(q)
    BY <1>3, <1>4, <1>6, <2>2 DEF In
  <2>3. CASE w = handle /\ i = Len(q) + 1
    BY <1>1, <1>3, <1>5, <1>6, <2>3 DEF In
  <2>4. CASE w = handle /\ i \notin 1 .. Len(q) + 1
    BY <1>3, <1>6, <2>4 DEF In
  <2>5. QED
    BY <1>3, <2>1, <2>2, <2>3, <2>4
<1>9. QED
  BY <1>6, <1>7, <1>8

\* The worker takes the first command; the others move up.
LEMMA TakeIs ==
    ASSUME HandsTyped, NEW w \in Workers, queue[w] # <<>>, queue' = [queue EXCEPT ![w] = Tail(@)]
    PROVE  /\ queue' \in [Workers -> Seq(Commands)] /\ In(w, 1, Head(queue[w]).run)
           /\ Head(queue[w]).run \in 0 .. made
           /\ \A v \in Workers :
                 Len(queue'[v]) <= Slots /\ \A i \in 1 .. Len(queue'[v]) : queue'[v][i].run \in 0 .. made
           /\ \A v \in Workers, i \in Nat, r \in Runs :
                 In(v, i, r)' <=> \/ v # w /\ In(v, i, r)
                                  \/ v = w /\ i >= 1 /\ In(w, i + 1, r)
<1> DEFINE q == queue[w]
<1>1. q \in Seq(Commands) /\ q # <<>> /\ Len(q) <= Slots /\ Slots \in Nat
  BY SchedulerAssumption DEF HandsTyped
<1>2. Tail(q) \in Seq(Commands) /\ Len(Tail(q)) = Len(q) - 1 /\ Len(q) \in Nat /\ Len(q) >= 1
  BY <1>1
<1>3. \A i \in 1 .. Len(q) - 1 : Tail(q)[i] = q[i + 1]
  BY <1>1
<1>4. Head(q) = q[1]
  BY <1>1
<1>5. /\ queue' \in [Workers -> Seq(Commands)] /\ queue'[w] = Tail(q)
      /\ \A v \in Workers : v # w => queue'[v] = queue[v]
  BY <1>2 DEF HandsTyped
<1>6. In(w, 1, Head(q).run) /\ Head(q).run \in 0 .. made
  BY <1>2, <1>4 DEF In, HandsTyped
<1>7. ASSUME NEW v \in Workers
      PROVE  Len(queue'[v]) <= Slots /\ \A i \in 1 .. Len(queue'[v]) : queue'[v][i].run \in 0 .. made
  <2>1. CASE v = w
    <3>1. Len(queue'[v]) <= Slots
      BY <1>1, <1>2, <1>5, <2>1
    <3>2. ASSUME NEW i \in 1 .. Len(queue'[v]) PROVE queue'[v][i].run \in 0 .. made
      <4>1. i \in 1 .. Len(q) - 1 /\ i + 1 \in 1 .. Len(q)
        BY <1>2, <1>5, <2>1
      <4>2. queue'[v][i] = q[i + 1]
        BY <1>3, <1>5, <2>1, <4>1
      <4>3. QED
        BY <4>1, <4>2 DEF HandsTyped
    <3>3. QED
      BY <3>1, <3>2
  <2>2. CASE v # w
    BY <1>5, <2>2 DEF HandsTyped
  <2>3. QED
    BY <2>1, <2>2
<1>8. ASSUME NEW v \in Workers, NEW i \in Nat, NEW r \in Runs
      PROVE  In(v, i, r)' <=> \/ v # w /\ In(v, i, r)
                              \/ v = w /\ i >= 1 /\ In(w, i + 1, r)
  <2>1. CASE v # w
    BY <1>5, <2>1 DEF In
  <2>2. CASE v = w /\ i \in 1 .. Len(q) - 1
    <3>1. i + 1 \in 1 .. Len(q) /\ Tail(q)[i] = q[i + 1]
      BY <1>2, <1>3, <2>2
    <3>2. QED
      BY <1>2, <1>5, <2>2, <3>1 DEF In
  <2>3. CASE v = w /\ i \notin 1 .. Len(q) - 1
    <3>1. i >= 1 => i + 1 \notin 1 .. Len(q)
      BY <1>2, <2>3
    <3>2. QED
      BY <1>2, <1>5, <2>3, <3>1 DEF In
  <2>4. QED
    BY <2>1, <2>2, <2>3
<1>9. QED
  BY <1>5, <1>6, <1>7, <1>8

-----------------------------------------------------------------------------
\* As long as all is calm the site keeps its database and its worker.
LEMMA SiteCalm ==
    ASSUME SchedInv, CalmInv, SiteStep, Bother' = 0
    PROVE  /\ deleting' = "no" /\ row' # "gone" /\ late' = {}
           /\ \/ handle' = handle /\ started' = started
              \/ handle = 0 /\ handle' = started + 1 /\ started' = started + 1
           /\ cached # 0 => cached' = cached
<1>1. SitesTypeOK /\ Bother = 0
  <2>1. SitesTypeOK
    BY DEF SchedInv, SitesInv
  <2>2. [Next]_vars
    BY DEF Next
  <2>3. QED
    BY <2>1, <2>2, BotherGrows
<1>2. deleting = "no" /\ row # "gone" /\ late = {}
  BY <1>1 DEF CalmInv
<1>3. ASSUME NEW k \in {"stops", "crashes", "failures"}, SiteSpend(k) PROVE FALSE
  BY <1>1, <1>3 DEF SiteSpend, SitesTypeOK, Bother, Troubles
<1>4. OpenDb => (cached # 0 => cached' = cached)
  BY DEF OpenDb
<1>5. StartWorker => /\ cached # 0 => cached' = cached
                     /\ late' = late
                     /\ \/ handle' = handle /\ started' = started
                        \/ handle = 0 /\ handle' = started + 1 /\ started' = started + 1
  BY <1>2, <1>4 DEF StartWorker
<1>6. CASE CreateRow \/ CreateDb \/ CreateUndo \/ CreateEvent
  <2>1. creating # "undo"
    BY <1>1 DEF SchedInv, SitesInv, UndoFailed, SitesTypeOK, Bother, Troubles
  <2>2. QED
    BY <1>2, <1>3, <1>4, <1>5, <1>6, <2>1 DEF CreateRow, CreateDb, CreateUndo, CreateEvent
<1>7. CASE DeleteStop \/ DeleteRow \/ DeleteFiles
  BY <1>2, <1>3, <1>7 DEF DeleteStop, DeleteRow, DeleteFiles
<1>8. CASE AdminRequest \/ BrainStart \/ BrainStop
  BY <1>2, <1>3, <1>4, <1>5, <1>8 DEF AdminRequest, BrainStart, BrainStop
<1>9. CASE ToggleRead \/ ToggleWrite \/ SweepList \/ SweepOpen
  BY <1>2, <1>4, <1>9 DEF ToggleRead, ToggleWrite, SweepList, SweepOpen, Listed
<1>10. CASE Halt \/ Restart
  BY <1>2, <1>3, <1>5, <1>10 DEF Halt, Restart
<1>11. QED
  BY <1>6, <1>7, <1>8, <1>9, <1>10 DEF SiteStep, SitesNext

\* What calm says while one statement is executed: the worker and the scheduler use the
\* open database.
LEMMA CalmHandles ==
    ASSUME SchedInv, CalmInv, [Next]_vars, Bother' = 0
    PROVE  /\ Bother = 0 /\ ~Failing
           /\ \A w \in Workers : wpc[w] # "off" => handle = w /\ wdb[w] = cached /\ Usable(wdb[w])
           /\ spc \notin {"init", "idle"} => Usable(held)
<1>1. SitesTypeOK /\ WorkerHasDatabase /\ SitesOrder
  BY DEF SchedInv, SitesInv
<1>2. Bother = 0 /\ ~Failing
  BY <1>1, BotherGrows
<1>3. late = {} /\ \A w \in Workers : wpc[w] # "off" => handle = w
  BY <1>2 DEF CalmInv
<1>4. ASSUME NEW w \in Workers, wpc[w] # "off" PROVE wdb[w] = cached /\ wdb[w] # 0
  <2>1. handle = w /\ handle # 0
    BY <1>3, <1>4 DEF Workers
  <2>2. QED
    BY <1>1, <1>3, <2>1 DEF WorkerHasDatabase, SitesOrder
<1>5. QED
  BY <1>2, <1>3, <1>4 DEF CalmInv, Usable

\* Steps that leave runs, channels and workers as they are.
LEMMA WayStays ==
    ASSUME SchedInv, WayInv, [Next]_vars, UNCHANGED <<status, made, queue, wpc, wrun>>,
           UNCHANGED siteVars \/ Failing, spc' = "waiting" => spc = "waiting" \/ handle # 0,
           cur' \in Tasks \cup {NoTask}, curRun' \in 0 .. made,
           \A r \in Runs : AtScheduler(r)' <=> AtScheduler(r),
           spc' \notin {"init", "idle"} => \/ held' = cached /\ cached # 0
                                           \/ spc \notin {"init", "idle"} /\ held' = held
    PROVE  WayInv'
<1>0. handle' = handle
  BY DEF siteVars, Failing
<1>1. HandsTyped'
  BY <1>0 DEF WayInv, HandsTyped
<1>2. /\ \A r \in Runs, w \in Workers : Hold(w, r)' <=> Hold(w, r)
      /\ \A r \in Runs, w \in Workers, i \in Nat : In(w, i, r)' <=> In(w, i, r)
  BY DEF Hold, In
<1>3. \A r \in Runs : InHand(r)' <=> InHand(r)
  BY <1>2 DEF InHand
<1>4. Apart'
  BY <1>2, ApartShrinks DEF WayInv
<1>5. Unended'
  BY <1>3, UnendedStays DEF WayInv
<1>6. ASSUME Bother' = 0 PROVE CalmInv'
  <2>1. Bother = 0 /\ ~Failing
    BY <1>6, CalmHandles DEF WayInv
  <2>2. UNCHANGED siteVars
    BY <2>1
  <2>3. /\ deleting = "no" /\ row # "gone" /\ late = {}
        /\ \A w \in Workers : wpc[w] # "off" \/ queue[w] # <<>> => w = handle
        /\ spc \notin {"init", "idle"} => held = cached /\ held # 0
        /\ \A r \in Runs : status[r] = "running" => InHand(r)
    BY <2>1 DEF WayInv, CalmInv
  <2>4. QED
    BY <1>3, <2>2, <2>3 DEF CalmInv, siteVars
<1>7. Bother' # 0 => CalmInv'
  BY DEF CalmInv
<1>8. QED
  BY <1>1, <1>4, <1>5, <1>6, <1>7 DEF WayInv

-----------------------------------------------------------------------------
(* The scheduler's pass                                                    *)

\* A pass begins, and goes on to the next task: nothing is in a hand that was not.
LEMMA PassGoesOn ==
    ASSUME SchedInv, WayInv, InitializeNextRun \/ PassBegins \/ Advance PROVE WayInv'
<1>1. [Next]_vars
  BY DEF Next, PassStep
<1>2. HandsTyped
  BY DEF WayInv
<1>3. /\ UNCHANGED <<status, made, queue, wpc, wrun>> /\ (UNCHANGED siteVars \/ Failing)
      /\ cur' \in Tasks \cup {NoTask}
  BY <1>2 DEF InitializeNextRun, PassBegins, Advance, NextOfBatch, HandsTyped, runVars, workVars
<1>4. curRun' \in 0 .. made
  <2>1. curRun' \in {curRun, 0} /\ NumRuns \in Nat
    BY SchedulerAssumption DEF InitializeNextRun, PassBegins, Advance, NextOfBatch
  <2>2. QED
    BY <1>2, <2>1 DEF HandsTyped
<1>5. \A r \in Runs : AtScheduler(r)' <=> AtScheduler(r)
  BY DEF InitializeNextRun, PassBegins, Advance, NextOfBatch, AtScheduler
<1>6. spc' \notin {"init", "idle"} => \/ held' = cached /\ cached # 0
                                      \/ spc \notin {"init", "idle"} /\ held' = held
  BY DEF InitializeNextRun, PassBegins, Advance, NextOfBatch
<1>7. spc' = "waiting" => spc = "waiting" \/ handle # 0
  BY DEF InitializeNextRun, PassBegins, Advance, NextOfBatch
<1>8. UNCHANGED <<status, made, queue, wpc, wrun>>
  BY <1>3
<1>9. UNCHANGED siteVars \/ Failing
  BY <1>3
<1>10. cur' \in Tasks \cup {NoTask}
  BY <1>3
<1>11. [Next]_vars
  BY <1>1
<1>12. QED
  BY <1>11, <1>10, <1>4, <1>5, <1>6, <1>7, <1>8, <1>9, WayStays

\* A run is recorded: it is new, and in the scheduler's hand.
LEMMA RecordKeeps == ASSUME SchedInv, WayInv, NEW t \in Tasks, Record(t) PROVE WayInv'
<1>1. [Next]_vars /\ HandsTyped /\ Apart /\ Unended /\ CalmInv
  BY DEF Next, PassStep, WayInv
<1>2. spc = "next" /\ spc' = "send" /\ cur' = t /\ UNCHANGED <<held, queue, wpc, wrun>>
  BY DEF Record, workVars
<1>3. CASE UNCHANGED <<status, made>> /\ curRun' = 0 /\ (UNCHANGED siteVars \/ Failing)
  <2>1. 0 \notin Runs /\ 0 \in 0 .. made
    BY <1>1, RunsAre DEF HandsTyped
  <2>2. \A r \in Runs : AtScheduler(r)' <=> AtScheduler(r)
    BY <1>2, <1>3, <2>1 DEF AtScheduler
  <2>3. cur' \in Tasks \cup {NoTask} /\ curRun' \in 0 .. made
    BY <1>2, <1>3, <2>1
  <2>4. QED
    BY <1>1, <1>2, <1>3, <2>2, <2>3, WayStays
<1>4. CASE /\ made < NumRuns /\ made' = made + 1 /\ status' = [status EXCEPT ![made'] = "running"]
           /\ curRun' = made' /\ UNCHANGED siteVars
  <2>1. /\ made \in Nat /\ made' \in Runs /\ made' \in 0 .. NumRuns /\ NumRuns \in Nat
        /\ 0 .. made \subseteq 0 .. made' /\ made' \notin 0 .. made
    BY <1>1, <1>4, SchedulerAssumption DEF HandsTyped, Runs
  <2>2. HandsTyped'
    <3>1. status' \in [Runs -> {"absent", "running", "completed", "failed"}]
      BY <1>1, <1>4, <2>1 DEF HandsTyped
    <3>2. wrun' \in [Workers -> 0 .. made']
      BY <1>1, <1>2, <2>1 DEF HandsTyped
    <3>3. curRun' \in 0 .. made' /\ cur' \in Tasks \cup {NoTask}
      BY <1>2, <1>4, <2>1
    <3>4. \A w \in Workers : Len(queue'[w]) <= Slots /\ \A i \in 1 .. Len(queue'[w]) : queue'[w][i].run \in 0 .. made'
      BY <1>1, <1>2, <2>1 DEF HandsTyped
    <3>5. QED
      BY <1>1, <1>2, <2>1, <3>1, <3>2, <3>3, <3>4 DEF HandsTyped
  <2>3. /\ \A r \in Runs, w \in Workers : Hold(w, r)' <=> Hold(w, r)
        /\ \A r \in Runs, w \in Workers, i \in Nat : In(w, i, r)' <=> In(w, i, r)
    BY <1>2 DEF Hold, In
  <2>4. \A w \in Workers : ~Hold(w, made') /\ \A i \in Nat : ~In(w, i, made')
    BY <1>1, <2>1 DEF Hold, In, HandsTyped
  <2>5. \A r \in Runs : AtScheduler(r)' <=> r = made'
    BY <1>2, <1>4 DEF AtScheduler
  <2>6. Apart'
    BY <1>1, <2>3, <2>4, <2>5 DEF Apart
  <2>7. \A r \in Runs : InHand(r)' <=> InHand(r) \/ r = made'
    BY <1>2, <2>3, <2>5 DEF InHand, AtScheduler
  <2>8. /\ status'[made'] = "running"
        /\ \A r \in Runs : r # made' => status'[r] = status[r]
    BY <1>1, <1>4, <2>1 DEF HandsTyped
  <2>9. Unended'
    <3>1. \A r \in Runs : r > made' => r # made' /\ r > made
      BY <1>4, <2>1 DEF Runs
    <3>2. QED
      BY <1>1, <2>7, <2>8, <3>1 DEF Unended
  <2>10. ASSUME Bother' = 0 PROVE CalmInv'
    <3>1. Bother = 0
      BY <1>1, <2>10, CalmHandles
    <3>2. /\ deleting = "no" /\ row # "gone" /\ late = {}
          /\ \A w \in Workers : wpc[w] # "off" \/ queue[w] # <<>> => w = handle
          /\ held = cached /\ held # 0
          /\ \A r \in Runs : status[r] = "running" => InHand(r)
      BY <1>1, <1>2, <3>1 DEF CalmInv
    <3>3. QED
      BY <1>2, <1>4, <2>7, <2>8, <3>2 DEF CalmInv, siteVars
  <2>11. QED
    BY <2>2, <2>6, <2>9, <2>10 DEF WayInv, CalmInv
<1>5. QED
  BY <1>3, <1>4 DEF Record, runVars

\* The run goes into the channel, or stays with the scheduler.
LEMMA SendKeeps == ASSUME SchedInv, WayInv, Send \/ SendWaits PROVE WayInv'
<1>1. [Next]_vars /\ HandsTyped /\ Apart /\ Unended /\ CalmInv /\ SitesTypeOK
  BY DEF Next, PassStep, WayInv, SchedInv, SitesInv
<1>2. /\ spc \in {"send", "waiting"} /\ UNCHANGED siteVars /\ handle' = handle /\ (spc' = "waiting" => handle # 0)
      /\ UNCHANGED <<status, made, cur, curRun, held, wpc, wrun>>
  BY DEF Send, SendWaits, runVars, siteVars
<1>3. CASE UNCHANGED queue /\ spc' \in {"waiting", "fail"}
  <2>1. \A r \in Runs : AtScheduler(r)' <=> AtScheduler(r)
    BY <1>2, <1>3 DEF AtScheduler
  <2>2. cur' \in Tasks \cup {NoTask} /\ curRun' \in 0 .. made
    BY <1>1, <1>2 DEF HandsTyped
  <2>3. QED
    BY <1>1, <1>2, <1>3, <2>1, <2>2, WayStays
<1>4. CASE Room(handle) /\ Put(handle) /\ spc' = "advance" /\ handle # 0
  <2>1. handle \in Workers
    BY <1>1, <1>4, SitesAssumption DEF SitesTypeOK, Workers
  <2>2. /\ queue' \in [Workers -> Seq(Commands)]
        /\ \A w \in Workers : Len(queue'[w]) <= Slots /\ \A i \in 1 .. Len(queue'[w]) : queue'[w][i].run \in 0 .. made
        /\ \A w \in Workers, i \in Nat, r \in Runs :
              In(w, i, r)' <=> In(w, i, r) \/ (w = handle /\ i = Len(queue[handle]) + 1 /\ r = curRun)
    BY <1>1, <1>4, <2>1, PutIs
  <2>3. HandsTyped'
    BY <1>1, <1>2, <2>2 DEF HandsTyped
  <2>4. \A r \in Runs : (AtScheduler(r) <=> r = curRun) /\ ~AtScheduler(r)'
    BY <1>2, <1>4 DEF AtScheduler
  <2>5. \A r \in Runs, w \in Workers : Hold(w, r)' <=> Hold(w, r)
    BY <1>2 DEF Hold
  <2>6. Apart'
    <3>1. ASSUME NEW r \in Runs, NEW v \in Workers, NEW w \in Workers
          PROVE  /\ Hold(v, r)' => (Hold(w, r)' => v = w) /\ \A i \in Nat : ~In(w, i, r)'
                 /\ \A i, j \in Nat : In(v, i, r)' /\ In(w, j, r)' => v = w /\ i = j
      <4>1. CASE r = curRun
        <5>1. AtScheduler(r)
          BY <2>4, <4>1
        <5>2. ~Hold(v, r) /\ ~Hold(w, r) /\ \A i \in Nat : ~In(v, i, r) /\ ~In(w, i, r)
          BY <1>1, <5>1 DEF Apart
        <5>3. ~Hold(v, r)'
          BY <2>5, <5>2
        <5>4. \A i, j \in Nat : In(v, i, r)' /\ In(w, j, r)' => v = w /\ i = j
          BY <2>2, <5>2
        <5>5. QED
          BY <5>3, <5>4
      <4>2. CASE r # curRun
        <5>1. \A i \in Nat : (In(v, i, r)' <=> In(v, i, r)) /\ (In(w, i, r)' <=> In(w, i, r))
          BY <2>2, <4>2
        <5>2. (Hold(v, r)' <=> Hold(v, r)) /\ (Hold(w, r)' <=> Hold(w, r))
          BY <2>5
        <5>3. /\ Hold(v, r) => (Hold(w, r) => v = w) /\ \A i \in Nat : ~In(w, i, r)
              /\ \A i, j \in Nat : In(v, i, r) /\ In(w, j, r) => v = w /\ i = j
          BY <1>1 DEF Apart
        <5>4. QED
          BY <5>1, <5>2, <5>3
      <4>3. QED
        BY <4>1, <4>2
    <3>2. QED
      BY <2>4, <3>1 DEF Apart
  <2>7. Len(queue[handle]) + 1 \in Nat
    BY <1>1, <2>1 DEF HandsTyped
  <2>8. \A r \in Runs : InHand(r)' <=> InHand(r)
    <3>1. ASSUME NEW r \in Runs, InHand(r) PROVE InHand(r)'
      BY <2>1, <2>2, <2>4, <2>5, <2>7, <3>1 DEF InHand
    <3>2. ASSUME NEW r \in Runs, InHand(r)' PROVE InHand(r)
      BY <2>1, <2>2, <2>4, <2>5, <2>7, <3>2 DEF InHand
    <3>3. QED
      BY <3>1, <3>2
  <2>9. Unended'
    BY <1>1, <1>2, <2>8, UnendedStays
  <2>10. ASSUME Bother' = 0 PROVE CalmInv'
    <3>1. Bother = 0
      BY <1>1, <2>10, CalmHandles
    <3>2. /\ deleting = "no" /\ row # "gone" /\ late = {}
          /\ \A w \in Workers : wpc[w] # "off" \/ queue[w] # <<>> => w = handle
          /\ held = cached /\ held # 0
          /\ \A r \in Runs : status[r] = "running" => InHand(r)
      BY <1>1, <1>2, <3>1 DEF CalmInv
    <3>3. \A w \in Workers : w # handle => queue'[w] = queue[w]
      BY <1>1, <1>4, <2>1 DEF Put, HandsTyped
    <3>4. QED
      BY <1>2, <2>8, <3>2, <3>3 DEF CalmInv, siteVars
  <2>11. QED
    BY <2>3, <2>6, <2>9, <2>10 DEF WayInv, CalmInv
<1>5. spc = "waiting" => handle # 0
  BY <1>1 DEF HandsTyped
<1>6. QED
  BY <1>3, <1>4, <1>5 DEF Send, SendWaits

\* The scheduler's verdict ends the run that could not be sent, and lets go of it.
LEMMA MarkFailedKeeps == ASSUME SchedInv, WayInv, MarkFailed PROVE WayInv'
<1>1. [Next]_vars /\ HandsTyped /\ Apart /\ Unended /\ CalmInv
  BY DEF Next, PassStep, WayInv
<1>2. /\ spc = "fail" /\ spc' = "advance" /\ (UNCHANGED siteVars \/ Failing)
      /\ UNCHANGED <<made, cur, curRun, held, queue, wpc, wrun>>
      /\ \A r \in Runs : ~AtScheduler(r)' /\ (AtScheduler(r) <=> r = curRun)
  BY DEF MarkFailed, SetStatus, workVars, AtScheduler
<1>3. \/ status' = status
      \/ curRun \in Runs /\ status[curRun] # "absent" /\ status' = [status EXCEPT ![curRun] = "failed"]
  BY <1>1, RunsAre DEF MarkFailed, SetStatus, HandsTyped
<1>4. /\ status' \in [Runs -> {"absent", "running", "completed", "failed"}]
      /\ \A r \in Runs : status'[r] = status[r] \/ (r = curRun /\ status[r] # "absent" /\ status'[r] = "failed")
  BY <1>1, <1>3 DEF HandsTyped
<1>5. handle' = handle
  BY <1>2 DEF siteVars, Failing
<1>6. HandsTyped'
  BY <1>1, <1>2, <1>4, <1>5 DEF HandsTyped
<1>7. /\ \A r \in Runs, w \in Workers : Hold(w, r)' <=> Hold(w, r)
      /\ \A r \in Runs, w \in Workers, i \in Nat : In(w, i, r)' <=> In(w, i, r)
  BY <1>2 DEF Hold, In
<1>8. Apart'
  BY <1>1, <1>2, <1>7, ApartShrinks
<1>9. \A r \in Runs : InHand(r)' <=> InHand(r) /\ r # curRun
  <2>1. ASSUME NEW r \in Runs, r = curRun PROVE ~InHand(r)'
    <3>1. AtScheduler(r)
      BY <1>2, <2>1
    <3>2. \A w \in Workers : ~Hold(w, r) /\ \A i \in Nat : ~In(w, i, r)
      BY <1>1, <3>1 DEF Apart
    <3>3. QED
      BY <1>2, <1>7, <3>2 DEF InHand
  <2>2. ASSUME NEW r \in Runs, r # curRun PROVE InHand(r)' <=> InHand(r)
    BY <1>2, <1>7, <2>2 DEF InHand
  <2>3. QED
    BY <2>1, <2>2
<1>10. Unended'
  BY <1>1, <1>2, <1>4, <1>9, UnendedStays
<1>11. ASSUME Bother' = 0 PROVE CalmInv'
  <2>1. Bother = 0 /\ ~Failing /\ Usable(held)
    BY <1>1, <1>2, <1>11, CalmHandles
  <2>2. /\ deleting = "no" /\ row # "gone" /\ late = {}
        /\ \A w \in Workers : wpc[w] # "off" \/ queue[w] # <<>> => w = handle
        /\ held = cached /\ held # 0
        /\ \A r \in Runs : status[r] = "running" => InHand(r)
    BY <1>1, <1>2, <2>1 DEF CalmInv
  <2>3. curRun \in Runs => status'[curRun] # "running"
    <3>1. ASSUME curRun \in Runs PROVE status'[curRun] # "running"
      <4>1. status' = IF Usable(held) /\ status[curRun] # "absent"
                  THEN [status EXCEPT ![curRun] = "failed"] ELSE status
        BY <1>1, <2>1, <3>1, RunsAre DEF MarkFailed, SetStatus
      <4>2. QED
        BY <1>1, <2>1, <3>1, <4>1 DEF HandsTyped
    <3>2. QED
      BY <3>1
  <2>4. \A r \in Runs : status'[r] = "running" => InHand(r)'
    BY <1>4, <1>9, <2>2, <2>3
  <2>5. UNCHANGED siteVars
    BY <1>2, <2>1
  <2>6. QED
    BY <1>2, <2>2, <2>4, <2>5 DEF CalmInv, siteVars
<1>12. QED
  BY <1>6, <1>8, <1>10, <1>11 DEF WayInv, CalmInv

-----------------------------------------------------------------------------
(* A worker                                                                *)

\* What a worker's step leaves alone.
LEMMA WorkerCalm ==
    ASSUME SchedInv, CalmInv, [Next]_vars, Bother' = 0, UNCHANGED siteVars \/ Failing, UNCHANGED <<spc, held>>,
           \A w \in Workers : wpc[w] # "off" \/ queue[w] # <<>> => w = handle,
           \A w \in Workers : wpc'[w] # "off" \/ queue'[w] # <<>> => wpc[w] # "off" \/ queue[w] # <<>>,
           \A r \in Runs : status'[r] = "running" => InHand(r)'
    PROVE  CalmInv'
<1>1. Bother = 0 /\ UNCHANGED siteVars
  BY CalmHandles
<1>2. /\ deleting = "no" /\ row # "gone" /\ late = {}
      /\ spc \notin {"init", "idle"} => held = cached /\ held # 0
  BY <1>1 DEF CalmInv
<1>3. QED
  BY <1>1, <1>2 DEF CalmInv, siteVars

\* The run moves from the head of the channel to the worker.
LEMMA TakeKeeps == ASSUME SchedInv, WayInv, NEW w \in Workers, Take(w) PROVE WayInv'
<1>1. [Next]_vars /\ HandsTyped /\ Apart /\ Unended /\ CalmInv
  BY DEF Next, WorkerStep, WayInv
<1> DEFINE h == Head(queue[w]).run
<1>2. /\ wpc[w] = "free" /\ queue[w] # <<>> /\ queue' = [queue EXCEPT ![w] = Tail(@)]
      /\ wrun' = [wrun EXCEPT ![w] = h]
      /\ UNCHANGED siteVars /\ UNCHANGED <<status, made, spc, cur, curRun, held, handle>>
  BY DEF Take, runVars, passVars, siteVars
<1>3. PICK p \in {"native", "prompt"} : wpc' = [wpc EXCEPT ![w] = p]
  BY DEF Take
<1>4. /\ queue' \in [Workers -> Seq(Commands)] /\ In(w, 1, h) /\ h \in 0 .. made
      /\ \A v \in Workers : Len(queue'[v]) <= Slots /\ \A i \in 1 .. Len(queue'[v]) : queue'[v][i].run \in 0 .. made
  BY <1>1, <1>2, TakeIs
<1>5. \A v \in Workers, i \in Nat, r \in Runs :
         In(v, i, r)' <=> \/ v # w /\ In(v, i, r)
                          \/ v = w /\ i >= 1 /\ In(w, i + 1, r)
  BY <1>1, <1>2, TakeIs
<1> HIDE DEF h
<1>6. HandsTyped'
  <2>1. wpc' \in [Workers -> {"off", "free", "building", "count"} \cup Working] /\ wrun' \in [Workers -> 0 .. made]
    BY <1>1, <1>2, <1>3, <1>4 DEF HandsTyped, Working
  <2>2. QED
    BY <1>1, <1>2, <1>4, <2>1 DEF HandsTyped
<1>7. \A v \in Workers, r \in Runs : Hold(v, r)' <=> (v # w /\ Hold(v, r)) \/ (v = w /\ r = h)
  BY <1>1, <1>2, <1>3 DEF Hold, HandsTyped, Working
<1>8. \A r \in Runs : AtScheduler(r)' <=> AtScheduler(r)
  BY <1>2 DEF AtScheduler
<1>9. h \in Runs => /\ ~AtScheduler(h) /\ \A v \in Workers : ~Hold(v, h)
                    /\ \A v \in Workers, i \in Nat : In(v, i, h) => v = w /\ i = 1
  BY <1>1, <1>4 DEF Apart
<1>10. \A r \in Runs : ~Hold(w, r)
  BY <1>2 DEF Hold, Working
<1>11. \A v \in Workers, i \in Nat, r \in Runs : In(v, i, r)' => r # h /\ \E j \in Nat : In(v, j, r)
  <2> SUFFICES ASSUME NEW v \in Workers, NEW i \in Nat, NEW r \in Runs, In(v, i, r)'
               PROVE  r # h /\ \E j \in Nat : In(v, j, r)
    OBVIOUS
  <2>1. CASE v # w /\ In(v, i, r)
    BY <1>9, <2>1
  <2>2. CASE v = w /\ i >= 1 /\ In(w, i + 1, r)
    <3>1. i + 1 \in Nat /\ i + 1 # 1
      BY <2>2
    <3>2. QED
      BY <1>9, <2>2, <3>1
  <2>3. QED
    BY <1>5, <2>1, <2>2
<1>12. Apart'
  <2>1. ASSUME NEW r \in Runs, NEW v \in Workers, NEW u \in Workers
        PROVE  /\ AtScheduler(r)' => ~Hold(u, r)' /\ \A i \in Nat : ~In(u, i, r)'
               /\ Hold(v, r)' => (Hold(u, r)' => v = u) /\ \A i \in Nat : ~In(u, i, r)'
    BY <1>1, <1>7, <1>8, <1>9, <1>11, <2>1 DEF Apart
  <2>2. ASSUME NEW r \in Runs, NEW v \in Workers, NEW u \in Workers, NEW i \in Nat, NEW j \in Nat,
               In(v, i, r)', In(u, j, r)'
        PROVE  v = u /\ i = j
    <3>1. PICK k \in Nat : In(v, k, r) /\ k = IF v = w THEN i + 1 ELSE i
      BY <1>5, <2>2
    <3>2. PICK l \in Nat : In(u, l, r) /\ l = IF u = w THEN j + 1 ELSE j
      BY <1>5, <2>2
    <3>3. v = u /\ k = l
      BY <1>1, <3>1, <3>2 DEF Apart
    <3>4. QED
      BY <3>1, <3>2, <3>3
  <2>3. QED
    BY <2>1, <2>2 DEF Apart
<1>13. \A r \in Runs : InHand(r)' <=> InHand(r)
  <2>1. ASSUME NEW r \in Runs, InHand(r)' PROVE InHand(r)
    BY <1>4, <1>7, <1>8, <1>11, <2>1 DEF InHand
  <2>2. ASSUME NEW r \in Runs, InHand(r) PROVE InHand(r)'
    <3>1. CASE AtScheduler(r)
      BY <1>8, <3>1 DEF InHand
    <3>2. ASSUME NEW v \in Workers, Hold(v, r) PROVE InHand(r)'
      BY <1>7, <1>10, <3>2 DEF InHand
    <3>3. ASSUME NEW v \in Workers, NEW i \in Nat, In(v, i, r) PROVE InHand(r)'
      <4>1. CASE v # w
        BY <1>5, <3>3, <4>1 DEF InHand
      <4>2. CASE v = w /\ i = 1
        <5>1. r = h
          BY <3>3, <4>2, <1>2 DEF In, h
        <5>2. QED
          BY <1>7, <5>1 DEF InHand
      <4>3. CASE v = w /\ i # 1
        <5>1. i >= 1 /\ i - 1 \in Nat /\ i - 1 >= 1 /\ (i - 1) + 1 = i
          BY <3>3, <4>3 DEF In
        <5>2. In(w, i - 1, r)'
          BY <1>5, <3>3, <4>3, <5>1
        <5>3. QED
          BY <5>1, <5>2 DEF InHand
      <4>4. QED
        BY <4>1, <4>2, <4>3
    <3>4. QED
      BY <2>2, <3>1, <3>2, <3>3 DEF InHand
  <2>3. QED
    BY <2>1, <2>2
<1>14. Unended'
  BY <1>1, <1>2, <1>13, UnendedStays
<1>15. ASSUME Bother' = 0 PROVE CalmInv'
  <2>1. Bother = 0
    BY <1>1, <1>15, CalmHandles
  <2>2. /\ \A v \in Workers : wpc[v] # "off" \/ queue[v] # <<>> => v = handle
        /\ \A r \in Runs : status[r] = "running" => InHand(r)
    BY <1>1, <2>1 DEF CalmInv
  <2>3. \A v \in Workers : wpc'[v] # "off" \/ queue'[v] # <<>> => wpc[v] # "off" \/ queue[v] # <<>>
    BY <1>1, <1>2, <1>3 DEF HandsTyped
  <2>4. \A r \in Runs : status'[r] = "running" => InHand(r)'
    BY <1>2, <1>13, <2>2
  <2>5. QED
    BY <1>1, <1>2, <1>15, <2>2, <2>3, <2>4, WorkerCalm
<1>16. QED
  BY <1>6, <1>12, <1>14, <1>15 DEF WayInv, CalmInv

\* A worker goes on with what it has.
LEMMA WorkerGoesOn ==
    ASSUME SchedInv, WayInv, [Next]_vars, UNCHANGED <<status, made, spc, cur, curRun, held, queue>>,
           UNCHANGED siteVars \/ Failing, NEW w \in Workers, wpc[w] # "off",
           NEW p \in {"free", "building"} \cup Working, wpc' = [wpc EXCEPT ![w] = p],
           NEW n \in 0 .. made, wrun' = [wrun EXCEPT ![w] = n],
           \A r \in Runs : p \in Working /\ n = r <=> Hold(w, r)
    PROVE  WayInv'
<1>1. HandsTyped /\ Apart /\ Unended /\ CalmInv /\ handle' = handle
  BY DEF WayInv, siteVars, Failing
<1>2. wpc' \in [Workers -> {"off", "free", "building", "count"} \cup Working] /\ wrun' \in [Workers -> 0 .. made]
  BY <1>1 DEF HandsTyped, Working
<1>3. HandsTyped'
  BY <1>1, <1>2 DEF HandsTyped
<1>4. \A r \in Runs, v \in Workers : Hold(v, r)' <=> Hold(v, r)
  BY <1>1 DEF Hold, HandsTyped
<1>5. /\ \A r \in Runs, v \in Workers, i \in Nat : In(v, i, r)' <=> In(v, i, r)
      /\ \A r \in Runs : AtScheduler(r)' <=> AtScheduler(r)
  BY DEF In, AtScheduler
<1>6. Apart'
  BY <1>1, <1>4, <1>5, ApartShrinks
<1>7. \A r \in Runs : InHand(r)' <=> InHand(r)
  BY <1>4, <1>5 DEF InHand
<1>8. Unended'
  BY <1>1, <1>7, UnendedStays
<1>9. ASSUME Bother' = 0 PROVE CalmInv'
  <2>1. Bother = 0
    BY <1>1, <1>9, CalmHandles
  <2>2. /\ \A v \in Workers : wpc[v] # "off" \/ queue[v] # <<>> => v = handle
        /\ \A r \in Runs : status'[r] = "running" => InHand(r)'
    BY <1>1, <1>7, <2>1 DEF CalmInv
  <2>3. \A v \in Workers : wpc'[v] # "off" \/ queue'[v] # <<>> => wpc[v] # "off" \/ queue[v] # <<>>
    BY <1>1 DEF HandsTyped
  <2>4. QED
    BY <1>1, <1>9, <2>2, <2>3, WorkerCalm
<1>10. QED
  BY <1>3, <1>6, <1>8, <1>9 DEF WayInv, CalmInv

\* A task is run, its result counted, and builds begin and end.
LEMMA WorkKeeps ==
    ASSUME SchedInv, WayInv, NEW w \in Workers,
           ExecuteNativeAction(w) \/ ExecuteScheduledTask(w) \/ Count(w) \/ BuildBegins(w) \/ BuildEnds(w)
    PROVE  WayInv'
<1>1. [Next]_vars /\ HandsTyped
  BY DEF Next, WorkerStep, WayInv
<1>2. /\ UNCHANGED <<status, made, spc, cur, curRun, held, queue>> /\ (UNCHANGED siteVars \/ Failing)
      /\ wpc[w] \in {"native", "prompt", "count", "free", "building"}
  BY DEF ExecuteNativeAction, ExecuteScheduledTask, Ran, Count, BuildBegins, BuildEnds, runVars, passVars
<1>3. wrun[w] \in 0 .. made /\ 0 \in 0 .. made /\ 0 \notin Runs /\ wrun = [wrun EXCEPT ![w] = wrun[w]]
  BY <1>1, RunsAre DEF HandsTyped
<1>4. \E p \in {"free", "building"} \cup Working, n \in 0 .. made :
         /\ wpc' = [wpc EXCEPT ![w] = p] /\ wrun' = [wrun EXCEPT ![w] = n]
         /\ \A r \in Runs : p \in Working /\ n = r <=> Hold(w, r)
  <2>1. CASE ExecuteNativeAction(w) \/ ExecuteScheduledTask(w)
    <3>1. wpc[w] \in Working
      BY <2>1 DEF ExecuteNativeAction, ExecuteScheduledTask, Working
    <3>2. \/ wrun[w] = 0 /\ wpc' = [wpc EXCEPT ![w] = "free"] /\ wrun' = [wrun EXCEPT ![w] = 0]
          \/ wpc' = [wpc EXCEPT ![w] = "finalize"] /\ wrun' = wrun
      BY <2>1 DEF ExecuteNativeAction, ExecuteScheduledTask, Ran, Done
    <3>3. CASE wrun[w] = 0 /\ wpc' = [wpc EXCEPT ![w] = "free"] /\ wrun' = [wrun EXCEPT ![w] = 0]
      <4>1. \A r \in Runs : ~Hold(w, r) /\ "free" \notin Working
        BY <1>3, <3>3 DEF Hold, Working
      <4>2. QED
        BY <1>3, <3>3, <4>1
    <3>4. CASE wpc' = [wpc EXCEPT ![w] = "finalize"] /\ wrun' = wrun
      <4>1. \A r \in Runs : "finalize" \in Working /\ wrun[w] = r <=> Hold(w, r)
        BY <3>1 DEF Hold, Working
      <4>2. wrun' = [wrun EXCEPT ![w] = wrun[w]]
        BY <1>3, <3>4
      <4>3. QED
        BY <1>3, <3>4, <4>1, <4>2 DEF Working
    <3>5. QED
      BY <3>2, <3>3, <3>4
  <2>2. CASE Count(w)
    <3>1. wpc[w] = "count" /\ wpc' = [wpc EXCEPT ![w] = "free"] /\ wrun' = [wrun EXCEPT ![w] = 0]
      BY <2>2 DEF Count, Done
    <3>2. \A r \in Runs : ~Hold(w, r) /\ "free" \notin Working
      BY <3>1 DEF Hold, Working
    <3>3. QED
      BY <1>3, <3>1, <3>2
  <2>3. CASE BuildBegins(w) \/ BuildEnds(w)
    <3>1. PICK p \in {"free", "building"} : wpc' = [wpc EXCEPT ![w] = p]
      BY <2>3 DEF BuildBegins, BuildEnds
    <3>2. wpc[w] \in {"free", "building"} /\ wrun' = [wrun EXCEPT ![w] = wrun[w]]
      BY <1>3, <2>3 DEF BuildBegins, BuildEnds
    <3>3. \A r \in Runs : ~Hold(w, r) /\ p \notin Working
      BY <3>2 DEF Hold, Working
    <3>4. QED
      BY <1>3, <3>1, <3>2, <3>3
  <2>4. QED
    BY <2>1, <2>2, <2>3
<1>5. wpc[w] # "off" /\ (UNCHANGED siteVars \/ Failing) /\ UNCHANGED <<status, made, spc, cur, curRun, held, queue>>
  BY <1>2
<1>6. QED
  BY <1>1, <1>4, <1>5, WorkerGoesOn

\* The result ends the run, and the worker lets go of it.
LEMMA FinalizeKeeps == ASSUME SchedInv, WayInv, NEW w \in Workers, Finalize(w) PROVE WayInv'
<1>1. [Next]_vars /\ HandsTyped /\ Apart /\ Unended /\ CalmInv
  BY DEF Next, WorkerStep, WayInv
<1> DEFINE n == wrun[w]
           res == IF wok[w] THEN "completed" ELSE "failed"
<1>2. /\ wpc[w] = "finalize" /\ wpc' = [wpc EXCEPT ![w] = "count"] /\ SetStatus(n, res, wdb[w])
      /\ (UNCHANGED siteVars \/ Failing) /\ UNCHANGED <<made, spc, cur, curRun, held, queue, wrun>>
  BY DEF Finalize, SetStatus, passVars
<1>3. \/ status' = status
      \/ n \in Runs /\ status[n] # "absent" /\ status' = [status EXCEPT ![n] = res]
  BY <1>1, <1>2 DEF SetStatus, HandsTyped
<1>4. /\ res \in {"completed", "failed"}
      /\ status' \in [Runs -> {"absent", "running", "completed", "failed"}]
      /\ \A r \in Runs :
            status'[r] = status[r] \/ (r = n /\ status[r] # "absent" /\ status'[r] \in {"completed", "failed"})
  BY <1>1, <1>3 DEF HandsTyped
<1>5. handle' = handle
  BY <1>2 DEF siteVars, Failing
<1>6. HandsTyped'
  BY <1>1, <1>2, <1>4, <1>5 DEF HandsTyped
<1> HIDE DEF res
<1>7. /\ \A r \in Runs, v \in Workers : Hold(v, r)' <=> v # w /\ Hold(v, r)
      /\ \A r \in Runs, v \in Workers, i \in Nat : In(v, i, r)' <=> In(v, i, r)
      /\ \A r \in Runs : AtScheduler(r)' <=> AtScheduler(r)
      /\ \A r \in Runs : Hold(w, r) <=> r = n
  BY <1>1, <1>2 DEF Hold, In, AtScheduler, HandsTyped, Working
<1>8. Apart'
  BY <1>1, <1>7, ApartShrinks
<1>9. \A r \in Runs : InHand(r)' <=> InHand(r) /\ r # n
  <2>1. ASSUME NEW r \in Runs, r = n PROVE ~InHand(r)'
    <3>1. Hold(w, r)
      BY <1>7, <2>1
    <3>2. ~AtScheduler(r) /\ \A v \in Workers : (Hold(v, r) => v = w) /\ \A i \in Nat : ~In(v, i, r)
      BY <1>1, <3>1 DEF Apart
    <3>3. QED
      BY <1>7, <3>2 DEF InHand
  <2>2. ASSUME NEW r \in Runs, r # n PROVE InHand(r)' <=> InHand(r)
    BY <1>7, <2>2 DEF InHand
  <2>3. QED
    BY <2>1, <2>2
<1>10. Unended'
  BY <1>1, <1>2, <1>4, <1>9, UnendedStays
<1>11. ASSUME Bother' = 0 PROVE CalmInv'
  <2>1. Bother = 0 /\ ~Failing /\ Usable(wdb[w])
    BY <1>1, <1>2, <1>11, CalmHandles
  <2>2. /\ \A v \in Workers : wpc[v] # "off" \/ queue[v] # <<>> => v = handle
        /\ \A r \in Runs : status[r] = "running" => InHand(r)
    BY <1>1, <2>1 DEF CalmInv
  <2>3. ASSUME n \in Runs PROVE status'[n] # "running"
    <3>1. status' = IF Usable(wdb[w]) /\ status[n] # "absent" THEN [status EXCEPT ![n] = res] ELSE status
      BY <1>2, <2>1 DEF SetStatus
    <3>2. QED
      BY <1>1, <1>4, <2>1, <2>3, <3>1 DEF HandsTyped
  <2>4. \A r \in Runs : status'[r] = "running" => InHand(r)'
    BY <1>4, <1>9, <2>2, <2>3
  <2>5. \A v \in Workers : wpc'[v] # "off" \/ queue'[v] # <<>> => wpc[v] # "off" \/ queue[v] # <<>>
    BY <1>1, <1>2 DEF HandsTyped
  <2>6. QED
    BY <1>1, <1>2, <1>11, <2>2, <2>4, <2>5, WorkerCalm
<1>12. QED
  BY <1>6, <1>8, <1>10, <1>11 DEF WayInv, CalmInv

\* A stopped worker loses what is in its channel: only a stop can have come to it.
LEMMA LeaveKeeps == ASSUME SchedInv, WayInv, NEW w \in Workers, Leave(w) PROVE WayInv'
<1>1. [Next]_vars /\ HandsTyped /\ Apart /\ Unended /\ CalmInv
  BY DEF Next, WayInv
<1>2. /\ wpc[w] \in {"free", "building"} /\ handle # w /\ wpc' = [wpc EXCEPT ![w] = "off"]
      /\ queue' = [queue EXCEPT ![w] = <<>>] /\ UNCHANGED siteVars
      /\ UNCHANGED <<status, made, spc, cur, curRun, held, wrun, handle>>
  BY DEF Leave, runVars, passVars, siteVars
<1>3. HandsTyped'
  <2>1. wpc' \in [Workers -> {"off", "free", "building", "count"} \cup Working]
    BY <1>1, <1>2 DEF HandsTyped
  <2>2. queue' \in [Workers -> Seq(Commands)]
    BY <1>1, <1>2 DEF HandsTyped
  <2>3. ASSUME NEW v \in Workers
        PROVE  Len(queue'[v]) <= Slots /\ \A i \in 1 .. Len(queue'[v]) : queue'[v][i].run \in 0 .. made
    BY <1>1, <1>2, SchedulerAssumption DEF HandsTyped
  <2>4. QED
    BY <1>1, <1>2, <2>1, <2>2, <2>3 DEF HandsTyped
<1>4. \A r \in Runs, v \in Workers : Hold(v, r)' => Hold(v, r)
  BY <1>1, <1>2 DEF Hold, HandsTyped, Working
<1>5. \A r \in Runs, v \in Workers, i \in Nat : In(v, i, r)' => In(v, i, r)
  BY <1>1, <1>2 DEF In, HandsTyped
<1>6. \A r \in Runs : AtScheduler(r)' <=> AtScheduler(r)
  BY <1>2 DEF AtScheduler
<1>7. Apart'
  BY <1>1, <1>4, <1>5, <1>6, ApartShrinks
<1>8. \A r \in Runs : InHand(r)' => InHand(r)
  BY <1>4, <1>5, <1>6 DEF InHand
<1>9. Unended'
  BY <1>1, <1>2, <1>8, UnendedStays
<1>10. Bother' # 0
  <2>1. ASSUME Bother' = 0 PROVE FALSE
    BY <1>1, <1>2, <2>1, CalmHandles
  <2>2. QED
    BY <2>1
<1>11. QED
  BY <1>3, <1>7, <1>9, <1>10 DEF WayInv, CalmInv

-----------------------------------------------------------------------------
(* Edits, and the site underneath                                          *)

\* Edits that leave the runs alone.
LEMMA EditsKeep ==
    ASSUME SchedInv, WayInv,
           \/ \E t \in Tasks : \/ CreateTask(t) \/ UpdateTask(t) \/ UpdateNextRun(t) \/ ToggleTaskRead(t)
                               \/ RunNow(t) \/ TimePasses(t)
           \/ ToggleTaskWrite \/ UNCHANGED vars
    PROVE  WayInv'
<1>1. [Next]_vars /\ HandsTyped
  BY DEF Next, WayInv
<1>2. UNCHANGED <<siteVars, runVars, passVars, workVars>>
  BY DEF CreateTask, UpdateTask, UpdateNextRun, ToggleTaskRead, RunNow, TimePasses, ToggleTaskWrite,
     EditOthers, vars, schedVars
<1>3. /\ UNCHANGED siteVars /\ UNCHANGED <<status, made, queue, wpc, wrun>>
      /\ UNCHANGED <<spc, cur, curRun, held>>
  BY <1>2 DEF runVars, passVars, workVars
<1>4. /\ \A r \in Runs : AtScheduler(r)' <=> AtScheduler(r)
      /\ cur' \in Tasks \cup {NoTask} /\ curRun' \in 0 .. made
  BY <1>1, <1>3 DEF AtScheduler, HandsTyped
<1>5. UNCHANGED <<status, made, queue, wpc, wrun>> /\ (UNCHANGED siteVars \/ Failing)
  BY <1>3
<1>6. spc' \notin {"init", "idle"} => spc \notin {"init", "idle"} /\ held' = held
  BY <1>3
<1>7. spc' = "waiting" => spc = "waiting"
  BY <1>3
<1>8. QED
  BY <1>1, <1>4, <1>5, <1>6, <1>7, WayStays

\* The runs of a deleted task go, the hands keep what they have.
LEMMA DeleteTaskKeeps == ASSUME SchedInv, WayInv, NEW t \in Tasks, DeleteTask(t) PROVE WayInv'
<1>1. [Next]_vars /\ HandsTyped /\ Apart /\ Unended /\ CalmInv
  BY DEF Next, WayInv
<1>2. /\ status' = [r \in Runs |-> IF of[r] = t THEN "absent" ELSE status[r]] /\ UNCHANGED siteVars
      /\ UNCHANGED <<made, spc, cur, curRun, held, queue, wpc, wrun, handle>>
  BY DEF DeleteTask, passVars, workVars, siteVars
<1>3. HandsTyped'
  BY <1>1, <1>2 DEF HandsTyped
<1>4. /\ \A r \in Runs, v \in Workers : Hold(v, r)' <=> Hold(v, r)
      /\ \A r \in Runs, v \in Workers, i \in Nat : In(v, i, r)' <=> In(v, i, r)
      /\ \A r \in Runs : AtScheduler(r)' <=> AtScheduler(r)
  BY <1>2 DEF Hold, In, AtScheduler
<1>5. Apart'
  BY <1>1, <1>4, ApartShrinks
<1>6. \A r \in Runs : InHand(r)' <=> InHand(r)
  BY <1>4 DEF InHand
<1>7. Unended'
  BY <1>1, <1>2, <1>6, UnendedStays
<1>8. ASSUME Bother' = 0 PROVE CalmInv'
  <2>1. Bother = 0
    BY <1>1, <1>8, CalmHandles
  <2>2. /\ \A v \in Workers : wpc[v] # "off" \/ queue[v] # <<>> => v = handle
        /\ \A r \in Runs : status[r] = "running" => InHand(r)
    BY <1>1, <2>1 DEF CalmInv
  <2>3. \A r \in Runs : status'[r] = "running" => InHand(r)'
    BY <1>2, <1>6, <2>2
  <2>4. QED
    BY <1>1, <1>2, <1>8, <2>2, <2>3, WorkerCalm
<1>9. QED
  BY <1>3, <1>5, <1>7, <1>8 DEF WayInv, CalmInv

\* The site's own steps: a worker more, a process less, or a directory less.
LEMMA SiteKeepsWay == ASSUME SchedInv, WayInv, SiteStep PROVE WayInv'
<1>1. [Next]_vars /\ HandsTyped /\ Apart /\ Unended /\ CalmInv /\ SitesTypeOK
  BY DEF Next, WayInv, SchedInv, SitesInv
<1>2. made' = made /\ NumRuns \in Nat /\ Slots \in Nat
      /\ (status' = status \/ status' = [r \in Runs |-> "absent"])
  BY SchedulerAssumption DEF SiteStep, runVars
<1>3. /\ status' \in [Runs -> {"absent", "running", "completed", "failed"}]
      /\ \A r \in Runs : status'[r] \in {status[r], "absent"}
  BY <1>1, <1>2 DEF HandsTyped
<1>4. CASE up'
  <2>1. /\ wpc' = [w \in Workers |-> IF w \in started + 1 .. started' THEN "free" ELSE wpc[w]]
        /\ UNCHANGED <<spc, cur, curRun, held, queue, wrun>> /\ (spc = "waiting" => handle' = handle)
    BY <1>4 DEF SiteStep, passVars
  <2>2. HandsTyped'
    BY <1>1, <1>2, <1>3, <2>1 DEF HandsTyped
  <2>3. /\ \A r \in Runs, v \in Workers : Hold(v, r)' => Hold(v, r)
        /\ \A r \in Runs, v \in Workers, i \in Nat : In(v, i, r)' <=> In(v, i, r)
        /\ \A r \in Runs : AtScheduler(r)' <=> AtScheduler(r)
    BY <1>1, <2>1 DEF Hold, In, AtScheduler, HandsTyped, Working
  <2>4. Apart'
    BY <1>1, <2>3, ApartShrinks
  <2>5. \A r \in Runs : InHand(r)' => InHand(r)
    BY <2>3 DEF InHand
  <2>6. Unended'
    BY <1>1, <1>2, <1>3, <2>5, UnendedStays
  <2>7. ASSUME Bother' = 0 PROVE CalmInv'
    <3>1. Bother = 0
      BY <1>1, <2>7, CalmHandles
    <3>2. /\ \A v \in Workers : wpc[v] # "off" \/ queue[v] # <<>> => v = handle
          /\ \A r \in Runs : status[r] = "running" => InHand(r)
          /\ spc \notin {"init", "idle"} => held = cached /\ held # 0
      BY <1>1, <3>1 DEF CalmInv
    <3>3. /\ deleting' = "no" /\ row' # "gone" /\ late' = {}
          /\ \/ handle' = handle /\ started' = started
             \/ handle = 0 /\ handle' = started + 1 /\ started' = started + 1
          /\ cached # 0 => cached' = cached
      BY <1>1, <2>7, SiteCalm
    <3>4. started \in Nat /\ \A v \in Workers : v # 0
      BY <1>1, SitesAssumption DEF SitesTypeOK, Workers
    <3>5. \A v \in Workers : v \in started + 1 .. started' <=> started' # started /\ v = handle'
      BY <3>3, <3>4 DEF Workers
    <3>6. \A v \in Workers : wpc[v] # "off" => wpc'[v] = wpc[v] /\ v = handle'
      BY <2>1, <3>2, <3>3, <3>4, <3>5
    <3>7. \A v \in Workers : wpc'[v] # "off" \/ queue'[v] # <<>> => v = handle'
      BY <2>1, <3>2, <3>3, <3>4, <3>5, <3>6
    <3>8. \A r \in Runs, v \in Workers : Hold(v, r) => Hold(v, r)'
      BY <2>1, <3>6 DEF Hold, Working
    <3>9. \A r \in Runs : InHand(r) => InHand(r)'
      BY <2>3, <3>8 DEF InHand
    <3>10. \A r \in Runs : status'[r] = "running" => InHand(r)'
      BY <1>3, <3>2, <3>9
    <3>11. QED
      BY <2>1, <3>2, <3>3, <3>7, <3>10 DEF CalmInv
  <2>8. QED
    BY <2>2, <2>4, <2>6, <2>7 DEF WayInv, CalmInv
<1>5. CASE ~up'
  <2>1. /\ wpc' = [w \in Workers |-> "off"] /\ queue' = [w \in Workers |-> <<>>] /\ spc' = "init"
        /\ curRun' = 0 /\ cur' = NoTask /\ wrun' = [w \in Workers |-> 0]
    BY <1>5 DEF SiteStep
  <2>2. HandsTyped'
    <3>1. queue' \in [Workers -> Seq(Commands)] /\ \A w \in Workers : Len(queue'[w]) <= Slots /\ Len(queue'[w]) = 0
      BY <1>2, <2>1
    <3>2. wrun' \in [Workers -> 0 .. made] /\ curRun' \in 0 .. made
      BY <1>1, <1>2, <2>1 DEF HandsTyped
    <3>3. QED
      BY <1>1, <1>2, <1>3, <2>1, <3>1, <3>2 DEF HandsTyped
  <2>3. \A r \in Runs : /\ ~AtScheduler(r)'
                        /\ \A v \in Workers : ~Hold(v, r)' /\ \A i \in Nat : ~In(v, i, r)'
    BY <2>1 DEF AtScheduler, Hold, In, Working
  <2>4. Apart'
    BY <2>3 DEF Apart
  <2>5. \A r \in Runs : ~InHand(r)'
    BY <2>3 DEF InHand
  <2>6. Unended'
    BY <1>1, <1>2, <1>3, <2>5, UnendedStays
  <2>7. Halt
    BY <1>5 DEF SiteStep, SitesNext, CreateRow, CreateDb, CreateUndo, CreateEvent, DeleteStop, DeleteRow, DeleteFiles,
       AdminRequest, BrainStart, BrainStop, ToggleRead, ToggleWrite, SweepList, SweepOpen, Restart
  <2>8. Bother' # 0
    BY <1>1, <2>7 DEF Halt, SiteSpend, SitesTypeOK, Troubles, Bother
  <2>9. QED
    BY <2>2, <2>4, <2>6, <2>8 DEF WayInv, CalmInv
<1>6. QED
  BY <1>4, <1>5

\* Every step of scheduler, workers, owner and site.
LEMMA WayStep == SchedInv /\ WayInv /\ [Next]_vars => WayInv'
<1> SUFFICES ASSUME SchedInv, WayInv, [Next]_vars PROVE WayInv'
  OBVIOUS
<1>1. CASE SiteStep
  BY <1>1, SiteKeepsWay
<1>2. CASE PassStep
  BY <1>2, PassGoesOn, RecordKeeps, SendKeeps, MarkFailedKeeps DEF PassStep
<1>3. ASSUME NEW w \in Workers, WorkerStep(w) \/ BuildBegins(w) \/ BuildEnds(w) \/ Leave(w) PROVE WayInv'
  BY <1>3, TakeKeeps, WorkKeeps, FinalizeKeeps, LeaveKeeps DEF WorkerStep
<1>4. CASE \E t \in Tasks : DeleteTask(t)
  BY <1>4, DeleteTaskKeeps
<1>5. CASE \/ \E t \in Tasks : \/ CreateTask(t) \/ UpdateTask(t) \/ UpdateNextRun(t) \/ ToggleTaskRead(t)
                               \/ RunNow(t) \/ TimePasses(t)
           \/ ToggleTaskWrite \/ UNCHANGED vars
  BY <1>5, EditsKeep
<1>6. QED
  BY <1>1, <1>2, <1>3, <1>4, <1>5 DEF Next

\* At start nothing is recorded and every hand is empty.
LEMMA WayStarts == Init => WayInv
<1> SUFFICES ASSUME Init PROVE WayInv
  OBVIOUS
<1>1. /\ status = [r \in Runs |-> "absent"] /\ made = 0 /\ cur = NoTask /\ curRun = 0 /\ spc = "init"
      /\ queue = [w \in Workers |-> <<>>] /\ wpc = [w \in Workers |-> "off"] /\ wrun = [w \in Workers |-> 0]
      /\ deleting = "no" /\ row = "none" /\ late = {} /\ NumRuns \in Nat /\ Slots \in Nat
  BY SchedulerAssumption DEF Init, SitesInit
<1>2. HandsTyped
  <2>1. queue \in [Workers -> Seq(Commands)] /\ \A w \in Workers : Len(queue[w]) = 0
    BY <1>1
  <2>2. QED
    BY <1>1, <2>1 DEF HandsTyped
<1>3. \A r \in Runs : ~AtScheduler(r) /\ \A v \in Workers : ~Hold(v, r) /\ \A i \in Nat : ~In(v, i, r)
  BY <1>1 DEF AtScheduler, Hold, In, Working
<1>4. Apart
  BY <1>3 DEF Apart
<1>5. Unended /\ CalmInv
  BY <1>1, <1>3 DEF Unended, CalmInv, InHand
<1>6. QED
  BY <1>2, <1>4, <1>5 DEF WayInv

-----------------------------------------------------------------------------
\* What the invariant says in numbers: at most one hand, and one if it says it is running.
LEMMA WayShows == SitesTypeOK /\ WayInv => RunningIsOnItsWay
<1> SUFFICES ASSUME SitesTypeOK, WayInv PROVE RunningIsOnItsWay
  OBVIOUS
<1>1. HandsTyped /\ Apart /\ Unended /\ CalmInv
  BY DEF WayInv
<1>2. \A r \in Runs, w \in Workers : w \in Holders(r) <=> Hold(w, r)
  BY DEF Holders, Hold, Working
<1>3. \A r \in Runs, w \in Workers, i \in Nat : <<w, i>> \in Places(r) <=> In(w, i, r)
  <2>1. \A w \in Workers : Len(queue[w]) \in Nat /\ Len(queue[w]) <= Slots /\ Slots \in Nat
    BY <1>1, SchedulerAssumption DEF HandsTyped
  <2>2. \A r \in Runs, w \in Workers, i \in Nat :
           <<w, i>> \in Places(r) <=> i \in 1 .. Slots /\ i <= Len(queue[w]) /\ queue[w][i].run = r
    BY DEF Places
  <2>3. \A w \in Workers, i \in Nat : i \in 1 .. Len(queue[w]) <=> i \in 1 .. Slots /\ i <= Len(queue[w])
    BY <2>1
  <2>4. QED
    BY <2>2, <2>3 DEF In
<1>4. \A r \in Runs : Holders(r) \subseteq Workers /\ Places(r) \subseteq Workers \X Nat
  BY DEF Holders, Places
<1>5. ASSUME NEW r \in Runs
      PROVE  Cardinality(Holders(r)) + Cardinality(Places(r)) + (IF AtScheduler(r) THEN 1 ELSE 0) <= 1
  <2>1. Cardinality({}) = 0 /\ \A x : Cardinality({x}) = 1
    BY FS_EmptySet, FS_Singleton
  <2>2. CASE \E w \in Workers : Hold(w, r)
    <3>1. PICK w \in Workers : Hold(w, r)
      BY <2>2
    <3>2. ~AtScheduler(r) /\ \A v \in Workers : (Hold(v, r) => v = w) /\ \A i \in Nat : ~In(v, i, r)
      BY <1>1, <3>1 DEF Apart
    <3>3. Holders(r) = {w}
      BY <1>2, <1>4, <3>1, <3>2
    <3>4. Places(r) = {}
      BY <1>3, <1>4, <3>2
    <3>5. Cardinality(Holders(r)) = 1
      BY <2>1, <3>3, Zenon
    <3>6. Cardinality(Places(r)) = 0
      BY <2>1, <3>4, Zenon
    <3>7. QED
      BY <3>2, <3>5, <3>6
  <2>3. CASE (\A w \in Workers : ~Hold(w, r)) /\ \E w \in Workers, i \in Nat : In(w, i, r)
    <3>1. PICK w \in Workers, i \in Nat : In(w, i, r)
      BY <2>3
    <3>2. ~AtScheduler(r) /\ \A v \in Workers, j \in Nat : In(v, j, r) => v = w /\ j = i
      BY <1>1, <3>1 DEF Apart
    <3>3. Holders(r) = {}
      BY <1>2, <1>4, <2>3
    <3>4. Places(r) = {<<w, i>>}
      BY <1>3, <1>4, <3>1, <3>2
    <3>5. Cardinality(Holders(r)) = 0
      BY <2>1, <3>3, Zenon
    <3>6. Cardinality(Places(r)) = 1
      BY <2>1, <3>4, Zenon
    <3>7. QED
      BY <3>2, <3>5, <3>6
  <2>4. CASE \A w \in Workers : ~Hold(w, r) /\ \A i \in Nat : ~In(w, i, r)
    <3>1. Holders(r) = {} /\ Places(r) = {}
      BY <1>2, <1>3, <1>4, <2>4
    <3>2. QED
      BY <2>1, <3>1
  <2>5. QED
    BY <2>2, <2>3, <2>4
<1>6. ASSUME NEW r \in Runs, status[r] = "running", Bother = 0
      PROVE  AtScheduler(r) \/ Holders(r) # {} \/ Places(r) # {}
  <2>1. InHand(r)
    BY <1>1, <1>6 DEF CalmInv
  <2>2. QED
    BY <1>2, <1>3, <2>1 DEF InHand
<1>7. Bother \in Nat
  BY DEF SitesTypeOK, Bother, Troubles
<1>8. QED
  BY <1>5, <1>6, <1>7 DEF RunningIsOnItsWay, OneHolder, Bother

\* A run that says it is running is in one pair of hands - the scheduler's, a channel's or a
\* worker's - unless something was stopped, crashed or failed: brain/scheduler.go and
\* brain/scheduled.go, for any tasks, runs, workers, places in the channel and edits.
THEOREM SchedulerRunsAreHeld == FairSpec => []RunningIsOnItsWay
<1>1. Init => WayInv
  BY WayStarts
<1>2. SchedInv /\ WayInv /\ [Next]_vars => WayInv'
  BY WayStep
<1>3. SchedInv /\ WayInv => RunningIsOnItsWay
  BY WayShows DEF SchedInv, SitesInv
<1>4. QED
  BY <1>1, <1>2, <1>3, SchedulerInvariant, PTL DEF FairSpec, Spec

-----------------------------------------------------------------------------
(* The record                                                              *)

\* A statement about the run in a hand ends it, or finds it gone.
LEMMA StatusEnds ==
    ASSUME WayInv, NEW r \in Runs, InHand(r), NEW s \in {"completed", "failed"}, NEW d, SetStatus(r, s, d)
    PROVE  Record_!End(r) \/ status' = status
<1>1. status[r] \in {"absent", "running"}
  BY DEF WayInv, Unended
<1>2. CASE status[r] = "running"
  BY <1>2 DEF SetStatus, Record_!End, Record_!Results
<1>3. CASE status[r] = "absent"
  BY <1>3 DEF SetStatus
<1>4. QED
  BY <1>1, <1>2, <1>3

\* Every step is a step of the record, or leaves it as it is.
LEMMA RecordsStep == SchedInv /\ WayInv /\ [Next]_vars => [Record_!RecordNext]_status
<1> SUFFICES ASSUME SchedInv, WayInv, [Next]_vars PROVE Record_!RecordNext \/ status' = status
  OBVIOUS
<1>1. HandsTyped /\ Unended
  BY DEF WayInv
<1>2. CASE SiteStep
  <2>1. status' = status \/ status' = [r \in Runs |-> "absent"]
    BY <1>2 DEF SiteStep
  <2>2. status' = [r \in Runs |-> "absent"] => Record_!Forget(Runs)
    BY DEF Record_!Forget
  <2>3. QED
    BY <2>1, <2>2 DEF Record_!RecordNext
<1>3. ASSUME NEW t \in Tasks, Record(t) PROVE Record_!RecordNext \/ status' = status
  <2>1. \/ status' = status
        \/ made < NumRuns /\ made' = made + 1 /\ status' = [status EXCEPT ![made'] = "running"]
    BY <1>3 DEF Record, runVars
  <2>2. CASE made < NumRuns /\ made' = made + 1 /\ status' = [status EXCEPT ![made'] = "running"]
    <3>1. made' \in Runs /\ made' > made
      BY <1>1, <2>2, SchedulerAssumption DEF HandsTyped, Runs
    <3>2. status[made'] = "absent"
      BY <1>1, <3>1 DEF Unended
    <3>3. Record_!Begin(made')
      BY <2>2, <3>2 DEF Record_!Begin
    <3>4. QED
      BY <3>1, <3>3 DEF Record_!RecordNext
  <2>3. QED
    BY <2>1, <2>2
<1>4. CASE MarkFailed
  <2>1. CASE curRun = 0
    BY <1>4, <2>1 DEF MarkFailed
  <2>2. CASE curRun # 0
    <3>1. curRun \in Runs /\ InHand(curRun) /\ SetStatus(curRun, "failed", held)
      BY <1>1, <1>4, <2>2, RunsAre DEF MarkFailed, InHand, AtScheduler, HandsTyped
    <3>2. QED
      BY <3>1, StatusEnds DEF Record_!RecordNext
  <2>3. QED
    BY <2>1, <2>2
<1>5. ASSUME NEW w \in Workers, Finalize(w) PROVE Record_!RecordNext \/ status' = status
  <2>1. PICK s \in {"completed", "failed"} : SetStatus(wrun[w], s, wdb[w])
    BY <1>5 DEF Finalize
  <2>2. Hold(w, wrun[w])
    BY <1>5 DEF Finalize, Hold, Working
  <2>3. CASE wrun[w] \in Runs
    <3>1. InHand(wrun[w])
      BY <2>2 DEF InHand
    <3>2. QED
      BY <2>1, <2>3, <3>1, StatusEnds DEF Record_!RecordNext
  <2>4. CASE wrun[w] \notin Runs
    <3>1. [status EXCEPT ![wrun[w]] = s] = status
      BY <1>1, <2>4 DEF HandsTyped
    <3>2. QED
      BY <2>1, <3>1 DEF SetStatus
  <2>5. QED
    BY <2>3, <2>4
<1>6. ASSUME NEW t \in Tasks, DeleteTask(t) PROVE Record_!RecordNext
  <2> DEFINE S == {r \in Runs : of[r] = t}
  <2>1. status' = [r \in Runs |-> IF r \in S THEN "absent" ELSE status[r]]
    BY <1>6 DEF DeleteTask
  <2>2. Record_!Forget(S) /\ S \in SUBSET Runs
    BY <2>1 DEF Record_!Forget
  <2>3. QED
    BY <2>2 DEF Record_!RecordNext
<1>7. CASE InitializeNextRun \/ PassBegins \/ Send \/ SendWaits \/ Advance
  BY <1>7 DEF InitializeNextRun, PassBegins, Send, SendWaits, Advance, runVars
<1>8. ASSUME NEW w \in Workers,
             \/ Take(w) \/ ExecuteNativeAction(w) \/ ExecuteScheduledTask(w) \/ Count(w)
             \/ BuildBegins(w) \/ BuildEnds(w) \/ Leave(w)
      PROVE  status' = status
  BY <1>8 DEF Take, ExecuteNativeAction, ExecuteScheduledTask, Ran, Count, BuildBegins, BuildEnds, Leave, runVars
<1>9. CASE \/ \E t \in Tasks : \/ CreateTask(t) \/ UpdateTask(t) \/ UpdateNextRun(t) \/ ToggleTaskRead(t)
                               \/ RunNow(t) \/ TimePasses(t)
           \/ ToggleTaskWrite \/ UNCHANGED vars
  BY <1>9 DEF CreateTask, UpdateTask, UpdateNextRun, ToggleTaskRead, RunNow, TimePasses, ToggleTaskWrite,
     EditOthers, runVars, vars, schedVars
<1>10. QED
  BY <1>2, <1>3, <1>4, <1>5, <1>6, <1>7, <1>8, <1>9 DEF Next, PassStep, WorkerStep

\* The table of runs keeps its promise, whoever writes it: one result at most, of a run that
\* says it is running, and no verdict of the scheduler on a run that a worker has. The record
\* of RunRecord is implemented by brain/scheduler.go and brain/scheduled.go together.
THEOREM SchedulerImplementsRecord == FairSpec => RunsImplementRecord
<1>1. Init => Record_!RecordInit
  BY DEF Init, Record_!RecordInit
<1>2. Init => WayInv
  BY WayStarts
<1>3. SchedInv /\ WayInv /\ [Next]_vars => WayInv'
  BY WayStep
<1>4. SchedInv /\ WayInv /\ [Next]_vars => [Record_!RecordNext]_status
  BY RecordsStep
<1>5. QED
  BY <1>1, <1>2, <1>3, <1>4, SchedulerInvariant, PTL DEF FairSpec, Spec, RunsImplementRecord, Record_!RecordSpec

=============================================================================
