-------------------------------- MODULE Sites --------------------------------
(***************************************************************************)
(* The life of one site: its row in the global database, the directory     *)
(* with its own database, the cache of open databases (db/sitedb.go) and   *)
(* the worker the manager has for it (brain/manager.go).  Creating,        *)
(* deleting and toggling a site are several steps each, and everything     *)
(* that is handed a site's id may open its database in between.            *)
(*                                                                         *)
(* An open database is known by its number: closing it makes the handles   *)
(* others still hold useless, a later Open makes a new one.                *)
(***************************************************************************)
EXTENDS Naturals

CONSTANTS
    NumWorkers,     \* pipeline workers ever started: BOUND of the model
    NumOpens,       \* times a database is opened: BOUND of the model
    MaxTroubles     \* bound on stops, crashes, failed calls, toggles and sweeps together

Workers == 1 .. NumWorkers
Opens == 1 .. NumOpens
Troubles == {"stops", "crashes", "failures", "others"}

ASSUME SitesAssumption ==
    /\ NumWorkers \in Nat
    /\ NumOpens \in Nat
    /\ MaxTroubles \in Nat

VARIABLES
    row,        \* the row in sites: its status, or that there is none
    disk,       \* the site's directory is there, with its database
    cached,     \* the open database in the manager's cache, 0 if there is none
    opened,     \* how many databases were opened so far
    handle,     \* the worker the brain manager has for the site, 0 if none
    started,    \* how many workers were started so far
    wdb,        \* the database each worker holds
    creating,   \* where the request that creates the site is
    deleting,   \* where the request that deletes the site is
    toggling,   \* the status a toggle request has read, or "no"
    sweeping,   \* the log cleanup has listed the site and not opened it yet
    up,         \* the process runs
    late,       \* workers started after a deletion of the site had begun
    spent       \* how many of each kind of trouble there were

siteVars == <<row, disk, cached, opened, handle, started, wdb, creating, deleting,
              toggling, sweeping, up, late, spent>>

Listed == {"active", "inactive"}

SitesInit ==
    /\ row = "none" /\ disk = FALSE
    /\ cached = 0 /\ opened = 0
    /\ handle = 0 /\ started = 0
    /\ wdb = [w \in Workers |-> 0]
    /\ creating = "no" /\ deleting = "no" /\ toggling = "no"
    /\ sweeping = FALSE /\ up = TRUE
    /\ late = {}
    /\ spent = [k \in Troubles |-> 0]

SiteSpend(k) ==
    /\ spent["stops"] + spent["crashes"] + spent["failures"] + spent["others"] < MaxTroubles
    /\ spent' = [spent EXCEPT ![k] = @ + 1]

\* Open and Create return the cached database or open one, and with it make the
\* directory and the tables that are missing, whether the site has a row or not.
OpenDb ==
    \/ cached # 0 /\ UNCHANGED <<cached, opened, disk>>
    \/ /\ cached = 0 /\ opened < NumOpens
       /\ opened' = opened + 1
       /\ cached' = opened'
       /\ disk' = TRUE

\* Close the database, if it is open.
CloseDb == cached' = 0 /\ UNCHANGED opened

\* StartSite: nothing if there is a worker, else a worker with the open database.
StartWorker ==
    \/ /\ handle # 0
       /\ UNCHANGED <<handle, started, wdb, late, cached, opened, disk>>
    \/ /\ handle = 0 /\ started < NumWorkers
       /\ OpenDb
       /\ started' = started + 1
       /\ handle' = started'
       /\ wdb' = [wdb EXCEPT ![started'] = cached']
       /\ late' = IF deleting # "no" \/ row = "gone" THEN late \cup {started'} ELSE late

-----------------------------------------------------------------------------
(* Creating                                                                *)

CreateRow ==
    /\ up /\ creating = "no" /\ row = "none"
    /\ row' = "active"
    /\ creating' = "database"
    /\ UNCHANGED <<disk, cached, opened, handle, started, wdb, deleting, toggling,
                   sweeping, up, late, spent>>

\* Wrong on purpose: a database that cannot be created is only reported.
CreateDbReported ==
    /\ up /\ creating = "database"
    /\ \/ OpenDb /\ creating' = "event" /\ UNCHANGED spent
       \/ SiteSpend("failures") /\ creating' = "no" /\ UNCHANGED <<disk, cached, opened>>
    /\ UNCHANGED <<row, handle, started, wdb, deleting, toggling, sweeping, up, late>>

\* If the database cannot be created the row is to be taken back.
CreateDb ==
    /\ up /\ creating = "database"
    /\ \/ OpenDb /\ creating' = "event" /\ UNCHANGED spent
       \/ SiteSpend("failures") /\ creating' = "undo" /\ UNCHANGED <<disk, cached, opened>>
    /\ UNCHANGED <<row, handle, started, wdb, deleting, toggling, sweeping, up, late>>

\* The row is taken back, or that fails too, which is not looked at: the same disk is
\* under both, so it is one trouble.
CreateUndo ==
    /\ up /\ creating = "undo"
    /\ \/ row' = "gone" /\ creating' = "no"
       \/ UNCHANGED row /\ creating' = "left"
    /\ UNCHANGED <<disk, cached, opened, handle, started, wdb, deleting, toggling,
                   sweeping, up, late, spent>>

\* The event starts the worker, in the request's own goroutine.
CreateEvent ==
    /\ up /\ creating = "event"
    /\ StartWorker
    /\ creating' = "no"
    /\ UNCHANGED <<row, deleting, toggling, sweeping, up, spent>>

-----------------------------------------------------------------------------
(* Deleting: stop, delete the row, close the database and remove the files *)

\* Wrong on purpose: nobody stops the worker.
DeleteUnstopped ==
    /\ up /\ deleting = "no" /\ row \in Listed \cup {"gone"}
    /\ SiteSpend("stops")
    /\ deleting' = "row"
    /\ UNCHANGED <<row, disk, cached, opened, handle, started, wdb, creating, toggling,
                   sweeping, up, late>>

DeleteStop ==
    /\ up /\ deleting = "no" /\ row \in Listed \cup {"gone"}
    /\ SiteSpend("stops")
    /\ handle' = 0
    /\ deleting' = "row"
    /\ UNCHANGED <<row, disk, cached, opened, started, wdb, creating, toggling,
                   sweeping, up, late>>

\* Nothing to delete, or the statement failed: the worker stays stopped.
DeleteRow ==
    /\ up /\ deleting = "row"
    /\ \/ row \in Listed /\ row' = "gone" /\ deleting' = "files" /\ UNCHANGED spent
       \/ row = "gone" /\ deleting' = "no" /\ UNCHANGED <<row, spent>>
       \/ SiteSpend("failures") /\ deleting' = "no" /\ UNCHANGED row
    /\ UNCHANGED <<disk, cached, opened, handle, started, wdb, creating, toggling,
                   sweeping, up, late>>

\* A directory that cannot be removed is only logged.
DeleteFiles ==
    /\ up /\ deleting = "files"
    /\ CloseDb
    /\ \/ disk' = FALSE /\ UNCHANGED spent
       \/ SiteSpend("failures") /\ UNCHANGED disk
    /\ deleting' = "no"
    /\ UNCHANGED <<row, handle, started, wdb, creating, toggling, sweeping, up, late>>

-----------------------------------------------------------------------------
(* Everything else that is handed the site's id                            *)

\* The admin handlers open the database of any number they are given.
AdminRequest ==
    /\ up
    /\ OpenDb
    /\ UNCHANGED <<row, handle, started, wdb, creating, deleting, toggling, sweeping,
                   up, late, spent>>

\* /brain/start, and the bot's /start.
BrainStart ==
    /\ up
    /\ StartWorker
    /\ UNCHANGED <<row, creating, deleting, toggling, sweeping, up, spent>>

\* /brain/stop, and the bot's /stop: nobody waits for the worker.
BrainStop ==
    /\ up /\ handle # 0
    /\ SiteSpend("stops")
    /\ handle' = 0
    /\ UNCHANGED <<row, disk, cached, opened, started, wdb, creating, deleting,
                   toggling, sweeping, up, late>>

ToggleRead ==
    /\ up /\ toggling = "no" /\ row \in Listed
    /\ SiteSpend("others")
    /\ toggling' = row
    /\ UNCHANGED <<row, disk, cached, opened, handle, started, wdb, creating, deleting,
                   sweeping, up, late>>

\* The other status than the one that was read; of a row that is gone, nothing.
ToggleWrite ==
    /\ up /\ toggling # "no"
    /\ row' = IF row \notin Listed THEN row
              ELSE IF toggling = "active" THEN "inactive" ELSE "active"
    /\ toggling' = "no"
    /\ UNCHANGED <<disk, cached, opened, handle, started, wdb, creating, deleting,
                   sweeping, up, late, spent>>

SweepList ==
    /\ up /\ ~sweeping /\ row = "active"
    /\ SiteSpend("others")
    /\ sweeping' = TRUE
    /\ UNCHANGED <<row, disk, cached, opened, handle, started, wdb, creating, deleting,
                   toggling, up, late>>

SweepOpen ==
    /\ up /\ sweeping
    /\ OpenDb
    /\ sweeping' = FALSE
    /\ UNCHANGED <<row, handle, started, wdb, creating, deleting, toggling, up, late, spent>>

\* The process ends, by itself (StopAll, CloseAll) or not: rows and files are left.
Halt ==
    /\ up
    /\ SiteSpend("crashes")
    /\ up' = FALSE
    /\ handle' = 0 /\ cached' = 0
    /\ creating' = "no" /\ deleting' = "no" /\ toggling' = "no" /\ sweeping' = FALSE
    /\ UNCHANGED <<row, disk, opened, started, wdb, late>>

\* AutoStart.
Restart ==
    /\ ~up
    /\ up' = TRUE
    /\ IF row = "active" THEN StartWorker
       ELSE UNCHANGED <<handle, started, wdb, late, cached, opened, disk>>
    /\ UNCHANGED <<row, creating, deleting, toggling, sweeping, spent>>

SitesNext ==
    \/ CreateRow \/ CreateDb \/ CreateUndo \/ CreateEvent
    \/ DeleteStop \/ DeleteRow \/ DeleteFiles
    \/ AdminRequest \/ BrainStart \/ BrainStop
    \/ ToggleRead \/ ToggleWrite
    \/ SweepList \/ SweepOpen
    \/ Halt \/ Restart

SitesSpec == SitesInit /\ [][SitesNext]_siteVars

-----------------------------------------------------------------------------
(* Properties                                                              *)

SitesTypeOK ==
    /\ row \in {"none", "active", "inactive", "gone"}
    /\ disk \in BOOLEAN /\ sweeping \in BOOLEAN /\ up \in BOOLEAN
    /\ opened \in 0 .. NumOpens /\ cached \in 0 .. opened
    /\ started \in 0 .. NumWorkers /\ handle \in 0 .. started
    /\ wdb \in [Workers -> 0 .. NumOpens]
    /\ creating \in {"no", "database", "undo", "left", "event"}
    /\ deleting \in {"no", "row", "files"}
    /\ toggling \in Listed \cup {"no"}
    /\ late \subseteq Workers
    /\ spent \in [Troubles -> Nat]

\* A site that is listed has its data: a creation that fails takes its row back, and no
\* deletion that stops half way, no toggle and no clean-up leaves a row whose database is
\* not there.  Two cases are let through, and no other: the process died, and the row of a
\* failed creation could not be deleted either (admin/sites.go and bot/service.go drop
\* the error of that DeleteSite), which "left" records.
ListedHasData ==
    row \in Listed => \/ disk
                     \/ creating \in {"database", "undo", "left"}
                     \/ spent["crashes"] > 0

\* The worker that commands go to works on the database that everybody else sees: a
\* handle to a closed database is left only with a worker that was started while, or
\* after, the site was being deleted.
WorkerHasDatabase == handle # 0 => wdb[handle] = cached \/ handle \in late
=============================================================================
