----------------------------- MODULE SitesProofs -----------------------------
(* The life of a site, for any number of workers, databases and troubles: a  *)
(* listed site has its data, and the worker that commands go to works on the  *)
(* database that everybody else sees.                                        *)
EXTENDS Sites, TLAPS

\* An open database has its directory; the files are removed only after the row; a worker
\* that runs while the site is being deleted was started late; and every worker was
\* started with an open database.
SitesOrder ==
    /\ cached # 0 => disk
    /\ deleting = "files" => row = "gone"
    /\ deleting # "no" /\ handle # 0 => handle \in late
    /\ handle # 0 => wdb[handle] # 0

\* A row is taken back, or left, only after a failure.
UndoFailed == creating \in {"undo", "left"} => spent["failures"] > 0

SitesInv == SitesTypeOK /\ ListedHasData /\ WorkerHasDatabase /\ SitesOrder /\ UndoFailed

-----------------------------------------------------------------------------
\* What every trouble leaves of the counters.
LEMMA SpendTyped ==
    ASSUME SitesTypeOK, NEW k \in Troubles, SiteSpend(k)
    PROVE  /\ spent' \in [Troubles -> Nat]
           /\ spent["crashes"] > 0 => spent'["crashes"] > 0
           /\ k = "crashes" => spent'["crashes"] > 0
  BY DEF SitesTypeOK, SiteSpend, Troubles

\* The type invariant in parts: flags, numbers and words are different provers' work.
Flags == disk \in BOOLEAN /\ sweeping \in BOOLEAN /\ up \in BOOLEAN
Numbers ==
    /\ opened \in 0 .. NumOpens /\ cached \in 0 .. opened
    /\ started \in 0 .. NumWorkers /\ handle \in 0 .. started
    /\ wdb \in [Workers -> 0 .. NumOpens]
    /\ late \subseteq Workers
Words ==
    /\ row \in {"none", "active", "inactive", "gone"}
    /\ creating \in {"no", "database", "undo", "left", "event"}
    /\ deleting \in {"no", "row", "files"}
    /\ toggling \in Listed \cup {"no"}
    /\ spent \in [Troubles -> Nat]

LEMMA TypeParts == SitesTypeOK <=> Flags /\ Numbers /\ Words
  BY DEF SitesTypeOK, Flags, Numbers, Words

LEMMA OpenFlags == ASSUME Flags, OpenDb PROVE disk' \in BOOLEAN
<1>1. CASE cached # 0 /\ UNCHANGED <<cached, opened, disk>>
  BY <1>1, Zenon DEF Flags
<1>2. CASE cached = 0 /\ opened < NumOpens /\ opened' = opened + 1 /\ cached' = opened' /\ disk' = TRUE
  BY <1>2, Zenon
<1>3. QED
  BY <1>1, <1>2, Zenon DEF OpenDb

LEMMA OpenNumbers ==
    ASSUME Numbers, OpenDb
    PROVE  opened' \in 0 .. NumOpens /\ cached' \in 0 .. opened' /\ cached' # 0 /\ opened <= opened'
  BY SitesAssumption DEF Numbers, OpenDb

LEMMA StartFlags == ASSUME Flags, StartWorker PROVE disk' \in BOOLEAN
<1>1. CASE OpenDb
  BY <1>1, OpenFlags
<1>2. CASE disk' = disk
  BY <1>2, Zenon DEF Flags
<1>3. QED
  BY <1>1, <1>2, Zenon DEF StartWorker

LEMMA StartNumbers == ASSUME Numbers, StartWorker PROVE Numbers'
<1>1. CASE handle # 0
  BY <1>1 DEF Numbers, StartWorker
<1>2. CASE handle = 0
  <2>1. opened' \in 0 .. NumOpens /\ cached' \in 0 .. opened'
    BY <1>2, OpenNumbers DEF StartWorker
  <2>2. started' \in 1 .. NumWorkers /\ handle' = started'
    BY <1>2, SitesAssumption DEF Numbers, StartWorker
  <2>3. wdb' = [wdb EXCEPT ![started'] = cached'] /\ late' \subseteq late \cup {started'}
    BY <1>2 DEF StartWorker
  <2>4. cached' \in 0 .. NumOpens
    BY <2>1, SitesAssumption
  <2>5. wdb' \in [Workers -> 0 .. NumOpens] /\ late' \subseteq Workers
    BY <2>2, <2>3, <2>4 DEF Numbers, Workers
  <2>6. QED
    BY <2>1, <2>2, <2>5, SitesAssumption DEF Numbers
<1>3. QED
  BY <1>1, <1>2

LEMMA UndoStep == ASSUME SitesTypeOK, UndoFailed, [SitesNext]_siteVars PROVE UndoFailed'
<1> USE DEF UndoFailed
<1>1. ASSUME NEW k \in Troubles, SiteSpend(k)
      PROVE  /\ spent["failures"] > 0 => spent'["failures"] > 0
             /\ k = "failures" => spent'["failures"] > 0
  BY <1>1 DEF SitesTypeOK, SiteSpend, Troubles
<1>2. /\ SiteSpend("failures") => spent'["failures"] > 0
      /\ \A k \in Troubles : SiteSpend(k) /\ spent["failures"] > 0 => spent'["failures"] > 0
  BY <1>1 DEF Troubles
<1>3. CASE CreateRow \/ CreateDb \/ CreateUndo \/ CreateEvent
  BY <1>2, <1>3 DEF CreateRow, CreateDb, CreateUndo, CreateEvent
<1>4. CASE Halt
  BY <1>4 DEF Halt
<1>5. CASE UNCHANGED creating /\ (UNCHANGED spent \/ \E k \in Troubles : SiteSpend(k))
  BY <1>2, <1>5
<1>6. [SitesNext]_siteVars /\ ~ (CreateRow \/ CreateDb \/ CreateUndo \/ CreateEvent \/ Halt)
        => UNCHANGED creating /\ (UNCHANGED spent \/ \E k \in Troubles : SiteSpend(k))
  BY DEF SitesNext, siteVars, DeleteStop, DeleteRow, DeleteFiles, AdminRequest, BrainStart, BrainStop,
     ToggleRead, ToggleWrite, SweepList, SweepOpen, Restart, Troubles
<1>7. QED
  BY <1>3, <1>4, <1>5, <1>6

\* The step: no request that is cut short, overlaps another or comes late breaks the order.
LEMMA SitesStep == SitesInv /\ [SitesNext]_siteVars => SitesInv'
<1> SUFFICES ASSUME SitesInv, [SitesNext]_siteVars PROVE SitesInv'
  OBVIOUS
<1>u. UndoFailed'
  BY UndoStep DEF SitesInv
<1> USE SitesAssumption, <1>u DEF SitesInv
<1>1. CASE CreateRow
  <2>1. SitesTypeOK'
    <3>1. Flags'
      BY <1>1, TypeParts, Zenon DEF CreateRow, Flags
    <3>2. Numbers'
      BY <1>1, TypeParts DEF CreateRow, Numbers
    <3>3. Words'
      BY <1>1, TypeParts DEF CreateRow, Words, Listed
    <3>4. QED
      BY <3>1, <3>2, <3>3, Zenon DEF SitesTypeOK, Flags, Numbers, Words
  <2>2. ListedHasData'
    BY <1>1 DEF CreateRow, SitesTypeOK, ListedHasData, SitesOrder, Listed
  <2>3. WorkerHasDatabase'
    BY <1>1 DEF CreateRow, SitesTypeOK, WorkerHasDatabase, SitesOrder, Workers
  <2>4. SitesOrder'
    BY <1>1 DEF CreateRow, SitesTypeOK, SitesOrder, WorkerHasDatabase, Listed, Workers
  <2>5. QED
    BY <2>1, <2>2, <2>3, <2>4
<1>2. CASE CreateDb
  <2>s. ASSUME SiteSpend("failures")
        PROVE  /\ spent' \in [Troubles -> Nat]
               /\ spent["crashes"] > 0 => spent'["crashes"] > 0
               /\ "failures" = "crashes" => spent'["crashes"] > 0
    <3>1. "failures" \in Troubles
      BY DEF Troubles
    <3>2. QED
      BY <2>s, <3>1, SpendTyped
  <2>1. SitesTypeOK'
    <3>1. Flags'
      BY <1>2, TypeParts, OpenFlags, Zenon DEF CreateDb, Flags
    <3>2. Numbers'
      BY <1>2, TypeParts, OpenNumbers DEF CreateDb, Numbers
    <3>3. Words'
      BY <1>2, TypeParts, <2>s DEF CreateDb, Words, Listed
    <3>4. QED
      BY <3>1, <3>2, <3>3, Zenon DEF SitesTypeOK, Flags, Numbers, Words
  <2>2. ListedHasData'
    BY <1>2, <2>s DEF CreateDb, OpenDb, SitesTypeOK, ListedHasData, SitesOrder, Listed
  <2>3. WorkerHasDatabase'
    BY <1>2 DEF CreateDb, OpenDb, SitesTypeOK, WorkerHasDatabase, SitesOrder, Workers
  <2>4. SitesOrder'
    BY <1>2 DEF CreateDb, OpenDb, SitesTypeOK, SitesOrder, WorkerHasDatabase, Listed, Workers
  <2>5. QED
    BY <2>1, <2>2, <2>3, <2>4
<1>2a. CASE CreateUndo
  <2>1. SitesTypeOK'
    <3>1. Flags'
      BY <1>2a, TypeParts, Zenon DEF CreateUndo, Flags
    <3>2. Numbers'
      BY <1>2a, TypeParts DEF CreateUndo, Numbers
    <3>3. Words'
      BY <1>2a, TypeParts DEF CreateUndo, Words, Listed
    <3>4. QED
      BY <3>1, <3>2, <3>3, Zenon DEF SitesTypeOK, Flags, Numbers, Words
  <2>2. ListedHasData'
    BY <1>2a DEF CreateUndo, SitesTypeOK, ListedHasData, SitesOrder, Listed
  <2>3. WorkerHasDatabase'
    BY <1>2a DEF CreateUndo, SitesTypeOK, WorkerHasDatabase, SitesOrder, Workers
  <2>4. SitesOrder'
    BY <1>2a DEF CreateUndo, SitesTypeOK, SitesOrder, WorkerHasDatabase, Listed, Workers
  <2>5. QED
    BY <2>1, <2>2, <2>3, <2>4
<1>3. CASE CreateEvent
  <2>1. SitesTypeOK'
    <3>1. Flags'
      BY <1>3, TypeParts, StartFlags, Zenon DEF CreateEvent, Flags
    <3>2. Numbers'
      BY <1>3, TypeParts, StartNumbers DEF CreateEvent, Numbers
    <3>3. Words'
      BY <1>3, TypeParts DEF CreateEvent, Words, Listed
    <3>4. QED
      BY <3>1, <3>2, <3>3, Zenon DEF SitesTypeOK, Flags, Numbers, Words
  <2>2. ListedHasData'
    BY <1>3 DEF CreateEvent, StartWorker, OpenDb, SitesTypeOK, ListedHasData, SitesOrder, Listed
  <2>3. WorkerHasDatabase'
    BY <1>3 DEF CreateEvent, StartWorker, OpenDb, SitesTypeOK, WorkerHasDatabase, SitesOrder, Workers
  <2>4. SitesOrder'
    BY <1>3 DEF CreateEvent, StartWorker, OpenDb, SitesTypeOK, SitesOrder, WorkerHasDatabase, Listed, Workers
  <2>5. QED
    BY <2>1, <2>2, <2>3, <2>4
<1>4. CASE DeleteStop
  <2>s. ASSUME SiteSpend("stops")
        PROVE  /\ spent' \in [Troubles -> Nat]
               /\ spent["crashes"] > 0 => spent'["crashes"] > 0
               /\ "stops" = "crashes" => spent'["crashes"] > 0
    <3>1. "stops" \in Troubles
      BY DEF Troubles
    <3>2. QED
      BY <2>s, <3>1, SpendTyped
  <2>1. SitesTypeOK'
    <3>1. Flags'
      BY <1>4, TypeParts, Zenon DEF DeleteStop, Flags
    <3>2. Numbers'
      BY <1>4, TypeParts DEF DeleteStop, Numbers
    <3>3. Words'
      BY <1>4, TypeParts, <2>s DEF DeleteStop, Words, Listed
    <3>4. QED
      BY <3>1, <3>2, <3>3, Zenon DEF SitesTypeOK, Flags, Numbers, Words
  <2>2. ListedHasData'
    BY <1>4, <2>s DEF DeleteStop, SitesTypeOK, ListedHasData, SitesOrder, Listed
  <2>3. WorkerHasDatabase'
    BY <1>4 DEF DeleteStop, SitesTypeOK, WorkerHasDatabase, SitesOrder, Workers
  <2>4. SitesOrder'
    BY <1>4 DEF DeleteStop, SitesTypeOK, SitesOrder, WorkerHasDatabase, Listed, Workers
  <2>5. QED
    BY <2>1, <2>2, <2>3, <2>4
<1>5. CASE DeleteRow
  <2>s. ASSUME SiteSpend("failures")
        PROVE  /\ spent' \in [Troubles -> Nat]
               /\ spent["crashes"] > 0 => spent'["crashes"] > 0
               /\ "failures" = "crashes" => spent'["crashes"] > 0
    <3>1. "failures" \in Troubles
      BY DEF Troubles
    <3>2. QED
      BY <2>s, <3>1, SpendTyped
  <2>1. SitesTypeOK'
    <3>1. Flags'
      BY <1>5, TypeParts, Zenon DEF DeleteRow, Flags
    <3>2. Numbers'
      BY <1>5, TypeParts DEF DeleteRow, Numbers
    <3>3. Words'
      BY <1>5, TypeParts, <2>s DEF DeleteRow, Words, Listed
    <3>4. QED
      BY <3>1, <3>2, <3>3, Zenon DEF SitesTypeOK, Flags, Numbers, Words
  <2>2. ListedHasData'
    BY <1>5, <2>s DEF DeleteRow, SitesTypeOK, ListedHasData, SitesOrder, Listed
  <2>3. WorkerHasDatabase'
    BY <1>5 DEF DeleteRow, SitesTypeOK, WorkerHasDatabase, SitesOrder, Workers
  <2>4. SitesOrder'
    BY <1>5 DEF DeleteRow, SitesTypeOK, SitesOrder, WorkerHasDatabase, Listed, Workers
  <2>5. QED
    BY <2>1, <2>2, <2>3, <2>4
<1>6. CASE DeleteFiles
  <2>s. ASSUME SiteSpend("failures")
        PROVE  /\ spent' \in [Troubles -> Nat]
               /\ spent["crashes"] > 0 => spent'["crashes"] > 0
               /\ "failures" = "crashes" => spent'["crashes"] > 0
    <3>1. "failures" \in Troubles
      BY DEF Troubles
    <3>2. QED
      BY <2>s, <3>1, SpendTyped
  <2>1. SitesTypeOK'
    <3>1. Flags'
      BY <1>6, TypeParts, Zenon DEF DeleteFiles, Flags
    <3>2. Numbers'
      BY <1>6, TypeParts DEF DeleteFiles, CloseDb, Numbers
    <3>3. Words'
      BY <1>6, TypeParts, <2>s DEF DeleteFiles, Words, Listed
    <3>4. QED
      BY <3>1, <3>2, <3>3, Zenon DEF SitesTypeOK, Flags, Numbers, Words
  <2>2. ListedHasData'
    BY <1>6, <2>s DEF DeleteFiles, CloseDb, SitesTypeOK, ListedHasData, SitesOrder, Listed
  <2>3. WorkerHasDatabase'
    BY <1>6 DEF DeleteFiles, CloseDb, SitesTypeOK, WorkerHasDatabase, SitesOrder, Workers
  <2>4. SitesOrder'
    BY <1>6 DEF DeleteFiles, CloseDb, SitesTypeOK, SitesOrder, WorkerHasDatabase, Listed, Workers
  <2>5. QED
    BY <2>1, <2>2, <2>3, <2>4
<1>7. CASE AdminRequest
  <2>1. SitesTypeOK'
    <3>1. Flags'
      BY <1>7, TypeParts, OpenFlags, Zenon DEF AdminRequest, Flags
    <3>2. Numbers'
      BY <1>7, TypeParts, OpenNumbers DEF AdminRequest, Numbers
    <3>3. Words'
      BY <1>7, TypeParts DEF AdminRequest, Words, Listed
    <3>4. QED
      BY <3>1, <3>2, <3>3, Zenon DEF SitesTypeOK, Flags, Numbers, Words
  <2>2. ListedHasData'
    BY <1>7 DEF AdminRequest, OpenDb, SitesTypeOK, ListedHasData, SitesOrder, Listed
  <2>3. WorkerHasDatabase'
    BY <1>7 DEF AdminRequest, OpenDb, SitesTypeOK, WorkerHasDatabase, SitesOrder, Workers
  <2>4. SitesOrder'
    BY <1>7 DEF AdminRequest, OpenDb, SitesTypeOK, SitesOrder, WorkerHasDatabase, Listed, Workers
  <2>5. QED
    BY <2>1, <2>2, <2>3, <2>4
<1>8. CASE BrainStart
  <2>1. SitesTypeOK'
    <3>1. Flags'
      BY <1>8, TypeParts, StartFlags, Zenon DEF BrainStart, Flags
    <3>2. Numbers'
      BY <1>8, TypeParts, StartNumbers DEF BrainStart, Numbers
    <3>3. Words'
      BY <1>8, TypeParts DEF BrainStart, Words, Listed
    <3>4. QED
      BY <3>1, <3>2, <3>3, Zenon DEF SitesTypeOK, Flags, Numbers, Words
  <2>2. ListedHasData'
    BY <1>8 DEF BrainStart, StartWorker, OpenDb, SitesTypeOK, ListedHasData, SitesOrder, Listed
  <2>3. WorkerHasDatabase'
    BY <1>8 DEF BrainStart, StartWorker, OpenDb, SitesTypeOK, WorkerHasDatabase, SitesOrder, Workers
  <2>4. SitesOrder'
    BY <1>8 DEF BrainStart, StartWorker, OpenDb, SitesTypeOK, SitesOrder, WorkerHasDatabase, Listed, Workers
  <2>5. QED
    BY <2>1, <2>2, <2>3, <2>4
<1>9. CASE BrainStop
  <2>s. ASSUME SiteSpend("stops")
        PROVE  /\ spent' \in [Troubles -> Nat]
               /\ spent["crashes"] > 0 => spent'["crashes"] > 0
               /\ "stops" = "crashes" => spent'["crashes"] > 0
    <3>1. "stops" \in Troubles
      BY DEF Troubles
    <3>2. QED
      BY <2>s, <3>1, SpendTyped
  <2>1. SitesTypeOK'
    <3>1. Flags'
      BY <1>9, TypeParts, Zenon DEF BrainStop, Flags
    <3>2. Numbers'
      BY <1>9, TypeParts DEF BrainStop, Numbers
    <3>3. Words'
      BY <1>9, TypeParts, <2>s DEF BrainStop, Words, Listed
    <3>4. QED
      BY <3>1, <3>2, <3>3, Zenon DEF SitesTypeOK, Flags, Numbers, Words
  <2>2. ListedHasData'
    BY <1>9, <2>s DEF BrainStop, SitesTypeOK, ListedHasData, SitesOrder, Listed
  <2>3. WorkerHasDatabase'
    BY <1>9 DEF BrainStop, SitesTypeOK, WorkerHasDatabase, SitesOrder, Workers
  <2>4. SitesOrder'
    BY <1>9 DEF BrainStop, SitesTypeOK, SitesOrder, WorkerHasDatabase, Listed, Workers
  <2>5. QED
    BY <2>1, <2>2, <2>3, <2>4
<1>10. CASE ToggleRead
  <2>s. ASSUME SiteSpend("others")
        PROVE  /\ spent' \in [Troubles -> Nat]
               /\ spent["crashes"] > 0 => spent'["crashes"] > 0
               /\ "others" = "crashes" => spent'["crashes"] > 0
    <3>1. "others" \in Troubles
      BY DEF Troubles
    <3>2. QED
      BY <2>s, <3>1, SpendTyped
  <2>1. SitesTypeOK'
    <3>1. Flags'
      BY <1>10, TypeParts, Zenon DEF ToggleRead, Flags
    <3>2. Numbers'
      BY <1>10, TypeParts DEF ToggleRead, Numbers
    <3>3. Words'
      BY <1>10, TypeParts, <2>s DEF ToggleRead, Words, Listed
    <3>4. QED
      BY <3>1, <3>2, <3>3, Zenon DEF SitesTypeOK, Flags, Numbers, Words
  <2>2. ListedHasData'
    BY <1>10, <2>s DEF ToggleRead, SitesTypeOK, ListedHasData, SitesOrder, Listed
  <2>3. WorkerHasDatabase'
    BY <1>10 DEF ToggleRead, SitesTypeOK, WorkerHasDatabase, SitesOrder, Workers
  <2>4. SitesOrder'
    BY <1>10 DEF ToggleRead, SitesTypeOK, SitesOrder, WorkerHasDatabase, Listed, Workers
  <2>5. QED
    BY <2>1, <2>2, <2>3, <2>4
<1>11. CASE ToggleWrite
  <2>1. SitesTypeOK'
    <3>1. Flags'
      BY <1>11, TypeParts, Zenon DEF ToggleWrite, Flags
    <3>2. Numbers'
      BY <1>11, TypeParts DEF ToggleWrite, Numbers
    <3>3. Words'
      BY <1>11, TypeParts DEF ToggleWrite, Words, Listed
    <3>4. QED
      BY <3>1, <3>2, <3>3, Zenon DEF SitesTypeOK, Flags, Numbers, Words
  <2>2. ListedHasData'
    BY <1>11 DEF ToggleWrite, SitesTypeOK, ListedHasData, SitesOrder, Listed
  <2>3. WorkerHasDatabase'
    BY <1>11 DEF ToggleWrite, SitesTypeOK, WorkerHasDatabase, SitesOrder, Workers
  <2>4. SitesOrder'
    BY <1>11 DEF ToggleWrite, SitesTypeOK, SitesOrder, WorkerHasDatabase, Listed, Workers
  <2>5. QED
    BY <2>1, <2>2, <2>3, <2>4
<1>12. CASE SweepList
  <2>s. ASSUME SiteSpend("others")
        PROVE  /\ spent' \in [Troubles -> Nat]
               /\ spent["crashes"] > 0 => spent'["crashes"] > 0
               /\ "others" = "crashes" => spent'["crashes"] > 0
    <3>1. "others" \in Troubles
      BY DEF Troubles
    <3>2. QED
      BY <2>s, <3>1, SpendTyped
  <2>1. SitesTypeOK'
    <3>1. Flags'
      BY <1>12, TypeParts, Zenon DEF SweepList, Flags
    <3>2. Numbers'
      BY <1>12, TypeParts DEF SweepList, Numbers
    <3>3. Words'
      BY <1>12, TypeParts, <2>s DEF SweepList, Words, Listed
    <3>4. QED
      BY <3>1, <3>2, <3>3, Zenon DEF SitesTypeOK, Flags, Numbers, Words
  <2>2. ListedHasData'
    BY <1>12, <2>s DEF SweepList, SitesTypeOK, ListedHasData, SitesOrder, Listed
  <2>3. WorkerHasDatabase'
    BY <1>12 DEF SweepList, SitesTypeOK, WorkerHasDatabase, SitesOrder, Workers
  <2>4. SitesOrder'
    BY <1>12 DEF SweepList, SitesTypeOK, SitesOrder, WorkerHasDatabase, Listed, Workers
  <2>5. QED
    BY <2>1, <2>2, <2>3, <2>4
<1>13. CASE SweepOpen
  <2>1. SitesTypeOK'
    <3>1. Flags'
      BY <1>13, TypeParts, OpenFlags, Zenon DEF SweepOpen, Flags
    <3>2. Numbers'
      BY <1>13, TypeParts, OpenNumbers DEF SweepOpen, Numbers
    <3>3. Words'
      BY <1>13, TypeParts DEF SweepOpen, Words, Listed
    <3>4. QED
      BY <3>1, <3>2, <3>3, Zenon DEF SitesTypeOK, Flags, Numbers, Words
  <2>2. ListedHasData'
    BY <1>13 DEF SweepOpen, OpenDb, SitesTypeOK, ListedHasData, SitesOrder, Listed
  <2>3. WorkerHasDatabase'
    BY <1>13 DEF SweepOpen, OpenDb, SitesTypeOK, WorkerHasDatabase, SitesOrder, Workers
  <2>4. SitesOrder'
    BY <1>13 DEF SweepOpen, OpenDb, SitesTypeOK, SitesOrder, WorkerHasDatabase, Listed, Workers
  <2>5. QED
    BY <2>1, <2>2, <2>3, <2>4
<1>14. CASE Halt
  <2>s. ASSUME SiteSpend("crashes")
        PROVE  /\ spent' \in [Troubles -> Nat]
               /\ spent["crashes"] > 0 => spent'["crashes"] > 0
               /\ "crashes" = "crashes" => spent'["crashes"] > 0
    <3>1. "crashes" \in Troubles
      BY DEF Troubles
    <3>2. QED
      BY <2>s, <3>1, SpendTyped
  <2>1. SitesTypeOK'
    <3>1. Flags'
      BY <1>14, TypeParts, Zenon DEF Halt, Flags
    <3>2. Numbers'
      BY <1>14, TypeParts DEF Halt, Numbers
    <3>3. Words'
      BY <1>14, TypeParts, <2>s DEF Halt, Words, Listed
    <3>4. QED
      BY <3>1, <3>2, <3>3, Zenon DEF SitesTypeOK, Flags, Numbers, Words
  <2>2. ListedHasData'
    BY <1>14, <2>s DEF Halt, SitesTypeOK, ListedHasData, SitesOrder, Listed
  <2>3. WorkerHasDatabase'
    BY <1>14 DEF Halt, SitesTypeOK, WorkerHasDatabase, SitesOrder, Workers
  <2>4. SitesOrder'
    BY <1>14 DEF Halt, SitesTypeOK, SitesOrder, WorkerHasDatabase, Listed, Workers
  <2>5. QED
    BY <2>1, <2>2, <2>3, <2>4
<1>15. CASE Restart
  <2>1. SitesTypeOK'
    <3>1. Flags'
      BY <1>15, TypeParts, StartFlags, Zenon DEF Restart, Flags
    <3>2. Numbers'
      BY <1>15, TypeParts, StartNumbers DEF Restart, Numbers
    <3>3. Words'
      BY <1>15, TypeParts DEF Restart, Words, Listed
    <3>4. QED
      BY <3>1, <3>2, <3>3, Zenon DEF SitesTypeOK, Flags, Numbers, Words
  <2>2. ListedHasData'
    BY <1>15 DEF Restart, StartWorker, OpenDb, SitesTypeOK, ListedHasData, SitesOrder, Listed
  <2>3. WorkerHasDatabase'
    BY <1>15 DEF Restart, StartWorker, OpenDb, SitesTypeOK, WorkerHasDatabase, SitesOrder, Workers
  <2>4. SitesOrder'
    BY <1>15 DEF Restart, StartWorker, OpenDb, SitesTypeOK, SitesOrder, WorkerHasDatabase, Listed, Workers
  <2>5. QED
    BY <2>1, <2>2, <2>3, <2>4
<1>16. CASE UNCHANGED siteVars
  BY <1>16 DEF siteVars, SitesTypeOK, ListedHasData, WorkerHasDatabase, SitesOrder
<1>17. QED
  BY <1>1, <1>2, <1>2a, <1>3, <1>4, <1>5, <1>6, <1>7, <1>8, <1>9, <1>10, <1>11, <1>12, <1>13, <1>14, <1>15, <1>16 DEF SitesNext

LEMMA SitesStarts == SitesInit => SitesInv
<1> SUFFICES ASSUME SitesInit PROVE SitesInv
  OBVIOUS
<1>1. Flags
  BY Zenon DEF SitesInit, Flags
<1>2. Numbers
  BY SitesAssumption DEF SitesInit, Numbers
<1>3. Words
  BY DEF SitesInit, Words
<1>4. ListedHasData /\ WorkerHasDatabase /\ SitesOrder
  BY DEF SitesInit, ListedHasData, WorkerHasDatabase, SitesOrder, Listed
<1>5. UndoFailed
  BY DEF SitesInit, UndoFailed
<1>6. QED
  BY <1>1, <1>2, <1>3, <1>4, <1>5, TypeParts DEF SitesInv

\* The invariant of every behaviour of a site.
THEOREM SitesInvariant == SitesSpec => []SitesInv
<1>1. QED
  BY SitesStarts, SitesStep, PTL DEF SitesSpec

\* No deletion that stops half way, and no failed creation whose clean-up works, leaves a
\* row without its database (server/admin/sites.go).  The two exceptions are the ones the
\* property names: a dead process, and a clean-up that fails and is not looked at.
THEOREM SitesListedHaveData == SitesSpec => []ListedHasData
<1>1. SitesInv => ListedHasData
  BY DEF SitesInv
<1>2. QED
  BY <1>1, SitesInvariant, PTL

\* A worker that was not started into a deletion has the database of the cache
\* (brain/manager.go, db/sitedb.go).
THEOREM SitesWorkerHasDatabase == SitesSpec => []WorkerHasDatabase
<1>1. SitesInv => WorkerHasDatabase
  BY DEF SitesInv
<1>2. QED
  BY <1>1, SitesInvariant, PTL
=============================================================================
