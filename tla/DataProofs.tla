----------------------------- MODULE DataProofs -----------------------------
(* Invariants of the content's histories, of the cache and the writes of the   *)
(* public API, of the webhooks' deliveries and of payments, and what they say  *)
(* of every behaviour of MCData, for any number of writers, requests, webhooks,*)
(* orders, failures and crashes.                                               *)
EXTENDS MCData, FiniteSetTheorems, TLAPS

-----------------------------------------------------------------------------
(* The texts of the site and their histories                                *)

Jobs == [op : {"idle", "save", "edit", "revert", "rollback", "delete", "rename"},
         at : {"begin", "number", "capture", "write", "row", "file", "move", "rename"},
         doc : Docs, seen : Texts, num : Nat, new : Texts, dir : Dirs, to : Docs, id : Nat]

ContentTyped ==
    /\ row \in [Docs -> {"none", "live", "deleted"}] /\ text \in [Rows -> Texts]
    /\ disk \in [Files -> [Dirs -> Texts]] /\ dir \in [Files -> Dirs]
    /\ versions \in [Docs -> SUBSET (Nat \X (Texts \ {NoText}))]
    /\ job \in [Writers -> Jobs] /\ layoutID \in Nat
    /\ begun \in 0 .. MaxOps /\ failures \in 0 .. MaxFailures
    /\ moved \subseteq Files /\ unsure \subseteq Docs

\* Only pages are marked as deleted, and a row that is there has a text.
RowsSound ==
    /\ \A d \in Docs \ {"page"} : row[d] # "deleted"
    /\ \A d \in Rows : row[d] = "none" <=> text[d] = NoText

\* What an operation is about to do to the page, to a file, and what it has read.
JobSound(j) ==
    /\ j.op = "idle" => j.at = "begin"
    /\ j.at \in {"number", "capture"} => j.seen # NoText
    /\ j.at \in {"number", "capture", "write"} => j.new # NoText
    /\ j.at = "row" => j.doc \in Files
    /\ j.op \in {"delete", "rename"} => j.doc \in Files
    /\ j.op = "rename" => j.to \in Files /\ j.to # j.doc
    /\ j.at \in {"move", "rename"} => j.op = "rename"
JobsSound ==
    \A w \in Writers : /\ JobSound(job[w]) /\ job[w].id <= layoutID
                       /\ job[w].op = "edit" /\ job[w].doc = "page" => row["page"] # "none"

\* The file that a row is being made for is there.
FilesThere ==
    /\ \A w \in Writers : job[w].op \in {"save", "rollback"} /\ job[w].at = "row" =>
          disk[job[w].doc][job[w].dir] # NoText \/ job[w].doc \in moved
    /\ \A w \in Writers : job[w].at = "rename" => disk[job[w].to]["tools"] # NoText \/ job[w].to \in moved

\* A history has a newest number, and one operation at a time is about to add to it.
HasNewest(vs) == vs = {} \/ \E v \in vs : \A u \in vs : u[1] <= v[1]
NumbersAhead ==
    /\ \A d \in Docs : HasNewest(versions[d])
    /\ \A w, x \in Writers : job[w].at = "capture" /\ job[x].at = "capture" /\ job[w].doc = job[x].doc =>
          w = x \/ job[w].doc \in unsure
    /\ \A w \in Writers : job[w].at = "capture" =>
          job[w].doc \in unsure \/ \A v \in versions[job[w].doc] : v[1] < job[w].num

\* What an operation has read is in the history before it writes.
ReadIsKept ==
    \A w \in Writers :
        job[w].at = "write" /\ job[w].seen # NoText /\ (job[w].doc = "layout" => job[w].id = layoutID) /\ failures = 0
        => \/ <<job[w].num, job[w].seen>> \in versions[job[w].doc]
           \/ \E v \in versions[job[w].doc] : v[1] >= job[w].num + MaxVersions

ContentInv == /\ ContentTyped /\ RowsSound /\ JobsSound /\ FilesThere /\ NumbersAhead /\ ReadIsKept
              /\ RowHasFile /\ NumberNamesOneText

\* A writer that does nothing is in a sound state.
LEMMA NoJobSound ==
    /\ NoJob \in Jobs /\ NoJob.op = "idle" /\ NoJob.at = "begin" /\ NoJob.doc = "page" /\ NoJob.seen = NoText
    /\ NoJob.new = 0 /\ NoJob.num = 0 /\ NoJob.id = 0 /\ NoJob.dir = "tools" /\ NoJob.to = "page"
    /\ JobSound(NoJob) /\ NoText \in Texts /\ NoText = 0
  BY ContentAssumption DEF NoJob, Jobs, JobSound, NoText, Texts, Docs, Rows, Dirs

\* One writer's operation goes on as j.
JobMoves(w, j) == j \in Jobs /\ job' = [job EXCEPT ![w] = j]

\* The other writers' operations stay where they are.
LEMMA OthersWait ==
    ASSUME ContentTyped, NEW w \in Writers, NEW j, JobMoves(w, j)
    PROVE  /\ job' \in [Writers -> Jobs] /\ job'[w] = j /\ \A v \in Writers : v # w => job'[v] = job[v]
  BY DEF ContentTyped, JobMoves

\* An operation that moves to a sound state leaves all of them sound.
LEMMA JobsGoOn ==
    ASSUME ContentInv, NEW w \in Writers, NEW j, JobMoves(w, j), JobSound(j), layoutID' \in Nat,
           layoutID <= layoutID', j.id <= layoutID', row["page"] # "none" => row'["page"] # "none",
           j.op = "edit" /\ j.doc = "page" => row'["page"] # "none"
    PROVE  JobsSound'
<1>1. ContentTyped /\ JobsSound
  BY DEF ContentInv
<1>2. job'[w] = j /\ \A v \in Writers : v # w => job'[v] = job[v]
  BY <1>1, OthersWait
<1>3. \A v \in Writers : job[v].id \in Nat /\ job[v].id <= layoutID => job[v].id <= layoutID'
  BY <1>1 DEF ContentTyped
<1>4. \A v \in Writers : job[v].id \in Nat
  BY <1>1 DEF ContentTyped, Jobs
<1>5. ASSUME NEW v \in Writers
      PROVE  /\ JobSound(job'[v]) /\ job'[v].id <= layoutID'
             /\ job'[v].op = "edit" /\ job'[v].doc = "page" => row'["page"] # "none"
  <2>1. CASE v = w
    BY <1>2, <2>1
  <2>2. CASE v # w
    BY <1>1, <1>2, <1>3, <1>4, <2>2 DEF JobsSound
  <2>3. QED
    BY <2>1, <2>2
<1>6. QED
  BY <1>5 DEF JobsSound

\* The files stay where they are.
LEMMA FilesStay ==
    ASSUME ContentInv, NEW w \in Writers, NEW j, JobMoves(w, j), job[w].at # "rename", UNCHANGED <<disk, dir>>,
           moved \subseteq moved', \A f \in Files : row'[f] = "live" => row[f] = "live",
           ~(j.op \in {"save", "rollback"} /\ j.at = "row"), j.at # "rename"
    PROVE  FilesThere' /\ RowHasFile'
<1>1. ContentTyped /\ FilesThere /\ RowHasFile
  BY DEF ContentInv
<1>2. job'[w] = j /\ \A v \in Writers : v # w => job'[v] = job[v]
  BY <1>1, OthersWait
<1>3. FilesThere'
  BY <1>1, <1>2 DEF FilesThere
<1>4. RowHasFile'
  <2> SUFFICES ASSUME NEW f \in Files, row'[f] = "live"
               PROVE  \/ Current(f)' # NoText
                      \/ f \in moved'
                      \/ \E v \in Writers : job'[v].at = "rename" /\ job'[v].doc = f
    BY DEF RowHasFile
  <2>1. \/ Current(f) # NoText
        \/ f \in moved
        \/ \E v \in Writers : job[v].at = "rename" /\ job[v].doc = f
    BY <1>1 DEF RowHasFile
  <2>2. Current(f)' = Current(f)
    BY DEF Current
  <2>3. \A v \in Writers : job[v].at = "rename" => job'[v] = job[v]
    BY <1>2
  <2>4. QED
    BY <2>1, <2>2, <2>3
<1>5. QED
  BY <1>3, <1>4

\* The histories stay as they are, and nobody is about to add to one who was not.
LEMMA HistoryStays ==
    ASSUME ContentInv, NEW w \in Writers, NEW j, JobMoves(w, j), UNCHANGED <<versions, layoutID>>,
           unsure \subseteq unsure', failures' = 0 => failures = 0, j.at # "capture", j.at = "write" => j.seen = NoText
    PROVE  NumbersAhead' /\ ReadIsKept' /\ NumberNamesOneText'
<1>1. ContentTyped /\ NumbersAhead /\ ReadIsKept /\ NumberNamesOneText
  BY DEF ContentInv
<1>2. job'[w] = j /\ \A v \in Writers : v # w => job'[v] = job[v]
  BY <1>1, OthersWait
<1>3. \A v \in Writers : /\ job'[v].at = "capture" => v # w /\ job'[v] = job[v]
                         /\ job'[v].at = "write" /\ job'[v].seen # NoText => v # w /\ job'[v] = job[v]
  BY <1>2
<1>4. NumbersAhead'
  BY <1>1, <1>3 DEF NumbersAhead
<1>5. ReadIsKept'
  BY <1>1, <1>3 DEF ReadIsKept
<1>6. NumberNamesOneText'
  BY <1>1 DEF NumberNamesOneText
<1>7. QED
  BY <1>4, <1>5, <1>6

\* An operation begins with what it has read, or without.
Started(w, j) == BeginOp(w, j) \/ BeginUnread(w, j)

\* An operation begins, ...
LEMMA BeginKeeps ==
    ASSUME ContentInv, NEW w \in Writers, NEW j \in Jobs, Started(w, j), JobSound(j), j.op # "idle",
           j.at \in {"number", "write", "row", "move"}, j.at = "row" => j.op = "delete",
           j.at = "write" => j.seen = NoText, j.op = "edit" /\ j.doc = "page" => row["page"] # "none"
    PROVE  ContentInv'
<1> DEFINE k == [j EXCEPT !.id = layoutID]
<1>1. /\ ContentTyped /\ layoutID \in Nat /\ begun \in 0 .. MaxOps /\ job[w].op = "idle" /\ job[w].at # "rename"
      /\ JobsSound /\ RowsSound
  BY DEF ContentInv, ContentTyped, JobsSound, JobSound, Started, BeginOp, BeginUnread, Begins
<1>2. /\ k \in Jobs /\ k.op = j.op /\ k.at = j.at /\ k.doc = j.doc /\ k.seen = j.seen /\ k.new = j.new
      /\ k.to = j.to /\ k.id = layoutID
  BY <1>1 DEF Jobs
<1>3. /\ job' = [job EXCEPT ![w] = k] /\ begun' = begun + 1 /\ begun < MaxOps
      /\ UNCHANGED <<row, text, disk, dir, versions, layoutID, moved, unsure>>
  BY DEF Started, BeginOp, BeginUnread, Begins
<1>f. failures' \in 0 .. MaxFailures /\ (failures' = 0 => failures = 0)
  BY <1>1, ContentAssumption DEF ContentTyped, Started, BeginOp, BeginUnread, Fail
<1> HIDE DEF k
<1>4. JobMoves(w, k) /\ JobSound(k) /\ layoutID <= layoutID
  BY <1>1, <1>2, <1>3 DEF JobMoves, JobSound
<1>5. ContentTyped'
  <2>1. begun' \in 0 .. MaxOps
    BY <1>1, <1>3, ContentAssumption
  <2>2. QED
    BY <1>1, <1>3, <1>f, <1>4, <2>1, OthersWait DEF ContentTyped
<1>6. JobsSound'
  BY <1>1, <1>2, <1>3, <1>4, JobsGoOn
<1>7. RowsSound'
  BY <1>1, <1>3 DEF RowsSound
<1>8. FilesThere' /\ RowHasFile'
  BY <1>1, <1>2, <1>3, <1>4, FilesStay
<1>9. NumbersAhead' /\ ReadIsKept' /\ NumberNamesOneText'
  BY <1>1, <1>2, <1>3, <1>f, <1>4, HistoryStays
<1>10. QED
  BY <1>5, <1>6, <1>7, <1>8, <1>9 DEF ContentInv

\* ... or is a single statement.
LEMMA StatementKeeps ==
    ASSUME ContentInv, NEW w \in Writers, OneStatement(w), row' \in [Docs -> {"none", "live", "deleted"}],
           text' \in [Rows -> Texts], RowsSound', row["page"] # "none" => row'["page"] # "none",
           \A f \in Files : row'[f] = "live" => row[f] = "live"
    PROVE  ContentInv'
<1>1. /\ ContentTyped /\ layoutID \in Nat /\ begun \in 0 .. MaxOps /\ job[w].op = "idle" /\ job[w].at = "begin"
      /\ JobsSound /\ RowsSound /\ job[w] \in Jobs
  BY DEF ContentInv, ContentTyped, JobsSound, JobSound, OneStatement
<1>2. /\ begun' = begun + 1 /\ begun < MaxOps
      /\ UNCHANGED <<disk, dir, versions, layoutID, job, failures, moved, unsure>>
  BY DEF OneStatement
<1>3. JobMoves(w, job[w]) /\ JobSound(job[w]) /\ job[w].id <= layoutID
  BY <1>1, <1>2 DEF JobMoves, ContentTyped, JobsSound
<1>4. ContentTyped'
  <2>1. begun' \in 0 .. MaxOps
    BY <1>1, <1>2, ContentAssumption
  <2>2. QED
    BY <1>1, <1>2, <2>1 DEF ContentTyped
<1>5. JobsSound'
  <2>1. row["page"] # "none" => row'["page"] # "none"
    OBVIOUS
  <2>2. QED
    BY <1>1, <1>2, <2>1 DEF JobsSound
<1>6. FilesThere' /\ RowHasFile'
  BY <1>1, <1>2, <1>3, FilesStay
<1>7. NumbersAhead' /\ ReadIsKept' /\ NumberNamesOneText'
  BY <1>1, <1>2, <1>3, HistoryStays
<1>8. QED
  BY <1>4, <1>5, <1>6, <1>7 DEF ContentInv

SomeText == Texts \ {NoText}

\* An operation that begins with the number of the version it keeps.
LEMMA ReplacingSound ==
    ASSUME NEW op \in {"save", "edit", "revert", "rollback"}, NEW d \in Docs, NEW seen \in SomeText, NEW new \in SomeText,
           NEW p \in Dirs
    PROVE  LET j == Replacing(op, d, seen, new)
               k == [Replacing(op, d, seen, new) EXCEPT !.dir = p] IN
           /\ j \in Jobs /\ JobSound(j) /\ j.op = op /\ j.at = "number" /\ j.doc = d
           /\ k \in Jobs /\ JobSound(k) /\ k.op = op /\ k.at = "number" /\ k.doc = d
<1> DEFINE j == Replacing(op, d, seen, new)
           k == [j EXCEPT !.dir = p]
<1>1. j \in Jobs /\ j.op = op /\ j.at = "number" /\ j.doc = d /\ j.seen = seen /\ j.new = new
  BY NoJobSound DEF Replacing, NoJob, Jobs, SomeText
<1>2. k \in Jobs /\ k.op = op /\ k.at = "number" /\ k.doc = d /\ k.seen = seen /\ k.new = new
  BY <1>1 DEF Jobs
<1>3. seen # NoText /\ new # NoText
  BY DEF SomeText
<1> HIDE DEF j, k
<1>4. JobSound(j) /\ JobSound(k)
  BY <1>1, <1>2, <1>3 DEF JobSound
<1>5. QED
  BY <1>1, <1>2, <1>4 DEF j, k

\* One that begins with its write.
LEMMA WritingSound ==
    ASSUME NEW op \in {"save", "edit", "revert", "rollback"}, NEW d \in Docs, NEW new \in SomeText, NEW p \in Dirs
    PROVE  LET j == Writing(op, d, new)
               k == [Writing(op, d, new) EXCEPT !.dir = p] IN
           /\ j \in Jobs /\ JobSound(j) /\ j.op = op /\ j.at = "write" /\ j.doc = d /\ j.seen = NoText
           /\ k \in Jobs /\ JobSound(k) /\ k.op = op /\ k.at = "write" /\ k.doc = d /\ k.seen = NoText
<1> DEFINE j == Writing(op, d, new)
           k == [j EXCEPT !.dir = p]
<1>1. j \in Jobs /\ j.op = op /\ j.at = "write" /\ j.doc = d /\ j.seen = NoText /\ j.new = new
  BY NoJobSound DEF Writing, NoJob, Jobs, SomeText
<1>2. k \in Jobs /\ k.op = op /\ k.at = "write" /\ k.doc = d /\ k.seen = NoText /\ k.new = new
  BY <1>1 DEF Jobs
<1>3. new # NoText
  BY DEF SomeText
<1> HIDE DEF j, k
<1>4. JobSound(j) /\ JobSound(k)
  BY <1>1, <1>2, <1>3 DEF JobSound
<1>5. QED
  BY <1>1, <1>2, <1>4 DEF j, k

\* A text is replaced by another, with or without a version.
LEMMA ReplacingKeeps ==
    ASSUME ContentInv, NEW w \in Writers, NEW op \in {"save", "edit", "revert", "rollback"}, NEW d \in Docs,
           NEW seen \in SomeText, NEW new \in SomeText, NEW p \in Dirs,
           op = "edit" /\ d = "page" => row["page"] # "none",
           \/ Started(w, Replacing(op, d, seen, new))
           \/ Started(w, [Replacing(op, d, seen, new) EXCEPT !.dir = p])
    PROVE  ContentInv'
<1> DEFINE j == Replacing(op, d, seen, new)
           k == [Replacing(op, d, seen, new) EXCEPT !.dir = p]
<1>1. /\ j \in Jobs /\ JobSound(j) /\ j.op = op /\ j.at = "number" /\ j.doc = d
      /\ k \in Jobs /\ JobSound(k) /\ k.op = op /\ k.at = "number" /\ k.doc = d
  BY ReplacingSound
<1>2. Started(w, j) \/ Started(w, k)
  OBVIOUS
<1> HIDE DEF j, k
<1>3. CASE Started(w, j)
  BY <1>1, <1>3, BeginKeeps
<1>4. CASE Started(w, k)
  BY <1>1, <1>4, BeginKeeps
<1>5. QED
  BY <1>2, <1>3, <1>4

\* An operation that reads nothing begins with its write.
LEMMA WritingKeeps ==
    ASSUME ContentInv, NEW w \in Writers, NEW op \in {"save", "edit", "revert", "rollback"}, NEW d \in Docs,
           NEW new \in SomeText, NEW p \in Dirs, op = "edit" /\ d = "page" => row["page"] # "none",
           \/ Started(w, Writing(op, d, new))
           \/ Started(w, [Writing(op, d, new) EXCEPT !.dir = p])
    PROVE  ContentInv'
<1> DEFINE j == Writing(op, d, new)
           k == [Writing(op, d, new) EXCEPT !.dir = p]
<1>1. /\ j \in Jobs /\ JobSound(j) /\ j.op = op /\ j.at = "write" /\ j.doc = d /\ j.seen = NoText
      /\ k \in Jobs /\ JobSound(k) /\ k.op = op /\ k.at = "write" /\ k.doc = d /\ k.seen = NoText
  BY WritingSound
<1>2. Started(w, j) \/ Started(w, k)
  OBVIOUS
<1> HIDE DEF j, k
<1>3. CASE Started(w, j)
  BY <1>1, <1>3, BeginKeeps
<1>4. CASE Started(w, k)
  BY <1>1, <1>4, BeginKeeps
<1>5. QED
  BY <1>2, <1>3, <1>4

\* What there is to read.
LEMMA TextsRead ==
    ASSUME ContentInv
    PROVE  /\ begun < MaxOps => Fresh \in SomeText
           /\ \A d \in Rows : row[d] # "none" => text[d] \in SomeText
           /\ \A d \in Docs : Kept(d) \subseteq SomeText
           /\ \A f \in Files : /\ dir[f] \in Dirs /\ Current(f) = disk[f][dir[f]]
                               /\ \A p \in Dirs : disk[f][p] \in Texts
           /\ "tools" \in Dirs /\ "admin" \in Dirs /\ Files \subseteq Docs /\ Rows \subseteq Docs
           /\ "page" \in Rows /\ "layout" \in Rows /\ "page" \notin Files /\ "layout" \notin Files
<1>1. ContentTyped /\ RowsSound
  BY DEF ContentInv
<1>2. begun < MaxOps => Fresh \in SomeText
  BY <1>1, ContentAssumption DEF ContentTyped, Fresh, SomeText, Texts, NoText
<1>3. \A d \in Rows : row[d] # "none" => text[d] \in SomeText
  BY <1>1 DEF ContentTyped, RowsSound, SomeText
<1>4. \A d \in Docs : Kept(d) \subseteq SomeText
  <2> SUFFICES ASSUME NEW d \in Docs, NEW v \in versions[d] PROVE v[2] \in SomeText
    BY DEF Kept
  <2>1. v \in Nat \X SomeText
    BY <1>1 DEF ContentTyped, SomeText
  <2>2. QED
    BY <2>1
<1>5. \A f \in Files : /\ dir[f] \in Dirs /\ Current(f) = disk[f][dir[f]]
                       /\ \A p \in Dirs : disk[f][p] \in Texts
  BY <1>1 DEF ContentTyped, Current
<1>6. QED
  BY <1>2, <1>3, <1>4, <1>5, ContentAssumption DEF Dirs, Docs, Rows

\* The row of the page or of the layout is read and replaced.
LEMMA RowReplaced ==
    ASSUME ContentInv, NEW w \in Writers, NEW d \in Rows, RowEdit(w, d) \/ RowRevert(w, d)
    PROVE  ContentInv'
<1>1. row[d] = "live" /\ d \in Docs /\ text[d] \in SomeText
  BY TextsRead DEF RowEdit, RowRevert
<1>2. PICK new \in SomeText : BeginOp(w, Replacing("edit", d, text[d], new))
  BY <1>1, TextsRead DEF RowEdit, RowRevert, BeginOp, Begins
<1>3. "edit" \in {"save", "edit", "revert", "rollback"} /\ "tools" \in Dirs
  BY DEF Dirs
<1>4. d = "page" => row["page"] # "none"
  BY <1>1
<1>5. QED
  BY <1>1, <1>2, <1>3, <1>4, ReplacingKeeps DEF Started

\* save: with what is there, or without a version.
LEMMA RowSaved ==
    ASSUME ContentInv, NEW w \in Writers, NEW d \in Rows,
           \/ BeginOp(w, IF row[d] = "live" THEN Replacing("save", d, text[d], Fresh) ELSE Writing("save", d, Fresh))
           \/ BeginUnread(w, Writing("save", d, Fresh))
    PROVE  ContentInv'
<1>0. CASE BeginUnread(w, Writing("save", d, Fresh))
  <2>1. d \in Docs /\ Fresh \in SomeText
    BY <1>0, TextsRead DEF BeginUnread, Begins
  <2>2. "save" \in {"save", "edit", "revert", "rollback"} /\ "tools" \in Dirs /\ Started(w, Writing("save", d, Fresh))
    BY <1>0 DEF Dirs, Started
  <2>3. QED
    BY <2>1, <2>2, WritingKeeps
<1> SUFFICES ASSUME BeginOp(w, IF row[d] = "live" THEN Replacing("save", d, text[d], Fresh) ELSE Writing("save", d, Fresh))
             PROVE  ContentInv'
  BY <1>0
<1>1. d \in Docs /\ (row[d] = "live" => text[d] \in SomeText) /\ Fresh \in SomeText
  BY TextsRead DEF BeginOp, Begins
<1>2. "save" \in {"save", "edit", "revert", "rollback"} /\ "tools" \in Dirs
  BY DEF Dirs
<1>3. CASE row[d] = "live"
  <2>1. BeginOp(w, Replacing("save", d, text[d], Fresh))
    BY <1>3
  <2>2. QED
    BY <1>1, <1>2, <1>3, <2>1, ReplacingKeeps DEF Started
<1>4. CASE row[d] # "live"
  <2>1. BeginOp(w, Writing("save", d, Fresh))
    BY <1>4
  <2>2. QED
    BY <1>1, <1>2, <2>1, WritingKeeps DEF Started
<1>5. QED
  BY <1>3, <1>4

\* The page's row is marked, made or rewritten by one statement.
LEMMA PageStated ==
    ASSUME ContentInv, NEW w \in Writers, OneStatement(w),
           NEW to \in {"live", "deleted"}, row' = [row EXCEPT !["page"] = to],
           \/ text' = text /\ row["page"] # "none"
           \/ text' = [text EXCEPT !["page"] = Fresh]
    PROVE  ContentInv'
<1>1. ContentTyped /\ RowsSound
  BY DEF ContentInv
<1>2. Fresh \in SomeText
  BY TextsRead DEF OneStatement
<1>3. row' \in [Docs -> {"none", "live", "deleted"}] /\ \A d \in Docs : d # "page" => row'[d] = row[d]
  BY <1>1 DEF ContentTyped
<1>4. row'["page"] = to /\ text' \in [Rows -> Texts] /\ text'["page"] # NoText
      /\ \A d \in Rows : d # "page" => text'[d] = text[d]
  BY <1>1, <1>2, TextsRead DEF ContentTyped, SomeText, RowsSound
<1>5. RowsSound'
  BY <1>1, <1>3, <1>4 DEF RowsSound, Docs
<1>6. \A f \in Files : row'[f] = row[f]
  BY <1>3, TextsRead
<1>7. QED
  BY <1>3, <1>4, <1>5, <1>6, StatementKeeps

\* The row of the layout or of a file goes.
LEMMA RowGone ==
    ASSUME ContentInv, NEW w \in Writers, OneStatement(w), NEW d \in Docs, d # "page",
           row' = [row EXCEPT ![d] = "none"],
           IF d = "layout" THEN text' = [text EXCEPT !["layout"] = NoText] ELSE text' = text
    PROVE  ContentInv'
<1>1. ContentTyped /\ RowsSound
  BY DEF ContentInv
<1>2. /\ row' \in [Docs -> {"none", "live", "deleted"}] /\ row'[d] = "none"
      /\ \A e \in Docs : e # d => row'[e] = row[e]
  BY <1>1 DEF ContentTyped
<1>3. /\ text' \in [Rows -> Texts] /\ (d = "layout" => text'["layout"] = NoText)
      /\ \A e \in Rows : e # d => text'[e] = text[e]
  BY <1>1, NoJobSound, TextsRead DEF ContentTyped
<1>4. d \in Rows => d = "layout"
  BY DEF Rows
<1>5. RowsSound'
  BY <1>1, <1>2, <1>3, <1>4, TextsRead DEF RowsSound
<1>6. row'["page"] = row["page"] /\ \A f \in Files : row'[f] = "live" => row[f] = "live"
  BY <1>2, TextsRead
<1>7. QED
  BY <1>2, <1>3, <1>5, <1>6, StatementKeeps

\* The page tool and the admin pages begin an operation.
LEMMA BeginPageKeeps == ASSUME ContentInv, NEW w \in Writers, BeginPage(w) PROVE ContentInv'
<1>t. ContentTyped
  BY DEF ContentInv
<1>r. "page" \in Rows /\ "page" \in Docs
  BY DEF Rows, Docs
<1>1. CASE PageSave(w)
  BY <1>1, <1>r, RowSaved DEF PageSave
<1>2. CASE PagePatch(w) \/ PageEditLines(w) \/ PageRegexReplace(w) \/ AdminPageRevert(w)
  BY <1>2, <1>r, RowReplaced DEF PagePatch, PageEditLines, PageRegexReplace, AdminPageRevert
<1>3. CASE PageRevert(w)
  <2>1. PICK t \in Kept("page") : BeginOp(w, Replacing("revert", "page", text["page"], t))
    BY <1>3 DEF PageRevert
  <2>2. t \in SomeText /\ text["page"] \in SomeText
    BY <1>3, <1>r, <2>1, TextsRead DEF PageRevert
  <2>3. "revert" \in {"save", "edit", "revert", "rollback"} /\ "tools" \in Dirs /\ "revert" # "edit"
    BY DEF Dirs
  <2>4. QED
    BY <1>r, <2>1, <2>2, <2>3, ReplacingKeeps DEF Started
<1>4. CASE PageDelete(w) \/ AdminPageDelete(w)
  BY <1>4, PageStated DEF PageDelete, AdminPageDelete
<1>5. CASE PageRestore(w)
  BY <1>5, PageStated DEF PageRestore
<1>6. CASE AdminPageCreate(w)
  BY <1>6, PageStated DEF AdminPageCreate
<1>7. CASE AdminPageUpdate(w)
  <2>1. row' = [row EXCEPT !["page"] = "live"]
    BY <1>7, <1>t DEF AdminPageUpdate, ContentTyped
  <2>2. QED
    BY <1>7, <2>1, PageStated DEF AdminPageUpdate
<1>8. QED
  BY <1>1, <1>2, <1>3, <1>4, <1>5, <1>6, <1>7 DEF BeginPage

\* So do the layout tool and the admin layouts.
LEMMA BeginLayoutKeeps == ASSUME ContentInv, NEW w \in Writers, BeginLayout(w) PROVE ContentInv'
<1>r. "layout" \in Rows /\ "layout" \in Docs /\ "layout" # "page"
  BY DEF Rows, Docs
<1>1. CASE LayoutSave(w)
  BY <1>1, <1>r, RowSaved DEF LayoutSave
<1>2. CASE LayoutPatch(w) \/ AdminLayoutUpdate(w) \/ LayoutRevert(w) \/ AdminLayoutRevert(w)
  BY <1>2, <1>r, RowReplaced DEF LayoutPatch, AdminLayoutUpdate, LayoutRevert, AdminLayoutRevert
<1>3. CASE AdminLayoutDelete(w)
  BY <1>3, <1>r, RowGone DEF AdminLayoutDelete
<1>4. QED
  BY <1>1, <1>2, <1>3 DEF BeginLayout

\* So do the file and media tools and the admin assets.
LEMMA BeginFileKeeps == ASSUME ContentInv, NEW w \in Writers, NEW f \in Files, BeginFile(w, f) PROVE ContentInv'
<1>t. ContentTyped /\ f \in Docs /\ f # "page" /\ f # "layout" /\ "tools" \in Dirs /\ "admin" \in Dirs
  BY TextsRead DEF ContentInv
<1>o. {"save", "edit", "rollback"} \subseteq {"save", "edit", "revert", "rollback"}
  OBVIOUS
<1>c. dir[f] \in Dirs /\ \A p \in Dirs : disk[f][p] # NoText => disk[f][p] \in SomeText
  BY TextsRead DEF SomeText
<1>d. Current(f) # NoText => Current(f) \in SomeText
  BY <1>c, TextsRead
<1>1. CASE FileSave(w, f)
  <2>1. Fresh \in SomeText
    BY <1>1, TextsRead DEF FileSave, BeginOp, BeginUnread, Begins
  <2>2. \/ Started(w, Writing("save", f, Fresh))
        \/ Current(f) # NoText /\ Started(w, Replacing("save", f, Current(f), Fresh))
    BY <1>1 DEF FileSave, Started
  <2>3. CASE Started(w, Writing("save", f, Fresh))
    BY <1>t, <2>1, <2>3, WritingKeeps
  <2>4. CASE Current(f) # NoText /\ Started(w, Replacing("save", f, Current(f), Fresh))
    BY <1>t, <1>d, <2>1, <2>4, ReplacingKeeps
  <2>5. QED
    BY <2>2, <2>3, <2>4
<1>2. CASE FilePatch(w, f) \/ FileEditLines(w, f) \/ FileRegexReplace(w, f)
  <2>1. /\ Current(f) # NoText /\ BeginOp(w, [Replacing("edit", f, Current(f), Fresh) EXCEPT !.dir = dir[f]])
    BY <1>2 DEF FilePatch, FileEditLines, FileRegexReplace, FileEdit
  <2>2. Fresh \in SomeText
    BY <2>1, TextsRead DEF BeginOp, Begins
  <2>3. QED
    BY <1>t, <1>c, <1>d, <2>1, <2>2, ReplacingKeeps DEF Started
<1>3. CASE FileRollback(w, f)
  <2>1. PICK t \in Kept(f) :
           \/ Started(w, Writing("rollback", f, t))
           \/ disk[f]["tools"] # NoText /\ Started(w, Replacing("rollback", f, disk[f]["tools"], t))
    BY <1>3 DEF FileRollback, Started
  <2>2. t \in SomeText
    BY <1>t, <2>1, TextsRead
  <2>3. CASE Started(w, Writing("rollback", f, t))
    BY <1>t, <2>2, <2>3, WritingKeeps
  <2>4. CASE disk[f]["tools"] # NoText /\ Started(w, Replacing("rollback", f, disk[f]["tools"], t))
    BY <1>t, <1>c, <2>2, <2>4, ReplacingKeeps
  <2>5. QED
    BY <2>1, <2>3, <2>4
<1>4. CASE AdminAssetRevert(w, f)
  <2>1. PICK t \in Kept(f) :
           \/ Started(w, [Writing("edit", f, t) EXCEPT !.dir = dir[f]])
           \/ Current(f) # NoText /\ Started(w, [Replacing("edit", f, Current(f), t) EXCEPT !.dir = dir[f]])
    BY <1>4 DEF AdminAssetRevert, Started
  <2>2. t \in SomeText
    BY <1>t, <2>1, TextsRead
  <2>3. CASE Started(w, [Writing("edit", f, t) EXCEPT !.dir = dir[f]])
    BY <1>t, <1>c, <2>2, <2>3, WritingKeeps
  <2>4. CASE Current(f) # NoText /\ Started(w, [Replacing("edit", f, Current(f), t) EXCEPT !.dir = dir[f]])
    BY <1>t, <1>c, <1>d, <2>2, <2>4, ReplacingKeeps
  <2>5. QED
    BY <2>1, <2>3, <2>4
<1>5. CASE FetchImage(w, f) \/ AdminTextAsset(w, f) \/ AdminUpload(w, f)
           \/ MediaResize(w, f) \/ MediaThumbnail(w, f) \/ MediaOptimize(w, f)
  <2>1. PICK op \in {"save", "edit"}, p \in Dirs : \/ BeginOp(w, Writing(op, f, Fresh))
                                                   \/ BeginOp(w, [Writing(op, f, Fresh) EXCEPT !.dir = p])
    BY <1>5, <1>t DEF FetchImage, AdminTextAsset, AdminUpload, MediaResize, MediaThumbnail, MediaOptimize, MediaWrite
  <2>2. Fresh \in SomeText
    BY <2>1, TextsRead DEF BeginOp, Begins
  <2>3. QED
    BY <1>t, <2>1, <2>2, WritingKeeps DEF Started
<1>6. CASE FileDelete(w, f)
  <2> DEFINE j == [NoJob EXCEPT !.op = "delete", !.at = "row", !.doc = f, !.dir = dir[f]]
  <2>1. j \in Jobs /\ j.op = "delete" /\ j.at = "row" /\ j.doc = f /\ j.seen = NoText
    BY <1>t, <1>c, NoJobSound DEF NoJob, Jobs
  <2>2. BeginOp(w, j)
    BY <1>6 DEF FileDelete
  <2> HIDE DEF j
  <2>3. JobSound(j)
    BY <2>1 DEF JobSound
  <2>4. QED
    BY <2>1, <2>2, <2>3, BeginKeeps DEF Started
<1>7. ASSUME NEW g \in Files, FileRename(w, f, g) PROVE ContentInv'
  <2> DEFINE j == [NoJob EXCEPT !.op = "rename", !.at = "move", !.doc = f, !.dir = dir[f], !.to = g]
  <2>1. j \in Jobs /\ j.op = "rename" /\ j.at = "move" /\ j.doc = f /\ j.seen = NoText /\ j.to = g /\ f # g
    BY <1>7, <1>t, <1>c, NoJobSound, TextsRead DEF NoJob, Jobs, FileRename
  <2>2. BeginOp(w, j)
    BY <1>7 DEF FileRename
  <2> HIDE DEF j
  <2>3. JobSound(j)
    BY <2>1 DEF JobSound
  <2>4. QED
    BY <2>1, <2>2, <2>3, BeginKeeps DEF Started
<1>8. CASE AdminAssetDelete(w, f)
  BY <1>8, <1>t, RowGone DEF AdminAssetDelete
<1>9. QED
  BY <1>1, <1>2, <1>3, <1>4, <1>5, <1>6, <1>7, <1>8 DEF BeginFile

\* The newest number of a history.
LEMMA NewestIs ==
    ASSUME NEW d, versions[d] \in SUBSET (Nat \X SomeText), HasNewest(versions[d])
    PROVE  Newest(d) \in Nat /\ \A v \in versions[d] : v[1] <= Newest(d)
<1>1. CASE versions[d] = {}
  BY <1>1 DEF Newest
<1>2. CASE versions[d] # {}
  <2>1. PICK v \in versions[d] : \A u \in versions[d] : u[1] <= v[1]
    BY <1>2 DEF HasNewest
  <2>2. v[1] \in Numbers(d) /\ \A m \in Numbers(d) : m <= v[1]
    BY <2>1 DEF Numbers
  <2>3. Newest(d) = CHOOSE n \in Numbers(d) : \A m \in Numbers(d) : m <= n
    BY <1>2 DEF Newest
  <2>4. Newest(d) \in Numbers(d) /\ \A m \in Numbers(d) : m <= Newest(d)
    BY <2>2, <2>3
  <2>5. \A u \in versions[d] : u[1] \in Numbers(d) /\ u[1] \in Nat
    BY DEF Numbers
  <2>6. Numbers(d) \subseteq Nat
    BY <2>5 DEF Numbers
  <2>7. QED
    BY <2>4, <2>5, <2>6
<1>3. QED
  BY <1>1, <1>2

\* What all the steps of an operation under way have in common.
LEMMA UnderWayIs ==
    ASSUME ContentInv, NEW w \in Writers
    PROVE  LET j == job[w] IN
           /\ ContentTyped /\ RowsSound /\ JobsSound /\ FilesThere /\ NumbersAhead /\ ReadIsKept
           /\ RowHasFile /\ NumberNamesOneText
           /\ j \in Jobs /\ JobSound(j) /\ j.id <= layoutID /\ j.id \in Nat /\ layoutID \in Nat /\ layoutID <= layoutID
           /\ j.doc \in Docs /\ j.num \in Nat /\ j.seen \in Texts /\ j.new \in Texts
           /\ versions[j.doc] \in SUBSET (Nat \X SomeText)
           /\ failures \in 0 .. MaxFailures /\ (Fail => failures' \in 0 .. MaxFailures /\ failures' # 0)
           /\ row \in [Docs -> {"none", "live", "deleted"}] /\ text \in [Rows -> Texts] /\ job \in [Writers -> Jobs]
<1>1. /\ ContentTyped /\ RowsSound /\ JobsSound /\ FilesThere /\ NumbersAhead /\ ReadIsKept
      /\ RowHasFile /\ NumberNamesOneText
  BY DEF ContentInv
<1>2. /\ job[w] \in Jobs /\ JobSound(job[w]) /\ job[w].id <= layoutID /\ layoutID \in Nat /\ layoutID <= layoutID
      /\ failures \in 0 .. MaxFailures /\ versions \in [Docs -> SUBSET (Nat \X SomeText)]
      /\ row \in [Docs -> {"none", "live", "deleted"}] /\ text \in [Rows -> Texts] /\ job \in [Writers -> Jobs]
  BY <1>1 DEF ContentTyped, JobsSound, SomeText
<1>3. /\ job[w].doc \in Docs /\ job[w].num \in Nat /\ job[w].seen \in Texts /\ job[w].new \in Texts
      /\ job[w].id \in Nat
  BY <1>2 DEF Jobs
<1>4. Fail => failures' \in 0 .. MaxFailures /\ failures' # 0
  BY <1>2, ContentAssumption DEF Fail
<1>5. QED
  BY <1>1, <1>2, <1>3, <1>4

\* An operation gets a number: one that is ahead of the history, or its document is unsure.
NumberIs(w, n) ==
    LET d == job[w].doc IN
    /\ job[w].op # "idle" /\ job[w].at = "number"
    /\ job' = [job EXCEPT ![w] = [job[w] EXCEPT !.at = "capture", !.num = n]]
    /\ unsure \subseteq unsure' /\ unsure' \subseteq unsure \cup {d}
    /\ (\E v \in Writers : job[v].at = "capture" /\ job[v].doc = d) => d \in unsure'
    /\ d \in unsure' \/ \A v \in versions[d] : v[1] < n
    /\ UNCHANGED <<row, text, disk, dir, versions, layoutID, begun, moved>>
    /\ failures' \in 0 .. MaxFailures /\ (failures' = 0 => failures = 0)

\* An operation with its number is about to add a version.
LEMMA Numbered ==
    ASSUME ContentInv, NEW w \in Writers, NEW n \in Nat, NumberIs(w, n) PROVE ContentInv'
<1> DEFINE d == job[w].doc
           j == [job[w] EXCEPT !.at = "capture", !.num = n]
<1>1. /\ job[w] \in Jobs /\ JobSound(job[w]) /\ d \in Docs /\ job[w].id <= layoutID /\ layoutID \in Nat
      /\ layoutID <= layoutID /\ versions[d] \in SUBSET (Nat \X SomeText)
      /\ ContentTyped /\ NumbersAhead /\ ReadIsKept /\ RowsSound /\ JobsSound /\ NumberNamesOneText
  BY UnderWayIs
<1>2. /\ job[w].at = "number" /\ job[w].op # "idle" /\ job' = [job EXCEPT ![w] = j]
      /\ unsure \subseteq unsure' /\ unsure' \subseteq unsure \cup {d}
      /\ (\E v \in Writers : job[v].at = "capture" /\ job[v].doc = d) => d \in unsure'
      /\ UNCHANGED <<row, text, disk, dir, versions, layoutID, begun, moved>>
      /\ failures' \in 0 .. MaxFailures /\ (failures' = 0 => failures = 0)
  BY <1>1 DEF NumberIs, ContentTyped
<1>3. d \in unsure' \/ \A v \in versions[d] : v[1] < n
  BY DEF NumberIs
<1>4. /\ j \in Jobs /\ j.at = "capture" /\ j.num = n /\ j.op = job[w].op /\ j.doc = d /\ j.seen = job[w].seen
      /\ j.new = job[w].new /\ j.id = job[w].id /\ j.to = job[w].to
  BY <1>1 DEF Jobs
<1> HIDE DEF j
<1>5. JobMoves(w, j) /\ JobSound(j)
  BY <1>1, <1>2, <1>4 DEF JobMoves, JobSound
<1>6. job' \in [Writers -> Jobs] /\ job'[w] = j /\ \A v \in Writers : v # w => job'[v] = job[v]
  BY <1>1, <1>5, OthersWait
<1>7. ContentTyped'
  BY <1>1, <1>2, <1>6 DEF ContentTyped
<1>8. RowsSound'
  BY <1>1, <1>2 DEF RowsSound
<1>9. JobsSound'
  BY <1>1, <1>2, <1>4, <1>5, JobsGoOn DEF JobsSound
<1>10. FilesThere' /\ RowHasFile'
  BY <1>2, <1>4, <1>5, FilesStay
<1>11. NumbersAhead'
  <2>1. \A e \in Docs : HasNewest(versions'[e])
    BY <1>1, <1>2 DEF NumbersAhead
  <2>2. ASSUME NEW v \in Writers, v # w, job'[v].at = "capture", job'[v].doc = d PROVE d \in unsure'
    BY <1>2, <1>6, <2>2
  <2>3. ASSUME NEW v \in Writers, NEW x \in Writers, job'[v].at = "capture", job'[x].at = "capture",
               job'[v].doc = job'[x].doc, v # x
        PROVE  job'[v].doc \in unsure'
    <3>1. CASE v = w
      BY <1>4, <1>6, <2>2, <2>3, <3>1
    <3>2. CASE x = w
      BY <1>4, <1>6, <2>2, <2>3, <3>2
    <3>3. CASE v # w /\ x # w
      BY <1>1, <1>2, <1>6, <2>3, <3>3 DEF NumbersAhead
    <3>4. QED
      BY <3>1, <3>2, <3>3
  <2>4. ASSUME NEW v \in Writers, job'[v].at = "capture"
        PROVE  job'[v].doc \in unsure' \/ \A u \in versions'[job'[v].doc] : u[1] < job'[v].num
    <3>1. CASE v = w
      BY <1>2, <1>3, <1>4, <1>6, <3>1
    <3>2. CASE v # w
      BY <1>1, <1>2, <1>6, <2>4, <3>2 DEF NumbersAhead
    <3>3. QED
      BY <3>1, <3>2
  <2>5. QED
    BY <2>1, <2>3, <2>4 DEF NumbersAhead
<1>12. ReadIsKept'
  BY <1>1, <1>2, <1>4, <1>6 DEF ReadIsKept
<1>13. NumberNamesOneText'
  BY <1>1, <1>2 DEF NumberNamesOneText
<1>14. QED
  BY <1>7, <1>8, <1>9, <1>10, <1>11, <1>12, <1>13 DEF ContentInv

\* An operation that looks for a number gets one, or goes on without a version.
LEMMA NumberKeeps == ASSUME ContentInv, NEW w \in Writers, Number(w) PROVE ContentInv'
<1> DEFINE d == job[w].doc
           j == [job[w] EXCEPT !.at = "write"]
<1>1. /\ job[w] \in Jobs /\ JobSound(job[w]) /\ d \in Docs /\ job[w].id <= layoutID /\ layoutID \in Nat
      /\ layoutID <= layoutID /\ versions[d] \in SUBSET (Nat \X SomeText) /\ failures \in 0 .. MaxFailures
      /\ ContentTyped /\ NumbersAhead /\ ReadIsKept /\ RowsSound /\ JobsSound /\ NumberNamesOneText
      /\ (Fail => failures' \in 0 .. MaxFailures /\ failures' # 0) /\ job \in [Writers -> Jobs]
  BY UnderWayIs
<1>2. /\ job[w].at = "number" /\ job[w].op # "idle"
      /\ UNCHANGED <<row, text, disk, dir, versions, layoutID, begun, moved>>
  BY DEF Number
<1>3. CASE /\ job' = [job EXCEPT ![w].at = "capture", ![w].num = Newest(d) + 1]
           /\ unsure' = IF \E v \in Writers : job[v].at = "capture" /\ job[v].doc = d THEN unsure \cup {d} ELSE unsure
           /\ UNCHANGED failures
  <2>1. Newest(d) \in Nat /\ \A v \in versions[d] : v[1] <= Newest(d)
    BY <1>1, NewestIs DEF NumbersAhead
  <2>2. \A v \in versions[d] : v[1] \in Nat
    BY <1>1
  <2> DEFINE n == Newest(d) + 1
  <2>3. n \in Nat /\ \A v \in versions[d] : v[1] < n
    BY <2>1, <2>2
  <2>4. job' = [job EXCEPT ![w] = [job[w] EXCEPT !.at = "capture", !.num = n]]
    BY <1>1, <1>3
  <2> HIDE DEF n
  <2>5. NumberIs(w, n)
    BY <1>1, <1>2, <1>3, <2>3, <2>4 DEF NumberIs
  <2>6. QED
    BY <2>3, <2>5, Numbered
<1>4. CASE Fail /\ job' = [job EXCEPT ![w].at = "capture", ![w].num = 1] /\ unsure' = unsure \cup {d}
  <2>1. job' = [job EXCEPT ![w] = [job[w] EXCEPT !.at = "capture", !.num = 1]]
    BY <1>1, <1>4
  <2>2. NumberIs(w, 1)
    BY <1>1, <1>2, <1>4, <2>1 DEF NumberIs
  <2>3. QED
    BY <2>2, Numbered
<1>5. CASE Fail /\ JobAt(w, "write") /\ UNCHANGED unsure
  <2>1. job' = [job EXCEPT ![w] = j] /\ failures' \in 0 .. MaxFailures /\ failures' # 0
    BY <1>1, <1>5 DEF JobAt
  <2>2. /\ j \in Jobs /\ j.at = "write" /\ j.num = job[w].num /\ j.op = job[w].op /\ j.doc = d /\ j.seen = job[w].seen
        /\ j.new = job[w].new /\ j.id = job[w].id /\ j.to = job[w].to
    BY <1>1 DEF Jobs
  <2> HIDE DEF j
  <2>3. JobMoves(w, j) /\ JobSound(j)
    BY <1>1, <1>2, <2>1, <2>2 DEF JobMoves, JobSound
  <2>4. job' \in [Writers -> Jobs] /\ job'[w] = j /\ \A v \in Writers : v # w => job'[v] = job[v]
    BY <1>1, <2>3, OthersWait
  <2>5. ContentTyped' /\ RowsSound'
    BY <1>1, <1>2, <1>5, <2>1, <2>4 DEF ContentTyped, RowsSound
  <2>6. JobsSound'
    BY <1>1, <1>2, <2>2, <2>3, JobsGoOn DEF JobsSound
  <2>7. FilesThere' /\ RowHasFile'
    BY <1>2, <2>2, <2>3, FilesStay
  <2>8. \A v \in Writers : job'[v].at = "capture" => v # w /\ job'[v] = job[v]
    BY <2>2, <2>4
  <2>9. NumbersAhead'
    BY <1>1, <1>2, <1>5, <2>8 DEF NumbersAhead
  <2>10. ReadIsKept'
    BY <2>1 DEF ReadIsKept
  <2>11. NumberNamesOneText'
    BY <1>1, <1>2, <1>5 DEF NumberNamesOneText
  <2>12. QED
    BY <2>5, <2>6, <2>7, <2>9, <2>10, <2>11 DEF ContentInv
<1>6. QED
  BY <1>3, <1>4, <1>5 DEF Number

\* What a save prunes is older than what it adds by MaxVersions and more, so that the
\* newest stays, and what is gone has been passed.
LEMMA PruningKeeps ==
    ASSUME NEW S \in SUBSET (Nat \X SomeText), NEW n \in Nat, NEW t \in SomeText, HasNewest(S), NEW P,
           P = S \cup {<<n, t>>} \/ P = {v \in S \cup {<<n, t>>} : v[1] + MaxVersions > n}
    PROVE  /\ P \in SUBSET (Nat \X SomeText) /\ <<n, t>> \in P /\ HasNewest(P)
           /\ \A v \in P : v = <<n, t>> \/ v \in S
           /\ \A v \in S : v \in P \/ n >= v[1] + MaxVersions
<1> DEFINE vs == S \cup {<<n, t>>}
           e == <<n, t>>
<1>1. e \in Nat \X SomeText /\ e[1] = n /\ vs \in SUBSET (Nat \X SomeText) /\ MaxVersions \in Nat /\ MaxVersions > 0
  BY ContentAssumption
<1>2. \A v \in vs : v[1] \in Nat
  BY <1>1
<1>3. P \subseteq vs /\ \A v \in vs : v \in P \/ n >= v[1] + MaxVersions
  BY <1>1, <1>2
<1>4. e \in P /\ \A v \in vs : v[1] >= n => v \in P
  BY <1>1, <1>2
<1>5. \E v \in vs : v[1] >= n /\ \A u \in vs : u[1] <= v[1]
  <2>1. CASE S = {}
    <3>1. vs = {e}
      BY <2>1
    <3>2. QED
      BY <1>1, <3>1
  <2>2. CASE S # {}
    <3>1. PICK m \in S : \A u \in S : u[1] <= m[1]
      BY <2>2 DEF HasNewest
    <3>2. m[1] \in Nat /\ m \in vs /\ e \in vs
      BY <1>2, <3>1
    <3>3. CASE m[1] >= n
      <4>1. \A u \in vs : u[1] <= m[1]
        BY <1>1, <3>1, <3>2, <3>3
      <4>2. QED
        BY <3>2, <3>3, <4>1
    <3>4. CASE ~(m[1] >= n)
      <4>1. \A u \in vs : u[1] <= e[1]
        BY <1>1, <1>2, <3>1, <3>2, <3>4
      <4>2. QED
        BY <1>1, <3>2, <4>1
    <3>5. QED
      BY <3>3, <3>4
  <2>3. QED
    BY <2>1, <2>2
<1>6. HasNewest(P)
  BY <1>3, <1>4, <1>5 DEF HasNewest
<1>7. QED
  BY <1>1, <1>3, <1>4, <1>6

\* What an operation overwrites goes into the history first.
LEMMA CaptureKeeps == ASSUME ContentInv, NEW w \in Writers, Capture(w) PROVE ContentInv'
<1> DEFINE d == job[w].doc
           n == job[w].num
           t == job[w].seen
           j == [job[w] EXCEPT !.at = "write"]
           P == Pruned(w, versions[d] \cup {<<n, t>>})
<1>1. /\ job[w] \in Jobs /\ JobSound(job[w]) /\ d \in Docs /\ job[w].id <= layoutID /\ job[w].id \in Nat
      /\ layoutID \in Nat
      /\ layoutID <= layoutID /\ versions[d] \in SUBSET (Nat \X SomeText) /\ n \in Nat /\ t \in Texts
      /\ ContentTyped /\ NumbersAhead /\ ReadIsKept /\ RowsSound /\ JobsSound /\ NumberNamesOneText
      /\ failures \in 0 .. MaxFailures /\ (Fail => failures' \in 0 .. MaxFailures /\ failures' # 0)
  BY UnderWayIs
<1>2. /\ job[w].at = "capture" /\ job[w].op # "idle" /\ job' = [job EXCEPT ![w] = j]
      /\ UNCHANGED <<row, text, disk, dir, layoutID, begun, moved, unsure>>
  BY <1>1 DEF Capture, JobAt, ContentTyped
<1>3. /\ j \in Jobs /\ j.at = "write" /\ j.num = n /\ j.op = job[w].op /\ j.doc = d /\ j.seen = t
      /\ j.new = job[w].new /\ j.id = job[w].id /\ j.to = job[w].to
  BY <1>1 DEF Jobs
<1> HIDE DEF j
<1>4. JobMoves(w, j) /\ JobSound(j) /\ t \in SomeText
  BY <1>1, <1>2, <1>3 DEF JobMoves, JobSound, SomeText
<1>5. job' \in [Writers -> Jobs] /\ job'[w] = j /\ \A v \in Writers : v # w => job'[v] = job[v]
  BY <1>1, <1>4, OthersWait
<1>6. RowsSound'
  BY <1>1, <1>2 DEF RowsSound
<1>7. JobsSound'
  BY <1>1, <1>2, <1>3, <1>4, JobsGoOn DEF JobsSound
<1>8. FilesThere' /\ RowHasFile'
  BY <1>2, <1>3, <1>4, FilesStay
<1>9. \/ versions' = [versions EXCEPT ![d] = P] /\ failures' = failures /\ (d # "layout" \/ job[w].id = layoutID)
      \/ versions' = versions /\ failures' = failures /\ d = "layout" /\ job[w].id # layoutID
      \/ versions' = versions /\ failures' \in 0 .. MaxFailures /\ failures' # 0
  BY <1>1 DEF Capture
<1>10. failures' \in 0 .. MaxFailures /\ (failures' = 0 => failures = 0)
  BY <1>1, <1>9
<1>11. ASSUME versions' = versions, (d = "layout" /\ job[w].id # layoutID) \/ failures' # 0
       PROVE  ContentTyped' /\ NumbersAhead' /\ ReadIsKept' /\ NumberNamesOneText'
  <2>1. ContentTyped'
    BY <1>1, <1>2, <1>5, <1>10, <1>11 DEF ContentTyped
  <2>2. \A v \in Writers : job'[v].at = "capture" => v # w /\ job'[v] = job[v]
    BY <1>3, <1>5
  <2>3. NumbersAhead'
    BY <1>1, <1>2, <1>11, <2>2 DEF NumbersAhead
  <2>4. ReadIsKept'
    BY <1>1, <1>2, <1>3, <1>5, <1>10, <1>11 DEF ReadIsKept
  <2>5. NumberNamesOneText'
    BY <1>1, <1>2, <1>11 DEF NumberNamesOneText
  <2>6. QED
    BY <2>1, <2>3, <2>4, <2>5
<1>12. ASSUME versions' = [versions EXCEPT ![d] = P], failures' = failures
       PROVE  ContentTyped' /\ NumbersAhead' /\ ReadIsKept' /\ NumberNamesOneText'
  <2>1. HasNewest(versions[d])
    BY <1>1 DEF NumbersAhead
  <2>2. P = versions[d] \cup {<<n, t>>} \/ P = {v \in versions[d] \cup {<<n, t>>} : v[1] + MaxVersions > n}
    BY DEF Pruned
  <2> HIDE DEF P
  <2>3. /\ P \in SUBSET (Nat \X SomeText) /\ <<n, t>> \in P /\ HasNewest(P)
        /\ \A v \in P : v = <<n, t>> \/ v \in versions[d]
        /\ \A v \in versions[d] : v \in P \/ n >= v[1] + MaxVersions
    BY <1>1, <1>4, <2>1, <2>2, PruningKeeps
  <2>4. versions \in [Docs -> SUBSET (Nat \X SomeText)]
    BY <1>1 DEF ContentTyped, SomeText
  <2>5. /\ versions' \in [Docs -> SUBSET (Nat \X SomeText)] /\ versions'[d] = P
        /\ \A e \in Docs : e # d => versions'[e] = versions[e]
    BY <1>1, <1>12, <2>3, <2>4
  <2>6. ContentTyped'
    BY <1>1, <1>2, <1>5, <1>10, <2>5 DEF ContentTyped, SomeText
  <2>7. \A v \in Writers : job'[v].at = "capture" => v # w /\ job'[v] = job[v]
    BY <1>3, <1>5
  <2>8. NumbersAhead'
    <3>1. \A e \in Docs : HasNewest(versions'[e])
      BY <1>1, <2>3, <2>5 DEF NumbersAhead
    <3>2. \A v, x \in Writers : job'[v].at = "capture" /\ job'[x].at = "capture" /\ job'[v].doc = job'[x].doc =>
             v = x \/ job'[v].doc \in unsure'
      BY <1>1, <1>2, <2>7 DEF NumbersAhead
    <3>3. ASSUME NEW v \in Writers, job'[v].at = "capture"
          PROVE  job'[v].doc \in unsure' \/ \A u \in versions'[job'[v].doc] : u[1] < job'[v].num
      <4>1. v # w /\ job'[v] = job[v] /\ job[v].at = "capture"
        BY <2>7, <3>3
      <4>2. CASE job[v].doc = d
        BY <1>1, <1>2, <4>1, <4>2 DEF NumbersAhead
      <4>3. CASE job[v].doc # d
        <5>1. job[v].doc \in Docs
          BY <1>1 DEF ContentTyped, Jobs
        <5>2. versions'[job[v].doc] = versions[job[v].doc]
          BY <2>5, <4>3, <5>1
        <5>3. QED
          BY <1>1, <1>2, <4>1, <5>2 DEF NumbersAhead
      <4>4. QED
        BY <4>2, <4>3
    <3>4. QED
      BY <3>1, <3>2, <3>3 DEF NumbersAhead
  <2>9. ReadIsKept'
    <3> SUFFICES ASSUME NEW v \in Writers, job'[v].at = "write", job'[v].seen # NoText,
                        job'[v].doc = "layout" => job'[v].id = layoutID, failures = 0
                 PROVE  \/ <<job'[v].num, job'[v].seen>> \in versions'[job'[v].doc]
                        \/ \E u \in versions'[job'[v].doc] : u[1] >= job'[v].num + MaxVersions
      BY <1>2, <1>12 DEF ReadIsKept
    <3>1. CASE v = w
      BY <1>3, <1>5, <2>3, <2>5, <3>1
    <3>2. CASE v # w
      <4> DEFINE k == job[v]
      <4>1. job'[v] = k /\ k \in Jobs /\ k.num \in Nat /\ k.doc \in Docs /\ MaxVersions \in Nat
        BY <1>1, <1>5, <3>2, ContentAssumption DEF ContentTyped, Jobs
      <4>2. \/ <<k.num, k.seen>> \in versions[k.doc]
            \/ \E u \in versions[k.doc] : u[1] >= k.num + MaxVersions
        BY <1>1, <4>1 DEF ReadIsKept
      <4> HIDE DEF k
      <4>3. CASE k.doc # d
        BY <2>5, <4>1, <4>2, <4>3
      <4>4. CASE k.doc = d
        <5>1. PICK u \in versions[d] : u = <<k.num, k.seen>> \/ u[1] >= k.num + MaxVersions
          BY <4>2, <4>4
        <5>2. u[1] \in Nat /\ u[1] >= k.num
          BY <1>1, <4>1, <5>1
        <5>3. CASE u \in P
          BY <2>5, <4>1, <4>4, <5>1, <5>3
        <5>4. CASE n >= u[1] + MaxVersions
          <6>1. n >= k.num + MaxVersions
            BY <1>1, <4>1, <5>2, <5>4
          <6>2. <<n, t>> \in versions'[k.doc] /\ <<n, t>>[1] = n
            BY <2>3, <2>5, <4>4
          <6>3. QED
            BY <4>1, <6>1, <6>2
        <5>5. QED
          BY <2>3, <5>1, <5>3, <5>4
      <4>5. QED
        BY <4>3, <4>4
    <3>3. QED
      BY <3>1, <3>2
  <2>10. NumberNamesOneText'
    <3> SUFFICES ASSUME NEW e \in Docs \ unsure, NEW u \in versions'[e], NEW v \in versions'[e], u[1] = v[1]
                 PROVE  u = v
      BY <1>2 DEF NumberNamesOneText
    <3>1. CASE e # d
      BY <1>1, <2>5, <3>1 DEF NumberNamesOneText
    <3>2. CASE e = d
      <4>1. \A x \in versions[d] : x[1] < n /\ x[1] \in Nat
        BY <1>1, <1>2, <3>2 DEF NumbersAhead
      <4>2. (u = <<n, t>> \/ u \in versions[d]) /\ (v = <<n, t>> \/ v \in versions[d])
        BY <2>3, <2>5, <3>2
      <4>3. CASE u \in versions[d] /\ v \in versions[d]
        BY <1>1, <3>2, <4>3 DEF NumberNamesOneText
      <4>4. CASE u = <<n, t>>
        BY <1>1, <4>1, <4>2, <4>4
      <4>5. CASE v = <<n, t>>
        BY <1>1, <4>1, <4>2, <4>5
      <4>6. QED
        BY <4>2, <4>3, <4>4, <4>5
    <3>3. QED
      BY <3>1, <3>2
  <2>11. QED
    BY <2>6, <2>8, <2>9, <2>10
<1>13. QED
  BY <1>6, <1>7, <1>8, <1>9, <1>11, <1>12 DEF ContentInv

\* An operation that ends touches neither the histories nor what others do to files.
LEMMA EndedQuietly ==
    ASSUME ContentInv, NEW w \in Writers, Done(w), UNCHANGED <<versions, layoutID, unsure>>,
           failures' = failures \/ Fail, row["page"] # "none" => row'["page"] # "none"
    PROVE  /\ JobsSound' /\ NumbersAhead' /\ ReadIsKept' /\ NumberNamesOneText' /\ JobMoves(w, NoJob)
           /\ failures' \in 0 .. MaxFailures /\ job' \in [Writers -> Jobs] /\ job'[w] = NoJob
           /\ \A v \in Writers : v # w => job'[v] = job[v]
<1>1. JobMoves(w, NoJob)
  BY NoJobSound DEF Done, JobMoves
<1>2. /\ layoutID \in Nat /\ layoutID <= layoutID /\ ContentTyped /\ failures \in 0 .. MaxFailures
      /\ (Fail => failures' \in 0 .. MaxFailures /\ failures' # 0)
  BY UnderWayIs
<1>3. failures' \in 0 .. MaxFailures /\ (failures' = 0 => failures = 0)
  BY <1>2
<1>4. NoJob.id <= layoutID
  BY <1>2, NoJobSound
<1>5. JobsSound'
  BY <1>1, <1>2, <1>4, NoJobSound, JobsGoOn
<1>6. NumbersAhead' /\ ReadIsKept' /\ NumberNamesOneText'
  BY <1>1, <1>3, NoJobSound, HistoryStays
<1>7. QED
  BY <1>1, <1>2, <1>3, <1>5, <1>6, OthersWait

\* An edit that matches nothing ends.
LEMMA NoMatchKeeps == ASSUME ContentInv, NEW w \in Writers, NoMatch(w) PROVE ContentInv'
<1>1. /\ Done(w) /\ UNCHANGED <<row, text, disk, dir, versions, layoutID, begun, failures, moved, unsure>>
      /\ job[w].at = "write"
  BY DEF NoMatch
<1>2. ContentTyped /\ RowsSound
  BY DEF ContentInv
<1>3. /\ JobsSound' /\ NumbersAhead' /\ ReadIsKept' /\ NumberNamesOneText' /\ JobMoves(w, NoJob)
      /\ job' \in [Writers -> Jobs]
  BY <1>1, EndedQuietly
<1>4. FilesThere' /\ RowHasFile'
  BY <1>1, <1>3, NoJobSound, FilesStay
<1>5. ContentTyped' /\ RowsSound'
  BY <1>1, <1>2, <1>3 DEF ContentTyped, RowsSound
<1>6. QED
  BY <1>3, <1>4, <1>5 DEF ContentInv

\* The page is written.
LEMMA PageWriteKeeps == ASSUME ContentInv, NEW w \in Writers, PageWrite(w) PROVE ContentInv'
<1>1. /\ job[w].op # "idle" /\ job[w].at = "write" /\ job[w].doc = "page" /\ Done(w)
      /\ UNCHANGED <<disk, dir, versions, layoutID, begun, moved, unsure>>
      /\ failures' = failures \/ Fail
  BY DEF PageWrite
<1>2. ContentTyped /\ RowsSound /\ JobsSound /\ JobSound(job[w]) /\ job[w].new \in Texts
      /\ row \in [Docs -> {"none", "live", "deleted"}] /\ text \in [Rows -> Texts]
  BY UnderWayIs
<1>3. job[w].new # NoText /\ (job[w].op = "edit" => row["page"] # "none")
  BY <1>1, <1>2 DEF JobSound, JobsSound
<1>4. "page" \in Docs /\ "page" \in Rows /\ "page" \notin Files /\ Files \subseteq Docs
  BY TextsRead
<1> DEFINE to == IF job[w].op = "edit" THEN row["page"] ELSE "live"
<1>5. \/ /\ text' = [text EXCEPT !["page"] = job[w].new] /\ row' = [row EXCEPT !["page"] = to]
      \/ UNCHANGED <<row, text>>
  BY DEF PageWrite
<1>6. to \in {"live", "deleted"}
  BY <1>2, <1>3, <1>4
<1> HIDE DEF to
<1>7. /\ row' \in [Docs -> {"none", "live", "deleted"}] /\ text' \in [Rows -> Texts]
      /\ \A d \in Docs : d # "page" => row'[d] = row[d]
      /\ \A d \in Rows : d # "page" => text'[d] = text[d]
      /\ \/ row'["page"] # "none" /\ text'["page"] # NoText
         \/ row'["page"] = row["page"] /\ text'["page"] = text["page"]
  BY <1>2, <1>3, <1>4, <1>5, <1>6
<1>8. RowsSound'
  BY <1>2, <1>4, <1>7 DEF RowsSound, Docs
<1>9. row["page"] # "none" => row'["page"] # "none"
  BY <1>2, <1>4, <1>5, <1>6
<1>10. /\ JobsSound' /\ NumbersAhead' /\ ReadIsKept' /\ NumberNamesOneText' /\ JobMoves(w, NoJob)
       /\ failures' \in 0 .. MaxFailures /\ job' \in [Writers -> Jobs]
  BY <1>1, <1>9, EndedQuietly
<1>11. FilesThere' /\ RowHasFile'
  <2>1. \A f \in Files : row'[f] = row[f]
    BY <1>4, <1>7
  <2>2. QED
    BY <1>1, <1>10, <2>1, NoJobSound, FilesStay
<1>12. ContentTyped'
  BY <1>1, <1>2, <1>7, <1>10 DEF ContentTyped
<1>13. QED
  BY <1>8, <1>10, <1>11, <1>12 DEF ContentInv

\* The row of a deleted file goes.
LEMMA RowRemoved ==
    ASSUME ContentInv, NEW w \in Writers, RemoveRow(w)
    PROVE  ContentInv'
<1> DEFINE d == job[w].doc
           j == [job[w] EXCEPT !.at = "file"]
<1>1. /\ job[w].op = "delete" /\ job[w].at = "row"
      /\ UNCHANGED <<text, disk, dir, versions, layoutID, begun, moved, unsure>>
      /\ \/ row' = [row EXCEPT ![d] = "none"] /\ JobAt(w, "file") /\ UNCHANGED failures
         \/ Fail /\ Done(w) /\ UNCHANGED row
  BY DEF RemoveRow
<1>2. /\ ContentTyped /\ RowsSound /\ JobsSound /\ JobSound(job[w]) /\ job[w] \in Jobs /\ d \in Docs
      /\ row \in [Docs -> {"none", "live", "deleted"}] /\ job[w].id <= layoutID /\ layoutID \in Nat
      /\ layoutID <= layoutID /\ job \in [Writers -> Jobs] /\ failures \in 0 .. MaxFailures
  BY UnderWayIs
<1>3. d \in Files /\ d # "page" /\ d # "layout" /\ "page" \in Docs /\ Rows \subseteq Docs /\ Files \subseteq Docs
  BY <1>1, <1>2, TextsRead DEF JobSound
<1>4. ASSUME row' = [row EXCEPT ![d] = "none"], JobAt(w, "file"), UNCHANGED failures PROVE ContentInv'
  <2>1. /\ j \in Jobs /\ j.at = "file" /\ j.op = "delete" /\ j.doc = d /\ j.seen = job[w].seen /\ j.new = job[w].new
        /\ j.id = job[w].id /\ j.to = job[w].to
    BY <1>1, <1>2 DEF Jobs
  <2>2. job' = [job EXCEPT ![w] = j]
    BY <1>2, <1>4 DEF JobAt
  <2> HIDE DEF j
  <2>3. JobMoves(w, j) /\ JobSound(j)
    BY <1>1, <1>2, <2>1, <2>2 DEF JobMoves, JobSound
  <2>4. row' \in [Docs -> {"none", "live", "deleted"}] /\ row'[d] = "none" /\ \A e \in Docs : e # d => row'[e] = row[e]
    BY <1>2, <1>4
  <2>5. job' \in [Writers -> Jobs]
    BY <1>2, <2>3, OthersWait
  <2>6. ContentTyped'
    BY <1>1, <1>2, <1>4, <2>4, <2>5 DEF ContentTyped
  <2>7. RowsSound'
    BY <1>1, <1>2, <1>3, <2>4 DEF RowsSound, Rows
  <2>8. JobsSound'
    BY <1>1, <1>2, <1>3, <2>1, <2>3, <2>4, JobsGoOn
  <2>9. FilesThere' /\ RowHasFile'
    BY <1>1, <1>3, <2>1, <2>3, <2>4, FilesStay
  <2>10. NumbersAhead' /\ ReadIsKept' /\ NumberNamesOneText'
    BY <1>1, <1>4, <2>1, <2>3, HistoryStays
  <2>11. QED
    BY <2>6, <2>7, <2>8, <2>9, <2>10 DEF ContentInv
<1>5. ASSUME Fail, Done(w), UNCHANGED row PROVE ContentInv'
  <2>1. /\ JobsSound' /\ NumbersAhead' /\ ReadIsKept' /\ NumberNamesOneText' /\ JobMoves(w, NoJob)
        /\ failures' \in 0 .. MaxFailures /\ job' \in [Writers -> Jobs]
    BY <1>1, <1>5, EndedQuietly
  <2>2. FilesThere' /\ RowHasFile'
    BY <1>1, <1>5, <2>1, NoJobSound, FilesStay
  <2>3. ContentTyped' /\ RowsSound'
    BY <1>1, <1>2, <1>5, <2>1 DEF ContentTyped, RowsSound
  <2>4. QED
    BY <2>1, <2>2, <2>3 DEF ContentInv
<1>6. QED
  BY <1>1, <1>4, <1>5

\* The layout is written, to the row that was read.
LEMMA LayoutWriteKeeps == ASSUME ContentInv, NEW w \in Writers, LayoutWrite(w) PROVE ContentInv'
<1> DEFINE new == job[w].new
<1>1. /\ job[w].op # "idle" /\ job[w].at = "write" /\ job[w].doc = "layout" /\ Done(w)
      /\ UNCHANGED <<disk, dir, begun, moved, unsure>>
  BY DEF LayoutWrite
<1>2. /\ ContentTyped /\ RowsSound /\ JobsSound /\ NumbersAhead /\ ReadIsKept /\ NumberNamesOneText
      /\ JobSound(job[w]) /\ new \in Texts /\ layoutID \in Nat /\ failures \in 0 .. MaxFailures
      /\ row \in [Docs -> {"none", "live", "deleted"}] /\ text \in [Rows -> Texts]
  BY UnderWayIs
<1>3. new # NoText
  BY <1>1, <1>2 DEF JobSound
<1>4. /\ "layout" \in Docs /\ "layout" \in Rows /\ "layout" \notin Files /\ Files \subseteq Docs /\ "layout" # "page"
      /\ "page" \in Docs /\ Rows \subseteq Docs
  BY TextsRead
<1>5. \/ /\ row["layout"] = "live" /\ text' = [text EXCEPT !["layout"] = new]
         /\ UNCHANGED <<row, versions, layoutID, failures>>
      \/ /\ row' = [row EXCEPT !["layout"] = "live"] /\ text' = [text EXCEPT !["layout"] = new]
         /\ versions' = [versions EXCEPT !["layout"] = {}] /\ layoutID' = layoutID + 1 /\ UNCHANGED failures
      \/ UNCHANGED <<row, text, versions, layoutID>> /\ (failures' = failures \/ Fail)
  BY DEF LayoutWrite
<1>6. /\ row' \in [Docs -> {"none", "live", "deleted"}] /\ text' \in [Rows -> Texts]
      /\ \A d \in Docs : d # "layout" => row'[d] = row[d]
      /\ \A d \in Rows : d # "layout" => text'[d] = text[d]
      /\ \/ row'["layout"] = "live" /\ text'["layout"] # NoText
         \/ row'["layout"] = row["layout"] /\ text'["layout"] = text["layout"]
  BY <1>2, <1>3, <1>4, <1>5
<1>7. RowsSound'
  BY <1>2, <1>4, <1>6 DEF RowsSound
<1>8. row["page"] # "none" => row'["page"] # "none"
  BY <1>4, <1>6
<1>9. \A f \in Files : row'[f] = row[f]
  BY <1>4, <1>6
<1>10. ASSUME UNCHANGED <<versions, layoutID>>, failures' = failures \/ Fail PROVE ContentInv'
  <2>1. /\ JobsSound' /\ NumbersAhead' /\ ReadIsKept' /\ NumberNamesOneText' /\ JobMoves(w, NoJob)
        /\ failures' \in 0 .. MaxFailures /\ job' \in [Writers -> Jobs]
    BY <1>1, <1>8, <1>10, EndedQuietly
  <2>2. FilesThere' /\ RowHasFile'
    BY <1>1, <1>9, <2>1, NoJobSound, FilesStay
  <2>3. ContentTyped'
    BY <1>1, <1>2, <1>6, <1>10, <2>1 DEF ContentTyped
  <2>4. QED
    BY <1>7, <2>1, <2>2, <2>3 DEF ContentInv
<1>11. ASSUME versions' = [versions EXCEPT !["layout"] = {}], layoutID' = layoutID + 1, UNCHANGED failures
       PROVE  ContentInv'
  <2>1. JobMoves(w, NoJob)
    BY <1>1, NoJobSound DEF Done, JobMoves
  <2>2. job' \in [Writers -> Jobs] /\ job'[w] = NoJob /\ \A v \in Writers : v # w => job'[v] = job[v]
    BY <1>2, <2>1, OthersWait
  <2>3. layoutID' \in Nat /\ layoutID <= layoutID' /\ NoJob.id <= layoutID'
    BY <1>2, <1>11, NoJobSound
  <2>4. JobsSound'
    BY <1>8, <2>1, <2>3, NoJobSound, JobsGoOn
  <2>5. FilesThere' /\ RowHasFile'
    BY <1>1, <1>9, <2>1, NoJobSound, FilesStay
  <2>6. /\ versions' \in [Docs -> SUBSET (Nat \X (Texts \ {NoText}))] /\ versions'["layout"] = {}
        /\ \A d \in Docs : d # "layout" => versions'[d] = versions[d]
    BY <1>2, <1>4, <1>11 DEF ContentTyped
  <2>7. ContentTyped'
    BY <1>1, <1>2, <1>6, <1>11, <2>2, <2>3, <2>6 DEF ContentTyped
  <2>8. \A v \in Writers : /\ job'[v].at \in {"capture", "write"} => v # w /\ job'[v] = job[v]
                           /\ job[v].doc \in Docs /\ job[v].id \in Nat /\ job[v].id <= layoutID
    BY <1>2, <2>2, NoJobSound DEF ContentTyped, Jobs, JobsSound
  <2>9. NumbersAhead'
    <3>1. \A d \in Docs : HasNewest(versions'[d])
      BY <1>2, <2>6 DEF NumbersAhead, HasNewest
    <3>2. ASSUME NEW v \in Writers, job'[v].at = "capture"
          PROVE  job'[v].doc \in unsure' \/ \A u \in versions'[job'[v].doc] : u[1] < job'[v].num
      BY <1>1, <1>2, <2>6, <2>8, <3>2 DEF NumbersAhead
    <3>3. \A v, x \in Writers : job'[v].at = "capture" /\ job'[x].at = "capture" /\ job'[v].doc = job'[x].doc =>
             v = x \/ job'[v].doc \in unsure'
      BY <1>1, <1>2, <2>8 DEF NumbersAhead
    <3>4. QED
      BY <3>1, <3>2, <3>3 DEF NumbersAhead
  <2>10. ReadIsKept'
    <3> SUFFICES ASSUME NEW v \in Writers, job'[v].at = "write", job'[v].seen # NoText,
                        job'[v].doc = "layout" => job'[v].id = layoutID', failures = 0
                 PROVE  \/ <<job'[v].num, job'[v].seen>> \in versions'[job'[v].doc]
                        \/ \E u \in versions'[job'[v].doc] : u[1] >= job'[v].num + MaxVersions
      BY <1>11 DEF ReadIsKept
    <3>1. job'[v] = job[v] /\ job[v].doc \in Docs /\ job[v].id # layoutID'
      BY <1>2, <1>11, <2>8
    <3>2. job[v].doc # "layout"
      BY <3>1
    <3>3. versions'[job[v].doc] = versions[job[v].doc]
      BY <2>6, <3>1, <3>2
    <3>4. \/ <<job[v].num, job[v].seen>> \in versions[job[v].doc]
          \/ \E u \in versions[job[v].doc] : u[1] >= job[v].num + MaxVersions
      BY <1>2, <3>1, <3>2 DEF ReadIsKept
    <3>5. QED
      BY <3>1, <3>3, <3>4
  <2>11. NumberNamesOneText'
    BY <1>1, <1>2, <2>6 DEF NumberNamesOneText
  <2>12. QED
    BY <1>7, <2>4, <2>5, <2>7, <2>9, <2>10, <2>11 DEF ContentInv
<1>12. QED
  BY <1>5, <1>10, <1>11

\* Files
\* A file is written, and nothing is taken away from any other.
LEMMA FileWriteKeeps == ASSUME ContentInv, NEW w \in Writers, FileWrite(w) PROVE ContentInv'
<1> DEFINE f == job[w].doc
           p == job[w].dir
           new == job[w].new
           k == [job[w] EXCEPT !.at = "row"]
<1>1. /\ job[w].op # "idle" /\ job[w].at = "write" /\ f \in Files
      /\ UNCHANGED <<row, text, dir, versions, layoutID, begun, moved, unsure>>
      /\ \/ /\ disk' = [disk EXCEPT ![f][p] = new] /\ UNCHANGED failures
            /\ Done(w) \/ JobAt(w, "row")
         \/ Fail /\ Done(w) /\ UNCHANGED disk
  BY DEF FileWrite
<1>2. /\ ContentTyped /\ RowsSound /\ JobsSound /\ FilesThere /\ RowHasFile /\ JobSound(job[w]) /\ job[w] \in Jobs
      /\ job[w].id <= layoutID /\ layoutID \in Nat /\ layoutID <= layoutID /\ job \in [Writers -> Jobs]
      /\ failures \in 0 .. MaxFailures /\ new \in Texts
  BY UnderWayIs
<1>3. new # NoText /\ p \in Dirs /\ disk \in [Files -> [Dirs -> Texts]] /\ f # "page"
  BY <1>1, <1>2, TextsRead DEF JobSound, Jobs, ContentTyped
<1>4. ASSUME Fail, Done(w), UNCHANGED disk PROVE ContentInv'
  <2>1. /\ JobsSound' /\ NumbersAhead' /\ ReadIsKept' /\ NumberNamesOneText' /\ JobMoves(w, NoJob)
        /\ failures' \in 0 .. MaxFailures /\ job' \in [Writers -> Jobs]
    BY <1>1, <1>4, EndedQuietly
  <2>2. FilesThere' /\ RowHasFile'
    BY <1>1, <1>4, <2>1, NoJobSound, FilesStay
  <2>3. ContentTyped' /\ RowsSound'
    BY <1>1, <1>2, <1>4, <2>1 DEF ContentTyped, RowsSound
  <2>4. QED
    BY <2>1, <2>2, <2>3 DEF ContentInv
<1>5. ASSUME disk' = [disk EXCEPT ![f][p] = new], UNCHANGED failures, NEW j, JobMoves(w, j), JobSound(j),
             j.id <= layoutID, j.at \in {"begin", "row"}, j.op = "edit" => j.doc # "page",
             j.at = "row" => j.doc = f /\ j.dir = p
      PROVE  ContentInv'
  <2>1. /\ disk' \in [Files -> [Dirs -> Texts]] /\ disk'[f][p] = new
        /\ \A g \in Files, q \in Dirs : disk[g][q] # NoText => disk'[g][q] # NoText
    BY <1>1, <1>2, <1>3, <1>5
  <2>2. job' \in [Writers -> Jobs] /\ job'[w] = j /\ \A v \in Writers : v # w => job'[v] = job[v]
    BY <1>2, <1>5, OthersWait
  <2>3. ContentTyped' /\ RowsSound'
    BY <1>1, <1>2, <1>5, <2>1, <2>2 DEF ContentTyped, RowsSound
  <2>4. JobsSound'
    BY <1>1, <1>2, <1>5, JobsGoOn
  <2>5. NumbersAhead' /\ ReadIsKept' /\ NumberNamesOneText'
    BY <1>1, <1>5, HistoryStays
  <2>6. FilesThere'
    <3>1. ASSUME NEW v \in Writers, job'[v].op \in {"save", "rollback"}, job'[v].at = "row"
          PROVE  disk'[job'[v].doc][job'[v].dir] # NoText \/ job'[v].doc \in moved'
      <4>1. CASE v = w
        BY <1>3, <1>5, <2>1, <2>2, <3>1, <4>1
      <4>2. CASE v # w
        <5>1. job'[v] = job[v] /\ job[v].dir \in Dirs /\ job[v].doc \in Files
          BY <1>2, <2>2, <3>1, <4>2 DEF Jobs, JobsSound, JobSound
        <5>2. disk[job[v].doc][job[v].dir] # NoText \/ job[v].doc \in moved
          BY <1>2, <3>1, <5>1 DEF FilesThere
        <5>3. QED
          BY <1>1, <2>1, <5>1, <5>2
      <4>3. QED
        BY <4>1, <4>2
    <3>2. ASSUME NEW v \in Writers, job'[v].at = "rename"
          PROVE  disk'[job'[v].to]["tools"] # NoText \/ job'[v].to \in moved'
      <4>1. v # w /\ job'[v] = job[v] /\ job[v].to \in Files /\ "tools" \in Dirs
        BY <1>2, <1>5, <2>2, <3>2 DEF JobsSound, JobSound, Dirs
      <4>2. disk[job[v].to]["tools"] # NoText \/ job[v].to \in moved
        BY <1>2, <3>2, <4>1 DEF FilesThere
      <4>3. QED
        BY <1>1, <2>1, <4>1, <4>2
    <3>3. QED
      BY <3>1, <3>2 DEF FilesThere
  <2>7. RowHasFile'
    <3> SUFFICES ASSUME NEW g \in Files, row'[g] = "live"
                 PROVE  \/ Current(g)' # NoText
                        \/ g \in moved'
                        \/ \E v \in Writers : job'[v].at = "rename" /\ job'[v].doc = g
      BY DEF RowHasFile
    <3>1. \/ Current(g) # NoText
          \/ g \in moved
          \/ \E v \in Writers : job[v].at = "rename" /\ job[v].doc = g
      BY <1>1, <1>2 DEF RowHasFile
    <3>2. Current(g) = disk[g][dir[g]] /\ Current(g)' = disk'[g][dir[g]] /\ dir[g] \in Dirs
      BY <1>1, <1>2 DEF Current, ContentTyped
    <3>3. \A v \in Writers : job[v].at = "rename" => job'[v] = job[v]
      BY <1>1, <2>2
    <3>4. QED
      BY <1>1, <2>1, <3>1, <3>2, <3>3
  <2>8. QED
    BY <2>3, <2>4, <2>5, <2>6, <2>7 DEF ContentInv
<1>6. ASSUME disk' = [disk EXCEPT ![f][p] = new], UNCHANGED failures, Done(w) PROVE ContentInv'
  <2>1. JobMoves(w, NoJob) /\ NoJob.id <= layoutID
    BY <1>2, <1>6, NoJobSound DEF Done, JobMoves
  <2>2. QED
    BY <1>5, <1>6, <2>1, NoJobSound
<1>7. ASSUME disk' = [disk EXCEPT ![f][p] = new], UNCHANGED failures, JobAt(w, "row") PROVE ContentInv'
  <2>1. /\ k \in Jobs /\ k.at = "row" /\ k.op = job[w].op /\ k.doc = f /\ k.dir = p /\ k.id = job[w].id
        /\ k.seen = job[w].seen /\ k.new = new /\ k.to = job[w].to
    BY <1>2 DEF Jobs
  <2>2. job' = [job EXCEPT ![w] = k]
    BY <1>2, <1>7 DEF JobAt
  <2> HIDE DEF k
  <2>3. JobMoves(w, k) /\ JobSound(k)
    BY <1>1, <1>2, <2>1, <2>2 DEF JobMoves, JobSound
  <2>4. QED
    BY <1>2, <1>3, <1>5, <1>7, <2>1, <2>3
<1>8. QED
  BY <1>1, <1>4, <1>6, <1>7

\* The row that is made has its file.
LEMMA FileRowKeeps == ASSUME ContentInv, NEW w \in Writers, FileRow(w) PROVE ContentInv'
<1> DEFINE f == job[w].doc
           p == job[w].dir
<1>1. /\ job[w].op \in {"save", "rollback"} /\ job[w].at = "row" /\ Done(w)
      /\ UNCHANGED <<text, disk, versions, layoutID, begun, moved, unsure>>
      /\ \/ /\ row' = [row EXCEPT ![f] = "live"] /\ dir' = [dir EXCEPT ![f] = p] /\ UNCHANGED failures
         \/ UNCHANGED <<row, dir>> /\ (failures' = failures \/ Fail)
  BY DEF FileRow
<1>2. /\ ContentTyped /\ RowsSound /\ FilesThere /\ RowHasFile /\ JobSound(job[w]) /\ job[w] \in Jobs
      /\ row \in [Docs -> {"none", "live", "deleted"}]
  BY UnderWayIs
<1>3. f \in Files /\ p \in Dirs /\ f \in Docs /\ f # "page" /\ f # "layout" /\ "page" \in Docs /\ Rows \subseteq Docs
      /\ Files \subseteq Docs
  BY <1>1, <1>2, TextsRead DEF JobSound, Jobs
<1>4. disk[f][p] # NoText \/ f \in moved
  BY <1>1, <1>2 DEF FilesThere
<1>5. /\ row' \in [Docs -> {"none", "live", "deleted"}] /\ dir' \in [Files -> Dirs]
      /\ \A d \in Docs : d # f => row'[d] = row[d]
      /\ \A g \in Files : g # f => dir'[g] = dir[g]
      /\ \/ row'[f] = "live" /\ dir'[f] = p
         \/ row'[f] = row[f] /\ dir'[f] = dir[f]
  BY <1>1, <1>2, <1>3, SMTT(30) DEF ContentTyped
<1>6. /\ JobsSound' /\ NumbersAhead' /\ ReadIsKept' /\ NumberNamesOneText' /\ JobMoves(w, NoJob)
      /\ failures' \in 0 .. MaxFailures /\ job' \in [Writers -> Jobs] /\ job'[w] = NoJob
      /\ \A v \in Writers : v # w => job'[v] = job[v]
  BY <1>1, <1>3, <1>5, EndedQuietly
<1>7. ContentTyped'
  BY <1>1, <1>2, <1>5, <1>6 DEF ContentTyped
<1>8. RowsSound'
  BY <1>1, <1>2, <1>3, <1>5 DEF RowsSound, Rows
<1>9. FilesThere'
  BY <1>1, <1>2, <1>6, NoJobSound DEF FilesThere
<1>10. RowHasFile'
  <2> SUFFICES ASSUME NEW g \in Files, row'[g] = "live"
               PROVE  \/ Current(g)' # NoText
                      \/ g \in moved'
                      \/ \E v \in Writers : job'[v].at = "rename" /\ job'[v].doc = g
    BY DEF RowHasFile
  <2>1. Current(g) = disk[g][dir[g]] /\ Current(g)' = disk[g][dir'[g]]
    BY <1>1 DEF Current
  <2>2. \A v \in Writers : job[v].at = "rename" => job'[v] = job[v]
    BY <1>1, <1>6
  <2>3. CASE g = f /\ row'[f] = "live" /\ dir'[f] = p
    BY <1>1, <1>4, <2>1, <2>3
  <2>4. CASE row'[g] = row[g] /\ dir'[g] = dir[g]
    <3>1. \/ Current(g) # NoText
          \/ g \in moved
          \/ \E v \in Writers : job[v].at = "rename" /\ job[v].doc = g
      BY <1>2, <2>4 DEF RowHasFile
    <3>2. QED
      BY <1>1, <2>1, <2>2, <2>4, <3>1
  <2>5. QED
    BY <1>3, <1>5, <2>3, <2>4
<1>11. QED
  BY <1>6, <1>7, <1>8, <1>9, <1>10 DEF ContentInv

\* A file is removed: whoever has its row, or is making it, finds it moved.
LEMMA DeleteFileKeeps == ASSUME ContentInv, NEW w \in Writers, DeleteFile(w) PROVE ContentInv'
<1> DEFINE f == job[w].doc
           p == job[w].dir
<1>1. /\ job[w].op = "delete" /\ job[w].at = "file" /\ Done(w)
      /\ UNCHANGED <<row, text, dir, versions, layoutID, begun, unsure>>
      /\ \/ /\ disk' = [disk EXCEPT ![f][p] = NoText]
            /\ moved' = IF InTheMaking(w, f) THEN moved \cup {f} ELSE moved
            /\ UNCHANGED failures
         \/ Fail /\ UNCHANGED <<disk, moved>>
  BY DEF DeleteFile
<1>2. /\ ContentTyped /\ RowsSound /\ JobsSound /\ FilesThere /\ RowHasFile /\ JobSound(job[w]) /\ job[w] \in Jobs
  BY UnderWayIs
<1>3. f \in Files /\ p \in Dirs
  BY <1>1, <1>2 DEF JobSound, Jobs
<1>4. /\ JobsSound' /\ NumbersAhead' /\ ReadIsKept' /\ NumberNamesOneText' /\ JobMoves(w, NoJob)
      /\ failures' \in 0 .. MaxFailures /\ job' \in [Writers -> Jobs] /\ job'[w] = NoJob
      /\ \A v \in Writers : v # w => job'[v] = job[v]
  BY <1>1, EndedQuietly
<1>5. /\ disk' \in [Files -> [Dirs -> Texts]] /\ moved \subseteq moved' /\ moved' \subseteq Files
      /\ \A g \in Files, q \in Dirs : g # f => disk'[g][q] = disk[g][q]
  BY <1>1, <1>2, <1>3, NoJobSound, SMTT(30) DEF ContentTyped
<1>6. disk' = disk \/ f \in moved' \/ ~InTheMaking(w, f)
  BY <1>1
<1>7. ContentTyped' /\ RowsSound'
  BY <1>1, <1>2, <1>4, <1>5 DEF ContentTyped, RowsSound
<1>8. \A v \in Writers : job'[v].at # "begin" => v # w /\ job'[v] = job[v] /\ job[v] \in Jobs /\ job[v].op # "idle"
  BY <1>2, <1>4, NoJobSound DEF ContentTyped, JobsSound, JobSound
<1>9. FilesThere'
  <2>1. ASSUME NEW v \in Writers, job'[v].op \in {"save", "rollback"}, job'[v].at = "row"
        PROVE  disk'[job'[v].doc][job'[v].dir] # NoText \/ job'[v].doc \in moved'
    <3>1. v # w /\ job'[v] = job[v] /\ job[v].doc \in Files /\ job[v].dir \in Dirs /\ job[v].op # "idle"
      BY <1>2, <1>8, <2>1 DEF JobsSound, JobSound, Jobs
    <3>2. disk[job[v].doc][job[v].dir] # NoText \/ job[v].doc \in moved
      BY <1>2, <2>1, <3>1 DEF FilesThere
    <3>3. job[v].doc = f => InTheMaking(w, f)
      BY <3>1 DEF InTheMaking
    <3>4. QED
      BY <1>5, <1>6, <3>1, <3>2, <3>3
  <2>2. ASSUME NEW v \in Writers, job'[v].at = "rename"
        PROVE  disk'[job'[v].to]["tools"] # NoText \/ job'[v].to \in moved'
    <3>1. v # w /\ job'[v] = job[v] /\ job[v].to \in Files /\ "tools" \in Dirs /\ job[v].op # "idle"
      BY <1>2, <1>8, <2>2 DEF JobsSound, JobSound, Dirs
    <3>2. disk[job[v].to]["tools"] # NoText \/ job[v].to \in moved
      BY <1>2, <2>2, <3>1 DEF FilesThere
    <3>3. job[v].to = f => InTheMaking(w, f)
      BY <3>1 DEF InTheMaking
    <3>4. QED
      BY <1>5, <1>6, <3>1, <3>2, <3>3
  <2>3. QED
    BY <2>1, <2>2 DEF FilesThere
<1>10. RowHasFile'
  <2> SUFFICES ASSUME NEW g \in Files, row'[g] = "live"
               PROVE  \/ Current(g)' # NoText
                      \/ g \in moved'
                      \/ \E v \in Writers : job'[v].at = "rename" /\ job'[v].doc = g
    BY DEF RowHasFile
  <2>1. \/ Current(g) # NoText
        \/ g \in moved
        \/ \E v \in Writers : job[v].at = "rename" /\ job[v].doc = g
    BY <1>1, <1>2 DEF RowHasFile
  <2>2. Current(g) = disk[g][dir[g]] /\ Current(g)' = disk'[g][dir[g]] /\ dir[g] \in Dirs
    BY <1>1, <1>2 DEF Current, ContentTyped
  <2>3. \A v \in Writers : job[v].at = "rename" => job'[v] = job[v]
    BY <1>1, <1>4
  <2>4. g = f => InTheMaking(w, f)
    BY <1>1 DEF InTheMaking
  <2>5. QED
    BY <1>5, <1>6, <2>1, <2>2, <2>3, <2>4
<1>11. QED
  BY <1>4, <1>7, <1>9, <1>10 DEF ContentInv

\* The file is moved: until the row follows, the operation says so.
LEMMA RenameMoveKeeps == ASSUME ContentInv, NEW w \in Writers, RenameMove(w) PROVE ContentInv'
<1> DEFINE f == job[w].doc
           p == job[w].dir
           g == job[w].to
           k == [job[w] EXCEPT !.at = "rename"]
           crowd == \E v \in Writers \ {w} : job[v].op # "idle" /\ {job[v].doc, job[v].to} \cap {f, g} # {}
<1>1. /\ job[w].op = "rename" /\ job[w].at = "move"
      /\ UNCHANGED <<row, text, dir, versions, layoutID, begun, unsure>>
      /\ moved' = IF crowd THEN moved \cup {f, g} ELSE moved
      /\ \/ /\ disk[f][p] # NoText /\ disk' = [disk EXCEPT ![g]["tools"] = disk[f][p], ![f][p] = NoText]
            /\ JobAt(w, "rename") /\ UNCHANGED failures
         \/ Done(w) /\ UNCHANGED disk /\ (failures' = failures \/ Fail)
  BY DEF RenameMove
<1>2. /\ ContentTyped /\ RowsSound /\ JobsSound /\ FilesThere /\ RowHasFile /\ JobSound(job[w]) /\ job[w] \in Jobs
      /\ job[w].id <= layoutID /\ layoutID \in Nat /\ layoutID <= layoutID /\ job \in [Writers -> Jobs]
      /\ failures \in 0 .. MaxFailures
  BY UnderWayIs
<1>3. f \in Files /\ g \in Files /\ g # f /\ p \in Dirs /\ "tools" \in Dirs
  BY <1>1, <1>2 DEF JobSound, Jobs, Dirs
<1>4. moved \subseteq moved' /\ moved' \subseteq Files /\ (crowd => f \in moved' /\ g \in moved')
  BY <1>1, <1>2, <1>3 DEF ContentTyped
<1>5. \A v \in Writers : v # w /\ job[v].op # "idle" /\ (job[v].doc \in {f, g} \/ job[v].to \in {f, g}) => crowd
  OBVIOUS
<1> HIDE DEF crowd
<1>6. ASSUME Done(w), UNCHANGED disk, failures' = failures \/ Fail PROVE ContentInv'
  <2>1. /\ JobsSound' /\ NumbersAhead' /\ ReadIsKept' /\ NumberNamesOneText' /\ JobMoves(w, NoJob)
        /\ failures' \in 0 .. MaxFailures /\ job' \in [Writers -> Jobs]
    BY <1>1, <1>6, EndedQuietly
  <2>2. FilesThere' /\ RowHasFile'
    BY <1>1, <1>4, <1>6, <2>1, NoJobSound, FilesStay
  <2>3. ContentTyped' /\ RowsSound'
    BY <1>1, <1>2, <1>4, <1>6, <2>1 DEF ContentTyped, RowsSound
  <2>4. QED
    BY <2>1, <2>2, <2>3 DEF ContentInv
<1>7. ASSUME disk[f][p] # NoText, disk' = [disk EXCEPT ![g]["tools"] = disk[f][p], ![f][p] = NoText],
             JobAt(w, "rename"), UNCHANGED failures
      PROVE  ContentInv'
  <2>1. /\ k \in Jobs /\ k.at = "rename" /\ k.op = "rename" /\ k.doc = f /\ k.dir = p /\ k.id = job[w].id
        /\ k.seen = job[w].seen /\ k.new = job[w].new /\ k.to = g
    BY <1>1, <1>2 DEF Jobs
  <2>2. job' = [job EXCEPT ![w] = k]
    BY <1>2, <1>7 DEF JobAt
  <2> HIDE DEF k
  <2>3. JobMoves(w, k) /\ JobSound(k)
    BY <1>1, <1>2, <2>1, <2>2 DEF JobMoves, JobSound
  <2>4. job' \in [Writers -> Jobs] /\ job'[w] = k /\ \A v \in Writers : v # w => job'[v] = job[v]
    BY <1>2, <2>3, OthersWait
  <2>5. disk \in [Files -> [Dirs -> Texts]]
    BY <1>2 DEF ContentTyped
  <2>6. /\ disk' \in [Files -> [Dirs -> Texts]] /\ disk'[g]["tools"] # NoText
        /\ \A h \in Files, q \in Dirs : h # f /\ disk[h][q] # NoText => disk'[h][q] # NoText
    BY <1>3, <1>7, <2>5, NoJobSound
  <2>7. ContentTyped' /\ RowsSound'
    BY <1>1, <1>2, <1>4, <1>7, <2>4, <2>6 DEF ContentTyped, RowsSound
  <2>8. JobsSound'
    BY <1>1, <1>2, <2>1, <2>3, JobsGoOn
  <2>9. NumbersAhead' /\ ReadIsKept' /\ NumberNamesOneText'
    BY <1>1, <1>7, <2>1, <2>3, HistoryStays
  <2>10. FilesThere'
    <3>1. ASSUME NEW v \in Writers, job'[v].op \in {"save", "rollback"}, job'[v].at = "row"
          PROVE  disk'[job'[v].doc][job'[v].dir] # NoText \/ job'[v].doc \in moved'
      <4>1. v # w /\ job'[v] = job[v]
        BY <2>1, <2>4, <3>1
      <4>2. job[v].doc \in Files /\ job[v].dir \in Dirs /\ job[v].op # "idle"
        BY <1>2, <3>1, <4>1 DEF JobsSound, JobSound, Jobs
      <4>3. disk[job[v].doc][job[v].dir] # NoText \/ job[v].doc \in moved
        BY <1>2, <3>1, <4>1 DEF FilesThere
      <4>4. job[v].doc = f => f \in moved'
        BY <1>4, <1>5, <4>1, <4>2
      <4>5. QED
        BY <1>4, <2>6, <4>1, <4>2, <4>3, <4>4
    <3>2. ASSUME NEW v \in Writers, job'[v].at = "rename"
          PROVE  disk'[job'[v].to]["tools"] # NoText \/ job'[v].to \in moved'
      <4>1. CASE v = w
        BY <2>1, <2>4, <2>6, <4>1
      <4>2. CASE v # w
        <5>1. job'[v] = job[v] /\ job[v].to \in Files /\ job[v].op # "idle"
          BY <1>2, <2>4, <3>2, <4>2 DEF JobsSound, JobSound
        <5>2. disk[job[v].to]["tools"] # NoText \/ job[v].to \in moved
          BY <1>2, <3>2, <5>1 DEF FilesThere
        <5>3. job[v].to = f => f \in moved'
          BY <1>4, <1>5, <4>2, <5>1
        <5>4. QED
          BY <1>3, <1>4, <2>6, <5>1, <5>2, <5>3
      <4>3. QED
        BY <4>1, <4>2
    <3>3. QED
      BY <3>1, <3>2 DEF FilesThere
  <2>11. RowHasFile'
    <3> SUFFICES ASSUME NEW h \in Files, row'[h] = "live"
                 PROVE  \/ Current(h)' # NoText
                        \/ h \in moved'
                        \/ \E v \in Writers : job'[v].at = "rename" /\ job'[v].doc = h
      BY DEF RowHasFile
    <3>1. \/ Current(h) # NoText
          \/ h \in moved
          \/ \E v \in Writers : job[v].at = "rename" /\ job[v].doc = h
      BY <1>1, <1>2 DEF RowHasFile
    <3>2. Current(h) = disk[h][dir[h]] /\ Current(h)' = disk'[h][dir[h]] /\ dir[h] \in Dirs
      BY <1>1, <1>2 DEF Current, ContentTyped
    <3>3. \A v \in Writers : job[v].at = "rename" => job'[v] = job[v]
      BY <1>1, <2>4
    <3>4. CASE h = f
      BY <2>1, <2>4, <3>4
    <3>5. CASE h # f
      BY <1>4, <2>6, <3>1, <3>2, <3>3, <3>5
    <3>6. QED
      BY <3>4, <3>5
  <2>12. QED
    BY <2>7, <2>8, <2>9, <2>10, <2>11 DEF ContentInv
<1>8. QED
  BY <1>1, <1>6, <1>7

\* The row follows its file, or the file counts as moved.
LEMMA RenameRowKeeps == ASSUME ContentInv, NEW w \in Writers, RenameRow(w) PROVE ContentInv'
<1> DEFINE f == job[w].doc
           g == job[w].to
<1>1. /\ job[w].op = "rename" /\ job[w].at = "rename" /\ Done(w)
      /\ UNCHANGED <<text, disk, versions, layoutID, begun, unsure>>
      /\ \/ /\ row[f] = "live" /\ row[g] = "none"
            /\ row' = [row EXCEPT ![f] = "none", ![g] = "live"] /\ dir' = [dir EXCEPT ![g] = "tools"]
            /\ UNCHANGED <<failures, moved>>
         \/ moved' = moved \cup {f} /\ UNCHANGED <<row, dir>> /\ (failures' = failures \/ Fail)
         \/ row[f] = "none" /\ UNCHANGED <<row, dir, failures, moved>>
  BY DEF RenameRow
<1>2. /\ ContentTyped /\ RowsSound /\ JobsSound /\ FilesThere /\ RowHasFile /\ JobSound(job[w]) /\ job[w] \in Jobs
      /\ row \in [Docs -> {"none", "live", "deleted"}]
  BY UnderWayIs
<1>3. /\ f \in Files /\ g \in Files /\ g # f /\ "tools" \in Dirs /\ "page" \notin Files /\ "layout" \notin Files
      /\ f \in Docs /\ g \in Docs /\ "page" \in Docs /\ Files \subseteq Docs
  BY <1>1, <1>2, TextsRead DEF JobSound
<1>4. disk[g]["tools"] # NoText \/ g \in moved
  BY <1>1, <1>2 DEF FilesThere
<1>5. /\ row' \in [Docs -> {"none", "live", "deleted"}] /\ dir' \in [Files -> Dirs] /\ moved \subseteq moved'
      /\ moved' \subseteq Files
      /\ \A d \in Docs : d \notin {f, g} => row'[d] = row[d]
      /\ \A h \in Files : h # g => dir'[h] = dir[h]
      /\ \/ row'[f] = "none" /\ row'[g] = "live" /\ dir'[g] = "tools"
         \/ /\ row'[f] = row[f] /\ row'[g] = row[g] /\ dir'[g] = dir[g]
            /\ f \in moved' \/ row[f] = "none"
  <2>1. moved \subseteq moved' /\ moved' \subseteq Files /\ dir \in [Files -> Dirs]
    BY <1>1, <1>2, <1>3 DEF ContentTyped
  <2>2. CASE row' = [row EXCEPT ![f] = "none", ![g] = "live"] /\ dir' = [dir EXCEPT ![g] = "tools"]
    <3>1. /\ row' \in [Docs -> {"none", "live", "deleted"}] /\ row'[f] = "none" /\ row'[g] = "live"
          /\ \A d \in Docs : d \notin {f, g} => row'[d] = row[d]
      BY <1>2, <1>3, <2>2
    <3>2. dir' \in [Files -> Dirs] /\ dir'[g] = "tools" /\ \A h \in Files : h # g => dir'[h] = dir[h]
      BY <1>3, <2>1, <2>2
    <3>3. QED
      BY <2>1, <3>1, <3>2
  <2>3. CASE UNCHANGED <<row, dir>> /\ (f \in moved' \/ row[f] = "none")
    BY <1>2, <2>1, <2>3
  <2>4. QED
    BY <1>1, <2>2, <2>3
<1>6. row["page"] # "none" => row'["page"] # "none"
  BY <1>3, <1>5
<1>7. /\ JobsSound' /\ NumbersAhead' /\ ReadIsKept' /\ NumberNamesOneText' /\ JobMoves(w, NoJob)
      /\ failures' \in 0 .. MaxFailures /\ job' \in [Writers -> Jobs] /\ job'[w] = NoJob
      /\ \A v \in Writers : v # w => job'[v] = job[v]
  BY <1>1, <1>6, EndedQuietly
<1>8. ContentTyped'
  BY <1>1, <1>2, <1>5, <1>7 DEF ContentTyped
<1>9. RowsSound'
  <2>1. ASSUME NEW d \in Docs, d # "page" PROVE row'[d] # "deleted"
    BY <1>2, <1>3, <1>5, <2>1 DEF RowsSound
  <2>2. \A d \in Rows : d \in Docs /\ d \notin {f, g} /\ row'[d] = row[d]
    BY <1>3, <1>5 DEF Rows, Docs
  <2>3. QED
    BY <1>1, <1>2, <2>1, <2>2 DEF RowsSound
<1>10. FilesThere'
  BY <1>1, <1>2, <1>5, <1>7, NoJobSound DEF FilesThere
<1>11. RowHasFile'
  <2> SUFFICES ASSUME NEW h \in Files, row'[h] = "live"
               PROVE  \/ Current(h)' # NoText
                      \/ h \in moved'
                      \/ \E v \in Writers : job'[v].at = "rename" /\ job'[v].doc = h
    BY DEF RowHasFile
  <2>1. Current(h) = disk[h][dir[h]] /\ Current(h)' = disk[h][dir'[h]]
    BY <1>1 DEF Current
  <2>2. \A v \in Writers : v # w => job'[v] = job[v]
    BY <1>7
  <2>3. CASE h = g /\ dir'[g] = "tools" /\ row'[g] = "live" /\ row'[f] = "none"
    BY <1>4, <1>5, <2>1, <2>3
  <2>4. CASE row'[h] = row[h] /\ dir'[h] = dir[h] /\ (h = f => f \in moved')
    <3>1. \/ Current(h) # NoText
          \/ h \in moved
          \/ \E v \in Writers : job[v].at = "rename" /\ job[v].doc = h
      BY <1>2, <2>4 DEF RowHasFile
    <3>2. CASE h = f
      BY <2>4, <3>2
    <3>3. CASE h # f
      <4>1. \A v \in Writers : job[v].at = "rename" /\ job[v].doc = h => v # w
        BY <3>3
      <4>2. QED
        BY <1>5, <2>1, <2>2, <2>4, <3>1, <4>1
    <3>4. QED
      BY <3>2, <3>3
  <2>5. QED
    BY <1>3, <1>5, <2>3, <2>4
<1>12. QED
  BY <1>7, <1>8, <1>9, <1>10, <1>11 DEF ContentInv

\* The process dies: every operation under way ends where it is.
LEMMA InterruptedKeeps == ASSUME ContentInv, Interrupted PROVE ContentInv'
<1> DEFINE bare == {job[w].doc : w \in {v \in Writers : job[v].at = "rename"}}
<1>1. /\ job' = [w \in Writers |-> NoJob] /\ moved' = moved \cup bare /\ Fail
      /\ UNCHANGED <<row, text, disk, dir, versions, layoutID, begun, unsure>>
  BY DEF Interrupted
<1>2. /\ ContentTyped /\ RowsSound /\ JobsSound /\ NumbersAhead /\ RowHasFile /\ NumberNamesOneText
      /\ failures \in 0 .. MaxFailures /\ layoutID \in Nat
  BY DEF ContentInv, ContentTyped
<1>3. failures' \in 0 .. MaxFailures
  BY <1>1, <1>2, ContentAssumption DEF Fail
<1>4. job' \in [Writers -> Jobs] /\ \A w \in Writers : job'[w] = NoJob
  BY <1>1, NoJobSound
<1>5. bare \subseteq Files
  BY <1>2 DEF JobsSound, JobSound
<1>6. ContentTyped' /\ RowsSound'
  BY <1>1, <1>2, <1>3, <1>4, <1>5 DEF ContentTyped, RowsSound
<1>7. JobsSound'
  <2>1. NoJob.id <= layoutID
    BY <1>2, NoJobSound
  <2>2. QED
    BY <1>1, <1>4, <2>1, NoJobSound DEF JobsSound
<1>8. FilesThere' /\ ReadIsKept'
  BY <1>4, NoJobSound DEF FilesThere, ReadIsKept
<1>9. NumbersAhead' /\ NumberNamesOneText'
  BY <1>1, <1>2, <1>4, NoJobSound DEF NumbersAhead, NumberNamesOneText
<1>10. RowHasFile'
  <2>1. \A f \in Files : Current(f)' = Current(f)
    BY <1>1 DEF Current
  <2>2. \A f \in Files : (\E v \in Writers : job[v].at = "rename" /\ job[v].doc = f) => f \in bare
    OBVIOUS
  <2>3. QED
    BY <1>1, <1>2, <2>1, <2>2 DEF RowHasFile
<1>11. QED
  BY <1>6, <1>7, <1>8, <1>9, <1>10 DEF ContentInv

\* Whatever operation begins, goes on, fails or is interrupted, the invariant stays.
LEMMA ContentStep == ContentInv /\ [ContentNext]_contentVars => ContentInv'
<1> SUFFICES ASSUME ContentInv, [ContentNext]_contentVars PROVE ContentInv'
  OBVIOUS
<1>1. ASSUME NEW w \in Writers, GoOn(w) PROVE ContentInv'
  BY <1>1, NumberKeeps, CaptureKeeps, NoMatchKeeps, PageWriteKeeps, LayoutWriteKeeps, FileWriteKeeps, FileRowKeeps,
     RowRemoved, DeleteFileKeeps, RenameMoveKeeps, RenameRowKeeps DEF GoOn
<1>2. CASE UNCHANGED contentVars
  BY <1>2 DEF contentVars, ContentInv, ContentTyped, RowsSound, JobsSound, FilesThere, NumbersAhead, ReadIsKept,
              RowHasFile, NumberNamesOneText, Current
<1>3. QED
  BY <1>1, <1>2, BeginPageKeeps, BeginLayoutKeeps, BeginFileKeeps, InterruptedKeeps DEF ContentNext

\* A site starts with nothing in the histories and nothing under way.
LEMMA ContentStart == ContentInit => ContentInv
<1> SUFFICES ASSUME ContentInit PROVE ContentInv
  OBVIOUS
<1>1. PICK old \in {"none", "live"} :
          /\ row = [d \in Docs |-> old]
          /\ text = [d \in Rows |-> IF old = "live" THEN Original ELSE NoText]
          /\ disk = [f \in Files |-> [p \in Dirs |-> IF old = "live" /\ p = "tools" THEN Original ELSE NoText]]
  BY DEF ContentInit
<1>2. Original \in Texts /\ NoText \in Texts /\ Original # NoText
  BY ContentAssumption DEF Original, NoText, Texts
<1>3. /\ dir = [f \in Files |-> "tools"] /\ versions = [d \in Docs |-> {}] /\ layoutID = 1
      /\ job = [w \in Writers |-> NoJob] /\ begun = 0 /\ failures = 0 /\ moved = {} /\ unsure = {}
  BY DEF ContentInit
<1>4. \A w \in Writers : job[w] = NoJob
  BY <1>3
<1>5. ContentTyped
  <2>1. row \in [Docs -> {"none", "live", "deleted"}] /\ text \in [Rows -> Texts]
    BY <1>1, <1>2
  <2>2. disk \in [Files -> [Dirs -> Texts]]
    BY <1>1, <1>2
  <2>3. dir \in [Files -> Dirs] /\ versions \in [Docs -> SUBSET (Nat \X (Texts \ {NoText}))]
    BY <1>3 DEF Dirs
  <2>4. job \in [Writers -> Jobs]
    BY <1>3, NoJobSound
  <2>5. begun \in 0 .. MaxOps /\ failures \in 0 .. MaxFailures /\ layoutID \in Nat
    BY <1>3, ContentAssumption
  <2>6. QED
    BY <1>3, <2>1, <2>2, <2>3, <2>4, <2>5 DEF ContentTyped
<1>6. RowsSound
  BY <1>1, <1>2 DEF RowsSound, Docs
<1>7. JobsSound /\ FilesThere /\ ReadIsKept
  BY <1>3, <1>4, NoJobSound DEF JobsSound, FilesThere, ReadIsKept
<1>8. NumbersAhead /\ NumberNamesOneText
  BY <1>3, <1>4, NoJobSound DEF NumbersAhead, NumberNamesOneText, HasNewest
<1>9. RowHasFile
  BY <1>1, <1>2, <1>3 DEF RowHasFile, Current, Docs, Dirs
<1>10. QED
  BY <1>5, <1>6, <1>7, <1>8, <1>9 DEF ContentInv

\* What the invariant says of the rows and the histories.
LEMMA ContentShows == ContentInv => ContentTypeOK /\ RowHasFile /\ NumberNamesOneText
<1> SUFFICES ASSUME ContentInv PROVE ContentTypeOK /\ RowHasFile /\ NumberNamesOneText
  OBVIOUS
<1>1. ContentTyped /\ RowsSound /\ RowHasFile /\ NumberNamesOneText
  BY DEF ContentInv
<1>2. \A d \in Docs : versions[d] \subseteq Nat \X Texts
  BY <1>1 DEF ContentTyped
<1>3. ContentTypeOK
  BY <1>1, <1>2 DEF ContentTypeOK, ContentTyped, RowsSound
<1>4. QED
  BY <1>1, <1>3

\* What an operation has read is kept when it writes.
LEMMA OverwritesKeep ==
    ASSUME ContentInv, [ContentNext]_contentVars, NEW w \in Writers, job[w].at = "write", job[w].seen # NoText,
           job[w].doc = "layout" => job[w].id = layoutID, failures' = 0,
           Newest(job[w].doc) < job[w].num + MaxVersions
    PROVE  job[w].seen \in Kept(job[w].doc)
<1> DEFINE d == job[w].doc
<1>1. /\ versions[d] \in SUBSET (Nat \X SomeText) /\ d \in Docs /\ NumbersAhead /\ ReadIsKept /\ job[w].num \in Nat
      /\ failures \in 0 .. MaxFailures /\ (Fail => failures' # 0)
  BY UnderWayIs
<1>2. failures' = failures \/ Fail
  <2>1. ASSUME NEW v \in Writers, GoOn(v) PROVE failures' = failures \/ Fail
    BY <2>1 DEF GoOn, Number, Capture, NoMatch, PageWrite, LayoutWrite, FileWrite, FileRow, RemoveRow, DeleteFile,
                RenameMove, RenameRow
  <2>2. \A v \in Writers : (OneStatement(v) \/ \E j : Started(v, j)) => failures' = failures \/ Fail
    BY DEF OneStatement, Started, BeginOp, BeginUnread
  <2>3. ASSUME NEW v \in Writers, BeginPage(v) PROVE OneStatement(v) \/ \E j : Started(v, j)
    BY <2>3, Zenon DEF Started, BeginPage, PageSave, PagePatch, PageEditLines, PageRegexReplace, PageRevert, PageDelete,
                PageRestore, AdminPageCreate, AdminPageUpdate, AdminPageDelete, AdminPageRevert, RowEdit, RowRevert
  <2>4. ASSUME NEW v \in Writers, BeginLayout(v) PROVE OneStatement(v) \/ \E j : Started(v, j)
    BY <2>4, Zenon DEF Started, BeginLayout, LayoutSave, LayoutPatch, LayoutRevert, AdminLayoutUpdate, AdminLayoutDelete,
                AdminLayoutRevert, RowEdit, RowRevert
  <2>5. ASSUME NEW v \in Writers, NEW f \in Files, BeginFile(v, f) PROVE OneStatement(v) \/ \E j : Started(v, j)
    BY <2>5, Zenon DEF Started, BeginFile, FileSave, FilePatch, FileEditLines, FileRegexReplace, FileEdit, FileRollback,
                FileDelete, FetchImage, MediaResize, MediaThumbnail, MediaOptimize, MediaWrite, FileRename,
                AdminTextAsset, AdminUpload, AdminAssetDelete, AdminAssetRevert
  <2>6. Interrupted => Fail
    BY DEF Interrupted
  <2>7. UNCHANGED contentVars => failures' = failures
    BY DEF contentVars
  <2>8. QED
    BY <2>1, <2>2, <2>3, <2>4, <2>5, <2>6, <2>7 DEF ContentNext
<1>3. failures = 0
  BY <1>1, <1>2
<1>4. \/ <<job[w].num, job[w].seen>> \in versions[d]
      \/ \E v \in versions[d] : v[1] >= job[w].num + MaxVersions
  BY <1>1, <1>3 DEF ReadIsKept
<1>5. Newest(d) \in Nat /\ \A v \in versions[d] : v[1] <= Newest(d) /\ v[1] \in Nat
  BY <1>1, NewestIs DEF NumbersAhead
<1>6. ~\E v \in versions[d] : v[1] >= job[w].num + MaxVersions
  BY <1>1, <1>5, ContentAssumption
<1>7. <<job[w].num, job[w].seen>> \in versions[d]
  BY <1>4, <1>6
<1>8. QED
  BY <1>7 DEF Kept

-----------------------------------------------------------------------------
(* The site's events, webhooks and actions                                  *)

HookRecords == [there : BOOLEAN, used : BOOLEAN, enabled : BOOLEAN, out : BOOLEAN, url : BOOLEAN,
                subs : SUBSET EventTypes]
Deliveries == [at : {"none", "post", "log", "ended", "lost"}, tries : 0 .. MaxTries,
               taken : BOOLEAN, won : BOOLEAN, logs : Nat]

EventsTyped ==
    /\ hook \in [Hooks -> HookRecords] /\ told \in Nat
    /\ delivery \in [Events -> [Hooks -> Deliveries]]
    /\ DOMAIN chore = Events
    /\ changes \in 0 .. MaxChanges /\ losses \in 0 .. MaxLosses

\* Where a delivery is in its course, and what it has logged of it.
InCourse(d, h) ==
    /\ d.at = "none" => d = NoDelivery
    /\ d.at = "post" => d.tries < MaxTries /\ d.won = FALSE /\ d.logs = 0
    /\ d.at \in {"log", "ended"} => /\ d.won = TRUE => d.taken = TRUE
                                    /\ d.won = TRUE \/ d.tries = MaxTries
    /\ d.at = "log" => d.logs = 0
    /\ d.at = "ended" => d.logs = (IF h.there THEN 1 ELSE 0)
    /\ h.used = FALSE => d.at = "none"

HooksUsed == \A w \in Hooks : hook[w].there = TRUE => hook[w].used = TRUE
DeliveriesInCourse == \A e \in Events, w \in Hooks : InCourse(delivery[e][w], hook[w])

\* What has not been published has set nothing off.
NothingAhead ==
    \A e \in Events : e > told => chore[e] = NoChore /\ \A w \in Hooks : delivery[e][w] = NoDelivery

EventsInv == EventsTyped /\ HooksUsed /\ DeliveriesInCourse /\ NothingAhead

\* A delivery that has not begun is a delivery.
LEMMA NoDeliveryTyped ==
    /\ NoDelivery \in Deliveries /\ NoDelivery.at = "none" /\ NoHook \in HookRecords
    /\ NoHook.there = FALSE /\ NoHook.used = FALSE
    /\ \A h \in HookRecords : InCourse(NoDelivery, h)
  BY SiteEventsAssumption DEF NoDelivery, Deliveries, NoHook, HookRecords, InCourse

\* One delivery changes.
LEMMA DeliverKeeps ==
    ASSUME EventsInv, NEW e \in Events, NEW w \in Hooks, NEW d \in Deliveries, e <= told,
           delivery' = [delivery EXCEPT ![e][w] = d], InCourse(d, hook[w]),
           UNCHANGED <<hook, told, chore, changes>>, losses' \in 0 .. MaxLosses
    PROVE  EventsInv'
<1>1. delivery \in [Events -> [Hooks -> Deliveries]]
  BY DEF EventsInv, EventsTyped
<1>2. /\ delivery' \in [Events -> [Hooks -> Deliveries]] /\ delivery'[e][w] = d
      /\ \A f \in Events, v \in Hooks : f # e \/ v # w => delivery'[f][v] = delivery[f][v]
  BY <1>1
<1>3. EventsTyped' /\ HooksUsed'
  BY <1>2 DEF EventsInv, EventsTyped, HooksUsed
<1>4. DeliveriesInCourse'
  BY <1>2 DEF EventsInv, DeliveriesInCourse
<1>5. NothingAhead'
  <2>1. e \in Nat /\ told \in Nat
    BY SiteEventsAssumption DEF EventsInv, EventsTyped, Events
  <2>2. \A f \in Events : f > told => f # e
    BY <2>1
  <2>3. QED
    BY <1>2, <2>2 DEF EventsInv, NothingAhead
<1>6. QED
  BY <1>3, <1>4, <1>5 DEF EventsInv

\* What the invariant says of one delivery.
LEMMA UnderWay ==
    ASSUME EventsInv, NEW e \in Events, NEW w \in Hooks
    PROVE  /\ delivery[e][w] \in Deliveries /\ hook[w] \in HookRecords /\ InCourse(delivery[e][w], hook[w])
           /\ delivery[e][w].at # "none" => e <= told
<1>1. e \in Nat /\ told \in Nat
  BY SiteEventsAssumption DEF EventsInv, EventsTyped, Events
<1>2. NoDelivery.at = "none"
  BY DEF NoDelivery
<1>3. ~(e <= told) => e > told
  BY <1>1
<1>4. QED
  BY <1>2, <1>3 DEF EventsInv, EventsTyped, DeliveriesInCourse, NothingAhead

\* An action that is due is due for an event that has been published.
LEMMA ChoreUnderWay == ASSUME EventsInv, NEW e \in Events, chore[e].at = "due" PROVE e <= told
<1>1. e \in Nat /\ told \in Nat
  BY SiteEventsAssumption DEF EventsInv, EventsTyped, Events
<1>2. NoChore.at = "none"
  BY DEF NoChore
<1>3. ~(e <= told) => e > told
  BY <1>1
<1>4. QED
  BY <1>2, <1>3 DEF EventsInv, NothingAhead

\* One attempt of a delivery (webhooks/outgoing.go, deliver).
LEMMA AttemptKeeps == ASSUME EventsInv, NEW e \in Events, NEW w \in Hooks, Attempt(e, w) PROVE EventsInv'
<1> DEFINE d == delivery[e][w]
<1>1. d \in Deliveries /\ d.at = "post" /\ InCourse(d, hook[w]) /\ e <= told /\ hook[w] \in HookRecords
  BY UnderWay DEF Attempt, Posts
<1>2. PICK taken, answered \in BOOLEAN :
          /\ answered => taken
          /\ delivery' = [delivery EXCEPT ![e][w] = [d EXCEPT !.tries = d.tries + 1, !.won = answered,
                            !.taken = d.taken \/ taken, !.logs = IF FALSE /\ ~answered THEN d.logs + 1 ELSE d.logs,
                            !.at = IF answered \/ d.tries + 1 = MaxTries THEN "log" ELSE "post"]]
  BY Zenon DEF Attempt, Posts, Deliver
<1>3. UNCHANGED <<hook, told, chore, changes, losses>>
  BY DEF Attempt, Posts, Deliver, configVars
<1>4. d.tries + 1 \in 0 .. MaxTries /\ d.tries \in Nat /\ d.logs = 0
  <2>1. d.tries < MaxTries /\ d.logs = 0
    BY <1>1 DEF InCourse
  <2>2. d.tries \in Nat
    BY <1>1 DEF Deliveries
  <2>3. QED
    BY <2>1, <2>2, SiteEventsAssumption
<1>13. ~(hook[w].used = FALSE)
  BY <1>1, Zenon DEF InCourse
<1> DEFINE c == [d EXCEPT !.tries = d.tries + 1, !.won = answered,
                            !.taken = d.taken \/ taken, !.logs = IF FALSE /\ ~answered THEN d.logs + 1 ELSE d.logs,
                            !.at = IF answered \/ d.tries + 1 = MaxTries THEN "log" ELSE "post"]
<1>5. (d.taken \/ taken) \in BOOLEAN
  OBVIOUS
<1>6. c \in Deliveries
  BY <1>1, <1>4, <1>5 DEF Deliveries
<1>7. /\ c.won = answered /\ c.taken = (d.taken \/ taken) /\ c.logs = 0 /\ c.tries = d.tries + 1
      /\ c.at = IF answered \/ d.tries + 1 = MaxTries THEN "log" ELSE "post"
  BY <1>1, <1>4 DEF Deliveries
<1>8. InCourse(c, hook[w])
  <2>1. (c.won = TRUE => c.taken = TRUE) /\ c.won \in BOOLEAN
    <3> HIDE DEF c
    <3>1. answered \in BOOLEAN /\ c.won = answered /\ c.taken = (d.taken \/ taken) /\ (answered => taken)
      BY <1>2, <1>7
    <3>2. QED
      BY ONLY <3>1, Zenon
  <2>2. c.at \in {"log", "post"} /\ (c.at = "log" => c.won = TRUE \/ c.tries = MaxTries)
        /\ (c.at = "post" => c.won = FALSE /\ c.tries # MaxTries)
    BY <1>7
  <2> HIDE DEF c
  <2>3. c.tries \in 0 .. MaxTries
    BY <1>6 DEF Deliveries
  <2>4. c.logs = 0 /\ MaxTries \in Nat
    BY <1>7, SiteEventsAssumption
  <2>5. QED
    <3> USE <1>13, <2>1, <2>2, <2>3, <2>4
    <3>1. c.at = "post" => c.tries < MaxTries /\ c.won = FALSE /\ c.logs = 0
      OBVIOUS
    <3>2. c.at \in {"log", "ended"} => /\ c.won = TRUE => c.taken = TRUE
                                       /\ c.won = TRUE \/ c.tries = MaxTries
      OBVIOUS
    <3>3. c.at # "none" /\ c.at # "ended"
      OBVIOUS
    <3>4. QED
      BY <3>1, <3>2, <3>3 DEF InCourse
<1> HIDE DEF c
<1>9. losses' \in 0 .. MaxLosses
  BY <1>3 DEF EventsInv, EventsTyped
<1>10. delivery' = [delivery EXCEPT ![e][w] = c]
  BY <1>2 DEF c
<1>11. QED
  BY <1>1, <1>3, <1>6, <1>8, <1>9, <1>10, DeliverKeeps

\* The row in the log (logDelivery).
LEMMA LogKeeps == ASSUME EventsInv, NEW e \in Events, NEW w \in Hooks, LogDelivery(e, w) PROVE EventsInv'
<1> DEFINE d == delivery[e][w]
<1>1. d \in Deliveries /\ d.at = "log" /\ InCourse(d, hook[w]) /\ e <= told
  BY UnderWay DEF LogDelivery
<1>2. losses' \in 0 .. MaxLosses /\ UNCHANGED <<hook, told, chore, changes>>
  BY SiteEventsAssumption DEF EventsInv, EventsTyped, LogDelivery, Deliver, Loses, configVars
<1>3. d.logs = 0 /\ (d.won = TRUE => d.taken = TRUE) /\ (d.won = TRUE \/ d.tries = MaxTries)
  BY <1>1 DEF InCourse
<1>4. ~(hook[w].used = FALSE)
  BY <1>1, Zenon DEF InCourse
<1> DEFINE n == IF hook[w].there THEN d.logs + 1 ELSE d.logs
           a == [d EXCEPT !.at = "ended", !.logs = n]
           b == [d EXCEPT !.at = "lost"]
<1>5. delivery' = [delivery EXCEPT ![e][w] = a] \/ delivery' = [delivery EXCEPT ![e][w] = b]
  BY Zenon DEF LogDelivery, Deliver
<1>6. n = (IF hook[w].there THEN 1 ELSE 0)
  BY <1>3
<1> HIDE DEF n
<1>7. /\ a \in Deliveries /\ a.at = "ended" /\ a.logs = n /\ a.won = d.won /\ a.taken = d.taken
      /\ a.tries = d.tries
  BY <1>1, <1>6 DEF Deliveries
<1>8. b \in Deliveries /\ b.at = "lost"
  BY <1>1 DEF Deliveries
<1> HIDE DEF a, b
<1>9. InCourse(a, hook[w])
  BY <1>3, <1>4, <1>6, <1>7 DEF InCourse
<1>10. InCourse(b, hook[w])
  BY <1>4, <1>8 DEF InCourse
<1>11. CASE delivery' = [delivery EXCEPT ![e][w] = a]
  BY <1>1, <1>2, <1>7, <1>9, <1>11, DeliverKeeps
<1>12. CASE delivery' = [delivery EXCEPT ![e][w] = b]
  BY <1>1, <1>2, <1>8, <1>10, <1>12, DeliverKeeps
<1>13. QED
  BY <1>5, <1>11, <1>12

\* An action is executed, or is lost.
LEMMA ExecutedKeeps ==
    ASSUME EventsInv, NEW e \in Events, NEW n, Executed(e, n), losses' \in 0 .. MaxLosses
    PROVE  EventsInv'
<1>1. chore[e].at = "due" /\ e <= told
  BY ChoreUnderWay DEF Executed
<1>2. UNCHANGED <<hook, changes, told, delivery>>
  BY DEF Executed, configVars
<1>3. DOMAIN chore' = Events /\ \A f \in Events : f # e => chore'[f] = chore[f]
  BY DEF Executed, EventsInv, EventsTyped
<1>4. EventsTyped' /\ HooksUsed' /\ DeliveriesInCourse'
  BY <1>2, <1>3 DEF EventsInv, EventsTyped, HooksUsed, DeliveriesInCourse
<1>5. NothingAhead'
  <2>1. e \in Nat /\ told \in Nat
    BY SiteEventsAssumption DEF EventsInv, EventsTyped, Events
  <2>2. \A f \in Events : f > told => f # e
    BY <1>1, <2>1
  <2>3. QED
    BY <1>2, <1>3, <2>2 DEF EventsInv, NothingAhead
<1>6. QED
  BY <1>4, <1>5 DEF EventsInv

\* An event is published: its deliveries begin, its action becomes due.
LEMMA PublishKeeps ==
    ASSUME EventsInv, NEW type, told + 1 \in Events, Publish(type), UNCHANGED <<hook, changes>>,
           losses' \in 0 .. MaxLosses
    PROVE  EventsInv'
<1> DEFINE e == told + 1
           sent == [w \in Hooks |-> IF w \in Targets(type) THEN [NoDelivery EXCEPT !.at = "post"]
                                    ELSE NoDelivery]
<1>1. told \in Nat /\ e \in Nat /\ told' = e /\ e \in Events /\ e > told
  BY DEF EventsInv, EventsTyped, Publish
<1>2. delivery' = [delivery EXCEPT ![e] = sent]
  BY DEF Publish
<1> DEFINE c == [NoDelivery EXCEPT !.at = "post"]
<1>3. /\ c \in Deliveries /\ c.at = "post" /\ c.tries = 0 /\ c.won = FALSE /\ c.logs = 0
  BY NoDeliveryTyped, SiteEventsAssumption DEF NoDelivery, Deliveries
<1> HIDE DEF c
<1>4. \A w \in Hooks : sent[w] = NoDelivery \/ (sent[w] = c /\ hook[w].there)
  BY DEF Targets, c
<1>5. sent \in [Hooks -> Deliveries]
  BY <1>3, NoDeliveryTyped DEF c
<1> HIDE DEF sent
<1>6. \A w \in Hooks : InCourse(sent[w], hook[w])
  <2> SUFFICES ASSUME NEW w \in Hooks PROVE InCourse(sent[w], hook[w])
    OBVIOUS
  <2>1. hook[w] \in HookRecords
    BY DEF EventsInv, EventsTyped
  <2>2. CASE sent[w] = NoDelivery
    BY <2>1, <2>2, NoDeliveryTyped
  <2>3. CASE sent[w] = c /\ hook[w].there
    <3>1. hook[w].there = TRUE
      BY <2>1, <2>3 DEF HookRecords
    <3>2. hook[w].used = TRUE
      BY <3>1 DEF EventsInv, HooksUsed
    <3>3. 0 < MaxTries
      BY SiteEventsAssumption
    <3>4. QED
      BY <1>3, <2>3, <3>2, <3>3 DEF InCourse
  <2>4. QED
    BY <1>4, <2>2, <2>3
<1>7. delivery \in [Events -> [Hooks -> Deliveries]] /\ DOMAIN chore = Events
  BY DEF EventsInv, EventsTyped
<1>8. /\ delivery' \in [Events -> [Hooks -> Deliveries]] /\ delivery'[e] = sent
      /\ \A f \in Events : f # e => delivery'[f] = delivery[f]
  BY <1>1, <1>2, <1>5, <1>7
<1>9. DOMAIN chore' = Events /\ \A f \in Events : f # e => chore'[f] = chore[f]
  BY <1>7 DEF Publish
<1>10. EventsTyped' /\ HooksUsed'
  BY <1>1, <1>8, <1>9 DEF EventsInv, EventsTyped, HooksUsed
<1>11. DeliveriesInCourse'
  BY <1>6, <1>8 DEF EventsInv, DeliveriesInCourse
<1>12. NothingAhead'
  <2>1. \A f \in Events : f > e => f # e /\ f > told
    BY <1>1, SiteEventsAssumption DEF Events
  <2>2. QED
    BY <1>1, <1>8, <1>9, <2>1 DEF EventsInv, NothingAhead
<1>13. QED
  BY <1>10, <1>11, <1>12 DEF EventsInv

\* A change of a webhook leaves what its deliveries have logged right, where it stays
\* there or not as it was, and where no delivery was made for it yet.
LEMMA HookChanged ==
    ASSUME EventsInv, NEW w \in Hooks, NEW h \in HookRecords, ChangeHook(w, h), UNCHANGED delivery,
           h.used = TRUE, hook[w].used = FALSE \/ h.there = hook[w].there
    PROVE  EventsInv'
<1>1. /\ hook \in [Hooks -> HookRecords] /\ hook' = [hook EXCEPT ![w] = h]
      /\ UNCHANGED <<told, chore, losses>> /\ changes' \in 0 .. MaxChanges
  BY SiteEventsAssumption DEF ChangeHook, Reconfigures, EventsInv, EventsTyped
<1>2. hook' \in [Hooks -> HookRecords] /\ hook'[w] = h /\ \A v \in Hooks : v # w => hook'[v] = hook[v]
  BY <1>1
<1>3. EventsTyped' /\ HooksUsed' /\ NothingAhead'
  BY <1>1, <1>2 DEF EventsInv, EventsTyped, HooksUsed, NothingAhead
<1>4. ASSUME NEW e \in Events PROVE InCourse(delivery[e][w], h)
  <2>1. InCourse(delivery[e][w], hook[w]) /\ MaxTries \in Nat
    BY SiteEventsAssumption DEF EventsInv, DeliveriesInCourse
  <2>2. CASE hook[w].used = FALSE
    <3>1. delivery[e][w] = NoDelivery
      BY <2>1, <2>2 DEF InCourse
    <3>2. QED
      BY <3>1, NoDeliveryTyped
  <2>3. CASE h.there = hook[w].there
    BY <2>1, <2>3 DEF InCourse
  <2>4. QED
    BY <2>2, <2>3
<1>5. DeliveriesInCourse'
  <2> SUFFICES ASSUME NEW e \in Events, NEW v \in Hooks PROVE InCourse(delivery[e][v], hook'[v])
    BY DEF DeliveriesInCourse
  <2>1. CASE v = w
    BY <1>2, <1>4, <2>1
  <2>2. CASE v # w
    BY <1>2, <2>2 DEF EventsInv, DeliveriesInCourse
  <2>3. QED
    BY <2>1, <2>2
<1>6. QED
  BY <1>3, <1>5 DEF EventsInv

\* A webhook is deleted, its log with it.
LEMMA HookRemoved == ASSUME EventsInv, NEW w \in Hooks, RemoveHook(w) PROVE EventsInv'
<1> DEFINE h == [NoHook EXCEPT !.used = TRUE]
           kept(e) == [delivery[e] EXCEPT ![w].logs = 0]
<1>1. h \in HookRecords /\ h.there = FALSE /\ h.used = TRUE
  BY NoDeliveryTyped DEF NoHook, HookRecords
<1>2. /\ hook' = [hook EXCEPT ![w] = h] /\ hook[w].there /\ delivery' = [e \in Events |-> kept(e)]
      /\ UNCHANGED <<told, chore, losses>> /\ changes' \in 0 .. MaxChanges
  BY SiteEventsAssumption DEF RemoveHook, ChangeHook, Reconfigures, EventsInv, EventsTyped
<1> HIDE DEF h
<1>3. hook \in [Hooks -> HookRecords] /\ delivery \in [Events -> [Hooks -> Deliveries]]
  BY DEF EventsInv, EventsTyped
<1>4. /\ hook' \in [Hooks -> HookRecords] /\ hook'[w] = h
      /\ \A v \in Hooks : v # w => hook'[v] = hook[v]
  BY <1>1, <1>2, <1>3
<1>5. ASSUME NEW e \in Events
      PROVE  /\ kept(e) \in [Hooks -> Deliveries]
             /\ \A v \in Hooks : v # w => kept(e)[v] = delivery[e][v]
             /\ kept(e)[w] = [delivery[e][w] EXCEPT !.logs = 0]
  <2>1. delivery[e] \in [Hooks -> Deliveries] /\ delivery[e][w] \in Deliveries
    BY <1>3
  <2>2. [delivery[e][w] EXCEPT !.logs = 0] \in Deliveries
    BY <2>1 DEF Deliveries
  <2>3. QED
    BY <2>1, <2>2
<1>6. ASSUME NEW e \in Events PROVE InCourse(kept(e)[w], h)
  <2> DEFINE d == delivery[e][w]
             c == [d EXCEPT !.logs = 0]
  <2>1. d \in Deliveries /\ InCourse(d, hook[w])
    BY UnderWay
  <2>2. /\ c.at = d.at /\ c.logs = 0 /\ c.tries = d.tries /\ c.won = d.won /\ c.taken = d.taken
    BY <2>1 DEF Deliveries
  <2>3. d = NoDelivery => c = NoDelivery
    BY DEF NoDelivery
  <2> HIDE DEF c, d
  <2>4. InCourse(c, h)
    <3>1. c.at = "none" => c = NoDelivery
      BY <2>1, <2>2, <2>3 DEF InCourse
    <3>2. c.at = "post" => c.tries < MaxTries /\ c.won = FALSE /\ c.logs = 0
      BY <2>1, <2>2 DEF InCourse
    <3>3. c.at \in {"log", "ended"} => /\ c.won = TRUE => c.taken = TRUE
                                       /\ c.won = TRUE \/ c.tries = MaxTries
      BY <2>1, <2>2 DEF InCourse
    <3>4. QED
      BY <1>1, <2>2, <3>1, <3>2, <3>3 DEF InCourse
  <2>5. QED
    BY <1>5, <2>4 DEF c, d
<1>7. /\ delivery' \in [Events -> [Hooks -> Deliveries]] /\ \A e \in Events : delivery'[e] = kept(e)
  BY <1>2, <1>5
<1> HIDE DEF kept
<1>8. EventsTyped' /\ HooksUsed'
  BY <1>1, <1>2, <1>4, <1>7 DEF EventsInv, EventsTyped, HooksUsed
<1>9. DeliveriesInCourse'
  <2> SUFFICES ASSUME NEW e \in Events, NEW v \in Hooks PROVE InCourse(kept(e)[v], hook'[v])
    BY <1>7 DEF DeliveriesInCourse
  <2>1. CASE v = w
    BY <1>4, <1>6, <2>1
  <2>2. CASE v # w
    BY <1>4, <1>5, <2>2 DEF EventsInv, DeliveriesInCourse
  <2>3. QED
    BY <2>1, <2>2
<1>10. NothingAhead'
  <2> SUFFICES ASSUME NEW e \in Events, e > told
               PROVE  chore[e] = NoChore /\ \A v \in Hooks : kept(e)[v] = NoDelivery
    BY <1>2, <1>7 DEF NothingAhead
  <2>1. chore[e] = NoChore /\ \A v \in Hooks : delivery[e][v] = NoDelivery
    BY DEF EventsInv, NothingAhead
  <2>2. [NoDelivery EXCEPT !.logs = 0] = NoDelivery
    BY DEF NoDelivery
  <2>3. QED
    BY <1>5, <2>1, <2>2
<1>11. QED
  BY <1>8, <1>9, <1>10 DEF EventsInv

\* A webhook or an action is created, changed or deleted.
LEMMA ConfiguresKeeps == ASSUME EventsInv, Configures PROVE EventsInv'
<1>t. hook \in [Hooks -> HookRecords] /\ HooksUsed
  BY DEF EventsInv, EventsTyped
<1>1. ASSUME NEW out \in BOOLEAN, NEW url \in BOOLEAN, NEW types \in SUBSET EventTypes
      PROVE  NewHook(out, url, types) \in HookRecords /\ NewHook(out, url, types).used = TRUE
  BY DEF NewHook, HookRecords
<1>2. ASSUME NEW w \in Hooks, CreateHook(w) \/ AdminCreateHook(w) PROVE EventsInv'
  <2>1. PICK out \in BOOLEAN, url \in BOOLEAN, types \in SUBSET EventTypes : ChangeHook(w, NewHook(out, url, types))
    <3>1. {} \in SUBSET EventTypes
      OBVIOUS
    <3>2. QED
      BY <1>2, <3>1, Zenon DEF CreateHook, AdminCreateHook
  <2>2. hook[w].used = FALSE /\ UNCHANGED delivery
    BY <1>t, <1>2 DEF CreateHook, AdminCreateHook, HookRecords
  <2>3. QED
    BY <1>1, <2>1, <2>2, HookChanged
<1>3. ASSUME NEW w \in Hooks, NEW type \in EventTypes, SubscribeHook(w, type) PROVE EventsInv'
  <2> DEFINE h == [hook[w] EXCEPT !.subs = hook[w].subs \cup {type}]
  <2>1. hook[w].there = TRUE /\ hook[w].used = TRUE
    BY <1>t, <1>3 DEF SubscribeHook, HookRecords, HooksUsed
  <2>2. h \in HookRecords /\ h.there = hook[w].there /\ h.used = hook[w].used
    BY <1>t DEF HookRecords
  <2>3. ChangeHook(w, h) /\ UNCHANGED delivery
    BY <1>3 DEF SubscribeHook
  <2> HIDE DEF h
  <2>4. QED
    BY <2>1, <2>2, <2>3, HookChanged
<1>4. ASSUME NEW w \in Hooks, UpdateHook(w) PROVE EventsInv'
  <2>1. PICK on \in BOOLEAN, url \in BOOLEAN : ChangeHook(w, [hook[w] EXCEPT !.enabled = on, !.url = url])
    BY <1>4 DEF UpdateHook
  <2> DEFINE h == [hook[w] EXCEPT !.enabled = on, !.url = url]
  <2>2. hook[w].there = TRUE /\ hook[w].used = TRUE /\ UNCHANGED delivery
    BY <1>t, <1>4 DEF UpdateHook, HookRecords, HooksUsed
  <2>3. h \in HookRecords /\ h.there = hook[w].there /\ h.used = hook[w].used
    BY <1>t DEF HookRecords
  <2>4. ChangeHook(w, h)
    BY <2>1
  <2> HIDE DEF h
  <2>5. QED
    BY <2>2, <2>3, <2>4, HookChanged
<1>5. ASSUME NEW w \in Hooks, AdminToggleHook(w) PROVE EventsInv'
  <2> DEFINE h == [hook[w] EXCEPT !.enabled = ~hook[w].enabled]
  <2>1. hook[w].there = TRUE /\ hook[w].used = TRUE /\ UNCHANGED delivery
    BY <1>t, <1>5 DEF AdminToggleHook, HookRecords, HooksUsed
  <2>2. (~hook[w].enabled) \in BOOLEAN
    OBVIOUS
  <2>3. h \in HookRecords /\ h.there = hook[w].there /\ h.used = hook[w].used
    BY <1>t, <2>2 DEF HookRecords
  <2>4. ChangeHook(w, h)
    BY <1>5 DEF AdminToggleHook
  <2> HIDE DEF h
  <2>5. QED
    BY <2>1, <2>3, <2>4, HookChanged
<1>6. ASSUME NEW w \in Hooks, DeleteHook(w) \/ AdminDeleteHook(w) PROVE EventsInv'
  BY <1>6, HookRemoved DEF DeleteHook, AdminDeleteHook
<1>7. CASE CreateAction \/ UpdateAction \/ DeleteAction
  <2>1. PICK a : ChangeAction(a)
    BY <1>7 DEF CreateAction, UpdateAction, DeleteAction, SomeAction
  <2>2. UNCHANGED <<hook, delivery, told, chore, losses>> /\ changes' \in 0 .. MaxChanges
    BY <2>1, SiteEventsAssumption DEF ChangeAction, Reconfigures, EventsInv, EventsTyped
  <2>3. QED
    BY <2>2 DEF EventsInv, EventsTyped, HooksUsed, DeliveriesInCourse, NothingAhead
<1>8. QED
  BY <1>2, <1>3, <1>4, <1>5, <1>6, <1>7 DEF Configures

\* The process dies: deliveries and actions under way are gone.
LEMMA LossKeeps == ASSUME EventsInv, EventsLost PROVE EventsInv'
<1> DEFINE gone(d) == IF d.at \in {"post", "log"} THEN [d EXCEPT !.at = "lost"] ELSE d
<1>1. /\ delivery' = [e \in Events |-> [w \in Hooks |-> gone(delivery[e][w])]]
      /\ chore' = [e \in Events |-> IF chore[e].at = "due" THEN NoChore ELSE chore[e]]
      /\ UNCHANGED <<hook, told, changes>> /\ losses' \in 0 .. MaxLosses
  BY SiteEventsAssumption DEF EventsLost, Loses, configVars, EventsInv, EventsTyped
<1>2. ASSUME NEW d \in Deliveries, NEW h \in HookRecords, InCourse(d, h)
      PROVE  gone(d) \in Deliveries /\ InCourse(gone(d), h) /\ (d = NoDelivery => gone(d) = NoDelivery)
  <2> DEFINE c == [d EXCEPT !.at = "lost"]
  <2>1. c \in Deliveries /\ c.at = "lost"
    BY DEF Deliveries
  <2> HIDE DEF c
  <2>2. CASE d.at \in {"post", "log"}
    <3>1. gone(d) = c /\ d # NoDelivery
      BY <2>2, NoDeliveryTyped DEF c
    <3>2. InCourse(c, h)
      BY <1>2, <2>1, <2>2 DEF InCourse
    <3>3. QED
      BY <2>1, <3>1, <3>2
  <2>3. CASE d.at \notin {"post", "log"}
    BY <1>2, <2>3
  <2>4. QED
    BY <2>2, <2>3
<1> HIDE DEF gone
<1>3. ASSUME NEW e \in Events, NEW w \in Hooks
      PROVE  /\ delivery'[e][w] = gone(delivery[e][w]) /\ gone(delivery[e][w]) \in Deliveries
             /\ InCourse(gone(delivery[e][w]), hook[w])
             /\ delivery[e][w] = NoDelivery => gone(delivery[e][w]) = NoDelivery
  BY <1>1, <1>2, UnderWay
<1>4. EventsTyped' /\ HooksUsed'
  BY <1>1, <1>3 DEF EventsInv, EventsTyped, HooksUsed
<1>5. DeliveriesInCourse'
  BY <1>1, <1>3 DEF EventsInv, DeliveriesInCourse
<1>6. NothingAhead'
  BY <1>1, <1>3 DEF EventsInv, NothingAhead
<1>7. QED
  BY <1>4, <1>5, <1>6 DEF EventsInv

\* What follows an event, one step of it.
LEMMA AfterEventKeeps == ASSUME EventsInv, NEW e \in Events, AfterEvent(e) PROVE EventsInv'
<1>1. losses \in 0 .. MaxLosses
  BY DEF EventsInv, EventsTyped
<1>2. ASSUME NEW n, Executed(e, n), UNCHANGED losses PROVE EventsInv'
  BY <1>1, <1>2, ExecutedKeeps
<1>3. ASSUME NEW w \in Hooks, ExecuteTriggerWebhook(e, w) PROVE EventsInv'
  BY <1>2, <1>3 DEF ExecuteTriggerWebhook
<1>4. CASE ExecuteOther(e)
  BY <1>2, <1>4 DEF ExecuteOther
<1>5. QED
  BY <1>3, <1>4, AttemptKeeps, LogKeeps DEF AfterEvent

\* An action writes to the site's data.
LEMMA ActionWriteKeeps ==
    ASSUME EventsInv, NEW e \in Events, ExecuteWrite(e), UNCHANGED losses \/ Loses
    PROVE  EventsInv'
<1>1. losses' \in 0 .. MaxLosses
  BY SiteEventsAssumption DEF EventsInv, EventsTyped, Loses
<1>2. QED
  BY <1>1, ExecutedKeeps DEF ExecuteWrite

\* Before the first event nothing is under way.
LEMMA EventsStart == EventsInit => EventsInv
<1> SUFFICES ASSUME EventsInit PROVE EventsInv
  OBVIOUS
<1>1. NewHook(TRUE, TRUE, EventTypes) \in HookRecords /\ NewHook(TRUE, TRUE, EventTypes).used = TRUE
  BY DEF NewHook, HookRecords
<1>2. EventsTyped
  <2>1. hook \in [Hooks -> HookRecords]
    BY <1>1, NoDeliveryTyped DEF EventsInit
  <2>2. delivery \in [Events -> [Hooks -> Deliveries]] /\ DOMAIN chore = Events
    BY NoDeliveryTyped DEF EventsInit
  <2>3. told \in Nat /\ changes \in 0 .. MaxChanges /\ losses \in 0 .. MaxLosses
    BY SiteEventsAssumption DEF EventsInit
  <2>4. QED
    BY <2>1, <2>2, <2>3 DEF EventsTyped
<1>3. HooksUsed
  BY <1>1, NoDeliveryTyped DEF EventsInit, HooksUsed
<1>4. DeliveriesInCourse
  <2>1. hook \in [Hooks -> HookRecords] /\ \A e \in Events, w \in Hooks : delivery[e][w] = NoDelivery
    BY <1>2 DEF EventsInit, EventsTyped
  <2>2. QED
    BY <2>1, NoDeliveryTyped DEF DeliveriesInCourse
<1>5. NothingAhead
  BY DEF EventsInit, NothingAhead
<1>6. QED
  BY <1>2, <1>3, <1>4, <1>5 DEF EventsInv

EventsCounted == told <= MaxEvents

\* Whatever is published, delivered, changed or lost, the invariant stays.
LEMMA EventsStep == ASSUME EventsInv, EventsCounted, [EventsNext]_siteEventsVars PROVE EventsInv' /\ EventsCounted'
<1>t. told \in Nat /\ MaxEvents \in Nat /\ losses \in 0 .. MaxLosses
  BY SiteEventsAssumption DEF EventsInv, EventsTyped
<1>1. ASSUME NEW type \in EventTypes, Published(type) PROVE EventsInv' /\ EventsCounted'
  <2>1. told + 1 \in Events /\ told' = told + 1
    BY <1>1, <1>t DEF Published, Publish, Events
  <2>2. Publish(type) /\ UNCHANGED <<hook, changes>> /\ losses' \in 0 .. MaxLosses
    BY <1>1, <1>t DEF Published, configVars
  <2>3. EventsInv'
    BY <2>1, <2>2, PublishKeeps
  <2>4. EventsCounted'
    BY <1>t, <2>1 DEF EventsCounted, Events
  <2>5. QED
    BY <2>3, <2>4
<1>2. ASSUME NEW e \in Events, AfterEvent(e) PROVE EventsInv' /\ EventsCounted'
  <2>1. UNCHANGED told
    BY <1>2 DEF AfterEvent, Attempt, Posts, LogDelivery, Deliver, ExecuteTriggerWebhook, ExecuteOther, Executed
  <2>2. QED
    BY <1>2, <2>1, AfterEventKeeps DEF EventsCounted
<1>3. ASSUME NEW e \in Events, ExecuteWrite(e), UNCHANGED losses \/ Loses PROVE EventsInv' /\ EventsCounted'
  BY <1>3, ActionWriteKeeps DEF EventsCounted, ExecuteWrite, Executed
<1>4. CASE Configures
  <2>1. UNCHANGED told
    BY <1>4 DEF Configures, CreateHook, AdminCreateHook, UpdateHook, AdminToggleHook, DeleteHook, AdminDeleteHook,
                RemoveHook, SubscribeHook, CreateAction, UpdateAction, DeleteAction, SomeAction, ChangeAction,
                ChangeHook, Reconfigures
  <2>2. QED
    BY <1>4, <2>1, ConfiguresKeeps DEF EventsCounted
<1>5. CASE EventsLost
  BY <1>5, LossKeeps DEF EventsCounted, EventsLost
<1>6. CASE UNCHANGED siteEventsVars
  BY <1>6 DEF siteEventsVars, configVars, eventVars, EventsInv, EventsTyped, HooksUsed, DeliveriesInCourse,
              NothingAhead, EventsCounted
<1>7. QED
  BY <1>1, <1>2, <1>3, <1>4, <1>5, <1>6 DEF EventsNext

\* What the invariant says of the log.
LEMMA EventsShow == EventsInv => LoggedOnce /\ (EventsCounted => EventsTypeOK)
<1> SUFFICES ASSUME EventsInv PROVE LoggedOnce /\ (EventsCounted => EventsTypeOK)
  OBVIOUS
<1>1. LoggedOnce
  <2> SUFFICES ASSUME NEW e \in Events, NEW w \in Hooks, delivery[e][w].at = "ended"
               PROVE  LET d == delivery[e][w] IN
                         /\ d.logs = (IF hook[w].there THEN 1 ELSE 0) /\ (d.won => d.taken)
                         /\ d.won \/ d.tries = MaxTries
    BY Zenon DEF LoggedOnce
  <2> DEFINE d == delivery[e][w]
  <2>1. d \in Deliveries /\ InCourse(d, hook[w]) /\ d.at = "ended"
    BY UnderWay
  <2>2. /\ d.logs = (IF hook[w].there THEN 1 ELSE 0)
        /\ (d.won = TRUE => d.taken = TRUE) /\ (d.won = TRUE \/ d.tries = MaxTries)
        /\ d.won \in BOOLEAN /\ d.taken \in BOOLEAN
    BY <2>1 DEF InCourse, Deliveries
  <2>3. QED
    BY <2>2, Zenon
<1>2. EventsCounted => EventsTypeOK
  <2>1. \A w \in Hooks : hook[w].there => hook[w].used
    BY DEF EventsInv, EventsTyped, HooksUsed, HookRecords
  <2>2. EventsCounted => told \in 0 .. MaxEvents
    BY SiteEventsAssumption DEF EventsInv, EventsTyped, EventsCounted
  <2>3. QED
    BY <2>1, <2>2 DEF EventsInv, EventsTyped, NothingAhead, EventsTypeOK
<1>3. QED
  BY <1>1, <1>2

-----------------------------------------------------------------------------
(* The cache of the public API                                              *)

JobPoints == {"end", "read", "fill", "publish", "invalidate", "insert", "link", "row"}
Doings == {"nothing", "get", "write", "receive", "account", "upload"}
RequestRecords == [do : Doings, at : JobPoints, on : Keys \cup Accounts, seen : Nat, wrote : Nat, late : BOOLEAN]

CacheTyped ==
    /\ request \in [Requests -> RequestRecords]
    /\ cache \in [Keys -> SUBSET Nat]
    /\ tip \in Nat /\ promised \in Nat /\ made \in Nat

\* No promise is ahead of the changes, and no write of a change.
PromisesMade ==
    /\ promised <= tip
    /\ \A r \in Requests : request[r].do = "write" => request[r].wrote <= tip

\* A read about to fill the cache knows every promised change, unless it was overtaken.
ReadsFresh ==
    \A r \in Requests : Doing(r, "get", "fill") => request[r].late = TRUE \/ promised <= request[r].seen

CacheInv == CacheTyped /\ PromisesMade /\ ReadsFresh /\ FreshUnlessOvertaken

\* A step that leaves the cache and its promises alone, and changes one request to one
\* that is not about to fill, keeps the invariant.
LEMMA QuietStep ==
    ASSUME CacheInv, UNCHANGED <<cache, promised, crossed>>, tip' \in Nat, tip <= tip', made' \in Nat,
           NEW r \in Requests, NEW j \in RequestRecords, request' = [request EXCEPT ![r] = j],
           ~(j.do = "get" /\ j.at = "fill"), j.do = "write" => j.wrote <= tip'
    PROVE  CacheInv'
<1> USE DEF CacheInv
<1>1. CacheTyped'
  BY DEF CacheTyped
<1>2. PromisesMade'
  BY DEF CacheTyped, PromisesMade, RequestRecords
<1>3. ReadsFresh'
  BY DEF CacheTyped, ReadsFresh, Doing
<1>4. FreshUnlessOvertaken'
  BY DEF FreshUnlessOvertaken
<1>5. QED
  BY <1>1, <1>2, <1>3, <1>4

\* Nor does one that leaves the requests alone too.
LEMMA StillStep ==
    ASSUME CacheInv, UNCHANGED <<cache, promised, crossed, request>>, tip' \in Nat, tip <= tip', made' \in Nat
    PROVE  CacheInv'
  BY DEF CacheInv, CacheTyped, PromisesMade, ReadsFresh, Doing, FreshUnlessOvertaken, RequestRecords

\* A request slot with no request is a request record.
LEMMA FreeTyped == Free \in RequestRecords
  BY DEF Free, RequestRecords, Doings, JobPoints, Keys

\* A request that arrives, and one that ends.
LEMMA ArrivalStep ==
    ASSUME CacheInv, UNCHANGED <<cache, promised, crossed>>, tip' \in Nat, tip <= tip',
           NEW r \in Requests, NEW j \in RequestRecords, Arrives(r, j), j.at # "fill",
           j.do = "write" => j.wrote <= tip'
    PROVE  CacheInv'
<1>1. made' \in Nat /\ request' = [request EXCEPT ![r] = j]
  BY DEF Arrives, CacheInv, CacheTyped
<1>2. QED
  BY <1>1, QuietStep

\* A request ends.
LEMMA EndStep ==
    ASSUME CacheInv, UNCHANGED <<cache, promised, crossed>>, tip' \in Nat, tip <= tip', made' = made,
           NEW r \in Requests, Ends(r)
    PROVE  CacheInv'
<1>1. Free.do = "nothing"
  BY DEF Free
<1>2. made' \in Nat /\ request' = [request EXCEPT ![r] = Free]
  BY DEF Ends, CacheInv, CacheTyped
<1>3. QED
  BY <1>1, <1>2, FreeTyped, QuietStep

\* Whatever request, expiry, action or crash comes next, the invariant of the cache stays.
LEMMA CacheStep == CacheInv /\ [ApiNext]_apiVars => CacheInv'
<1> SUFFICES ASSUME CacheInv, [ApiNext]_apiVars PROVE CacheInv'
  OBVIOUS
<1>t. CacheTyped
  BY DEF CacheInv
<1>1. ASSUME NEW r \in Requests, RequestStep(r) PROVE CacheInv'
  <2>1. ASSUME NEW k \in Keys, CacheMiss(r, k) PROVE CacheInv'
    <3> DEFINE j == [Free EXCEPT !.do = "get", !.at = "read", !.on = k]
    <3>1. j \in RequestRecords /\ j.do = "get" /\ j.at = "read"
      BY <2>1 DEF Free, RequestRecords, Doings, JobPoints, Keys
    <3>2. Arrives(r, j) /\ UNCHANGED <<cache, promised, crossed, tip>>
      BY <2>1 DEF CacheMiss, tableVars
    <3> HIDE DEF j
    <3>3. QED
      BY <1>t, <3>1, <3>2, ArrivalStep DEF CacheTyped
  <2>2. CASE ApiRead(r)
    <3>1. CASE request' = [request EXCEPT ![r].at = "fill", ![r].seen = tip]
      <4>1. UNCHANGED <<cache, promised, crossed, tip, made>> /\ Doing(r, "get", "read")
        BY <2>2 DEF ApiRead, tableVars
      <4>2. CacheTyped'
        BY <1>t, <3>1, <4>1, ZenonT(60) DEF CacheTyped, RequestRecords, JobPoints
      <4>3. PromisesMade' /\ ReadsFresh'
        BY <1>t, <3>1, <4>1 DEF CacheInv, CacheTyped, PromisesMade, ReadsFresh, Doing, RequestRecords
      <4>4. FreshUnlessOvertaken'
        BY <4>1 DEF CacheInv, FreshUnlessOvertaken
      <4>5. QED
        BY <4>2, <4>3, <4>4 DEF CacheInv
    <3>2. CASE Ends(r)
      BY <1>t, <2>2, <3>2, EndStep DEF ApiRead, tableVars, CacheTyped
    <3>3. QED
      BY <2>2, <3>1, <3>2 DEF ApiRead
  <2>3. CASE CacheSet(r)
    <3>1. PICK k : /\ k = request[r].on /\ cache' = [cache EXCEPT ![k] = {request[r].seen}]
                   /\ crossed' = IF request[r].late THEN crossed \cup {k} ELSE crossed \ {k}
      BY <2>3 DEF CacheSet
    <3>2. UNCHANGED <<promised, tip, made>> /\ request' = [request EXCEPT ![r] = Free] /\ Doing(r, "get", "fill")
      BY <2>3 DEF CacheSet, Ends
    <3>3. request[r].seen \in Nat
      BY <1>t DEF CacheTyped, RequestRecords
    <3>4. CacheTyped'
      BY <1>t, <3>1, <3>2, <3>3, FreeTyped DEF CacheTyped
    <3>5. PromisesMade' /\ ReadsFresh'
      BY <1>t, <3>2 DEF CacheInv, CacheTyped, PromisesMade, ReadsFresh, Doing, Free
    <3>6. FreshUnlessOvertaken'
      BY <1>t, <3>1, <3>2, <3>3 DEF CacheInv, CacheTyped, ReadsFresh, FreshUnlessOvertaken
    <3>7. QED
      BY <3>4, <3>5, <3>6 DEF CacheInv
  <2>4. ASSUME NEW change \in Nat, NEW at \in JobPoints, at # "fill", change <= tip', tip' \in Nat, tip <= tip',
               Writes(r, at, change), UNCHANGED <<cache, promised, crossed>>
        PROVE  CacheInv'
    <3> DEFINE j == [Free EXCEPT !.do = "write", !.at = at, !.wrote = change]
    <3>1. j \in RequestRecords /\ j.at = at /\ j.wrote = change
      BY <2>4 DEF Free, RequestRecords, Doings, Keys
    <3>2. Arrives(r, j)
      BY <2>4 DEF Writes
    <3> HIDE DEF j
    <3>3. QED
      BY <2>4, <3>1, <3>2, ArrivalStep
  <2>5. CASE WriteRefused(r)
    BY <1>t, <2>4, <2>5 DEF WriteRefused, CacheTyped, tableVars, JobPoints
  <2>6. ASSUME NEW i \in Ids, ApiInsert(r, i) \/ ApiUpdate(r, i) \/ ApiDelete(r, i) PROVE CacheInv'
    <3>1. CASE Changed /\ Writes(r, "publish", tip + 1)
      BY <1>t, <2>4, <3>1 DEF Changed, CacheTyped, JobPoints
    <3>2. CASE UNCHANGED <<tip, cache, promised, crossed>> /\ Writes(r, "invalidate", 0)
      BY <1>t, <2>4, <3>2 DEF CacheTyped, JobPoints
    <3>3. QED
      BY <2>6, <3>1, <3>2 DEF ApiInsert, ApiUpdate, ApiDelete
  <2>7. ASSUME NEW at \in JobPoints, at # "fill", Goes(r, at), made' = made, tip' \in Nat, tip <= tip',
               UNCHANGED <<cache, promised, crossed>>
        PROVE  CacheInv'
    <3>1. [request[r] EXCEPT !.at = at] \in RequestRecords
      BY <1>t DEF CacheTyped, RequestRecords
    <3>2. request[r].do = "write" => request[r].wrote <= tip'
      BY <1>t, <2>7 DEF CacheInv, CacheTyped, PromisesMade, RequestRecords
    <3>3. QED
      BY <1>t, <2>7, <3>1, <3>2, QuietStep DEF Goes, CacheTyped, RequestRecords
  <2>8. ASSUME Ends(r), made' = made, tip' \in Nat, tip <= tip', UNCHANGED <<cache, promised, crossed>>
        PROVE  CacheInv'
    BY <1>t, <2>8, FreeTyped, QuietStep DEF Ends, CacheTyped, Free
  <2>9. CASE PublishesData(r) \/ PublishesOther(r)
    BY <1>t, <2>7, <2>8, <2>9 DEF PublishesData, PublishesOther, tableVars, CacheTyped, JobPoints
  <2>10. CASE InvalidateTable(r)
    <3>1. /\ Doing(r, "write", "invalidate") /\ UNCHANGED <<tip, made>>
          /\ cache' = [k \in Keys |-> {}] /\ request' = Overtaken(r)
          /\ promised' = IF request[r].wrote > promised THEN request[r].wrote ELSE promised
      BY <2>10 DEF InvalidateTable, Forget, NoEntry
    <3>2. promised' \in Nat /\ promised' <= tip'
      BY <1>t, <3>1 DEF CacheInv, CacheTyped, PromisesMade, RequestRecords, Doing
    <3>3. CacheTyped'
      BY <1>t, <3>1, <3>2, FreeTyped DEF CacheTyped, Overtaken, RequestRecords
    <3>4. PromisesMade'
      BY <1>t, <3>1, <3>2 DEF CacheInv, CacheTyped, PromisesMade, Overtaken, RequestRecords, Free
    <3>5. ReadsFresh'
      BY <1>t, <3>1 DEF CacheTyped, ReadsFresh, Overtaken, RequestRecords, Doing, Free
    <3>6. FreshUnlessOvertaken'
      BY <3>1 DEF FreshUnlessOvertaken
    <3>7. QED
      BY <3>3, <3>4, <3>5, <3>6 DEF CacheInv
  <2>11. ASSUME NEW w \in Hooks, IncomingWebhook(r, w) PROVE CacheInv'
    <3> DEFINE j == [Free EXCEPT !.do = "receive", !.at = "publish"]
    <3>1. j \in RequestRecords /\ j.do = "receive" /\ j.at = "publish"
      BY DEF Free, RequestRecords, Doings, JobPoints, Keys
    <3>2. Arrives(r, j) /\ UNCHANGED <<cache, promised, crossed, tip>>
      BY <2>11 DEF IncomingWebhook, tableVars
    <3> HIDE DEF j
    <3>3. QED
      BY <1>t, <3>1, <3>2, ArrivalStep DEF CacheTyped
  <2>12. ASSUME NEW n \in Accounts, AuthRegister(r, n) \/ OAuthCallback(r, n) \/ AuthLogin(r, n) PROVE CacheInv'
    <3>1. PICK at \in {"insert", "link", "publish"} :
             Arrives(r, [Free EXCEPT !.do = "account", !.at = at, !.on = n])
      BY <2>12 DEF AuthRegister, OAuthCallback, AuthLogin, Account
    <3> DEFINE j == [Free EXCEPT !.do = "account", !.at = at, !.on = n]
    <3>2. j \in RequestRecords /\ j.do = "account" /\ j.at = at
      BY <2>12 DEF Free, RequestRecords, Doings, JobPoints
    <3>3. Arrives(r, j) /\ UNCHANGED <<cache, promised, crossed, tip>>
      BY <2>12, <3>1 DEF AuthRegister, OAuthCallback, AuthLogin, tableVars
    <3> HIDE DEF j
    <3>4. QED
      BY <1>t, <3>2, <3>3, ArrivalStep DEF CacheTyped
  <2>13. CASE RegisterInsert(r) \/ OAuthInsert(r)
    BY <1>t, <2>7, <2>8, <2>13 DEF RegisterInsert, OAuthInsert, InsertUser, tableVars, CacheTyped, JobPoints
  <2>14. CASE UploadFile(r)
    <3> DEFINE j == [Free EXCEPT !.do = "upload", !.at = "row", !.wrote = made + 1]
    <3>1. made + 1 \in Nat
      BY <1>t DEF CacheTyped
    <3>2. j \in RequestRecords /\ j.do = "upload" /\ j.at = "row"
      BY <3>1, Zenon DEF Free, RequestRecords, Doings, JobPoints, Keys
    <3>3. Arrives(r, j) /\ UNCHANGED <<cache, promised, crossed, tip>>
      BY <2>14 DEF UploadFile, tableVars
    <3> HIDE DEF j
    <3>4. QED
      BY <1>t, <3>2, <3>3, ArrivalStep DEF CacheTyped
  <2>15. CASE UploadRow(r)
    BY <1>t, <2>7, <2>8, <2>15 DEF UploadRow, tableVars, CacheTyped, JobPoints
  <2>16. CASE UploadLink(r)
    BY <1>t, <2>8, <2>16 DEF UploadLink, Changed, CacheTyped
  <2>17. QED
    BY <1>1, <2>1, <2>2, <2>3, <2>5, <2>6, <2>9, <2>10, <2>11, <2>12, <2>13, <2>14, <2>15, <2>16 DEF RequestStep
<1>2. ASSUME NEW k \in Keys, CacheExpires(k) PROVE CacheInv'
  BY <1>t, <1>2 DEF CacheExpires, CacheInv, CacheTyped, PromisesMade, ReadsFresh, Doing, FreshUnlessOvertaken, NoEntry
<1>3. ASSUME NEW e \in Events, ActionWrites(e) PROVE CacheInv'
  BY <1>t, <1>3, StillStep DEF ActionWrites, Changed, CacheTyped
<1>4. CASE UNCHANGED requestVars
  BY <1>t, <1>4, StillStep DEF requestVars, tableVars, CacheTyped
<1>5. CASE ApiCrash
  <2>1. CacheTyped'
    BY <1>t, <1>5, FreeTyped DEF ApiCrash, CacheTyped, NoEntry
  <2>2. PromisesMade' /\ ReadsFresh' /\ FreshUnlessOvertaken'
    BY <1>5 DEF ApiCrash, CacheInv, PromisesMade, ReadsFresh, Doing, Free, FreshUnlessOvertaken, NoEntry
  <2>3. QED
    BY <2>1, <2>2 DEF CacheInv
<1>6. QED
  BY <1>1, <1>2, <1>3, <1>4, <1>5 DEF ApiNext, apiVars

\* The cache starts empty.
LEMMA CacheStart == ApiInit => CacheInv
<1> SUFFICES ASSUME ApiInit PROVE CacheInv
  OBVIOUS
<1>1. CacheTyped
  BY FreeTyped DEF ApiInit, CacheTyped, NoEntry
<1>2. PromisesMade /\ ReadsFresh /\ FreshUnlessOvertaken
  BY DEF ApiInit, PromisesMade, ReadsFresh, Doing, Free, FreshUnlessOvertaken, NoEntry
<1>3. QED
  BY <1>1, <1>2 DEF CacheInv

\* The invariant of every behaviour of the public API.
THEOREM CacheInvariant == ApiSpec => []CacheInv
  BY CacheStart, CacheStep, PTL DEF ApiSpec

\* A cached answer is never older than a change whose request has ended, but for a read
\* that the invalidation overtook (server/public/cache.go, invalidateTable).
THEOREM CacheFresh == ApiSpec => []FreshUnlessOvertaken
<1>1. CacheInv => FreshUnlessOvertaken
  BY DEF CacheInv
<1>2. QED
  BY <1>1, CacheInvariant, PTL

-----------------------------------------------------------------------------
(* What requests write                                                      *)

\* What the requests under way do to another part is the same after the step for all
\* requests but one; being overtaken concerns the cache only.
OthersStay(r) ==
    \A o \in Requests : o # r => /\ request'[o].do = request[o].do /\ request'[o].at = request[o].at
                                 /\ request'[o].on = request[o].on /\ request'[o].seen = request[o].seen
                                 /\ request'[o].wrote = request[o].wrote

\* A read knows no change that has not been made, and neither does the cache.
ReadsKnown ==
    /\ live \subseteq Ids /\ crossed \subseteq Keys
    /\ \A k \in Keys : cache[k] \subseteq 0 .. tip
    /\ \A r \in Requests : request[r].do = "get" => /\ request[r].on \in Keys
                                                    /\ request[r].at = "fill" => request[r].seen <= tip

\* A request about to insert an account has found the name free, and it is free still
\* unless another has raced it, or has not been able to look.
Signing(r) == request[r].do = "account" /\ request[r].at \in {"insert", "link"}
AccountsKnown ==
    /\ unique \in BOOLEAN /\ users \in [Accounts -> Nat] /\ twins \subseteq Accounts
    /\ \A n \in Accounts : users[n] > 1 => n \in twins /\ unique = FALSE
    /\ \A r \in Requests : request[r].do = "account" => request[r].on \in Accounts
    /\ \A r \in Requests : Signing(r) => users[request[r].on] = 0 \/ request[r].on \in twins

\* An upload about to be written to the table is a file of its own that has no row.
Storing(r) == request[r].do = "upload" /\ request[r].at = "row"
UploadsKnown ==
    /\ fileRows \subseteq files /\ files \subseteq 1 .. made /\ made <= MaxRequests
    /\ \A r \in Requests : Storing(r) => request[r].wrote \in files /\ request[r].wrote \notin fileRows
    /\ \A r, s \in Requests : Storing(r) /\ Storing(s) /\ request[r].wrote = request[s].wrote => r = s

\* Each event yet to come has its request.
Announcing == {r \in Requests : request[r].at \in {"publish", "insert"}}
EventsDue == IsFiniteSet(Announcing) /\ told + Cardinality(Announcing) <= made

ApiRest == ReadsKnown /\ AccountsKnown /\ UploadsKnown /\ EventsDue
ApiInv == CacheInv /\ EventsInv /\ ApiRest

\* What one request does leaves the reads knowing no change ahead of the last.
LEMMA ReadsKeep ==
    ASSUME CacheTyped, CacheTyped', ReadsKnown, NEW r \in Requests, OthersStay(r),
           tip <= tip', live' \subseteq Ids, crossed' \subseteq Keys, \A k \in Keys : cache'[k] \subseteq 0 .. tip',
           request'[r].do = "get" => /\ request'[r].on \in Keys
                                     /\ request'[r].at = "fill" => request'[r].seen <= tip'
    PROVE  ReadsKnown'
<1>1. ASSUME NEW o \in Requests, request'[o].do = "get"
      PROVE  request'[o].on \in Keys /\ (request'[o].at = "fill" => request'[o].seen <= tip')
  <2>1. CASE o = r
    BY <1>1, <2>1
  <2>2. CASE o # r
    <3>1. request[o].do = "get" /\ request'[o].on = request[o].on /\ request'[o].at = request[o].at
          /\ request'[o].seen = request[o].seen
      BY <1>1, <2>2 DEF OthersStay
    <3>2. request[o].seen \in Nat /\ tip \in Nat /\ tip' \in Nat
      BY DEF CacheTyped, RequestRecords
    <3>3. request'[o].on \in Keys
      BY <3>1 DEF ReadsKnown
    <3>4. request'[o].at = "fill" => request'[o].seen <= tip
      BY <3>1 DEF ReadsKnown
    <3>5. QED
      BY <3>1, <3>2, <3>3, <3>4
  <2>3. QED
    BY <2>1, <2>2
<1>2. QED
  BY <1>1 DEF ReadsKnown

\* The cache is left alone, or emptied.
LEMMA CachedKnown ==
    ASSUME CacheTyped, CacheTyped', ReadsKnown, tip <= tip', cache' = cache
    PROVE  \A k \in Keys : cache'[k] \subseteq 0 .. tip'
<1>1. tip \in Nat /\ tip' \in Nat
  BY DEF CacheTyped
<1>2. 0 .. tip \subseteq 0 .. tip'
  BY <1>1
<1>3. QED
  BY <1>2 DEF ReadsKnown

\* A request that writes no account leaves what is known of them.
LEMMA AccountsKeep ==
    ASSUME AccountsKnown, NEW r \in Requests, OthersStay(r), UNCHANGED <<unique, users>>,
           twins \subseteq twins', twins' \subseteq twins \cup Accounts,
           request'[r].do = "account" => request'[r].on \in Accounts,
           Signing(r)' => users[request'[r].on] = 0 \/ request'[r].on \in twins'
    PROVE  AccountsKnown'
<1>1. ASSUME NEW o \in Requests
      PROVE  /\ request'[o].do = "account" => request'[o].on \in Accounts
             /\ Signing(o)' => users'[request'[o].on] = 0 \/ request'[o].on \in twins'
  BY DEF AccountsKnown, OthersStay, Signing
<1>2. QED
  BY <1>1 DEF AccountsKnown

\* A request that writes no file leaves what is known of the uploads.
LEMMA UploadsKeep ==
    ASSUME UploadsKnown, NEW r \in Requests, OthersStay(r), UNCHANGED <<files, fileRows>>, made \in Nat,
           made' \in Nat, made <= made', made' <= MaxRequests, ~Storing(r)'
    PROVE  UploadsKnown'
<1>1. ASSUME NEW o \in Requests, Storing(o)'
      PROVE  o # r /\ Storing(o) /\ request'[o].wrote = request[o].wrote
  BY <1>1 DEF OthersStay, Storing
<1>2. 1 .. made \subseteq 1 .. made'
  OBVIOUS
<1>3. QED
  BY <1>1, <1>2 DEF UploadsKnown

\* A request arrives, goes on, or publishes.
LEMMA DueKeeps ==
    ASSUME EventsDue, NEW r \in Requests, OthersStay(r), told \in Nat, made \in Nat,
           \/ told' = told /\ made' = made + 1
           \/ told' = told /\ made' = made /\ (r \in Announcing' => r \in Announcing)
           \/ told' = told + 1 /\ made' = made /\ r \in Announcing /\ r \notin Announcing'
    PROVE  EventsDue'
<1>1. \A o \in Requests : o # r => (o \in Announcing' <=> o \in Announcing)
  BY DEF OthersStay, Announcing
<1>2. Announcing \subseteq Requests /\ Announcing' \subseteq Requests
  BY DEF Announcing
<1> DEFINE A == Announcing
           B == Announcing'
<1>3. IsFiniteSet(A) /\ told + Cardinality(A) <= made
  BY DEF EventsDue
<1>4. A \ {r} = B \ {r}
  BY <1>1, <1>2
<1>0. \/ told' = told /\ made' = made + 1
      \/ told' = told /\ made' = made /\ (r \in B => r \in A)
      \/ told' = told + 1 /\ made' = made /\ r \in A /\ r \notin B
  OBVIOUS
<1> HIDE DEF A, B
<1>5. IsFiniteSet(A \ {r}) /\ Cardinality(A) \in Nat /\ Cardinality(A \ {r}) \in Nat
      /\ Cardinality(A \ {r}) = (IF r \in A THEN Cardinality(A) - 1 ELSE Cardinality(A))
  BY <1>3, FS_RemoveElement, FS_CardinalityType
<1>6. r \in B => IsFiniteSet(B) /\ Cardinality(B) = Cardinality(A \ {r}) + 1
  <2>1. r \in B => B = (A \ {r}) \cup {r} /\ r \notin A \ {r}
    BY <1>4
  <2>2. QED
    BY <1>5, <2>1, FS_AddElement
<1>7. r \notin B => B = A \ {r}
  BY <1>4
<1>8. IsFiniteSet(B)
  BY <1>5, <1>6, <1>7
<1>9. told' + Cardinality(B) <= made'
  <2> DEFINE n == Cardinality(A)
             k == Cardinality(A \ {r})
             m == Cardinality(B)
  <2>1. n \in Nat /\ k \in Nat /\ told + n <= made /\ k = (IF r \in A THEN n - 1 ELSE n)
    BY <1>3, <1>5
  <2>2. m = (IF r \in B THEN k + 1 ELSE k)
    BY <1>6, <1>7
  <2> HIDE DEF n, k, m
  <2>3. told' + m <= made'
    BY ONLY <1>0, <2>1, <2>2, told \in Nat, made \in Nat
  <2>4. QED
    BY <2>3 DEF m
<1>10. QED
  BY <1>8, <1>9 DEF EventsDue, B

\* A step that leaves the webhooks and the deliveries alone keeps their invariant.
LEMMA EventsStill ==
    ASSUME EventsInv, UNCHANGED <<hook, changes, told, delivery, chore>>, losses' \in 0 .. MaxLosses
    PROVE  EventsInv'
  BY DEF EventsInv, EventsTyped, HooksUsed, DeliveriesInCourse, NothingAhead

\* A request that moves on leaves the others where they are.
LEMMA OneMoves ==
    ASSUME CacheTyped, NEW r \in Requests, NEW j \in RequestRecords, request' = [request EXCEPT ![r] = j]
    PROVE  request'[r] = j /\ OthersStay(r)
  BY DEF CacheTyped, OthersStay

\* What a request may become that leaves accounts, uploads and the cache alone.
Harmless(j) ==
    /\ j.do = "get" => j.on \in Keys /\ (j.at = "fill" => j.seen <= tip')
    /\ j.do = "account" => /\ j.on \in Accounts
                           /\ j.at \in {"insert", "link"} => users[j.on] = 0 \/ j.on \in twins'
    /\ ~(j.do = "upload" /\ j.at = "row")

\* A request goes on to another point of its handler.
LEMMA MoveKeeps ==
    ASSUME ApiInv, CacheTyped', NEW r \in Requests, NEW j \in RequestRecords,
           request' = [request EXCEPT ![r] = j], Harmless(j),
           tip <= tip', live' \subseteq Ids, UNCHANGED <<cache, crossed, unique, users, files, fileRows>>,
           twins \subseteq twins', twins' \subseteq twins \cup Accounts,
           \/ told' = told /\ made' = made + 1 /\ made < MaxRequests
           \/ told' = told /\ made' = made /\ (j.at \in {"publish", "insert"} => request[r].at \in {"publish", "insert"})
           \/ /\ told' = told + 1 /\ made' = made
              /\ request[r].at \in {"publish", "insert"} /\ j.at \notin {"publish", "insert"}
    PROVE  ApiRest'
<1>1. CacheTyped /\ ReadsKnown /\ AccountsKnown /\ UploadsKnown /\ EventsDue /\ told \in Nat /\ made \in Nat
  BY DEF ApiInv, ApiRest, CacheInv, CacheTyped, EventsInv, EventsTyped
<1>2. request'[r] = j /\ OthersStay(r)
  BY <1>1, OneMoves
<1>3. ReadsKnown'
  <2>1. \A k \in Keys : cache'[k] \subseteq 0 .. tip'
    BY <1>1, CachedKnown
  <2>2. crossed' \subseteq Keys
    BY <1>1 DEF ReadsKnown
  <2>3. QED
    BY <1>1, <1>2, <2>1, <2>2, ReadsKeep DEF Harmless
<1>4. AccountsKnown'
  BY <1>1, <1>2, AccountsKeep DEF Harmless, Signing
<1>5. UploadsKnown'
  <2>1. made' \in Nat /\ made <= made' /\ made' <= MaxRequests
    BY <1>1, PublicApiAssumption DEF UploadsKnown
  <2>2. QED
    BY <1>1, <1>2, <2>1, UploadsKeep DEF Harmless, Storing
<1>6. EventsDue'
  <2>1. /\ r \in Announcing <=> request[r].at \in {"publish", "insert"}
        /\ r \in Announcing' <=> j.at \in {"publish", "insert"}
    BY <1>2 DEF Announcing
  <2>2. QED
    BY <1>1, <1>2, <2>1, DueKeeps
<1>7. QED
  BY <1>3, <1>4, <1>5, <1>6 DEF ApiRest

\* One that arrives.
LEMMA ArrivalKeeps ==
    ASSUME ApiInv, CacheTyped', NEW r \in Requests, NEW j \in RequestRecords, Arrives(r, j), Harmless(j),
           tip <= tip', live' \subseteq Ids, UNCHANGED <<cache, crossed, unique, users, files, fileRows>>,
           twins \subseteq twins', twins' \subseteq twins \cup Accounts,
           UNCHANGED <<hook, changes, told, delivery, chore>>, losses' \in 0 .. MaxLosses
    PROVE  ApiRest' /\ EventsInv'
<1>1. request' = [request EXCEPT ![r] = j] /\ told' = told /\ made' = made + 1 /\ made < MaxRequests
  BY DEF Arrives
<1>2. EventsInv'
  BY EventsStill DEF ApiInv
<1>3. QED
  BY <1>1, <1>2, MoveKeeps

\* One that is answered.
LEMMA EndKeeps ==
    ASSUME ApiInv, CacheTyped', NEW r \in Requests, Ends(r),
           tip <= tip', live' \subseteq Ids, UNCHANGED <<cache, crossed, unique, users, twins, files, fileRows>>,
           UNCHANGED <<hook, changes, told, delivery, chore, made>>, losses' \in 0 .. MaxLosses
    PROVE  ApiRest' /\ EventsInv'
<1>1. request' = [request EXCEPT ![r] = Free] /\ Free.do = "nothing" /\ Free.at = "end"
  BY DEF Ends, Free
<1>2. EventsInv'
  BY EventsStill DEF ApiInv
<1>3. ApiRest'
  BY <1>1, FreeTyped, MoveKeeps DEF Harmless
<1>4. QED
  BY <1>2, <1>3

\* The statements of a request, as far as they are harmless.
LEMMA HarmlessStep ==
    ASSUME ApiInv, CacheTyped', NEW r \in Requests,
           \/ \E k \in Keys : CacheMiss(r, k)
           \/ ApiRead(r) \/ WriteRefused(r)
           \/ \E i \in Ids : ApiInsert(r, i) \/ ApiUpdate(r, i) \/ ApiDelete(r, i)
           \/ \E w \in Hooks : IncomingWebhook(r, w)
           \/ \E n \in Accounts : AuthRegister(r, n) \/ OAuthCallback(r, n) \/ AuthLogin(r, n)
           \/ UploadLink(r)
    PROVE  ApiRest' /\ EventsInv'
<1>t. /\ CacheTyped /\ tip \in Nat /\ tip + 1 \in Nat /\ live \subseteq Ids /\ losses \in 0 .. MaxLosses
      /\ MaxLosses \in Nat /\ tip <= tip /\ tip <= tip + 1
  BY SiteEventsAssumption DEF ApiInv, ApiRest, ReadsKnown, CacheInv, CacheTyped, EventsInv, EventsTyped
<1>w. UNCHANGED <<configVars, eventVars>> => UNCHANGED <<hook, changes, told, delivery, chore>>
  BY DEF configVars, eventVars
<1>l. losses' = losses \/ Loses => losses' \in 0 .. MaxLosses
  BY <1>t DEF Loses
<1>1. ASSUME NEW k \in Keys, CacheMiss(r, k) PROVE ApiRest' /\ EventsInv'
  <2> DEFINE j == [Free EXCEPT !.do = "get", !.at = "read", !.on = k]
  <2>1. j \in RequestRecords /\ j.do = "get" /\ j.at = "read" /\ j.on = k
    BY <1>1 DEF Free, RequestRecords, Doings, JobPoints, Keys
  <2>2. Arrives(r, j) /\ UNCHANGED <<cache, crossed, unique, users, twins, files, fileRows, live, tip>>
        /\ UNCHANGED <<configVars, eventVars, losses>>
    BY <1>1 DEF CacheMiss, tableVars, userVars, fileVars
  <2> HIDE DEF j
  <2>3. Harmless(j)
    BY <2>1 DEF Harmless
  <2>4. QED
    BY <1>t, <1>w, <2>1, <2>2, <2>3, ArrivalKeeps
<1>2. CASE ApiRead(r)
  <2>1. UNCHANGED <<cache, crossed, unique, users, twins, files, fileRows, live, tip, made, losses>>
        /\ UNCHANGED <<hook, changes, told, delivery, chore>> /\ Doing(r, "get", "read")
    BY <1>2, <1>w DEF ApiRead, tableVars, userVars, fileVars
  <2>2. CASE request' = [request EXCEPT ![r].at = "fill", ![r].seen = tip]
    <3> DEFINE j == [request[r] EXCEPT !.at = "fill", !.seen = tip]
    <3>1. request[r] \in RequestRecords /\ request' = [request EXCEPT ![r] = j]
      BY <1>t, <2>2 DEF CacheTyped
    <3>2. j \in RequestRecords /\ j.do = "get" /\ j.at = "fill" /\ j.seen = tip /\ j.on = request[r].on
      BY <1>t, <2>1, <3>1 DEF RequestRecords, JobPoints, Doing
    <3> HIDE DEF j
    <3>3. j.on \in Keys
      BY <2>1, <3>2 DEF ApiInv, ApiRest, ReadsKnown, Doing
    <3>4. Harmless(j)
      BY <1>t, <2>1, <3>2, <3>3 DEF Harmless
    <3>5. ApiRest'
      BY <1>t, <2>1, <3>1, <3>2, <3>4, MoveKeeps
    <3>6. QED
      BY <1>t, <2>1, <3>5, EventsStill DEF ApiInv
  <2>3. CASE Ends(r)
    BY <1>t, <2>1, <2>3, EndKeeps
  <2>4. QED
    BY <1>2, <2>2, <2>3 DEF ApiRead
<1>3. ASSUME NEW change \in Nat, NEW at \in JobPoints, Writes(r, at, change), tip <= tip', live' \subseteq Ids,
             UNCHANGED <<cache, crossed, userVars, fileVars, configVars, eventVars>>, losses' = losses \/ Loses
      PROVE  ApiRest' /\ EventsInv'
  <2> DEFINE j == [Free EXCEPT !.do = "write", !.at = at, !.wrote = change]
  <2>1. j \in RequestRecords /\ j.do = "write"
    BY <1>3 DEF Free, RequestRecords, Doings, Keys
  <2>2. Arrives(r, j) /\ UNCHANGED <<cache, crossed, unique, users, twins, files, fileRows>>
    BY <1>3 DEF Writes, userVars, fileVars
  <2> HIDE DEF j
  <2>3. Harmless(j)
    BY <2>1 DEF Harmless
  <2>4. QED
    BY <1>3, <1>l, <1>w, <2>1, <2>2, <2>3, ArrivalKeeps
<1>4. CASE WriteRefused(r)
  <2>1. /\ Writes(r, "invalidate", 0) /\ Loses /\ UNCHANGED <<cache, crossed, userVars, fileVars, configVars, eventVars>>
        /\ tip' = tip /\ live' = live
    BY <1>4 DEF WriteRefused, tableVars
  <2>2. 0 \in Nat /\ "invalidate" \in JobPoints
    BY DEF JobPoints
  <2>3. QED
    BY <1>t, <1>3, <2>1, <2>2
<1>5. ASSUME NEW i \in Ids, ApiInsert(r, i) \/ ApiUpdate(r, i) \/ ApiDelete(r, i) PROVE ApiRest' /\ EventsInv'
  <2>1. live' \subseteq Ids /\ UNCHANGED <<userVars, fileVars, configVars, eventVars, losses>>
    BY <1>t, <1>5 DEF ApiInsert, ApiUpdate, ApiDelete
  <2>2. 0 \in Nat /\ "invalidate" \in JobPoints /\ "publish" \in JobPoints
    BY DEF JobPoints
  <2>3. CASE Changed /\ Writes(r, "publish", tip + 1)
    BY <1>t, <1>3, <2>1, <2>2, <2>3 DEF Changed
  <2>4. CASE UNCHANGED <<tip, cache, promised, crossed>> /\ Writes(r, "invalidate", 0)
    BY <1>t, <1>3, <2>1, <2>2, <2>4
  <2>5. QED
    BY <1>5, <2>3, <2>4 DEF ApiInsert, ApiUpdate, ApiDelete
<1>6. ASSUME NEW w \in Hooks, IncomingWebhook(r, w) PROVE ApiRest' /\ EventsInv'
  <2> DEFINE j == [Free EXCEPT !.do = "receive", !.at = "publish"]
  <2>1. j \in RequestRecords /\ j.do = "receive"
    BY DEF Free, RequestRecords, Doings, JobPoints, Keys
  <2>2. Arrives(r, j) /\ UNCHANGED <<cache, crossed, unique, users, twins, files, fileRows, live, tip>>
        /\ UNCHANGED <<configVars, eventVars, losses>>
    BY <1>6 DEF IncomingWebhook, tableVars, userVars, fileVars
  <2> HIDE DEF j
  <2>3. Harmless(j)
    BY <2>1 DEF Harmless
  <2>4. QED
    BY <1>t, <1>w, <2>1, <2>2, <2>3, ArrivalKeeps
<1>7. ASSUME NEW n \in Accounts, AuthRegister(r, n) \/ OAuthCallback(r, n) \/ AuthLogin(r, n)
      PROVE  ApiRest' /\ EventsInv'
  <2>1. PICK at \in {"insert", "link", "publish"} :
           /\ Arrives(r, [Free EXCEPT !.do = "account", !.at = at, !.on = n])
           /\ at \in {"insert", "link"} => users[n] = 0 \/ n \in twins'
           /\ twins \subseteq twins' /\ twins' \subseteq twins \cup Accounts
           /\ losses' = losses \/ Loses
           /\ UNCHANGED <<unique, users>>
    <3>1. CASE AuthRegister(r, n)
      <4>1. users[n] \in Nat
        BY DEF ApiInv, ApiRest, AccountsKnown
      <4>2. Arrives(r, [Free EXCEPT !.do = "account", !.at = "insert", !.on = n]) /\ UNCHANGED <<unique, users>>
        BY <3>1 DEF AuthRegister, Account
      <4>3. users[n] = 0 \/ n \in twins'
        BY <3>1, <4>1 DEF AuthRegister
      <4>4. twins \subseteq twins' /\ twins' \subseteq twins \cup Accounts /\ (losses' = losses \/ Loses)
        BY <3>1 DEF AuthRegister
      <4>5. QED
        BY <4>2, <4>3, <4>4
    <3>2. CASE OAuthCallback(r, n)
      BY <3>2 DEF OAuthCallback, Account, userVars
    <3>3. CASE AuthLogin(r, n)
      BY <3>3 DEF AuthLogin, Account, userVars
    <3>4. QED
      BY <1>7, <3>1, <3>2, <3>3
  <2> DEFINE j == [Free EXCEPT !.do = "account", !.at = at, !.on = n]
  <2>2. j \in RequestRecords /\ j.do = "account" /\ j.at = at /\ j.on = n
    BY <1>7 DEF Free, RequestRecords, Doings, JobPoints
  <2>3. Arrives(r, j) /\ UNCHANGED <<cache, crossed, unique, users, files, fileRows, live, tip>>
        /\ UNCHANGED <<configVars, eventVars>>
    BY <1>7, <2>1 DEF AuthRegister, OAuthCallback, AuthLogin, tableVars, fileVars
  <2> HIDE DEF j
  <2>4. Harmless(j)
    BY <2>1, <2>2 DEF Harmless
  <2>5. QED
    BY <1>t, <1>w, <1>l, <2>1, <2>2, <2>3, <2>4, ArrivalKeeps
<1>8. CASE UploadLink(r)
  <2>1. /\ Ends(r) /\ UNCHANGED <<hook, changes, told, delivery, chore, made, losses>>
        /\ UNCHANGED <<unique, users, twins, files, fileRows>>
    BY <1>8, <1>w DEF UploadLink, userVars, fileVars
  <2>2. tip <= tip' /\ live' \subseteq Ids /\ UNCHANGED <<cache, crossed>>
    BY <1>t, <1>8 DEF UploadLink, Changed
  <2>3. QED
    BY <1>t, <2>1, <2>2, EndKeeps
<1>9. QED
  BY <1>1, <1>2, <1>4, <1>5, <1>6, <1>7, <1>8

\* A read fills the cache.
LEMMA FillKeeps ==
    ASSUME ApiInv, CacheTyped', NEW r \in Requests, CacheSet(r)
    PROVE  ApiRest' /\ EventsInv'
<1>1. /\ CacheTyped /\ ReadsKnown /\ AccountsKnown /\ UploadsKnown /\ EventsDue /\ EventsInv
      /\ told \in Nat /\ made \in Nat /\ tip \in Nat
  BY DEF ApiInv, ApiRest, CacheInv, CacheTyped, EventsInv, EventsTyped
<1>2. /\ Doing(r, "get", "fill") /\ request' = [request EXCEPT ![r] = Free]
      /\ cache' = [cache EXCEPT ![request[r].on] = {request[r].seen}]
      /\ crossed' \subseteq crossed \cup {request[r].on}
      /\ UNCHANGED <<live, tip, made, told, unique, users, twins, files, fileRows>>
      /\ UNCHANGED <<hook, changes, told, delivery, chore, losses>>
  BY DEF CacheSet, Ends, userVars, fileVars, configVars, eventVars
<1>3. request'[r] = Free /\ OthersStay(r) /\ Free.do = "nothing" /\ Free.at = "end"
  BY <1>1, <1>2, OneMoves, FreeTyped DEF Free
<1>4. request[r].on \in Keys /\ request[r].seen <= tip /\ request[r].seen \in Nat
  BY <1>1, <1>2 DEF ReadsKnown, Doing, CacheTyped, RequestRecords
<1>5. ReadsKnown'
  <2>1. \A k \in Keys : cache'[k] \subseteq 0 .. tip'
    BY <1>1, <1>2, <1>4 DEF ReadsKnown, CacheTyped
  <2>2. crossed' \subseteq Keys /\ live' \subseteq Ids /\ tip <= tip'
    BY <1>1, <1>2, <1>4 DEF ReadsKnown
  <2>3. QED
    BY <1>1, <1>3, <2>1, <2>2, ReadsKeep
<1>6. AccountsKnown'
  BY <1>1, <1>2, <1>3, AccountsKeep DEF Signing
<1>7. UploadsKnown'
  BY <1>1, <1>2, <1>3, UploadsKeep DEF Storing, UploadsKnown
<1>8. EventsDue'
  <2>1. r \notin Announcing'
    BY <1>3 DEF Announcing
  <2>2. QED
    BY <1>1, <1>2, <1>3, <2>1, DueKeeps
<1>9. EventsInv'
  BY <1>1, <1>2, EventsStill DEF EventsInv, EventsTyped
<1>10. QED
  BY <1>5, <1>6, <1>7, <1>8, <1>9 DEF ApiRest

\* A write invalidates.
LEMMA ForgetKeeps ==
    ASSUME ApiInv, CacheTyped', NEW r \in Requests, InvalidateTable(r)
    PROVE  ApiRest' /\ EventsInv'
<1>1. /\ CacheTyped /\ ReadsKnown /\ AccountsKnown /\ UploadsKnown /\ EventsDue /\ EventsInv
      /\ told \in Nat /\ made \in Nat /\ tip \in Nat
  BY DEF ApiInv, ApiRest, CacheInv, CacheTyped, EventsInv, EventsTyped
<1>2. /\ request' = Overtaken(r) /\ cache' = [k \in Keys |-> {}] /\ crossed' \subseteq crossed
      /\ UNCHANGED <<live, tip, made, told, unique, users, twins, files, fileRows>>
      /\ UNCHANGED <<hook, changes, told, delivery, chore, losses>>
  BY DEF InvalidateTable, Forget, NoEntry, userVars, fileVars, configVars, eventVars
<1>3. request'[r] = Free /\ OthersStay(r) /\ Free.do = "nothing" /\ Free.at = "end"
  BY <1>1, <1>2 DEF Overtaken, OthersStay, Free, CacheTyped, RequestRecords
<1>4. ReadsKnown'
  <2>1. \A k \in Keys : cache'[k] \subseteq 0 .. tip'
    BY <1>2
  <2>2. crossed' \subseteq Keys /\ live' \subseteq Ids /\ tip <= tip'
    BY <1>1, <1>2 DEF ReadsKnown
  <2>3. QED
    BY <1>1, <1>3, <2>1, <2>2, ReadsKeep
<1>5. AccountsKnown'
  BY <1>1, <1>2, <1>3, AccountsKeep DEF Signing
<1>6. UploadsKnown'
  BY <1>1, <1>2, <1>3, UploadsKeep DEF Storing, UploadsKnown
<1>7. EventsDue'
  <2>1. r \notin Announcing'
    BY <1>3 DEF Announcing
  <2>2. QED
    BY <1>1, <1>2, <1>3, <2>1, DueKeeps
<1>8. EventsInv'
  BY <1>1, <1>2, EventsStill DEF EventsInv, EventsTyped
<1>9. QED
  BY <1>4, <1>5, <1>6, <1>7, <1>8 DEF ApiRest

\* A request publishes its event, for which there is room.
LEMMA PublishesKeeps ==
    ASSUME ApiInv, CacheTyped', NEW r \in Requests, PublishesData(r) \/ PublishesOther(r)
    PROVE  ApiRest' /\ EventsInv'
<1>1. /\ CacheTyped /\ EventsDue /\ EventsInv /\ told \in Nat /\ made \in Nat /\ tip \in Nat
      /\ losses \in 0 .. MaxLosses /\ live \subseteq Ids
  BY DEF ApiInv, ApiRest, ReadsKnown, CacheInv, CacheTyped, EventsInv, EventsTyped
<1>2. PICK type \in EventTypes : Publish(type)
  BY DEF PublishesData, PublishesOther, EventTypes
<1>3. /\ UNCHANGED <<tip, live, cache, crossed, unique, users, twins, files, fileRows, made, losses, hook, changes>>
      /\ told' = told + 1 /\ request[r].at = "publish"
  BY <1>2 DEF PublishesData, PublishesOther, Publish, Doing, tableVars, userVars, fileVars, configVars
<1>4. told + 1 \in Events
  <2>1. r \in Announcing /\ IsFiniteSet(Announcing) /\ told + Cardinality(Announcing) <= made
    BY <1>1, <1>3 DEF Announcing, EventsDue
  <2>2. Cardinality(Announcing) \in Nat /\ Cardinality(Announcing) # 0
    BY <2>1, FS_CardinalityType, FS_EmptySet
  <2>3. made <= MaxEvents /\ MaxEvents \in Nat
    BY <1>1, PublicApiAssumption, SiteEventsAssumption DEF ApiInv, ApiRest, UploadsKnown
  <2>4. QED
    BY <1>1, <2>1, <2>2, <2>3 DEF Events
<1>5. EventsInv'
  BY <1>1, <1>2, <1>3, <1>4, PublishKeeps
<1>7. tip <= tip' /\ live' \subseteq Ids /\ UNCHANGED <<cache, crossed, unique, users, twins, files, fileRows>>
  BY <1>1, <1>3
<1>8. ASSUME NEW j \in RequestRecords, request' = [request EXCEPT ![r] = j], Harmless(j),
             j.at \notin {"publish", "insert"}
      PROVE  ApiRest'
  <2>1. /\ told' = told + 1 /\ made' = made
        /\ request[r].at \in {"publish", "insert"} /\ j.at \notin {"publish", "insert"}
    BY <1>3, <1>8
  <2>2. QED
    BY <1>7, <1>8, <2>1, MoveKeeps
<1>6. ApiRest'
  <2>1. CASE PublishesData(r)
    <3> DEFINE j == [request[r] EXCEPT !.at = "invalidate"]
    <3>1. request[r] \in RequestRecords /\ request[r].do = "write" /\ request' = [request EXCEPT ![r] = j]
      BY <1>1, <2>1 DEF PublishesData, Goes, Doing, CacheTyped
    <3>2. j \in RequestRecords /\ j.do = "write" /\ j.at = "invalidate"
      BY <3>1 DEF RequestRecords, JobPoints
    <3> HIDE DEF j
    <3>3. Harmless(j)
      BY <3>2 DEF Harmless
    <3>4. QED
      BY <1>8, <3>1, <3>2, <3>3
  <2>2. CASE PublishesOther(r)
    <3>1. request' = [request EXCEPT ![r] = Free] /\ Free.do = "nothing" /\ Free.at = "end"
      BY <2>2 DEF PublishesOther, Ends, Free
    <3>2. Harmless(Free)
      BY <3>1 DEF Harmless
    <3>3. QED
      BY <1>8, <3>1, <3>2, FreeTyped
  <2>3. QED
    BY <2>1, <2>2
<1>9. QED
  BY <1>5, <1>6

\* An account is inserted: whoever else is about to insert the name is a twin from now on.
LEMMA InsertKeeps ==
    ASSUME ApiInv, CacheTyped', NEW r \in Requests, RegisterInsert(r) \/ OAuthInsert(r)
    PROVE  ApiRest' /\ EventsInv'
<1>1. /\ CacheTyped /\ ReadsKnown /\ AccountsKnown /\ UploadsKnown /\ EventsDue /\ EventsInv
      /\ told \in Nat /\ made \in Nat /\ tip \in Nat /\ losses \in 0 .. MaxLosses
  BY DEF ApiInv, ApiRest, CacheInv, CacheTyped, EventsInv, EventsTyped
<1> DEFINE n == request[r].on
           rivals == {request[o].on : o \in {p \in Requests \ {r} :
                         request[p].do = "account" /\ request[p].at \in {"insert", "link"}}}
<1>2. PICK at \in {"insert", "link"}, next \in {"publish", "end"} :
         /\ InsertUser(r, at, next) /\ (next = "publish" => at = "insert")
  BY DEF RegisterInsert, OAuthInsert
<1>3. /\ UNCHANGED <<live, tip, cache, crossed, made, told, files, fileRows>>
      /\ UNCHANGED <<hook, changes, told, delivery, chore, losses>> /\ Signing(r) /\ request[r].at = at
  BY <1>2 DEF InsertUser, Doing, Signing, tableVars, fileVars, configVars, eventVars
<1>4. \/ Ends(r) /\ UNCHANGED <<unique, users, twins>>
      \/ /\ ~(unique /\ users[n] > 0) /\ users' = [users EXCEPT ![n] = users[n] + 1]
         /\ twins' = twins \cup rivals /\ unique' = unique
         /\ IF next = "end" THEN Ends(r) ELSE Goes(r, next)
  BY <1>2 DEF InsertUser, userVars
<1>5. n \in Accounts /\ (users[n] = 0 \/ n \in twins) /\ request[r] \in RequestRecords
  BY <1>1, <1>3 DEF AccountsKnown, Signing, CacheTyped
<1>6. CASE Ends(r) /\ UNCHANGED <<unique, users, twins>>
  <2>1. tip <= tip' /\ live' \subseteq Ids
    BY <1>1, <1>3 DEF ReadsKnown
  <2>2. QED
    BY <1>1, <1>3, <1>6, <2>1, EndKeeps
<1>7. ASSUME ~(unique /\ users[n] > 0), users' = [users EXCEPT ![n] = users[n] + 1],
             twins' = twins \cup rivals, unique' = unique,
             IF next = "end" THEN Ends(r) ELSE Goes(r, next)
      PROVE  ApiRest' /\ EventsInv'
  <2> DEFINE j == IF next = "end" THEN Free ELSE [request[r] EXCEPT !.at = next]
  <2>1. /\ j \in RequestRecords /\ j.at = next /\ request' = [request EXCEPT ![r] = j]
        /\ j.do # "nothing" => j.do = "account" /\ j.on = n
        /\ j.do \in {"nothing", "account"}
    <3>1. CASE next = "end"
      BY <1>7, <3>1, FreeTyped DEF Ends, Free
    <3>2. CASE next # "end"
      <4>1. j = [request[r] EXCEPT !.at = next] /\ request' = [request EXCEPT ![r] = j] /\ next = "publish"
        BY <1>1, <1>2, <1>7, <3>2 DEF Goes, CacheTyped
      <4>2. j \in RequestRecords /\ j.at = next /\ j.do = request[r].do /\ j.on = n
        BY <1>5, <4>1 DEF RequestRecords, JobPoints
      <4>3. QED
        BY <1>3, <4>1, <4>2 DEF Signing
    <3>3. QED
      BY <3>1, <3>2
  <2> HIDE DEF j
  <2>2. request'[r] = j /\ OthersStay(r)
    BY <1>1, <2>1, OneMoves
  <2>3. ReadsKnown'
    <3>1. \A k \in Keys : cache'[k] \subseteq 0 .. tip'
      BY <1>1, <1>3, CachedKnown
    <3>2. crossed' \subseteq Keys /\ live' \subseteq Ids /\ tip <= tip'
      BY <1>1, <1>3 DEF ReadsKnown
    <3>3. QED
      BY <1>1, <2>1, <2>2, <3>1, <3>2, ReadsKeep
  <2>4. UploadsKnown'
    BY <1>1, <1>3, <2>1, <2>2, UploadsKeep DEF Storing, UploadsKnown
  <2>5. EventsDue'
    <3>1. r \in Announcing' => r \in Announcing
      BY <1>2, <1>3, <2>1, <2>2 DEF Announcing
    <3>2. QED
      BY <1>1, <1>3, <2>2, <3>1, DueKeeps
  <2>6. EventsInv'
    BY <1>1, <1>3, EventsStill
  <2>7. AccountsKnown'
    <3>1. users \in [Accounts -> Nat] /\ twins \subseteq Accounts /\ unique \in BOOLEAN
      BY <1>1 DEF AccountsKnown
    <3>2. users[n] + 1 \in Nat /\ users' \in [Accounts -> Nat] /\ users'[n] = users[n] + 1
          /\ \A m \in Accounts : m # n => users'[m] = users[m]
      BY <1>5, <1>7, <3>1
    <3>3. rivals \subseteq Accounts
      BY <1>1 DEF AccountsKnown
    <3>4. \A o \in Requests : o # r /\ Signing(o) => request[o].on \in twins'
      BY <1>7 DEF Signing
    <3> HIDE DEF rivals
    <3>5. \A m \in Accounts : users'[m] > 1 => m \in twins' /\ unique' = FALSE
      <4> SUFFICES ASSUME NEW m \in Accounts, users'[m] > 1 PROVE m \in twins' /\ unique = FALSE
        BY <1>7
      <4>1. CASE m # n
        BY <1>1, <1>7, <3>2, <4>1 DEF AccountsKnown
      <4>2. CASE m = n
        <5>1. users[n] \in Nat /\ users[n] > 0
          BY <1>5, <3>1, <3>2, <4>2
        <5>2. n \in twins
          BY <1>5, <5>1
        <5>3. unique = FALSE
          BY <1>7, <3>1, <5>1
        <5>4. QED
          BY <1>7, <4>2, <5>2, <5>3
      <4>3. QED
        BY <4>1, <4>2
    <3>6. \A o \in Requests : request'[o].do = "account" => request'[o].on \in Accounts
      BY <1>1, <1>5, <2>1, <2>2 DEF AccountsKnown, OthersStay
    <3>7. \A o \in Requests : Signing(o)' => users'[request'[o].on] = 0 \/ request'[o].on \in twins'
      BY <2>1, <2>2, <3>4 DEF OthersStay, Signing
    <3>8. QED
      BY <1>7, <3>1, <3>2, <3>3, <3>5, <3>6, <3>7 DEF AccountsKnown
  <2>8. QED
    BY <2>3, <2>4, <2>5, <2>6, <2>7 DEF ApiRest
<1>8. QED
  BY <1>4, <1>6, <1>7

\* A file of its own is stored, and its row written or the file removed.
LEMMA UploadKeeps ==
    ASSUME ApiInv, CacheTyped', NEW r \in Requests, UploadFile(r) \/ UploadRow(r)
    PROVE  ApiRest' /\ EventsInv'
<1>1. /\ CacheTyped /\ ReadsKnown /\ AccountsKnown /\ UploadsKnown /\ EventsDue /\ EventsInv
      /\ told \in Nat /\ made \in Nat /\ tip \in Nat /\ losses \in 0 .. MaxLosses /\ MaxRequests \in Nat
  BY PublicApiAssumption DEF ApiInv, ApiRest, CacheInv, CacheTyped, EventsInv, EventsTyped
<1>2. /\ UNCHANGED <<live, tip, cache, crossed, told, unique, users, twins>>
      /\ UNCHANGED <<hook, changes, told, delivery, chore>> /\ losses' \in 0 .. MaxLosses
  BY <1>1, SiteEventsAssumption DEF UploadFile, UploadRow, Loses, tableVars, userVars, configVars, eventVars
<1>3. ASSUME OthersStay(r), request'[r].do \in {"upload", "nothing"} PROVE ReadsKnown' /\ AccountsKnown'
  <2>1. \A k \in Keys : cache'[k] \subseteq 0 .. tip'
    BY <1>1, <1>2, CachedKnown
  <2>2. crossed' \subseteq Keys /\ live' \subseteq Ids /\ tip <= tip'
    BY <1>1, <1>2 DEF ReadsKnown
  <2>3. ReadsKnown'
    BY <1>1, <1>3, <2>1, <2>2, ReadsKeep
  <2>4. AccountsKnown'
    BY <1>1, <1>2, <1>3, AccountsKeep DEF Signing
  <2>5. QED
    BY <2>3, <2>4
<1>4. EventsInv'
  BY <1>1, <1>2, EventsStill
<1>5. CASE UploadFile(r)
  <2> DEFINE j == [Free EXCEPT !.do = "upload", !.at = "row", !.wrote = made + 1]
  <2>1. made + 1 \in Nat
    BY <1>1
  <2>2. j \in RequestRecords /\ j.do = "upload" /\ j.at = "row" /\ j.wrote = made + 1
    BY <2>1, Zenon DEF Free, RequestRecords, Doings, JobPoints, Keys
  <2>3. /\ request' = [request EXCEPT ![r] = j] /\ made' = made + 1 /\ made < MaxRequests
        /\ files' = files \cup {made + 1} /\ fileRows' = fileRows
    BY <1>5 DEF UploadFile, Arrives
  <2> HIDE DEF j
  <2>4. request'[r] = j /\ OthersStay(r)
    BY <1>1, <2>2, <2>3, OneMoves
  <2>5. UploadsKnown'
    <3>1. made + 1 \notin files /\ made + 1 \notin fileRows
      BY <1>1 DEF UploadsKnown
    <3>2. fileRows' \subseteq files' /\ files' \subseteq 1 .. made' /\ made' <= MaxRequests
      BY <1>1, <2>3 DEF UploadsKnown
    <3>3. \A o \in Requests : o # r /\ Storing(o)' => /\ Storing(o) /\ request'[o].wrote = request[o].wrote
                                                     /\ request[o].wrote \in files /\ request[o].wrote \notin fileRows
      BY <1>1, <2>4 DEF UploadsKnown, OthersStay, Storing
    <3>4. \A o \in Requests : Storing(o)' => request'[o].wrote \in files' /\ request'[o].wrote \notin fileRows'
      BY <2>2, <2>3, <2>4, <3>1, <3>3
    <3>5. \A o, p \in Requests : Storing(o)' /\ Storing(p)' /\ request'[o].wrote = request'[p].wrote => o = p
      <4> SUFFICES ASSUME NEW o \in Requests, NEW p \in Requests, Storing(o)', Storing(p)',
                          request'[o].wrote = request'[p].wrote, o # p
                   PROVE  FALSE
        OBVIOUS
      <4>1. o # r => request'[o].wrote \in files
        BY <3>3
      <4>2. p # r => request'[p].wrote \in files
        BY <3>3
      <4>3. o # r /\ p # r
        BY <2>2, <2>4, <3>1, <4>1, <4>2
      <4>4. QED
        BY <1>1, <3>3, <4>3 DEF UploadsKnown
    <3>6. QED
      BY <3>2, <3>4, <3>5 DEF UploadsKnown
  <2>6. EventsDue'
    BY <1>1, <1>2, <2>3, <2>4, DueKeeps
  <2>7. QED
    BY <1>3, <1>4, <2>2, <2>4, <2>5, <2>6 DEF ApiRest
<1>6. CASE UploadRow(r)
  <2> DEFINE u == request[r].wrote
             j == [request[r] EXCEPT !.at = "link"]
  <2>1. Storing(r) /\ made' = made /\ request[r] \in RequestRecords
        /\ u \in files /\ u \notin fileRows
    BY <1>1, <1>6 DEF UploadRow, Doing, Storing, UploadsKnown, CacheTyped
  <2>2. /\ j \in RequestRecords /\ j.do = "upload" /\ j.at = "link"
    BY <2>1 DEF Storing, RequestRecords, JobPoints
  <2>3. Free.do = "nothing" /\ Free.at = "end"
    BY DEF Free
  <2>4. \/ request' = [request EXCEPT ![r] = j] /\ fileRows' = fileRows \cup {u} /\ files' = files
        \/ request' = [request EXCEPT ![r] = Free] /\ fileRows' = fileRows /\ files' = files \ {u}
    BY <1>1, <1>6 DEF UploadRow, Goes, Ends, CacheTyped
  <2> HIDE DEF j
  <2>5. OthersStay(r) /\ request'[r] \in {j, Free}
    BY <1>1, <2>2, <2>4, FreeTyped, OneMoves
  <2>6. ~Storing(r)' /\ r \notin Announcing' /\ request'[r].do \in {"upload", "nothing"}
    BY <2>2, <2>3, <2>5 DEF Storing, Announcing
  <2>7. UploadsKnown'
    <3>1. \A o \in Requests : Storing(o)' => /\ o # r /\ Storing(o) /\ request'[o].wrote = request[o].wrote
                                            /\ request[o].wrote \in files /\ request[o].wrote \notin fileRows
                                            /\ request[o].wrote # u
      BY <1>1, <2>1, <2>5, <2>6 DEF UploadsKnown, OthersStay, Storing
    <3>2. fileRows' \subseteq files' /\ files' \subseteq 1 .. made' /\ made' <= MaxRequests
      BY <1>1, <2>1, <2>4 DEF UploadsKnown
    <3>3. \A o \in Requests : Storing(o)' => request'[o].wrote \in files' /\ request'[o].wrote \notin fileRows'
      BY <2>4, <3>1
    <3>4. QED
      BY <1>1, <3>1, <3>2, <3>3 DEF UploadsKnown
  <2>8. EventsDue'
    BY <1>1, <1>2, <2>1, <2>5, <2>6, DueKeeps
  <2>9. QED
    BY <1>3, <1>4, <2>5, <2>6, <2>7, <2>8 DEF ApiRest
<1>7. QED
  BY <1>5, <1>6

\* No request moves.
LEMMA RestStill ==
    ASSUME ApiInv, CacheTyped', UNCHANGED <<live, crossed, unique, users, twins, files, fileRows, request, made, told>>,
           tip <= tip', \A k \in Keys : cache'[k] \subseteq cache[k]
    PROVE  ApiRest'
<1>1. tip \in Nat /\ tip' \in Nat /\ \A r \in Requests : request[r].seen \in Nat
  BY DEF ApiInv, CacheInv, CacheTyped, RequestRecords
<1>2. 0 .. tip \subseteq 0 .. tip'
  BY <1>1
<1>3. ReadsKnown'
  <2>1. \A k \in Keys : cache'[k] \subseteq 0 .. tip'
    BY <1>2 DEF ApiInv, ApiRest, ReadsKnown
  <2>2. \A r \in Requests : request[r].seen <= tip => request[r].seen <= tip'
    BY <1>1
  <2>3. QED
    BY <2>1, <2>2 DEF ApiInv, ApiRest, ReadsKnown
<1>4. AccountsKnown' /\ UploadsKnown'
  BY DEF ApiInv, ApiRest, AccountsKnown, UploadsKnown, Signing, Storing
<1>5. EventsDue'
  <2>1. Announcing' = Announcing
    BY DEF Announcing
  <2>2. QED
    BY <2>1 DEF ApiInv, ApiRest, EventsDue
<1>6. QED
  BY <1>3, <1>4, <1>5 DEF ApiRest

\* Whatever a request, the cache, an event or an action does, or a crash, the invariant stays.
LEMMA ApiStep == ApiInv /\ [ApiNext]_apiVars => ApiInv'
<1> SUFFICES ASSUME ApiInv, [ApiNext]_apiVars PROVE ApiInv'
  OBVIOUS
<1>1. CacheInv' /\ CacheTyped'
  BY CacheStep DEF ApiInv, CacheInv
<1>t. /\ CacheTyped /\ EventsInv /\ told \in Nat /\ tip \in Nat /\ tip <= tip /\ tip <= tip + 1
      /\ losses \in 0 .. MaxLosses
  BY DEF ApiInv, CacheInv, CacheTyped, EventsInv, EventsTyped
<1>2. ASSUME NEW r \in Requests, RequestStep(r) PROVE ApiRest' /\ EventsInv'
  BY <1>1, <1>2, HarmlessStep, FillKeeps, ForgetKeeps, PublishesKeeps, InsertKeeps, UploadKeeps, Zenon DEF RequestStep
<1>3. ASSUME NEW k \in Keys, CacheExpires(k) PROVE ApiRest' /\ EventsInv'
  <2>1. /\ UNCHANGED <<live, crossed, unique, users, twins, files, fileRows, request, made, told, tip>>
        /\ UNCHANGED <<hook, changes, told, delivery, chore, losses>>
    BY <1>3 DEF CacheExpires, userVars, fileVars, configVars, eventVars
  <2>2. \A q \in Keys : cache'[q] \subseteq cache[q]
    BY <1>t, <1>3 DEF CacheExpires, CacheTyped, NoEntry
  <2>3. QED
    BY <1>1, <1>t, <2>1, <2>2, RestStill, EventsStill
<1>4. ASSUME NEW e \in Events, ActionWrites(e) PROVE ApiRest' /\ EventsInv'
  <2>1. /\ UNCHANGED <<live, cache, crossed, unique, users, twins, files, fileRows, request, made>> /\ tip <= tip'
        /\ ExecuteWrite(e) /\ (UNCHANGED losses \/ Loses)
    BY <1>t, <1>4 DEF ActionWrites, Changed, userVars, fileVars
  <2>2. told' = told
    BY <2>1 DEF ExecuteWrite, Executed
  <2>3. QED
    BY <1>1, <1>t, <2>1, <2>2, RestStill, ActionWriteKeeps
<1>5. ASSUME UNCHANGED requestVars, told' = told PROVE ApiRest'
  BY <1>1, <1>t, <1>5, RestStill DEF requestVars, tableVars, userVars, fileVars
<1>6. ASSUME NEW e \in Events, AfterEvent(e), UNCHANGED requestVars PROVE ApiRest' /\ EventsInv'
  <2>1. told' = told
    BY <1>6 DEF AfterEvent, Attempt, Posts, LogDelivery, Deliver, ExecuteTriggerWebhook, ExecuteOther, Executed
  <2>2. QED
    BY <1>t, <1>5, <1>6, <2>1, AfterEventKeeps
<1>7. ASSUME Configures, UNCHANGED requestVars PROVE ApiRest' /\ EventsInv'
  <2>1. told' = told
    BY <1>7 DEF Configures, CreateHook, AdminCreateHook, UpdateHook, AdminToggleHook, DeleteHook, AdminDeleteHook,
                RemoveHook, SubscribeHook, CreateAction, UpdateAction, DeleteAction, SomeAction, ChangeAction,
                ChangeHook, Reconfigures
  <2>2. QED
    BY <1>t, <1>5, <1>7, <2>1, ConfiguresKeeps
<1>8. CASE ApiCrash
  <2>1. /\ UNCHANGED <<live, tip, unique, users, twins, files, fileRows, made, told>> /\ EventsLost
        /\ cache' = [k \in Keys |-> {}] /\ crossed' = {} /\ request' = [r \in Requests |-> Free]
    BY <1>8 DEF ApiCrash, EventsLost, NoEntry, userVars, fileVars
  <2>2. EventsInv'
    BY <1>t, <2>1, LossKeeps
  <2>3. \A r \in Requests : request'[r].do = "nothing" /\ request'[r].at = "end"
    BY <2>1 DEF Free
  <2>4. ReadsKnown' /\ AccountsKnown' /\ UploadsKnown'
    BY <2>1, <2>3 DEF ApiInv, ApiRest, ReadsKnown, AccountsKnown, UploadsKnown, Signing, Storing
  <2>5. EventsDue'
    <3>1. Announcing' = {}
      BY <2>3 DEF Announcing
    <3>2. Cardinality(Announcing) \in Nat /\ told + Cardinality(Announcing) <= made /\ made \in Nat
      BY <1>t, FS_CardinalityType DEF ApiInv, ApiRest, EventsDue, CacheTyped
    <3>3. IsFiniteSet({}) /\ Cardinality({}) = 0
      BY FS_EmptySet
    <3>4. told + 0 <= made
      BY <1>t, <3>2
    <3>5. QED
      BY <2>1, <3>1, <3>3, <3>4 DEF EventsDue
  <2>6. QED
    BY <1>1, <2>2, <2>4, <2>5 DEF ApiInv, ApiRest
<1>9. CASE UNCHANGED apiVars
  <2>1. /\ UNCHANGED requestVars /\ told' = told
        /\ UNCHANGED <<hook, changes, told, delivery, chore, losses>>
    BY <1>9 DEF apiVars, siteEventsVars, configVars, eventVars
  <2>2. QED
    BY <1>1, <1>t, <1>5, <2>1, EventsStill DEF ApiInv
<1>10. QED
  BY <1>1, <1>2, <1>3, <1>4, <1>6, <1>7, <1>8, <1>9 DEF ApiNext, ApiInv

\* The server starts with no request.
LEMMA ApiStart == ApiInit => ApiInv
<1> SUFFICES ASSUME ApiInit PROVE ApiInv
  OBVIOUS
<1>1. CacheInv
  BY CacheStart
<1>2. EventsInv
  BY EventsStart DEF ApiInit
<1>3. \A r \in Requests : request[r].do = "nothing" /\ request[r].at = "end"
  BY DEF ApiInit, Free
<1>4. ReadsKnown
  BY <1>3 DEF ApiInit, ReadsKnown, NoEntry
<1>5. AccountsKnown
  BY <1>3 DEF ApiInit, AccountsKnown, Signing
<1>6. UploadsKnown
  BY <1>3, PublicApiAssumption DEF ApiInit, UploadsKnown, Storing
<1>7. EventsDue
  <2>1. Announcing = {}
    BY <1>3 DEF Announcing
  <2>2. QED
    BY <2>1, FS_EmptySet DEF EventsDue, ApiInit, EventsInit
<1>8. QED
  BY <1>1, <1>2, <1>4, <1>5, <1>6, <1>7 DEF ApiInv, ApiRest

\* A second account of a name is known to have raced.
LEMMA AccountsShow == AccountsKnown => TwinsOnlyIfRaced
  BY DEF AccountsKnown, TwinsOnlyIfRaced

\* No event is published without its request.
LEMMA ApiCounts ==
    ASSUME CacheInv, EventsInv, UploadsKnown, EventsDue
    PROVE  EventsCounted
<1>1. /\ EventsDue /\ told \in Nat /\ made \in Nat /\ made <= MaxRequests /\ MaxRequests <= MaxEvents
      /\ MaxEvents \in Nat /\ MaxRequests \in Nat
  BY PublicApiAssumption, SiteEventsAssumption
     DEF CacheInv, CacheTyped, EventsInv, EventsTyped, UploadsKnown
<1>2. Cardinality(Announcing) \in Nat /\ told + Cardinality(Announcing) <= made
  BY <1>1, FS_CardinalityType DEF EventsDue
<1>3. QED
  BY <1>1, <1>2 DEF EventsCounted

\* The parts of the invariant give every variable its type.
LEMMA ApiTypes ==
    ASSUME CacheInv, ReadsKnown, AccountsKnown, UploadsKnown, EventsInv, EventsCounted
    PROVE  ApiTypeOK
<1>1. CacheTyped /\ PromisesMade /\ MaxRequests \in Nat /\ made \in Nat
  BY PublicApiAssumption DEF CacheInv, CacheTyped
<1>2. EventsTypeOK
  BY EventsShow
<1>3. files \subseteq Uploads
  BY <1>1 DEF UploadsKnown, Uploads
<1>4. made \in 0 .. MaxRequests /\ promised \in 0 .. tip /\ tip \in Nat
  BY <1>1 DEF UploadsKnown, PromisesMade, CacheTyped
<1>5. QED
  BY <1>1, <1>2, <1>3, <1>4 DEF ApiTypeOK, ReadsKnown, AccountsKnown, UploadsKnown

-----------------------------------------------------------------------------
(* Payments                                                                 *)

Final == {"canceled", "paid"}

\* A subscription is never paid, a checkout never canceled.
KindsApart ==
    /\ \A o \in Subscriptions : remote[o] # "paid"
    /\ \A o \in Checkouts : remote[o] # "canceled"

\* What a call is about to write, if final, has happened, unless it did not ask.
AnswersTrue ==
    \A c \in Payers :
        /\ pay[c].op # "idle" => pay[c].of \in Orders
        /\ pay[c].op = "insert" => remote[pay[c].of] # "none"
        /\ pay[c].op = "cancel" => pay[c].of \in Subscriptions
        /\ pay[c].op = "canceled" => /\ pay[c].of \in Subscriptions
                                     /\ remote[pay[c].of] = "canceled" \/ pay[c].of \in unasked
        /\ pay[c].op = "check" => /\ pay[c].status # "none"
                                  /\ pay[c].status \in Final => remote[pay[c].of] = pay[c].status

\* So has what a webhook tells; and an order whose id is known is at the provider.
NewsTrue ==
    \A o \in Orders, s \in Statuses : <<o, s>> \in news =>
        s # "none" /\ (s \in Final => remote[o] = s)
KnownExist == \A o \in known : remote[o] # "none"

PayInv == PaymentsTypeOK /\ RowsTellTheTruth /\ KindsApart /\ AnswersTrue /\ NewsTrue /\ KnownExist

\* The inductive step: whatever call, webhook, failure or crash comes next, what the rows
\* and the answers under way say of the provider stays true.
LEMMA PaymentsStep == PayInv /\ [PaymentsNext]_payVars => PayInv'
<1> SUFFICES ASSUME PayInv, [PaymentsNext]_payVars PROVE PayInv'
  OBVIOUS
<1> USE PaymentsAssumption DEF PayInv, setUp
<1>1. ASSUME NEW c \in Payers, InsertOrder(c) PROVE PayInv'
  <2>1. PaymentsTypeOK'
    BY <1>1 DEF InsertOrder, Return, PayFault, PaymentsTypeOK, AnswersTrue, NoCall, Orders, Statuses
  <2>2. KindsApart'
    BY <1>1 DEF InsertOrder, Return, PayFault, PaymentsTypeOK, KindsApart, AnswersTrue, Orders
  <2>3. AnswersTrue'
    BY <1>1 DEF InsertOrder, Return, PayFault, PaymentsTypeOK, AnswersTrue, KindsApart, KnownExist, Orders, NoCall, Final
  <2>4. NewsTrue'
    BY <1>1 DEF InsertOrder, Return, PayFault, PaymentsTypeOK, AnswersTrue, NewsTrue, KindsApart, Orders, Final
  <2>5. KnownExist'
    BY <1>1 DEF InsertOrder, Return, PayFault, PaymentsTypeOK, AnswersTrue, KnownExist, Orders
  <2>6. RowsTellTheTruth'
    BY <1>1 DEF InsertOrder, Return, PayFault, PaymentsTypeOK, RowsTellTheTruth, AnswersTrue, KindsApart, NewsTrue, KnownExist, Orders, NoCall, Final
  <2>7. QED
    BY <2>1, <2>2, <2>3, <2>4, <2>5, <2>6
<1>2. ASSUME NEW c \in Payers, CancelAtProvider(c) PROVE PayInv'
  <2>1. PaymentsTypeOK'
    BY <1>2 DEF CancelAtProvider, CancelUnasked, Return, Step, PayFault, PaymentsTypeOK, AnswersTrue, NoCall, Orders, Statuses
  <2>2. KindsApart'
    BY <1>2 DEF CancelAtProvider, CancelUnasked, Return, Step, PayFault, PaymentsTypeOK, KindsApart, AnswersTrue, Orders
  <2>3. AnswersTrue'
    BY <1>2 DEF CancelAtProvider, CancelUnasked, Return, Step, PayFault, PaymentsTypeOK, AnswersTrue, KindsApart, KnownExist, Orders, NoCall, Final
  <2>4. NewsTrue'
    BY <1>2 DEF CancelAtProvider, CancelUnasked, Return, Step, PayFault, PaymentsTypeOK, AnswersTrue, NewsTrue, KindsApart, Orders, Final
  <2>5. KnownExist'
    BY <1>2 DEF CancelAtProvider, CancelUnasked, Return, Step, PayFault, PaymentsTypeOK, AnswersTrue, KnownExist, Orders
  <2>6. RowsTellTheTruth'
    BY <1>2 DEF CancelAtProvider, CancelUnasked, Return, Step, PayFault, PaymentsTypeOK, RowsTellTheTruth, AnswersTrue, KindsApart, NewsTrue, KnownExist, Orders, NoCall, Final
  <2>7. QED
    BY <2>1, <2>2, <2>3, <2>4, <2>5, <2>6
<1>3. ASSUME NEW c \in Payers, CancelRow(c) PROVE PayInv'
  <2>1. PaymentsTypeOK'
    BY <1>3 DEF CancelRow, Return, PayFault, PaymentsTypeOK, NoCall, Orders, Statuses
  <2>2. KindsApart'
    BY <1>3 DEF CancelRow, Return, PayFault, PaymentsTypeOK, KindsApart, AnswersTrue, Orders
  <2>3. AnswersTrue'
    BY <1>3 DEF CancelRow, Return, PayFault, PaymentsTypeOK, AnswersTrue, KindsApart, KnownExist, Orders, NoCall, Final
  <2>4. NewsTrue'
    BY <1>3 DEF CancelRow, Return, PayFault, PaymentsTypeOK, AnswersTrue, NewsTrue, KindsApart, Orders, Final
  <2>5. KnownExist'
    BY <1>3 DEF CancelRow, Return, PayFault, PaymentsTypeOK, AnswersTrue, KnownExist, Orders
  <2>6. RowsTellTheTruth'
    BY <1>3 DEF CancelRow, Return, PayFault, PaymentsTypeOK, RowsTellTheTruth, AnswersTrue, KindsApart, NewsTrue, KnownExist, Orders, NoCall, Final
  <2>7. QED
    BY <2>1, <2>2, <2>3, <2>4, <2>5, <2>6
<1>4. ASSUME NEW c \in Payers, CheckRow(c) PROVE PayInv'
  <2>1. PaymentsTypeOK'
    BY <1>4 DEF CheckRow, Return, PayFault, PaymentsTypeOK, NoCall, Orders, Statuses
  <2>2. KindsApart'
    BY <1>4 DEF CheckRow, Return, PayFault, PaymentsTypeOK, KindsApart, AnswersTrue, Orders
  <2>3. AnswersTrue'
    BY <1>4 DEF CheckRow, Return, PayFault, PaymentsTypeOK, AnswersTrue, KindsApart, KnownExist, Orders, NoCall, Final
  <2>4. NewsTrue'
    BY <1>4 DEF CheckRow, Return, PayFault, PaymentsTypeOK, AnswersTrue, NewsTrue, KindsApart, Orders, Final
  <2>5. KnownExist'
    BY <1>4 DEF CheckRow, Return, PayFault, PaymentsTypeOK, AnswersTrue, KnownExist, Orders
  <2>6. RowsTellTheTruth'
    BY <1>4 DEF CheckRow, Return, PayFault, PaymentsTypeOK, RowsTellTheTruth, AnswersTrue, KindsApart, NewsTrue, KnownExist, Orders, NoCall, Final
  <2>7. QED
    BY <2>1, <2>2, <2>3, <2>4, <2>5, <2>6
<1>5. ASSUME NEW c \in Payers, NEW o \in Orders, CreateCheckout(c, o) PROVE PayInv'
  <2>1. PaymentsTypeOK'
    BY <1>5 DEF Created, Call, CreateCheckout, PayFault, PaymentsTypeOK, NoCall, Orders, Statuses
  <2>2. KindsApart'
    BY <1>5 DEF Created, Call, CreateCheckout, PayFault, PaymentsTypeOK, KindsApart, AnswersTrue, Orders
  <2>3. AnswersTrue'
    BY <1>5 DEF Created, Call, CreateCheckout, PayFault, PaymentsTypeOK, AnswersTrue, KindsApart, KnownExist, Orders, NoCall, Final
  <2>4. NewsTrue'
    BY <1>5 DEF Created, Call, CreateCheckout, PayFault, PaymentsTypeOK, AnswersTrue, NewsTrue, KindsApart, Orders, Final
  <2>5. KnownExist'
    BY <1>5 DEF Created, Call, CreateCheckout, PayFault, PaymentsTypeOK, AnswersTrue, KnownExist, Orders
  <2>6. RowsTellTheTruth'
    BY <1>5 DEF Created, Call, CreateCheckout, PayFault, PaymentsTypeOK, RowsTellTheTruth, AnswersTrue, KindsApart, NewsTrue, KnownExist, Orders, NoCall, Final
  <2>7. QED
    BY <2>1, <2>2, <2>3, <2>4, <2>5, <2>6
<1>6. ASSUME NEW c \in Payers, NEW o \in Orders, CreateSubscription(c, o) PROVE PayInv'
  <2>1. PaymentsTypeOK'
    BY <1>6 DEF Created, Call, CreateSubscription, PayFault, PaymentsTypeOK, NoCall, Orders, Statuses
  <2>2. KindsApart'
    BY <1>6 DEF Created, Call, CreateSubscription, PayFault, PaymentsTypeOK, KindsApart, AnswersTrue, Orders
  <2>3. AnswersTrue'
    BY <1>6 DEF Created, Call, CreateSubscription, PayFault, PaymentsTypeOK, AnswersTrue, KindsApart, KnownExist, Orders, NoCall, Final
  <2>4. NewsTrue'
    BY <1>6 DEF Created, Call, CreateSubscription, PayFault, PaymentsTypeOK, AnswersTrue, NewsTrue, KindsApart, Orders, Final
  <2>5. KnownExist'
    BY <1>6 DEF Created, Call, CreateSubscription, PayFault, PaymentsTypeOK, AnswersTrue, KnownExist, Orders
  <2>6. RowsTellTheTruth'
    BY <1>6 DEF Created, Call, CreateSubscription, PayFault, PaymentsTypeOK, RowsTellTheTruth, AnswersTrue, KindsApart, NewsTrue, KnownExist, Orders, NoCall, Final
  <2>7. QED
    BY <2>1, <2>2, <2>3, <2>4, <2>5, <2>6
<1>7. ASSUME NEW c \in Payers, NEW o \in Orders, CancelSubscription(c, o) PROVE PayInv'
  <2>1. PaymentsTypeOK'
    BY <1>7 DEF CancelSubscription, Call, PaymentsTypeOK, NoCall, Orders, Statuses
  <2>2. KindsApart'
    BY <1>7 DEF CancelSubscription, Call, PaymentsTypeOK, KindsApart, AnswersTrue, Orders
  <2>3. AnswersTrue'
    BY <1>7 DEF CancelSubscription, Call, PaymentsTypeOK, AnswersTrue, KindsApart, KnownExist, Orders, NoCall, Final
  <2>4. NewsTrue'
    BY <1>7 DEF CancelSubscription, Call, PaymentsTypeOK, AnswersTrue, NewsTrue, KindsApart, Orders, Final
  <2>5. KnownExist'
    BY <1>7 DEF CancelSubscription, Call, PaymentsTypeOK, AnswersTrue, KnownExist, Orders
  <2>6. RowsTellTheTruth'
    BY <1>7 DEF CancelSubscription, Call, PaymentsTypeOK, RowsTellTheTruth, AnswersTrue, KindsApart, NewsTrue, KnownExist, Orders, NoCall, Final
  <2>7. QED
    BY <2>1, <2>2, <2>3, <2>4, <2>5, <2>6
<1>8. ASSUME NEW c \in Payers, NEW o \in Orders, CheckSubscription(c, o) PROVE PayInv'
  <2>1. PaymentsTypeOK'
    BY <1>8 DEF CheckSubscription, Call, PaymentsTypeOK, NoCall, Orders, Statuses
  <2>2. KindsApart'
    BY <1>8 DEF CheckSubscription, Call, PaymentsTypeOK, KindsApart, AnswersTrue, Orders
  <2>3. AnswersTrue'
    BY <1>8 DEF CheckSubscription, Call, PaymentsTypeOK, AnswersTrue, KindsApart, KnownExist, Orders, NoCall, Final
  <2>4. NewsTrue'
    BY <1>8 DEF CheckSubscription, Call, PaymentsTypeOK, AnswersTrue, NewsTrue, KindsApart, Orders, Final
  <2>5. KnownExist'
    BY <1>8 DEF CheckSubscription, Call, PaymentsTypeOK, AnswersTrue, KnownExist, Orders
  <2>6. RowsTellTheTruth'
    BY <1>8 DEF CheckSubscription, Call, PaymentsTypeOK, RowsTellTheTruth, AnswersTrue, KindsApart, NewsTrue, KnownExist, Orders, NoCall, Final
  <2>7. QED
    BY <2>1, <2>2, <2>3, <2>4, <2>5, <2>6
<1>9. ASSUME NEW o \in Orders, ProviderMoves(o) PROVE PayInv'
  <2>1. PaymentsTypeOK'
    BY <1>9 DEF ProviderMoves, PaymentsTypeOK, NoCall, Orders, Statuses
  <2>2. KindsApart'
    BY <1>9 DEF ProviderMoves, PaymentsTypeOK, KindsApart, AnswersTrue, Orders
  <2>3. AnswersTrue'
    BY <1>9 DEF ProviderMoves, PaymentsTypeOK, AnswersTrue, KindsApart, KnownExist, Orders, NoCall, Final
  <2>4. NewsTrue'
    BY <1>9 DEF ProviderMoves, PaymentsTypeOK, AnswersTrue, NewsTrue, KindsApart, Orders, Final
  <2>5. KnownExist'
    BY <1>9 DEF ProviderMoves, PaymentsTypeOK, AnswersTrue, KnownExist, Orders
  <2>6. RowsTellTheTruth'
    BY <1>9 DEF ProviderMoves, PaymentsTypeOK, RowsTellTheTruth, AnswersTrue, KindsApart, NewsTrue, KnownExist, Orders, NoCall, Final
  <2>7. QED
    BY <2>1, <2>2, <2>3, <2>4, <2>5, <2>6
<1>10. ASSUME NEW o \in Orders, ProviderTells(o) PROVE PayInv'
  <2>1. PaymentsTypeOK'
    BY <1>10 DEF ProviderTells, PaymentsTypeOK, NoCall, Orders, Statuses
  <2>2. KindsApart'
    BY <1>10 DEF ProviderTells, PaymentsTypeOK, KindsApart, AnswersTrue, Orders
  <2>3. AnswersTrue'
    BY <1>10 DEF ProviderTells, PaymentsTypeOK, AnswersTrue, KindsApart, KnownExist, Orders, NoCall, Final
  <2>4. NewsTrue'
    BY <1>10 DEF ProviderTells, PaymentsTypeOK, AnswersTrue, NewsTrue, KindsApart, Orders, Final
  <2>5. KnownExist'
    BY <1>10 DEF ProviderTells, PaymentsTypeOK, AnswersTrue, KnownExist, Orders
  <2>6. RowsTellTheTruth'
    BY <1>10 DEF ProviderTells, PaymentsTypeOK, RowsTellTheTruth, AnswersTrue, KindsApart, NewsTrue, KnownExist, Orders, NoCall, Final
  <2>7. QED
    BY <2>1, <2>2, <2>3, <2>4, <2>5, <2>6
<1>11. ASSUME NEW o \in Orders, NEW s \in Statuses, HandleWebhook(o, s) PROVE PayInv'
  <2>1. PaymentsTypeOK'
    BY <1>11 DEF HandleWebhook, PayFault, PaymentsTypeOK, NoCall, Orders, Statuses
  <2>2. KindsApart'
    BY <1>11 DEF HandleWebhook, PayFault, PaymentsTypeOK, KindsApart, AnswersTrue, Orders
  <2>3. AnswersTrue'
    BY <1>11 DEF HandleWebhook, PayFault, PaymentsTypeOK, AnswersTrue, KindsApart, KnownExist, Orders, NoCall, Final
  <2>4. NewsTrue'
    BY <1>11 DEF HandleWebhook, PayFault, PaymentsTypeOK, AnswersTrue, NewsTrue, KindsApart, Orders, Final
  <2>5. KnownExist'
    BY <1>11 DEF HandleWebhook, PayFault, PaymentsTypeOK, AnswersTrue, KnownExist, Orders
  <2>6. RowsTellTheTruth'
    BY <1>11 DEF HandleWebhook, PayFault, PaymentsTypeOK, RowsTellTheTruth, AnswersTrue, KindsApart, NewsTrue, KnownExist, Orders, NoCall, Final
  <2>7. QED
    BY <2>1, <2>2, <2>3, <2>4, <2>5, <2>6
<1>12. ASSUME PayCrash PROVE PayInv'
  <2>1. PaymentsTypeOK'
    BY <1>12 DEF PayCrash, PayFault, PaymentsTypeOK, AnswersTrue, NoCall, Orders, Statuses
  <2>2. KindsApart'
    BY <1>12 DEF PayCrash, PayFault, PaymentsTypeOK, KindsApart, AnswersTrue, Orders
  <2>3. AnswersTrue'
    BY <1>12 DEF PayCrash, PayFault, PaymentsTypeOK, AnswersTrue, KindsApart, KnownExist, Orders, NoCall, Final
  <2>4. NewsTrue'
    BY <1>12 DEF PayCrash, PayFault, PaymentsTypeOK, AnswersTrue, NewsTrue, KindsApart, Orders, Final
  <2>5. KnownExist'
    BY <1>12 DEF PayCrash, PayFault, PaymentsTypeOK, AnswersTrue, KnownExist, Orders
  <2>6. RowsTellTheTruth'
    BY <1>12 DEF PayCrash, PayFault, PaymentsTypeOK, RowsTellTheTruth, AnswersTrue, KindsApart, NewsTrue, KnownExist, Orders, NoCall, Final
  <2>7. QED
    BY <2>1, <2>2, <2>3, <2>4, <2>5, <2>6
<1>13. ASSUME Configure PROVE PayInv'
  BY <1>13 DEF Configure, PaymentsTypeOK, RowsTellTheTruth, KindsApart, AnswersTrue, NewsTrue, KnownExist
<1>14. CASE UNCHANGED payVars
  BY <1>14 DEF payVars, setUp, PaymentsTypeOK, RowsTellTheTruth, KindsApart, AnswersTrue, NewsTrue, KnownExist
<1>15. QED
  BY <1>1, <1>2, <1>3, <1>4, <1>5, <1>6, <1>7, <1>8, <1>9, <1>10, <1>11, <1>12, <1>13, <1>14 DEF PaymentsNext

\* At the start there is no order and no call.
LEMMA PaymentsStart == PaymentsInit => PayInv
  BY PaymentsAssumption DEF PaymentsInit, PayInv, PaymentsTypeOK, RowsTellTheTruth, KindsApart, AnswersTrue,
     NewsTrue, KnownExist, NoCall, Statuses, Final, Orders

\* The invariant of every behaviour.
THEOREM PaymentsInvariant == PaymentsSpec => []PayInv
  BY PaymentsStart, PaymentsStep, PTL DEF PaymentsSpec

\* Type correctness.
THEOREM PaymentsTyped == PaymentsSpec => []PaymentsTypeOK
<1>1. PayInv => PaymentsTypeOK
  BY DEF PayInv
<1>2. QED
  BY <1>1, PaymentsInvariant, PTL

\* A row says paid only of what has been paid, and canceled only of what has been canceled or
\* what a call canceled in the row alone, without an id or a request to ask the provider with;
\* and no order is forgotten by a call that was heard to the end (tools/payments.go).
THEOREM PaymentsTruthful == PaymentsSpec => []RowsTellTheTruth
<1>1. PayInv => RowsTellTheTruth
  BY DEF PayInv
<1>2. QED
  BY <1>1, PaymentsInvariant, PTL

-----------------------------------------------------------------------------
(* All of them                                                              *)

\* Overwriting keeps what is overwritten: the step that writes finds it in the history.
LEMMA ContentKeeps ==
    ContentInv /\ [ContentNext]_contentVars => [\A w \in Writers : OverwriteKept(w)]_contentVars
<1> SUFFICES ASSUME ContentInv, [ContentNext]_contentVars, NEW w \in Writers PROVE OverwriteKept(w)
  OBVIOUS
<1> DEFINE before == IF job[w].doc \in Files THEN disk[job[w].doc][job[w].dir] ELSE text[job[w].doc]
           after == IF job[w].doc \in Files THEN disk'[job[w].doc][job[w].dir] ELSE text'[job[w].doc]
<1>1. ASSUME job[w].at = "write", before = job[w].seen, before \notin {NoText, after},
             job[w].doc = "layout" => job[w].id = layoutID, failures' = 0,
             Newest(job[w].doc) < job[w].num + MaxVersions
      PROVE  job[w].seen \in Kept(job[w].doc)
  <2>1. job[w].seen # NoText
    BY <1>1
  <2>2. QED
    BY <1>1, <2>1, OverwritesKeep
<1>2. QED
  BY <1>1 DEF OverwriteKept

\* The content alone, whatever two operations on a document do at once.
THEOREM ContentInvariant == ContentSpec => []ContentInv
  BY ContentStart, ContentStep, PTL DEF ContentSpec

\* A row of a file has its file, unless the file was moved or removed under an operation
\* making the row, or a rename ended between the two (tools/storage.go, tools/media.go).
THEOREM RowsHaveFiles == ContentSpec => []RowHasFile
<1>1. ContentInv => RowHasFile
  BY ContentShows
<1>2. QED
  BY <1>1, ContentInvariant, PTL

\* A number of a history names one text, whatever has been pruned in between, unless two
\* operations on the document looked for a number at once, or one could not read the newest
\* number and took number 1, an error that is dropped (tools/pages.go, tools/storage.go).
THEOREM NumbersNameTexts == ContentSpec => []NumberNamesOneText
<1>1. ContentInv => NumberNamesOneText
  BY ContentShows
<1>2. QED
  BY <1>1, ContentInvariant, PTL

\* A text that is there when the operation that has read it overwrites it is in the history
\* then, unless a statement failed or later saves have pruned it.  Only some operations read:
\* a save of a binary file, an upload and the admin's editors replace what no one has kept
\* (tools/pages.go, tools/layout.go, tools/storage.go; executeSave asks isTextContentType).
THEOREM OverwritesAreKept == ContentSpec => OverwrittenIsKept
  BY ContentInvariant, ContentKeeps, PTL DEF ContentSpec, OverwrittenIsKept

\* The events alone: a delivery that has ended is logged once, and was not given up before
\* its last attempt, whatever changes or goes away meanwhile (webhooks/outgoing.go, deliver).
THEOREM EventsLogOnce == EventsSpec => []LoggedOnce
<1>0. EventsInit => told = 0 /\ 0 <= MaxEvents
  BY SiteEventsAssumption DEF EventsInit
<1>1. EventsInit => EventsInv /\ EventsCounted
  BY <1>0, EventsStart DEF EventsCounted
<1>2. (EventsInv /\ EventsCounted) /\ [EventsNext]_siteEventsVars => (EventsInv /\ EventsCounted)'
  BY EventsStep
<1>3. EventsInv => LoggedOnce
  BY EventsShow
<1>4. QED
  BY <1>1, <1>2, <1>3, PTL DEF EventsSpec

\* The public API with its events alone, requests, deliveries and crashes in any order.
THEOREM ApiInvariant == ApiSpec => []ApiInv
  BY ApiStart, ApiStep, PTL DEF ApiSpec

\* A name has two accounts only when the table has no unique index, and either two requests
\* had both found it free or the look-up of a registration failed, which counts as free
\* (server/public/auth.go, authRegister and oauthCallback).
THEOREM TwinsHaveRaced == ApiSpec => []TwinsOnlyIfRaced
<1>1. ApiInv => TwinsOnlyIfRaced
  BY AccountsShow DEF ApiInv, ApiRest
<1>2. QED
  BY <1>1, ApiInvariant, PTL

\* In every area each part's invariant holds; the events that requests owe are counted where
\* requests publish them.
DataInv ==
    /\ area \in Areas /\ ContentInv /\ PayInv /\ CacheInv /\ EventsInv
    /\ ReadsKnown /\ AccountsKnown /\ UploadsKnown
    /\ IF area = "events" THEN EventsCounted ELSE EventsDue

\* What requests have written does not depend on the events.
LEMMA RequestsStand ==
    ASSUME CacheInv, ReadsKnown, AccountsKnown, UploadsKnown, UNCHANGED requestVars
    PROVE  CacheInv' /\ ReadsKnown' /\ AccountsKnown' /\ UploadsKnown'
<1>1. UNCHANGED <<live, tip, cache, promised, crossed, unique, users, twins, files, fileRows, request, made>>
  BY DEF requestVars, tableVars, userVars, fileVars
<1>2. CacheInv'
  BY <1>1 DEF CacheInv, CacheTyped, PromisesMade, ReadsFresh, FreshUnlessOvertaken, Doing
<1>3. ReadsKnown' /\ UploadsKnown'
  BY <1>1 DEF ReadsKnown, UploadsKnown, Storing
<1>4. AccountsKnown'
  BY <1>1 DEF AccountsKnown, Signing
<1>5. QED
  BY <1>2, <1>3, <1>4

\* One area moves, the others stay.
LEMMA DataStep == DataInv /\ [DataNext]_dataVars => DataInv'
<1> SUFFICES ASSUME DataInv, [DataNext]_dataVars PROVE DataInv'
  OBVIOUS
<1>1. /\ area \in Areas /\ ContentInv /\ PayInv /\ CacheInv /\ EventsInv
      /\ ReadsKnown /\ AccountsKnown /\ UploadsKnown
      /\ IF area = "events" THEN EventsCounted ELSE EventsDue
  BY DEF DataInv
<1>2. area' = area
  BY DEF DataNext, dataVars
<1>3. [ContentNext]_contentVars
  BY DEF DataNext, dataVars
<1>4. [PaymentsNext]_payVars
  BY DEF DataNext, dataVars
<1>5. ContentInv' /\ PayInv'
  BY <1>1, <1>3, <1>4, ContentStep, PaymentsStep
<1>6. \/ area = "events" /\ EventsNext /\ UNCHANGED requestVars
      \/ area # "events" /\ [ApiNext]_apiVars
      \/ UNCHANGED apiVars
  BY DEF DataNext, dataVars
<1>7. ASSUME area = "events", EventsNext, UNCHANGED requestVars PROVE DataInv'
  <2>1. EventsInv' /\ EventsCounted'
    BY <1>1, <1>7, EventsStep
  <2>2. CacheInv' /\ ReadsKnown' /\ AccountsKnown' /\ UploadsKnown'
    BY <1>1, <1>7, RequestsStand
  <2>3. QED
    BY <1>1, <1>2, <1>5, <1>7, <2>1, <2>2 DEF DataInv
<1>8. ASSUME area # "events", [ApiNext]_apiVars PROVE DataInv'
  <2>1. ApiInv
    BY <1>1, <1>8 DEF ApiInv, ApiRest
  <2>2. ApiInv'
    BY <1>8, <2>1, ApiStep
  <2>3. QED
    BY <1>1, <1>2, <1>5, <1>8, <2>2 DEF DataInv, ApiInv, ApiRest
<1>9. ASSUME UNCHANGED apiVars PROVE DataInv'
  <2>1. UNCHANGED requestVars /\ UNCHANGED siteEventsVars /\ told' = told
    BY <1>9 DEF apiVars, siteEventsVars, eventVars
  <2>2. EventsInv' /\ (EventsCounted => EventsCounted')
    <3>1. UNCHANGED <<hook, changes, told, delivery, chore>> /\ losses' = losses
      BY <2>1 DEF siteEventsVars, configVars, eventVars
    <3>2. losses \in 0 .. MaxLosses
      BY <1>1 DEF EventsInv, EventsTyped
    <3>3. EventsInv'
      BY <1>1, <3>1, <3>2, EventsStill
    <3>4. QED
      BY <3>1, <3>3 DEF EventsCounted
  <2>3. CacheInv' /\ ReadsKnown' /\ AccountsKnown' /\ UploadsKnown'
    BY <1>1, <2>1, RequestsStand
  <2>4. EventsDue => EventsDue'
    BY <2>1 DEF EventsDue, Announcing, requestVars
  <2>5. QED
    BY <1>1, <1>2, <1>5, <2>2, <2>3, <2>4 DEF DataInv
<1>10. QED
  BY <1>6, <1>7, <1>8, <1>9

\* Every behaviour of the four parts keeps the invariant of each.
THEOREM DataInvariant == DataSpec => []DataInv
<1>1. DataInit => DataInv
  <2> SUFFICES ASSUME DataInit PROVE DataInv
    OBVIOUS
  <2>1. area \in Areas /\ ContentInv /\ ApiInv
    BY ContentStart, ApiStart DEF DataInit
  <2>2. PayInv
    BY PaymentsStart DEF DataInit
  <2>3. EventsCounted
    BY <2>1, ApiCounts DEF ApiInv, ApiRest
  <2>4. QED
    BY <2>1, <2>2, <2>3 DEF DataInv, ApiInv, ApiRest
<1>2. QED
  BY <1>1, DataStep, PTL DEF DataSpec

\* Every variable of the content, the events, the public API and the payments keeps its type.
THEOREM DataTyped == DataSpec => []DataTypeOK
<1>1. DataInv => DataTypeOK
  <2> SUFFICES ASSUME DataInv PROVE DataTypeOK
    OBVIOUS
  <2>1. EventsCounted
    BY ApiCounts DEF DataInv
  <2>2. ApiTypeOK
    BY <2>1, ApiTypes DEF DataInv
  <2>3. QED
    BY <2>2, ContentShows DEF DataInv, DataTypeOK, PayInv
<1>2. QED
  BY <1>1, DataInvariant, PTL

\* In every area a delivery is logged once, and a name has two accounts only after a race or
\* a look-up that failed (webhooks/outgoing.go, server/public/auth.go).
THEOREM DataHolds == DataSpec => [](LoggedOnce /\ TwinsOnlyIfRaced)
<1>1. DataInv => LoggedOnce /\ TwinsOnlyIfRaced
  BY EventsShow, AccountsShow DEF DataInv
<1>2. QED
  BY <1>1, DataInvariant, PTL

\* What is proved of the content and of payments holds in every behaviour of the areas: each
\* is one of theirs.
THEOREM AreasAreTheirs == DataSpec => ContentSpec /\ PaymentsSpec
<1>1. DataInit => ContentInit /\ PaymentsInit
  BY DEF DataInit
<1>2. [DataNext]_dataVars => [ContentNext]_contentVars /\ [PaymentsNext]_payVars
  BY DEF DataNext, dataVars
<1>3. QED
  BY <1>1, <1>2, PTL DEF DataSpec, ContentSpec, PaymentsSpec

=============================================================================
