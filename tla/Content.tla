------------------------------ MODULE Content ------------------------------
(***************************************************************************)
(* What a site is made of: a page and a layout (rows with a history in the *)
(* site's database) and asset files (a row, a file on disk, a history).    *)
(* The tools (tools/pages.go, layout.go, storage.go, media.go) and the     *)
(* admin API (server/admin/site*.go) change them.  Up to four tool calls   *)
(* of one answer of the LLM run at the same time, chat sessions, actions   *)
(* and the owner add theirs, and no handler uses a transaction: a step     *)
(* here is one SQL statement or one call of the file system.               *)
(*                                                                         *)
(* A text is known by a number: 1 is what was there at the beginning, each *)
(* operation that makes a text makes a new one, and 0 is no text.          *)
(***************************************************************************)
EXTENDS Naturals, FiniteSets

CONSTANTS
    Writers,        \* operations that can be under way at the same time
    Files,          \* asset file names
    TextFiles,      \* those whose extension says text; one that says nothing, whose type the
                    \* caller gives, is left out
    MaxVersions,    \* maxFileVersions (10)
    MaxOps,         \* operations ever begun: BOUND of the model
    MaxFailures     \* failing statements and file operations: BOUND of the model

Rows == {"page", "layout"}
Docs == Files \cup Rows
Dirs == {"tools", "admin"}      \* the tools write to ho_assets/, the admin API to assets/

ASSUME ContentAssumption ==
    /\ MaxVersions \in Nat \ {0}
    /\ MaxOps \in Nat
    /\ MaxFailures \in Nat
    /\ Files \cap Rows = {}
    /\ TextFiles \subseteq Files

VARIABLES
    row,        \* the row of each document: "none", "live", or "deleted" (pages only)
    text,       \* the text in the row of the page and of the layout
    disk,       \* the text of each file in each directory, none if it is not there
    dir,        \* the directory that a file's row names
    versions,   \* the history of each document: <<version number, text>>
    layoutID,   \* how many rows the layout has had: the history belongs to the row
    job,        \* what each writer is doing
    begun,      \* operations begun so far
    failures,   \* failures so far
    moved,       \* files moved or removed while their row was there or in the making
    unsure      \* documents of which two operations looked for a number at the same time, or
                \* one could not read the newest

contentVars == <<row, text, disk, dir, versions, layoutID, job, begun, failures, moved, unsure>>

NoText == 0
Original == 1
Texts == 0 .. MaxOps + 1

NoJob == [op |-> "idle", at |-> "begin", doc |-> "page", seen |-> NoText, num |-> 0,
         new |-> 0, dir |-> "tools", to |-> "page", id |-> 0]

\* What a document's readers are given.
Current(d) == IF d \in Files THEN disk[d][dir[d]] ELSE text[d]

Numbers(d) == {v[1] : v \in versions[d]}
Kept(d) == {v[2] : v \in versions[d]}

\* COALESCE(MAX(version_number), 0)
Newest(d) == IF versions[d] = {} THEN 0
             ELSE CHOOSE n \in Numbers(d) : \A m \in Numbers(d) : m <= n

Fresh == begun + 2

\* An empty site, or one that has a page, a layout and files.
ContentInit ==
    /\ \E old \in {"none", "live"} :
          /\ row = [d \in Docs |-> old]
          /\ text = [d \in Rows |-> IF old = "live" THEN Original ELSE NoText]
          /\ disk = [f \in Files |->
                        [p \in Dirs |-> IF old = "live" /\ p = "tools" THEN Original ELSE NoText]]
    /\ dir = [f \in Files |-> "tools"]
    /\ versions = [d \in Docs |-> {}]
    /\ layoutID = 1
    /\ job = [w \in Writers |-> NoJob]
    /\ begun = 0 /\ failures = 0
    /\ moved = {} /\ unsure = {}

-----------------------------------------------------------------------------
(* Beginning an operation: what it reads first, and where it goes on       *)

Fail == failures < MaxFailures /\ failures' = failures + 1

Begins(w, j) ==
    /\ job[w].op = "idle" /\ begun < MaxOps
    /\ begun' = begun + 1
    /\ job' = [job EXCEPT ![w] = [j EXCEPT !.id = layoutID]]
    /\ UNCHANGED <<row, text, disk, dir, versions, layoutID, moved, unsure>>

BeginOp(w, j) == Begins(w, j) /\ UNCHANGED failures

\* A read of what is there that fails is taken for nothing being there.
BeginUnread(w, j) == Begins(w, j) /\ Fail

\* An operation that is a single statement.
OneStatement(w) ==
    /\ job[w].op = "idle" /\ begun < MaxOps
    /\ begun' = begun + 1
    /\ UNCHANGED <<disk, dir, versions, layoutID, job, failures, moved, unsure>>

\* Overwrite a document whose current text is put into the history first ...
Replacing(op, d, seen, new) ==
    [NoJob EXCEPT !.op = op, !.at = "number", !.doc = d, !.seen = seen, !.new = new]

\* ... or write one without.
Writing(op, d, new) == [NoJob EXCEPT !.op = op, !.at = "write", !.doc = d, !.new = new]

\* manage_pages save: a page that is deleted is not read, and goes without a version.
PageSave(w) ==
    \/ BeginOp(w, IF row["page"] = "live" THEN Replacing("save", "page", text["page"], Fresh)
                ELSE Writing("save", "page", Fresh))
    \/ BeginUnread(w, Writing("save", "page", Fresh))

\* patch, edit_lines and regex_replace differ in how they make the new text.
RowEdit(w, d) == row[d] = "live" /\ BeginOp(w, Replacing("edit", d, text[d], Fresh))
PagePatch(w) == RowEdit(w, "page")
PageEditLines(w) == RowEdit(w, "page")
PageRegexReplace(w) == RowEdit(w, "page")

\* manage_pages revert: a deleted page too, which is live again then.
PageRevert(w) ==
    /\ row["page"] # "none"
    /\ \E t \in Kept("page") : BeginOp(w, Replacing("revert", "page", text["page"], t))

RowRevert(w, d) ==
    row[d] = "live" /\ \E t \in Kept(d) : BeginOp(w, Replacing("edit", d, text[d], t))
AdminPageRevert(w) == RowRevert(w, "page")

PageDelete(w) ==
    /\ row["page"] = "live" /\ OneStatement(w)
    /\ row' = [row EXCEPT !["page"] = "deleted"]
    /\ UNCHANGED text
AdminPageDelete(w) == PageDelete(w)

PageRestore(w) ==
    /\ row["page"] = "deleted" /\ OneStatement(w)
    /\ row' = [row EXCEPT !["page"] = "live"]
    /\ UNCHANGED text

\* The path of a deleted page is taken.
AdminPageCreate(w) ==
    /\ row["page"] = "none" /\ OneStatement(w)
    /\ row' = [row EXCEPT !["page"] = "live"]
    /\ text' = [text EXCEPT !["page"] = Fresh]

\* The admin's editor keeps no version.
AdminPageUpdate(w) ==
    /\ row["page"] = "live" /\ OneStatement(w)
    /\ text' = [text EXCEPT !["page"] = Fresh]
    /\ UNCHANGED row

LayoutSave(w) ==
    \/ BeginOp(w, IF row["layout"] = "live" THEN Replacing("save", "layout", text["layout"], Fresh)
                ELSE Writing("save", "layout", Fresh))
    \/ BeginUnread(w, Writing("save", "layout", Fresh))

LayoutPatch(w) == RowEdit(w, "layout")
AdminLayoutUpdate(w) == RowEdit(w, "layout")
LayoutRevert(w) == RowRevert(w, "layout")
AdminLayoutRevert(w) == RowRevert(w, "layout")

\* Wrong on purpose: layouts are marked as deleted, as pages are.
LayoutSoftDeleted(w) ==
    /\ row["layout"] = "live" /\ OneStatement(w)
    /\ row' = [row EXCEPT !["layout"] = "deleted"]
    /\ UNCHANGED text

\* Refused if a page uses the layout, which was asked before.
AdminLayoutDelete(w) ==
    /\ row["layout"] = "live" /\ OneStatement(w)
    /\ row' = [row EXCEPT !["layout"] = "none"]
    /\ text' = [text EXCEPT !["layout"] = NoText]

\* manage_files save: if it is a text and there is a row, what is on disk is read for the
\* history.
FileSave(w, f) ==
    \/ BeginOp(w, IF f \in TextFiles /\ row[f] = "live" /\ Current(f) # NoText
                THEN Replacing("save", f, Current(f), Fresh)
                ELSE Writing("save", f, Fresh))
    \/ f \in TextFiles /\ BeginUnread(w, Writing("save", f, Fresh))

\* Only a text, as the type in its row says, which stays when the file is renamed.  The
\* file is written where the row said it was.
FileEdit(w, f) ==
    /\ row[f] = "live" /\ Current(f) # NoText
    /\ BeginOp(w, [Replacing("edit", f, Current(f), Fresh) EXCEPT !.dir = dir[f]])
FilePatch(w, f) == FileEdit(w, f)
FileEditLines(w, f) == FileEdit(w, f)
FileRegexReplace(w, f) == FileEdit(w, f)

\* manage_files rollback: what is in the tools' directory, whatever the row says.
FileRollback(w, f) ==
    \E t \in Kept(f) :
        \/ BeginOp(w, IF disk[f]["tools"] # NoText
                    THEN Replacing("rollback", f, disk[f]["tools"], t)
                    ELSE Writing("rollback", f, t))
        \/ BeginUnread(w, Writing("rollback", f, t))

AdminAssetRevert(w, f) ==
    /\ row[f] = "live"
    /\ \E t \in Kept(f) :
          \/ BeginOp(w, [(IF Current(f) # NoText THEN Replacing("edit", f, Current(f), t)
                        ELSE Writing("edit", f, t)) EXCEPT !.dir = dir[f]])
          \/ BeginUnread(w, [Writing("edit", f, t) EXCEPT !.dir = dir[f]])

\* A file and its row, without a version.
FetchImage(w, f) == BeginOp(w, Writing("save", f, Fresh))
AdminTextAsset(w, f) == BeginOp(w, [Writing("save", f, Fresh) EXCEPT !.dir = "admin"])
AdminUpload(w, f) == AdminTextAsset(w, f)

\* manage_media: the image is read from the tools' directory and the result written
\* there.  The INSERT that should make its row leaves storage_path out, which may not
\* be NULL: it always fails, and nobody looks.
MediaWrite(w, f) == BeginOp(w, Writing("edit", f, Fresh))
MediaResize(w, f) == (\E g \in Files : disk[g]["tools"] # NoText) /\ MediaWrite(w, f)
MediaThumbnail(w, f) == (\E g \in Files \ {f} : disk[g]["tools"] # NoText) /\ MediaWrite(w, f)
MediaOptimize(w, f) == MediaThumbnail(w, f)

FileDelete(w, f) ==
    /\ row[f] = "live"
    /\ BeginOp(w, [NoJob EXCEPT !.op = "delete", !.at = "row", !.doc = f, !.dir = dir[f]])

\* Only the row: the file stays.
AdminAssetDelete(w, f) ==
    /\ row[f] = "live" /\ OneStatement(w)
    /\ row' = [row EXCEPT ![f] = "none"]
    /\ UNCHANGED text

FileRename(w, f, g) ==
    /\ f # g /\ row[f] = "live"
    /\ BeginOp(w, [NoJob EXCEPT !.op = "rename", !.at = "move", !.doc = f, !.dir = dir[f], !.to = g])

-----------------------------------------------------------------------------
(* Going on                                                                *)

JobAt(w, place) == job' = [job EXCEPT ![w].at = place]
Done(w) == job' = [job EXCEPT ![w] = NoJob]
\* Wrong on purpose: the number of versions instead of the newest number.
NumberByCount(w) ==
    /\ job[w].op # "idle" /\ job[w].at = "number"
    /\ job' = [job EXCEPT ![w].at = "capture",
                          ![w].num = Cardinality(versions[job[w].doc]) + 1]
    /\ UNCHANGED <<row, text, disk, dir, versions, layoutID, begun, failures, moved, unsure>>

\* If the newest number cannot be read, most handlers go on as if there were none, and
\* capturePageVersion (edits by line or pattern) and captureLayoutVersion keep no version.
Number(w) ==
    LET d == job[w].doc IN
    /\ job[w].op # "idle" /\ job[w].at = "number"
    /\ \/ /\ job' = [job EXCEPT ![w].at = "capture", ![w].num = Newest(d) + 1]
          /\ unsure' = IF \E v \in Writers : job[v].at = "capture" /\ job[v].doc = d
                       THEN unsure \cup {d} ELSE unsure
          /\ UNCHANGED failures
       \/ /\ Fail
          /\ job' = [job EXCEPT ![w].at = "capture", ![w].num = 1]
          /\ unsure' = unsure \cup {d}
       \/ /\ Fail
          /\ d = "layout" \/ (d = "page" /\ job[w].op = "edit")
          /\ JobAt(w, "write")
          /\ UNCHANGED unsure
    /\ UNCHANGED <<row, text, disk, dir, versions, layoutID, begun, moved>>

\* Only a save prunes, and only the history of a file.
Pruned(w, vs) ==
    IF job[w].doc \in Files /\ job[w].op = "save"
    THEN {v \in vs : v[1] + MaxVersions > job[w].num}
    ELSE vs

\* Wrong on purpose: the text that is about to be written goes into the history.
CaptureNew(w) ==
    LET d == job[w].doc IN
    /\ job[w].op # "idle" /\ job[w].at = "capture"
    /\ versions' = [versions EXCEPT ![d] = Pruned(w, @ \cup {<<job[w].num, job[w].new>>})]
    /\ JobAt(w, "write")
    /\ UNCHANGED <<row, text, disk, dir, layoutID, begun, failures, moved, unsure>>

\* A version that cannot be inserted is at most logged.  A layout's history belongs to
\* its row: that of a row that is gone is out of reach.
Capture(w) ==
    LET d == job[w].doc IN
    /\ job[w].op # "idle" /\ job[w].at = "capture"
    /\ \/ /\ d # "layout" \/ job[w].id = layoutID
          /\ versions' = [versions EXCEPT ![d] = Pruned(w, @ \cup {<<job[w].num, job[w].seen>>})]
          /\ UNCHANGED failures
       \/ d = "layout" /\ job[w].id # layoutID /\ UNCHANGED <<versions, failures>>
       \/ Fail /\ UNCHANGED versions
    /\ JobAt(w, "write")
    /\ UNCHANGED <<row, text, disk, dir, layoutID, begun, moved, unsure>>

\* Nothing matched: the version stays, nothing is written.
NoMatch(w) ==
    /\ job[w].op = "edit" /\ job[w].at = "write"
    /\ Done(w)
    /\ UNCHANGED <<row, text, disk, dir, versions, layoutID, begun, failures, moved, unsure>>

\* Upsert by path: whatever the page was, it is live.  By id: only the text.
PageWrite(w) ==
    LET j == job[w] IN
    /\ j.op # "idle" /\ j.at = "write" /\ j.doc = "page"
    /\ \/ /\ text' = [text EXCEPT !["page"] = j.new]
          /\ row' = [row EXCEPT !["page"] = IF j.op = "edit" THEN @ ELSE "live"]
          /\ UNCHANGED failures
       \/ Fail /\ UNCHANGED <<row, text>>
    /\ Done(w)
    /\ UNCHANGED <<disk, dir, versions, layoutID, begun, moved, unsure>>

\* Upsert by name, a new row if it was deleted in between; by id, nothing then.
LayoutWrite(w) ==
    LET j == job[w]
        present == row["layout"] = "live" /\ (j.op = "save" \/ j.id = layoutID) IN
    /\ j.op # "idle" /\ j.at = "write" /\ j.doc = "layout"
    /\ \/ /\ present
          /\ text' = [text EXCEPT !["layout"] = j.new]
          /\ UNCHANGED <<row, versions, layoutID, failures>>
       \/ /\ row["layout"] = "none" /\ j.op = "save"
          /\ row' = [row EXCEPT !["layout"] = "live"]
          /\ text' = [text EXCEPT !["layout"] = j.new]
          /\ versions' = [versions EXCEPT !["layout"] = {}]
          /\ layoutID' = layoutID + 1
          /\ UNCHANGED failures
       \/ ~present /\ j.op = "edit" /\ UNCHANGED <<row, text, versions, layoutID, failures>>
       \/ Fail /\ UNCHANGED <<row, text, versions, layoutID>>
    /\ Done(w)
    /\ UNCHANGED <<disk, dir, begun, moved, unsure>>

\* os.WriteFile makes the file if it is not there.  An edit leaves the row as it is.
FileWrite(w) ==
    LET j == job[w] IN
    /\ j.op # "idle" /\ j.at = "write" /\ j.doc \in Files
    /\ \/ /\ disk' = [disk EXCEPT ![j.doc][j.dir] = j.new]
          /\ IF j.op = "edit" THEN Done(w) ELSE JobAt(w, "row")
          /\ UNCHANGED failures
       \/ Fail /\ Done(w) /\ UNCHANGED disk
    /\ UNCHANGED <<row, text, dir, versions, layoutID, begun, moved, unsure>>

\* The row names the file that was written; a rollback makes no row.
FileRow(w) ==
    LET j == job[w] IN
    /\ j.op \in {"save", "rollback"} /\ j.at = "row"
    /\ \/ /\ j.op = "save" \/ row[j.doc] = "live"
          /\ row' = [row EXCEPT ![j.doc] = "live"]
          /\ dir' = [dir EXCEPT ![j.doc] = j.dir]
          /\ UNCHANGED failures
       \/ j.op = "rollback" /\ row[j.doc] = "none" /\ UNCHANGED <<row, dir, failures>>
       \/ Fail /\ UNCHANGED <<row, dir>>
    /\ Done(w)
    /\ UNCHANGED <<text, disk, versions, layoutID, begun, moved, unsure>>

\* Wrong on purpose: the file is removed before the row.
DeleteFileFirst(w) ==
    LET j == job[w] IN
    /\ j.op = "delete" /\ j.at = "row"
    /\ disk' = [disk EXCEPT ![j.doc][j.dir] = NoText]
    /\ JobAt(w, "file")
    /\ UNCHANGED <<row, text, dir, versions, layoutID, begun, failures, moved, unsure>>

RemoveRow(w) ==
    LET j == job[w] IN
    /\ j.op = "delete" /\ j.at = "row"
    /\ \/ row' = [row EXCEPT ![j.doc] = "none"] /\ JobAt(w, "file") /\ UNCHANGED failures
       \/ Fail /\ Done(w) /\ UNCHANGED row
    /\ UNCHANGED <<text, disk, dir, versions, layoutID, begun, moved, unsure>>

\* Another operation has made the row anew, or is about to.
InTheMaking(w, f) ==
    \/ row[f] = "live"
    \/ \E v \in Writers \ {w} : job[v].op # "idle" /\ f \in {job[v].doc, job[v].to}

DeleteFile(w) ==
    LET j == job[w] IN
    /\ j.op = "delete" /\ j.at = "file"
    /\ \/ /\ disk' = [disk EXCEPT ![j.doc][j.dir] = NoText]
          /\ moved' = IF InTheMaking(w, j.doc) THEN moved \cup {j.doc} ELSE moved
          /\ UNCHANGED failures
       \/ Fail /\ UNCHANGED <<disk, moved>>
    /\ Done(w)
    /\ UNCHANGED <<row, text, dir, versions, layoutID, begun, unsure>>

\* os.Rename replaces what has the new name.
RenameMove(w) ==
    LET j == job[w] IN
    /\ j.op = "rename" /\ j.at = "move"
    /\ \/ /\ disk[j.doc][j.dir] # NoText
          /\ disk' = [disk EXCEPT ![j.to]["tools"] = disk[j.doc][j.dir],
                                  ![j.doc][j.dir] = NoText]
          /\ JobAt(w, "rename")
          /\ UNCHANGED failures
       \/ disk[j.doc][j.dir] = NoText /\ Done(w) /\ UNCHANGED <<disk, failures>>
       \/ Fail /\ Done(w) /\ UNCHANGED disk
    /\ moved' = IF \E v \in Writers \ {w} : job[v].op # "idle" /\ {job[v].doc, job[v].to} \cap {j.doc, j.to} # {}
               THEN moved \cup {j.doc, j.to} ELSE moved
    /\ UNCHANGED <<row, text, dir, versions, layoutID, begun, unsure>>

\* The new name may have a row already: the old row stays, without its file.
RenameRow(w) ==
    LET j == job[w] IN
    /\ j.op = "rename" /\ j.at = "rename"
    /\ \/ /\ row[j.doc] = "live" /\ row[j.to] = "none"
          /\ row' = [row EXCEPT ![j.doc] = "none", ![j.to] = "live"]
          /\ dir' = [dir EXCEPT ![j.to] = "tools"]
          /\ UNCHANGED <<failures, moved, unsure>>
       \/ /\ row[j.doc] = "live" /\ row[j.to] = "live"
          /\ moved' = moved \cup {j.doc}
          /\ UNCHANGED <<row, dir, failures>>
       \/ row[j.doc] = "none" /\ UNCHANGED <<row, dir, failures, moved, unsure>>
       \/ Fail /\ moved' = moved \cup {j.doc} /\ UNCHANGED <<row, dir>>
    /\ Done(w)
    /\ UNCHANGED <<text, disk, versions, layoutID, begun, unsure>>

\* The process ends in the middle of everything.
Interrupted ==
    /\ Fail
    /\ job' = [w \in Writers |-> NoJob]
    /\ moved' = moved \cup {job[w].doc : w \in {v \in Writers : job[v].at = "rename"}}
    /\ UNCHANGED <<row, text, disk, dir, versions, layoutID, begun, unsure>>

BeginPage(w) ==
    \/ PageSave(w) \/ PagePatch(w) \/ PageEditLines(w) \/ PageRegexReplace(w) \/ PageRevert(w)
    \/ PageDelete(w) \/ PageRestore(w)
    \/ AdminPageCreate(w) \/ AdminPageUpdate(w) \/ AdminPageDelete(w) \/ AdminPageRevert(w)

BeginLayout(w) ==
    \/ LayoutSave(w) \/ LayoutPatch(w) \/ LayoutRevert(w)
    \/ AdminLayoutUpdate(w) \/ AdminLayoutDelete(w) \/ AdminLayoutRevert(w)

BeginFile(w, f) ==
    \/ FileSave(w, f) \/ FilePatch(w, f) \/ FileEditLines(w, f) \/ FileRegexReplace(w, f)
    \/ FileRollback(w, f) \/ FileDelete(w, f) \/ FetchImage(w, f)
    \/ MediaResize(w, f) \/ MediaThumbnail(w, f) \/ MediaOptimize(w, f)
    \/ \E g \in Files : FileRename(w, f, g)
    \/ AdminTextAsset(w, f) \/ AdminUpload(w, f) \/ AdminAssetDelete(w, f) \/ AdminAssetRevert(w, f)

GoOn(w) ==
    \/ Number(w) \/ Capture(w) \/ NoMatch(w)
    \/ PageWrite(w) \/ LayoutWrite(w) \/ FileWrite(w) \/ FileRow(w)
    \/ RemoveRow(w) \/ DeleteFile(w) \/ RenameMove(w) \/ RenameRow(w)

ContentNext ==
    \/ \E w \in Writers :
          BeginPage(w) \/ BeginLayout(w) \/ (\E f \in Files : BeginFile(w, f)) \/ GoOn(w)
    \/ Interrupted

ContentSpec == ContentInit /\ [][ContentNext]_contentVars

-----------------------------------------------------------------------------
(* Properties                                                              *)

ContentTypeOK ==
    /\ row \in [Docs -> {"none", "live", "deleted"}]
    /\ \A d \in Docs \ {"page"} : row[d] # "deleted"
    /\ text \in [Rows -> Texts]
    /\ \A d \in Rows : row[d] = "none" <=> text[d] = NoText
    /\ disk \in [Files -> [Dirs -> Texts]]
    /\ dir \in [Files -> Dirs]
    /\ \A d \in Docs : versions[d] \subseteq (Nat \X Texts)
    /\ layoutID \in Nat
    /\ begun \in 0 .. MaxOps /\ failures \in 0 .. MaxFailures
    /\ moved \subseteq Files /\ unsure \subseteq Docs

\* What an operation has read in order to keep it is in the history when the operation
\* overwrites it, if it is still there then, however the others interleave: unless a
\* statement failed or later saves have pruned it.  Those that read are the tools' saves of
\* pages, layouts and text files, patches, edits and reverts, and rollbacks of what is in the
\* tools' directory.  Saves of binary files, fetch_image, manage_media, the admin's page
\* editor, uploads and text assets, and a rollback of a file in the admin's directory read
\* nothing, and what they replace is gone.
OverwriteKept(w) ==
    LET j == job[w]
        before == IF j.doc \in Files THEN disk[j.doc][j.dir] ELSE text[j.doc]
        after == IF j.doc \in Files THEN disk'[j.doc][j.dir] ELSE text'[j.doc] IN
    /\ j.op # "idle" /\ j.at = "write" /\ before = j.seen
    /\ before \notin {NoText, after}
    /\ j.doc = "layout" => j.id = layoutID
    /\ failures' = 0 /\ Newest(j.doc) < j.num + MaxVersions
    => j.seen \in Kept(j.doc)
OverwrittenIsKept == [][\A w \in Writers : OverwriteKept(w)]_contentVars

\* A version number names one text, whatever has been pruned in between, unless two
\* operations on the document looked for a number at the same time, or one could not read
\* the newest and took number 1.
NumberNamesOneText ==
    \A d \in Docs \ unsure : \A u, v \in versions[d] : u[1] = v[1] => u = v

\* A row of a file has its file, unless the file was moved or removed under an
\* operation that was making the row, or a rename ended between the two.
RowHasFile ==
    \A f \in Files :
        row[f] = "live" => \/ Current(f) # NoText
                           \/ f \in moved
                           \/ \E w \in Writers : job[w].at = "rename" /\ job[w].doc = f
=============================================================================
