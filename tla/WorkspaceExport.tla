---------------------------- MODULE WorkspaceExport ----------------------------
(***************************************************************************)
(* The export of a workspace to R2.  The Cron takes a slice of one running  *)
(* export per run: it pages through the tables by rowid, writes every page  *)
(* as a numbered object, and keeps a cursor on the backups row.  Meanwhile  *)
(* the workspace changes, administrators and the schedule start exports,    *)
(* administrators delete them, runs end early, and what is old is swept.    *)
(*                                                                         *)
(* A row is its rowid.  SQLite hands out the largest rowid plus one.  The   *)
(* Cron's runs follow one another; MCExportOverlap has two at a time, which *)
(* write different pages under the same numbers.                           *)
(*                                                                         *)
(* A start looks for a running export, then for a recent one, then inserts  *)
(* its row: two starts at once may both find none, and a workspace then has *)
(* two exports running.  The row bears the time at which its start began,   *)
(* and that time is what orders the exports, so a row may come into being   *)
(* ahead of one that was advanced while it was being started.              *)
(***************************************************************************)
EXTENDS Integers, Sequences, FiniteSets, FiniteSetsExt

CONSTANTS
  Workspaces,
  Backups,
  OwnerOf,    \* the workspace of each export
  LastTable,  \* EXPORT_TABLES are 1 .. LastTable
  MaxRow,     \* bounds the rowids of each workspace's tables
  ChunkRows,  \* rows of a page at most
  MaxQueries, \* pages of one Cron run
  None

ASSUME ExportAssumption ==
  /\ OwnerOf \in [Backups -> Workspaces]
  /\ LastTable \in Nat \ {0} /\ ChunkRows \in Nat \ {0} /\ MaxQueries \in Nat \ {0}
  /\ MaxRow \in [Workspaces -> [1 .. LastTable -> Nat]]
  /\ None \notin Backups

VARIABLES
  rows,     \* rowids of each table of each workspace
  backup,   \* backups rows
  asked,    \* how far the start of an export has come
  ahead,    \* exports with an earlier updated_at, of one running or being started
  chunks,   \* R2 objects: a function from <<export, table, seq>> to rows
  walk,     \* the Cron run
  steady,   \* rows of an export's workspace since before it started
  overtaken,\* advances of each other export while one runs and is not advanced
  deleting, \* exports whose objects an administrator has deleted, not yet their row
  deleted   \* exports an administrator deleted

exportVars == <<rows, backup, asked, ahead, chunks, walk, steady, overtaken, deleting, deleted>>

Tables == 1 .. LastTable
FirstCursor == [table |-> 1, row |-> 0, seq |-> 0, size |-> ChunkRows]
NoBackup == [status |-> "none", cursor |-> FirstCursor, age |-> "today"]
NoWalk == [pc |-> "idle", backup |-> None, cursor |-> FirstCursor, page |-> {}, queries |-> 0]

NotOvertaken == [b \in Backups |-> 0]

ExportInit ==
  /\ rows = [w \in Workspaces |-> [t \in Tables |-> 1 .. MaxRow[w][t]]]
  /\ backup = [b \in Backups |-> NoBackup]
  /\ asked = [b \in Backups |-> "no"]
  /\ ahead = [b \in Backups |-> {}]
  /\ chunks = <<>>
  /\ walk = NoWalk
  /\ steady = [b \in Backups |-> [t \in Tables |-> {}]]
  /\ overtaken = [b \in Backups |-> NotOvertaken]
  /\ deleting = {} /\ deleted = {}

OfWorkspace(w) == {b \in Backups : OwnerOf[b] = w /\ backup[b].status /= "none"}
WithoutObjects(b) == [k \in {key \in DOMAIN chunks : key[1] /= b} |-> chunks[k]]
Running == {b \in Backups : backup[b].status = "running"}

Timed == Running \cup {b \in Backups : asked[b] /= "no"}

\* The order of updated_at once b has the latest, or none any more.
MovedLast(b) == [other \in Backups |-> IF other = b THEN Timed \ {b} ELSE ahead[other] \ {b}]
NotTimed(b) == [other \in Backups |-> IF other = b THEN {} ELSE ahead[other] \ {b}]

(***************************************************************************)
(* startBackup, called by the route and by the Cron for a schedule that is   *)
(* due (which has found no recent export itself, and gives up like a request *)
(* that is refused).  Nothing holds the workspace between the steps.        *)
(***************************************************************************)
\* The time is taken; SELECT ... status = 'running' finds none.
CheckRunning(b) ==
  /\ backup[b].status = "none" /\ asked[b] = "no"
  /\ \A other \in OfWorkspace(OwnerOf[b]) : backup[other].status /= "running"
  /\ asked' = [asked EXCEPT ![b] = "alone"]
  /\ ahead' = MovedLast(b)
  /\ UNCHANGED <<rows, backup, chunks, walk, steady, overtaken, deleting, deleted>>

\* SELECT ... started_at > now - DAY_MS: the start goes on, or is refused.
CheckRecent(b) ==
  LET recent == \E other \in OfWorkspace(OwnerOf[b]) : backup[other].age = "today"
  IN  /\ asked[b] = "alone"
      /\ asked' = [asked EXCEPT ![b] = IF recent THEN "no" ELSE "first"]
      /\ ahead' = IF recent THEN NotTimed(b) ELSE ahead
      /\ UNCHANGED <<rows, backup, chunks, walk, steady, overtaken, deleting, deleted>>

\* The retention days are read, and the row is inserted.
InsertBackup(b) ==
  /\ asked[b] = "first"
  /\ asked' = [asked EXCEPT ![b] = "no"]
  /\ backup' = [backup EXCEPT ![b].status = "running"]
  /\ steady' = [steady EXCEPT ![b] = rows[OwnerOf[b]]]
  /\ UNCHANGED <<rows, ahead, chunks, walk, overtaken, deleting, deleted>>

\* DELETE /:id: the objects, then the row, which stays as a record of the day.
\* Nothing tells a Cron run that is at it.
DeleteObjects(b) ==
  /\ backup[b].status /= "none" /\ b \notin deleting
  /\ chunks' = WithoutObjects(b)
  /\ deleting' = deleting \cup {b}
  /\ UNCHANGED <<rows, backup, asked, ahead, walk, steady, overtaken, deleted>>

MarkDeleted(b) ==
  /\ b \in deleting
  /\ backup' = [backup EXCEPT ![b].status = "expired", ![b].cursor = FirstCursor]
  /\ ahead' = NotTimed(b)
  /\ deleting' = deleting \ {b}
  /\ deleted' = deleted \cup {b}
  /\ overtaken' = [overtaken EXCEPT ![b] = NotOvertaken]
  /\ UNCHANGED <<rows, asked, chunks, walk, steady>>

(***************************************************************************)
(* advanceBackups and advanceBackup.                                       *)
(***************************************************************************)
MPickAny ==
  /\ walk.pc = "idle"
  /\ \E b \in Running :
       walk' = [NoWalk EXCEPT !.pc = "page", !.backup = b, !.cursor = backup[b].cursor]
  /\ UNCHANGED <<rows, backup, asked, ahead, chunks, steady, overtaken, deleting, deleted>>

\* The least recently updated export, and the row as it is now.
PickBackup ==
  /\ walk.pc = "idle"
  /\ \E b \in Running :
       /\ ahead[b] \cap Running = {}
       /\ walk' = [NoWalk EXCEPT !.pc = "page", !.backup = b, !.cursor = backup[b].cursor]
  /\ UNCHANGED <<rows, backup, asked, ahead, chunks, steady, overtaken, deleting, deleted>>

\* SELECT ... WHERE rowid > ? ORDER BY rowid LIMIT ?
Page(w, cursor) ==
  LET rest == {r \in rows[w][cursor.table] : r > cursor.row}
  IN  {r \in rest : Cardinality({s \in rest : s <= r}) <= cursor.size}

\* An empty page moves to the next table; after the last one the export is done.
ReadPage ==
  LET page == Page(OwnerOf[walk.backup], walk.cursor)
  IN  /\ walk.pc = "page" /\ walk.queries < MaxQueries
      /\ walk' = IF page /= {} THEN [walk EXCEPT !.pc = "put", !.page = page, !.queries = @ + 1]
                 ELSE IF walk.cursor.table = LastTable THEN [walk EXCEPT !.pc = "completed"]
                 ELSE [walk EXCEPT !.queries = @ + 1,
                                   !.cursor = [FirstCursor EXCEPT !.table = walk.cursor.table + 1]]
      /\ UNCHANGED <<rows, backup, asked, ahead, chunks, steady, overtaken, deleting, deleted>>

\* The page is written under the cursor's number; what it weighed sizes the next.
PutChunk(size) ==
  LET c == walk.cursor
      key == <<walk.backup, c.table, c.seq>>
  IN  /\ walk.pc = "put"
      /\ chunks' = [k \in DOMAIN chunks \cup {key} |-> IF k = key THEN walk.page ELSE chunks[k]]
      /\ walk' = [walk EXCEPT !.pc = "page", !.page = {},
                              !.cursor = [c EXCEPT !.row = Max(walk.page),
                                                   !.seq = c.seq + 1, !.size = size]]
      /\ UNCHANGED <<rows, backup, asked, ahead, steady, overtaken, deleting, deleted>>

\* A failed put fails the export.
PutFails ==
  /\ walk.pc = "put"
  /\ walk' = [walk EXCEPT !.pc = "failed", !.page = {}]
  /\ UNCHANGED <<rows, backup, asked, ahead, chunks, steady, overtaken, deleting, deleted>>

\* What was written under the numbers from the cursor on is written again.
WalkDies ==
  /\ walk.pc /= "idle"
  /\ walk' = NoWalk
  /\ UNCHANGED <<rows, backup, asked, ahead, chunks, steady, overtaken, deleting, deleted>>

Persist(b, status, cursor) ==
  /\ backup' = [backup EXCEPT ![b] = [@ EXCEPT !.status = status, !.cursor = cursor]]
  /\ ahead' = IF status = "running" THEN MovedLast(b) ELSE NotTimed(b)
  /\ overtaken' = IF b \notin Running THEN overtaken
                  ELSE [other \in Backups |->
                          IF other = b THEN NotOvertaken
                          ELSE IF other \in Running THEN [overtaken[other] EXCEPT ![b] = @ + 1]
                          ELSE overtaken[other]]
  /\ walk' = NoWalk
  /\ UNCHANGED <<rows, asked, chunks, steady, deleting, deleted>>

\* The last statement of a run; it names the id, whatever the status has become.
Finish ==
  \/ walk.pc = "completed" /\ Persist(walk.backup, "completed", FirstCursor)
  \/ walk.pc = "failed" /\ Persist(walk.backup, "failed", walk.cursor)
  \/ /\ walk.pc = "page" /\ walk.queries = MaxQueries
     /\ Persist(walk.backup, backup[walk.backup].status, walk.cursor)

(***************************************************************************)
(* sweepExpiredBackups, after the advance of the same run: completed and     *)
(* past its days, failed a day ago, or running and not updated for hours.   *)
(***************************************************************************)
SweepBackup(b) ==
  /\ walk.pc = "idle"
  /\ backup[b].age = "old" /\ backup[b].status \in {"completed", "failed", "running"}
  /\ chunks' = WithoutObjects(b)
  /\ backup' = [backup EXCEPT ![b].status = "expired", ![b].cursor = FirstCursor]
  /\ ahead' = NotTimed(b)
  /\ overtaken' = [overtaken EXCEPT ![b] = NotOvertaken]
  /\ UNCHANGED <<rows, asked, walk, steady, deleting, deleted>>

DayPasses(b) ==
  /\ backup[b].status /= "none" /\ backup[b].age = "today" /\ walk.pc = "idle"
  /\ backup' = [backup EXCEPT ![b].age = "old"]
  /\ UNCHANGED <<rows, asked, ahead, chunks, walk, steady, overtaken, deleting, deleted>>

(***************************************************************************)
(* The workspace meanwhile.                                                *)
(***************************************************************************)
AddRow(w, t) ==
  LET r == IF rows[w][t] = {} THEN 1 ELSE Max(rows[w][t]) + 1
  IN  /\ r <= MaxRow[w][t]
      /\ rows' = [rows EXCEPT ![w][t] = @ \cup {r}]
      /\ UNCHANGED <<backup, asked, ahead, chunks, walk, steady, overtaken, deleting, deleted>>

DropRow(w, t, r) ==
  /\ r \in rows[w][t]
  /\ rows' = [rows EXCEPT ![w][t] = @ \ {r}]
  /\ steady' = [b \in Backups |-> IF OwnerOf[b] = w THEN [steady[b] EXCEPT ![t] = @ \ {r}] ELSE steady[b]]
  /\ UNCHANGED <<backup, asked, ahead, chunks, walk, overtaken, deleting, deleted>>

ExportNext ==
  \/ \E b \in Backups :
       \/ CheckRunning(b) \/ CheckRecent(b) \/ InsertBackup(b)
       \/ DeleteObjects(b) \/ MarkDeleted(b) \/ SweepBackup(b) \/ DayPasses(b)
  \/ PickBackup \/ ReadPage \/ PutFails \/ WalkDies \/ Finish
  \/ \E size \in 1 .. ChunkRows : PutChunk(size)
  \/ \E w \in Workspaces, t \in Tables : AddRow(w, t) \/ \E r \in 1 .. MaxRow[w][t] : DropRow(w, t, r)

ExportSpec == ExportInit /\ [][ExportNext]_exportVars

(***************************************************************************)
(* Properties.                                                             *)
(***************************************************************************)
\* streamTable and listBackupFiles: the rows of one table, chunk after chunk.
Downloaded(b, t) == UNION {chunks[k] : k \in {key \in DOMAIN chunks : key[1] = b /\ key[2] = t}}

ExportTypeOK ==
  /\ \A b \in Backups :
       /\ backup[b].status \in {"none", "running", "completed", "failed", "expired"}
       /\ backup[b].cursor.table \in Tables /\ backup[b].cursor.row \in Nat
       /\ backup[b].cursor.size \in 1 .. ChunkRows
       /\ asked[b] \in {"no", "alone", "first"} /\ (asked[b] /= "no" => backup[b].status = "none")
       /\ ahead[b] \subseteq Timed \ {b} /\ (b \notin Timed => ahead[b] = {})
  /\ walk.pc = "put" <=> walk.page /= {}

\* A completed export has every row that was there from its start to its end,
\* although runs end anywhere and repeat pages, rows disappear and shift the
\* pages meanwhile, and the size of a page changes.  An export deleted while a
\* run is at it is left out: it may come back as completed, see DeletedIsGone.
ExportComplete ==
  \A b \in Backups \ (deleting \cup deleted) :
    backup[b].status = "completed" => \A t \in Tables : steady[b][t] \subseteq Downloaded(b, t)

\* While an export waits, no other is advanced twice, of its own workspace or of
\* another, however exports are started, deleted and swept meanwhile: what
\* src/server/backups/service.ts:371-373 orders them for.
FairTurns == \A b, other \in Backups : overtaken[b][other] <= 1

\* What src/server/backups/service.ts:182-183 says: one at a time per workspace.
\* No run checks it: two starts may both find none running, and none recent.
OneAtATime ==
  \A b, other \in Running : OwnerOf[b] = OwnerOf[other] => b = other

\* What src/server/backups/routes.ts:126-127 says: nothing is downloadable once
\* the objects of a deleted export are gone.  No run checks it: a pass that had
\* read its page before the deletion puts one more chunk.
DeletedIsGone == \A b \in deleted, t \in Tables : Downloaded(b, t) = {}
=============================================================================
