---------------------------- MODULE MCExportOverlap ----------------------------
(* Two runs of the Cron at once, on the day an export is started.  A run      *)
(* begins every five minutes, whether or not the last one is over, and        *)
(* nothing in advanceBackups reserves the export it has picked.               *)
EXTENDS WorkspaceExport

CONSTANTS b1, wOrg

OwnerOfExport == [b \in {b1} |-> wOrg]
ThreeRows == [w \in {wOrg} |-> [t \in {1} |-> 3]]

VARIABLE late  \* the run that begins while another is at it

Late == INSTANCE WorkspaceExport WITH walk <- late

FirstRun ==
  \/ PickBackup \/ ReadPage \/ PutFails \/ WalkDies \/ Finish
  \/ \E size \in 1 .. ChunkRows : PutChunk(size)

LateRun ==
  \/ Late!PickBackup \/ Late!ReadPage \/ Late!PutFails \/ Late!WalkDies \/ Late!Finish
  \/ \E size \in 1 .. ChunkRows : Late!PutChunk(size)

Workspace ==
  \/ \E b \in Backups : CheckRunning(b) \/ CheckRecent(b) \/ InsertBackup(b)
  \/ \E w \in Workspaces, t \in Tables :
       AddRow(w, t) \/ \E r \in 1 .. MaxRow[w][t] : DropRow(w, t, r)

OverlapInit == ExportInit /\ late = NoWalk
OverlapNext == ((FirstRun \/ Workspace) /\ UNCHANGED late) \/ (LateRun /\ UNCHANGED walk)
OverlapSpec == OverlapInit /\ [][OverlapNext]_<<exportVars, late>>

\* What SECURITY.md:17 says of an export: a complete copy of the workspace's
\* data (rows written after it starts apart, docs/deployment.md:268).
CompleteCopy == ExportComplete
=============================================================================
