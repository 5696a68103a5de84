--------------------------- MODULE AttachmentStore ---------------------------
(***************************************************************************)
(* Uploaded attachments: bytes in R2, rows in D1.  An intent token lets one *)
(* agent PUT one file, possibly more than once; a PUT reserves the id,     *)
(* streams the bytes, then turns the reservation into an attachments row.  *)
(* A reply links rows to its message.  Two cleanups of the maintenance     *)
(* queue remove what was never linked, and erasing the ticket removes all. *)
(* No two of these share a transaction across R2 and D1.                   *)
(*                                                                         *)
(* All uploads are of one ticket and one agent.  The key of the object a   *)
(* PUT writes is random, so it is the PUT itself.                          *)
(***************************************************************************)
EXTENDS Integers, FiniteSets

CONSTANTS
  Uploads,   \* attachment ids, one per intent
  Puts,      \* PUT requests
  Replies,   \* replies, each naming the attachments of Wanted
  Wanted,
  NoRow, NoMessage

ASSUME StoreAssumption ==
  /\ Uploads /= {} /\ Wanted \in [Replies -> SUBSET Uploads]
  /\ NoMessage \notin Replies /\ NoRow \notin Puts

VARIABLES
  expired,   \* intents whose ten minutes are over
  upload,    \* attachment_uploads row by id
  row,       \* attachments row by id
  objects,   \* keys present in R2
  put,       \* the PUT requests
  reply,     \* where each reply stands
  sweep,     \* the run of the attachments cleanup
  reap,      \* the run of the uploads cleanup
  eraser     \* the erasure of the ticket

storeVars == <<expired, upload, row, objects, put, reply, sweep, reap, eraser>>
database == <<upload, row>>
cleaners == <<sweep, reap, eraser>>

Upload == [key : Puts, old : BOOLEAN]
Attachment == [key : Puts, message : Replies \cup {NoMessage},
               claimed : BOOLEAN, old : BOOLEAN]

ASSUME NoRowAssumption == NoRow \notin Upload \cup Attachment

\* What a cleanup run took down and has still to delete, key by key.
ShownPage == [Uploads -> Puts \cup {NoRow}]
Nothing == [i \in Uploads |-> NoRow]

IdlePut == [pc |-> "idle", id |-> CHOOSE i \in Uploads : TRUE]

StoreInit ==
  /\ expired = {}
  /\ upload = [i \in Uploads |-> NoRow]
  /\ row = [i \in Uploads |-> NoRow]
  /\ objects = {}
  /\ put = [p \in Puts |-> IdlePut]
  /\ reply = [r \in Replies |-> "idle"]
  /\ sweep = Nothing /\ reap = Nothing
  /\ eraser = [pc |-> "idle", keys |-> {}]

TicketLives == eraser.pc /= "gone"

\* A row the readers see: no cleanup has claimed it.
Visible(i) == row[i] /= NoRow /\ ~row[i].claimed

\* A PUT that has answered, with success or without, is over.
To(p, pc) == put' = [put EXCEPT ![p] = IF pc = "over" THEN [IdlePut EXCEPT !.pc = "over"]
                                       ELSE [@ EXCEPT !.pc = pc]]

(***************************************************************************)
(* PUT /intents/:token.                                                    *)
(***************************************************************************)
\* Signature, expiry, length and type pass, and the ticket is there.
StartPut(p, i) ==
  /\ put[p].pc = "idle"
  /\ i \notin expired
  /\ TicketLives
  /\ put' = [put EXCEPT ![p] = [pc |-> "look", id |-> i]]
  /\ UNCHANGED <<expired, database, objects, reply, cleaners>>

\* An earlier PUT of this token already stored the file: answer with its row.
Look(p) ==
  /\ put[p].pc = "look"
  /\ To(p, IF Visible(put[p].id) THEN "over" ELSE "reserve")
  /\ UNCHANGED <<expired, database, objects, reply, cleaners>>

\* INSERT OR IGNORE; the loser answers "upload in progress".
Reserve(p) ==
  LET i == put[p].id
  IN  /\ put[p].pc = "reserve"
      /\ IF upload[i] = NoRow
         THEN /\ upload' = [upload EXCEPT ![i] = [key |-> p, old |-> FALSE]]
              /\ To(p, "store")
         ELSE UNCHANGED upload /\ To(p, "over")
      /\ UNCHANGED <<expired, row, objects, reply, cleaners>>

\* storeValidatedUpload.  A put that threw may have left the object all the same.
Store(p, stored, threw) ==
  /\ put[p].pc = "store"
  /\ stored \/ threw
  /\ objects' = IF stored THEN objects \cup {p} ELSE objects
  /\ To(p, IF threw THEN "catch" ELSE "insert")
  /\ UNCHANGED <<expired, database, reply, cleaners>>

\* INSERT ... SELECT FROM attachment_uploads WHERE created_at >= a day ago.
Fits(i) == upload[i] /= NoRow /\ ~upload[i].old /\ row[i] = NoRow /\ TicketLives

\* The id is taken, or the ticket it refers to is gone: the batch rolls back.
Rejected(i) == upload[i] /= NoRow /\ ~upload[i].old /\ (row[i] /= NoRow \/ ~TicketLives)

\* The batch: the row, and the reservation dropped.  The answer may be lost.
Insert(p, lost) ==
  LET i == put[p].id
  IN  /\ put[p].pc = "insert"
      /\ row' = IF Fits(i)
                THEN [row EXCEPT ![i] = [key |-> upload[i].key, message |-> NoMessage,
                                         claimed |-> FALSE, old |-> FALSE]]
                ELSE row
      /\ upload' = IF Rejected(i) THEN upload ELSE [upload EXCEPT ![i] = NoRow]
      /\ To(p, IF Fits(i) /\ ~lost THEN "over" ELSE "catch")
      /\ UNCHANGED <<expired, objects, reply, cleaners>>

MCatchUnchecked(p) ==
  /\ put[p].pc = "catch"
  /\ To(p, "undo")
  /\ UNCHANGED <<expired, database, objects, reply, cleaners>>

\* "Never delete a committed object's bytes": look before cleaning up.
Catch(p) ==
  LET i == put[p].id
  IN  /\ put[p].pc = "catch"
      /\ To(p, IF row[i] /= NoRow /\ row[i].key = p THEN "over" ELSE "undo")
      /\ UNCHANGED <<expired, database, objects, reply, cleaners>>

UndoBytes(p) ==
  /\ put[p].pc = "undo"
  /\ objects' = objects \ {p}
  /\ To(p, "unreserve")
  /\ UNCHANGED <<expired, database, reply, cleaners>>

Unreserve(p) ==
  /\ put[p].pc = "unreserve"
  /\ upload' = [upload EXCEPT ![put[p].id] = NoRow]
  /\ To(p, "over")
  /\ UNCHANGED <<expired, row, objects, reply, cleaners>>

PutDies(p) ==
  /\ put[p].pc \notin {"idle", "over"}
  /\ To(p, "over")
  /\ UNCHANGED <<expired, database, objects, reply, cleaners>>

(***************************************************************************)
(* POST /tickets/:id/messages, as far as attachments go.                   *)
(***************************************************************************)
\* The message row is in; now claim its attachments with one UPDATE.
InsertMessage(r) ==
  /\ reply[r] = "idle"
  /\ TicketLives
  /\ reply' = [reply EXCEPT ![r] = "claim"]
  /\ UNCHANGED <<expired, database, objects, put, cleaners>>

Linkable(i) == Visible(i) /\ row[i].message = NoMessage

ClaimAttachments(r) ==
  LET taken == {i \in Wanted[r] : Linkable(i)}
  IN  /\ reply[r] = "claim"
      /\ row' = [i \in Uploads |-> IF i \in taken THEN [row[i] EXCEPT !.message = r] ELSE row[i]]
      /\ reply' = [reply EXCEPT ![r] = IF taken = Wanted[r] THEN "sent" ELSE "unwind"]
      /\ UNCHANGED <<expired, upload, objects, put, cleaners>>

\* A short claim gives back what it took and removes its message.
Unwind(r) ==
  /\ reply[r] = "unwind"
  /\ row' = [i \in Uploads |->
       IF row[i] /= NoRow /\ row[i].message = r
       THEN [row[i] EXCEPT !.message = NoMessage] ELSE row[i]]
  /\ reply' = [reply EXCEPT ![r] = "refused"]
  /\ UNCHANGED <<expired, upload, objects, put, cleaners>>

ReplyDies(r) ==
  /\ reply[r] \in {"claim", "unwind"}
  /\ reply' = [reply EXCEPT ![r] = "refused"]
  /\ UNCHANGED <<expired, database, objects, put, cleaners>>

(***************************************************************************)
(* processMaintenance, kinds "attachments" and "uploads".                  *)
(***************************************************************************)
Abandoned(i) == row[i] /= NoRow /\ row[i].message = NoMessage /\ row[i].old

\* One UPDATE marks up to five rows; a row claimed by a run that died is taken again.
ClaimAbandoned(page) ==
  /\ sweep = Nothing
  /\ page /= {}
  /\ \A i \in page : Abandoned(i)
  /\ row' = [i \in Uploads |-> IF i \in page THEN [row[i] EXCEPT !.claimed = TRUE] ELSE row[i]]
  /\ sweep' = [i \in Uploads |-> IF i \in page THEN row[i].key ELSE NoRow]
  /\ UNCHANGED <<expired, upload, objects, put, reply, reap, eraser>>

SweepBytes(i) ==
  /\ sweep[i] \in objects
  /\ objects' = objects \ {sweep[i]}
  /\ UNCHANGED <<expired, database, put, reply, cleaners>>

SweepRow(i) ==
  /\ sweep[i] /= NoRow /\ sweep[i] \notin objects
  /\ row' = IF row[i] /= NoRow /\ row[i].message = NoMessage /\ row[i].claimed
            THEN [row EXCEPT ![i] = NoRow] ELSE row
  /\ sweep' = [sweep EXCEPT ![i] = NoRow]
  /\ UNCHANGED <<expired, upload, objects, put, reply, reap, eraser>>

\* Reservations a day old, whatever became of their PUT.
SelectStale(page) ==
  /\ reap = Nothing
  /\ page /= {}
  /\ \A i \in page : upload[i] /= NoRow /\ upload[i].old
  /\ reap' = [i \in Uploads |-> IF i \in page THEN upload[i].key ELSE NoRow]
  /\ UNCHANGED <<expired, database, objects, put, reply, sweep, eraser>>

ReapBytes(i) ==
  /\ reap[i] \in objects
  /\ objects' = objects \ {reap[i]}
  /\ UNCHANGED <<expired, database, put, reply, cleaners>>

ReapRow(i) ==
  /\ reap[i] /= NoRow
  /\ upload' = [upload EXCEPT ![i] = NoRow]
  /\ reap' = [reap EXCEPT ![i] = NoRow]
  /\ UNCHANGED <<expired, row, objects, put, reply, sweep, eraser>>

CleanerDies ==
  /\ \/ sweep /= Nothing /\ sweep' = Nothing /\ UNCHANGED reap
     \/ reap /= Nothing /\ reap' = Nothing /\ UNCHANGED sweep
  /\ UNCHANGED <<expired, database, objects, put, reply, eraser>>

(***************************************************************************)
(* eraseTicket, as far as attachments go: rows, bytes, then the ticket.    *)
(***************************************************************************)
ReadRows ==
  /\ eraser.pc = "idle"
  /\ eraser' = [pc |-> "bytes", keys |-> {row[i].key : i \in {j \in Uploads : row[j] /= NoRow}}]
  /\ UNCHANGED <<expired, database, objects, put, reply, sweep, reap>>

EraseBytes ==
  /\ eraser.pc = "bytes"
  /\ objects' = objects \ eraser.keys
  /\ eraser' = [pc |-> "ticket", keys |-> {}]
  /\ UNCHANGED <<expired, database, put, reply, sweep, reap>>

\* The cascade takes the attachments rows; reservations refer to nothing.
EraseTicket ==
  /\ eraser.pc = "ticket"
  /\ eraser' = [eraser EXCEPT !.pc = "gone"]
  /\ row' = [i \in Uploads |-> NoRow]
  /\ UNCHANGED <<expired, upload, objects, put, reply, sweep, reap>>

(***************************************************************************)
(* Time.  Everything before the stream is a few statements, so no PUT that *)
(* passed the expiry check has still to reserve ten minutes later; the     *)
(* stream itself lasts as long as the client keeps sending.                *)
(***************************************************************************)
TokenExpires(i) ==
  /\ i \notin expired
  /\ \A p \in Puts : put[p].id = i => put[p].pc \notin {"look", "reserve"}
  /\ expired' = expired \cup {i}
  /\ UNCHANGED <<database, objects, put, reply, cleaners>>

UploadAges(i) ==
  /\ i \in expired
  /\ \/ /\ upload[i] /= NoRow /\ ~upload[i].old
        /\ upload' = [upload EXCEPT ![i].old = TRUE] /\ UNCHANGED row
     \/ /\ row[i] /= NoRow /\ ~row[i].old
        /\ row' = [row EXCEPT ![i].old = TRUE] /\ UNCHANGED upload
  /\ UNCHANGED <<expired, objects, put, reply, cleaners>>

PutStep(p) ==
  \/ \E i \in Uploads : StartPut(p, i)
  \/ Look(p) \/ Reserve(p)
  \/ \E stored, threw \in BOOLEAN : Store(p, stored, threw)
  \/ \E lost \in BOOLEAN : Insert(p, lost)
  \/ Catch(p) \/ UndoBytes(p) \/ Unreserve(p) \/ PutDies(p)

ReplyStep(r) == InsertMessage(r) \/ ClaimAttachments(r) \/ Unwind(r) \/ ReplyDies(r)

StoreNext ==
  \/ \E p \in Puts : PutStep(p)
  \/ \E r \in Replies : ReplyStep(r)
  \/ \E page \in SUBSET Uploads : ClaimAbandoned(page) \/ SelectStale(page)
  \/ \E i \in Uploads : SweepBytes(i) \/ SweepRow(i) \/ ReapBytes(i) \/ ReapRow(i)
  \/ CleanerDies
  \/ ReadRows \/ EraseBytes \/ EraseTicket
  \/ \E i \in Uploads : TokenExpires(i) \/ UploadAges(i)

StoreSpec == StoreInit /\ [][StoreNext]_storeVars

(***************************************************************************)
(* Properties.                                                             *)
(***************************************************************************)
StoreTypeOK ==
  /\ expired \subseteq Uploads
  /\ upload \in [Uploads -> Upload \cup {NoRow}]
  /\ row \in [Uploads -> Attachment \cup {NoRow}]
  /\ objects \subseteq Puts
  /\ put \in [Puts -> [pc : {"idle", "look", "reserve", "store", "insert", "catch", "undo",
                             "unreserve", "over"}, id : Uploads]]
  /\ reply \in [Replies -> {"idle", "claim", "unwind", "sent", "refused"}]
  /\ sweep \in ShownPage /\ reap \in ShownPage
  /\ eraser \in [pc : {"idle", "bytes", "ticket", "gone"}, keys : SUBSET Puts]

\* Until its ticket is being erased, a file that can be opened or sent has its
\* bytes: neither a lost answer to the insert, nor a repeated PUT, nor a cleanup
\* running beside the upload or beside the reply that links it takes them away.
RowHasBytes ==
  eraser.pc \in {"idle", "bytes"} =>
    \A i \in Uploads : Visible(i) => row[i].key \in objects

\* A reply that went through owns every attachment it named, and keeps them: two
\* replies never share one, and no cleanup claims one of a sent reply.
SentComplete ==
  TicketLives =>
    \A r \in Replies : reply[r] = "sent" =>
      \A i \in Wanted[r] : Visible(i) /\ row[i].message = r

\* A file that is offered can be read, and a reply that was taken has its files.
FilesWhole == RowHasBytes /\ SentComplete
=============================================================================
