------------------------ MODULE AttachmentStoreProofs ------------------------
(***************************************************************************)
(* Proofs about AttachmentStore for every set of uploads, PUT requests and *)
(* replies: what is offered has its bytes, and a reply that was taken has  *)
(* its files.                                                              *)
(***************************************************************************)
EXTENDS AttachmentStore, TLAPS

PutPoints == {"idle", "look", "reserve", "store", "insert", "catch", "undo", "unreserve", "over"}

\* The erasure has not begun to delete bytes.
Open == eraser.pc \in {"idle", "bytes"}

(***************************************************************************)
(* The inductive invariant.  A key is the PUT that wrote it, and it is in  *)
(* one place at a time: with a PUT that streams, in a reservation, in a    *)
(* row.  Only a token's expiry lets a cleanup take a reservation or a row, *)
(* and no PUT reserves under an expired token; so between two PUTs of one  *)
(* token the reservation decides.                                          *)
(***************************************************************************)
\* Who has the key of a row has inserted it.
InsertedBy(p, i) == put[p].pc = "over" \/ (put[p].pc = "catch" /\ put[p].id = i)

\* Who has the key of a reservation made it, and has not inserted its row.
ReservedBy(p, i) ==
  /\ put[p].pc \notin {"idle", "look", "reserve"}
  /\ put[p].pc /= "over" => put[p].id = i
  /\ \A j \in Uploads : row[j] /= NoRow => row[j].key /= p

RowsInserted == \A i \in Uploads : row[i] /= NoRow => InsertedBy(row[i].key, i)
KeysDiffer ==
  \A i, j \in Uploads : row[i] /= NoRow /\ row[j] /= NoRow /\ row[i].key = row[j].key => i = j
UploadsReserved == \A i \in Uploads : upload[i] /= NoRow => ReservedBy(upload[i].key, i)

OldIsExpired ==
  \A i \in Uploads :
    /\ upload[i] /= NoRow /\ upload[i].old => i \in expired
    /\ row[i] /= NoRow /\ row[i].old => i \in expired
LooksInTime == \A p \in Puts : put[p].pc \in {"look", "reserve"} => put[p].id \notin expired

Has(p, i) == upload[i] /= NoRow /\ upload[i].key = p

\* A PUT that streams has its reservation, unless the uploads cleanup took it.
Holders ==
  \A p \in Puts : put[p].pc \in {"store", "insert"} =>
            \/ Has(p, put[p].id)
            \/ put[p].id \in expired /\ upload[put[p].id] = NoRow

\* A PUT that gives up drops its own reservation and nobody else's.
Leavers ==
  \A p \in Puts : put[p].pc \in {"catch", "undo", "unreserve"} =>
            \/ Has(p, put[p].id) \/ put[p].id \in expired
            \/ put[p].pc = "catch" /\ row[put[p].id] /= NoRow /\ row[put[p].id].key = p

\* What the two cleanups have taken down.
Sweeping ==
  \A i \in Uploads : sweep[i] /= NoRow =>
    i \in expired /\ row[i] /= NoRow /\ row[i].key = sweep[i] /\ row[i].claimed
Reaping ==
  \A i \in Uploads : reap[i] /= NoRow =>
    /\ i \in expired /\ ReservedBy(reap[i], i)
    /\ upload[i] /= NoRow => upload[i].old

\* A PUT whose insert may still fit has its bytes in R2.
BytesStored ==
  \A p \in Puts : put[p].pc = "insert" =>
            LET u == upload[put[p].id] IN u /= NoRow /\ ~u.old => p \in objects

\* What can be opened has its bytes.
VisibleStored == \A i \in Uploads : Visible(i) => row[i].key \in objects

KeysSound ==
  /\ RowsInserted /\ KeysDiffer /\ UploadsReserved /\ OldIsExpired /\ LooksInTime
  /\ Holders /\ Leavers /\ Sweeping /\ Reaping /\ BytesStored /\ VisibleStored

\* Once bytes are erased the rows are on their way out, and nothing is promised.
FileKeysInv == Open => KeysSound

StoreInv == StoreTypeOK /\ FileKeysInv /\ SentComplete

(***************************************************************************)
(* Types.                                                                  *)
(***************************************************************************)
PutRecord == [pc : PutPoints, id : Uploads]

\* An upload of the constants exists, so a PUT that is over is typed as well.
LEMMA SomeUpload == IdlePut.id \in Uploads /\ IdlePut.pc = "idle" /\ IdlePut \in PutRecord
  BY StoreAssumption DEF IdlePut, PutRecord, PutPoints

\* One PUT moves: its program point, and no identity but that of a PUT that is over.
LEMMA PutMoves ==
  ASSUME put \in [Puts -> PutRecord], NEW p \in Puts, NEW pc \in PutPoints, To(p, pc)
  PROVE  /\ put' \in [Puts -> PutRecord]
         /\ put'[p].pc = pc
         /\ pc /= "over" => put'[p].id = put[p].id
         /\ \A q \in Puts \ {p} : put'[q] = put[q]
<1> DEFINE gone == [IdlePut EXCEPT !.pc = "over"]
           r == IF pc = "over" THEN gone ELSE [put[p] EXCEPT !.pc = pc]
<1>1. put[p] \in PutRecord
  OBVIOUS
<1>2. gone \in PutRecord /\ gone.pc = "over"
  BY SomeUpload DEF PutRecord, PutPoints
<1>3. [put[p] EXCEPT !.pc = pc] \in PutRecord /\ [put[p] EXCEPT !.pc = pc].pc = pc
      /\ [put[p] EXCEPT !.pc = pc].id = put[p].id
  BY <1>1 DEF PutRecord
<1>4. r \in PutRecord /\ r.pc = pc /\ (pc /= "over" => r.id = put[p].id)
  BY <1>2, <1>3
<1>5. put' = [put EXCEPT ![p] = r]
  BY DEF To
<1> HIDE DEF r
<1>6. QED
  BY <1>4, <1>5

\* The type invariant, spelled with the sets the lemmas use.
LEMMA TypeOf ==
  StoreTypeOK <=>
    /\ expired \subseteq Uploads
    /\ upload \in [Uploads -> Upload \cup {NoRow}]
    /\ row \in [Uploads -> Attachment \cup {NoRow}]
    /\ objects \subseteq Puts
    /\ put \in [Puts -> PutRecord]
    /\ reply \in [Replies -> {"idle", "claim", "unwind", "sent", "refused"}]
    /\ sweep \in [Uploads -> Puts \cup {NoRow}] /\ reap \in [Uploads -> Puts \cup {NoRow}]
    /\ eraser \in [pc : {"idle", "bytes", "ticket", "gone"}, keys : SUBSET Puts]
  BY DEF StoreTypeOK, ShownPage, PutRecord, PutPoints

\* A row that is there is a record, and NoRow is none.
LEMMA RowFacts ==
  ASSUME StoreTypeOK
  PROVE  /\ \A i \in Uploads : upload[i] /= NoRow => upload[i] \in Upload /\ upload[i].key \in Puts
         /\ \A i \in Uploads : row[i] /= NoRow => row[i] \in Attachment /\ row[i].key \in Puts
         /\ NoRow \notin Upload /\ NoRow \notin Attachment /\ NoRow \notin Puts
<1>1. NoRow \notin Upload /\ NoRow \notin Attachment /\ NoRow \notin Puts
  BY NoRowAssumption, StoreAssumption
<1>2. \A i \in Uploads : upload[i] /= NoRow => upload[i] \in Upload
  BY DEF StoreTypeOK
<1>3. \A i \in Uploads : row[i] /= NoRow => row[i] \in Attachment
  BY DEF StoreTypeOK
<1>4. \A u \in Upload : u.key \in Puts
  BY DEF Upload
<1>5. \A a \in Attachment : a.key \in Puts
  BY DEF Attachment
<1>6. QED
  BY <1>1, <1>2, <1>3, <1>4, <1>5

\* The ways a row is written.
NewReservation(p) == [key |-> p, old |-> FALSE]
NewAttachment(p) == [key |-> p, message |-> NoMessage, claimed |-> FALSE, old |-> FALSE]

Aged(a) == [a EXCEPT !.old = TRUE]
Claimed(a) == [a EXCEPT !.claimed = TRUE]
Linked(a, m) == [a EXCEPT !.message = m]

LEMMA Written ==
  /\ \A p \in Puts : /\ NewReservation(p) \in Upload
                     /\ NewReservation(p).key = p /\ ~NewReservation(p).old
  /\ \A p \in Puts : /\ NewAttachment(p) \in Attachment
                     /\ NewAttachment(p).key = p /\ NewAttachment(p).message = NoMessage
                     /\ ~NewAttachment(p).claimed /\ ~NewAttachment(p).old
  /\ \A u \in Upload : /\ Aged(u) \in Upload
                       /\ Aged(u).key = u.key /\ Aged(u).old
  /\ \A a \in Attachment :
       /\ Aged(a) \in Attachment /\ Aged(a).key = a.key
       /\ Aged(a).message = a.message
       /\ (Aged(a).claimed <=> a.claimed) /\ Aged(a).old
  /\ \A a \in Attachment :
       /\ Claimed(a) \in Attachment /\ Claimed(a).key = a.key
       /\ Claimed(a).message = a.message
       /\ Claimed(a).claimed /\ (Claimed(a).old <=> a.old)
  /\ \A a \in Attachment, m \in Replies \cup {NoMessage} :
       /\ Linked(a, m) \in Attachment /\ Linked(a, m).key = a.key
       /\ Linked(a, m).message = m
       /\ (Linked(a, m).claimed <=> a.claimed) /\ (Linked(a, m).old <=> a.old)
  BY DEF NewReservation, NewAttachment, Aged, Claimed, Linked, Upload, Attachment

LEMMA StoreTypeStep == StoreTypeOK /\ [StoreNext]_storeVars => StoreTypeOK'
<1> SUFFICES ASSUME StoreTypeOK, [StoreNext]_storeVars PROVE StoreTypeOK'
  OBVIOUS
<1> USE DEF database, cleaners
<1>t. /\ expired \subseteq Uploads
      /\ upload \in [Uploads -> Upload \cup {NoRow}]
      /\ row \in [Uploads -> Attachment \cup {NoRow}]
      /\ objects \subseteq Puts
      /\ put \in [Puts -> PutRecord]
      /\ reply \in [Replies -> {"idle", "claim", "unwind", "sent", "refused"}]
      /\ sweep \in [Uploads -> Puts \cup {NoRow}] /\ reap \in [Uploads -> Puts \cup {NoRow}]
      /\ eraser \in [pc : {"idle", "bytes", "ticket", "gone"}, keys : SUBSET Puts]
  BY TypeOf
<1>g. (/\ expired' \subseteq Uploads
       /\ upload' \in [Uploads -> Upload \cup {NoRow}]
       /\ row' \in [Uploads -> Attachment \cup {NoRow}]
       /\ objects' \subseteq Puts
       /\ put' \in [Puts -> PutRecord]
       /\ reply' \in [Replies -> {"idle", "claim", "unwind", "sent", "refused"}]
       /\ sweep' \in [Uploads -> Puts \cup {NoRow}] /\ reap' \in [Uploads -> Puts \cup {NoRow}]
       /\ eraser' \in [pc : {"idle", "bytes", "ticket", "gone"}, keys : SUBSET Puts])
      => StoreTypeOK'
  BY DEF StoreTypeOK, ShownPage, PutRecord, PutPoints
<1>m. ASSUME NEW p \in Puts, NEW pc \in PutPoints, To(p, pc) PROVE put' \in [Puts -> PutRecord]
  BY <1>t, <1>m, PutMoves
<1>r. \A i \in Uploads : row[i] /= NoRow => row[i] \in Attachment /\ row[i].key \in Puts
  BY RowFacts
<1>u. \A i \in Uploads : upload[i] /= NoRow => upload[i] \in Upload /\ upload[i].key \in Puts
  BY RowFacts
<1>1. ASSUME NEW p \in Puts, PutStep(p) PROVE StoreTypeOK'
  <2>1. ASSUME NEW i \in Uploads, StartPut(p, i) PROVE StoreTypeOK'
    <3>1. [pc |-> "look", id |-> i] \in PutRecord
      BY DEF PutRecord, PutPoints
    <3>2. QED
      BY <3>1, <2>1, <1>t, <1>g DEF StartPut
  <2>2. CASE Look(p)
    <3>1. put' \in [Puts -> PutRecord]
      BY <2>2, <1>m DEF Look, PutPoints
    <3>2. QED
      BY <3>1, <2>2, <1>t, <1>g DEF Look
  <2>3. CASE Reserve(p)
    <3>1. put' \in [Puts -> PutRecord]
      BY <2>3, <1>m DEF Reserve, PutPoints
    <3>2. upload' \in [Uploads -> Upload \cup {NoRow}]
      <4>1. upload' = upload \/ upload' = [upload EXCEPT ![put[p].id] = NewReservation(p)]
        BY <2>3 DEF Reserve, NewReservation
      <4>2. QED
        BY <4>1, <1>t, Written
    <3>3. QED
      BY <3>1, <3>2, <2>3, <1>t, <1>g DEF Reserve
  <2>4. ASSUME NEW stored \in BOOLEAN, NEW threw \in BOOLEAN, Store(p, stored, threw)
        PROVE  StoreTypeOK'
    <3>1. put' \in [Puts -> PutRecord]
      BY <2>4, <1>m DEF Store, PutPoints
    <3>2. QED
      BY <3>1, <2>4, <1>t, <1>g DEF Store
  <2>5. ASSUME NEW lost \in BOOLEAN, Insert(p, lost) PROVE StoreTypeOK'
    <3> DEFINE i == put[p].id
    <3>0. i \in Uploads
      BY <1>t DEF PutRecord
    <3>1. put' \in [Puts -> PutRecord]
      BY <2>5, <1>m DEF Insert, PutPoints
    <3>2. upload' \in [Uploads -> Upload \cup {NoRow}]
      BY <2>5, <1>t DEF Insert
    <3>3. CASE Fits(i)
      <4>1. upload[i].key \in Puts
        BY <3>0, <3>3, <1>u DEF Fits
      <4>2. row' = [row EXCEPT ![i] = NewAttachment(upload[i].key)]
        BY <2>5, <3>3 DEF Insert, NewAttachment
      <4>3. row' \in [Uploads -> Attachment \cup {NoRow}]
        BY <4>1, <4>2, Written, <1>t
      <4>4. QED
        BY <4>3, <3>1, <3>2, <2>5, <1>t, <1>g DEF Insert
    <3>4. CASE ~Fits(i)
      <4>1. row' = row
        BY <2>5, <3>4 DEF Insert
      <4>2. QED
        BY <4>1, <3>1, <3>2, <2>5, <1>t, <1>g DEF Insert
    <3>5. QED
      BY <3>3, <3>4
  <2>6. CASE Catch(p)
    <3>1. put' \in [Puts -> PutRecord]
      BY <2>6, <1>m DEF Catch, PutPoints
    <3>2. QED
      BY <3>1, <2>6, <1>t, <1>g DEF Catch
  <2>7. CASE UndoBytes(p)
    <3>1. put' \in [Puts -> PutRecord]
      BY <2>7, <1>m DEF UndoBytes, PutPoints
    <3>2. QED
      BY <3>1, <2>7, <1>t, <1>g DEF UndoBytes
  <2>8. CASE Unreserve(p)
    <3>1. put' \in [Puts -> PutRecord]
      BY <2>8, <1>m DEF Unreserve, PutPoints
    <3>2. QED
      BY <3>1, <2>8, <1>t, <1>g DEF Unreserve
  <2>9. CASE PutDies(p)
    <3>1. put' \in [Puts -> PutRecord]
      BY <2>9, <1>m DEF PutDies, PutPoints
    <3>2. QED
      BY <3>1, <2>9, <1>t, <1>g DEF PutDies
  <2>10. QED
    BY <1>1, <2>1, <2>2, <2>3, <2>4, <2>5, <2>6, <2>7, <2>8, <2>9 DEF PutStep
<1>2. ASSUME NEW r \in Replies, ReplyStep(r) PROVE StoreTypeOK'
  <2>1. CASE InsertMessage(r)
    BY <2>1, <1>t, <1>g DEF InsertMessage
  <2>2. CASE ClaimAttachments(r)
    <3> DEFINE taken == {i \in Wanted[r] : Linkable(i)}
               NewRow(i) == Linked(row[i], r)
    <3>1. taken \in SUBSET Uploads
      BY StoreAssumption
    <3>2. \A i \in taken : NewRow(i) \in Attachment
      <4>1. \A i \in taken : row[i] \in Attachment
        BY <3>1, <1>r DEF Linkable, Visible
      <4>2. QED
        BY <4>1, Written
    <3>3. row' = [i \in Uploads |-> IF i \in taken THEN NewRow(i) ELSE row[i]]
      BY <2>2 DEF ClaimAttachments, Linked
    <3>4. reply' \in [Replies -> {"idle", "claim", "unwind", "sent", "refused"}]
      BY <2>2, <1>t DEF ClaimAttachments
    <3> HIDE DEF taken, NewRow
    <3>5. row' \in [Uploads -> Attachment \cup {NoRow}]
      BY <3>1, <3>2, <3>3, <1>t
    <3>6. QED
      BY <3>4, <3>5, <2>2, <1>t, <1>g DEF ClaimAttachments
  <2>3. CASE Unwind(r)
    <3> DEFINE page == {i \in Uploads : row[i] /= NoRow /\ row[i].message = r}
               NewRow(i) == Linked(row[i], NoMessage)
    <3>1. page \in SUBSET Uploads
      OBVIOUS
    <3>2. \A i \in page : NewRow(i) \in Attachment
      <4>1. \A i \in page : row[i] \in Attachment
        BY <1>r
      <4>2. QED
        BY <4>1, Written
    <3>3. row' = [i \in Uploads |-> IF i \in page THEN NewRow(i) ELSE row[i]]
      BY <2>3 DEF Unwind, Linked
    <3>4. reply' \in [Replies -> {"idle", "claim", "unwind", "sent", "refused"}]
      BY <2>3, <1>t DEF Unwind
    <3> HIDE DEF page, NewRow
    <3>5. row' \in [Uploads -> Attachment \cup {NoRow}]
      BY <3>1, <3>2, <3>3, <1>t
    <3>6. QED
      BY <3>4, <3>5, <2>3, <1>t, <1>g DEF Unwind
  <2>4. CASE ReplyDies(r)
    BY <2>4, <1>t, <1>g DEF ReplyDies
  <2>5. QED
    BY <1>2, <2>1, <2>2, <2>3, <2>4 DEF ReplyStep
<1>3. ASSUME NEW page \in SUBSET Uploads, ClaimAbandoned(page) PROVE StoreTypeOK'
  <2> DEFINE NewRow(i) == Claimed(row[i])
  <2>1. \A i \in page : row[i] \in Attachment /\ row[i].key \in Puts
    BY <1>3, <1>r DEF ClaimAbandoned, Abandoned
  <2>2. \A i \in page : NewRow(i) \in Attachment
    BY <2>1, Written
  <2>3. row' = [i \in Uploads |-> IF i \in page THEN NewRow(i) ELSE row[i]]
    BY <1>3 DEF ClaimAbandoned, Claimed
  <2>4. sweep' \in [Uploads -> Puts \cup {NoRow}]
    BY <1>3, <2>1 DEF ClaimAbandoned
  <2> HIDE DEF NewRow
  <2>5. row' \in [Uploads -> Attachment \cup {NoRow}]
    BY <2>2, <2>3, <1>t
  <2>6. QED
    BY <2>4, <2>5, <1>3, <1>t, <1>g DEF ClaimAbandoned
<1>4. ASSUME NEW page \in SUBSET Uploads, SelectStale(page) PROVE StoreTypeOK'
  <2>1. reap' \in [Uploads -> Puts \cup {NoRow}]
    BY <1>4, <1>u DEF SelectStale
  <2>2. QED
    BY <2>1, <1>4, <1>t, <1>g DEF SelectStale
<1>5. ASSUME NEW i \in Uploads, SweepBytes(i) \/ SweepRow(i) \/ ReapBytes(i) \/ ReapRow(i)
      PROVE  StoreTypeOK'
  BY <1>5, <1>t, <1>g DEF SweepBytes, SweepRow, ReapBytes, ReapRow
<1>6. CASE CleanerDies
  <2>1. Nothing \in [Uploads -> Puts \cup {NoRow}]
    BY DEF Nothing
  <2>2. QED
    BY <2>1, <1>6, <1>t, <1>g DEF CleanerDies
<1>7. CASE ReadRows
  <2> DEFINE keys == {row[i].key : i \in {j \in Uploads : row[j] /= NoRow}}
  <2>1. keys \subseteq Puts
    BY <1>r
  <2>2. eraser' = [pc |-> "bytes", keys |-> keys]
    BY <1>7 DEF ReadRows
  <2> HIDE DEF keys
  <2>3. QED
    BY <2>1, <2>2, <1>7, <1>t, <1>g DEF ReadRows
<1>8. CASE EraseBytes
  BY <1>8, <1>t, <1>g DEF EraseBytes
<1>9. CASE EraseTicket
  BY <1>9, <1>t, <1>g DEF EraseTicket
<1>10. ASSUME NEW i \in Uploads, TokenExpires(i) PROVE StoreTypeOK'
  BY <1>10, <1>t, <1>g DEF TokenExpires
<1>11. ASSUME NEW i \in Uploads, UploadAges(i) PROVE StoreTypeOK'
  <2>1. upload' \in [Uploads -> Upload \cup {NoRow}]
    <3>1. CASE upload[i] /= NoRow /\ upload' = [upload EXCEPT ![i].old = TRUE]
      <4>1. upload' = [upload EXCEPT ![i] = Aged(upload[i])]
        BY <3>1 DEF Aged
      <4>2. Aged(upload[i]) \in Upload
        BY <3>1, <1>u, Written
      <4>3. QED
        BY <4>1, <4>2, <1>t
    <3>2. CASE UNCHANGED upload
      BY <3>2, <1>t
    <3>3. QED
      BY <3>1, <3>2, <1>11 DEF UploadAges
  <2>2. row' \in [Uploads -> Attachment \cup {NoRow}]
    <3>1. CASE row[i] /= NoRow /\ row' = [row EXCEPT ![i].old = TRUE]
      <4>1. row' = [row EXCEPT ![i] = Aged(row[i])]
        BY <3>1 DEF Aged
      <4>2. Aged(row[i]) \in Attachment
        BY <3>1, <1>r, Written
      <4>3. QED
        BY <4>1, <4>2, <1>t
    <3>2. CASE UNCHANGED row
      BY <3>2, <1>t
    <3>3. QED
      BY <3>1, <3>2, <1>11 DEF UploadAges
  <2>3. QED
    BY <2>1, <2>2, <1>11, <1>t, <1>g DEF UploadAges
<1>12. CASE UNCHANGED storeVars
  BY <1>12, <1>t, <1>g DEF storeVars
<1>13. QED
  BY <1>1, <1>2, <1>3, <1>4, <1>5, <1>6, <1>7, <1>8, <1>9, <1>10, <1>11, <1>12 DEF StoreNext

LEMMA StoreTypeInit == StoreInit => StoreTypeOK
<1>1. StoreInit => put \in [Puts -> PutRecord]
  BY SomeUpload DEF StoreInit
<1>2. StoreInit => sweep \in [Uploads -> Puts \cup {NoRow}] /\ reap \in [Uploads -> Puts \cup {NoRow}]
  BY DEF StoreInit, Nothing
<1>3. QED
  BY <1>1, <1>2, TypeOf DEF StoreInit

\* Theorem: whatever the uploads, the PUTs, the replies, the cleanups and the
\* erasure do between each other's statements, every row, key and program point
\* keeps its type.
THEOREM StoreTyped == StoreSpec => []StoreTypeOK
  BY StoreTypeInit, StoreTypeStep, PTL DEF StoreSpec

(***************************************************************************)
(* Keys and bytes.                                                         *)
(***************************************************************************)
\* The rows are the same up to their message, and none loses a claim.
RowsAgree ==
  \A i \in Uploads :
    /\ row'[i] = NoRow <=> row[i] = NoRow
    /\ row[i] /= NoRow => /\ row'[i].key = row[i].key /\ (row'[i].old <=> row[i].old)
                          /\ row[i].claimed => row'[i].claimed

\* Linking and claiming disturb nothing but what the sweep has taken down.
LEMMA AgreeingRowsKeep ==
  ASSUME StoreTypeOK, KeysSound, RowsAgree, Sweeping',
         UNCHANGED <<expired, upload, objects, put, reap>>
  PROVE  KeysSound'
<1> USE DEF RowsAgree, KeysSound
<1>1. RowsInserted' /\ KeysDiffer'
  BY DEF RowsInserted, InsertedBy, KeysDiffer
<1>2. UploadsReserved' /\ Reaping'
  BY DEF UploadsReserved, Reaping, ReservedBy
<1>3. OldIsExpired' /\ LooksInTime'
  BY DEF OldIsExpired, LooksInTime
<1>4. Holders' /\ BytesStored'
  BY DEF Holders, Has, BytesStored
<1>5. Leavers'
  <2>1. \A p \in Puts : put[p].id \in Uploads
    BY DEF StoreTypeOK
  <2>2. QED
    BY <2>1 DEF Leavers, Has
<1>6. VisibleStored'
  BY DEF VisibleStored, Visible
<1>7. QED
  BY <1>1, <1>2, <1>3, <1>4, <1>5, <1>6

LEMMA FileKeysStep ==
  ASSUME StoreTypeOK, KeysSound, Open', [StoreNext]_storeVars
  PROVE  KeysSound'
<1> USE DEF database, cleaners
<1>t. /\ upload \in [Uploads -> Upload \cup {NoRow}]
      /\ row \in [Uploads -> Attachment \cup {NoRow}]
      /\ objects \subseteq Puts
      /\ put \in [Puts -> PutRecord]
      /\ sweep \in [Uploads -> Puts \cup {NoRow}] /\ reap \in [Uploads -> Puts \cup {NoRow}]
  BY TypeOf
<1>i. \A p \in Puts : put[p].id \in Uploads
  BY <1>t DEF PutRecord
<1>n. NoRow \notin Puts /\ NoRow \notin Upload /\ NoRow \notin Attachment
  BY RowFacts
<1>r. \A i \in Uploads : row[i] /= NoRow => row[i] \in Attachment /\ row[i].key \in Puts
  BY RowFacts
<1>u. \A i \in Uploads : upload[i] /= NoRow => upload[i] \in Upload /\ upload[i].key \in Puts
  BY RowFacts
<1>m. ASSUME NEW p \in Puts, NEW pc \in PutPoints, To(p, pc)
      PROVE  /\ put' \in [Puts -> PutRecord] /\ put'[p].pc = pc
             /\ pc /= "over" => put'[p].id = put[p].id
             /\ \A q \in Puts \ {p} : put'[q] = put[q]
  BY <1>t, <1>m, PutMoves
<1>1. ASSUME NEW p \in Puts, PutStep(p) PROVE KeysSound'
  <2>1. ASSUME NEW i \in Uploads, StartPut(p, i) PROVE KeysSound'
    <3>1. /\ put'[p].pc = "look" /\ put'[p].id = i /\ put[p].pc = "idle" /\ i \notin expired
          /\ \A q \in Puts \ {p} : put'[q] = put[q]
          /\ UNCHANGED <<expired, upload, row, objects, sweep, reap>>
      BY <2>1, <1>t DEF StartPut
    <3>2. RowsInserted' /\ KeysDiffer' /\ OldIsExpired' /\ VisibleStored' /\ Sweeping'
      BY <3>1, <1>r DEF KeysSound, RowsInserted, InsertedBy, KeysDiffer, OldIsExpired, VisibleStored, Visible,
                  Sweeping
    <3>3. UploadsReserved' /\ Reaping'
      BY <3>1, <1>t, <1>u DEF KeysSound, UploadsReserved, ReservedBy, Reaping
    <3>4. LooksInTime' /\ Holders' /\ Leavers' /\ BytesStored'
      BY <3>1 DEF KeysSound, LooksInTime, Holders, Leavers, Has, BytesStored
    <3>5. QED
      BY <3>2, <3>3, <3>4 DEF KeysSound
  <2>2. CASE Look(p)
    <3> PICK pc \in {"over", "reserve"} : To(p, pc)
      BY <2>2 DEF Look
    <3>1. /\ put'[p].pc = pc /\ put[p].pc = "look" /\ (pc /= "over" => put'[p].id = put[p].id)
          /\ \A q \in Puts \ {p} : put'[q] = put[q]
          /\ UNCHANGED <<expired, upload, row, objects, sweep, reap>>
      BY <2>2, <1>m DEF Look, PutPoints
    <3>2. RowsInserted' /\ KeysDiffer' /\ OldIsExpired' /\ VisibleStored' /\ Sweeping'
      BY <3>1, <1>r DEF KeysSound, RowsInserted, InsertedBy, KeysDiffer, OldIsExpired, VisibleStored, Visible,
                  Sweeping
    <3>3. UploadsReserved' /\ Reaping'
      BY <3>1, <1>t, <1>u DEF KeysSound, UploadsReserved, ReservedBy, Reaping
    <3>4. LooksInTime' /\ Holders' /\ Leavers' /\ BytesStored'
      BY <3>1 DEF KeysSound, LooksInTime, Holders, Leavers, Has, BytesStored
    <3>5. QED
      BY <3>2, <3>3, <3>4 DEF KeysSound
  <2>3. CASE Reserve(p)
    <3> DEFINE i == put[p].id
    <3>0. i \in Uploads /\ i \notin expired /\ put[p].pc = "reserve"
      BY <2>3, <1>i DEF Reserve, KeysSound, LooksInTime
    <3>1. CASE upload[i] = NoRow
      <4>1. /\ put'[p].pc = "store" /\ put'[p].id = i
            /\ \A q \in Puts \ {p} : put'[q] = put[q]
            /\ UNCHANGED <<expired, row, objects, sweep, reap>>
        BY <2>3, <3>1, <1>m DEF Reserve, PutPoints
      <4>2. /\ upload'[i] /= NoRow /\ upload'[i].key = p /\ ~upload'[i].old
            /\ \A j \in Uploads \ {i} : upload'[j] = upload[j]
        <5>1. upload' = [upload EXCEPT ![i] = NewReservation(p)]
          BY <2>3, <3>1 DEF Reserve, NewReservation
        <5>2. QED
          BY <5>1, <3>0, <1>t, <1>n, Written
      <4>3. RowsInserted' /\ KeysDiffer' /\ VisibleStored' /\ Sweeping'
        BY <3>0, <4>1, <1>r DEF KeysSound, RowsInserted, InsertedBy, KeysDiffer, VisibleStored, Visible,
                    Sweeping
      <4>4. OldIsExpired' /\ LooksInTime'
        BY <3>0, <4>1, <4>2 DEF KeysSound, OldIsExpired, LooksInTime
      <4>5. UploadsReserved'
        BY <3>0, <4>1, <4>2, <1>u DEF KeysSound, UploadsReserved, ReservedBy, RowsInserted, InsertedBy
      <4>6. Reaping'
        BY <3>0, <4>1, <4>2, <1>t DEF KeysSound, ReservedBy, Reaping
      <4>7. Holders' /\ Leavers'
        BY <3>0, <3>1, <4>1, <4>2, <1>i, <1>n DEF KeysSound, Holders, Leavers, Has
      <4>8. BytesStored'
        BY <3>0, <3>1, <4>1, <4>2, <1>i DEF KeysSound, Holders, Has, BytesStored
      <4>9. QED
        BY <4>3, <4>4, <4>5, <4>6, <4>7, <4>8 DEF KeysSound
    <3>2. CASE upload[i] /= NoRow
      <4>1. /\ put'[p].pc = "over" /\ \A q \in Puts \ {p} : put'[q] = put[q]
            /\ UNCHANGED <<expired, upload, row, objects, sweep, reap>>
        BY <2>3, <3>2, <1>m DEF Reserve, PutPoints
      <4>2. RowsInserted' /\ KeysDiffer' /\ OldIsExpired' /\ VisibleStored' /\ Sweeping'
        BY <3>0, <4>1, <1>r DEF KeysSound, RowsInserted, InsertedBy, KeysDiffer, OldIsExpired, VisibleStored,
                    Visible, Sweeping
      <4>3. UploadsReserved' /\ Reaping'
        BY <3>0, <4>1, <1>t, <1>u DEF KeysSound, UploadsReserved, ReservedBy, Reaping
      <4>4. LooksInTime' /\ Holders' /\ Leavers' /\ BytesStored'
        BY <4>1 DEF KeysSound, LooksInTime, Holders, Leavers, Has, BytesStored
      <4>5. QED
        BY <4>2, <4>3, <4>4 DEF KeysSound
    <3>3. QED
      BY <3>1, <3>2
  <2>4. ASSUME NEW stored \in BOOLEAN, NEW threw \in BOOLEAN, Store(p, stored, threw)
        PROVE  KeysSound'
    <3> DEFINE pc == IF threw THEN "catch" ELSE "insert"
    <3>1. /\ put'[p].pc = pc /\ put'[p].id = put[p].id /\ put[p].pc = "store"
          /\ \A q \in Puts \ {p} : put'[q] = put[q]
          /\ objects \subseteq objects' /\ (pc = "insert" => p \in objects')
          /\ pc \in {"catch", "insert"}
          /\ UNCHANGED <<expired, upload, row, sweep, reap>>
      BY <2>4, <1>m DEF Store, PutPoints
    <3> HIDE DEF pc
    <3>2. RowsInserted' /\ KeysDiffer' /\ OldIsExpired' /\ VisibleStored' /\ Sweeping'
      BY <3>1, <1>r DEF KeysSound, RowsInserted, InsertedBy, KeysDiffer, OldIsExpired, VisibleStored, Visible,
                  Sweeping
    <3>3. UploadsReserved' /\ Reaping'
      BY <3>1, <1>t, <1>u DEF KeysSound, UploadsReserved, ReservedBy, Reaping
    <3>4. LooksInTime' /\ Holders' /\ Leavers' /\ BytesStored'
      BY <3>1 DEF KeysSound, LooksInTime, Holders, Leavers, Has, BytesStored
    <3>5. QED
      BY <3>2, <3>3, <3>4 DEF KeysSound
  <2>5. ASSUME NEW lost \in BOOLEAN, Insert(p, lost) PROVE KeysSound'
    <3> DEFINE i == put[p].id
               pc == IF Fits(i) /\ ~lost THEN "over" ELSE "catch"
    <3>0. /\ i \in Uploads /\ i = put[p].id /\ put[p].pc = "insert" /\ pc \in {"over", "catch"}
          /\ put'[p].pc = pc /\ (pc = "catch" => put'[p].id = i)
          /\ \A q \in Puts \ {p} : put'[q] = put[q]
          /\ UNCHANGED <<expired, objects, sweep, reap>>
      BY <2>5, <1>i, <1>m DEF Insert, PutPoints
    <3>h. Has(p, i) \/ (i \in expired /\ upload[i] = NoRow)
      BY <3>0 DEF KeysSound, Holders
    <3>u. /\ \A j \in Uploads \ {i} : upload'[j] = upload[j]
          /\ upload'[i] = IF Rejected(i) THEN upload[i] ELSE NoRow
      BY <2>5, <3>0, <1>t DEF Insert
    <3>1. CASE Fits(i)
      <4>1. /\ upload[i] /= NoRow /\ upload[i].key = p /\ ~upload[i].old /\ row[i] = NoRow
            /\ upload'[i] = NoRow
        BY <3>h, <3>1, <3>u DEF Fits, Has, Rejected
      <4>2. row' = [row EXCEPT ![i] = NewAttachment(p)]
        BY <2>5, <3>1, <4>1 DEF Insert, NewAttachment
      <4>3. /\ row'[i] /= NoRow /\ row'[i].key = p /\ ~row'[i].old
            /\ \A j \in Uploads \ {i} : row'[j] = row[j]
        BY <4>2, <3>0, <1>t, <1>n, Written
      <4>4. \A j \in Uploads : row[j] /= NoRow => row[j].key /= p
        BY <3>0 DEF KeysSound, RowsInserted, InsertedBy
      <4> HIDE DEF i, pc
      <4>5. RowsInserted' /\ KeysDiffer'
        BY <3>0, <4>3, <4>4, <1>r DEF KeysSound, RowsInserted, InsertedBy, KeysDiffer
      <4>6. UploadsReserved'
        <5>1. ASSUME NEW j \in Uploads, upload'[j] /= NoRow PROVE ReservedBy(upload[j].key, j)'
          <6>1. j /= i /\ upload'[j] = upload[j] /\ upload[j] /= NoRow
            BY <5>1, <4>1, <3>u
          <6>2. PICK q \in Puts : q = upload[j].key
            BY <6>1, <1>u
          <6>3. ReservedBy(q, j)
            BY <6>1, <6>2 DEF KeysSound, UploadsReserved
          <6>4. q /= p
            BY <6>1, <6>3, <3>0 DEF ReservedBy
          <6>5. ReservedBy(q, j)'
            BY <6>3, <6>4, <3>0, <4>3 DEF ReservedBy
          <6>6. QED
            BY <6>1, <6>2, <6>5
        <5>2. QED
          BY <5>1 DEF UploadsReserved
      <4>7. OldIsExpired' /\ LooksInTime'
        BY <3>0, <3>u, <4>1, <4>3 DEF KeysSound, OldIsExpired, LooksInTime
      <4>8. Holders' /\ BytesStored'
        BY <3>0, <3>u, <4>1, <1>i, <1>n DEF KeysSound, Holders, Has, BytesStored
      <4>9. Leavers'
        BY <3>0, <3>u, <4>1, <4>3, <1>i, <1>n DEF KeysSound, Leavers, Has
      <4>10. Sweeping'
        BY <3>0, <4>1, <4>3 DEF KeysSound, Sweeping
      <4>11. Reaping'
        <5>1. ASSUME NEW j \in Uploads, reap[j] /= NoRow
              PROVE  /\ j \in expired' /\ ReservedBy(reap[j], j)'
                     /\ upload'[j] /= NoRow => upload'[j].old
          <6>1. PICK q \in Puts : q = reap[j]
            BY <5>1, <1>t
          <6>2. j \in expired /\ ReservedBy(q, j) /\ (upload[j] /= NoRow => upload[j].old)
            BY <5>1, <6>1 DEF KeysSound, Reaping
          <6>3. q /= p
            BY <6>2, <3>0, <4>1 DEF ReservedBy
          <6>4. ReservedBy(q, j)'
            BY <6>2, <6>3, <3>0, <4>3 DEF ReservedBy
          <6>5. QED
            BY <6>1, <6>2, <6>4, <3>0, <3>u, <4>1
        <5>2. QED
          BY <5>1, <3>0 DEF Reaping
      <4>12. VisibleStored'
        BY <3>0, <4>1, <4>3 DEF KeysSound, VisibleStored, Visible, BytesStored
      <4>13. QED
        BY <4>5, <4>6, <4>7, <4>8, <4>9, <4>10, <4>11, <4>12 DEF KeysSound
    <3>2. CASE ~Fits(i)
      <4>1. row' = row /\ pc = "catch"
        BY <2>5, <3>2 DEF Insert
      <4>e. (upload'[i] /= NoRow /\ upload'[i].key = p) \/ i \in expired
        BY <3>h, <3>u, <3>2, <3>0, <1>n DEF Has, Fits, Rejected, KeysSound, OldIsExpired
      <4> HIDE DEF i, pc
      <4>2. RowsInserted' /\ KeysDiffer' /\ VisibleStored' /\ Sweeping'
        BY <3>0, <4>1, <1>r DEF KeysSound, RowsInserted, InsertedBy, KeysDiffer, VisibleStored, Visible,
                    Sweeping
      <4>3. OldIsExpired' /\ LooksInTime'
        BY <3>0, <3>u, <4>1 DEF KeysSound, OldIsExpired, LooksInTime
      <4>4. UploadsReserved' /\ Reaping'
        BY <3>0, <3>u, <4>1, <1>t, <1>u DEF KeysSound, UploadsReserved, ReservedBy, Reaping
      <4>5. Holders'
        BY <3>0, <3>u, <3>h, <4>1, <1>i, <1>n DEF KeysSound, Holders, Has
      <4>6. Leavers'
        BY <3>0, <3>u, <3>h, <4>1, <4>e, <1>i, <1>n DEF KeysSound, Leavers, Has
      <4>7. BytesStored'
        BY <3>0, <3>u, <1>i DEF KeysSound, BytesStored
      <4>8. QED
        BY <4>2, <4>3, <4>4, <4>5, <4>6, <4>7 DEF KeysSound
    <3>3. QED
      BY <3>1, <3>2
  <2>6. CASE Catch(p)
    <3> DEFINE i == put[p].id
               mine == row[i] /= NoRow /\ row[i].key = p
               pc == IF mine THEN "over" ELSE "undo"
    <3>1. /\ put'[p].pc = pc /\ put[p].pc = "catch" /\ (pc /= "over" => put'[p].id = i)
          /\ \A q \in Puts \ {p} : put'[q] = put[q]
          /\ UNCHANGED <<expired, upload, row, objects, sweep, reap>>
          /\ i \in Uploads /\ pc \in {"over", "undo"} /\ (pc = "undo" => ~mine)
      BY <2>6, <1>m, <1>i DEF Catch, PutPoints
    <3> HIDE DEF pc
    <3>2. RowsInserted'
      BY <3>1, <1>r DEF KeysSound, RowsInserted, InsertedBy
    <3> HIDE DEF i
    <3>3. KeysDiffer' /\ OldIsExpired' /\ VisibleStored' /\ Sweeping'
      BY <3>1 DEF KeysSound, KeysDiffer, OldIsExpired, VisibleStored, Visible, Sweeping
    <3>4. UploadsReserved' /\ Reaping'
      BY <3>1, <1>t, <1>u DEF KeysSound, UploadsReserved, ReservedBy, Reaping, i
    <3>5. LooksInTime' /\ Holders' /\ Leavers' /\ BytesStored'
      BY <3>1 DEF KeysSound, LooksInTime, Holders, Leavers, Has, BytesStored, i
    <3>6. QED
      BY <3>2, <3>3, <3>4, <3>5 DEF KeysSound
  <2>7. CASE UndoBytes(p)
    <3>1. /\ put'[p].pc = "unreserve" /\ put[p].pc = "undo" /\ put'[p].id = put[p].id
          /\ \A q \in Puts \ {p} : put'[q] = put[q]
          /\ UNCHANGED <<expired, upload, row, sweep, reap>>
          /\ objects' = objects \ {p}
      BY <2>7, <1>m DEF UndoBytes, PutPoints
    <3>2. RowsInserted' /\ VisibleStored'
      BY <3>1, <1>r DEF KeysSound, RowsInserted, InsertedBy, VisibleStored, Visible
    <3>3. KeysDiffer' /\ OldIsExpired' /\ Sweeping'
      BY <3>1 DEF KeysSound, KeysDiffer, OldIsExpired, Sweeping
    <3>4. UploadsReserved' /\ Reaping'
      BY <3>1, <1>t, <1>u DEF KeysSound, UploadsReserved, ReservedBy, Reaping
    <3>5. LooksInTime' /\ Holders' /\ Leavers' /\ BytesStored'
      BY <3>1 DEF KeysSound, LooksInTime, Holders, Leavers, Has, BytesStored
    <3>6. QED
      BY <3>2, <3>3, <3>4, <3>5 DEF KeysSound
  <2>8. CASE Unreserve(p)
    <3> DEFINE i == put[p].id
    <3>1. /\ put'[p].pc = "over" /\ put[p].pc = "unreserve" /\ i \in Uploads /\ i = put[p].id
          /\ \A q \in Puts \ {p} : put'[q] = put[q]
          /\ UNCHANGED <<expired, row, objects, sweep, reap>>
          /\ upload'[i] = NoRow /\ \A j \in Uploads \ {i} : upload'[j] = upload[j]
      BY <2>8, <1>m, <1>i, <1>t DEF Unreserve, PutPoints
    <3>h. Has(p, i) \/ i \in expired
      BY <3>1 DEF KeysSound, Leavers
    <3> HIDE DEF i
    <3>2. RowsInserted' /\ KeysDiffer' /\ VisibleStored' /\ Sweeping'
      BY <3>1, <1>r DEF KeysSound, RowsInserted, InsertedBy, KeysDiffer, VisibleStored, Visible, Sweeping
    <3>3. OldIsExpired' /\ LooksInTime' /\ BytesStored'
      BY <3>1, <1>i DEF KeysSound, OldIsExpired, LooksInTime, BytesStored
    <3>4. UploadsReserved' /\ Reaping'
      BY <3>1, <1>t, <1>u DEF KeysSound, UploadsReserved, ReservedBy, Reaping
    <3>5. Holders'
      BY <3>1, <3>h, <1>i, <1>n DEF KeysSound, Holders, Has
    <3>6. Leavers'
      BY <3>1, <3>h, <1>i, <1>n DEF KeysSound, Leavers, Has
    <3>7. QED
      BY <3>2, <3>3, <3>4, <3>5, <3>6 DEF KeysSound
  <2>9. CASE PutDies(p)
    <3>1. /\ put'[p].pc = "over" /\ put[p].pc \notin {"idle", "over"}
          /\ \A q \in Puts \ {p} : put'[q] = put[q]
          /\ UNCHANGED <<expired, upload, row, objects, sweep, reap>>
      BY <2>9, <1>m DEF PutDies, PutPoints
    <3>2. RowsInserted' /\ KeysDiffer' /\ OldIsExpired' /\ VisibleStored' /\ Sweeping'
      BY <3>1, <1>r DEF KeysSound, RowsInserted, InsertedBy, KeysDiffer, OldIsExpired, VisibleStored, Visible,
                  Sweeping
    <3>3. UploadsReserved' /\ Reaping'
      <4>1. \A q \in Puts, j \in Uploads : ReservedBy(q, j) => ReservedBy(q, j)'
        BY <3>1, <1>t, <2>9 DEF ReservedBy, PutDies
      <4>2. QED
        BY <3>1, <4>1, <1>t, <1>u DEF KeysSound, UploadsReserved, Reaping
    <3>4. LooksInTime' /\ Holders' /\ Leavers' /\ BytesStored'
      BY <3>1 DEF KeysSound, LooksInTime, Holders, Leavers, Has, BytesStored
    <3>5. QED
      BY <3>2, <3>3, <3>4 DEF KeysSound
  <2>10. QED
    BY <1>1, <2>1, <2>2, <2>3, <2>4, <2>5, <2>6, <2>7, <2>8, <2>9 DEF PutStep
<1>2. ASSUME NEW r \in Replies, ReplyStep(r) PROVE KeysSound'
  <2>1. CASE InsertMessage(r) \/ ReplyDies(r)
    <3>1. RowsAgree /\ Sweeping' /\ UNCHANGED <<expired, upload, objects, put, reap>>
      BY <2>1 DEF RowsAgree, InsertMessage, ReplyDies, KeysSound, Sweeping
    <3>2. QED
      BY <3>1, AgreeingRowsKeep
  <2>2. CASE ClaimAttachments(r)
    <3> DEFINE taken == {i \in Wanted[r] : Linkable(i)}
    <3>1. \A i \in Uploads : row'[i] = IF i \in taken THEN Linked(row[i], r) ELSE row[i]
      BY <2>2 DEF ClaimAttachments, Linked
    <3>2. \A i \in taken : row[i] /= NoRow
      BY DEF Linkable, Visible
    <3> HIDE DEF taken
    <3>3. RowsAgree
      BY <3>1, <3>2, <1>r, <1>n, Written DEF RowsAgree
    <3>4. Sweeping' /\ UNCHANGED <<expired, upload, objects, put, reap>>
      BY <3>3, <2>2 DEF RowsAgree, ClaimAttachments, KeysSound, Sweeping
    <3>5. QED
      BY <3>3, <3>4, AgreeingRowsKeep
  <2>3. CASE Unwind(r)
    <3> DEFINE page == {i \in Uploads : row[i] /= NoRow /\ row[i].message = r}
    <3>1. \A i \in Uploads :
            row'[i] = IF i \in page THEN Linked(row[i], NoMessage) ELSE row[i]
      BY <2>3 DEF Unwind, Linked
    <3>2. \A i \in page : row[i] /= NoRow
      OBVIOUS
    <3> HIDE DEF page
    <3>3. RowsAgree
      BY <3>1, <3>2, <1>r, <1>n, Written DEF RowsAgree
    <3>4. Sweeping' /\ UNCHANGED <<expired, upload, objects, put, reap>>
      BY <3>3, <2>3 DEF RowsAgree, Unwind, KeysSound, Sweeping
    <3>5. QED
      BY <3>3, <3>4, AgreeingRowsKeep
  <2>4. QED
    BY <1>2, <2>1, <2>2, <2>3 DEF ReplyStep
<1>3. ASSUME NEW page \in SUBSET Uploads, ClaimAbandoned(page) PROVE KeysSound'
  <2>1. \A i \in Uploads :
          row'[i] = IF i \in page THEN Claimed(row[i]) ELSE row[i]
    BY <1>3 DEF ClaimAbandoned, Claimed
  <2>2. \A i \in page : row[i] /= NoRow /\ row[i].old
    BY <1>3 DEF ClaimAbandoned, Abandoned
  <2>3. RowsAgree
    BY <2>1, <2>2, <1>r, <1>n, Written DEF RowsAgree
  <2>4. Sweeping'
    <3>1. \A i \in Uploads : sweep'[i] /= NoRow => i \in page /\ sweep'[i] = row[i].key
      BY <1>3 DEF ClaimAbandoned
    <3>2. \A i \in page : i \in Uploads /\ row'[i] /= NoRow /\ row'[i].key = row[i].key /\ row'[i].claimed
      BY <2>1, <2>2, <1>r, <1>n, Written
    <3>3. QED
      BY <3>1, <3>2, <2>2, <1>3 DEF KeysSound, OldIsExpired, Sweeping, ClaimAbandoned
  <2>5. UNCHANGED <<expired, upload, objects, put, reap>>
    BY <1>3 DEF ClaimAbandoned
  <2>6. QED
    BY <2>3, <2>4, <2>5, AgreeingRowsKeep
<1>4. ASSUME NEW page \in SUBSET Uploads, SelectStale(page) PROVE KeysSound'
  <2>1. \A i \in page : upload[i] /= NoRow /\ upload[i].old
    BY <1>4 DEF SelectStale
  <2>2. \A i \in Uploads : reap'[i] /= NoRow => i \in page /\ reap'[i] = upload[i].key
    BY <1>4 DEF SelectStale
  <2>3. UNCHANGED <<expired, upload, row, objects, put, sweep>>
    BY <1>4 DEF SelectStale
  <2>4. Reaping'
    BY <2>1, <2>2, <2>3 DEF KeysSound, Reaping, ReservedBy, UploadsReserved, OldIsExpired
  <2>5. UploadsReserved' /\ Sweeping' /\ RowsInserted' /\ KeysDiffer' /\ OldIsExpired'
    BY <2>3 DEF KeysSound, UploadsReserved, ReservedBy, Sweeping, RowsInserted, InsertedBy, KeysDiffer,
                OldIsExpired
  <2>6. LooksInTime' /\ Holders' /\ Leavers' /\ BytesStored' /\ VisibleStored'
    BY <2>3 DEF KeysSound, LooksInTime, Holders, Leavers, Has, BytesStored, VisibleStored, Visible
  <2>7. QED
    BY <2>4, <2>5, <2>6 DEF KeysSound
<1>5. ASSUME NEW i \in Uploads, SweepBytes(i) PROVE KeysSound'
  <2>1. /\ sweep[i] \in Puts /\ sweep[i] /= NoRow /\ objects' = objects \ {sweep[i]}
        /\ UNCHANGED <<expired, upload, row, put, sweep, reap>>
    BY <1>5, <1>t, <1>n DEF SweepBytes
  <2>2. row[i] /= NoRow /\ row[i].key = sweep[i] /\ row[i].claimed
    BY <2>1 DEF KeysSound, Sweeping
  <2>3. UploadsReserved' /\ Sweeping' /\ RowsInserted' /\ KeysDiffer' /\ OldIsExpired' /\ Reaping'
    BY <2>1 DEF KeysSound, UploadsReserved, ReservedBy, Sweeping, RowsInserted, InsertedBy, KeysDiffer,
                OldIsExpired, Reaping
  <2>4. LooksInTime' /\ Holders' /\ Leavers'
    BY <2>1 DEF KeysSound, LooksInTime, Holders, Leavers, Has
  <2>5. BytesStored'
    BY <2>1, <2>2 DEF KeysSound, BytesStored, RowsInserted, InsertedBy
  <2>6. VisibleStored'
    BY <2>1, <2>2 DEF KeysSound, KeysDiffer, VisibleStored, Visible
  <2>7. QED
    BY <2>3, <2>4, <2>5, <2>6 DEF KeysSound
<1>6. ASSUME NEW i \in Uploads, SweepRow(i) PROVE KeysSound'
  <2>1. /\ sweep[i] /= NoRow /\ sweep'[i] = NoRow
        /\ \A j \in Uploads \ {i} : row'[j] = row[j] /\ sweep'[j] = sweep[j]
        /\ row'[i] = NoRow \/ row'[i] = row[i]
        /\ UNCHANGED <<expired, upload, objects, put, reap>>
    BY <1>6, <1>t DEF SweepRow
  <2>2. i \in expired
    BY <2>1 DEF KeysSound, Sweeping
  <2>3. Sweeping'
    BY <2>1 DEF KeysSound, Sweeping
  <2>4. RowsInserted' /\ KeysDiffer' /\ OldIsExpired' /\ LooksInTime'
    BY <2>1 DEF KeysSound, RowsInserted, InsertedBy, KeysDiffer, OldIsExpired, LooksInTime
  <2>5. UploadsReserved' /\ Reaping'
    BY <2>1 DEF KeysSound, UploadsReserved, ReservedBy, Reaping
  <2>6. Holders' /\ BytesStored' /\ VisibleStored'
    BY <2>1 DEF KeysSound, Holders, Has, BytesStored, VisibleStored, Visible
  <2>7. Leavers'
    BY <2>1, <2>2, <1>i DEF KeysSound, Leavers, Has
  <2>8. QED
    BY <2>3, <2>4, <2>5, <2>6, <2>7 DEF KeysSound
<1>7. ASSUME NEW i \in Uploads, ReapBytes(i) PROVE KeysSound'
  <2>1. /\ reap[i] \in Puts /\ reap[i] /= NoRow /\ objects' = objects \ {reap[i]}
        /\ UNCHANGED <<expired, upload, row, put, sweep, reap>>
    BY <1>7, <1>t, <1>n DEF ReapBytes
  <2>2. ReservedBy(reap[i], i) /\ (upload[i] /= NoRow => upload[i].old)
    BY <2>1 DEF KeysSound, Reaping
  <2>3. UploadsReserved' /\ Sweeping' /\ RowsInserted' /\ KeysDiffer' /\ OldIsExpired' /\ Reaping'
    BY <2>1 DEF KeysSound, UploadsReserved, ReservedBy, Sweeping, RowsInserted, InsertedBy, KeysDiffer,
                OldIsExpired, Reaping
  <2>4. LooksInTime' /\ Holders' /\ Leavers'
    BY <2>1 DEF KeysSound, LooksInTime, Holders, Leavers, Has
  <2>5. BytesStored' /\ VisibleStored'
    BY <2>1, <2>2 DEF KeysSound, BytesStored, ReservedBy, VisibleStored, Visible
  <2>6. QED
    BY <2>3, <2>4, <2>5 DEF KeysSound
<1>8. ASSUME NEW i \in Uploads, ReapRow(i) PROVE KeysSound'
  <2>1. /\ reap[i] /= NoRow /\ reap'[i] = NoRow /\ upload'[i] = NoRow
        /\ \A j \in Uploads \ {i} : upload'[j] = upload[j] /\ reap'[j] = reap[j]
        /\ UNCHANGED <<expired, row, objects, put, sweep>>
    BY <1>8, <1>t DEF ReapRow
  <2>2. i \in expired
    BY <2>1 DEF KeysSound, Reaping
  <2>3. RowsInserted' /\ KeysDiffer' /\ LooksInTime' /\ VisibleStored' /\ Sweeping'
    BY <2>1 DEF KeysSound, RowsInserted, InsertedBy, KeysDiffer, LooksInTime, VisibleStored, Visible, Sweeping
  <2>4. UploadsReserved' /\ Reaping' /\ OldIsExpired'
    BY <2>1 DEF KeysSound, UploadsReserved, ReservedBy, Reaping, OldIsExpired
  <2>5. Holders' /\ Leavers' /\ BytesStored'
    BY <2>1, <2>2, <1>i DEF KeysSound, Holders, Leavers, Has, BytesStored
  <2>6. QED
    BY <2>3, <2>4, <2>5 DEF KeysSound
<1>9. CASE CleanerDies
  <2>1. /\ \A i \in Uploads : sweep'[i] /= NoRow => sweep'[i] = sweep[i]
        /\ \A i \in Uploads : reap'[i] /= NoRow => reap'[i] = reap[i]
        /\ UNCHANGED <<expired, upload, row, objects, put>>
    BY <1>9 DEF CleanerDies, Nothing
  <2>2. RowsInserted' /\ KeysDiffer' /\ LooksInTime' /\ VisibleStored' /\ Sweeping'
    BY <2>1 DEF KeysSound, RowsInserted, InsertedBy, KeysDiffer, LooksInTime, VisibleStored, Visible, Sweeping
  <2>3. UploadsReserved' /\ Reaping' /\ OldIsExpired'
    BY <2>1 DEF KeysSound, UploadsReserved, ReservedBy, Reaping, OldIsExpired
  <2>4. Holders' /\ Leavers' /\ BytesStored'
    BY <2>1 DEF KeysSound, Holders, Leavers, Has, BytesStored
  <2>5. QED
    BY <2>2, <2>3, <2>4 DEF KeysSound
<1>10. CASE ReadRows
  <2>1. RowsAgree /\ Sweeping' /\ UNCHANGED <<expired, upload, objects, put, reap>>
    BY <1>10 DEF RowsAgree, ReadRows, KeysSound, Sweeping
  <2>2. QED
    BY <2>1, AgreeingRowsKeep
<1>11. CASE EraseBytes \/ EraseTicket
  <2>1. eraser'.pc \in {"ticket", "gone"}
    BY <1>11, TypeOf DEF EraseBytes, EraseTicket
  <2>2. QED
    BY <2>1 DEF Open
<1>12. ASSUME NEW i \in Uploads, TokenExpires(i) PROVE KeysSound'
  <2>1. /\ expired' = expired \cup {i} /\ UNCHANGED <<upload, row, objects, put, sweep, reap>>
        /\ \A p \in Puts : put[p].id = i => put[p].pc \notin {"look", "reserve"}
    BY <1>12 DEF TokenExpires
  <2>2. RowsInserted' /\ KeysDiffer' /\ LooksInTime' /\ VisibleStored' /\ Sweeping'
    BY <2>1 DEF KeysSound, RowsInserted, InsertedBy, KeysDiffer, LooksInTime, VisibleStored, Visible, Sweeping
  <2>3. UploadsReserved' /\ Reaping' /\ OldIsExpired'
    BY <2>1 DEF KeysSound, UploadsReserved, ReservedBy, Reaping, OldIsExpired
  <2>4. Holders' /\ Leavers' /\ BytesStored'
    BY <2>1 DEF KeysSound, Holders, Leavers, Has, BytesStored
  <2>5. QED
    BY <2>2, <2>3, <2>4 DEF KeysSound
<1>13. ASSUME NEW i \in Uploads, UploadAges(i) PROVE KeysSound'
  <2>1. i \in expired /\ UNCHANGED <<expired, objects, put, reply, sweep, reap, eraser>>
    BY <1>13 DEF UploadAges
  <2>2. CASE upload[i] /= NoRow /\ upload' = [upload EXCEPT ![i].old = TRUE] /\ UNCHANGED row
    <3>1. upload' = [upload EXCEPT ![i] = Aged(upload[i])]
      BY <2>2 DEF Aged
    <3>2. /\ upload'[i] /= NoRow /\ upload'[i].key = upload[i].key /\ upload'[i].old
          /\ \A j \in Uploads \ {i} : upload'[j] = upload[j]
      BY <3>1, <2>2, <1>t, <1>u, <1>n, Written
    <3>3. RowsInserted' /\ KeysDiffer' /\ LooksInTime' /\ VisibleStored' /\ Sweeping'
      BY <2>1, <2>2 DEF KeysSound, RowsInserted, InsertedBy, KeysDiffer, LooksInTime, VisibleStored, Visible,
                  Sweeping
    <3>4. UploadsReserved' /\ Reaping' /\ OldIsExpired'
      BY <2>1, <2>2, <3>2 DEF KeysSound, UploadsReserved, ReservedBy, Reaping, OldIsExpired
    <3>5. Holders' /\ Leavers' /\ BytesStored'
      BY <2>1, <2>2, <3>2, <1>i DEF KeysSound, Holders, Leavers, Has, BytesStored
    <3>6. QED
      BY <3>3, <3>4, <3>5 DEF KeysSound
  <2>3. CASE row[i] /= NoRow /\ row' = [row EXCEPT ![i].old = TRUE] /\ UNCHANGED upload
    <3>1. row' = [row EXCEPT ![i] = Aged(row[i])]
      BY <2>3 DEF Aged
    <3>2. /\ row'[i] /= NoRow /\ row'[i].key = row[i].key /\ (row'[i].claimed <=> row[i].claimed)
          /\ \A j \in Uploads \ {i} : row'[j] = row[j]
      BY <3>1, <2>3, <1>t, <1>r, <1>n, Written
    <3>3. RowsInserted' /\ KeysDiffer' /\ LooksInTime' /\ VisibleStored' /\ Sweeping'
      BY <2>1, <2>3, <3>2 DEF KeysSound, RowsInserted, InsertedBy, KeysDiffer, LooksInTime, VisibleStored,
                  Visible, Sweeping
    <3>4. UploadsReserved' /\ Reaping' /\ OldIsExpired'
      BY <2>1, <2>3, <3>2 DEF KeysSound, UploadsReserved, ReservedBy, Reaping, OldIsExpired
    <3>5. Holders' /\ Leavers' /\ BytesStored'
      BY <2>1, <2>3, <3>2, <1>i DEF KeysSound, Holders, Leavers, Has, BytesStored
    <3>6. QED
      BY <3>3, <3>4, <3>5 DEF KeysSound
  <2>4. QED
    BY <1>13, <2>2, <2>3 DEF UploadAges
<1>14. CASE UNCHANGED storeVars
  <2>1. RowsAgree /\ Sweeping' /\ UNCHANGED <<expired, upload, objects, put, reap>>
    BY <1>14 DEF RowsAgree, storeVars, KeysSound, Sweeping
  <2>2. QED
    BY <2>1, AgreeingRowsKeep
<1>15. QED
  BY <1>1, <1>2, <1>3, <1>4, <1>5, <1>6, <1>7, <1>8, <1>9, <1>10, <1>11, <1>12, <1>13, <1>14
  DEF StoreNext

\* The erasure never takes a step back.
LEMMA OpenBefore == StoreTypeOK /\ [StoreNext]_storeVars /\ Open' => Open
<1> SUFFICES ASSUME StoreTypeOK, [StoreNext]_storeVars, Open' PROVE Open
  OBVIOUS
<1>1. CASE UNCHANGED eraser
  BY <1>1 DEF Open
<1>2. CASE ReadRows \/ EraseBytes \/ EraseTicket
  BY <1>2 DEF Open, ReadRows, EraseBytes, EraseTicket, StoreTypeOK
<1>3. QED
  BY <1>1, <1>2 DEF StoreNext, storeVars, cleaners, PutStep, ReplyStep, StartPut, Look, Reserve, Store,
       Insert, Catch, UndoBytes, Unreserve, PutDies, InsertMessage, ClaimAttachments, Unwind, ReplyDies,
       ClaimAbandoned, SelectStale, SweepBytes, SweepRow, ReapBytes, ReapRow, CleanerDies, TokenExpires,
       UploadAges

(***************************************************************************)
(* Replies.                                                                *)
(***************************************************************************)
LEMMA SentStep ==
  ASSUME StoreTypeOK, SentComplete, [StoreNext]_storeVars
  PROVE  SentComplete'
<1> USE DEF database, cleaners
<1> SUFFICES ASSUME TicketLives', NEW s \in Replies, reply'[s] = "sent", NEW w \in Wanted[s]
             PROVE  Visible(w)' /\ row'[w].message = s
  BY DEF SentComplete
<1>w. w \in Uploads
  BY StoreAssumption
<1>t. /\ row \in [Uploads -> Attachment \cup {NoRow}]
      /\ reply \in [Replies -> {"idle", "claim", "unwind", "sent", "refused"}]
      /\ eraser \in [pc : {"idle", "bytes", "ticket", "gone"}, keys : SUBSET Puts]
  BY TypeOf
<1>n. NoRow \notin Attachment /\ NoMessage \notin Replies
  BY RowFacts, StoreAssumption
<1>r. \A i \in Uploads : row[i] /= NoRow => row[i] \in Attachment
  BY RowFacts
<1>k. ASSUME TicketLives, reply[s] = "sent" PROVE Visible(w) /\ row[w].message = s
  BY <1>k DEF SentComplete
<1>1. CASE UNCHANGED <<row, reply, eraser>>
  BY <1>1, <1>k DEF TicketLives, Visible
<1>2. ASSUME NEW p \in Puts, NEW lost \in BOOLEAN, Insert(p, lost)
      PROVE  Visible(w)' /\ row'[w].message = s
  <2>1. Visible(w) /\ row[w].message = s
    BY <1>2, <1>k DEF Insert, TicketLives
  <2>2. row'[w] = row[w]
    <3>1. CASE Fits(put[p].id)
      <4>1. put[p].id /= w
        BY <2>1, <3>1 DEF Fits, Visible
      <4>2. QED
        BY <4>1, <3>1, <1>2, <1>t, <1>w DEF Insert
    <3>2. CASE ~Fits(put[p].id)
      BY <3>2, <1>2 DEF Insert
    <3>3. QED
      BY <3>1, <3>2
  <2>3. QED
    BY <2>1, <2>2 DEF Visible
<1>3. ASSUME NEW r \in Replies, InsertMessage(r) \/ ReplyDies(r)
      PROVE  Visible(w)' /\ row'[w].message = s
  <2>1. reply[s] = "sent" /\ row' = row /\ eraser' = eraser
    BY <1>3, <1>t DEF InsertMessage, ReplyDies
  <2>2. QED
    BY <2>1, <1>k DEF TicketLives, Visible
<1>4. ASSUME NEW r \in Replies, ClaimAttachments(r)
      PROVE  Visible(w)' /\ row'[w].message = s
  <2> DEFINE taken == {i \in Wanted[r] : Linkable(i)}
  <2>1. row'[w] = IF w \in taken THEN Linked(row[w], r) ELSE row[w]
    BY <1>4, <1>w DEF ClaimAttachments, Linked
  <2>2. CASE s = r
    <3>1. w \in taken
      BY <2>2, <1>4, <1>t DEF ClaimAttachments
    <3>2. Visible(w) /\ row[w] \in Attachment
      BY <3>1, <1>r, <1>w DEF Linkable, Visible
    <3> HIDE DEF taken
    <3>3. QED
      BY <3>1, <3>2, <2>1, <2>2, <1>n, Written DEF Visible
  <2>3. CASE s /= r
    <3>1. Visible(w) /\ row[w].message = s
      BY <2>3, <1>4, <1>k, <1>t DEF ClaimAttachments, TicketLives
    <3>2. w \notin taken
      BY <3>1, <1>n DEF Linkable
    <3>3. QED
      BY <3>1, <3>2, <2>1 DEF Visible
  <2>4. QED
    BY <2>2, <2>3
<1>5. ASSUME NEW r \in Replies, Unwind(r)
      PROVE  Visible(w)' /\ row'[w].message = s
  <2>1. s /= r /\ reply[s] = "sent" /\ eraser' = eraser
    BY <1>5, <1>t DEF Unwind
  <2>2. Visible(w) /\ row[w].message = s
    BY <2>1, <1>k DEF TicketLives
  <2>3. row'[w] = row[w]
    BY <2>1, <2>2, <1>5, <1>w DEF Unwind
  <2>4. QED
    BY <2>2, <2>3 DEF Visible
<1>6. ASSUME NEW page \in SUBSET Uploads, ClaimAbandoned(page)
      PROVE  Visible(w)' /\ row'[w].message = s
  <2>1. Visible(w) /\ row[w].message = s
    BY <1>6, <1>k DEF ClaimAbandoned, TicketLives
  <2>2. row'[w] = row[w]
    BY <2>1, <1>6, <1>w, <1>n DEF ClaimAbandoned, Abandoned
  <2>3. QED
    BY <2>1, <2>2 DEF Visible
<1>7. ASSUME NEW i \in Uploads, SweepRow(i)
      PROVE  Visible(w)' /\ row'[w].message = s
  <2>1. Visible(w) /\ row[w].message = s
    BY <1>7, <1>k DEF SweepRow, TicketLives
  <2>2. row'[w] = row[w]
    BY <2>1, <1>7, <1>w, <1>t, <1>n DEF SweepRow, Visible
  <2>3. QED
    BY <2>1, <2>2 DEF Visible
<1>8. CASE ReadRows \/ EraseBytes
  BY <1>8, <1>t, <1>k DEF ReadRows, EraseBytes, TicketLives, Visible
<1>9. CASE EraseTicket
  BY <1>9, <1>t DEF EraseTicket, TicketLives
<1>10. ASSUME NEW i \in Uploads, UploadAges(i)
       PROVE  Visible(w)' /\ row'[w].message = s
  <2>1. Visible(w) /\ row[w].message = s /\ row[w] \in Attachment
    BY <1>10, <1>k, <1>r, <1>w DEF UploadAges, TicketLives, Visible
  <2>2. row'[w] = row[w] \/ row'[w] = Aged(row[w])
    BY <1>10, <1>t, <1>w DEF UploadAges, Aged
  <2>3. QED
    BY <2>1, <2>2, <1>n, Written DEF Visible
<1>11. QED
  BY <1>1, <1>2, <1>3, <1>4, <1>5, <1>6, <1>7, <1>8, <1>9, <1>10
  DEF StoreNext, storeVars, PutStep, ReplyStep, StartPut, Look, Reserve, Store, Catch, UndoBytes, Unreserve,
      PutDies, SelectStale, SweepBytes, ReapBytes, ReapRow, CleanerDies, TokenExpires

(***************************************************************************)
(* What is offered can be read, and what was taken is there.               *)
(***************************************************************************)
LEMMA StoreInvInit == StoreInit => StoreInv
<1> SUFFICES ASSUME StoreInit PROVE StoreInv
  OBVIOUS
<1>1. /\ \A i \in Uploads : upload[i] = NoRow /\ row[i] = NoRow /\ sweep[i] = NoRow /\ reap[i] = NoRow
      /\ \A p \in Puts : put[p].pc = "idle"
      /\ \A r \in Replies : reply[r] = "idle"
  BY SomeUpload DEF StoreInit, Nothing
<1>2. RowsInserted /\ KeysDiffer /\ UploadsReserved /\ OldIsExpired /\ Sweeping /\ Reaping /\ VisibleStored
  BY <1>1 DEF RowsInserted, KeysDiffer, UploadsReserved, OldIsExpired, Sweeping, Reaping, VisibleStored,
              Visible
<1>3. LooksInTime /\ Holders /\ Leavers /\ BytesStored /\ SentComplete
  BY <1>1 DEF LooksInTime, Holders, Leavers, BytesStored, SentComplete
<1>4. QED
  BY <1>2, <1>3, StoreTypeInit DEF StoreInv, FileKeysInv, KeysSound

LEMMA StoreInvStep == StoreInv /\ [StoreNext]_storeVars => StoreInv'
  BY StoreTypeStep, FileKeysStep, OpenBefore, SentStep DEF StoreInv, FileKeysInv

LEMMA StoreInvGivesFiles == StoreInv => FilesWhole
  BY DEF StoreInv, FileKeysInv, KeysSound, Open, VisibleStored, FilesWhole, RowHasBytes

\* Theorem: a file that is offered has its bytes until its ticket is erased, and
\* a reply that was taken keeps every file it named: whatever PUTs of one token
\* overlap, answers get lost, cleanups run beside them and workers die.
THEOREM OfferedFilesAreWhole == StoreSpec => []FilesWhole
  BY StoreInvInit, StoreInvStep, StoreInvGivesFiles, PTL DEF StoreSpec

=============================================================================
