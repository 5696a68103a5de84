------------------------------- MODULE MCUpkeep -------------------------------
(* What administrators and the scheduler look after: stored files, exports,  *)
(* inboxes, articles, the readiness report, the customers' addresses, and    *)
(* the record of one customer.  The parts share no state, so a behavior runs *)
(* one of them; the others stand at one initial state.                       *)
EXTENDS AttachmentStore, WorkspaceExport, Inboxes, KnowledgeBase, Readiness, Directory,
        CustomerExport, TLC

CONSTANTS
  a1, a2, r1, r2, xAddr, yAddr, zAddr, vOrg, wOrg, sup, supTag, SUP, c1, c2, p1, p2

\* Two replies that want one attachment, one of them another as well.
WantedFiles == r1 :> {a1, a2} @@ r2 :> {a1}

\* One workspace, whose two exports may be started at once (the start of an export
\* looks at its own workspace only), with two rows in one table and none in the other.
OwnerOfBackup == p1 :> vOrg @@ p2 :> vOrg
LastRow == vOrg :> <<2, 0>>

\* An address, the same with a tag, and the address in capitals.
MailboxOf == sup :> sup @@ supTag :> supTag @@ SUP :> sup
BareOf == sup :> sup @@ supTag :> sup

\* A customer with two addresses and one with a single address.
AddressBook == xAddr :> <<c1, TRUE>> @@ yAddr :> <<c1, FALSE>> @@ zAddr :> <<c2, TRUE>>

VARIABLE part

mcVars == <<storeVars, exportVars, inboxVars, kbVars, readyVars, directoryVars,
           recordVars, part>>

MCInit ==
  /\ part \in {"store", "export", "inboxes", "articles", "readiness", "directory", "record"}
  /\ StoreInit /\ ExportInit /\ KbInit /\ DirectoryInit
  /\ InboxInit /\ (part /= "inboxes" =>
       inbox = [s \in Spellings |-> NoInbox] /\ support = [o \in Owners |-> NoInbox])
  /\ ReadyInit /\ (part /= "readiness" => faults = {})
  /\ RecordInit /\ (part /= "record" => home = [t \in Threads |-> Nowhere])

MCNext ==
  \/ /\ part = "store" /\ StoreNext
     /\ UNCHANGED <<exportVars, inboxVars, kbVars, readyVars, directoryVars, recordVars, part>>
  \/ /\ part = "export" /\ ExportNext
     /\ UNCHANGED <<storeVars, inboxVars, kbVars, readyVars, directoryVars, recordVars, part>>
  \/ /\ part = "inboxes" /\ InboxNext
     /\ UNCHANGED <<storeVars, exportVars, kbVars, readyVars, directoryVars, recordVars, part>>
  \/ /\ part = "articles" /\ KbNext
     /\ UNCHANGED <<storeVars, exportVars, inboxVars, readyVars, directoryVars, recordVars, part>>
  \/ /\ part = "readiness" /\ ReadyNext
     /\ UNCHANGED <<storeVars, exportVars, inboxVars, kbVars, directoryVars, recordVars, part>>
  \/ /\ part = "directory" /\ DirectoryNext
     /\ UNCHANGED <<storeVars, exportVars, inboxVars, kbVars, readyVars, recordVars, part>>
  \/ /\ part = "record" /\ RecordNext
     /\ UNCHANGED <<storeVars, exportVars, inboxVars, kbVars, readyVars, directoryVars, part>>

MCSpec == MCInit /\ [][MCNext]_mcVars

\* Requests, passes and exports are interchangeable; each part has one of the three.
MCSymmetry == Permutations({p1, p2})

\* Rows, requests, passes and calls have their types.
UpkeepTypeOK ==
  /\ part = "store" => StoreTypeOK
  /\ part = "export" => ExportTypeOK
  /\ part = "inboxes" => InboxTypeOK
  /\ part = "articles" => KbTypeOK
  /\ part = "readiness" => ReadyTypeOK
  /\ part = "directory" => DirectoryTypeOK

\* Exports leave nothing out and take turns: ExportComplete and FairTurns of
\* WorkspaceExport, RecordWhole of CustomerExport.
ExportsWhole == ExportComplete /\ FairTurns /\ RecordWhole
=============================================================================
