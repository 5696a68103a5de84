---------------------------- MODULE CustomerExport ----------------------------
(***************************************************************************)
(* The export of everything stored about one customer.  It reads table by  *)
(* table without a transaction while mail arrives, customers are merged    *)
(* and tickets are erased, and puts the rows together at the end.          *)
(***************************************************************************)
EXTENDS Naturals

CONSTANTS
  Threads,   \* tickets
  Customers,    \* customers
  Subject,   \* the customer exported
  Nowhere    \* the owner of a ticket that does not exist

ASSUME RecordAssumption == Subject \in Customers /\ Nowhere \notin Customers

VARIABLES
  home,    \* tickets.customer_id
  filed,   \* rows of messages, csat_responses and attachments, as <<ticket, table>>
  copy,    \* the export under way: the tickets and rows it has read
  record,  \* the rows of the last answer
  lasting, \* history: rows that were the customer's ever since the export began
  owned    \* history: tickets that were the customer's at some time of it

recordVars == <<home, filed, copy, record, lasting, owned>>

\* The tables in the order they are read, once the tickets are known.
RecordTables == <<"messages", "csat_responses", "attachments">>
RecordTableSet == {RecordTables[i] : i \in 1 .. 3}

NoCopy == [at |-> "idle", next |-> 1, threads |-> {}, rows |-> {}]

RecordInit ==
  /\ home \in [Threads -> Customers \cup {Nowhere}]
  /\ filed = {}
  /\ copy = NoCopy
  /\ record = {} /\ lasting = {} /\ owned = {}

HomeOf(p) == {t \in Threads : home[t] = p}

\* What the workspace does meanwhile, and what is left of the history by it.
Meanwhile(home1, filed1) ==
  /\ home' = home1 /\ filed' = filed1
  /\ lasting' = {x \in lasting : home1[x[1]] = Subject /\ x \in filed1}
  /\ owned' = owned \cup {t \in Threads : home1[t] = Subject}
  /\ UNCHANGED <<copy, record>>

OpenThread(t, p) == home[t] = Nowhere /\ Meanwhile([home EXCEPT ![t] = p], filed)
FileRow(t, table) == home[t] /= Nowhere /\ Meanwhile(home, filed \cup {<<t, table>>})
MergePeople(p, q) == p /= q /\ HomeOf(p) /= {} /\ Meanwhile([t \in Threads |-> IF home[t] = p THEN q ELSE home[t]], filed)
EraseThread(t) == home[t] /= Nowhere /\ Meanwhile([home EXCEPT ![t] = Nowhere], {x \in filed : x[1] /= t})

(***************************************************************************)
(* collectCustomerExport.                                                  *)
(***************************************************************************)
\* The customer and the identities.
BeginExport ==
  /\ copy.at = "idle"
  /\ copy' = [NoCopy EXCEPT !.at = "tickets"]
  /\ lasting' = {x \in filed : home[x[1]] = Subject}
  /\ owned' = HomeOf(Subject)
  /\ UNCHANGED <<home, filed, record>>

ReadThreads ==
  /\ copy.at = "tickets"
  /\ copy' = [copy EXCEPT !.at = "rows", !.threads = HomeOf(Subject)]
  /\ UNCHANGED <<home, filed, record, lasting, owned>>

\* The rows of the tickets read before; none is asked for without a ticket.
ReadTable ==
  /\ copy.at = "rows" /\ copy.next <= 3
  /\ copy' = [copy EXCEPT !.next = @ + 1,
       !.rows = @ \cup {x \in filed : x[1] \in copy.threads /\ x[2] = RecordTables[copy.next]}]
  /\ UNCHANGED <<home, filed, record, lasting, owned>>

AnswerExport ==
  /\ copy.at = "rows" /\ copy.next > 3
  /\ record' = copy.rows
  /\ copy' = [NoCopy EXCEPT !.at = "answered"]
  /\ UNCHANGED <<home, filed, lasting, owned>>

\* The file is downloaded, or a read failed.
ExportEnds ==
  /\ copy.at /= "idle"
  /\ copy' = NoCopy /\ record' = {} /\ lasting' = {} /\ owned' = {}
  /\ UNCHANGED <<home, filed>>

RecordNext ==
  \/ \E t \in Threads :
       \/ EraseThread(t)
       \/ \E p \in Customers : OpenThread(t, p)
       \/ \E table \in RecordTableSet : FileRow(t, table)
  \/ \E p, q \in Customers : MergePeople(p, q)
  \/ BeginExport \/ ReadThreads \/ ReadTable \/ AnswerExport \/ ExportEnds

RecordSpec == RecordInit /\ [][RecordNext]_recordVars

(***************************************************************************)
(* Properties.                                                             *)
(***************************************************************************)
\* An export has every row that was the customer's from its beginning to its end,
\* of every table, and none of a ticket that was somebody else's all the time,
\* whatever is merged, erased and added between two reads.
RecordWhole ==
  copy.at = "answered" => lasting \subseteq record /\ \A x \in record : x[1] \in owned
=============================================================================
