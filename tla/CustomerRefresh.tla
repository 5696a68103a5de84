--------------------------- MODULE CustomerRefresh ---------------------------
(***************************************************************************)
(* The search task of one customer.  Every ticket keeps the customer's     *)
(* name in a column and in the full-text index; after an edit or a merge   *)
(* the maintenance_tasks row search/<organization>/<customer> asks for     *)
(* them to be rewritten, and invocations of processMaintenance do so five  *)
(* tickets at a time.  Edits, new tickets and removals go on meanwhile, the *)
(* queue may repeat, delay or give up a message, and a dead letter may free *)
(* the lease under an invocation that is still running.                    *)
(*                                                                         *)
(* A name is its version.  A deadline column is the fact that it lies in   *)
(* the future.                                                             *)
(***************************************************************************)
EXTENDS Integers, FiniteSets

CONSTANTS
  Tickets,      \* places in the order of ticket ids
  Existing,     \* those with a ticket at the start
  Page,         \* tickets per invocation, five in the code
  MaxAttempts,  \* six in the code
  MaxEdits,     \* bound: edits of the customer
  Consumers,    \* invocations of processMaintenance in flight together
  OldMessage    \* whether the queue holds a message from before generations

ASSUME RefreshAssumption ==
  /\ Tickets \subseteq Nat \ {0} /\ Existing \subseteq Tickets
  /\ Page \in Nat \ {0} /\ MaxAttempts \in Nat \ {0} /\ MaxEdits \in Nat
  /\ OldMessage \in BOOLEAN

VARIABLES
  name,        \* customers.name, as a version
  unrequested, \* edits written whose refresh is still to be requested
  ticket,      \* per id: not there yet, being opened, a row, removed
  text,        \* tickets.normalized_search: the version it was built from
  index,       \* ticket_search.content: the version it was built from
  task,        \* the maintenance_tasks row
  queue,       \* messages on the maintenance queue
  dlq,         \* its dead-letter queue holds a message; nobody reads whose it was
  consumer,    \* per invocation: program counter and local variables
  owed         \* history: the name in force when a refresh of the row was last requested

vars == <<name, unrequested, ticket, text, index, task, queue, dlq, consumer, owed>>
customer == <<name, unrequested, owed>>
tickets == <<ticket, text, index>>
carriers == <<queue, dlq>>

\* Not built yet, not read yet, nothing owed.
Never == -1

Versions == 0..MaxEdits
Generations == 0..MaxEdits

\* A message from before generations were sent carries none.
Legacy == -1
Messages == Generations \cup {Legacy}

\* A NULL cursor is 0.
Cursors == Tickets \cup {0}

Task == [status : {"absent", "pending", "completed", "failed"},
         generation : Generations, cursor : Cursors, attempts : 0..MaxAttempts,
         lease : BOOLEAN, reserved : BOOLEAN, backoff : BOOLEAN]

Fresh == [status |-> "pending", generation |-> 0, cursor |-> 0, attempts |-> 0,
          lease |-> FALSE, reserved |-> FALSE, backoff |-> FALSE]

\* page holds the selected tickets not done yet; full is that there were Page of them.
Invocation ==
  [pc : {"idle", "claimed", "rewrite", "index", "finish", "release", "letter"},
   generation : Generations, cursor : Cursors, attempts : 0..MaxAttempts,
   page : SUBSET Tickets, full : BOOLEAN]

Idle == [pc |-> "idle", generation |-> 0, cursor |-> 0, attempts |-> 0,
         page |-> {}, full |-> FALSE]

Live == {t \in Tickets : ticket[t] = "live"}

Init ==
  /\ name = 0 /\ unrequested = 0
  /\ ticket = [t \in Tickets |-> IF t \in Existing THEN "live" ELSE "new"]
  /\ text = [t \in Tickets |-> IF t \in Existing THEN 0 ELSE Never]
  /\ index = text
  /\ task = [Fresh EXCEPT !.status = "absent"]
  /\ queue = {m \in {Legacy} : OldMessage} /\ dlq = FALSE
  /\ consumer = [c \in Consumers |-> Idle]
  /\ owed = [t \in Tickets |-> Never]

(***************************************************************************)
(* The customer and the tickets.                                           *)
(***************************************************************************)
\* The profile UPDATE of an edit ...
Save ==
  /\ name < MaxEdits
  /\ name' = name + 1
  /\ unrequested' = unrequested + 1
  /\ UNCHANGED <<owed, tickets, task, carriers, consumer>>

MRequestKeepsCursor ==
  /\ unrequested > 0
  /\ unrequested' = unrequested - 1
  /\ task' = IF task.status = "absent" THEN Fresh
             ELSE [Fresh EXCEPT !.generation = task.generation + 1,
                                !.cursor = task.cursor, !.lease = task.lease]
  /\ owed' = [t \in Tickets |-> IF t \in Live THEN name ELSE owed[t]]
  /\ UNCHANGED <<name, tickets, carriers, consumer>>

\* ... and requestCustomerRefresh: everything starts over but the lease.
Request ==
  /\ unrequested > 0
  /\ unrequested' = unrequested - 1
  /\ task' = IF task.status = "absent" THEN Fresh
             ELSE [Fresh EXCEPT !.generation = task.generation + 1, !.lease = task.lease]
  /\ owed' = [t \in Tickets |-> IF t \in Live THEN name ELSE owed[t]]
  /\ UNCHANGED <<name, tickets, carriers, consumer>>

\* The request ends between the two, or the address was taken in between and the
\* route answers with a conflict: the profile is written, no refresh requested.
EditStops ==
  /\ unrequested > 0
  /\ unrequested' = unrequested - 1
  /\ UNCHANGED <<name, owed, tickets, task, carriers, consumer>>

\* A ticket is opened with the customer read a few statements earlier ...
ReadCustomer(t) ==
  /\ ticket[t] = "new"
  /\ ticket' = [ticket EXCEPT ![t] = "opening"]
  /\ text' = [text EXCEPT ![t] = name]
  /\ UNCHANGED <<index, customer, task, carriers, consumer>>

Insert(t) ==
  /\ ticket[t] = "opening"
  /\ ticket' = [ticket EXCEPT ![t] = "live"]
  /\ UNCHANGED <<text, index, customer, task, carriers, consumer>>

\* ... and indexed, now and whenever a reply, a tag or a mail changes it.
Reindex(t) ==
  /\ t \in Live
  /\ index[t] /= text[t]
  /\ index' = [index EXCEPT ![t] = text[t]]
  /\ UNCHANGED <<ticket, text, customer, task, carriers, consumer>>

\* Retention, an erasure or a merge into another customer takes the ticket.
Remove(t) ==
  /\ t \in Live
  /\ ticket' = [ticket EXCEPT ![t] = "gone"]
  /\ text' = [text EXCEPT ![t] = Never]
  /\ index' = [index EXCEPT ![t] = Never]
  /\ owed' = [owed EXCEPT ![t] = Never]
  /\ UNCHANGED <<name, unrequested, task, carriers, consumer>>

(***************************************************************************)
(* dispatchMaintenance, for this row; a failed sendBatch is only logged.   *)
(***************************************************************************)
Dispatch(enqueued) ==
  /\ task.status = "pending" /\ task.attempts < MaxAttempts
  /\ ~task.lease /\ ~task.reserved /\ ~task.backoff
  /\ task' = [task EXCEPT !.reserved = TRUE]
  /\ queue' = IF enqueued THEN queue \cup {task.generation} ELSE queue
  /\ UNCHANGED <<customer, tickets, dlq, consumer>>

(***************************************************************************)
(* processMaintenance, one action per awaited statement.                   *)
(***************************************************************************)
MClaimableAlways(m) ==
  /\ task.status = "pending"
  /\ ~task.lease /\ ~task.backoff
  /\ m \in {Legacy, task.generation}

Claimable(m) ==
  /\ task.status = "pending" /\ task.attempts < MaxAttempts
  /\ ~task.lease /\ ~task.backoff
  /\ m \in {Legacy, task.generation}

\* A delivery and the claim.  Delivery is at least once: the message may stay.
Claim(c, m) ==
  /\ consumer[c].pc = "idle"
  /\ m \in queue
  /\ queue' \in {queue, queue \ {m}}
  /\ IF Claimable(m)
     THEN /\ task' = [task EXCEPT !.lease = TRUE, !.attempts = task.attempts + 1]
          /\ consumer' = [consumer EXCEPT ![c] =
               [Idle EXCEPT !.pc = "claimed", !.generation = task.generation,
                  !.cursor = task.cursor, !.attempts = task.attempts + 1]]
     ELSE UNCHANGED <<task, consumer>>
  /\ UNCHANGED <<customer, tickets, dlq>>

\* SELECT id ... WHERE id > cursor ORDER BY id LIMIT Page
Selects(cursor, page) ==
  LET after == {t \in Live : t > cursor}
  IN  /\ page \subseteq after
      /\ \A t \in page, u \in after : u < t => u \in page
      /\ Cardinality(page) <= Page
      /\ page = after \/ Cardinality(page) = Page

SelectPage(c) ==
  /\ consumer[c].pc = "claimed"
  /\ \E page \in SUBSET Tickets :
       /\ Selects(consumer[c].cursor, page)
       /\ consumer' = [consumer EXCEPT
            ![c].pc = IF page = {} THEN "finish" ELSE "rewrite",
            ![c].page = page, ![c].full = (Cardinality(page) = Page)]
  /\ UNCHANGED <<customer, tickets, task, carriers>>

IsNext(c, t) ==
  /\ t \in consumer[c].page
  /\ \A u \in consumer[c].page : t <= u

\* The column is rebuilt from the customers row as it is now.
Rewrite(c, t) ==
  /\ consumer[c].pc = "rewrite"
  /\ IsNext(c, t)
  /\ text' = IF t \in Live THEN [text EXCEPT ![t] = name] ELSE text
  /\ consumer' = [consumer EXCEPT ![c].pc = "index"]
  /\ UNCHANGED <<ticket, index, customer, task, carriers>>

\* refreshTicketSearch, then on to the next of the page.
Index(c, t) ==
  /\ consumer[c].pc = "index"
  /\ IsNext(c, t)
  /\ index' = IF t \in Live THEN [index EXCEPT ![t] = text[t]] ELSE index
  /\ consumer' = [consumer EXCEPT
       ![c].pc = IF consumer[c].page = {t} THEN "finish" ELSE "rewrite",
       ![c].page = consumer[c].page \ {t}, ![c].cursor = t]
  /\ UNCHANGED <<ticket, text, customer, task, carriers>>

\* The columns the last UPDATE of a pass writes.
Finished(c) ==
  [task EXCEPT !.cursor = consumer[c].cursor,
     !.status = IF consumer[c].full THEN "pending" ELSE "completed",
     !.attempts = 0, !.lease = FALSE, !.reserved = FALSE, !.backoff = FALSE]

MFinishAnyGeneration(c) ==
  /\ consumer[c].pc = "finish"
  /\ task' = Finished(c)
  /\ consumer' = [consumer EXCEPT ![c].pc = "release", ![c].cursor = 0, ![c].full = FALSE]
  /\ UNCHANGED <<customer, tickets, carriers>>

Finish(c) ==
  /\ consumer[c].pc = "finish"
  /\ task' = IF task.generation = consumer[c].generation THEN Finished(c) ELSE task
  /\ consumer' = [consumer EXCEPT ![c].pc = "release", ![c].cursor = 0, ![c].full = FALSE]
  /\ UNCHANGED <<customer, tickets, carriers>>

\* The customer was edited during the pass: only the lease is given back.
Release(c) ==
  /\ consumer[c].pc = "release"
  /\ task' = IF task.generation /= consumer[c].generation
             THEN [task EXCEPT !.lease = FALSE] ELSE task
  /\ consumer' = [consumer EXCEPT ![c] = Idle]
  /\ UNCHANGED <<customer, tickets, carriers>>

Exhausted(c) == consumer[c].attempts >= MaxAttempts

\* Any statement of the pass throws; the catch block records the failure ...
Fails(c) ==
  /\ consumer[c].pc \notin {"idle", "letter"}
  /\ task' = IF task.generation = consumer[c].generation
             THEN [task EXCEPT !.status = IF Exhausted(c) THEN "failed" ELSE "pending",
                     !.lease = FALSE, !.reserved = FALSE, !.backoff = TRUE]
             ELSE task
  /\ consumer' = [consumer EXCEPT ![c] =
       IF Exhausted(c) THEN [Idle EXCEPT !.pc = "letter"] ELSE Idle]
  /\ UNCHANGED <<customer, tickets, carriers>>

\* ... and after the last attempt sends a dead letter.
SendLetter(c) ==
  /\ consumer[c].pc = "letter"
  /\ dlq' = TRUE
  /\ consumer' = [consumer EXCEPT ![c] = Idle]
  /\ UNCHANGED <<customer, tickets, task, queue>>

\* The Worker dies, or the catch block itself throws: the lease stays.
Dies(c) ==
  /\ consumer[c].pc /= "idle"
  /\ consumer' = [consumer EXCEPT ![c] = Idle]
  /\ UNCHANGED <<customer, tickets, task, carriers>>

(***************************************************************************)
(* The queue, the dead-letter consumer, the Cron, the clocks.              *)
(***************************************************************************)
GiveUp(m) ==
  /\ m \in queue
  /\ queue' = queue \ {m}
  /\ dlq' = TRUE
  /\ UNCHANGED <<customer, tickets, task, consumer>>

\* Recording may fail; the letter is acknowledged all the same.
DrainLetter(recorded) ==
  /\ dlq
  /\ dlq' = FALSE
  /\ task' = IF recorded /\ task.status = "pending"
             THEN [task EXCEPT !.status = "failed", !.lease = FALSE, !.reserved = FALSE]
             ELSE task
  /\ UNCHANGED <<customer, tickets, queue, consumer>>

MStopSpentBeyond ==
  /\ task.status = "pending" /\ task.attempts > MaxAttempts /\ ~task.lease
  /\ task' = [task EXCEPT !.status = "failed", !.reserved = FALSE]
  /\ UNCHANGED <<customer, tickets, carriers, consumer>>

\* runScheduled's statement for tasks whose last attempt never reported.
StopSpent ==
  /\ task.status = "pending" /\ task.attempts >= MaxAttempts /\ ~task.lease
  /\ task' = [task EXCEPT !.status = "failed", !.reserved = FALSE]
  /\ UNCHANGED <<customer, tickets, carriers, consumer>>

\* Twenty minutes outlast every invocation.
LeaseExpires ==
  /\ task.lease
  /\ \A c \in Consumers : consumer[c].pc = "idle"
  /\ task' = [task EXCEPT !.lease = FALSE]
  /\ UNCHANGED <<customer, tickets, carriers, consumer>>

ReservationExpires ==
  /\ task.reserved
  /\ task' = [task EXCEPT !.reserved = FALSE]
  /\ UNCHANGED <<customer, tickets, carriers, consumer>>

BackoffEnds ==
  /\ task.backoff
  /\ task' = [task EXCEPT !.backoff = FALSE]
  /\ UNCHANGED <<customer, tickets, carriers, consumer>>

Work(c) ==
  \/ SelectPage(c)
  \/ \E t \in Tickets : Rewrite(c, t) \/ Index(c, t)
  \/ Finish(c) \/ Release(c) \/ Fails(c) \/ SendLetter(c)

Next ==
  \/ Save \/ Request \/ EditStops
  \/ \E t \in Tickets : ReadCustomer(t) \/ Insert(t) \/ Reindex(t) \/ Remove(t)
  \/ \E enqueued \in BOOLEAN : Dispatch(enqueued)
  \/ \E c \in Consumers, m \in Messages : Claim(c, m)
  \/ \E c \in Consumers : Work(c) \/ Dies(c)
  \/ \E m \in Messages : GiveUp(m)
  \/ \E recorded \in BOOLEAN : DrainLetter(recorded)
  \/ StopSpent \/ LeaseExpires \/ ReservationExpires \/ BackoffEnds

Spec == Init /\ [][Next]_vars

(***************************************************************************)
(* Fairness: the Cron fires and its enqueue does not fail every time, the  *)
(* platform delivers what is queued, an invocation runs on or dies, clocks *)
(* advance.  Edits, tickets, failures and dead letters owe nothing.        *)
(***************************************************************************)
Fairness ==
  /\ SF_vars(Dispatch(TRUE))
  /\ \A m \in Messages : SF_vars(\E c \in Consumers : Claimable(m) /\ Claim(c, m))
  /\ \A c \in Consumers : WF_vars(Work(c))
  /\ WF_vars(StopSpent) /\ WF_vars(LeaseExpires)
  /\ WF_vars(ReservationExpires) /\ WF_vars(BackoffEnds)

FairSpec == Spec /\ Fairness

(***************************************************************************)
(* Properties.                                                             *)
(***************************************************************************)
\* Every column and local variable has the values the code can write; attempts
\* never pass their limit.
TypeOK ==
  /\ name \in Versions /\ unrequested \in 0..MaxEdits
  /\ ticket \in [Tickets -> {"new", "opening", "live", "gone"}]
  /\ text \in [Tickets -> Versions \cup {Never}]
  /\ index \in [Tickets -> Versions \cup {Never}]
  /\ task \in Task
  /\ queue \subseteq Messages /\ dlq \in BOOLEAN
  /\ consumer \in [Consumers -> Invocation]
  /\ owed \in [Tickets -> Versions \cup {Never}]

\* A search text at least as new as the last requested refresh.
Refreshed(t) == ticket[t] = "live" => index[t] >= owed[t]

\* A completed task left no ticket behind: every ticket there was when a refresh
\* was last requested can be found under the name of that moment, whatever
\* passes of older edits, repeated messages and freed leases did in between.
CompletedMeansRefreshed ==
  task.status = "completed" => \A t \in Tickets : Refreshed(t)

\* The cursor of an unfinished task never passes a ticket that is still owed.
CursorSkipsNothing == \A t \in Tickets : t <= task.cursor => Refreshed(t)

\* A requested refresh does not stay pending: it is completed, or failed for an
\* operator to see.
Settles == task.status = "pending" ~> task.status /= "pending"
=============================================================================
