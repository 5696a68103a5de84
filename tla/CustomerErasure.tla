--------------------------- MODULE CustomerErasure ---------------------------
(***************************************************************************)
(* Erasing a customer: a maintenance task whose passes delete a page of     *)
(* tickets each, and at the end stop the mail still waiting from any of the *)
(* customer's addresses and delete the profile.  Beside it run inbound     *)
(* mail, which opens tickets and creates customers; a merge of two          *)
(* customers; an administrator's retry of stopped mail; and the deletion of *)
(* single tickets, by retention or by hand.                                 *)
(*                                                                         *)
(* A mail is processed by one invocation at a time (InboundMail has the     *)
(* overlaps and the dead letters), its six attempts are the choice of       *)
(* FailMail, and its envelope sender is its From address.  Mail that is     *)
(* there at first is filed, or is being staged; later mail is no concern of *)
(* an erasure.                                                             *)
(***************************************************************************)
EXTENDS Integers, FiniteSets

CONSTANTS
  Subject, Other,   \* customers: the one to erase, one to merge it with
  Fresh,            \* the customers later mail may create
  Merges,           \* the merges an admin may ask for, <<from, to>>
  HomeOf,           \* who holds each address at first
  Email,            \* the Subject's primary address
  Sender,           \* each mail's From address
  Filed,            \* the ticket each mail is in at first, or NoTicket
  Tickets, NoTicket,
  Passes, PageSize, MaxAttempts,
  MaxRequests,      \* bounds the requests for erasure
  Nobody

HomeAddresses == DOMAIN HomeOf
Mails == DOMAIN Sender
Customers == {Subject, Other} \cup Fresh

\* Identities are rows of their own; a ticket is either a customer's, not opened
\* or gone; the route refuses to merge a customer with themselves.
ASSUME ErasureAssumption ==
  /\ MaxRequests \in Nat /\ MaxAttempts \in Nat
  /\ HomeOf \in [HomeAddresses -> {Subject, Other}]
  /\ Sender \in [Mails -> HomeAddresses]
  /\ Filed \in [Mails -> Tickets \cup {NoTicket}]
  /\ NoTicket \notin Tickets
  /\ Subject \notin Fresh
  /\ Customers \cap {Nobody, "unused", "gone"} = {}
  /\ Merges \subseteq {pair \in Customers \X Customers : pair[1] /= pair[2]}

VARIABLES
  person,    \* customers rows
  holder,    \* customer_identities: who holds an address
  ticket,    \* tickets: whose it is, "unused" or "gone"
  mail,      \* inbound_mail_events rows, with the message each became
  worker,    \* the invocation processing each mail
  task,      \* the erasure task
  pass,      \* invocations of the maintenance queue, and ticket deletions
  merge,     \* the one request to merge two customers
  spared     \* history: mail an erasure found failed, or being processed

erasureVars == <<person, holder, ticket, mail, worker, task, pass, merge, spared>>

IdleWorker == [pc |-> "idle", customer |-> Nobody, ticket |-> NoTicket]
IdlePass == [pc |-> "idle", gen |-> 0, todo |-> {}, full |-> FALSE,
             current |-> NoTicket, mails |-> {}, addresses |-> {}]

NoMerge == [pc |-> "idle", from |-> Nobody, to |-> Nobody]

ErasureInit ==
  /\ person = {Subject, Other}
  /\ holder = HomeOf
  /\ ticket = [t \in Tickets |-> IF \E m \in Mails : Filed[m] = t THEN HomeOf[Sender[
                 CHOOSE m \in Mails : Filed[m] = t]] ELSE "unused"]
  /\ mail = [m \in Mails |-> IF Filed[m] = NoTicket
       THEN [status |-> "processing", reason |-> "none", message |-> NoTicket, raw |-> FALSE, gen |-> 0]
       ELSE [status |-> "completed", reason |-> "none", message |-> Filed[m], raw |-> FALSE, gen |-> 0]]
  /\ worker = [m \in Mails |-> IF Filed[m] = NoTicket THEN [IdleWorker EXCEPT !.pc = "staging"]
                              ELSE IdleWorker]
  /\ task = [status |-> "none", gen |-> 0, attempts |-> 0, leased |-> FALSE]
  /\ pass = [p \in Passes |-> IdlePass]
  /\ merge = NoMerge
  /\ spared = {}

Lives(t) == ticket[t] \notin {"unused", "gone"}
TicketsOf(c) == {t \in Tickets : ticket[t] = c}
HeldBy(c) == {a \in HomeAddresses : holder[a] = c}

\* terminalEraseUpdate on the rows of ms.
Erased(ms) == [m \in Mails |->
  IF m \in ms THEN [mail[m] EXCEPT !.status = "failed", !.reason = "customer_erased"] ELSE mail[m]]

(***************************************************************************)
(* The request and the task.                                               *)
(***************************************************************************)
\* The customer is looked up, then the task upserted: by then they may be gone.
\* The upsert resets the lease of a pass that may be running.
RequestErasure ==
  /\ task.gen < MaxRequests
  /\ task' = [status |-> "pending", gen |-> task.gen + 1, attempts |-> 0, leased |-> FALSE]
  /\ UNCHANGED <<person, holder, ticket, mail, worker, pass, merge, spared>>

ClaimTask(p) ==
  /\ pass[p].pc = "idle"
  /\ task.status = "pending" /\ task.attempts < MaxAttempts /\ ~task.leased
  /\ task' = [task EXCEPT !.attempts = @ + 1, !.leased = TRUE]
  /\ pass' = [pass EXCEPT ![p] = [IdlePass EXCEPT !.pc = "customer", !.gen = task.gen]]
  /\ UNCHANGED <<person, holder, ticket, mail, worker, merge, spared>>

TaskLeaseExpires ==
  /\ task.leased
  /\ task' = [task EXCEPT !.leased = FALSE]
  /\ UNCHANGED <<person, holder, ticket, mail, worker, pass, merge, spared>>

FailSpentTask ==
  /\ task.status = "pending" /\ task.attempts >= MaxAttempts /\ ~task.leased
  /\ task' = [task EXCEPT !.status = "failed"]
  /\ UNCHANGED <<person, holder, ticket, mail, worker, pass, merge, spared>>

(***************************************************************************)
(* processCustomerErasure.                                                 *)
(***************************************************************************)
Step(p, pc) == pass' = [pass EXCEPT ![p].pc = pc]

SelectTickets(p, page) ==
  /\ pass[p].pc = "customer"
  /\ page \subseteq TicketsOf(Subject)
  /\ Cardinality(page) <= PageSize
  /\ page = TicketsOf(Subject) \/ Cardinality(page) = PageSize
  /\ IF Subject \notin person
     THEN Step(p, "finish")
     ELSE pass' = [pass EXCEPT ![p].pc = "ticket", ![p].todo = page,
                               ![p].full = Cardinality(page) = PageSize]
  /\ UNCHANGED <<person, holder, ticket, mail, worker, task, merge, spared>>

\* eraseTicket, called by the task, by retention and by DELETE /tickets/:id.
DeleteOneTicket(p, t) ==
  /\ pass[p].pc = "idle"
  /\ Lives(t)
  /\ pass' = [pass EXCEPT ![p] = [IdlePass EXCEPT !.pc = "ticket", !.todo = {t}]]
  /\ UNCHANGED <<person, holder, ticket, mail, worker, task, merge, spared>>

ReadMessages(p, t) ==
  /\ pass[p].pc = "ticket" /\ t \in pass[p].todo
  /\ pass' = IF Lives(t)
             THEN [pass EXCEPT ![p].pc = "stop", ![p].current = t,
                               ![p].mails = {m \in Mails : mail[m].message = t}]
             ELSE [pass EXCEPT ![p].todo = @ \ {t}]
  /\ UNCHANGED <<person, holder, ticket, mail, worker, task, merge, spared>>

StopMails(p) ==
  /\ pass[p].pc = "stop"
  /\ mail' = Erased(pass[p].mails)
  /\ Step(p, "delete")
  /\ UNCHANGED <<person, holder, ticket, worker, task, merge, spared>>

\* Messages go with the ticket; inbound rows stay, without their message.
DeleteTicket(p) ==
  LET t == pass[p].current
  IN  /\ pass[p].pc = "delete"
      /\ ticket' = [ticket EXCEPT ![t] = "gone"]
      /\ mail' = [m \in Mails |-> IF mail[m].message = t
                                  THEN [mail[m] EXCEPT !.message = NoTicket] ELSE mail[m]]
      /\ pass' = [pass EXCEPT ![p].pc = "ticket", ![p].todo = @ \ {t},
                              ![p].current = NoTicket, ![p].mails = {}]
      /\ UNCHANGED <<person, holder, worker, task, merge, spared>>

\* A full page ends the pass; otherwise every address they ever wrote from.
ReadAddresses(p) ==
  /\ pass[p].pc = "ticket" /\ pass[p].todo = {} /\ pass[p].gen > 0
  /\ pass' = [pass EXCEPT ![p].pc = IF pass[p].full THEN "finish" ELSE "addresses",
                          ![p].addresses = IF pass[p].full THEN {} ELSE {Email} \cup HeldBy(Subject)]
  /\ UNCHANGED <<person, holder, ticket, mail, worker, task, merge, spared>>

TicketDeleted(p) ==
  /\ pass[p].pc = "ticket" /\ pass[p].todo = {} /\ pass[p].gen = 0
  /\ pass' = [pass EXCEPT ![p] = IdlePass]
  /\ UNCHANGED <<person, holder, ticket, mail, worker, task, merge, spared>>

AwaitsRetry(m) == mail[m].status = "failed" /\ mail[m].reason = "none"
InProcess(m) == worker[m].pc \notin {"idle", "staging"}

MStopStaged(p, a) ==
  /\ pass[p].pc = "addresses" /\ a \in pass[p].addresses
  /\ mail' = Erased({m \in Mails : Sender[m] = a /\ mail[m].status = "staged"})
  /\ pass' = [pass EXCEPT ![p].addresses = @ \ {a}]
  /\ spared' = spared \cup {m \in Mails : Sender[m] = a /\ (AwaitsRetry(m) \/ InProcess(m))}
  /\ UNCHANGED <<person, holder, ticket, worker, task, merge>>

\* What is waiting or in process is stopped.  Failed mail is not; and a pass that
\* is at a mail takes no notice, and clears the reason if it fails.
StopAddress(p, a) ==
  /\ pass[p].pc = "addresses" /\ a \in pass[p].addresses
  /\ mail' = Erased({m \in Mails : Sender[m] = a /\ mail[m].status \in {"staged", "processing"}})
  /\ pass' = [pass EXCEPT ![p].addresses = @ \ {a}]
  /\ spared' = spared \cup {m \in Mails : Sender[m] = a /\ (AwaitsRetry(m) \/ InProcess(m))}
  /\ UNCHANGED <<person, holder, ticket, worker, task, merge>>

\* ON DELETE RESTRICT: the statement throws if they have a ticket again.
DeleteCustomer(p) ==
  /\ pass[p].pc = "addresses" /\ pass[p].addresses = {}
  /\ TicketsOf(Subject) = {}
  /\ person' = person \ {Subject}
  /\ holder' = [a \in HomeAddresses |-> IF holder[a] = Subject THEN Nobody ELSE holder[a]]
  /\ Step(p, "finish")
  /\ UNCHANGED <<ticket, mail, worker, task, merge, spared>>

\* Two updates, one for each case of the generation.
FinishPass(p) ==
  /\ pass[p].pc = "finish"
  /\ task' = IF task.gen = pass[p].gen
             THEN [task EXCEPT !.status = IF pass[p].full THEN "pending" ELSE "completed",
                               !.attempts = 0, !.leased = FALSE]
             ELSE [task EXCEPT !.leased = FALSE]
  /\ pass' = [pass EXCEPT ![p] = IdlePass]
  /\ UNCHANGED <<person, holder, ticket, mail, worker, merge, spared>>

\* A statement throws, some of them because of what others did meanwhile.
PassFails(p) ==
  /\ pass[p].pc /= "idle" /\ pass[p].gen > 0
  /\ task' = IF task.gen = pass[p].gen
             THEN [task EXCEPT !.leased = FALSE,
                               !.status = IF task.attempts >= MaxAttempts THEN "failed" ELSE "pending"]
             ELSE task
  /\ pass' = [pass EXCEPT ![p] = IdlePass]
  /\ UNCHANGED <<person, holder, ticket, mail, worker, merge, spared>>

PassDies(p) ==
  /\ pass[p].pc /= "idle"
  /\ pass' = [pass EXCEPT ![p] = IdlePass]
  /\ UNCHANGED <<person, holder, ticket, mail, worker, task, merge, spared>>

(***************************************************************************)
(* Inbound mail.                                                           *)
(***************************************************************************)
\* The raw message is in R2: both outcomes write the row whatever it has become,
\* and neither touches the reason.
StageMail(m) ==
  /\ worker[m].pc = "staging"
  /\ mail' = [mail EXCEPT ![m].status = "staged", ![m].raw = TRUE]
  /\ worker' = [worker EXCEPT ![m] = IdleWorker]
  /\ UNCHANGED <<person, holder, ticket, task, pass, merge, spared>>

\* The put fails, or the update after it.
StagingFails(m, put) ==
  /\ worker[m].pc = "staging"
  /\ mail' = [mail EXCEPT ![m].status = "failed", ![m].raw = put]
  /\ worker' = [worker EXCEPT ![m] = IdleWorker]
  /\ UNCHANGED <<person, holder, ticket, task, pass, merge, spared>>

\* The Cron gives a row back that an invocation left in process.
RecoverMail(m) ==
  /\ worker[m].pc = "idle" /\ mail[m].status = "processing"
  /\ mail' = [mail EXCEPT ![m].status = "failed"]
  /\ UNCHANGED <<person, holder, ticket, worker, task, pass, merge, spared>>

MClaimableErased(m) == mail[m].status /= "completed"

ClaimableMail(m) == mail[m].status /= "completed" /\ mail[m].reason = "none"

ClaimMail(m) ==
  /\ worker[m].pc = "idle"
  /\ ClaimableMail(m)
  /\ mail' = [mail EXCEPT ![m].status = "processing"]
  /\ worker' = [worker EXCEPT ![m].pc = "lookup"]
  /\ UNCHANGED <<person, holder, ticket, task, pass, merge, spared>>

\* The staged message is read, or the attempt fails; findCustomerByIdentities.
LookupSender(m) ==
  /\ worker[m].pc = "lookup" /\ mail[m].raw
  /\ LET c == holder[Sender[m]]
     IN  worker' = [worker EXCEPT ![m] = [@ EXCEPT !.pc = IF c = Nobody THEN "create" ELSE "find",
                                                   !.customer = c]]
  /\ UNCHANGED <<person, holder, ticket, mail, task, pass, merge, spared>>

\* createCustomerWithIdentity; the unique index on addresses decides a race.
CreateSender(m, c) ==
  /\ worker[m].pc = "create"
  /\ c \in Fresh \ person /\ holder[Sender[m]] = Nobody
  /\ person' = person \cup {c}
  /\ holder' = [holder EXCEPT ![Sender[m]] = c]
  /\ worker' = [worker EXCEPT ![m] = [@ EXCEPT !.pc = "find", !.customer = c]]
  /\ UNCHANGED <<ticket, mail, task, pass, merge, spared>>

\* The message of an earlier pass, a thread of this customer, or a new ticket.
FindTicket(m, t) ==
  /\ worker[m].pc = "find"
  /\ worker[m].customer \in person
  /\ IF mail[m].message /= NoTicket THEN t = mail[m].message
     ELSE ticket[t] \in {worker[m].customer, "unused"}
  /\ worker' = [worker EXCEPT ![m].pc = "write", ![m].ticket = t]
  /\ UNCHANGED <<person, holder, ticket, mail, task, pass, merge, spared>>

\* The batch; foreign keys refuse it when its customer or its ticket is gone.
WriteMail(m) ==
  LET w == worker[m]
  IN  /\ w.pc = "write"
      /\ worker' = [worker EXCEPT ![m] = [IdleWorker EXCEPT !.pc = "close"]]
      /\ IF mail[m].message /= NoTicket THEN UNCHANGED <<ticket, mail>>
         ELSE /\ ticket[w.ticket] /= "gone" /\ w.customer \in person
              /\ ticket' = [ticket EXCEPT ![w.ticket] = IF @ = "unused" THEN w.customer ELSE @]
              /\ mail' = [mail EXCEPT ![m].message = w.ticket]
      /\ UNCHANGED <<person, holder, task, pass, merge, spared>>

\* The completing UPDATE names the message, and a foreign key wants it there.
CompleteMail(m) ==
  /\ worker[m].pc = "close" /\ mail[m].message /= NoTicket
  /\ mail' = [mail EXCEPT ![m].status = "completed", ![m].raw = FALSE]
  /\ worker' = [worker EXCEPT ![m] = IdleWorker]
  /\ UNCHANGED <<person, holder, ticket, task, pass, merge, spared>>

\* Five attachments have been stored and more are left: the rest is for another
\* attempt, whatever the row has become.
ContinueMail(m) ==
  /\ worker[m].pc = "close"
  /\ mail' = [mail EXCEPT ![m].status = "staged"]
  /\ worker' = [worker EXCEPT ![m] = IdleWorker]
  /\ UNCHANGED <<person, holder, ticket, task, pass, merge, spared>>

\* A statement throws; the catch block's UPDATE writes the reason whatever it was.
FailMail(m, terminal) ==
  /\ InProcess(m)
  /\ mail' = IF mail[m].status = "completed" THEN mail
             ELSE [mail EXCEPT ![m].status = "failed",
                               ![m].reason = IF terminal THEN "inbound_processing_failed" ELSE "none"]
  /\ worker' = [worker EXCEPT ![m] = IdleWorker]
  /\ UNCHANGED <<person, holder, ticket, task, pass, merge, spared>>

MailDies(m) ==
  /\ worker[m].pc /= "idle"
  /\ worker' = [worker EXCEPT ![m] = IdleWorker]
  /\ UNCHANGED <<person, holder, ticket, mail, task, pass, merge, spared>>

\* POST /mail-recovery/:id/retry, once per mail.  It waits for the lease, which
\* an erasure has freed.
RetryMail(m) ==
  /\ mail[m].status = "failed" /\ mail[m].reason /= "none" /\ mail[m].raw
  /\ worker[m].pc = "idle" \/ mail[m].reason = "customer_erased"
  /\ mail[m].gen = 0
  /\ mail' = [mail EXCEPT ![m] = [@ EXCEPT !.status = "staged", !.reason = "none", !.gen = 1]]
  /\ UNCHANGED <<person, holder, ticket, worker, task, pass, merge, spared>>

(***************************************************************************)
(* mergeCustomers.                                                         *)
(***************************************************************************)
CheckMerge(from, to) ==
  /\ merge.pc = "idle"
  /\ {from, to} \subseteq person
  /\ task.status \in {"none", "completed"}
  /\ merge' = [pc |-> "checked", from |-> from, to |-> to]
  /\ UNCHANGED <<person, holder, ticket, mail, worker, task, pass, spared>>

\* One batch; without a target the foreign keys refuse it.
ApplyMerge ==
  LET moved(c) == IF c = merge.from THEN merge.to ELSE c
  IN  /\ merge.pc = "checked"
      /\ merge' = IF {merge.from, merge.to} \subseteq person THEN [NoMerge EXCEPT !.pc = "done"] ELSE NoMerge
      /\ IF {merge.from, merge.to} \subseteq person
         THEN /\ person' = person \ {merge.from}
              /\ holder' = [a \in HomeAddresses |-> moved(holder[a])]
              /\ ticket' = [t \in Tickets |-> moved(ticket[t])]
         ELSE UNCHANGED <<person, holder, ticket>>
      /\ UNCHANGED <<mail, worker, task, pass, spared>>

PassStep(p) ==
  \/ ClaimTask(p)
  \/ \E page \in SUBSET Tickets : SelectTickets(p, page)
  \/ \E t \in Tickets : DeleteOneTicket(p, t) \/ ReadMessages(p, t)
  \/ StopMails(p) \/ DeleteTicket(p) \/ ReadAddresses(p) \/ TicketDeleted(p)
  \/ \E a \in HomeAddresses : StopAddress(p, a)
  \/ DeleteCustomer(p) \/ FinishPass(p) \/ PassFails(p) \/ PassDies(p)

MailStep(m) ==
  \/ ClaimMail(m) \/ LookupSender(m) \/ WriteMail(m) \/ CompleteMail(m)
  \/ \E c \in Fresh : CreateSender(m, c)
  \/ \E t \in Tickets : FindTicket(m, t)
  \/ \E terminal \in BOOLEAN : FailMail(m, terminal)
  \/ StageMail(m) \/ RecoverMail(m) \/ ContinueMail(m) \/ MailDies(m) \/ RetryMail(m)
  \/ \E put \in BOOLEAN : StagingFails(m, put)

ErasureNext ==
  \/ RequestErasure \/ TaskLeaseExpires \/ FailSpentTask
  \/ \E p \in Passes : PassStep(p)
  \/ \E m \in Mails : MailStep(m)
  \/ \E pair \in Merges : CheckMerge(pair[1], pair[2])
  \/ ApplyMerge

ErasureSpec == ErasureInit /\ [][ErasureNext]_erasureVars

(***************************************************************************)
(* Properties.                                                             *)
(***************************************************************************)
ErasureTypeOK ==
  /\ person \subseteq Customers
  /\ holder \in [HomeAddresses -> person \cup {Nobody}]
  /\ ticket \in [Tickets -> person \cup {"unused", "gone"}]
  /\ mail \in [Mails -> [status : {"staged", "processing", "completed", "failed"},
                         reason : {"none", "customer_erased", "inbound_processing_failed"},
                         message : Tickets \cup {NoTicket}, raw : BOOLEAN, gen : 0 .. 1]]
  /\ task \in [status : {"none", "pending", "completed", "failed"}, gen : 0 .. MaxRequests,
               attempts : 0 .. MaxAttempts, leased : BOOLEAN]
  /\ spared \subseteq Mails

\* A completed erasure task means the profile is gone and no ticket is theirs,
\* although a repeated request frees the lease of a pass at work and mail goes
\* on opening tickets between the pages.
CompletedMeansGone ==
  task.status = "completed" => Subject \notin person /\ TicketsOf(Subject) = {}

\* Of the mail that was there when a customer was erased, from any address they
\* held and not only the primary one, what the queue may still process is what the
\* erasure found failed or in process, and what an administrator asked for: mail
\* staged, being staged, left behind by a dead invocation or given back for its
\* other attachments is stopped, although staging and giving back write the status
\* over it.  The mail of a customer merged away is left out.
WaitingMailStopped ==
  task.status = "completed" /\ merge.pc /= "done" =>
    \A m \in Mails : HomeOf[Sender[m]] = Subject /\ mail[m].gen = 0 /\ ClaimableMail(m) => m \in spared

\* A mail stopped by an erasure while no invocation was processing it stays stopped
\* until an administrator retries it: the end of its staging, a redelivered pointer,
\* the Cron, the page of another pass or a merge does not set it going again.
StoppedStaysStopped ==
  [][\A m \in Mails :
       mail[m].reason = "customer_erased" /\ ~InProcess(m) =>
         \/ mail'[m].reason = "customer_erased" /\ ~InProcess(m)'
         \/ mail'[m].gen > mail[m].gen]_erasureVars

\* What docs/architecture.md:92 says of erasure: mail that was there before it
\* does not revive the conversation afterwards.  A merge that was checked before
\* the request revives it, and so does what the erasure has spared.
ErasedStaysErased ==
  task.status = "completed" =>
    \A m \in Mails : HomeOf[Sender[m]] = Subject => mail[m].message = NoTicket

\* What the same lines, and src/server/privacy/service.ts:105-107, say of mail jobs:
\* none is alive once the customer is erased, unless an administrator retried it.
\* No run checks it: mail that failed before the last pass waits for its retry.
NoMailAlive ==
  task.status = "completed" /\ merge.pc /= "done" =>
    \A m \in Mails : HomeOf[Sender[m]] = Subject /\ mail[m].gen = 0 =>
      ~(ClaimableMail(m) /\ mail[m].raw)

\* What a completed erasure has done, and what it does to mail that waits, on rows
\* of their types.
ErasureComplete == ErasureTypeOK /\ CompletedMeansGone /\ WaitingMailStopped
=============================================================================
