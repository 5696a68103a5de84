----------------------------- MODULE InboundMail -----------------------------
(***************************************************************************)
(* One customer mail on its way in, delivered to the Worker several times: *)
(* the SMTP side repeats it, or it was addressed to several inboxes.       *)
(* email() registers and stages every delivery, the queue carries pointers *)
(* to the events, invocations of processInboundMail turn one of them into  *)
(* the message, and dead letters, the Cron and the administrator step in   *)
(* between.  Every statement whose order others can observe is a step.     *)
(*                                                                         *)
(* All deliveries carry the same Message-ID; a mail without one gets an id *)
(* of its own and never meets another.  A deadline column is the fact that *)
(* it lies in the future.                                                  *)
(***************************************************************************)
EXTENDS Integers

CONSTANTS
  Deliveries,     \* deliveries of the mail, each with an event row of its own
  NoDelivery,     \* what an idle invocation works on
  Inboxes,
  InboxOf,        \* the inbox each delivery resolves to
  Consumers,      \* invocations of processInboundMail in flight together
  MaxAttempts,    \* six in the code
  MaxGeneration,  \* bound: administrator retries explored per event
  Attachments,    \* attachments of the mail
  Chunk,          \* attachments stored per invocation, five in the code
  EmitFails       \* whether the insert in emitWebhookEvent can fail

ASSUME InboundAssumption ==
  /\ NoDelivery \notin Deliveries
  /\ InboxOf \in [Deliveries -> Inboxes]
  /\ MaxAttempts \in Nat \ {0} /\ MaxGeneration \in Nat
  /\ Attachments \in Nat /\ Chunk \in Nat \ {0}
  /\ EmitFails \in BOOLEAN

VARIABLES
  smtp,      \* per delivery: how far email() has come
  event,     \* inbound_mail_events
  raw,       \* deliveries whose raw MIME is staged in R2
  queue,     \* events with a message on the inbound queue
  dlq,       \* events with a message on the dead-letter queue
  consumer,  \* per invocation: program counter and local variables
  message,   \* the messages row with the mail's provider_message_id exists
  ticket,    \* the ticket the mail belongs to
  notices,   \* notifications written to the assignee; 2 stands for several
  stored,    \* attachment rows: <<event, index>>
  effects,   \* webhook events emitted and automations run for the mail
  opened     \* history: the mail opened the ticket

vars == <<smtp, event, raw, queue, dlq, consumer, message, ticket, notices,
          stored, effects, opened>>
arrival == <<smtp, raw>>
carriers == <<queue, dlq>>
outcome == <<message, ticket, notices, stored, effects, opened>>

Statuses == {"absent", "processing", "staged", "failed", "completed"}

\* "stopped" is inbox_missing, inbound_processing_failed, queue_exhausted or
\* retry_exhausted; "duplicate" is duplicate_event.
Reasons == {"none", "stopped", "duplicate"}

Indices == 0..(Attachments - 1)

\* attempts can fall below zero: a continuation gives its attempt back to a row
\* an administrator has reset meanwhile.
Row == [status : Statuses, attempts : Int, generation : 0..MaxGeneration,
        terminal : Reasons, lease : BOOLEAN, reserved : BOOLEAN,
        backoff : BOOLEAN, registered : BOOLEAN, cursor : 0..Attachments]

NoRow == [status |-> "absent", attempts |-> 0, generation |-> 0,
          terminal |-> "none", lease |-> FALSE, reserved |-> FALSE,
          backoff |-> FALSE, registered |-> FALSE, cursor |-> 0]

PCs == {"idle", "claimed", "parsed", "same", "duplicate", "register", "lookup",
        "write", "notify", "cursor", "store", "advance", "created",
        "received", "automate", "unstage", "fail"}

\* d is the event; existing and opens are what the lookups found; the loop runs from index to
\* last; terminal is decided when the failure is thrown.
Idle == [pc |-> "idle", d |-> NoDelivery, attempts |-> 0, existing |-> FALSE, opens |-> FALSE,
         index |-> 0, last |-> 0, terminal |-> FALSE]

Invocation ==
  [pc : PCs, d : Deliveries \cup {NoDelivery}, attempts : Int, existing : BOOLEAN,
   opens : BOOLEAN, index : 0..Attachments, last : 0..Attachments, terminal : BOOLEAN]

Ticket == [state : {"none", "open", "closed"}, replied : BOOLEAN]

Init ==
  /\ smtp = [d \in Deliveries |-> "new"]
  /\ event = [d \in Deliveries |-> NoRow]
  /\ raw = {} /\ queue = {} /\ dlq = {}
  /\ consumer = [c \in Consumers |-> Idle]
  /\ message = FALSE
  /\ ticket \in [state : {"none", "closed"}, replied : {FALSE}]
  /\ notices = 0 /\ stored = {} /\ effects = {} /\ opened = FALSE

(***************************************************************************)
(* email(): register the event, stage the raw MIME, release the event.     *)
(***************************************************************************)
Accept(d) ==
  /\ smtp[d] = "new"
  /\ smtp' = [smtp EXCEPT ![d] = "putting"]
  /\ event' = [event EXCEPT ![d].status = "processing", ![d].lease = TRUE]
  /\ UNCHANGED <<raw, carriers, consumer, outcome>>

Put(d) ==
  /\ smtp[d] = "putting"
  /\ smtp' = [smtp EXCEPT ![d] = "put"]
  /\ raw' = raw \cup {d}
  /\ UNCHANGED <<event, carriers, consumer, outcome>>

Stage(d) ==
  /\ smtp[d] = "put"
  /\ smtp' = [smtp EXCEPT ![d] = "accepted"]
  /\ event' = [event EXCEPT ![d].status = "staged", ![d].lease = FALSE]
  /\ UNCHANGED <<raw, carriers, consumer, outcome>>

\* The upload or the release fails: the row is marked and the sender told.
StageFails(d) ==
  /\ smtp[d] \in {"putting", "put"}
  /\ smtp' = [smtp EXCEPT ![d] = "refused"]
  /\ event' = [event EXCEPT ![d].status = "failed", ![d].lease = FALSE]
  /\ UNCHANGED <<raw, carriers, consumer, outcome>>

\* The Worker dies while staging: the row keeps its lease.
StageDies(d) ==
  /\ smtp[d] \in {"putting", "put"}
  /\ smtp' = [smtp EXCEPT ![d] = "refused"]
  /\ UNCHANGED <<event, raw, carriers, consumer, outcome>>

(***************************************************************************)
(* dispatchMail for inbound events.                                        *)
(***************************************************************************)
Dispatchable(d) ==
  /\ event[d].status \in {"staged", "failed"}
  /\ event[d].terminal = "none"
  /\ event[d].attempts < MaxAttempts
  /\ ~event[d].lease /\ ~event[d].reserved /\ ~event[d].backoff

Dispatch(d, enqueued) ==
  /\ Dispatchable(d)
  /\ event' = [event EXCEPT ![d].reserved = TRUE]
  /\ queue' = IF enqueued THEN queue \cup {d} ELSE queue
  /\ UNCHANGED <<arrival, dlq, consumer, outcome>>

(***************************************************************************)
(* processInboundMail.                                                     *)
(***************************************************************************)
Claimable(d) ==
  /\ event[d].status /= "completed" /\ event[d].terminal = "none"
  /\ event[d].attempts < MaxAttempts
  /\ ~event[d].lease /\ ~event[d].backoff

\* A delivery of the queue and the claim.  The message may stay on the queue.
Claim(c, d) ==
  /\ consumer[c].pc = "idle"
  /\ d \in queue
  /\ queue' \in {queue, queue \ {d}}
  /\ IF Claimable(d)
     THEN /\ event' = [event EXCEPT ![d].status = "processing", ![d].lease = TRUE,
                                    ![d].attempts = @ + 1]
          /\ consumer' = [consumer EXCEPT ![c] =
               [Idle EXCEPT !.pc = "claimed", !.d = d,
                            !.attempts = event[d].attempts + 1]]
     ELSE UNCHANGED <<event, consumer>>
  /\ UNCHANGED <<arrival, dlq, outcome>>

Goto(c, pc) == consumer' = [consumer EXCEPT ![c].pc = pc]

\* An error is thrown; locals not read again are dropped.
Fail(c, terminal) ==
  consumer' = [consumer EXCEPT ![c] =
    [Idle EXCEPT !.pc = "fail", !.d = consumer[c].d,
       !.terminal = terminal \/ consumer[c].attempts >= MaxAttempts]]

\* The staged object; without it, a completed event is a late delivery.
Fetch(c) ==
  /\ consumer[c].pc = "claimed"
  /\ LET d == consumer[c].d IN
       \/ d \in raw /\ Goto(c, "parsed")
       \/ /\ d \notin raw /\ event[d].status = "completed"
          /\ consumer' = [consumer EXCEPT ![c] = Idle]
       \/ /\ d \notin raw /\ event[d].status /= "completed"
          /\ Fail(c, FALSE)
  /\ UNCHANGED <<event, arrival, carriers, outcome>>

\* The address no longer belongs to any inbox.
InboxMissing(c) ==
  /\ consumer[c].pc = "parsed"
  /\ Fail(c, TRUE)
  /\ UNCHANGED <<event, arrival, carriers, outcome>>

\* Events that carry the mail's id in the inbox of d; the index allows one.
Holders(d) == {o \in Deliveries : InboxOf[o] = InboxOf[d] /\ event[o].registered}

Dedupe(c) ==
  /\ consumer[c].pc = "parsed"
  /\ LET d == consumer[c].d IN
       Goto(c, IF \E o \in Holders(d) : event[o].status = "completed" THEN "same"
               ELSE IF \E o \in Holders(d) : o /= d THEN "duplicate"
               ELSE "register")
  /\ UNCHANGED <<event, arrival, carriers, outcome>>

\* Closed with the message of the completed event.
CompleteSame(c) ==
  /\ consumer[c].pc = "same"
  /\ event' = [event EXCEPT ![consumer[c].d].status = "completed",
                            ![consumer[c].d].lease = FALSE]
  /\ Goto(c, "unstage")
  /\ UNCHANGED <<arrival, carriers, outcome>>

\* Closed because another event, finished or not, carries the mail.
CompleteDuplicate(c) ==
  /\ consumer[c].pc = "duplicate"
  /\ event' = [event EXCEPT ![consumer[c].d].status = "completed",
                            ![consumer[c].d].terminal = "duplicate",
                            ![consumer[c].d].lease = FALSE]
  /\ Goto(c, "unstage")
  /\ UNCHANGED <<arrival, carriers, outcome>>

\* The unique index arbitrates between deliveries that both saw no holder.
Register(c) ==
  /\ consumer[c].pc = "register"
  /\ LET d == consumer[c].d IN
       IF Holders(d) \subseteq {d}
       THEN /\ event' = [event EXCEPT ![d].registered = TRUE]
            /\ Goto(c, "lookup")
       ELSE /\ Goto(c, "duplicate")
            /\ UNCHANGED event
  /\ UNCHANGED <<arrival, carriers, outcome>>

\* The message by provider id, the sender's customer, and the ticket by thread.
Lookup(c) ==
  /\ consumer[c].pc = "lookup"
  /\ consumer' = [consumer EXCEPT ![c].pc = "write", ![c].existing = message,
       ![c].opens = ~message /\ ticket.state = "none"]
  /\ UNCHANGED <<event, arrival, carriers, outcome>>

\* One batch: the ticket if there is none, the message, the reopened ticket.
\* The unique index on the message's provider id rolls back the later of two.
WriteMessage(c) ==
  /\ consumer[c].pc = "write" /\ ~consumer[c].existing
  /\ IF message
     THEN /\ Fail(c, FALSE)
          /\ UNCHANGED <<message, ticket, opened>>
     ELSE /\ message' = TRUE
          /\ ticket' = [state |-> "open", replied |-> TRUE]
          /\ opened' = consumer[c].opens
          /\ Goto(c, "notify")
  /\ UNCHANGED <<event, arrival, carriers, notices, stored, effects>>

MReconcileAlways(c) ==
  /\ consumer[c].pc = "write" /\ consumer[c].existing
  /\ ticket' = [state |-> "open", replied |-> TRUE]
  /\ Goto(c, "notify")
  /\ UNCHANGED <<event, arrival, carriers, message, notices, stored, effects, opened>>

\* A later pass: the ticket is brought up to the message only if its last
\* customer reply is older.
Reconcile(c) ==
  /\ consumer[c].pc = "write" /\ consumer[c].existing
  /\ ticket' = IF ticket.replied THEN ticket
               ELSE [state |-> "open", replied |-> TRUE]
  /\ Goto(c, "notify")
  /\ UNCHANGED <<event, arrival, carriers, message, notices, stored, effects, opened>>

MNotifyNewOnly(c) ==
  /\ consumer[c].pc = "notify"
  /\ notices' = IF consumer[c].existing \/ notices = 2 THEN notices ELSE notices + 1
  /\ Goto(c, "cursor")
  /\ UNCHANGED <<event, arrival, carriers, message, ticket, stored, effects, opened>>

\* The assignee is told; the model's ticket has one.
Notify(c) ==
  /\ consumer[c].pc = "notify"
  /\ notices' = IF notices = 2 THEN 2 ELSE notices + 1
  /\ Goto(c, "cursor")
  /\ UNCHANGED <<event, arrival, carriers, message, ticket, stored, effects, opened>>

MReadCursorUncapped(c) ==
  /\ consumer[c].pc = "cursor"
  /\ LET from == event[consumer[c].d].cursor IN
       consumer' = [consumer EXCEPT ![c].pc = "store", ![c].index = from,
                                    ![c].last = from + Chunk]
  /\ UNCHANGED <<event, arrival, carriers, outcome>>

ReadCursor(c) ==
  /\ consumer[c].pc = "cursor"
  /\ LET from == event[consumer[c].d].cursor IN
       consumer' = [consumer EXCEPT ![c].pc = "store", ![c].index = from,
         ![c].last = IF from + Chunk < Attachments THEN from + Chunk ELSE Attachments]
  /\ UNCHANGED <<event, arrival, carriers, outcome>>

\* The object under a key made of event and index, then its row, both the same
\* on every pass: an object without its row is overwritten by the next one.
Store(c) ==
  /\ consumer[c].pc = "store" /\ consumer[c].index < consumer[c].last
  /\ stored' = stored \cup {<<consumer[c].d, consumer[c].index>>}
  /\ Goto(c, "advance")
  /\ UNCHANGED <<event, arrival, carriers, message, ticket, notices, effects, opened>>

Advance(c) ==
  /\ consumer[c].pc = "advance"
  /\ event' = [event EXCEPT ![consumer[c].d].cursor = consumer[c].index + 1]
  /\ consumer' = [consumer EXCEPT ![c].pc = "store", ![c].index = @ + 1]
  /\ UNCHANGED <<arrival, carriers, outcome>>

\* More attachments than one invocation stores: back to the Cron.
Continue(c) ==
  /\ consumer[c].pc = "store" /\ consumer[c].index = consumer[c].last
  /\ consumer[c].last < Attachments
  /\ LET d == consumer[c].d IN
       event' = [event EXCEPT ![d].status = "staged", ![d].attempts = @ - 1,
                   ![d].lease = FALSE, ![d].reserved = FALSE, ![d].backoff = FALSE]
  /\ consumer' = [consumer EXCEPT ![c] = Idle]
  /\ UNCHANGED <<arrival, carriers, outcome>>

MCompleteEarly(c) ==
  /\ consumer[c].pc = "store" /\ consumer[c].index = consumer[c].last
  /\ event' = [event EXCEPT ![consumer[c].d].status = "completed",
                            ![consumer[c].d].lease = FALSE]
  /\ Goto(c, IF consumer[c].opens THEN "created" ELSE "received")
  /\ UNCHANGED <<arrival, carriers, outcome>>

\* The event is closed whatever has been written to its row meanwhile.
Complete(c) ==
  /\ consumer[c].pc = "store" /\ consumer[c].index = consumer[c].last
  /\ consumer[c].last = Attachments
  /\ event' = [event EXCEPT ![consumer[c].d].status = "completed",
                            ![consumer[c].d].lease = FALSE]
  /\ Goto(c, IF consumer[c].opens THEN "created" ELSE "received")
  /\ UNCHANGED <<arrival, carriers, outcome>>

\* emitWebhookEvent swallows a failed insert.
Emit(c, name, next) ==
  /\ \/ effects' = effects \cup {name}
     \/ EmitFails /\ UNCHANGED effects
  /\ Goto(c, next)
  /\ UNCHANGED <<event, arrival, carriers, message, ticket, notices, stored, opened>>

AnnounceCreated(c) ==
  /\ consumer[c].pc = "created"
  /\ Emit(c, "ticket.created", "received")

AnnounceReceived(c) ==
  /\ consumer[c].pc = "received"
  /\ Emit(c, "message.received", "automate")

\* applyAutomations, keyed by the mail: a rule runs once.
Automate(c) ==
  /\ consumer[c].pc = "automate"
  /\ effects' = effects \cup {"automations"}
  /\ Goto(c, "unstage")
  /\ UNCHANGED <<event, arrival, carriers, message, ticket, notices, stored, opened>>

Unstage(c) ==
  /\ consumer[c].pc = "unstage"
  /\ raw' = raw \ {consumer[c].d}
  /\ consumer' = [consumer EXCEPT ![c] = Idle]
  /\ UNCHANGED <<event, smtp, carriers, outcome>>

MThrowsUnstaging(c) ==
  /\ consumer[c].pc \notin {"idle", "created", "received", "fail"}
  /\ raw' = raw \ {consumer[c].d}
  /\ Fail(c, FALSE)
  /\ UNCHANGED <<event, smtp, carriers, outcome>>

\* Any statement in the try block can throw; emitWebhookEvent does not.
Throws(c) ==
  /\ consumer[c].pc \notin {"idle", "created", "received", "fail"}
  /\ Fail(c, FALSE)
  /\ UNCHANGED <<event, arrival, carriers, outcome>>

\* A retried message returns to the queue or, its retries spent, goes to the
\* dead-letter queue.
GiveBack(d) ==
  \/ queue' = queue \cup {d} /\ UNCHANGED dlq
  \/ dlq' = dlq \cup {d} /\ UNCHANGED queue

\* catch: the row, unless it was completed, and the queue handler's answer.
RecordFailure(c) ==
  /\ consumer[c].pc = "fail"
  /\ LET d == consumer[c].d IN
       /\ event' = IF event[d].status = "completed" THEN event
                   ELSE [event EXCEPT ![d] =
                     [@ EXCEPT !.status = "failed", !.lease = FALSE,
                       !.reserved = TRUE, !.backoff = TRUE,
                       !.terminal = IF consumer[c].terminal THEN "stopped" ELSE "none"]]
       /\ IF consumer[c].terminal
          THEN dlq' = dlq \cup {d} /\ UNCHANGED queue
          ELSE GiveBack(d)
  /\ consumer' = [consumer EXCEPT ![c] = Idle]
  /\ UNCHANGED <<arrival, outcome>>

Crash(c) ==
  /\ consumer[c].pc /= "idle"
  /\ consumer' = [consumer EXCEPT ![c] = Idle]
  /\ GiveBack(consumer[c].d)
  /\ UNCHANGED <<event, arrival, outcome>>

\* Deliveries that keep failing before the claim.
Exhaust(d) ==
  /\ d \in queue
  /\ queue' = queue \ {d}
  /\ dlq' = dlq \cup {d}
  /\ UNCHANGED <<event, arrival, consumer, outcome>>

\* The dead-letter consumer.
DrainLetter(d, written) ==
  /\ d \in dlq
  /\ dlq' = dlq \ {d}
  /\ event' =
       IF written /\ event[d].status /= "completed" /\ event[d].terminal = "none"
       THEN [event EXCEPT ![d] =
              [@ EXCEPT !.status = "failed", !.terminal = "stopped", !.lease = FALSE,
                        !.reserved = FALSE]]
       ELSE event
  /\ UNCHANGED <<arrival, queue, consumer, outcome>>

(***************************************************************************)
(* The Cron's batch over inbound events: the stalled, then the spent.      *)
(***************************************************************************)
Unstall(row) ==
  IF row.status = "processing" /\ ~row.lease
  THEN [row EXCEPT !.status = "failed", !.reserved = FALSE] ELSE row

MStopSpentBeyond(row) ==
  IF /\ row.status \in {"staged", "failed"} /\ row.terminal = "none"
     /\ row.attempts > MaxAttempts
  THEN [row EXCEPT !.status = "failed", !.terminal = "stopped"] ELSE row

StopSpent(row) ==
  IF /\ row.status \in {"staged", "failed"} /\ row.terminal = "none"
     /\ row.attempts >= MaxAttempts
  THEN [row EXCEPT !.status = "failed", !.terminal = "stopped"] ELSE row

Sweep ==
  /\ event' = [d \in Deliveries |-> StopSpent(Unstall(event[d]))]
  /\ event' /= event
  /\ UNCHANGED <<arrival, carriers, consumer, outcome>>

\* The administrator's retry: the UPDATE repeats every check but the one for the
\* raw copy, which only the retention cleanup, left out here, takes from it.
Retry(d) ==
  /\ event[d].status = "failed" /\ event[d].terminal /= "none"
  /\ d \in raw
  /\ ~event[d].lease
  /\ event[d].generation < MaxGeneration
  /\ event' = [event EXCEPT ![d].status = "staged", ![d].terminal = "none",
                 ![d].attempts = 0, ![d].reserved = FALSE, ![d].backoff = FALSE,
                 ![d].generation = @ + 1]
  /\ UNCHANGED <<arrival, carriers, consumer, outcome>>

\* An agent resolves, closes or answers the ticket.
AgentCloses ==
  /\ ticket.state = "open"
  /\ ticket' = [ticket EXCEPT !.state = "closed"]
  /\ UNCHANGED <<event, arrival, carriers, consumer, message, notices, stored,
                 effects, opened>>

\* Twenty minutes outlast the handler and every invocation.
LeaseExpires(d) ==
  /\ event[d].lease
  /\ smtp[d] \notin {"putting", "put"}
  /\ \A c \in Consumers : consumer[c].d /= d
  /\ event' = [event EXCEPT ![d].lease = FALSE]
  /\ UNCHANGED <<arrival, carriers, consumer, outcome>>

ReservationExpires(d) ==
  /\ event[d].reserved
  /\ event' = [event EXCEPT ![d].reserved = FALSE]
  /\ UNCHANGED <<arrival, carriers, consumer, outcome>>

BackoffEnds(d) ==
  /\ event[d].backoff
  /\ event' = [event EXCEPT ![d].backoff = FALSE]
  /\ UNCHANGED <<arrival, carriers, consumer, outcome>>

Receipt(d) == Put(d) \/ Stage(d) \/ StageFails(d) \/ StageDies(d)

Invoke(c) ==
  \/ Fetch(c) \/ InboxMissing(c) \/ Dedupe(c) \/ CompleteSame(c)
  \/ CompleteDuplicate(c) \/ Register(c) \/ Lookup(c) \/ WriteMessage(c)
  \/ Reconcile(c) \/ Notify(c) \/ ReadCursor(c) \/ Store(c) \/ Advance(c)
  \/ Continue(c) \/ Complete(c) \/ AnnounceCreated(c) \/ AnnounceReceived(c)
  \/ Automate(c) \/ Unstage(c) \/ Throws(c) \/ RecordFailure(c)

Next ==
  \/ \E d \in Deliveries : Accept(d) \/ Receipt(d)
  \/ \E d \in Deliveries, enqueued \in BOOLEAN : Dispatch(d, enqueued)
  \/ \E c \in Consumers, d \in Deliveries : Claim(c, d)
  \/ \E c \in Consumers : Invoke(c) \/ Crash(c)
  \/ \E d \in Deliveries : Exhaust(d) \/ Retry(d)
  \/ \E d \in Deliveries, written \in BOOLEAN : DrainLetter(d, written)
  \/ Sweep
  \/ AgentCloses
  \/ \E d \in Deliveries : LeaseExpires(d) \/ ReservationExpires(d) \/ BackoffEnds(d)

Spec == Init /\ [][Next]_vars

(***************************************************************************)
(* Fairness: the Cron fires, the platform delivers what is queued, an      *)
(* invocation runs on or dies, clocks advance, an enqueue does not fail    *)
(* every time.  The sender, the administrator and crashes owe nothing.     *)
(***************************************************************************)
Fairness ==
  /\ \A d \in Deliveries :
       /\ WF_vars(Receipt(d))
       /\ SF_vars(Dispatch(d, TRUE))
       /\ SF_vars(\E c \in Consumers : Claim(c, d))
       /\ WF_vars(LeaseExpires(d)) /\ WF_vars(ReservationExpires(d))
       /\ WF_vars(BackoffEnds(d))
  /\ \A c \in Consumers : WF_vars(Invoke(c))
  /\ WF_vars(Sweep)

FairSpec == Spec /\ Fairness

(***************************************************************************)
(* Properties.                                                             *)
(***************************************************************************)
\* Every column and local variable has the values the code can write.
TypeOK ==
  /\ smtp \in [Deliveries -> {"new", "putting", "put", "accepted", "refused"}]
  /\ event \in [Deliveries -> Row]
  /\ raw \subseteq Deliveries /\ queue \subseteq Deliveries /\ dlq \subseteq Deliveries
  /\ consumer \in [Consumers -> Invocation]
  /\ message \in BOOLEAN /\ ticket \in Ticket /\ notices \in 0..2
  /\ stored \subseteq Deliveries \X Indices
  /\ effects \subseteq {"ticket.created", "message.received", "automations"}
  /\ opened \in BOOLEAN

\* A mail the Worker accepted is a message, or its raw MIME is still staged under
\* an event that can be worked on: discarding a delivery as a duplicate of one
\* that has not finished never discards the last copy.
NothingLost ==
  \A d \in Deliveries : smtp[d] = "accepted" =>
    \/ message
    \/ \E o \in raw : InboxOf[o] = InboxOf[d] /\ event[o].status /= "completed"

\* An event closed on its own account has every attachment of the mail stored,
\* however often its passes were cut short, repeated or overlapped.
AttachmentsStored ==
  \A d \in Deliveries :
    event[d].status = "completed" /\ event[d].registered =>
      \A i \in Indices : <<d, i>> \in stored

\* The assignee is told of a reply before its event is closed, even if the pass
\* that wrote the message died right after.
NoticedBeforeClosed ==
  \A d \in Deliveries :
    event[d].status = "completed" /\ event[d].registered => notices > 0

\* Only the message itself reopens a ticket: later passes leave alone what an
\* agent has done since.
ReopensOnce ==
  [][ticket.state = "closed" /\ ticket'.state = "open" => ~message]_vars

\* The promise, seen from outside: see IntakePromise.
Intake == INSTANCE IntakePromise WITH
  Deliveries <- Deliveries,
  InboxOf <- InboxOf,
  Indices <- Indices,
  Effects <- {"ticket.created", "message.received", "automations"},
  accepted <- {d \in Deliveries : smtp[d] = "accepted"},
  kept <- {d \in raw : event[d].status /= "completed"},
  filed <- message,
  open <- ticket.state = "open",
  attached <- stored,
  told <- notices > 0,
  closed <- {d \in Deliveries : event[d].status = "completed" /\ event[d].registered},
  announced <- effects

\* Every step of email(), the queue, the passes, the Cron and the administrator is
\* one the promise allows, or none of its concern: taking in, discarding, filing,
\* closing and announcing keep their order however passes overlap.
KeepsIntake == Intake!Spec

\* No inbound row stays undecided: it is completed, or stopped.
Settles ==
  \A d \in Deliveries :
    event[d].status /= "absent"
      ~> event[d].status = "completed" \/ event[d].terminal /= "none"

\* A mail reported as received has had the ticket it opened reported first.
\* It does not hold: only the pass that opened the ticket could report it.
OpeningAnnounced ==
  "message.received" \in effects /\ opened => "ticket.created" \in effects

\* One reply, one notification: repeating a pass does not repeat its effects.
\* It does not hold: the notification is inserted by every pass.
NoticedOnce == notices <= 1
=============================================================================
