---------------------------- MODULE OutboundMail ----------------------------
(***************************************************************************)
(* One reply on its way out: the message row, its outbox job, the queue    *)
(* that carries pointers to the job, the Worker invocations that consume   *)
(* the queue, the dead-letter consumer, the five-minute Cron, the          *)
(* administrator's retry and the provider's delivery events.  Every        *)
(* awaited D1 statement of processOutboundMail is a step of its own, so    *)
(* invocations interleave wherever the code can be suspended.              *)
(*                                                                         *)
(* Every statement of the code is keyed by one job id, so one job is       *)
(* modelled.  Queue bodies are {kind, jobId} and carry no generation: all  *)
(* messages for the job are equal and the queue is the fact that there is  *)
(* one.  A deadline column (lease_until, dispatch_until, next_attempt_at)  *)
(* is the fact that it lies in the future.                                 *)
(***************************************************************************)
EXTENDS Integers

CONSTANTS
  Consumers,      \* Worker invocations that can be in flight together
  MaxAttempts,    \* maxAttempts, six in the code
  MaxGeneration,  \* bound: administrator retries explored
  Outcomes,       \* delivery events the provider can report
  Idempotent      \* provider.idempotent: Resend and capture TRUE, Cloudflare FALSE

ASSUME OutboundAssumption ==
  /\ MaxAttempts \in Nat \ {0}
  /\ MaxGeneration \in Nat
  /\ Outcomes \subseteq {"delivered", "bounced", "complained"}
  /\ Idempotent \in BOOLEAN

Generations == 0..MaxGeneration
NoId == -1        \* provider_message_id IS NULL

Statuses == {"pending", "processing", "sent", "failed"}

\* terminal_reason.  "refused" stands for provider_rejected and
\* attachments_too_large, "config" for the other permanent failures.
Reasons == {"none", "refused", "config", "delivery_uncertain",
            "queue_exhausted", "bounced", "complained"}

Events == Generations \X Outcomes

PCs == {"idle", "read", "claimed", "confirm", "prepared", "sending",
        "record", "unmark", "fail", "failMessage"}

VARIABLES
  job,       \* the outbound_mail_jobs row
  message,   \* messages.delivery_status
  queue,     \* BOOLEAN: a message for the job is on the outbound queue
  dlq,       \* generations whose message is on the dead-letter queue
  consumer,  \* per invocation: program counter and local variables
  admin,     \* the retry request being served: what its SELECT returned
  event,     \* per delivery event: progress of applyDeliveryEvent
  oversize,  \* generations whose mail is over the attachment limit
  handedOff, \* history: provider.send calls per generation not refused
  expired    \* history: generations whose retry window has closed

vars == <<job, message, queue, dlq, consumer, admin, event, oversize,
          handedOff, expired>>
history == <<handedOff, expired>>

\* dispatch_until, next_attempt_at and lease_until as facts about now;
\* first_attempt_at is NULL, inside the 23 h window, or past it, and envelope
\* is non-NULL exactly when first_attempt_at is (one statement writes both).
JobRow == [status: Statuses, attempts: 0..MaxAttempts,
           generation: Generations, terminal: Reasons,
           lease: BOOLEAN, reserved: BOOLEAN, backoff: BOOLEAN,
           first: {"none", "recent", "old"}, sendAttempted: BOOLEAN,
           providerId: Generations \cup {NoId}]

Invocation == [pc: PCs, generation: Generations, attempts: 0..MaxAttempts,
               first: {"none", "recent", "old"}, sendAttempted: BOOLEAN,
               code: Reasons, terminal: BOOLEAN]

Idle == [pc |-> "idle", generation |-> 0, attempts |-> 0, first |-> "none",
         sendAttempted |-> FALSE, code |-> "none", terminal |-> FALSE]

NoRequest == [open |-> FALSE, generation |-> 0, reason |-> "none"]

Init ==
  /\ job = [status |-> "pending", attempts |-> 0, generation |-> 0,
            terminal |-> "none", lease |-> FALSE, reserved |-> FALSE,
            backoff |-> FALSE, first |-> "none", sendAttempted |-> FALSE,
            providerId |-> NoId]
  /\ message = "queued"
  /\ queue = FALSE
  /\ dlq = {}
  /\ consumer = [c \in Consumers |-> Idle]
  /\ admin = NoRequest
  /\ event = [e \in Events |-> "new"]
  /\ oversize \in SUBSET Generations
  /\ handedOff = [g \in Generations |-> 0]
  /\ expired = {}

(***************************************************************************)
(* dispatchMail: reserve, then enqueue.  The statement is the same for the *)
(* Cron, the reply routes and the retry route.  A failed sendBatch is only *)
(* logged; the reservation keeps the job out of reach until it expires.    *)
(***************************************************************************)
Dispatchable ==
  /\ job.status \in {"pending", "failed"}
  /\ job.terminal = "none"
  /\ job.attempts < MaxAttempts
  /\ ~job.lease /\ ~job.reserved /\ ~job.backoff

Dispatch(enqueued) ==
  /\ Dispatchable
  /\ job' = [job EXCEPT !.reserved = TRUE]
  /\ queue' = (queue \/ enqueued)
  /\ UNCHANGED <<message, dlq, consumer, admin, event, oversize, history>>

(***************************************************************************)
(* processOutboundMail, one action per awaited statement.                  *)
(***************************************************************************)
\* What no action of an invocation touches, the dead-letter queue apart.
Environment == <<dlq, admin, event, oversize>>

Goto(c, pc) == consumer' = [consumer EXCEPT ![c].pc = pc]

\* A failure thrown: `terminal` is decided here, and locals that are not read
\* again are dropped.
Fail(c, pc, code, terminal) ==
  consumer' = [consumer EXCEPT ![c] =
    [Idle EXCEPT !.pc = pc, !.generation = consumer[c].generation, !.code = code,
       !.terminal = terminal \/ consumer[c].attempts >= MaxAttempts]]

\* A delivery and the first SELECT.  Delivery is at least once: the message may
\* stay on the queue.  A job already sent is acknowledged without more.
Receive(c) ==
  /\ consumer[c].pc = "idle"
  /\ queue
  /\ queue' \in BOOLEAN
  /\ consumer' =
       IF job.status = "sent" THEN consumer
       ELSE [consumer EXCEPT ![c] =
              [Idle EXCEPT !.pc = "read", !.generation = job.generation,
                           !.first = job.first,
                           !.sendAttempted = job.sendAttempted]]
  /\ UNCHANGED <<job, message, Environment, history>>

MClaimUnbounded(c) ==
  /\ job.status /= "sent" /\ job.terminal = "none"
  /\ ~job.lease /\ ~job.backoff
  /\ job.generation = consumer[c].generation

\* The WHERE clause of the claim.
Claimable(c) ==
  /\ job.status /= "sent" /\ job.terminal = "none"
  /\ job.attempts < MaxAttempts
  /\ ~job.lease /\ ~job.backoff
  /\ job.generation = consumer[c].generation

Claim(c) ==
  /\ consumer[c].pc = "read"
  /\ IF Claimable(c)
     THEN /\ job' = [job EXCEPT !.status = "processing", !.lease = TRUE,
                                !.attempts = job.attempts + 1]
          /\ consumer' = [consumer EXCEPT ![c].pc = "claimed",
                                          ![c].attempts = job.attempts + 1]
     ELSE /\ consumer' = [consumer EXCEPT ![c] = Idle]
          /\ UNCHANGED job
  /\ UNCHANGED <<message, queue, Environment, history>>

\* The message row says the reply already went out.
FindMessageSent(c) ==
  /\ consumer[c].pc = "claimed"
  /\ message = "sent"
  /\ Goto(c, "confirm")
  /\ UNCHANGED <<job, message, queue, Environment, history>>

\* ... and the job is closed with it.  The lease is left to run out.
ConfirmSent(c) ==
  /\ consumer[c].pc = "confirm"
  /\ job' = [job EXCEPT !.status = "sent"]
  /\ consumer' = [consumer EXCEPT ![c] = Idle]
  /\ UNCHANGED <<message, queue, Environment, history>>

MPrepareAnyAge(c) ==
  /\ consumer[c].pc = "claimed"
  /\ message /= "sent"
  /\ job' = IF consumer[c].first = "none" THEN [job EXCEPT !.first = "recent"]
            ELSE job
  /\ consumer' = [consumer EXCEPT ![c].pc = "prepared", ![c].first = "none"]
  /\ UNCHANGED <<message, queue, Environment, history>>

\* Provider, inbox and retry-window checks pass and the envelope is frozen if
\* this invocation read none.  The write carries no generation.
Prepare(c) ==
  /\ consumer[c].pc = "claimed"
  /\ message /= "sent"
  /\ consumer[c].first /= "old"
  /\ consumer[c].first = "none" => consumer[c].generation \notin oversize
  /\ job' = IF consumer[c].first = "none" THEN [job EXCEPT !.first = "recent"]
            ELSE job
  /\ consumer' = [consumer EXCEPT ![c].pc = "prepared", ![c].first = "none"]
  /\ UNCHANGED <<message, queue, Environment, history>>

\* Before the envelope: a missing provider or inbox, an oversize manifest, a
\* closed window, or a failed query.
PrepareFails(c) ==
  /\ consumer[c].pc = "claimed"
  /\ message /= "sent"
  /\ \/ Fail(c, "fail", "config", TRUE)
     \/ /\ consumer[c].first = "none" /\ consumer[c].generation \in oversize
        /\ Fail(c, "unmark", "refused", TRUE)
     \/ /\ consumer[c].first = "old"
        /\ Fail(c, "fail", "delivery_uncertain", TRUE)
     \/ Fail(c, "fail", "delivery_uncertain", FALSE)
  /\ UNCHANGED <<job, message, queue, Environment, history>>

\* resolveOutboundAttachments and provider.precheck.
PrecheckFails(c) ==
  /\ consumer[c].pc = "prepared"
  /\ \/ Fail(c, "fail", "config", TRUE)
     \/ /\ consumer[c].generation \in oversize
        /\ Fail(c, "unmark", "refused", TRUE)
     \/ Fail(c, "fail", "delivery_uncertain", FALSE)
  /\ UNCHANGED <<job, message, queue, Environment, history>>

MUnattemptedFenceOnly(c) ==
  job.generation = consumer[c].generation

\* The WHERE clause of the attempt marker.
Unattempted(c) ==
  /\ job.generation = consumer[c].generation
  /\ ~job.sendAttempted

\* What the send and its outcome still read.
Proceed(c) ==
  consumer' = [consumer EXCEPT ![c] =
    [Idle EXCEPT !.pc = "sending", !.generation = consumer[c].generation,
                 !.attempts = consumer[c].attempts]]

\* The attempt marker of a provider that cannot collapse a repeated send.
Mark(c) ==
  /\ consumer[c].pc = "prepared"
  /\ consumer[c].generation \notin oversize
  /\ \/ /\ Idempotent
        /\ Proceed(c)
        /\ UNCHANGED job
     \/ /\ ~Idempotent /\ ~consumer[c].sendAttempted /\ Unattempted(c)
        /\ job' = [job EXCEPT !.sendAttempted = TRUE]
        /\ Proceed(c)
     \/ /\ ~Idempotent /\ (consumer[c].sendAttempted \/ ~Unattempted(c))
        /\ Fail(c, "fail", "delivery_uncertain", TRUE)
        /\ UNCHANGED job
  /\ UNCHANGED <<message, queue, Environment, history>>

CountHandOff(c) ==
  handedOff' = [handedOff EXCEPT ![consumer[c].generation] = @ + 1]

\* provider.send returned a message id.
SendAccepted(c) ==
  /\ consumer[c].pc = "sending"
  /\ CountHandOff(c)
  /\ Goto(c, "record")
  /\ UNCHANGED <<job, message, queue, Environment, expired>>

MSendRefusedUnchecked(c) ==
  /\ consumer[c].pc = "sending"
  /\ Goto(c, "record")
  /\ UNCHANGED <<job, message, queue, Environment, history>>

\* The provider refused: nothing left the Worker.  Cloudflare's refusal is
\* provider_rejected; Resend answers 4xx, or an error worth retrying.
SendRefused(c) ==
  /\ consumer[c].pc = "sending"
  /\ IF Idempotent THEN \E terminal \in BOOLEAN : Fail(c, "fail", "config", terminal)
     ELSE Fail(c, "unmark", "refused", TRUE)
  /\ UNCHANGED <<job, message, queue, Environment, history>>

\* A timeout or a broken connection: the mail may have left.  The code stops a
\* non-idempotent job and retries an idempotent one.
SendUnknown(c) ==
  /\ consumer[c].pc = "sending"
  /\ CountHandOff(c)
  /\ Fail(c, "fail", "delivery_uncertain", ~Idempotent)
  /\ UNCHANGED <<job, message, queue, Environment, expired>>

\* The success batch: one transaction, not fenced by generation.
RecordSent(c) ==
  /\ consumer[c].pc = "record"
  /\ message' = IF job.terminal = "none" THEN "sent" ELSE "failed"
  /\ job' = [job EXCEPT !.status = IF job.terminal = "none" THEN "sent" ELSE "failed",
                        !.lease = FALSE,
                        !.providerId = consumer[c].generation]
  /\ consumer' = [consumer EXCEPT ![c] = Idle]
  /\ UNCHANGED <<queue, Environment, history>>

\* The batch itself fails: the catch block takes it for a failed delivery.
RecordSentFails(c) ==
  /\ consumer[c].pc = "record"
  /\ Fail(c, "fail", "delivery_uncertain", FALSE)
  /\ UNCHANGED <<job, message, queue, Environment, history>>

\* catch: a proven refusal clears the marker of its own generation.
Unmark(c) ==
  /\ consumer[c].pc = "unmark"
  /\ job' = IF job.generation = consumer[c].generation
            THEN [job EXCEPT !.sendAttempted = FALSE] ELSE job
  /\ Goto(c, "fail")
  /\ UNCHANGED <<message, queue, Environment, history>>

\* catch: the job row, unless something terminal was recorded meanwhile.
RecordFailure(c) ==
  /\ consumer[c].pc = "fail"
  /\ job' = IF job.terminal /= "none" THEN job
            ELSE [job EXCEPT !.status = "failed", !.lease = FALSE,
                             !.reserved = TRUE, !.backoff = TRUE,
                             !.terminal = IF consumer[c].terminal
                                          THEN consumer[c].code ELSE "none"]
  /\ Goto(c, "failMessage")
  /\ UNCHANGED <<message, queue, Environment, history>>

\* A message reaches the dead-letter queue: generation g is what it was about,
\* though its body does not say so.
DeadLetter(g) ==
  /\ dlq' = dlq \cup {g}
  /\ UNCHANGED queue

\* A retried delivery goes back to the queue, or to the dead-letter queue once
\* the platform has spent its retries.
GiveBack(c) ==
  \/ /\ queue' = TRUE
     /\ UNCHANGED dlq
  \/ DeadLetter(consumer[c].generation)

\* catch: the message row, then the queue handler's answer to the rethrow.
FailMessage(c) ==
  /\ consumer[c].pc = "failMessage"
  /\ message' = "failed"
  /\ IF consumer[c].terminal
     THEN DeadLetter(consumer[c].generation)
     ELSE GiveBack(c)
  /\ consumer' = [consumer EXCEPT ![c] = Idle]
  /\ UNCHANGED <<job, admin, event, oversize, handedOff, expired>>

\* The invocation dies after its claim; the lease stays on the row.
Crash(c) ==
  /\ consumer[c].pc \notin {"idle", "read"}
  /\ consumer' = [consumer EXCEPT ![c] = Idle]
  /\ GiveBack(c)
  /\ UNCHANGED <<job, message, admin, event, oversize, handedOff, expired>>

\* A message whose deliveries keep failing before the claim.
Exhaust ==
  /\ queue
  /\ dlq' = dlq \cup {job.generation}
  /\ queue' = FALSE
  /\ UNCHANGED <<job, message, consumer, admin, event, oversize, handedOff,
                 expired>>

(***************************************************************************)
(* The dead-letter consumer.  Its UPDATE looks at the job as it is now; a  *)
(* failed write is logged and the letter acknowledged all the same.        *)
(***************************************************************************)
DrainLetter(g, written) ==
  /\ g \in dlq
  /\ dlq' = dlq \ {g}
  /\ IF written
     THEN /\ job' = IF job.status /= "sent" /\ job.terminal = "none"
                    THEN [job EXCEPT !.status = "failed", !.lease = FALSE,
                                     !.terminal = "queue_exhausted",
                                     !.reserved = FALSE]
                    ELSE job
          /\ message' = IF message = "queued" THEN "failed" ELSE message
     ELSE UNCHANGED <<job, message>>
  /\ UNCHANGED <<queue, consumer, admin, event, oversize, history>>

(***************************************************************************)
(* The Cron's batch: stalled jobs first, then jobs out of attempts or out  *)
(* of the retry window, in one transaction.                                *)
(***************************************************************************)
Unstall(j) ==
  IF j.status = "processing" /\ ~j.lease
  THEN [j EXCEPT !.status = "failed", !.reserved = FALSE, !.backoff = FALSE]
  ELSE j

MStopSpentWindowOnly(j) ==
  IF /\ j.status \in {"pending", "failed"} /\ j.terminal = "none"
     /\ j.first = "old"
  THEN [j EXCEPT !.status = "failed", !.terminal = "delivery_uncertain"]
  ELSE j

StopSpent(j) ==
  IF /\ j.status \in {"pending", "failed"} /\ j.terminal = "none"
     /\ j.attempts >= MaxAttempts \/ j.first = "old"
  THEN [j EXCEPT !.status = "failed", !.terminal = "delivery_uncertain"]
  ELSE j

Sweep ==
  /\ job' = StopSpent(Unstall(job))
  /\ job' /= job
  /\ UNCHANGED <<message, queue, consumer, Environment, history>>

(***************************************************************************)
(* The administrator's retry: a SELECT, the refusals, then one guarded     *)
(* UPDATE.  dispatchMail follows; Dispatch is enabled by the UPDATE.       *)
(***************************************************************************)
Stopped == job.status = "failed" /\ job.terminal /= "none"

MNeedsAckMarkerOnly == job.sendAttempted \/ job.terminal = "delivery_uncertain"

NeedsAck ==
  \/ job.first /= "none"
  \/ job.sendAttempted
  \/ job.terminal = "delivery_uncertain"

OpenRetry(ack) ==
  /\ ~admin.open
  /\ Stopped
  /\ job.terminal /= "complained"
  /\ NeedsAck => ack
  /\ job.generation < MaxGeneration
  /\ admin' = [open |-> TRUE, generation |-> job.generation,
               reason |-> job.terminal]
  /\ UNCHANGED <<job, message, queue, dlq, consumer, event, oversize, history>>

MStillStoppedAnyReason ==
  /\ job.generation = admin.generation
  /\ job.status = "failed" /\ ~job.lease

\* The WHERE clause of the retry.
StillStopped ==
  /\ job.generation = admin.generation
  /\ job.status = "failed" /\ ~job.lease
  /\ job.terminal = admin.reason

Retry ==
  /\ admin.open
  /\ admin' = NoRequest
  /\ IF StillStopped
     THEN job' = [job EXCEPT !.status = "pending", !.terminal = "none",
                   !.attempts = 0, !.reserved = FALSE, !.backoff = FALSE,
                   !.generation = job.generation + 1, !.first = "none",
                   !.sendAttempted = FALSE]
     ELSE UNCHANGED job
  /\ UNCHANGED <<message, queue, dlq, consumer, event, oversize, history>>

(***************************************************************************)
(* applyDeliveryEvent for an event <<g, outcome>> about the copy handed    *)
(* off in generation g.  The message and the job are updated in separate   *)
(* statements; an event found in flight after a crash starts over, since   *)
(* processed_at is still NULL.                                             *)
(***************************************************************************)
Owned(e) == job.providerId = e[1]

\* No job carries the id.  Resend's event is marked processed; Cloudflare's is
\* redelivered a few times, which is leaving it new, and then acknowledged.
MissEvent(e) ==
  /\ event[e] = "new" /\ handedOff[e[1]] > 0
  /\ ~Owned(e)
  /\ event' = [event EXCEPT ![e] = "processed"]
  /\ UNCHANGED <<job, message, queue, dlq, consumer, admin, oversize, history>>

EventMessage(e) ==
  /\ event[e] = "new" /\ handedOff[e[1]] > 0
  /\ Owned(e)
  /\ message' = IF job.terminal /= "none" THEN message
                ELSE IF e[2] = "delivered" THEN "sent" ELSE "failed"
  /\ event' = [event EXCEPT ![e] = IF e[2] = "delivered" THEN "processed"
                                   ELSE "job"]
  /\ UNCHANGED <<job, queue, dlq, consumer, admin, oversize, history>>

\* A complaint already recorded stays; any other reason is replaced.
Negative(e) ==
  [job EXCEPT !.status = "failed",
    !.terminal = IF job.terminal = "complained" THEN "complained" ELSE e[2]]

EventJob(e) ==
  /\ event[e] = "job"
  /\ job' = IF Owned(e) THEN Negative(e) ELSE job
  /\ event' = [event EXCEPT ![e] = "processed"]
  /\ UNCHANGED <<message, queue, dlq, consumer, admin, oversize, history>>

EventCrash(e) ==
  /\ event[e] = "job"
  /\ event' = [event EXCEPT ![e] = "new"]
  /\ UNCHANGED <<job, message, queue, dlq, consumer, admin, oversize, history>>

(***************************************************************************)
(* Time.  A lease lasts twenty minutes from its claim, longer than any     *)
(* invocation may run, so when one runs out no invocation that claimed is  *)
(* still going.  Twenty-three hours outlast every invocation.              *)
(***************************************************************************)
LeaseExpires ==
  /\ job.lease
  /\ \A c \in Consumers : consumer[c].pc \in {"idle", "read"}
  /\ job' = [job EXCEPT !.lease = FALSE]
  /\ UNCHANGED <<message, queue, consumer, Environment, history>>

ReservationExpires ==
  /\ job.reserved
  /\ job' = [job EXCEPT !.reserved = FALSE]
  /\ UNCHANGED <<message, queue, consumer, Environment, history>>

BackoffEnds ==
  /\ job.backoff
  /\ job' = [job EXCEPT !.backoff = FALSE]
  /\ UNCHANGED <<message, queue, consumer, Environment, history>>

WindowCloses ==
  /\ job.first = "recent"
  /\ \A c \in Consumers : consumer[c].pc = "idle"
  /\ job' = [job EXCEPT !.first = "old"]
  /\ expired' = expired \cup 0..job.generation
  /\ UNCHANGED <<message, queue, consumer, Environment, handedOff>>

Invoke(c) ==
  \/ Claim(c) \/ FindMessageSent(c) \/ ConfirmSent(c)
  \/ Prepare(c) \/ PrepareFails(c) \/ PrecheckFails(c) \/ Mark(c)
  \/ SendAccepted(c) \/ SendRefused(c) \/ SendUnknown(c)
  \/ RecordSent(c) \/ RecordSentFails(c) \/ Unmark(c) \/ RecordFailure(c) \/ FailMessage(c)

Next ==
  \/ \E enqueued \in BOOLEAN : Dispatch(enqueued)
  \/ \E c \in Consumers : Receive(c) \/ Invoke(c) \/ Crash(c)
  \/ Exhaust
  \/ \E g \in Generations, written \in BOOLEAN : DrainLetter(g, written)
  \/ Sweep
  \/ \E ack \in BOOLEAN : OpenRetry(ack)
  \/ Retry
  \/ \E e \in Events : MissEvent(e) \/ EventMessage(e) \/ EventJob(e) \/ EventCrash(e)
  \/ LeaseExpires \/ ReservationExpires \/ BackoffEnds \/ WindowCloses

Spec == Init /\ [][Next]_vars

(***************************************************************************)
(* Fairness.  The Cron fires every five minutes and the platform delivers  *)
(* what is queued; an invocation runs on or dies; clocks advance; and an   *)
(* enqueue does not fail every time it is tried.  Nothing obliges the      *)
(* administrator, the provider's events or a crash to happen.              *)
(***************************************************************************)
Fairness ==
  /\ SF_vars(Dispatch(TRUE))
  /\ \A c \in Consumers : SF_vars(Receive(c)) /\ WF_vars(Invoke(c))
  /\ WF_vars(Sweep)
  /\ WF_vars(Retry)
  /\ WF_vars(LeaseExpires)
  /\ WF_vars(ReservationExpires)
  /\ WF_vars(BackoffEnds)

FairSpec == Spec /\ Fairness

(***************************************************************************)
(* Properties.                                                             *)
(***************************************************************************)
\* Every column and local variable has the values the code can write, and no job
\* is ever claimed more than MaxAttempts times.
TypeOK ==
  /\ job \in JobRow
  /\ message \in {"queued", "sent", "failed"}
  /\ queue \in BOOLEAN
  /\ dlq \in SUBSET Generations
  /\ consumer \in [Consumers -> Invocation]
  /\ admin \in [open : BOOLEAN, generation : Generations, reason : Reasons]
  /\ event \in [Events -> {"new", "job", "processed"}]
  /\ oversize \in SUBSET Generations
  /\ handedOff \in [Generations -> Nat]
  /\ expired \in SUBSET Generations

\* A provider without an idempotency key is called at most once per generation
\* without refusing: crashes, duplicate deliveries, dead letters that free the
\* lease under a running invocation and retries never send a second copy.
AtMostOneHandOff ==
  ~Idempotent => \A g \in Generations : handedOff[g] <= 1

\* The promise, seen from outside: see MailPromise.
Promise == INSTANCE MailPromise WITH
  generation <- job.generation,
  copies <- [g \in Generations |-> IF handedOff[g] > 0 THEN 1 ELSE 0],
  blocked <- job.terminal = "complained"

\* The outbox implements the promise: one mail per idempotency key, new keys only
\* from the administrator, and a recorded complaint is never undone, whatever the
\* retry request had read before the complaint arrived.
KeepsPromise == Promise!Spec

\* No idempotency key is used once 23 hours have passed since the job's first
\* attempt under it: past the provider's memory the same key is a second mail.
NoSendAfterWindow ==
  [][\A g \in Generations : handedOff'[g] > handedOff[g] => g \notin expired]_vars

\* Whenever a mail of the current generation may have left, the retry route asks
\* for the duplicate-risk acknowledgement, whichever invocation handed it off and
\* whichever columns another one has written since.
DuplicateRiskShown == handedOff[job.generation] > 0 => NeedsAck

\* A reply shown as sent was handed to the provider in some generation: no
\* combination of refusals, events and dead letters reports a mail never sent.
SentWasHandedOff ==
  job.status = "sent" => \E g \in Generations : handedOff[g] > 0

\* An outbox row never stays undecided: it is sent, or it is stopped where the
\* administrator sees it, however often invocations die and enqueues are lost.
Settles == []<>(job.status = "sent" \/ job.terminal /= "none")

\* A claimed job is closed as already sent only if its generation was handed off.
\* It does not hold: a late event for an earlier copy changes the message.
ResendHandsOff ==
  [][\A c \in Consumers :
       ConfirmSent(c) => handedOff[consumer[c].generation] > 0]_vars

\* The dead-letter consumer stops a job only for a letter of its own generation.
\* It does not hold: the UPDATE matches the job alone.
DeadLettersOwnGeneration ==
  [][job'.terminal = "queue_exhausted" /\ job.terminal /= "queue_exhausted"
       => job.generation \in dlq]_vars
=============================================================================
