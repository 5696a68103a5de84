# ResolveHQ in TLA+

ResolveHQ is a shared support inbox that runs as one Cloudflare Worker: Hono
serves the API, `email()` accepts mail, queue consumers send and receive mail and
run maintenance, and a Cron repairs what was interrupted. Its durable state is in
D1 (SQLite) and R2, and D1 offers statements and batches, no interactive
transactions: every `await` is a point where another request, another queue
delivery or the Cron can run. What is hard about the program is what happens
between two statements, and that is what these modules are about.

Paths below are relative to the repository's `src/` (`worker.ts`, `server/...`,
`web/...`; `mail/queue.ts` is `server/mail/queue.ts`).

## Files

| module | models | checked in run |
| --- | --- | --- |
| `OutboundMail` | a reply on its way out: outbox job, queue, dead letters, Cron, retry, delivery events | `OutboundCloudflare`, `MailSettles` |
| `MailPromise` | what the outbox promises, seen from outside; `OutboundMail` implements it | `MailSettles` |
| `InboundMail` | one customer mail on its way in, delivered several times | `InboundDeliveries`, `InboundOverlap`, `MailSettles` |
| `IntakePromise` | what taking in a mail promises, seen from outside; `InboundMail` implements it | `InboundOverlap` |
| `MailStaging` | the raw copy of a stopped mail between its cleanup and a manual retry | `StagedRetry` |
| `CustomerRefresh` | the maintenance task that rewrites a customer's name in search texts | `RefreshOverlap`, `Settling` |
| `WebhookDelivery` | deliveries of one webhook endpoint | `Settling` |
| `AgentReplies` | a draft submitted several times, its files and its outbox job | `Settling` |
| `TicketDesk` | the row of one ticket and everything that writes it | `AgentWork` |
| `Drafts` | unsent replies in tabs and on the server | `AgentWork` |
| `Surveys` | the satisfaction survey of one ticket | `Erasure` |
| `QueuePaging` | a list walked page by page while it changes | `AgentWork` |
| `Conversation` | the messages of a ticket read page by page, and the read mark | `AgentWork` |
| `Automations` | rules, their runs, tags, and the tags in the search row | `AgentWork` |
| `BusinessHours` | the arithmetic of working time | `AgentWork` |
| `Accounts` | users, workspaces, memberships, invitations, sessions | `AgentWork` |
| `AttachmentStore` | uploads, rows, bytes, links and cleanups | `Upkeep` |
| `WorkspaceExport` | the sliced export of a workspace to R2 | `Upkeep`, `ExportOverlap` |
| `CustomerExport` | the export of one customer's record | `Upkeep` |
| `Inboxes` | which inbox a recipient address belongs to | `Upkeep` |
| `KnowledgeBase` | articles and their editors | `Upkeep` |
| `Readiness` | the deployment checklist and its cache | `Upkeep` |
| `Directory` | customers and their addresses | `Upkeep` |
| `CustomerErasure` | erasing a customer beside mail, retries and a merge | `Erasure`, `ErasedStays` |

`MCOutboundMail`, `MCInboundMail`, `MCCustomerRefresh` and `MCCustomerErasure` give one module
its instance; `MCMailSettles`, `MCSettling`, `MCAgentWork`, `MCUpkeep` and `MCErasure` put
several modules into one run, and `MCExportOverlap` two Cron runs beside each other (see
*Runs*). `PROJECT.json` lists components, runs, mutants, the source map, hazards, findings and
theorems.

The theorems are in

| module | proves about |
| --- | --- |
| `OutboundMailProofs` | `OutboundMail`, `MailPromise` |
| `InboundMailProofs` | `InboundMail`, `IntakePromise` |
| `CustomerRefreshProofs` | `CustomerRefresh` |
| `SettlingProofs` | `AgentReplies`, `WebhookDelivery`, their composition `MCSettling` |
| `AgentWorkProofs` | `TicketDesk`, `Automations`, `BusinessHours`, `Accounts`, `Drafts`, `QueuePaging`, `Conversation`, their composition `MCAgentWork` |
| `AttachmentStoreProofs` | `AttachmentStore` |
| `UpkeepProofs` | `KnowledgeBase`, `Readiness`, `Inboxes`, `Directory`, `WorkspaceExport`, `CustomerExport`, their composition `MCUpkeep` |
| `CustomerErasureProofs` | `CustomerErasure`, `Surveys` |

Definitions whose names begin with `M` and stand right before the definition they
resemble (`MCatchUnchecked` before `Catch`) are its mutants: the same operation with
a plausible bug, which the property named in `PROJECT.json` detects.

## Inventory

What each part keeps, what is hard about it, and where it is.

**Outbound mail** (`mail/queue.ts` `processOutboundMail`, `mail/reliability.ts`,
`mail/recovery.ts`, `mail/delivery-events.ts`, `providers/mail.ts`, the dead-letter
consumer of `worker.ts`, `maintenance/scheduled.ts`). State: `outbound_mail_jobs` and
`messages.delivery_status`. The queue delivers at least once and keeps no order;
invocations overlap once something frees a lease; a send may have happened although
the Worker never heard so; delivery events race with retries. Correct when no
automatic path sends a second copy, complaints stick, the administrator is warned
whenever a copy may have left, and nothing stays undecided. `OutboundMail`.

**Agents' replies** (`tickets/routes.ts`, the recovery of `maintenance/scheduled.ts`).
A reply is written, claims its files, gets a job and is answered, in statements of
their own; the composer submits again. `AgentReplies`; its attachments also in
`AttachmentStore`, the ticket's side in `TicketDesk`.

**Inbound mail** (`worker.ts` `email()`, `processInboundMail`). State:
`inbound_mail_events`, staged MIME in R2, the message, its ticket, attachments,
notifications, webhook events, automation runs. Duplicate deliveries, passes cut short
anywhere and repeated, a mail split over several passes. Correct when an accepted mail
is never lost, its side effects happen, and a repeated pass does not undo what agents
did. `InboundMail` for one mail, `MailStaging` for what becomes of its raw copy,
`Inboxes` for the inbox it is filed with, `CustomerErasure` for the sender.

**Maintenance tasks** (`maintenance/service.ts`, `maintenance/retention.ts`). State:
`maintenance_tasks` with generation, lease, dispatch reservation and cursor. A task is
re-requested while a worker holds it. `CustomerRefresh` has the row with its queue;
`CustomerErasure`, `AttachmentStore` and `MailStaging` have the work of the other
kinds.

**Customer erasure, merge, export of a customer** (`privacy/service.ts`,
`privacy/routes.ts`, `customers/merge.ts`). Mail arrives for a customer being erased;
a merge races a request; mail that is staged, in process or failed is treated
differently. Correct when a completed task left nothing of the customer and stopped
the mail it says it stops. `CustomerErasure`, `Directory` (merges), `CustomerExport`.

**Attachments** (`attachments/routes.ts`, `attachments/stream.ts`). Bytes in R2 and rows
in D1 without a common transaction. Correct when what can be opened has its bytes.
`AttachmentStore`.

**Tickets** (`tickets/service.ts`, `tickets/routes.ts`, `tickets/bulk.ts`,
`tickets/snooze.ts`, `sla/service.ts`, `maintenance/scheduled.ts`). Writes that compare
the version beside writes that do not, targets computed from a row read earlier. Correct
when stamps agree with the status, snoozed time is counted once, a customer's reply is
not slept over, a breach is announced once. `TicketDesk`; the arithmetic of targets in
`BusinessHours`.

**Automations and tags** (`automations/`, `tags/routes.ts`). Rules are changed while a
pass runs them, a pass may be repeated or die. `Automations`.

**Webhook delivery** (`webhooks/outbound.ts`, `webhooks/endpoints-routes.ts`). The
immediate attempt and the Cron work on the same row without a claim.
`WebhookDelivery`.

**Workspace export** (`backups/`). One cursor, numbered objects, ticks that die
and ticks that overlap, starts that overlap. Correct when a completed export misses no
row and no export keeps another waiting.
`WorkspaceExport`.

**What the web client keeps** (`web/hooks/use-draft.ts`, `use-tickets.ts`,
`use-conversation.ts`, `pages/inbox.tsx`, `pages/knowledge-base.tsx`, `pages/rate.tsx`):
autosaved drafts, pages of lists that change, forms with a version. `Drafts`,
`QueuePaging`, `Conversation`, `KnowledgeBase`, `Surveys`.

**Surveys** (`csat/`, and the merge of a ticket's customer), **customers and identities**
(`customers/`), **inbox administration and sign-up** (`organizations/routes.ts`,
`auth/routes.ts`), **sessions** (`auth/session.ts`), **API keys** (`auth/api-key.ts`,
`api-keys/routes.ts`), **knowledge base**, **readiness** (`operations/readiness.ts`): reads in
one statement, writes in a later one, unique indexes in between. `Surveys`, `Directory`,
`Inboxes`, `Accounts`, `KnowledgeBase`, `Readiness`; API keys have no module (see *Not
modelled*).

The parts meet in D1. A reply is written by `tickets/routes.ts` (`AgentReplies`) and
carried by the outbox (`OutboundMail`), which may put a survey in it (`Surveys`); the
customer's answer enters through `email()` (`Inboxes`, `InboundMail`), becomes a
message, wakes and reopens the ticket (`TicketDesk`), fires webhooks
(`WebhookDelivery`) and automations (`Automations`); the Cron drives recovery, SLA,
snooze, webhooks, exports and cleanup; erasure stops mail of both directions. Where two
modules share a table, each has the other's writes as the effect they have on it: the
pass of `InboundMail` is one action of `TicketDesk` (`CustomerReply`) and several of
`CustomerErasure`.

## Conventions

An action is one awaited statement or batch with the code up to the next one; locals of
a request are a record with a program counter (`pc` or `at`). D1 statements and batches
are atomic and durable; R2 puts and deletes take effect at once. A statement that fails
has no effect; one that commits although its answer is lost is a commit followed by the
request's end. Every request may end between two statements (`...Dies`, `...Ends`),
which also stands for errors that only reach the client. Unique indexes and foreign keys
are guards or branches where the code relies on them. A clock is a counter, or a Boolean
where the code only asks "past or not". Requests that change nothing (refusals by
validation, by role, by a missing row) are not actions. History variables are named as
such beside their declaration; they serve the properties.

## OutboundMail

One job: every statement of the code is keyed by one job id. A queue body is
`{kind, jobId}` and equal for all generations, so the queue is a Boolean; the
dead-letter queue remembers which generation a letter was about, though the code
cannot see it. `lease_until`, `dispatch_until` and `next_attempt_at` are the
Booleans `lease`, `reserved`, `backoff` ("lies in the future"); `first_attempt_at`
is `none`, `recent` or `old` (past the 23 h window). `consumer` holds the locals of
the invocations in flight with a program counter, one action per awaited statement
of `processOutboundMail`; a `catch` block is the steps `Unmark`, `RecordFailure`,
`FailMessage`. `admin` is a retry request between its SELECT and its UPDATE.
`event` is the progress of `applyDeliveryEvent` for each possible event.
`handedOff` and `expired` are history variables.

| action | code |
| --- | --- |
| `Dispatch` | `dispatchMail` (and its callers: Cron, reply route, retry route) |
| `Receive`, `Claim`, `FindMessageSent`, `ConfirmSent`, `Prepare(Fails)`, `PrecheckFails`, `Mark`, `Send*`, `RecordSent(Fails)`, `Unmark`, `RecordFailure`, `FailMessage` | `processOutboundMail` and the queue handler's answer |
| `Crash`, `Exhaust` | the platform: a dead invocation, retries spent before a claim |
| `DrainLetter` | dead-letter consumer, `worker.ts` |
| `Sweep` | the mail statements of `runScheduled` |
| `OpenRetry`, `Retry` | `POST /:id/retry` in `mail/recovery.ts` |
| `MissEvent`, `EventMessage`, `EventJob`, `EventCrash` | `applyDeliveryEvent` |
| `LeaseExpires`, `ReservationExpires`, `BackoffEnds`, `WindowCloses` | clocks |

Lease and window expire only when no invocation that claimed is still running:
leases last twenty minutes and the window 23 hours, longer than an invocation may
live. Errors whose codes are treated alike share a reason (`refused` for the two
codes that clear the attempt marker, `config` for other permanent failures).

### Runs

| run | instance | shows |
| --- | --- | --- |
| `OutboundCloudflare` | no idempotency key, two invocations, two attempts, one administrator retry, deliveries and complaints | at most one hand-off per generation; attempts bounded; `sent` never without a hand-off |
| `MailSettles`, part `out` | idempotency key, one invocation, complaints, fairness | the duplicate-risk warning is shown whenever a copy may be out; no key is used after its window; `MailPromise` is implemented; every job settles |

Two invocations are what overlapping needs (one frees the lease, the other claims);
two attempts distinguish "retry" from "exhausted"; one retry gives two generations,
enough for every stale-generation case. Invocations are interchangeable and hold no
state across jobs, so symmetry is sound in the safety run; the fair run has one.

Fairness (`Fairness`): the Cron fires every five minutes and the platform delivers
what is queued, so `Dispatch(TRUE)` and `Receive` are strongly fair (a delivery or an
enqueue may fail, not for ever), invocation steps are weakly fair (they run on or
`Crash`, which also ends them), and clocks advance. Crashes, the administrator's
first step, delivery events and dead letters owe nothing.

### What is proved

`OutboundMailProofs` proves for every number of invocations, attempts and retries:

- `TypeCorrect`: `Spec => []TypeOK`. `TypeOK` alone is not inductive: a recorded
  delivery event must be a negative one for `Negative` to stay typed, and a retry
  request must carry a generation that can be incremented. `TypeInv` adds both.
- `HandsOffAtMostOnce`: `Spec => []AtMostOneHandOff`. The inductive invariant
  `HandOffInv` says, for a provider without idempotency key: an invocation about to
  send has the marker of its generation set and nothing handed off yet
  (`OwnerFirst`); two such invocations never share a generation (`OwnerAlone`); a
  generation handed off keeps its marker unless the job has moved on
  (`MarkerKept`); an oversize mail is never handed off, which is why clearing the
  marker for one is safe (`OversizeStays`); and no invocation belongs to a later
  generation than the job's (`GenerationBound`). The lease plays no part in the
  argument: the marker alone carries it, so it holds although dead letters free
  leases under running invocations.
- `ImplementsPromise`: `Spec => KeepsPromise`, step simulation under the mapping
  `generation <- job.generation`, `copies <- handed off or not`,
  `blocked <- complained`. The interesting case is the retry: what it read may be
  old, and only `terminal_reason = ?` in its WHERE clause keeps a complaint that
  arrived meanwhile.
- `RiskIsShown`: `Spec => []DuplicateRiskShown`, with a provider of either kind:
  `first_attempt_at` is written before a mail of its generation can leave, and nobody takes
  it back (`FirstWritten`), so the retry route, which looks at it, asks for the
  acknowledgement.
- `WindowIsKept`: `Spec => NoSendAfterWindow`, an action property. `WindowInv` adds to
  `FirstWritten` that a generation whose window has closed shows it, and nobody who may
  still send is of such a generation (`WindowKept`). Here the clocks matter: the window
  closes only while no claimed invocation runs.
- `SentMeansHandedOff`: `Spec => []SentWasHandedOff`; `SentKnown` adds the invocations
  that have a hand-off to record or to confirm.

TLC checked `WindowInv` and `SentInv` before they were proved (4.1 million states, the
instance of `OutboundCloudflare`). The proofs use `OutboundAssumption` and nothing else. Liveness
(`Settles`) is model-checked only.

## InboundMail

One mail with one Message-ID and several deliveries, each with its event row. A mail
without a Message-ID is given one of its own and meets no other, so one mail is
enough; the deduplicating index is per inbox, the message's per workspace. `smtp` is
how far `email()` has come, `raw` the staged objects, `consumer` the invocations with
their locals. `ticket.replied` says that `last_customer_reply_at` has reached the
mail; ticket states are open or not. `effects` collects webhook events and automation
runs, `stored` attachment rows under their deterministic ids. Attachment contents,
parsing, threading tiers and customer resolution are abstracted to "found a ticket or
not"; the five attachments per pass are the constant `Chunk`.

| action | code |
| --- | --- |
| `Accept`, `Put`, `Stage`, `StageFails`, `StageDies` | `email()` |
| `Dispatch` | `dispatchMail` |
| `Claim`, `Fetch`, `InboxMissing`, `Dedupe`, `CompleteSame`, `CompleteDuplicate`, `Register`, `Lookup`, `WriteMessage`, `Reconcile`, `Notify`, `ReadCursor`, `Store`, `Advance`, `Continue`, `Complete`, `Announce*`, `Automate`, `Unstage`, `Throws`, `RecordFailure` | `processInboundMail`, statement by statement |
| `Crash`, `Exhaust` | the platform |
| `DrainLetter`, `Sweep`, `Retry` | dead-letter consumer, Cron, administrator |
| `AgentCloses` | any agent action that takes the ticket out of `open` |

### Runs

| run | instance | shows |
| --- | --- | --- |
| `InboundDeliveries` | two deliveries to one inbox, two invocations | discarding duplicates never discards the last copy of an accepted mail |
| `InboundOverlap` | one delivery, two invocations, two attempts, a retry, two attachments stored one per pass | attachments complete, notification not lost, with passes cut short, repeated and overlapping; every step is one of `IntakePromise`, so agents' later work is kept |
| `MailSettles`, part `in` | the same with one invocation, under fairness | every row is completed or stopped |

Overlap needs two invocations on one row, which needs a dead letter freeing the lease
and an administrator's retry; the dedupe race needs two rows. Putting both in one
instance multiplies states without a new interaction: rows meet only through the
registered id, the message and the ticket. One attachment per pass and two in all give
a continuation and a final pass. In `InboundDeliveries` no second attempt and no
attachments are explored for the same reason. With `InboxOf <- TwoInboxes` the same cfg
checks deliveries to two inboxes, which share the message but not the event id (2.7
million states, no violation). `KeepsIntake` is a property of `InboundOverlap` only, to keep
`InboundDeliveries` short; it holds there too (1.7 million states).

Fairness is that of the outbox, and `email()` runs on or dies.

### The promise

`IntakePromise` says what the world may rely on, in eight variables and ten actions: who was
told that the mail is accepted, which deliveries have a copy still to be worked on, whether
the mail is filed and its ticket open, what is attached, whether the assignee was told,
which deliveries were worked to the end and what others have heard. `InboundMail!Intake`
maps the rows to it. Leases, queues, attempts, cursors, registrations and everything an
invocation keeps in its locals are below the promise.

| promise | kept by |
| --- | --- |
| `Keep`, `Accept` | `Put`, `Stage`: the sender is answered when `email()` has staged the row |
| `GiveUp` | `CompleteSame`, `CompleteDuplicate`: the discarded copy of a duplicate |
| `File` | `WriteMessage` |
| `AgentCloses` | `AgentCloses` |
| `Tell`, `Attach`, `Announce` | `Notify`, `Store`, `Announce*` and `Automate` |
| `Close`, `Resume` | `Complete`; `Continue` of a pass that overlapped the one that completed the row |

`Resume` is in the promise because the code does it: the UPDATE with which a pass hands the
rest of the attachments to the next one (`mail/queue.ts:477`) has no predicate, so a pass that
lost its lease sets a completed row back to `staged`. The row is then worked to the end
once more, which repeats notifications and loses nothing; the abstract action has to say
that the mail is filed and its assignee told by then, and that is what makes it harmless.

### What is proved

`InboundMailProofs` proves, for every set of deliveries, inboxes (and every assignment
of one to the other) and invocations, every number of attempts, retries, attachments
and every chunk size:

- `TypeCorrect`: `Spec => []TypeOK`, from `TypeInv`, which adds that the attachment
  loop's index stays below its end.
- `MailKept`: `Spec => []NothingLost`; `AllAttachmentsStored`: `Spec =>
  []AttachmentsStored`; `NoticeNotLost`: `Spec => []NoticedBeforeClosed`.
- `OnlyMessageReopens`: `Spec => ReopensOnce`.
- `TakesInAsPromised`: `Spec => KeepsIntake`, the refinement: initial states map to initial
  states (`IntakeInit`) and every step to a step of `IntakePromise` or a stutter
  (`IntakeStep`).
- `PromiseIsEnough`: from `KeepsIntake` alone follow `NothingLost`, `AttachmentsStored`,
  `NoticedBeforeClosed` and that only the message opens the ticket. So the abstract
  specification says no less than the properties above together.

The invariants and `ReopensOnce` rest on one inductive invariant, `IInv`. None of the
properties is inductive: a row is closed on what an invocation learnt several statements
earlier, while other rows and invocations went on. `SafeInv` says what stays true of it. An
event that carries the mail is alone in its inbox (`Unique`); an event is closed, and a raw
copy deleted, only once the mail is `Settled` - the message exists or another event of the
inbox carries the mail - and the one that carries it keeps its raw copy until the message
exists (`EventInv`); everything before a row's cursor, and before the index of a running loop,
is stored; and what an invocation knows at each point is still so (`LocalInv`). The lease
plays no part: two invocations working on one event do no harm beyond repeating notifications.
Most statements change none of this (`Tame`); the proof treats the five that do one by one.

The refinement needs `IInv` in the state before each step and one invariant more,
`EarlyInv`: a delivery whose sender still waits for the answer is in no queue and nobody
works on it. Without it a copy could be given up between `Put` and `Stage`, and a sender be
told of a copy that is gone. `DeliveryKeeps`, `SweepKeeps`, `CloseKeeps`, `ClaimKeeps` and
`InvokeKeeps` each name the promised step for a group of actions; what a group leaves alone is
said once, by `Accepted`, `Copies`, `Closed` and `Outside`, the values of the mapping.

`Settles` is model-checked only (liveness).

## CustomerRefresh

One customer and its `search/...` row in `maintenance_tasks`. `name` is the version of
the customer's name; `text[t]` and `index[t]` are the versions a ticket's
`normalized_search` and full-text row were built from. Ticket ids are random, so a new
ticket may lie on either side of the cursor. `owed` is a history variable: for each
ticket, the name in force when a refresh was last requested while the ticket existed.
The code orders tickets by id; a page is modelled as the set the `SELECT ... LIMIT`
returns, worked off from its least element.

| action | code |
| --- | --- |
| `Save`, `Request`, `EditStops` | `PATCH /customers/:id`: profile UPDATE, then `requestCustomerRefresh`; or the request ends in between |
| `ReadCustomer`, `Insert` | opening a ticket with a customer read earlier; a merge brings tickets in the same way |
| `Reindex` | `refreshTicketSearch`, called by every writer of a ticket |
| `Remove` | `eraseTicket` (retention, erasure), or a merge that takes the ticket away |
| `Dispatch` | `dispatchMaintenance` |
| `Claim`, `SelectPage`, `Rewrite`, `Index`, `Finish`, `Release`, `Fails`, `SendLetter` | `processMaintenance`, statement by statement |
| `Dies`, `GiveUp` | the platform |
| `DrainLetter`, `StopSpent` | dead-letter consumer, Cron |
| `LeaseExpires`, `ReservationExpires`, `BackoffEnds` | clocks |

The dead-letter queue is a Boolean: its consumer looks at the task id alone. That also
means that a letter left from an earlier generation can fail a task that has just been
requested again, as for outbound mail; the properties below hold all the same, because
a failed task claims nothing. The operator's manual reset of a failed task
(`docs/cloudflare-free.md`) is not modelled; a new request resets it in the same way.

### Runs

| run | instance | shows |
| --- | --- | --- |
| `RefreshOverlap` | two ticket places, one of them filled during the run, one ticket per page, two edits, two invocations, two attempts | a completed task leaves no owed ticket behind and the cursor skips none |
| `Settling`, part `search` | two tickets, one invocation, fairness, an old message without generation | a requested refresh is completed or failed |

Two edits are what a stale pass needs; two invocations overlap once a dead letter has
failed the task and a new request reopens it, because `Release` of the older pass frees
whatever lease there is. One ticket per page gives full pages, a last empty page and a
ticket inserted behind or ahead of the cursor. Fairness is that of the outbox.

The guarantee ends where the code's does: a ticket opened with a name read before the
edit and inserted after the refresh keeps the old name until the next one
(`ReadCustomer`, `Insert`), and an edit that stops before its request refreshes nothing.

### What is proved

`CustomerRefreshProofs` proves, for every set of tickets and invocations, any page size,
number of attempts and number of edits:

- `TypeCorrect`: `Spec => []TypeOK`. A generation is an edit whose refresh was
  requested, so `Counted` (generation plus edits not yet requested is at most the
  number of edits) is what keeps the generation within its bound.
- `RefreshComplete`: `Spec => []CompletedMeansRefreshed`; `CursorSound`: `Spec =>
  []CursorSkipsNothing`.

`SafeInv` is about an invocation whose generation is the task's (`CurrentServe`): every
ticket is refreshed, or on its page, or past a page that was full (`Covered`). No
invocation is ahead of the task (`NoneAhead`), so a request, which raises the
generation, leaves none that could complete the task or move its cursor; texts only
get newer (`Ordered`). The lease plays no part. `Settles` is model-checked only.

## MailStaging

The raw copy of a mail whose event has stopped. `event` is the row (its `old` says
that `updated_at` lies seven days back), `raw` the object. `SelectOld`, `ClaimOld`,
`DeleteCopy`, `ForgetKey` are the statements of the cleanup kind `staging`
(`maintenance/service.ts:95-108`); `SeeStopped`, `ReadStopped`, `HeadCopy`, `Requeue`
those of the retry (`mail/recovery.ts`); `Reprocess` is the queue's work on a retried
event as one step, since `InboundMail` has it statement by statement.
`RetriedHasCopy` is the comment's promise and does not hold; see *Findings*.

## AgentReplies and WebhookDelivery

`AgentReplies` has one `post` per submission: `Start`, `InsertReply` (refused by the
unique index on the client's id, then `AnswerWinner`), `ClaimFiles` with `Unwind` when a
file is missing, `QueueSend`, answer; `RecoverOutbox` is the Cron's page of messages
without a job, with its `(created_at, id)` cursor.

- `RepliesIntact`: a draft is mailed at most once however often it is submitted
  (`DraftMailedOnce`), and taking a reply back never leaves another message's file
  without its message (`FilesSurvive`).
- `ReplyGetsJob` (liveness): a reply that stays gets its job, although its request died
  and its neighbours share its time.

`WebhookDelivery` has a sender per delivery for the attempt made at once and one for the
Cron; `Post` is the request, `RecordSuccess`, `ReadAttempts` and `RecordFailure` the
writes after it, the last from the copy of the endpoint the attempt began with;
`SelectDue` and `Retry` are the Cron's, `BecomesDue` the back-off, `EnableHook` and
`DeleteHook` the administrator's.

- `WebhookSettles` (liveness): every delivery is delivered, abandoned or removed with
  its endpoint, although attempts overlap, overwrite each other and die.

### What is proved

`SettlingProofs`, for every set of submissions, drafts, files and deliveries and any
limits:

- `RepliesStayIntact`: `Spec => []RepliesIntact`. `ReplyInv` adds where a submission
  stands to what is there: its message since its insert and not before, a message that
  was queued only once its submission is over (`SentStays`), so nothing that is mailed
  can still be taken back.
- `SettlingIsTyped`: `MCSpec => []SettlingTypeOK`. Its hard part is that the counters are
  bounded although the attempt at once and the Cron's write the same row without a claim
  and overwrite each other. `WebhookInv` is a credit argument: every delivery has at most
  two records still to be written, one by each sender, and attempts plus the records to
  come stay within the limit plus one (`AttemptsBounded`, `ReadsBounded`). The
  failure counter passes `DisableAfter` only by an attempt that began before the endpoint
  was disabled and whose delivery is not spent yet, so it stays within the limit plus the
  number of spent deliveries (`FailuresBounded`).

TLC checked `WebhookInv` with two deliveries (507 407 states) and with three attempts.
Both liveness properties are model-checked only.

## TicketDesk

One ticket; the clock counts minutes and stands while a request is under way. `req`
holds what each request read: `Read`/`Patch` and `Bulk` (PATCH and bulk routes, version
compared or not), `ReadForSnooze`/`Snooze`, `Unsnooze`, `ReplyBatch` and `HandOff` (an
agent's reply or note), `CustomerReply` (inbound mail), `Automate`, `RefreshTargets`
(`sla/service.ts`), and the Cron's `SweepTickets` with `Announce`.

- `PauseExact`: the banked time plus the running snooze is the time in fact snoozed,
  whoever ends it and however requests overlap.
- `ReplyNotBuried`: no snooze is in force that was decided before the last customer's
  reply.
- `AnnouncedOnce`: a breach is announced at most once.
- `EndHasTime` (part of `AgentWorkTypeOK`): a resolved or closed ticket has its stamp.

Proved (`PauseIsExact`, `RepliesWake`, `BreachAnnouncedOnce`; `DeskInv`, 950 212 states).
None of the three is inductive: a request writes a snooze, a wake or a status from a copy
it read earlier. `Copies` says what a copy of the row's present version still tells; a
copy of an older version fails the comparison of versions. Two writes leave the version
alone, the hand-off of an agent's reply and the end of a snooze, and `VersionMoves` says
how little they change.

## Automations

`ReadPlace`/`InsertRule`, `PatchRule`, `DeleteRule` are the rule routes; a runner is a
pass of `applyAutomations`: ticket, rules in order, then per rule the claim of its run
row, its actions, and the list of what was applied. `SetPriority` stands for the three
actions that update the ticket from the copy; `MakeTag`, `FindTag`, `LinkTag` are
`add_tag`. Taggers are agents' requests (`AddLink`, `RemoveLink`, then `RefreshSearch`,
the rebuild of the search row); `CreateTag` and `DeleteTag` the tag routes.

- `RulesSound`: a rule runs at most once per event (`RuleOnce`); the list of a run names
  no action that did not happen (`RunsHonest`); a tag an agent was told is on the ticket
  is in the search row until it is taken off (`TagsFound`).

Proved (`RulesAreSound`; `RulesInv`, 99 721 states): a rule without a run row has not been
taken on, unless it was deleted, and the id of a deleted rule is never given again; who
works on a rule has done what it is about to list.

## Drafts, QueuePaging, Conversation

`Drafts`: tabs with their text, revision, timer, chain of writes and waiting clear; the
server's two-statement PUT. Typing saves a text, and so does `SetKind`: switching between
reply and note marks whatever is on the screen as edited and starts the timer again
(`use-draft.ts:113-131`), so one text may be stored many times.

- `SentStaysAway`: a text that was sent, and whose draft was deleted after it, does not
  come back as a stored draft, however late its autosaves were, unless both happened to
  it: a screen took it from the server (`reopened`), and reply and note were switched with
  it on a screen (`toggled`). The exception is what the code does: a second tab that
  loaded the draft is told nothing of the send, and its switch stores the sent text again.
  Either history alone does not bring the text back, and that is what there is to prove.

`QueuePaging`: a client's walk by `(time, id)` while rows are updated, reappear or go.
`NothingSkipped`: what stayed as it was is on a page above the cursor.

`Conversation`: the answer of `GET /tickets/:id` is two statements, the window of
messages and the read mark; a poll fetches every page again; replies are written, touch
the ticket and may be unwound. `NoHoleInThread`: between the newest and the oldest
message shown no message is missing, and the client knows whether there are more.
`WalksComplete` is both.

All of it is proved, for any number of tabs, tickets, texts, rows and messages and any
page size:

- `SentNeverReturns` (`DraftInv`). The two halves of the exception have an argument each.
  A text that was never switched is saved once: until then it waits in one place, the
  timer or the chain of the tab it was typed in (`OnePlace`), nobody else has got hold of
  it, and that tab's clear waits for it (`PendingAlone`). A text that was switched but that
  no screen took from the server may be saved often, but by one tab: it alone holds the
  text on its screen, in its chain or in its clear, its clear takes the text off the
  screen and waits for every save of it, and once it is sent away no tab holds it
  (`HeldByOne`, `ClearsAll`).
- `WalksFindAll` (`PagingInv`, 34 654 states). A row that stays as it is keeps its place in
  the order; the page is the first `PageLimit` rows below the cursor, and the proof that a
  page leaves no gap above its last row counts the rows above each (`PagesEnd`).
- `ThreadHasNoHole` (`ThreadInv`, 55 515 states): the pages on the screen and those of the
  fetch under way have no hole (`NoHole`).
- `WalksAreComplete` puts the last two together for `MCSpec`.

## BusinessHours

Both algorithms of `sla/policy.ts` as recursive functions (`AddBusinessMinutes`,
`BusinessMinutesBetween`, `FromLocal` with its two passes), against definitions that look
at every minute (`Works`, `Worked`). Each behavior takes a sample and computes it.
`PolicyExact`: a due date lies exactly the asked working minutes ahead and counting
agrees with it (`DueIsExact`, `CountIsExact`), for samples whose change of the clock
falls outside working time (`Calm`); for a change within it the code's minutes differ by
the change and nothing in the repository says what they should be.

Proved (`DueDatesAreExact`), for every zone with one change of its offset, every week, set of
holidays, start and amount, from `PolicyAssumption` (offsets and instants are integers, a
day's times lie within the day, as `HH:MM` does) and nothing else. A calm change of the clock
moves neither a midnight nor an open minute, so `FromLocal` is the inverse of `ToLocal` at all
of these and the days between midnights are stretches of instants. One round of either loop
deals with one such stretch and counts its working minutes (`AddStep`, `CountStep`); `AddFrom`
and `CountFrom` are functions of the rounds done, the cursor and the minutes left, and satisfy
their equations (`AddFromDefined`, `CountFromDefined`). The induction over the rounds takes
the least number of rounds left for which the claim fails. `MaxDaysScanned` days always reach
beyond the `MaxDaysScanned - 2` that `Calm` asks to hold enough working time, since a calm
change of the clock is shorter than a day and the start lies somewhere within its own
(`HorizonReached`). Due dates without working hours and those of amounts that are not positive
are the instants the code returns early (`AddBusinessMinutes`), and the count is capped as in
the code.

## Accounts

`CheckSignup`/`Signup`, `Login`, `CheckInvite`/`Invite`, `ReadInvite`/`Accept` and
`AcceptNew`, `ReadMember`/`PatchMember`, `ReadSwitch`/`MoveSession`, `EndSessions`,
`OpenSession`. `AccountsWhole`: a workspace keeps its owner (`OwnerStays`), addresses
have one account (`OneAccountPerEmail`), nobody has an account without a workspace
(`UserHasHome`), a session stands in a workspace its user has joined (`SessionAtHome`).

Proved (`AccountsStayWhole`; `AccountInv`, 26 832 states). What a request has read is true
or stays true (`ActSound`): memberships and accounts are never deleted (`AccountsGrow`), an
invitation never goes to an owner of its workspace, hence accepting one cannot demote an
owner, and a session is opened or moved only where its user belongs.

## AttachmentStore

A PUT looks, reserves, stores, inserts; its `Catch` asks whether the insert took effect
after all before it undoes. Two cleanups (`ClaimAbandoned`, `SweepBytes`, `SweepRow`;
`SelectStale`, `ReapBytes`, `ReapRow`), two replies that want the same file, and the
erasure of the ticket run beside it. `FilesWhole`: what can be opened has its bytes
(`RowHasBytes`), and a sent reply owns all the files it named (`SentComplete`).

Proved (`OfferedFilesAreWhole`; `StoreInv`, 745 680 states), for any number of PUTs, uploads
and replies. A key is the PUT that wrote it and is in one place at a time: with the PUT
that streams (`Holders`), in a reservation (`UploadsReserved`), in a row (`RowsInserted`).
A PUT that gives up drops its own reservation or none (`Leavers`). Only a token's expiry
lets a cleanup take a reservation or claim a row (`Sweeping`, `Reaping`), and no PUT
reserves under an expired token (`LooksInTime`); so bytes are deleted only under a key no
row has, or under a row that is claimed and not offered.

## WorkspaceExport and CustomerExport

`WorkspaceExport`: `PickBackup` takes the export least recently advanced, `ReadPage`,
`PutChunk` (or `PutFails`, which fails the export), `Finish`; beside it rows are added and
dropped, exports started, deleted and swept. A start is three steps as in `startBackup`:
`CheckRunning`, `CheckRecent`, `InsertBackup`, with nothing that holds the workspace
between them and no unique index behind them. Two starts, by requests or by the schedule,
may both find nothing, and a workspace then has two exports running; that the comment says
otherwise is `OneAtATime` (*Findings*). The row bears the time at which its start began, so
it may come into being ahead of an export that was advanced meanwhile: a start takes its
place in the order at `CheckRunning`, before there is a row. The order by `updated_at` is kept
as `ahead`: of each export running or being started, those of these with an earlier time.

- `ExportComplete`: a completed export holds every row that was there from start to end.
- `FairTurns`: while an export waits, no other is advanced twice, of its own workspace or of
  another. It is stated of pairs, so it does not depend on how many exports run at once. A
  run that ends on an export deleted under it overtakes nobody.

Here runs of the Cron follow one another. In `MCExportOverlap` two are at work, as nothing
in the code keeps them apart, and `ExportComplete` does not hold; see *Findings*.

`CustomerExport`: tickets of the customer first, then a table per statement, while
threads are opened, merged and erased. `RecordWhole`: the answer has every row that was
the customer's all the time, and none of a ticket that never was. `ExportsWhole` is all
three.

Proved, for any number of workspaces, exports of each, tables, rows and page sizes:

- `ExportsAreComplete` and `TurnsAreFair` (`ExportInv`). Every steady row up to a cursor is in
  a chunk whose number lies before the cursor's, so it is never written again (`Reached`);
  that holds of the cursor on the row and of the run's own, which is never behind it
  (`WalkInv`). A page ends at its greatest row and leaves out none below it. For the turns:
  whom another export has passed once stands ahead of it (`Counts`), and the run is at an
  export that nobody running has been passed by (`Unpassed`), since it was the first of all
  when the run picked it and no other is advanced while the run is at it.
- `RecordsAreWhole` (`RecordInv`): a row that was the customer's all the time belongs to a
  ticket of the first answer, and to every table's answer read since.
- `ExportsAreWhole` and `UpkeepTyped` for `MCSpec`.

## Inboxes, Directory, KnowledgeBase, Readiness

`Inboxes`: `resolveInbox` look-up by look-up (address as delivered, without its tag,
claiming workspace, INSERT, look again). `MailRouted`: a provisioned inbox belongs to
the workspace that claims the address (`ProvisionedIsOwn`), and an inbox that stays
live is found (`LiveInboxFound`).

`Directory`: every call reads in one action and writes in another (`Create`,
`SetPrimary`, `Add`, `RemoveIdentity`, `Merge`), the batch failing as a whole on an
index. `AddressesKept`: an address on file that nobody asked to remove names a customer
that exists.

`KnowledgeBase`: screens with the version they show; `CheckVersion`, then the guarded
UPDATE. `SeenBeforeOverwritten`: no save writes over a text its editor had not seen.

`Readiness`: one evaluation, read after read, while the deployment changes and the
resolver fails; the cached report. `AccusedWhenTrue`: a check shown as failing did fail
at some moment of the evaluation behind the report.

All four are proved in `UpkeepProofs`, for any number of requests and of what they are about:

- `MailIsRouted` (`InboxesInv`): an address has one live row, by the unique index, and what
  a look-up has ruled out stays ruled out for the rows that were live all the time
  (`LookUpSound`).
- `AddressesAreKept` (`DirectoryInv`): rows have their owner, by the foreign key; an id is
  given once, so a call that removes the row it read cannot remove the address after
  another call has entered it anew (`IdsSpent`, `RemovalSound`).
- `NoUnseenOverwrite` (`ArticlesInv`): a screen of the row's present version shows the row's
  text, an older one fails the guarded UPDATE.
- `NoFalseAccusation` (`ReadyInv`): a verdict was true when it was given, and the cache
  holds finished reports only.

## CustomerErasure

The task with its generation, lease and attempts; passes that delete a page of tickets
and finish by stopping the mail that waits and deleting the profile; a merge that checks
and then applies; an administrator's retry. Mail is being staged (`StageMail`,
`StagingFails`: `email()` writes the status whatever the row has become), claimed, looks
up or creates its sender, finds a ticket and writes its message; it is completed, given
back for the rest of its attachments (`ContinueMail`, which also writes `staged` over
whatever is there), failed, abandoned by a dead invocation, or recovered by the Cron
(`RecoverMail`).

- `ErasureComplete`: a completed task means the profile and all tickets are gone
  (`CompletedMeansGone`); and of the mail that was there, from any address the customer held,
  what the queue may still claim is mail the erasure found failed or in process, recorded in
  `spared`, or mail an administrator retried (`WaitingMailStopped`). Mail staged, being staged,
  left behind or given back is stopped for good, although two writers put its status back to
  `staged`: they leave `terminal_reason` alone, and the claim asks for that.
- `StoppedStaysStopped` (action property): mail that an erasure stopped while no invocation
  was processing it stays stopped until an administrator retries it.

The last pass does not touch mail that has failed and awaits its retry, and cannot stop an
invocation that is at a mail: if that one fails, it clears the reason and the mail is
claimable again. `NoMailAlive`, that no mail of the customer is alive after the erasure,
is therefore false, and `spared` is exactly how far the code falls short of it; see
*Findings*.

Both are proved for any number of passes, mails, tickets and requests (`ErasureIsComplete`,
`StoppedMailStays`; `ErasureInv`). The pass that deletes the profile need not be the one that
finishes, nor of the task's generation. While the customer is there, so are the addresses
they came with (`HomesKept`); a pass past the addresses has dealt with the mail of each: it
is spared, or it is completed or stopped with nobody at it (`AddressesRead`, `Settled`,
`Quiet`); so without the customer nothing else of theirs waits (`GoneQuiet`), and who finishes
without a further page has seen the customer go (`FinishedGone`). All of it holds until a
merge: what is claimed of the addresses is claimed of a customer nobody merged.

`ErasedStaysErased` does not hold, for two reasons; see *Findings*.

## Surveys

Passes that claim the slot and save the envelope, links followed several times at once,
comments, the deletion of the ticket, and the merge of its customer (`MergeSurveyed`). The row
of `csat_responses` goes with its ticket and also with its customer
(`migrations/0011_csat.sql:5`), and a merge moves the tickets but not this row before it
deletes the customer (`customers/merge.ts:49-102`). The ticket lives on without its survey, and
the next reply of the resolved ticket claims the slot anew, for the customer it now has.
Customers of the ticket are numbered in the order in which merges make them so.

- `OneSurvey`: each customer a ticket has had is surveyed about it in one reply at most
  (`SurveyedOnce`), whatever passes over one reply overlap, die, or hold a customer who has
  been merged away; and every page that shows a score of one customer's survey shows the one
  on file, and a note on it was taken only by a page opened for that score (`OneAnswer`).
- `NeverTwice`, that a ticket is never surveyed twice, is what `csat/service.ts:77` says; a
  merge makes it false (*Findings*).

Proved (`SurveysAreUnique`; `SurveyInv`): who surveys a customer, in a reply that left, a stored
envelope or a pass, is one reply; nobody surveys a customer the ticket has not had yet; and
as long as the ticket is there, the row is there whenever somebody surveys its present
customer (`OneSurveying`). A page that shows a score was told it by a row that is still there
or whose customer has been merged away (`PagesSound`).

## Runs

| run | distinct states | shows |
| --- | --- | --- |
| `OutboundCloudflare` | | see *OutboundMail* |
| `InboundDeliveries`, `InboundOverlap` | | see *InboundMail* |
| `MailSettles` | 0.3 million | parts `out` and `in`: mail in either direction settles, under fairness; the promise, the warning and the window of the outbox |
| `RefreshOverlap` | | see *CustomerRefresh* |
| `Settling` | | parts `search`, `webhook`, `reply`: refreshes, deliveries and replies end, under fairness; replies leave once with their files |
| `AgentWork` | 1.8 million | parts `desk`, `drafts`, `accounts`, `rules`, `thread`, `paging`, `hours` |
| `Upkeep` | 2.7 million | parts `store`, `export`, `record`, `inboxes`, `articles`, `readiness`, `directory` |
| `Erasure` | 3.0 million | parts `erasure`, `survey`: two overlapping erasure passes beside mail, retries and a merge; the survey of a ticket whose customer is merged |
| `ErasedStays` | violation | the customer's messages are there after the erasure: a merge carried them away, or mail it spared brought one |
| `ExportOverlap` | violation | two runs of the Cron at one export, a row deleted between their reads |
| `StagedRetry` | violation | a retried mail without its raw copy |

**Parts.** The modules of `MailSettles`, `Settling`, `AgentWork`, `Upkeep` and `Erasure` share
no variable. The constant choice `part` of the initial state says which one moves; the others
stand at one initial state, so the state space is the sum and not the product of the parts. A
product would add nothing, as no action of one part reads another's variables. A type
invariant is asked of the part that moves. Each part's actions, fairness and properties are
the module's own; `SettlingTypeOK`, `AgentWorkTypeOK`, `UpkeepTypeOK`, `WorkSettles`,
`WalksComplete` and `ExportsWhole` are conjunctions over parts. `MailSettles` has
`InboundMail` as an INSTANCE under variables of its own, as the two mail modules share names;
`OutboundSettles` is asked of behaviors in which the outbox moves.

**Bounds.** Every hazard needs two actors, and every part has them:

| constant | value | why enough |
| --- | --- | --- |
| `Requests`, `Latest` | 3 requests, clock to 2 | a snooze, a second writer and a customer's reply; a snooze can end late, and be repeated |
| `AccountCalls`, `Emails`, `Orgs`, `Invites` | 4, 2, 2, 1 | an invitation, and up to three requests that overlap over it; two addresses and workspaces to meet on |
| `Tabs`, `Tickets`, `LastEdit` | 2, 2, 2 | one tab that switches tickets, another on the same draft; an edit is a keystroke or a switch of the kind, so a text is typed and switched, or sent and followed by another |
| `ReplyJobs`, `Senders`, `Clicks`, `Ratings`, `LastCustomer` | 2 each | two replies of a resolved ticket, two passes over one, two simultaneous ratings, one merge |
| `Entries`, `PageLimit`, `LastTick` | 3, 1, 3 | a full page, a next one and a last one, with ties of time and updates between them |
| `Notes`, `WindowSize`, `LastMoment` | 3, 1, 2 | the same for messages |
| `Rules`, `Runners`, `Events`, `Places` | 1, 2, 1, {0} | a rule met by two passes of one event; no property compares rules, so one is enough |
| `MaxTags`, `Names`, `Taggers` | 2, 1, 1 | a tag deleted and made again under the same name |
| `Zones`, `Schedules`, `Starts`, `Amounts` | 16 zones, 4 schedules, 5, 4 | changes both ways at each minute of a day, a day that never opens, holidays, a single minute a week |
| `DayLength`, `WeekLength`, `MaxDaysScanned` | 6, 3, 12 | a day is scaled down; the algorithms compare minutes and count days; samples that would run past the scan are excluded by `Calm` |
| `Uploads`, `Puts`, `Replies` | 2 each | a repeated PUT or two files; replies that share one file |
| `Backups`, `Workspaces`, `LastTable`, `MaxRow`, `ChunkRows`, `MaxQueries` | 2, 1, 2, 2 and 0, 1, 1 | two exports of one workspace whose starts may overlap and that compete for turns; a table of two pages, an empty one, a slice that ends amid a table, rows added and dropped; more exports, workspaces, rows and sizes of pages are the theorems' |
| `Backups`, `LastTable`, `MaxRow`, `ChunkRows` (`ExportOverlap`) | 1, 1, 3, 2 | a full page, a deletion that shifts it, and a last row |
| `Threads`, `Customers` | 2, 2 | a ticket that moves to or from the subject, and one that stays |
| `Spellings`, `Owners`, `Resolutions` | 3, 2, 2 | an address, its tagged and its upper-case form; racing resolutions and rival workspaces |
| `Articles`, `Slugs`, `Edits` | 2 each | two editors of one article, or of two with one slug |
| `Checks`, `Dns` | 2, 1 | overlapping evaluations that share the cache; records are treated alike |
| `Contacts`, `Addresses`, `Calls` | 2, 4, 3 | three calls that may overlap, over primary, secondary and free addresses |
| `HookAttempts`, `DisableAfter`, `MaxCrashes` | 3, 1, 1 | retry, exhaustion, automatic disabling, one Cron run that dies; one delivery, as rows meet only in the failure counter |
| `Posts`, `Files`, `PageSize`, `LastTime` | 3, 2, 1, 1 | one draft twice and another, a shared file; a full page of the recovery with ties of time |
| `MaxAttempts`, `MaxRequests`, `PageSize` (erasure) | 1, 2, 1 | a failed task and a repeated request; more than one page |
| `MaxGeneration`, `Passes`, `Clicks` (staging) | 1, 1, 1 | one retry beside one cleanup |

**Symmetry.** `MCUpkeep` permutes `p1` and `p2`, which are at once two PUTs, two exports,
resolutions, editors, checks and calls: in each part they are interchangeable indices,
initially alike, and no definition of these modules orders or chooses among them.
`MCCustomerErasure` permutes its passes, which in the part `survey` of `MCErasure` are the
invocations that send; they are interchangeable there too. Runs with liveness use no symmetry.

**Deadlock.** All runs set `CHECK_DEADLOCK FALSE`: requests, edits and retries are
bounded, so a behavior may come to rest with all work done. That work which must go on
does so is what the liveness properties say.

**Fairness.** Stated for `MCSpec` of `MCMailSettles` and `MCSettling` (and as `FairSpec` of the
modules), with the code's reason:
the Cron fires every five minutes and the platform delivers what is queued (strong
fairness of enqueue and claim, which may fail but not for ever); an invocation runs on or
dies (weak fairness of its steps); clocks advance. In `Settling` also: the Cron's retry
of webhooks (`CronWork`) and of replies (`RecoverOutbox`) runs, back-offs end
(`BecomesDue`), and a request of an agent ends, done or dead (`PostEnds`). Users,
administrators, delivery events and crashes owe nothing.

## What is proved and what is only checked

Every safety property the passing runs check is proved for every value of the constants, both
refinements among them; the sections above give the argument of each. In the
compositions, `SettlingIsTyped`, `WorkIsTyped`, `WalksAreComplete`, `UpkeepTyped` and
`ExportsAreWhole` follow from the modules' theorems, because a step of the composition is a
step of one part and a stutter of the others (`PartsAreComponents`). Fairness plays no part
in them, so the modules' results are used in the form that needs only the initial
predicate and the next-state relation.

The method is the same throughout. TLC checks the candidate invariant on the instance of the
run; then `Init => Inv`, `Inv /\ [Next]_vars => Inv'` (one lemma per action or group of
actions) and `Inv => property`. Facts that recur have lemmas: the least and the greatest
element of a set of numbers (`LeastNumber`, `GreatestNumber`), pages as counted sets
(`Cardinality` of the rows up to one), the types of records built with EXCEPT. Where an
argument is by induction (the loops of `BusinessHours`), it takes the least number for
which the claim fails; the library's induction theorems are not used.

**Assumptions.** Each theorem uses the named assumption of its module's constants
(`OutboundAssumption`, `DeskAssumption`, ..., `ExportAssumption`), which TLC evaluates in every
run. They say what the source says: limits are numbers, at least one where the code divides
or loops by them; what stands for "no row" or "nobody" is none of the rows; sets of rows, of
workspaces and of deliveries are finite where the argument counts them, as tables are.
Nothing else is assumed.

**Only model-checked:**

- liveness (`OutboundSettles`, `InboundSettles`, `Settles`, `WorkSettles`): ENABLED and
  fairness are beyond the prover;
- the violations: `ErasedStays`, `ExportOverlap`, `StagedRetry`. `MailStaging` has no theorem
  for that reason.

What proving changed in the models: `FairTurns` counted a turn on a deleted export and was
false with two exports per workspace (`WorkspaceExport`); asking why runs of the Cron
must not overlap there led to `ExportOverlap`; markers such as `NoInbox` and `None` were not
known to differ from rows. `BusinessHours` has functions of one argument at a time instead of
recursive operators, so that the equation of the recursion can be stated. Its
`PolicyAssumption` found samples with a window that ends at 24:00, which no `HH:MM` says;
its proof, that an amount of zero and the cap of the count were not the code's. Stating
`IntakePromise` brought out that `Continue` can reopen a completed row (`Resume`).

## Findings

Three runs find violations of what the repository says of the program, one of them for two
reasons:

- **A merge that outruns the erasure check** (`ErasedStays`). `mergeCustomers` looks for
  an outstanding erasure in one statement and merges in a later batch. A request in
  between finds its customer gone, completes, and the messages stay with the other
  customer, while `docs/architecture.md:92` says that a merge is blocked as long as an
  erasure of either side is outstanding.
- **Mail the erasure spares** (`ErasedStays` too; no merge is needed). The last pass stops
  inbound rows that are `staged` or `processing` (`privacy/service.ts:118`). A mail that has
  failed and awaits its retry is neither, and the queue may claim it
  (`mail/reliability.ts:25`, `mail/queue.ts:112`); and the invocation at a mail that was stopped
  under it clears the reason when it fails (`mail/queue.ts:519`). Either mail is delivered
  after the erasure and opens a ticket, while the comment at `privacy/service.ts:105-107` and
  `docs/architecture.md:92` say that waiting mail must not revive the conversation.
- **Two runs at one export** (`ExportOverlap`). A run of the Cron reads the cursor of an export
  and writes it back at its end; nothing reserves the export, and the next run begins after
  five minutes whether or not the last is over (`backups/service.ts:371`). If a row is deleted
  between their reads of a page, the two put different pages under one number. The later put
  wins, the other run has moved past its last row and completes: a row that was there all
  the time is missing, while `SECURITY.md:17` says that a workspace export is a complete copy
  of the workspace's data.
- **The reservation of the staging cleanup ends before the retry's UPDATE**
  (`StagedRetry`). `maintenance/service.ts:95` says the event is reserved against a manual
  retry before its only raw copy is removed. The reservation is given back once the copy
  is gone, and the retry's UPDATE compares neither the staging key nor `updated_at`: a
  retry whose `head()` saw the copy before stages a mail that cannot be read any more.

Known deviations, which the modules state as definitions that no run checks because they
do not hold:

| definition | where | what happens instead |
| --- | --- | --- |
| `OutboundMail!ResendHandsOff` | `mail/delivery-events.ts:76` | a `delivered` event of the first copy makes an acknowledged resend close as sent without sending |
| `OutboundMail!DeadLettersOwnGeneration` | `worker.ts:113` | a dead letter of an older generation stops the job that was just retried |
| `InboundMail!OpeningAnnounced` | `mail/queue.ts:499` | a mail stored in several passes never emits `ticket.created` |
| `InboundMail!NoticedOnce` | `mail/queue.ts:413` | a repeated pass notifies the assignee again |
| `TicketDesk!TargetsPause` | `tickets/service.ts:159` | a priority change computes targets with the snoozed time read before a wake |
| `CustomerErasure!NoMailAlive` | `privacy/service.ts:118` | mail the erasure spares is alive after it (above) |
| `Surveys!NeverTwice` | `csat/service.ts:77` | a merge deletes the row with the customer, and the ticket is surveyed again, under whoever has it now |
| `WorkspaceExport!OneAtATime` | `backups/service.ts:190` | two starts find no running and no recent export, and two exports of one workspace run |
| `WorkspaceExport!DeletedIsGone` | `backups/routes.ts:126` | a pass that had read its page puts one more chunk of a deleted export |
| `Directory!PrimaryStays` | `customers/routes.ts:266` | an address that became primary after it was read is removed |
| `KnowledgeBase!SavedIsStored` | `knowledge-base/routes.ts:166` | a save that changed no row is answered as saved |
| `BusinessHours!SkippedGoesForward` | `sla/policy.ts:96` | west of Greenwich a time in the skipped hour resolves backward |
| `Conversation!ReadMeansSeen` | `tickets/routes.ts:456` | a message that arrives between the window and the read mark counts as read |
| `Automations!EveryTagFound` | `automations/service.ts:150` | `add_tag` rebuilds no search row |

Four more are in the actions only. A draft that was sent comes back when a second tab that had
loaded it switches between reply and note (`web/hooks/use-draft.ts:128`, the exception of
`SentStaysAway`). The text of the ticket opened before stays on the screen until the draft of
the new one has loaded: a switch in between marks it as edited, and it may be saved as the
draft of the new ticket (`use-draft.ts:94`, `:114`). An evaluation of readiness throws when
the database fails in a step that does not catch it, though `operations/readiness.ts:425` says
it never does (`Throws`). A rule deleted between the read of the rules and the claim of its
run makes the pass fail (`ClaimRun`).

## Not modelled

- **Reports and saved replies**: queries and single statements without a race of their own.
- **API keys**: making and revoking one are single statements. A request is admitted with the
  scopes its maker's role had when it was read and handled with them, whatever changes in
  the rate limit and the stamp that are awaited after that (`auth/api-key.ts:95-139`); what
  could be said of it beyond that is the test itself.
- **MCP server and AI assistant**: read-only tools and remote calls.
- **HTTP shell** (routing, validation, sanitising, rate limits), **rendering** in the web
  client, contents of mails and attachments, MIME parsing, signatures and formats of
  webhooks, hashes and tokens.
- **Within modelled parts**: threading of a mail beyond "found a ticket or not"; assignment
  and the activity log; SLA policy and survey settings; saved views, teams and the list of
  notifications; test deliveries and the weekly cleanup of webhooks; password tokens;
  configuration checks of readiness; the default flag of inboxes; the discovery of tickets
  past their retention, whose deletion is the erasure's; the body of search queries. They
  are single statements, or constants of a deployment, and meet nothing.
- **Arms of modelled operations that no property tells apart**: inbound attachments that are
  skipped because they are empty, too large or not safe (`mail/queue.ts:444-449`; an attachment
  here is one that is kept); an outbound job whose message row is missing, which is closed
  as one already sent (`mail/queue.ts:586`); the ceilings on rows and chunks of one run of the
  export, beside the one on queries, which also ends a run amid a table (`backups/service.ts`);
  edits of a rule's condition and actions, as its being enabled and moved stand for the
  versions a pass may hold (`Automations!PatchRule`); which kind an unsent reply has.

## Plan

Done: all modules above, a theorem for every safety property of the passing runs, and two
abstract specifications with their refinements. Left: a promise of the maintenance task behind
`CustomerRefresh` and `CustomerErasure`; action properties of rows that may only move forward
(deliveries of webhooks, invitations); what does hold when two runs of the Cron overlap at one
export, and when two of a workspace do; SLA policy edits and password tokens as further parts.
