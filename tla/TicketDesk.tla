----------------------------- MODULE TicketDesk ------------------------------
(***************************************************************************)
(* The tickets row of one conversation and everything that writes it: the  *)
(* PATCH and bulk routes, snoozing and waking, agents' replies and notes,   *)
(* customers' replies, automations, and the Cron sweep with its breach      *)
(* announcement.  Some of them compare the row's version, some do not.      *)
(*                                                                         *)
(* The clock's unit is minutes and a request lasts milliseconds: the clock  *)
(* stands while one is under way.  The ticket is created at time 0 and due  *)
(* dates are counted from there; BusinessHours has the arithmetic that      *)
(* Target stands for.                                                      *)
(***************************************************************************)
EXTENDS Integers, FiniteSets

CONSTANTS
  Requests,      \* HTTP requests and mail passes, numbered as they arrive
  Priorities,
  Target,        \* minutes to the first response; None without a policy
  Asks,          \* what PATCH, bulk and automations may ask to change
  Latest,        \* bounds the clock
  None

ASSUME DeskAssumption ==
  /\ Requests \subseteq Nat /\ Latest \in Nat /\ None \notin Int
  /\ "keep" \notin Priorities
  /\ Target \in [Priorities -> 1 .. Latest \cup {None}]
  /\ Asks \subseteq [status : {"keep", "open", "pending", "resolved", "closed"},
                     priority : {"keep"} \cup Priorities]

VARIABLES
  now,
  desk,      \* the tickets row
  req,       \* requests under way
  cron,      \* "idle" or "announce", between the sweep and the announcement
  slept,     \* minutes the ticket has in fact been snoozed
  heard,     \* customers' replies so far
  seen,      \* of these, how many the agent's snooze could know of
  announced  \* ticket.sla_breached events emitted

deskVars == <<now, desk, req, cron, slept, heard, seen, announced>>
deskGhosts == <<slept, heard, seen, announced>>

Statuses == {"open", "pending", "waiting_customer", "resolved", "closed"}
Keep == "keep"
NoChange == [status |-> Keep, priority |-> Keep]

\* resolved_at, closed_at and waiting_since, of which null or not is kept.
Stamps(resolved, closed, waiting) == [resolved |-> resolved, closed |-> closed, waiting |-> waiting]

\* computeTargets: always from the creation, shifted by the time paused.
Due(priority, paused) == IF Target[priority] = None THEN None ELSE Target[priority] + paused
Fresh(priority) == IF Target[priority] = None THEN "none" ELSE "ok"

\* Opened by a customer's mail, or by an agent whose message is the first response.
Opened(by, priority) ==
  [status |-> IF by = "agent" THEN "waiting_customer" ELSE "open", priority |-> priority,
   version |-> 0, stamps |-> Stamps(FALSE, FALSE, by = "agent"),
   until |-> None, started |-> None, total |-> 0,
   due |-> Due(priority, 0), sla |-> Fresh(priority), notified |-> FALSE,
   answered |-> by = "agent"]

IdleReq == [pc |-> "idle", row |-> None, change |-> NoChange, until |-> None, heard |-> 0]

\* The columns each route selects.
Whole(row) == [version |-> row.version, status |-> row.status, priority |-> row.priority,
               stamps |-> row.stamps, total |-> row.total]
ForSnooze(row) == [version |-> row.version, snoozed |-> row.until /= None]
ForReply(row) == [status |-> row.status]

DeskInit ==
  /\ now = 0
  /\ \E by \in {"agent", "customer"}, priority \in Priorities : desk = Opened(by, priority)
  /\ req = [r \in Requests |-> IdleReq]
  /\ cron = "idle"
  /\ slept = 0 /\ heard = 0 /\ seen = 0 /\ announced = 0

\* The next request to arrive.
Arrives(r) == req[r].pc = "idle" /\ \A s \in Requests : s < r => req[s].pc /= "idle"

Done(r) == req' = [req EXCEPT ![r] = [IdleReq EXCEPT !.pc = "done"]]
Goes(r, pc) == req' = [req EXCEPT ![r].pc = pc]

\* SELECT, and go on from the copy.
Read(r, pc, copy, change) ==
  /\ req' = [req EXCEPT ![r] = [IdleReq EXCEPT !.pc = pc, !.row = copy, !.change = change]]
  /\ UNCHANGED <<now, desk, cron, deskGhosts>>

ReadForSnooze(r, until) ==
  /\ req' = [req EXCEPT ![r] = [IdleReq EXCEPT !.pc = "snooze", !.row = ForSnooze(desk),
                                               !.until = until, !.heard = heard]]
  /\ UNCHANGED <<now, desk, cron, deskGhosts>>

Same(r) == desk.version = req[r].row.version

(***************************************************************************)
(* applyTicketUpdate and applyBulkUpdate.                                  *)
(***************************************************************************)
StatusStamps(row, next) ==
  CASE next = Keep -> row.stamps
    [] next = "resolved" -> Stamps(TRUE, FALSE, FALSE)
    [] next = "closed" -> Stamps(row.stamps.resolved, TRUE, FALSE)
    [] next = "waiting_customer" -> Stamps(FALSE, FALSE, TRUE)
    [] OTHER -> Stamps(FALSE, FALSE, FALSE)

Or(value, default) == IF value = Keep THEN default ELSE value

\* Only the changed columns and the stamps, if the version is still the one read.
Patch(r) ==
  LET c == req[r].change
      row == req[r].row
  IN  /\ req[r].pc = "patch"
      /\ IF Same(r)
         THEN /\ desk' = [desk EXCEPT !.status = Or(c.status, @), !.priority = Or(c.priority, @),
                                      !.stamps = StatusStamps(row, c.status), !.version = @ + 1]
              /\ IF Or(c.priority, row.priority) /= row.priority THEN Goes(r, "targets") ELSE Done(r)
         ELSE UNCHANGED desk /\ Done(r)
      /\ UNCHANGED <<now, cron, deskGhosts>>

\* refreshTicketTargets, with the pause of the copy.
RefreshTargets(r) ==
  LET p == req[r].change.priority
  IN  /\ req[r].pc = "targets"
      /\ desk' = [desk EXCEPT !.due = Due(p, req[r].row.total), !.sla = Fresh(p)]
      /\ Done(r)
      /\ UNCHANGED <<now, cron, deskGhosts>>

\* Status and priority come from the copy even where nothing was asked.
Bulk(r) ==
  LET c == req[r].change
      row == req[r].row
  IN  /\ req[r].pc = "bulk"
      /\ desk' = IF Same(r)
                 THEN [desk EXCEPT !.status = Or(c.status, row.status),
                                   !.priority = Or(c.priority, row.priority),
                                   !.stamps = StatusStamps(row, c.status), !.version = @ + 1]
                 ELSE desk
      /\ Done(r)
      /\ UNCHANGED <<now, cron, deskGhosts>>

(***************************************************************************)
(* Snoozing.                                                               *)
(***************************************************************************)
MAwake(row) ==
  LET elapsed == IF row.started = None THEN 0 ELSE now - row.started
  IN  [row EXCEPT !.until = None, !.total = @ + elapsed,
                  !.due = IF @ = None THEN None ELSE @ + elapsed]

\* wakeAssignments: the time slept moves the targets.
Awake(row) ==
  LET elapsed == IF row.started = None THEN 0 ELSE now - row.started
  IN  [row EXCEPT !.until = None, !.started = None, !.total = @ + elapsed,
                  !.due = IF @ = None THEN None ELSE @ + elapsed]

MSnoozeUnbanked(r) ==
  /\ req[r].pc = "snooze"
  /\ IF Same(r)
     THEN /\ desk' = [desk EXCEPT !.until = req[r].until, !.started = now, !.version = @ + 1]
          /\ seen' = req[r].heard
     ELSE UNCHANGED <<desk, seen>>
  /\ Done(r)
  /\ UNCHANGED <<now, cron, slept, heard, announced>>

\* A snooze on a snooze banks the first period, as the copy tells.
Snooze(r) ==
  /\ req[r].pc = "snooze"
  /\ IF Same(r)
     THEN /\ desk' = [(IF req[r].row.snoozed THEN Awake(desk) ELSE desk)
                           EXCEPT !.until = req[r].until, !.started = now, !.version = @ + 1]
          /\ seen' = req[r].heard
     ELSE UNCHANGED <<desk, seen>>
  /\ Done(r)
  /\ UNCHANGED <<now, cron, slept, heard, announced>>

\* No version is compared: waking a ticket that is awake adds nothing.
Unsnooze(r) ==
  /\ req[r].pc = "unsnooze"
  /\ desk' = IF req[r].row.snoozed THEN [Awake(desk) EXCEPT !.version = @ + 1] ELSE desk
  /\ Done(r)
  /\ UNCHANGED <<now, cron, deskGhosts>>

(***************************************************************************)
(* Replies.                                                                *)
(***************************************************************************)
\* The message and its job are written; the ticket's counters move.
ReplyBatch(r) ==
  /\ req[r].pc \in {"reply", "note"}
  /\ desk' = [desk EXCEPT !.version = @ + 1, !.answered = @ \/ req[r].pc = "reply"]
  /\ IF req[r].pc = "reply" /\ req[r].row.status \in {"open", "pending"}
     THEN Goes(r, "handoff") ELSE Done(r)
  /\ UNCHANGED <<now, cron, deskGhosts>>

\* A statement of its own, decided from the copy and without a version.
HandOff(r) ==
  /\ req[r].pc = "handoff"
  /\ desk' = [desk EXCEPT !.status = "waiting_customer", !.stamps.waiting = TRUE]
  /\ Done(r)
  /\ UNCHANGED <<now, cron, deskGhosts>>

MCustomerReplyAsleep(r) ==
  /\ desk' = [desk EXCEPT !.status = "open", !.stamps = Stamps(FALSE, FALSE, FALSE), !.version = @ + 1]
  /\ heard' = heard + 1
  /\ Done(r)
  /\ UNCHANGED <<now, cron, slept, seen, announced>>

\* The inbound batch decides from no copy: the reply reopens and wakes the ticket
\* in the write that adds it.
CustomerReply(r) ==
  /\ desk' = [Awake(desk) EXCEPT !.status = "open", !.stamps = Stamps(FALSE, FALSE, FALSE),
                                 !.version = @ + 1]
  /\ heard' = heard + 1
  /\ Done(r)
  /\ UNCHANGED <<now, cron, slept, seen, announced>>

\* applyAutomations: one action of a rule, decided from the copy.  The actions of
\* a rule and the rules follow one another; a request stands for each.
Automate(r) ==
  LET c == req[r].change
      row == req[r].row
  IN  /\ req[r].pc = "rule"
      /\ desk' =
           CASE Or(c.priority, row.priority) /= row.priority ->
                  [desk EXCEPT !.priority = c.priority, !.version = @ + 1]
             [] Or(c.status, row.status) /= row.status ->
                  [desk EXCEPT !.status = c.status, !.version = @ + 1,
                     !.stamps = Stamps(c.status = "resolved", c.status = "closed", FALSE)]
             [] OTHER -> desk
      /\ Done(r)
      /\ UNCHANGED <<now, cron, deskGhosts>>

(***************************************************************************)
(* Cron: three statements of one batch, in this order, then the announcer. *)
(***************************************************************************)
Waits(row) == /\ row.until = None /\ ~row.answered /\ row.due /= None
              /\ row.status \notin {"resolved", "closed"}

DueSoon(row) == IF row.sla = "ok" /\ Waits(row) /\ 4 * now >= 3 * row.due
                THEN [row EXCEPT !.sla = "due_soon"] ELSE row
Wake(row) == IF row.until /= None /\ row.until <= now THEN Awake(row) ELSE row
Breach(row) == IF row.sla \in {"ok", "due_soon"} /\ Waits(row) /\ row.due < now
               THEN [row EXCEPT !.sla = "breached"] ELSE row

SweepTickets ==
  /\ cron = "idle"
  /\ desk' = Breach(Wake(DueSoon(desk)))
  /\ cron' = "announce"
  /\ UNCHANGED <<now, req, deskGhosts>>

MAnnounceFirst ==
  /\ cron = "announce"
  /\ desk.sla = "breached" /\ ~desk.notified
  /\ announced' = announced + 1
  /\ desk' \in {desk, [desk EXCEPT !.notified = TRUE]}
  /\ cron' = "idle"
  /\ UNCHANGED <<now, req, slept, heard, seen>>

\* The mark is set by the statement that reads; the emission may then be lost.
Announce ==
  /\ cron = "announce"
  /\ desk.sla = "breached" /\ ~desk.notified
  /\ desk' = [desk EXCEPT !.notified = TRUE]
  /\ announced' \in {announced, announced + 1}
  /\ cron' = "idle"
  /\ UNCHANGED <<now, req, slept, heard, seen>>

\* Nothing to announce, or the run ends before it.
CronEnds ==
  /\ cron = "announce"
  /\ cron' = "idle"
  /\ UNCHANGED <<now, desk, req, deskGhosts>>

Minute ==
  /\ now < Latest
  /\ \A r \in Requests : req[r].pc \in {"idle", "done"}
  /\ now' = now + 1
  /\ slept' = IF desk.until /= None THEN slept + 1 ELSE slept
  /\ UNCHANGED <<desk, req, cron, heard, seen, announced>>

\* A request ends between two statements, or answers 409.
RequestDies(r) ==
  /\ req[r].pc \notin {"idle", "done"}
  /\ Done(r)
  /\ UNCHANGED <<now, desk, cron, deskGhosts>>

StartRequest(r) ==
  /\ Arrives(r)
  /\ \/ \E c \in Asks, kind \in {"patch", "bulk", "rule"} : Read(r, kind, Whole(desk), c)
     \/ \E until \in now + 1 .. Latest : ReadForSnooze(r, until)
     \/ Read(r, "unsnooze", ForSnooze(desk), NoChange)
     \/ \E kind \in {"reply", "note"} : Read(r, kind, ForReply(desk), NoChange)
     \/ CustomerReply(r)

RequestStep(r) ==
  \/ Patch(r) \/ RefreshTargets(r) \/ Bulk(r) \/ Automate(r)
  \/ Snooze(r) \/ Unsnooze(r)
  \/ ReplyBatch(r) \/ HandOff(r)
  \/ RequestDies(r)

DeskNext ==
  \/ \E r \in Requests : StartRequest(r) \/ RequestStep(r)
  \/ SweepTickets \/ Announce \/ CronEnds
  \/ Minute

DeskSpec == DeskInit /\ [][DeskNext]_deskVars

(***************************************************************************)
(* Properties.                                                             *)
(***************************************************************************)
DeskTypeOK ==
  /\ now \in 0 .. Latest
  /\ desk.status \in Statuses /\ desk.priority \in Priorities
  /\ desk.until \in 1 .. Latest \cup {None} /\ desk.started \in 0 .. Latest \cup {None}
  /\ desk.until = None <=> desk.started = None
  /\ desk.total \in 0 .. Latest
  /\ desk.sla \in {"none", "ok", "due_soon", "breached"}

\* The time banked as paused is the time the ticket was in fact snoozed, whoever
\* wakes it - Cron late, an agent, a customer's reply, a second snooze - and
\* however their requests overlap.
PauseExact ==
  desk.total + (IF desk.until = None THEN 0 ELSE now - desk.started) = slept

\* A ticket is never snoozed by someone who could not have known of a customer's
\* reply: the reply wakes it, and a snooze that read the row before is refused.
ReplyNotBuried == desk.until /= None => seen = heard

\* The breach of one ticket is announced at most once, although its state may
\* return to ok and breach again, and Cron runs may end anywhere.
AnnouncedOnce == announced <= 1

\* A resolved or closed ticket carries the time it was: no update with an older
\* copy of the stamps slips in between.
EndHasTime ==
  /\ desk.status = "resolved" => desk.stamps.resolved
  /\ desk.status = "closed" => desk.stamps.closed

\* What src/server/sla/service.ts:105-106 says: time snoozed shifts the targets,
\* so that the clock genuinely pauses.  No run checks it: the snoozed time of the
\* copy a priority change starts from may be older than the wake it follows.
TargetsPause == desk.due /= None => \E p \in Priorities : desk.due = Due(p, desk.total)
=============================================================================
