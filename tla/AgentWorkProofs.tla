---------------------------- MODULE AgentWorkProofs ----------------------------
(***************************************************************************)
(* Proofs about what agents and customers do with tickets, for every       *)
(* number of requests, passes, tabs, rules and accounts.  The parts        *)
(* share no state, so what holds of each holds of the specification that   *)
(* runs one of them (MCSpec); each has its inductive invariant:            *)
(*   DeskInv     the row of a ticket (TicketDesk),                         *)
(*   RulesInv    automations and tags (Automations),                       *)
(*   AccountInv  accounts and sessions (Accounts),                         *)
(*   DraftInv    unsent replies (Drafts),                                  *)
(*   PagingInv   lists that are read page by page (QueuePaging),           *)
(*   ThreadInv   a conversation that is read page by page (Conversation),  *)
(*   PolicyInv   due dates (BusinessHours).                                *)
(***************************************************************************)
EXTENDS MCAgentWork, FiniteSetTheorems, WellFoundedInduction, TLAPS

(***************************************************************************)
(* The row of a ticket.                                                    *)
(***************************************************************************)
StampSet == [resolved : BOOLEAN, closed : BOOLEAN, waiting : BOOLEAN]

DeskRow ==
  [status : Statuses, priority : Priorities, version : Nat, stamps : StampSet,
   until : 1 .. Latest \cup {None}, started : 0 .. Latest \cup {None}, total : Nat,
   due : Int \cup {None}, sla : {"none", "ok", "due_soon", "breached"}, notified : BOOLEAN,
   answered : BOOLEAN]

WholeRow == [version : Nat, status : Statuses, priority : Priorities, stamps : StampSet, total : Nat]
SnoozeRow == [version : Nat, snoozed : BOOLEAN]
ReplyRow == [status : Statuses]
Changes == [status : {"keep", "open", "pending", "resolved", "closed"}, priority : {"keep"} \cup Priorities]

ReqPoints == {"idle", "patch", "targets", "bulk", "rule", "snooze", "unsnooze", "reply", "note",
              "handoff", "done"}
ReqRecord == [pc : ReqPoints, row : {None} \cup WholeRow \cup SnoozeRow \cup ReplyRow,
              change : Changes, until : 1 .. Latest \cup {None}, heard : Nat]

(***************************************************************************)
(* The inductive invariant: what the copy of a request says of the row, as *)
(* long as the row still has its version.                                  *)
(***************************************************************************)
TimeOfEnd(row) ==
  /\ row.status = "resolved" => row.stamps.resolved
  /\ row.status = "closed" => row.stamps.closed

\* Only the hand-off to the customer changes the status without the version.
CopyOfUpdate(q) ==
  /\ q.row \in WholeRow /\ TimeOfEnd(q.row) /\ q.row.version <= desk.version
  /\ q.row.version = desk.version => desk.status \in {q.row.status, "waiting_customer"}

\* Only waking takes a snooze off without the version, and nothing puts one on.
CopyOfSnooze(q) ==
  /\ q.row \in SnoozeRow /\ q.row.version <= desk.version /\ q.until /= None
  /\ q.row.version = desk.version => q.heard = heard /\ (q.row.snoozed \/ desk.until = None)

CopySound(q) ==
  /\ q.pc \in {"patch", "bulk", "rule"} => CopyOfUpdate(q)
  /\ q.pc = "targets" => q.row \in WholeRow /\ q.change.priority \in Priorities
  /\ q.pc = "snooze" => CopyOfSnooze(q)
  /\ q.pc = "unsnooze" => q.row \in SnoozeRow

Copies == \A r \in Requests : CopySound(req[r])

DeskTypes ==
  /\ now \in 0 .. Latest /\ desk \in DeskRow /\ req \in [Requests -> ReqRecord]
  /\ slept \in 0 .. now /\ heard \in Nat /\ seen \in Nat /\ announced \in Nat

Paused ==
  /\ desk.until = None <=> desk.started = None
  /\ desk.started /= None => desk.started <= now
  /\ PauseExact /\ ReplyNotBuried

ToldOnce == announced <= 1 /\ (~desk.notified => announced = 0)

DeskInv == DeskTypes /\ Copies /\ Paused /\ ToldOnce /\ TimeOfEnd(desk)

(***************************************************************************)
(* Requests.                                                               *)
(***************************************************************************)
LEMMA Changing == NoChange \in Changes /\ Asks \subseteq Changes /\ None \notin Int
  BY DeskAssumption DEF NoChange, Changes, Keep

LEMMA Resting ==
  /\ IdleReq \in ReqRecord /\ IdleReq.pc = "idle"
  /\ [IdleReq EXCEPT !.pc = "done"] \in ReqRecord /\ [IdleReq EXCEPT !.pc = "done"].pc = "done"
  BY Changing DEF IdleReq, ReqRecord, ReqPoints

\* What a request starts with, once it has read.
LEMMA Starting ==
  ASSUME NEW pc \in ReqPoints, NEW row \in WholeRow \cup SnoozeRow \cup ReplyRow, NEW change \in Changes
  PROVE  LET x == [IdleReq EXCEPT !.pc = pc, !.row = row, !.change = change]
         IN  x \in ReqRecord /\ x.pc = pc /\ x.row = row
  BY Resting DEF ReqRecord

\* The row moved on, or what copies of its version say of it still holds.
VersionMoves ==
  \/ desk'.version > desk.version
  \/ /\ desk'.version = desk.version /\ desk'.status \in {desk.status, "waiting_customer"}
     /\ heard' = heard /\ (desk.until = None => desk'.until = None)

LEMMA CopiesKept ==
  ASSUME DeskTypes, desk' \in DeskRow, Copies, VersionMoves,
         \A q \in Requests : req'[q] = req[q] \/ CopySound(req[q])'
  PROVE  Copies'
<1> SUFFICES ASSUME NEW q \in Requests, req'[q] = req[q] PROVE CopySound(req[q])'
  BY DEF Copies
<1>1. CopySound(req[q]) /\ desk.version \in Nat /\ desk'.version \in Nat
  BY DEF Copies, DeskTypes, DeskRow
<1>2. \A row \in WholeRow \cup SnoozeRow : row.version \in Nat
  BY DEF WholeRow, SnoozeRow
<1>3. req[q].pc \in {"patch", "bulk", "rule"} => CopyOfUpdate(req[q])'
  BY <1>1, <1>2 DEF CopySound, CopyOfUpdate, VersionMoves, TimeOfEnd
<1>4. req[q].pc = "snooze" => CopyOfSnooze(req[q])'
  BY <1>1, <1>2 DEF CopySound, CopyOfSnooze, VersionMoves
<1>5. QED
  BY <1>1, <1>3, <1>4 DEF CopySound

LEMMA DoneMoves ==
  ASSUME DeskTypes, NEW r \in Requests, Done(r)
  PROVE  req' \in [Requests -> ReqRecord] /\ \A q \in Requests : req'[q] = req[q] \/ CopySound(req[q])'
<1> DEFINE done == [IdleReq EXCEPT !.pc = "done"]
<1>1. done \in ReqRecord /\ done.pc = "done"
  BY Resting
<1>2. req' = [req EXCEPT ![r] = done]
  BY DEF Done
<1> HIDE DEF done
<1>3. req' \in [Requests -> ReqRecord] /\ req'[r].pc = "done"
      /\ \A q \in Requests \ {r} : req'[q] = req[q]
  BY <1>1, <1>2 DEF DeskTypes
<1>4. QED
  BY <1>3 DEF CopySound

LEMMA GoesMoves ==
  ASSUME DeskTypes, NEW r \in Requests, NEW pc \in {"targets", "handoff"}, Goes(r, pc),
         pc = "targets" => req[r].row \in WholeRow /\ req[r].change.priority \in Priorities
  PROVE  req' \in [Requests -> ReqRecord] /\ \A q \in Requests : req'[q] = req[q] \/ CopySound(req[q])'
<1> DEFINE x == [req[r] EXCEPT !.pc = pc]
<1>1. x \in ReqRecord /\ x.pc = pc /\ x.row = req[r].row /\ x.change = req[r].change
  BY DEF DeskTypes, ReqRecord, ReqPoints
<1>2. req' = [req EXCEPT ![r] = x]
  BY DEF Goes
<1> HIDE DEF x
<1>3. req' \in [Requests -> ReqRecord] /\ req'[r] = x /\ \A q \in Requests \ {r} : req'[q] = req[q]
  BY <1>1, <1>2 DEF DeskTypes
<1>4. QED
  BY <1>1, <1>3 DEF CopySound

\* A request that begins to work from a copy, of whatever kind.
LEMMA ReadMoves ==
  ASSUME DeskTypes, NEW r \in Requests, NEW x \in ReqRecord, req' = [req EXCEPT ![r] = x],
         CopySound(x), UNCHANGED <<desk, heard>>
  PROVE  req' \in [Requests -> ReqRecord] /\ \A q \in Requests : req'[q] = req[q] \/ CopySound(req[q])'
<1>1. req' \in [Requests -> ReqRecord] /\ req'[r] = x /\ \A q \in Requests \ {r} : req'[q] = req[q]
  BY DEF DeskTypes
<1>2. CopySound(req[r])'
  BY <1>1 DEF CopySound, CopyOfUpdate, CopyOfSnooze, TimeOfEnd
<1>3. QED
  BY <1>1, <1>2

(***************************************************************************)
(* What is written to the row.                                             *)
(***************************************************************************)
LEMMA Stamping ==
  /\ \A a, b, c \in BOOLEAN : /\ Stamps(a, b, c) \in StampSet
                              /\ Stamps(a, b, c).resolved <=> a
                              /\ Stamps(a, b, c).closed <=> b
  /\ \A row \in DeskRow \cup WholeRow : row.stamps \in StampSet
  BY DEF Stamps, StampSet, DeskRow, WholeRow

\* A change of status stamps the time it ends the ticket at.
LEMMA StatusStamped ==
  ASSUME NEW row \in WholeRow, NEW c \in Changes, TimeOfEnd(row), NEW status \in Statuses,
         c.status /= Keep => status = c.status,
         c.status = Keep => status \in {row.status, "waiting_customer"}
  PROVE  /\ StatusStamps(row, c.status) \in StampSet
         /\ status = "resolved" => StatusStamps(row, c.status).resolved
         /\ status = "closed" => StatusStamps(row, c.status).closed
<1> DEFINE next == c.status
<1>1. next \in {"keep", "open", "pending", "resolved", "closed"}
  BY DEF Changes
<1>2. row.stamps \in StampSet /\ row.stamps.resolved \in BOOLEAN
  BY Stamping DEF StampSet
<1>3. CASE next = Keep
  <2>1. StatusStamps(row, next) = row.stamps
    BY <1>3 DEF StatusStamps, Keep
  <2>2. QED
    BY <2>1, <1>2, <1>3 DEF TimeOfEnd
<1>4. CASE next = "resolved"
  <2>1. StatusStamps(row, next) = Stamps(TRUE, FALSE, FALSE)
    BY <1>4 DEF StatusStamps, Keep
  <2>2. QED
    BY <2>1, <1>4, Stamping DEF Keep
<1>5. CASE next = "closed"
  <2>1. StatusStamps(row, next) = Stamps(row.stamps.resolved, TRUE, FALSE)
    BY <1>5 DEF StatusStamps, Keep
  <2>2. QED
    BY <2>1, <1>2, <1>5, Stamping DEF Keep
<1>6. CASE next \in {"open", "pending"}
  <2>1. StatusStamps(row, next) = Stamps(FALSE, FALSE, FALSE)
    BY <1>6 DEF StatusStamps, Keep
  <2>2. QED
    BY <2>1, <1>6, Stamping DEF Keep
<1>7. QED
  BY <1>1, <1>3, <1>4, <1>5, <1>6 DEF Keep

\* Waking banks the time since the snooze began, once.
LEMMA Waking ==
  ASSUME NEW row \in DeskRow, now \in 0 .. Latest, row.started /= None => row.started <= now
  PROVE  /\ Awake(row) \in DeskRow /\ Awake(row).until = None /\ Awake(row).started = None
         /\ Awake(row).total = row.total + (IF row.started = None THEN 0 ELSE now - row.started)
         /\ Awake(row).status = row.status /\ Awake(row).version = row.version
         /\ Awake(row).stamps = row.stamps /\ Awake(row).notified = row.notified
<1> DEFINE elapsed == IF row.started = None THEN 0 ELSE now - row.started
<1>1. elapsed \in Nat
  BY Changing DEF DeskRow
<1>2. Awake(row) = [row EXCEPT !.until = None, !.started = None, !.total = row.total + elapsed,
                               !.due = IF row.due = None THEN None ELSE row.due + elapsed]
  BY DEF Awake
<1> HIDE DEF elapsed
<1>3. (IF row.due = None THEN None ELSE row.due + elapsed) \in Int \cup {None}
      /\ row.total + elapsed \in Nat
  BY <1>1 DEF DeskRow
<1>4. QED
  BY <1>2, <1>3 DEF DeskRow, elapsed

(***************************************************************************)
(* One step.                                                               *)
(***************************************************************************)
LEMMA DeskInvInit == DeskInit => DeskInv
<1> SUFFICES ASSUME DeskInit PROVE DeskInv
  OBVIOUS
<1> PICK by \in {"agent", "customer"}, p \in Priorities : desk = Opened(by, p)
  BY DEF DeskInit
<1>1. Fresh(p) \in {"none", "ok"} /\ Due(p, 0) \in Int \cup {None}
  BY DeskAssumption DEF Fresh, Due
<1>2. Stamps(FALSE, FALSE, by = "agent") \in StampSet
  BY Stamping
<1>3. /\ desk \in DeskRow /\ desk.until = None /\ desk.started = None /\ desk.total = 0
      /\ desk.status \in {"open", "waiting_customer"}
  BY <1>1, <1>2 DEF Opened, DeskRow, Statuses
<1>4. req \in [Requests -> ReqRecord] /\ \A r \in Requests : req[r].pc = "idle"
  BY Resting DEF DeskInit
<1>5. DeskTypes
  BY <1>3, <1>4, DeskAssumption DEF DeskInit, DeskTypes
<1>6. Copies
  BY <1>4 DEF Copies, CopySound
<1>7. Paused
  BY <1>3 DEF Paused, PauseExact, ReplyNotBuried, DeskInit
<1>8. ToldOnce /\ TimeOfEnd(desk)
  BY <1>3 DEF ToldOnce, TimeOfEnd, DeskInit
<1>9. QED
  BY <1>5, <1>6, <1>7, <1>8 DEF DeskInv

\* A write that leaves the pause alone, with its version or without.
LEMMA PauseKept ==
  ASSUME Paused, desk'.until = desk.until, desk'.started = desk.started, desk'.total = desk.total,
         UNCHANGED <<now, slept, heard, seen>>
  PROVE  Paused'
  BY DEF Paused, PauseExact, ReplyNotBuried

\* A write that wakes the ticket: the snoozed minutes are banked.
LEMMA PauseBanked ==
  ASSUME DeskInv, desk'.until = None, desk'.started = None, desk'.total = Awake(desk).total,
         UNCHANGED <<now, slept>>
  PROVE  Paused'
<1>1. desk \in DeskRow /\ (desk.started /= None => desk.started <= now) /\ now \in 0 .. Latest
  BY DEF DeskInv, DeskTypes, Paused
<1>2. Awake(desk).total = desk.total + (IF desk.started = None THEN 0 ELSE now - desk.started)
  BY <1>1, Waking
<1>3. desk'.total = slept
  BY <1>1, <1>2 DEF DeskInv, Paused, PauseExact, DeskRow
<1>4. QED
  BY <1>3 DEF Paused, PauseExact, ReplyNotBuried, DeskInv, DeskTypes

LEMMA DeskRequestStep ==
  ASSUME DeskInv, NEW r \in Requests, RequestStep(r)
  PROVE  DeskInv'
<1> USE DEF deskGhosts
<1>t. /\ now \in 0 .. Latest /\ desk \in DeskRow /\ req \in [Requests -> ReqRecord]
      /\ slept \in 0 .. now /\ heard \in Nat /\ seen \in Nat /\ announced \in Nat
      /\ desk.version \in Nat
  BY DEF DeskInv, DeskTypes, DeskRow
<1>q. req[r] \in ReqRecord /\ req[r].change \in Changes /\ CopySound(req[r]) /\ req[r].heard \in Nat
      /\ req[r].until \in 1 .. Latest \cup {None}
  BY <1>t DEF DeskInv, Copies, ReqRecord
<1> DEFINE v == desk.version + 1
<1>v. v \in Nat /\ v > desk.version
  BY <1>t
<1> HIDE DEF v
<1>w. desk.started /= None => desk.started <= now
  BY DEF DeskInv, Paused
<1>i. /\ Paused /\ ToldOnce /\ TimeOfEnd(desk) /\ Copies /\ DeskTypes
  BY DEF DeskInv
\* A write that says nothing of the pause and of announcements.
<1>k. ASSUME desk' \in DeskRow, desk'.until = desk.until, desk'.started = desk.started,
             desk'.total = desk.total, desk'.notified = desk.notified,
             UNCHANGED <<now, slept, heard, seen, announced>>, VersionMoves, TimeOfEnd(desk'),
             req' \in [Requests -> ReqRecord],
             \A q \in Requests : req'[q] = req[q] \/ CopySound(req[q])'
      PROVE  DeskInv'
  <2>1. Paused' /\ Copies'
    BY <1>k, <1>i, PauseKept, CopiesKept
  <2>2. DeskTypes' /\ ToldOnce' /\ TimeOfEnd(desk)'
    BY <1>k, <1>i, <1>t DEF DeskTypes, ToldOnce, TimeOfEnd
  <2>3. QED
    BY <2>1, <2>2 DEF DeskInv
<1>n. ASSUME Done(r), UNCHANGED <<now, desk, slept, heard, seen, announced>> PROVE DeskInv'
  <2>1. req' \in [Requests -> ReqRecord] /\ \A q \in Requests : req'[q] = req[q] \/ CopySound(req[q])'
    BY <1>n, <1>i, DoneMoves
  <2>2. VersionMoves /\ TimeOfEnd(desk')
    BY <1>n, <1>i DEF VersionMoves, TimeOfEnd
  <2>3. QED
    BY <2>1, <2>2, <1>n, <1>t, <1>k
<1>d. ASSUME Done(r)
      PROVE  req' \in [Requests -> ReqRecord] /\ \A q \in Requests : req'[q] = req[q] \/ CopySound(req[q])'
  BY <1>d, <1>i, DoneMoves
<1>1. CASE Patch(r)
  <2> DEFINE c == req[r].change
             row == req[r].row
             status == Or(c.status, desk.status)
             stamps == StatusStamps(row, c.status)
             new == [desk EXCEPT !.status = status, !.priority = Or(c.priority, desk.priority),
                                 !.stamps = stamps, !.version = v]
  <2>1. CopyOfUpdate(req[r]) /\ req[r].pc = "patch"
    BY <1>1, <1>q DEF Patch, CopySound
  <2>2. CASE ~Same(r)
    BY <2>2, <1>1, <1>n DEF Patch
  <2>3. CASE Same(r)
    <3>1. desk' = new /\ UNCHANGED <<now, slept, heard, seen, announced>>
      BY <1>1, <2>3 DEF Patch, v
    <3>2. desk.status \in {row.status, "waiting_customer"} /\ row \in WholeRow /\ TimeOfEnd(row)
      BY <2>1, <2>3 DEF CopyOfUpdate, Same
    <3>3. status \in Statuses /\ (c.status /= Keep => status = c.status)
          /\ (c.status = Keep => status \in {row.status, "waiting_customer"})
      BY <3>2, <1>q, <1>t DEF Or, Changes, Statuses, DeskRow, Keep
    <3>4. /\ stamps \in StampSet
          /\ status = "resolved" => stamps.resolved
          /\ status = "closed" => stamps.closed
      BY <3>2, <3>3, <1>q, StatusStamped
    <3>5. Or(c.priority, desk.priority) \in Priorities
      BY <1>q, <1>t DEF Or, Changes, DeskRow, Keep
    <3> HIDE DEF status, stamps
    <3>6. /\ new \in DeskRow /\ new.status = status /\ new.stamps = stamps
          /\ new.version = v /\ new.until = desk.until /\ new.started = desk.started
          /\ new.total = desk.total /\ new.notified = desk.notified
      BY <3>3, <3>4, <3>5, <1>t, <1>v DEF DeskRow
    <3>7. req' \in [Requests -> ReqRecord] /\ \A q \in Requests : req'[q] = req[q] \/ CopySound(req[q])'
      <4>1. CASE Done(r)
        BY <4>1, <1>d
      <4>2. CASE Goes(r, "targets") /\ Or(c.priority, row.priority) /= row.priority
        <5>1. c.priority \in Priorities
          BY <4>2, <1>q DEF Or, Changes, Keep
        <5>2. QED
          BY <4>2, <5>1, <3>2, <1>i, GoesMoves
      <4>3. QED
        BY <4>1, <4>2, <1>1, <2>3 DEF Patch
    <3> HIDE DEF new
    <3>8. VersionMoves /\ TimeOfEnd(desk')
      BY <3>1, <3>4, <3>6, <1>t, <1>v DEF VersionMoves, TimeOfEnd
    <3>9. QED
      BY <3>1, <3>6, <3>7, <3>8, <1>k
  <2>4. QED
    BY <2>2, <2>3
<1>2. CASE RefreshTargets(r)
  <2> DEFINE p == req[r].change.priority
             target == Due(p, req[r].row.total)
             new == [desk EXCEPT !.due = target, !.sla = Fresh(p)]
  <2>1. p \in Priorities /\ req[r].row \in WholeRow
    BY <1>2, <1>q DEF RefreshTargets, CopySound
  <2>2. target \in Int \cup {None} /\ Fresh(p) \in {"none", "ok"}
    BY <2>1, DeskAssumption DEF Due, Fresh, WholeRow
  <2>3. desk' = new /\ Done(r) /\ UNCHANGED <<now, slept, heard, seen, announced>>
    BY <1>2 DEF RefreshTargets
  <2> HIDE DEF target, p
  <2>4. /\ new \in DeskRow /\ new.status = desk.status /\ new.stamps = desk.stamps
        /\ new.version = desk.version /\ new.until = desk.until /\ new.started = desk.started
        /\ new.total = desk.total /\ new.notified = desk.notified
    BY <2>2, <1>t, <1>v DEF DeskRow
  <2> HIDE DEF new
  <2>5. VersionMoves /\ TimeOfEnd(desk')
    BY <2>3, <2>4, <1>i DEF VersionMoves, TimeOfEnd
  <2>6. QED
    BY <2>3, <2>4, <2>5, <1>d, <1>k
<1>3. CASE Bulk(r)
  <2> DEFINE c == req[r].change
             row == req[r].row
             status == Or(c.status, row.status)
             stamps == StatusStamps(row, c.status)
             new == [desk EXCEPT !.status = status, !.priority = Or(c.priority, row.priority),
                                 !.stamps = stamps, !.version = v]
  <2>1. CopyOfUpdate(req[r]) /\ Done(r) /\ UNCHANGED <<now, slept, heard, seen, announced>>
    BY <1>3, <1>q DEF Bulk, CopySound
  <2>2. CASE ~Same(r)
    BY <2>1, <2>2, <1>3, <1>n DEF Bulk
  <2>3. CASE Same(r)
    <3>1. desk' = new
      BY <1>3, <2>3 DEF Bulk, v
    <3>2. row \in WholeRow /\ TimeOfEnd(row)
      BY <2>1 DEF CopyOfUpdate
    <3>3. status \in Statuses /\ (c.status /= Keep => status = c.status)
          /\ (c.status = Keep => status \in {row.status, "waiting_customer"})
      BY <3>2, <1>q DEF Or, Changes, Statuses, WholeRow, Keep
    <3>4. /\ stamps \in StampSet
          /\ status = "resolved" => stamps.resolved
          /\ status = "closed" => stamps.closed
      BY <3>2, <3>3, <1>q, StatusStamped
    <3>5. Or(c.priority, row.priority) \in Priorities
      BY <3>2, <1>q DEF Or, Changes, WholeRow, Keep
    <3> HIDE DEF status, stamps
    <3>6. /\ new \in DeskRow /\ new.status = status /\ new.stamps = stamps
          /\ new.version = v /\ new.until = desk.until /\ new.started = desk.started
          /\ new.total = desk.total /\ new.notified = desk.notified
      BY <3>3, <3>4, <3>5, <1>t, <1>v DEF DeskRow
    <3> HIDE DEF new
    <3>7. VersionMoves /\ TimeOfEnd(desk')
      BY <3>1, <3>4, <3>6, <1>t, <1>v DEF VersionMoves, TimeOfEnd
    <3>8. QED
      BY <2>1, <3>1, <3>6, <3>7, <1>d, <1>k
  <2>4. QED
    BY <2>2, <2>3
<1>4. CASE Automate(r)
  <2> DEFINE c == req[r].change
             row == req[r].row
             stamps == Stamps(c.status = "resolved", c.status = "closed", FALSE)
             raised == [desk EXCEPT !.priority = c.priority, !.version = v]
             moved == [desk EXCEPT !.status = c.status, !.version = v, !.stamps = stamps]
  <2>1. Done(r) /\ UNCHANGED <<now, slept, heard, seen, announced>> /\ c \in Changes
    BY <1>4, <1>q DEF Automate
  <2>2. \/ c.priority /= Keep /\ desk' = raised
        \/ c.status /= Keep /\ desk' = moved
        \/ desk' = desk
    BY <1>4 DEF Automate, Or, v
  <2>3. CASE c.priority /= Keep /\ desk' = raised
    <3>1. c.priority \in Priorities
      BY <2>1, <2>3 DEF Changes, Keep
    <3>2. /\ raised \in DeskRow /\ raised.status = desk.status /\ raised.stamps = desk.stamps
          /\ raised.version = v /\ raised.until = desk.until
          /\ raised.started = desk.started /\ raised.total = desk.total
          /\ raised.notified = desk.notified
      BY <3>1, <1>t, <1>v DEF DeskRow
    <3> HIDE DEF raised
    <3>3. VersionMoves /\ TimeOfEnd(desk')
      BY <2>3, <3>2, <1>i, <1>t, <1>v DEF VersionMoves, TimeOfEnd
    <3>4. QED
      BY <2>1, <2>3, <3>2, <3>3, <1>d, <1>k
  <2>4. CASE c.status /= Keep /\ desk' = moved
    <3>1. c.status \in {"open", "pending", "resolved", "closed"}
      BY <2>1, <2>4 DEF Changes, Keep
    <3>2. /\ stamps \in StampSet /\ (stamps.resolved <=> c.status = "resolved")
          /\ (stamps.closed <=> c.status = "closed")
      BY Stamping
    <3> HIDE DEF stamps
    <3>3. /\ moved \in DeskRow /\ moved.status = c.status /\ moved.stamps = stamps
          /\ moved.version = v /\ moved.until = desk.until
          /\ moved.started = desk.started /\ moved.total = desk.total
          /\ moved.notified = desk.notified
      BY <3>1, <3>2, <1>t, <1>v DEF DeskRow, Statuses
    <3> HIDE DEF moved
    <3>4. VersionMoves /\ TimeOfEnd(desk')
      BY <2>4, <3>2, <3>3, <1>t, <1>v DEF VersionMoves, TimeOfEnd
    <3>5. QED
      BY <2>1, <2>4, <3>3, <3>4, <1>d, <1>k
  <2>5. CASE desk' = desk
    BY <2>1, <2>5, <1>n
  <2>6. QED
    BY <2>2, <2>3, <2>4, <2>5
<1>5. CASE Snooze(r)
  <2> DEFINE snoozed == req[r].row.snoozed
             base == IF snoozed THEN Awake(desk) ELSE desk
             new == [base EXCEPT !.until = req[r].until, !.started = now, !.version = v]
  <2>1. CopyOfSnooze(req[r]) /\ Done(r) /\ UNCHANGED <<now, slept, heard, announced>>
    BY <1>5, <1>q DEF Snooze, CopySound
  <2>2. CASE ~Same(r)
    BY <2>1, <2>2, <1>5, <1>n DEF Snooze
  <2>3. CASE Same(r)
    <3>2. /\ req[r].heard = heard /\ (snoozed \/ desk.until = None) /\ snoozed \in BOOLEAN
          /\ req[r].until \in 1 .. Latest
      BY <2>1, <2>3, <1>q DEF CopyOfSnooze, Same, SnoozeRow
    <3>3. /\ base \in DeskRow /\ base.status = desk.status /\ base.stamps = desk.stamps
          /\ base.version = desk.version /\ base.notified = desk.notified /\ base.total = slept
      <4>1. CASE snoozed
        BY <4>1, <1>t, <1>w, <1>i, Waking DEF Paused, PauseExact, DeskRow
      <4>2. CASE ~snoozed
        BY <4>2, <3>2, <1>t, <1>i DEF Paused, PauseExact, DeskRow
      <4>3. QED
        BY <4>1, <4>2, <3>2
    <3>1. desk' = new /\ seen' = req[r].heard
      BY <1>5, <2>3, <3>3 DEF Snooze, v
    <3> HIDE DEF base
    <3>4. /\ new \in DeskRow /\ new.status = desk.status /\ new.stamps = desk.stamps
          /\ new.version = v /\ new.until = req[r].until /\ new.started = now
          /\ new.total = slept /\ new.notified = desk.notified
      BY <3>2, <3>3, <1>t, <1>v DEF DeskRow
    <3> HIDE DEF new
    <3>5. VersionMoves /\ TimeOfEnd(desk')
      BY <3>1, <3>4, <1>i, <1>t, <1>v DEF VersionMoves, TimeOfEnd
    <3>6. Copies'
      BY <3>1, <3>4, <3>5, <2>1, <1>d, <1>i, CopiesKept
    <3>7. Paused'
      BY <3>1, <3>2, <3>4, <2>1, <1>t, Changing DEF Paused, PauseExact, ReplyNotBuried
    <3>8. DeskTypes' /\ ToldOnce'
      BY <3>1, <3>4, <2>1, <1>d, <1>q, <1>t, <1>i DEF DeskTypes, ToldOnce
    <3>9. QED
      BY <3>5, <3>6, <3>7, <3>8 DEF DeskInv, TimeOfEnd
  <2>4. QED
    BY <2>2, <2>3
<1>6. CASE Unsnooze(r)
  <2> DEFINE new == [Awake(desk) EXCEPT !.version = v]
  <2>1. Done(r) /\ UNCHANGED <<now, slept, heard, seen, announced>>
    BY <1>6 DEF Unsnooze
  <2>2. CASE desk' = desk
    BY <2>1, <2>2, <1>n
  <2>3. CASE desk' = [Awake(desk) EXCEPT !.version = Awake(desk).version + 1]
    <3>1. /\ Awake(desk) \in DeskRow /\ Awake(desk).until = None /\ Awake(desk).started = None
          /\ Awake(desk).status = desk.status /\ Awake(desk).version = desk.version
          /\ Awake(desk).stamps = desk.stamps /\ Awake(desk).notified = desk.notified
      BY <1>t, <1>w, Waking
    <3>0. desk' = new
      BY <2>3, <3>1 DEF v
    <3>2. /\ new \in DeskRow /\ new.status = desk.status /\ new.stamps = desk.stamps
          /\ new.version = v /\ new.until = None /\ new.started = None
          /\ new.total = Awake(desk).total /\ new.notified = desk.notified
      BY <3>1, <1>t, <1>v DEF DeskRow
    <3> HIDE DEF new
    <3>3. VersionMoves /\ TimeOfEnd(desk)'
      BY <3>0, <3>2, <1>i, <1>t, <1>v DEF VersionMoves, TimeOfEnd
    <3>4. Copies'
      BY <2>1, <3>0, <3>2, <3>3, <1>d, <1>i, CopiesKept
    <3>5. Paused'
      BY <2>1, <3>0, <3>2, PauseBanked
    <3>6. DeskTypes' /\ ToldOnce'
      BY <2>1, <3>0, <3>2, <1>d, <1>t, <1>i DEF DeskTypes, ToldOnce
    <3>7. QED
      BY <3>3, <3>4, <3>5, <3>6 DEF DeskInv
  <2>4. QED
    BY <2>2, <2>3, <1>6 DEF Unsnooze
<1>7. CASE ReplyBatch(r)
  <2> DEFINE new == [desk EXCEPT !.version = v,
                                 !.answered = desk.answered \/ req[r].pc = "reply"]
  <2>1. desk' = new /\ UNCHANGED <<now, slept, heard, seen, announced>>
    BY <1>7 DEF ReplyBatch, v
  <2>2. /\ new \in DeskRow /\ new.status = desk.status /\ new.stamps = desk.stamps
        /\ new.version = v /\ new.until = desk.until /\ new.started = desk.started
        /\ new.total = desk.total /\ new.notified = desk.notified
    BY <1>t, <1>v DEF DeskRow
  <2> HIDE DEF new
  <2>3. VersionMoves /\ TimeOfEnd(desk')
    BY <2>1, <2>2, <1>i, <1>t, <1>v DEF VersionMoves, TimeOfEnd
  <2>4. req' \in [Requests -> ReqRecord] /\ \A q \in Requests : req'[q] = req[q] \/ CopySound(req[q])'
    BY <1>7, <1>d, <1>i, GoesMoves DEF ReplyBatch
  <2>5. QED
    BY <2>1, <2>2, <2>3, <2>4, <1>k
<1>8. CASE HandOff(r)
  <2> DEFINE stamps == [desk.stamps EXCEPT !.waiting = TRUE]
             new == [desk EXCEPT !.status = "waiting_customer", !.stamps = stamps]
  <2>1. desk' = new /\ Done(r) /\ UNCHANGED <<now, slept, heard, seen, announced>>
    BY <1>8, <1>t DEF HandOff, DeskRow
  <2>2. stamps \in StampSet
    <3>1. desk.stamps \in StampSet
      BY <1>t DEF DeskRow
    <3>2. QED
      BY <3>1 DEF StampSet
  <2> HIDE DEF stamps
  <2>3. /\ new \in DeskRow /\ new.status = "waiting_customer"
        /\ new.version = desk.version /\ new.until = desk.until /\ new.started = desk.started
        /\ new.total = desk.total /\ new.notified = desk.notified
    BY <2>2, <1>t, <1>v DEF DeskRow, Statuses
  <2> HIDE DEF new
  <2>4. VersionMoves /\ TimeOfEnd(desk')
    BY <2>1, <2>3, <1>t, <1>v DEF VersionMoves, TimeOfEnd
  <2>5. QED
    BY <2>1, <2>3, <2>4, <1>d, <1>k
<1>9. CASE RequestDies(r)
  BY <1>9, <1>n DEF RequestDies
<1>10. QED
  BY <1>1, <1>2, <1>3, <1>4, <1>5, <1>6, <1>7, <1>8, <1>9 DEF RequestStep

\* A request begins: it has read the row, or it is the customer's reply itself.
LEMMA DeskStartStep ==
  ASSUME DeskInv, NEW r \in Requests, StartRequest(r)
  PROVE  DeskInv'
<1> USE DEF deskGhosts
<1>t. /\ now \in 0 .. Latest /\ desk \in DeskRow /\ req \in [Requests -> ReqRecord]
      /\ slept \in 0 .. now /\ heard \in Nat /\ seen \in Nat /\ announced \in Nat
      /\ desk.version \in Nat
  BY DEF DeskInv, DeskTypes, DeskRow
<1>i. /\ Paused /\ ToldOnce /\ TimeOfEnd(desk) /\ Copies /\ DeskTypes
  BY DEF DeskInv
\* Reading changes nothing but the request.
<1>k. ASSUME NEW x \in ReqRecord, req' = [req EXCEPT ![r] = x], CopySound(x),
             UNCHANGED <<now, desk, slept, heard, seen, announced>>
      PROVE  DeskInv'
  <2>1. req' \in [Requests -> ReqRecord] /\ \A q \in Requests : req'[q] = req[q] \/ CopySound(req[q])'
    BY <1>k, <1>i, ReadMoves
  <2>2. VersionMoves
    BY <1>k DEF VersionMoves
  <2>3. Copies' /\ Paused'
    BY <2>1, <2>2, <1>k, <1>i, <1>t, CopiesKept, PauseKept
  <2>4. QED
    BY <2>1, <2>3, <1>k, <1>i DEF DeskInv, DeskTypes, ToldOnce, TimeOfEnd
<1>1. ASSUME NEW c \in Asks, NEW kind \in {"patch", "bulk", "rule"}, Read(r, kind, Whole(desk), c)
      PROVE  DeskInv'
  <2> DEFINE row == Whole(desk)
             x == [IdleReq EXCEPT !.pc = kind, !.row = row, !.change = c]
  <2>1. row \in WholeRow /\ row.status = desk.status /\ row.stamps = desk.stamps /\ row.version = desk.version
    BY <1>t DEF Whole, WholeRow, DeskRow
  <2>2. req' = [req EXCEPT ![r] = x] /\ UNCHANGED <<now, desk, slept, heard, seen, announced>>
    BY <1>1 DEF Read
  <2> HIDE DEF row
  <2>3. x \in ReqRecord /\ x.pc = kind /\ x.row = row
    <3>1. kind \in ReqPoints
      BY DEF ReqPoints
    <3>2. QED
      BY <3>1, <2>1, Changing, Starting
  <2> HIDE DEF x
  <2>4. CopySound(x)
    BY <2>1, <2>3, <1>i, <1>t DEF CopySound, CopyOfUpdate, TimeOfEnd
  <2>5. QED
    BY <2>2, <2>3, <2>4, <1>k
<1>2. ASSUME NEW until \in now + 1 .. Latest, ReadForSnooze(r, until) PROVE DeskInv'
  <2> DEFINE row == ForSnooze(desk)
             x == [IdleReq EXCEPT !.pc = "snooze", !.row = row, !.until = until, !.heard = heard]
  <2>1. row \in SnoozeRow /\ (row.snoozed <=> desk.until /= None) /\ row.version = desk.version
    BY <1>t DEF ForSnooze, SnoozeRow
  <2>2. req' = [req EXCEPT ![r] = x] /\ UNCHANGED <<now, desk, slept, heard, seen, announced>>
    BY <1>2 DEF ReadForSnooze
  <2>3. until \in 1 .. Latest /\ until /= None /\ "snooze" \in ReqPoints
    BY Changing, <1>t DEF ReqPoints
  <2> HIDE DEF row
  <2>4. x \in ReqRecord /\ x.pc = "snooze" /\ x.row = row /\ x.until /= None /\ x.heard = heard
    BY <2>1, <2>3, <1>t, Resting DEF ReqRecord
  <2> HIDE DEF x
  <2>5. CopySound(x)
    BY <2>1, <2>4, <1>t DEF CopySound, CopyOfSnooze
  <2>6. QED
    BY <2>2, <2>4, <2>5, <1>k
<1>3. CASE Read(r, "unsnooze", ForSnooze(desk), NoChange)
  <2> DEFINE row == ForSnooze(desk)
             x == [IdleReq EXCEPT !.pc = "unsnooze", !.row = row, !.change = NoChange]
  <2>1. row \in SnoozeRow
    BY <1>t DEF ForSnooze, SnoozeRow
  <2>2. req' = [req EXCEPT ![r] = x] /\ UNCHANGED <<now, desk, slept, heard, seen, announced>>
    BY <1>3 DEF Read
  <2> HIDE DEF row
  <2>3. x \in ReqRecord /\ x.pc = "unsnooze" /\ x.row = row
    BY <2>1, Changing, Starting, ZenonT(60) DEF ReqPoints
  <2> HIDE DEF x
  <2>4. CopySound(x)
    BY <2>1, <2>3 DEF CopySound
  <2>5. QED
    BY <2>2, <2>3, <2>4, <1>k
<1>4. ASSUME NEW kind \in {"reply", "note"}, Read(r, kind, ForReply(desk), NoChange) PROVE DeskInv'
  <2> DEFINE row == ForReply(desk)
             x == [IdleReq EXCEPT !.pc = kind, !.row = row, !.change = NoChange]
  <2>1. row \in ReplyRow
    BY <1>t DEF ForReply, ReplyRow, DeskRow
  <2>2. req' = [req EXCEPT ![r] = x] /\ UNCHANGED <<now, desk, slept, heard, seen, announced>>
    BY <1>4 DEF Read
  <2> HIDE DEF row
  <2>3. x \in ReqRecord /\ x.pc = kind
    <3>1. kind \in ReqPoints
      BY DEF ReqPoints
    <3>2. NoChange \in Changes /\ row \in WholeRow \cup SnoozeRow \cup ReplyRow
      BY <2>1, Changing
    <3> HIDE DEF x
    <3>3. QED
      BY <3>1, <3>2, Resting DEF x, ReqRecord
  <2> HIDE DEF x
  <2>4. CopySound(x)
    BY <2>3 DEF CopySound
  <2>5. QED
    BY <2>2, <2>3, <2>4, <1>k
<1>5. CASE CustomerReply(r)
  <2> DEFINE v == desk.version + 1
             stamps == Stamps(FALSE, FALSE, FALSE)
             new == [Awake(desk) EXCEPT !.status = "open", !.stamps = stamps, !.version = v]
  <2>1. /\ Awake(desk) \in DeskRow /\ Awake(desk).until = None /\ Awake(desk).started = None
        /\ Awake(desk).version = desk.version /\ Awake(desk).notified = desk.notified
    BY <1>t, <1>i, Waking DEF Paused
  <2>2. desk' = new
    BY <2>1, <1>5 DEF CustomerReply
  <2>3. v \in Nat /\ v > desk.version /\ stamps \in StampSet
    BY <1>t DEF Stamps, StampSet
  <2>4. Done(r) /\ heard' = heard + 1 /\ UNCHANGED <<now, slept, seen, announced>>
    BY <1>5 DEF CustomerReply
  <2> HIDE DEF v, stamps
  <2>5. /\ new \in DeskRow /\ new.status = "open" /\ new.version = v /\ new.until = None
        /\ new.started = None /\ new.total = Awake(desk).total /\ new.notified = desk.notified
    BY <2>1, <2>3 DEF DeskRow, Statuses
  <2> HIDE DEF new
  <2>6. VersionMoves /\ TimeOfEnd(desk)'
    BY <2>2, <2>3, <2>5 DEF VersionMoves, TimeOfEnd
  <2>7. req' \in [Requests -> ReqRecord] /\ Copies'
    BY <2>2, <2>4, <2>5, <2>6, <1>i, DoneMoves, CopiesKept
  <2>8. Paused'
    BY <2>2, <2>4, <2>5, PauseBanked
  <2>9. DeskTypes' /\ ToldOnce'
    BY <2>2, <2>4, <2>5, <2>7, <1>t, <1>i DEF DeskTypes, ToldOnce
  <2>10. QED
    BY <2>6, <2>7, <2>8, <2>9 DEF DeskInv
<1>6. QED
  BY <1>1, <1>2, <1>3, <1>4, <1>5 DEF StartRequest

\* The sweep wakes the ticket or moves its SLA state, and nothing else.
LEMMA Sweeping ==
  ASSUME DeskInv
  PROVE  LET row == Breach(Wake(DueSoon(desk)))
         IN  /\ row \in DeskRow /\ row.status = desk.status /\ row.version = desk.version
             /\ row.stamps = desk.stamps /\ row.notified = desk.notified
             /\ \/ row.until = desk.until /\ row.started = desk.started /\ row.total = desk.total
                \/ row.until = None /\ row.started = None /\ row.total = Awake(desk).total
<1>t. /\ desk \in DeskRow /\ now \in 0 .. Latest /\ (desk.started /= None => desk.started <= now)
  BY DEF DeskInv, DeskTypes, Paused
<1> DEFINE soon == DueSoon(desk)
           woken == Wake(soon)
           row == Breach(woken)
<1>1. /\ soon \in DeskRow /\ soon.status = desk.status /\ soon.version = desk.version
      /\ soon.stamps = desk.stamps /\ soon.notified = desk.notified
      /\ soon.until = desk.until /\ soon.started = desk.started /\ soon.total = desk.total
  <2>1. soon = desk \/ soon = [desk EXCEPT !.sla = "due_soon"]
    BY DEF DueSoon
  <2> HIDE DEF soon
  <2>2. QED
    BY <2>1, <1>t DEF DeskRow
<1>2. Awake(soon).total = Awake(desk).total
  BY <1>1, <1>t, Waking
<1> HIDE DEF soon
<1>3. /\ woken \in DeskRow /\ woken.status = desk.status /\ woken.version = desk.version
      /\ woken.stamps = desk.stamps /\ woken.notified = desk.notified
      /\ \/ woken.until = desk.until /\ woken.started = desk.started /\ woken.total = desk.total
         \/ woken.until = None /\ woken.started = None /\ woken.total = Awake(desk).total
  <2>1. woken = soon \/ woken = Awake(soon)
    BY DEF Wake
  <2> HIDE DEF woken
  <2>2. QED
    BY <2>1, <1>1, <1>2, <1>t, Waking
<1> HIDE DEF woken
<1>4. row = woken \/ row = [woken EXCEPT !.sla = "breached"]
  BY DEF Breach
<1> HIDE DEF row
<1>5. /\ row \in DeskRow /\ row.status = woken.status /\ row.version = woken.version
      /\ row.stamps = woken.stamps /\ row.notified = woken.notified
      /\ row.until = woken.until /\ row.started = woken.started /\ row.total = woken.total
  BY <1>3, <1>4 DEF DeskRow
<1>6. QED
  BY <1>3, <1>5 DEF row, woken, soon

LEMMA DeskInvStep == DeskInv /\ [DeskNext]_deskVars => DeskInv'
<1> SUFFICES ASSUME DeskInv, [DeskNext]_deskVars PROVE DeskInv'
  OBVIOUS
<1> USE DEF deskGhosts
<1>t. /\ now \in 0 .. Latest /\ desk \in DeskRow /\ req \in [Requests -> ReqRecord]
      /\ slept \in 0 .. now /\ heard \in Nat /\ seen \in Nat /\ announced \in Nat
      /\ desk.version \in Nat
  BY DEF DeskInv, DeskTypes, DeskRow
<1>i. /\ Paused /\ ToldOnce /\ TimeOfEnd(desk) /\ Copies /\ DeskTypes
  BY DEF DeskInv
<1>1. ASSUME NEW r \in Requests, StartRequest(r) \/ RequestStep(r) PROVE DeskInv'
  BY <1>1, DeskStartStep, DeskRequestStep
<1>2. CASE SweepTickets
  <2> DEFINE row == Breach(Wake(DueSoon(desk)))
  <2>1. desk' = row /\ UNCHANGED <<now, req, slept, heard, seen, announced>>
    BY <1>2 DEF SweepTickets
  <2>2. /\ row \in DeskRow /\ row.status = desk.status /\ row.version = desk.version
        /\ row.stamps = desk.stamps /\ row.notified = desk.notified
        /\ \/ row.until = desk.until /\ row.started = desk.started /\ row.total = desk.total
           \/ row.until = None /\ row.started = None /\ row.total = Awake(desk).total
    BY Sweeping
  <2> HIDE DEF row
  <2>3. VersionMoves /\ TimeOfEnd(desk)'
    BY <2>1, <2>2, <1>i DEF VersionMoves, TimeOfEnd
  <2>4. Copies'
    BY <2>1, <2>2, <2>3, <1>i, CopiesKept
  <2>5. Paused'
    BY <2>1, <2>2, <1>i, PauseKept, PauseBanked
  <2>6. DeskTypes' /\ ToldOnce'
    BY <2>1, <2>2, <1>i, <1>t DEF DeskTypes, ToldOnce
  <2>7. QED
    BY <2>3, <2>4, <2>5, <2>6 DEF DeskInv
<1>3. CASE Announce
  <2> DEFINE row == [desk EXCEPT !.notified = TRUE]
  <2>1. desk' = row /\ ~desk.notified /\ announced' \in {announced, announced + 1}
        /\ UNCHANGED <<now, req, slept, heard, seen>>
    BY <1>3 DEF Announce
  <2>2. /\ row \in DeskRow /\ row.status = desk.status /\ row.version = desk.version
        /\ row.stamps = desk.stamps /\ row.notified
        /\ row.until = desk.until /\ row.started = desk.started /\ row.total = desk.total
    BY <1>t DEF DeskRow
  <2> HIDE DEF row
  <2>3. VersionMoves /\ TimeOfEnd(desk)'
    BY <2>1, <2>2, <1>i DEF VersionMoves, TimeOfEnd
  <2>4. Copies' /\ Paused'
    BY <2>1, <2>2, <2>3, <1>i, CopiesKept, PauseKept
  <2>5. DeskTypes' /\ ToldOnce'
    BY <2>1, <2>2, <1>i, <1>t DEF DeskTypes, ToldOnce
  <2>6. QED
    BY <2>3, <2>4, <2>5 DEF DeskInv
<1>4. CASE CronEnds
  <2>1. UNCHANGED <<now, desk, req, slept, heard, seen, announced>>
    BY <1>4 DEF CronEnds
  <2>2. VersionMoves
    BY <2>1 DEF VersionMoves
  <2>3. Copies' /\ Paused'
    BY <2>1, <2>2, <1>i, <1>t, CopiesKept, PauseKept
  <2>4. QED
    BY <2>1, <2>3, <1>i DEF DeskInv, DeskTypes, ToldOnce, TimeOfEnd
<1>5. CASE Minute
  <2>1. /\ now < Latest /\ now' = now + 1
        /\ slept' = IF desk.until /= None THEN slept + 1 ELSE slept
        /\ UNCHANGED <<desk, req, heard, seen, announced>>
    BY <1>5 DEF Minute
  <2>2. Latest \in Nat /\ desk.total \in Nat /\ desk.started \in 0 .. Latest \cup {None}
    BY <1>t, DeskAssumption DEF DeskRow
  <2>3. VersionMoves
    BY <2>1 DEF VersionMoves
  <2>4. Copies'
    BY <2>1, <2>3, <1>i, <1>t, CopiesKept
  <2>5. Paused'
    BY <2>1, <2>2, <1>i, <1>t, Changing DEF Paused, PauseExact, ReplyNotBuried
  <2>6. DeskTypes' /\ ToldOnce' /\ TimeOfEnd(desk)'
    BY <2>1, <2>2, <1>i, <1>t DEF DeskTypes, ToldOnce, TimeOfEnd
  <2>7. QED
    BY <2>4, <2>5, <2>6 DEF DeskInv
<1>6. CASE UNCHANGED deskVars
  <2>1. UNCHANGED <<now, desk, req, slept, heard, seen, announced>>
    BY <1>6 DEF deskVars
  <2>2. VersionMoves
    BY <2>1 DEF VersionMoves
  <2>3. Copies' /\ Paused'
    BY <2>1, <2>2, <1>i, <1>t, CopiesKept, PauseKept
  <2>4. QED
    BY <2>1, <2>3, <1>i DEF DeskInv, DeskTypes, ToldOnce, TimeOfEnd
<1>7. QED
  BY <1>1, <1>2, <1>3, <1>4, <1>5, <1>6 DEF DeskNext

LEMMA DeskHoldsInv == DeskSpec => []DeskInv
  BY DeskInvInit, DeskInvStep, PTL DEF DeskSpec

\* Theorem: the ticket's row has its type, a resolved or closed ticket carries
\* the time it was, and the snoozed minutes banked never exceed the clock.
THEOREM DeskTyped == DeskSpec => [](DeskTypeOK /\ EndHasTime)
<1>1. DeskInv => DeskTypeOK /\ EndHasTime
  <2> SUFFICES ASSUME DeskInv PROVE DeskTypeOK /\ EndHasTime
    OBVIOUS
  <2>1. desk \in DeskRow /\ now \in 0 .. Latest /\ slept \in 0 .. now /\ Paused
    BY DEF DeskInv, DeskTypes
  <2>2. desk.total \in Nat /\ desk.started \in 0 .. Latest \cup {None}
    BY <2>1 DEF DeskRow
  <2>3. desk.total \in 0 .. Latest
    BY <2>1, <2>2, DeskAssumption DEF Paused, PauseExact
  <2>4. QED
    BY <2>1, <2>3 DEF DeskRow, DeskTypeOK, EndHasTime, TimeOfEnd, DeskInv, Paused
<1>2. QED
  BY <1>1, DeskHoldsInv, PTL

\* Theorem: the time banked as paused is the time slept, whoever wakes the
\* ticket and however the requests that snooze it overlap.
THEOREM PauseIsExact == DeskSpec => []PauseExact
<1>1. DeskInv => PauseExact
  BY DEF DeskInv, Paused
<1>2. QED
  BY <1>1, DeskHoldsInv, PTL

\* Theorem: no snooze outlives a customer's reply it could not know of.
THEOREM RepliesWake == DeskSpec => []ReplyNotBuried
<1>1. DeskInv => ReplyNotBuried
  BY DEF DeskInv, Paused
<1>2. QED
  BY <1>1, DeskHoldsInv, PTL

\* Theorem: the breach of a ticket is announced once at most.
THEOREM BreachAnnouncedOnce == DeskSpec => []AnnouncedOnce
<1>1. DeskInv => AnnouncedOnce
  BY DEF DeskInv, ToldOnce, AnnouncedOnce
<1>2. QED
  BY <1>1, DeskHoldsInv, PTL

(***************************************************************************)
(* Automations.  What a rule says is not looked into: a field whose values *)
(* do not matter has the type of itself.                                   *)
(***************************************************************************)
Pairs == Rules \X Events

RuleTypes ==
  /\ DOMAIN rule = Rules /\ DOMAIN run = Pairs /\ DOMAIN did = Pairs /\ DOMAIN runner = Runners
  /\ given \subseteq Rules
  /\ \A x \in Pairs : /\ run[x] \in [there : BOOLEAN, applied : {run[x].applied}]
                      /\ did[x] \in [taken : {0, 1}, done : {did[x].done}]
  /\ \A c \in Runners :
       /\ runner[c] \in [at : {"idle", "rules", "next", "claim", "act", "find", "link"},
                         event : {runner[c].event}, priority : {runner[c].priority},
                         todo : {runner[c].todo}, rest : {runner[c].rest}, tag : {runner[c].tag},
                         applied : {runner[c].applied}]
       /\ runner[c].at /= "idle" => runner[c].event \in Events

\* The id of a rule is given once; the one about to be inserted is of no rule yet.
IdsGiven ==
  /\ RulesMade \subseteq given
  /\ making.id = 0 \/ making.id \in given \ RulesMade

\* A rule whose run row is missing has not been taken on, unless it is deleted
\* for good; and a row lists only what was done.
RunsSound ==
  \A x \in Pairs :
    /\ x[1] \in RulesMade /\ ~run[x].there => did[x].taken = 0
    /\ x[1] \notin given \/ x[1] = making.id => did[x].taken = 0
    /\ run[x].applied \subseteq did[x].done

\* An invocation at work on a rule has done what it is about to list.
RunnersSound ==
  \A c \in Runners :
    runner[c].at \in {"act", "find", "link"} =>
      Current(c) \in Pairs /\ runner[c].applied \subseteq did[Current(c)].done

TagsSound == known \subseteq linked /\ known \subseteq indexed

RulesInv == RuleTypes /\ IdsGiven /\ RunsSound /\ RunnersSound /\ TagsSound

LEMMA RulesInvInit == RulesInit => RulesInv
<1> SUFFICES ASSUME RulesInit PROVE RulesInv
  OBVIOUS
<1>1. RulesMade = {}
  BY DEF RulesInit, RulesMade
<1>2. making.id = 0 /\ given = {} /\ known = {}
  BY DEF RulesInit
<1>3. \A c \in Runners : runner[c] = NoRunner /\ runner[c].at = "idle"
  BY DEF RulesInit, NoRunner
<1>4. \A x \in Pairs : run[x] = NotRun /\ run[x].applied = {} /\ did[x] = [taken |-> 0, done |-> {}] /\ did[x].taken = 0
  BY DEF RulesInit, NotRun, Pairs
<1>5. DOMAIN rule = Rules /\ DOMAIN run = Pairs /\ DOMAIN did = Pairs /\ DOMAIN runner = Runners
  BY DEF RulesInit, Pairs
<1>6. RuleTypes
  <2>1. \A x \in Pairs : /\ run[x] \in [there : BOOLEAN, applied : {run[x].applied}]
                         /\ did[x] \in [taken : {0, 1}, done : {did[x].done}]
    <3>1. \A x \in Pairs : run[x] \in [there : BOOLEAN, applied : {run[x].applied}]
      <4>1. NotRun \in [there : BOOLEAN, applied : {NotRun.applied}]
        BY DEF NotRun
      <4>2. QED
        BY <1>4, <4>1
    <3>2. \A x \in Pairs : did[x] \in [taken : {0, 1}, done : {did[x].done}]
      <4> DEFINE none == [taken |-> 0, done |-> {}]
      <4>1. none \in [taken : {0, 1}, done : {none.done}]
        OBVIOUS
      <4> HIDE DEF none
      <4>2. \A x \in Pairs : did[x] = none
        BY <1>4 DEF none
      <4>3. QED
        BY <4>1, <4>2
    <3>3. QED
      BY <3>1, <3>2
  <2>2. \A c \in Runners :
          runner[c] \in [at : {"idle", "rules", "next", "claim", "act", "find", "link"},
                         event : {runner[c].event}, priority : {runner[c].priority},
                         todo : {runner[c].todo}, rest : {runner[c].rest}, tag : {runner[c].tag},
                         applied : {runner[c].applied}]
    BY <1>3 DEF NoRunner
  <2>3. QED
    BY <1>2, <1>3, <1>5, <2>1, <2>2 DEF RuleTypes
<1>7. QED
  BY <1>1, <1>2, <1>3, <1>4, <1>6 DEF RulesInv, IdsGiven, RunsSound, RunnersSound, TagsSound

\* What moves on when an invocation does.
LEMMA RunnerMoves ==
  ASSUME RuleTypes, RunnersSound, NEW c \in Runners, NEW x,
         x \in [at : {"idle", "rules", "next", "claim", "act", "find", "link"},
                event : {x.event}, priority : {x.priority}, todo : {x.todo}, rest : {x.rest},
                tag : {x.tag}, applied : {x.applied}],
         x.at /= "idle" => x.event \in Events,
         runner' = [runner EXCEPT ![c] = x],
         \A y \in Pairs : did[y].done \subseteq did'[y].done,
         x.at \in {"act", "find", "link"} =>
           LET y == <<Head(x.todo).id, x.event>>
           IN  y \in Pairs /\ x.applied \subseteq did'[y].done
  PROVE  /\ RunnersSound'
         /\ DOMAIN runner' = Runners
         /\ \A d \in Runners :
              /\ runner'[d] \in [at : {"idle", "rules", "next", "claim", "act", "find", "link"},
                                 event : {runner'[d].event}, priority : {runner'[d].priority},
                                 todo : {runner'[d].todo}, rest : {runner'[d].rest}, tag : {runner'[d].tag},
                                 applied : {runner'[d].applied}]
              /\ runner'[d].at /= "idle" => runner'[d].event \in Events
<1>1. DOMAIN runner' = Runners /\ runner'[c] = x /\ \A d \in Runners \ {c} : runner'[d] = runner[d]
  BY DEF RuleTypes
<1>2. Current(c)' = <<Head(x.todo).id, x.event>>
  BY <1>1 DEF Current
<1>3. \A d \in Runners \ {c} : Current(d)' = Current(d)
  BY <1>1 DEF Current
<1>4. RunnersSound'
  BY <1>1, <1>2, <1>3 DEF RunnersSound
<1>5. QED
  BY <1>1, <1>4 DEF RuleTypes

\* A step of an invocation that touches no run row.
LEMMA RunnerStep ==
  ASSUME RulesInv, NEW c \in Runners, NEW x,
         x \in [at : {"idle", "rules", "next", "claim", "act", "find", "link"},
                event : {x.event}, priority : {x.priority}, todo : {x.todo}, rest : {x.rest},
                tag : {x.tag}, applied : {x.applied}],
         x.at /= "idle" => x.event \in Events,
         runner' = [runner EXCEPT ![c] = x],
         x.at \in {"act", "find", "link"} =>
           LET y == <<Head(x.todo).id, x.event>>
           IN  y \in Pairs /\ x.applied \subseteq did[y].done,
         UNCHANGED <<rule, making, given, run, did>>, TagsSound'
  PROVE  RulesInv'
<1>1. RunnersSound' /\ RuleTypes'
  BY RunnerMoves DEF RulesInv, RuleTypes
<1>2. IdsGiven' /\ RunsSound'
  BY DEF RulesInv, IdsGiven, RunsSound, RulesMade
<1>3. QED
  BY <1>1, <1>2 DEF RulesInv

\* A step of an invocation that takes a rule on, or does something for it.
LEMMA RunnerWrites ==
  ASSUME RulesInv, NEW c \in Runners, NEW x,
         x \in [at : {"idle", "rules", "next", "claim", "act", "find", "link"},
                event : {x.event}, priority : {x.priority}, todo : {x.todo}, rest : {x.rest},
                tag : {x.tag}, applied : {x.applied}],
         x.at /= "idle" => x.event \in Events,
         runner' = [runner EXCEPT ![c] = x],
         x.at \in {"act", "find", "link"} =>
           LET y == <<Head(x.todo).id, x.event>>
           IN  y \in Pairs /\ x.applied \subseteq did'[y].done,
         UNCHANGED <<rule, making, given>>, TagsSound',
         NEW y \in Pairs, NEW row, NEW history,
         DOMAIN run' = Pairs, run'[y] = row, \A z \in Pairs \ {y} : run'[z] = run[z],
         DOMAIN did' = Pairs, did'[y] = history, \A z \in Pairs \ {y} : did'[z] = did[z],
         row \in [there : BOOLEAN, applied : {row.applied}],
         history \in [taken : {0, 1}, done : {history.done}],
         did[y].done \subseteq history.done, row.applied \subseteq history.done,
         \/ history.taken = did[y].taken /\ (row.there <=> run[y].there)
         \/ row.there /\ y[1] \in RulesMade
  PROVE  RulesInv'
<1>1. /\ DOMAIN run' = Pairs /\ run'[y] = row /\ \A z \in Pairs \ {y} : run'[z] = run[z]
      /\ DOMAIN did' = Pairs /\ did'[y] = history /\ \A z \in Pairs \ {y} : did'[z] = did[z]
  OBVIOUS
<1>2. \A z \in Pairs : did[z].done \subseteq did'[z].done
  BY <1>1
<1>3. /\ RunnersSound' /\ DOMAIN runner' = Runners
      /\ \A d \in Runners :
           /\ runner'[d] \in [at : {"idle", "rules", "next", "claim", "act", "find", "link"},
                              event : {runner'[d].event}, priority : {runner'[d].priority},
                              todo : {runner'[d].todo}, rest : {runner'[d].rest}, tag : {runner'[d].tag},
                              applied : {runner'[d].applied}]
           /\ runner'[d].at /= "idle" => runner'[d].event \in Events
  BY <1>2, RunnerMoves DEF RulesInv
<1>4. \A z \in Pairs : /\ run'[z] \in [there : BOOLEAN, applied : {run'[z].applied}]
                       /\ did'[z] \in [taken : {0, 1}, done : {did'[z].done}]
  BY <1>1 DEF RulesInv, RuleTypes
<1>5. RuleTypes'
  BY <1>1, <1>3, <1>4 DEF RulesInv, RuleTypes
<1>6. RulesMade' = RulesMade /\ IdsGiven' /\ IdsGiven
  BY DEF RulesInv, IdsGiven, RulesMade
<1>7. RunsSound'
  <2>1. \A z \in Pairs \ {y} :
          /\ z[1] \in RulesMade' /\ ~run'[z].there => did'[z].taken = 0
          /\ z[1] \notin given' \/ z[1] = making'.id => did'[z].taken = 0
          /\ run'[z].applied \subseteq did'[z].done
    BY <1>1, <1>6 DEF RulesInv, RunsSound
  <2>2. /\ y[1] \in RulesMade' /\ ~run'[y].there => did'[y].taken = 0
        /\ y[1] \notin given' \/ y[1] = making'.id => did'[y].taken = 0
        /\ run'[y].applied \subseteq did'[y].done
    <3>1. y[1] \in RulesMade => y[1] \in given /\ y[1] /= making.id
      <4>1. y[1] \in Rules /\ 0 \notin Rules
        BY RulesAssumption DEF Pairs
      <4>2. QED
        BY <4>1, <1>6 DEF IdsGiven, RulesMade
    <3>2. QED
      BY <1>1, <1>6, <3>1 DEF RulesInv, RunsSound
  <2>3. QED
    BY <2>1, <2>2 DEF RunsSound
<1>8. QED
  BY <1>3, <1>5, <1>6, <1>7 DEF RulesInv

\* A step that leaves rules and invocations alone.
LEMMA TagStep ==
  ASSUME RulesInv, UNCHANGED runVars, TagsSound'
  PROVE  RulesInv'
BY DEF RulesInv, runVars, RuleTypes, IdsGiven, RunsSound, RulesMade, RunnersSound, Current

\* A step of an administrator.
LEMMA RuleStep ==
  ASSUME RulesInv, UNCHANGED <<runner, did, tagVars>>, DOMAIN rule' = Rules, DOMAIN run' = Pairs,
         given' \subseteq Rules, IdsGiven', RunsSound',
         \A x \in Pairs : run'[x] \in [there : BOOLEAN, applied : {run'[x].applied}]
  PROVE  RulesInv'
<1>1. RuleTypes'
  BY DEF RulesInv, RuleTypes
<1>2. RunnersSound' /\ TagsSound'
  BY DEF RulesInv, RunnersSound, Current, TagsSound, tagVars
<1>3. QED
  BY <1>1, <1>2 DEF RulesInv

LEMMA RulesInvAdmin ==
  ASSUME RulesInv, NEW r \in Rules,
         \/ ReadPlace(r) \/ DeleteRule(r)
         \/ \E enabled \in BOOLEAN, place \in Places : PatchRule(r, enabled, place)
         \/ \E says \in Contents : InsertRule(says)
  PROVE  RulesInv'
<1>t. RuleTypes /\ IdsGiven /\ RunsSound /\ 0 \notin Rules
  BY RulesAssumption DEF RulesInv
<1>r. \A x \in Pairs : x[1] \in Rules
  BY DEF Pairs
<1>1. CASE ReadPlace(r)
  <2>1. /\ making.id = 0 /\ r \notin given /\ making'.id = r /\ given' = given \cup {r}
        /\ UNCHANGED <<rule, run, runner, did, tagVars>>
    BY <1>1 DEF ReadPlace
  <2>2. RulesMade' = RulesMade
    BY <2>1 DEF RulesMade
  <2>3. IdsGiven'
    BY <2>1, <2>2, <1>t DEF IdsGiven
  <2>4. RunsSound'
    BY <2>1, <2>2, <1>t DEF RunsSound
  <2>5. QED
    BY <2>1, <2>3, <2>4, <1>t, RuleStep DEF RuleTypes
<1>2. CASE DeleteRule(r)
  <2>1. /\ rule' = [rule EXCEPT ![r] = NoRule]
        /\ run' = [x \in DOMAIN run |-> IF x[1] = r THEN NotRun ELSE run[x]]
        /\ UNCHANGED <<making, given, runner, did, tagVars>>
    BY <1>2 DEF DeleteRule
  <2>2. RulesMade' = RulesMade \ {r} /\ DOMAIN rule' = Rules
    BY <2>1, <1>t DEF RulesMade, RuleTypes
  <2>3. /\ DOMAIN run' = Pairs
        /\ \A x \in Pairs : run'[x] = IF x[1] = r THEN NotRun ELSE run[x]
    BY <2>1, <1>t DEF RuleTypes
  <2>4. NotRun \in [there : BOOLEAN, applied : {NotRun.applied}] /\ NotRun.applied = {}
    BY DEF NotRun
  <2>5. IdsGiven'
    BY <2>1, <2>2, <1>t DEF IdsGiven
  <2>6. RunsSound'
    BY <2>1, <2>2, <2>3, <2>4, <1>t DEF RunsSound
  <2>7. \A x \in Pairs : run'[x] \in [there : BOOLEAN, applied : {run'[x].applied}]
    BY <2>3, <2>4, <1>t DEF RuleTypes
  <2>8. QED
    BY <2>1, <2>2, <2>3, <2>5, <2>6, <2>7, <1>t, RuleStep DEF RuleTypes
<1>3. ASSUME NEW enabled \in BOOLEAN, NEW place \in Places, PatchRule(r, enabled, place) PROVE RulesInv'
  <2>1. /\ r \in RulesMade /\ rule' = [rule EXCEPT ![r].enabled = enabled, ![r].place = place]
        /\ UNCHANGED <<making, given, run, runner, did, tagVars>>
    BY <1>3 DEF PatchRule
  <2>2. DOMAIN rule' = Rules /\ \A s \in Rules \ {r} : rule'[s] = rule[s]
    BY <2>1, <1>t DEF RuleTypes
  <2>3. RulesMade' \subseteq RulesMade
    BY <2>1, <2>2 DEF RulesMade
  <2>4. IdsGiven'
    BY <2>1, <2>3, <1>t DEF IdsGiven
  <2>5. RunsSound'
    BY <2>1, <2>3, <1>t DEF RunsSound
  <2>6. QED
    BY <2>1, <2>2, <2>4, <2>5, <1>t, RuleStep DEF RuleTypes
<1>4. ASSUME NEW says \in Contents, InsertRule(says) PROVE RulesInv'
  <2> DEFINE new == [place |-> making.place, enabled |-> TRUE, says |-> says]
  <2>1. /\ making.id /= 0 /\ rule' = [rule EXCEPT ![making.id] = new] /\ making'.id = 0
        /\ UNCHANGED <<given, run, runner, did, tagVars>>
    BY <1>4 DEF InsertRule
  <2> HIDE DEF new
  <2>2. DOMAIN rule' = Rules /\ \A s \in Rules : s /= making.id => rule'[s] = rule[s]
    BY <2>1, <1>t DEF RuleTypes
  <2>3. RulesMade' \subseteq RulesMade \cup {making.id}
    BY <2>2 DEF RulesMade
  <2>4. IdsGiven'
    BY <2>1, <2>3, <1>t DEF IdsGiven
  <2>5. RunsSound'
    BY <2>1, <2>3, <1>t, <1>r DEF RunsSound
  <2>6. QED
    BY <2>1, <2>2, <2>4, <2>5, <1>t, RuleStep DEF RuleTypes
<1>5. QED
  BY <1>1, <1>2, <1>3, <1>4

LEMMA RunnerReads ==
  ASSUME RulesInv, NEW c \in Runners,
         \/ \E e \in Events : ReadTicket(c, e)
         \/ ReadRules(c) \/ NextRule(c) \/ ActionThrows(c) \/ RunnerDies(c) \/ MakeTag(c) \/ FindTag(c)
  PROVE  RulesInv'
<1> DEFINE Point == {"idle", "rules", "next", "claim", "act", "find", "link"}
           Fields(x) == x \in [at : Point, event : {x.event}, priority : {x.priority}, todo : {x.todo},
                               rest : {x.rest}, tag : {x.tag}, applied : {x.applied}]
<1>t. /\ Fields(runner[c]) /\ (runner[c].at /= "idle" => runner[c].event \in Events)
      /\ TagsSound
  BY DEF RulesInv, RuleTypes
<1>a. runner[c].at \in {"act", "find", "link"} =>
        LET y == <<Head(runner[c].todo).id, runner[c].event>>
        IN  y \in Pairs /\ runner[c].applied \subseteq did[y].done
  BY DEF RulesInv, RunnersSound, Current
<1>d. DOMAIN runner = Runners
  BY DEF RulesInv, RuleTypes
<1>n. Fields(NoRunner) /\ NoRunner.at = "idle"
  BY DEF NoRunner
\* The invocation goes on as x, at the same rule if it is at one.
<1>s. ASSUME NEW x, Fields(x), x.at /= "idle" => x.event \in Events, runner' = [runner EXCEPT ![c] = x],
             UNCHANGED <<rule, making, given, run, did>>, TagsSound',
             x.at \in {"act", "find", "link"} =>
               /\ runner[c].at \in {"act", "find", "link"}
               /\ x.todo = runner[c].todo /\ x.event = runner[c].event /\ x.applied = runner[c].applied
      PROVE  RulesInv'
  <2>1. x.at \in {"act", "find", "link"} =>
          LET y == <<Head(x.todo).id, x.event>>
          IN  y \in Pairs /\ x.applied \subseteq did[y].done
    BY <1>s, <1>a
  <2>2. QED
    BY <1>s, <2>1, RunnerStep
<1>u. UNCHANGED tagVars => TagsSound'
  BY <1>t DEF tagVars, TagsSound
<1>1. ASSUME NEW e \in Events, ReadTicket(c, e) PROVE RulesInv'
  <2> DEFINE x == [NoRunner EXCEPT !.at = "rules", !.event = e, !.priority = priority]
  <2>1. runner' = [runner EXCEPT ![c] = x] /\ UNCHANGED <<rule, making, given, run, did, tagVars>>
    BY <1>1 DEF ReadTicket
  <2>2. Fields(x) /\ x.at = "rules" /\ x.event = e
    BY DEF NoRunner
  <2> HIDE DEF x
  <2>3. QED
    BY <2>1, <2>2, <1>s, <1>u
<1>2. CASE ReadRules(c)
  <2> DEFINE todo == Ordered
             x == [runner[c] EXCEPT !.at = "next", !.todo = todo]
  <2>1. /\ runner' = [runner EXCEPT ![c] = x] /\ runner[c].at = "rules"
        /\ UNCHANGED <<rule, making, given, run, did, tagVars>>
    BY <1>2, <1>d DEF ReadRules
  <2> HIDE DEF todo
  <2>2. Fields(x) /\ x.at = "next" /\ x.event = runner[c].event
    BY <1>t
  <2> HIDE DEF x
  <2>3. QED
    BY <2>1, <2>2, <1>s, <1>u, <1>t
<1>3. CASE NextRule(c)
  <2> DEFINE y == [runner[c] EXCEPT !.at = "claim"]
             rest == Tail(runner[c].todo)
             z == [runner[c] EXCEPT !.todo = rest]
  <2>1. /\ runner[c].at = "next" /\ UNCHANGED <<rule, making, given, run, did, tagVars>>
        /\ \E x \in {NoRunner, y, z} : runner' = [runner EXCEPT ![c] = x]
    BY <1>3, <1>d DEF NextRule
  <2>2. Fields(y) /\ y.at = "claim" /\ y.event = runner[c].event
    BY <1>t
  <2> HIDE DEF rest
  <2>3. Fields(z) /\ z.at = runner[c].at /\ z.event = runner[c].event
    BY <1>t
  <2> HIDE DEF y, z
  <2>4. CASE runner' = [runner EXCEPT ![c] = NoRunner]
    BY <2>1, <2>4, <1>n, <1>s, <1>u
  <2>5. CASE runner' = [runner EXCEPT ![c] = y]
    BY <2>1, <2>2, <2>5, <1>s, <1>u, <1>t
  <2>6. CASE runner' = [runner EXCEPT ![c] = z]
    BY <2>1, <2>3, <2>6, <1>s, <1>u, <1>t
  <2>7. QED
    BY <2>1, <2>4, <2>5, <2>6
<1>4. CASE ActionThrows(c)
  <2> DEFINE rest == Tail(runner[c].rest)
             x == [runner[c] EXCEPT !.at = "act", !.tag = 0, !.rest = rest]
  <2>1. /\ runner' = [runner EXCEPT ![c] = x] /\ runner[c].at \in {"act", "find", "link"}
        /\ UNCHANGED <<rule, making, given, run, did, tagVars>>
    BY <1>4, <1>d DEF ActionThrows
  <2> HIDE DEF rest
  <2>2. /\ Fields(x) /\ x.at = "act" /\ x.event = runner[c].event /\ x.todo = runner[c].todo
        /\ x.applied = runner[c].applied
    BY <1>t
  <2> HIDE DEF x
  <2>3. QED
    BY <2>1, <2>2, <1>s, <1>u, <1>t
<1>5. CASE RunnerDies(c)
  <2>1. runner' = [runner EXCEPT ![c] = NoRunner] /\ UNCHANGED <<rule, making, given, run, did, tagVars>>
    BY <1>5 DEF RunnerDies
  <2>2. QED
    BY <2>1, <1>n, <1>s, <1>u
<1>6. CASE MakeTag(c)
  <2> DEFINE x == [runner[c] EXCEPT !.at = "find"]
  <2>1. /\ runner' = [runner EXCEPT ![c] = x] /\ runner[c].at = "act"
        /\ UNCHANGED <<rule, making, given, run, did, linked, indexed, known>>
    BY <1>6, <1>d DEF MakeTag, Acting
  <2>2. /\ Fields(x) /\ x.at = "find" /\ x.event = runner[c].event /\ x.todo = runner[c].todo
        /\ x.applied = runner[c].applied
    BY <1>t
  <2> HIDE DEF x
  <2>3. TagsSound'
    BY <2>1, <1>t DEF TagsSound
  <2>4. QED
    BY <2>1, <2>2, <2>3, <1>s, <1>t
<1>7. CASE FindTag(c)
  <2> DEFINE rest == Tail(runner[c].rest)
             y == [runner[c] EXCEPT !.at = "act", !.rest = rest]
             id == tagRow[Action(c).value]
             z == [runner[c] EXCEPT !.at = "link", !.tag = id]
  <2>1. /\ runner[c].at = "find" /\ UNCHANGED <<rule, making, given, run, did, tagVars>>
        /\ runner' = [runner EXCEPT ![c] = y] \/ runner' = [runner EXCEPT ![c] = z]
    BY <1>7, <1>d DEF FindTag
  <2> HIDE DEF rest, id
  <2>2. /\ Fields(y) /\ y.at = "act" /\ y.event = runner[c].event /\ y.todo = runner[c].todo
        /\ y.applied = runner[c].applied
    BY <1>t
  <2>3. /\ Fields(z) /\ z.at = "link" /\ z.event = runner[c].event /\ z.todo = runner[c].todo
        /\ z.applied = runner[c].applied
    BY <1>t
  <2> HIDE DEF y, z
  <2>4. CASE runner' = [runner EXCEPT ![c] = y]
    BY <2>1, <2>2, <2>4, <1>s, <1>u, <1>t
  <2>5. CASE runner' = [runner EXCEPT ![c] = z]
    BY <2>1, <2>3, <2>5, <1>s, <1>u, <1>t
  <2>6. QED
    BY <2>1, <2>4, <2>5
<1>8. QED
  BY <1>1, <1>2, <1>3, <1>4, <1>5, <1>6, <1>7

LEMMA RunnerActs ==
  ASSUME RulesInv, NEW c \in Runners,
         ClaimRun(c) \/ SetPriority(c) \/ LinkTag(c) \/ WriteApplied(c)
  PROVE  RulesInv'
<1> DEFINE Point == {"idle", "rules", "next", "claim", "act", "find", "link"}
           Fields(x) == x \in [at : Point, event : {x.event}, priority : {x.priority}, todo : {x.todo},
                               rest : {x.rest}, tag : {x.tag}, applied : {x.applied}]
           y == Current(c)
<1>t. /\ Fields(runner[c]) /\ (runner[c].at /= "idle" => runner[c].event \in Events)
      /\ TagsSound /\ DOMAIN runner = Runners /\ DOMAIN run = Pairs /\ DOMAIN did = Pairs
  BY DEF RulesInv, RuleTypes
<1>a. runner[c].at \in {"act", "find", "link"} => y \in Pairs /\ runner[c].applied \subseteq did[y].done
  BY DEF RulesInv, RunnersSound
<1>y. y = <<Head(runner[c].todo).id, runner[c].event>>
  BY DEF Current
<1>n. Fields(NoRunner) /\ NoRunner.at = "idle"
  BY DEF NoRunner
<1>u. UNCHANGED tagVars => TagsSound'
  BY <1>t DEF tagVars, TagsSound
<1>p. ASSUME y \in Pairs
      PROVE  /\ run[y] \in [there : BOOLEAN, applied : {run[y].applied}]
             /\ did[y] \in [taken : {0, 1}, done : {did[y].done}]
             /\ run[y].applied \subseteq did[y].done
             /\ y[1] \in RulesMade /\ ~run[y].there => did[y].taken = 0
  BY <1>p DEF RulesInv, RuleTypes, RunsSound
<1> HIDE DEF y
<1>1. CASE ClaimRun(c)
  <2>0. runner[c].at = "claim" /\ UNCHANGED <<rule, making, given, tagVars>>
    BY <1>1 DEF ClaimRun
  <2>1. CASE y[1] \notin RulesMade
    <3>1. runner' = [runner EXCEPT ![c] = NoRunner] /\ UNCHANGED <<run, did>>
      BY <1>1, <2>1 DEF ClaimRun, y
    <3>2. QED
      BY <2>0, <3>1, <1>n, <1>u, RunnerStep
  <2>2. CASE y[1] \in RulesMade /\ run[y].there
    <3> DEFINE todo == Tail(runner[c].todo)
               x == [runner[c] EXCEPT !.at = "next", !.todo = todo]
    <3>1. runner' = [runner EXCEPT ![c] = x] /\ UNCHANGED <<run, did>>
      BY <1>1, <2>2, <1>t DEF ClaimRun, y
    <3> HIDE DEF todo
    <3>2. Fields(x) /\ x.at = "next" /\ x.event = runner[c].event
      BY <1>t
    <3> HIDE DEF x
    <3>3. QED
      BY <2>0, <3>1, <3>2, <1>t, <1>u, RunnerStep
  <2>3. CASE y[1] \in RulesMade /\ ~run[y].there
    <3> DEFINE does == Head(runner[c].todo).says.does
               x == [runner[c] EXCEPT !.at = "act", !.rest = does, !.applied = {}]
               row == [run[y] EXCEPT !.there = TRUE]
               history == [did[y] EXCEPT !.taken = did[y].taken + 1]
    <3>1. y \in Pairs
      BY <2>0, <2>3, <1>t, <1>y DEF Pairs, RulesMade
    <3>2. /\ runner' = [runner EXCEPT ![c] = x]
          /\ run' = [run EXCEPT ![y] = row] /\ did' = [did EXCEPT ![y] = history]
      BY <1>1, <2>3, <3>1, <1>t DEF ClaimRun, y
    <3> HIDE DEF does
    <3>3. /\ Fields(x) /\ x.at = "act" /\ x.event = runner[c].event /\ x.todo = runner[c].todo
          /\ x.applied = {}
      BY <1>t
    <3>4. row \in [there : BOOLEAN, applied : {row.applied}] /\ row.there /\ row.applied = run[y].applied
      BY <3>1, <1>p
    <3>5. history \in [taken : {0, 1}, done : {history.done}] /\ history.done = did[y].done
      BY <2>3, <3>1, <1>p
    <3> HIDE DEF x, row, history
    <3>6. did'[y].done = did[y].done
      BY <3>1, <3>2, <3>5, <1>t
    <3>7. RulesInv'
      <4>0. /\ DOMAIN run' = Pairs /\ run'[y] = row /\ \A z \in Pairs \ {y} : run'[z] = run[z]
            /\ DOMAIN did' = Pairs /\ did'[y] = history /\ \A z \in Pairs \ {y} : did'[z] = did[z]
        BY <3>1, <3>2, <1>t
      <4>1. x.at \in {"act", "find", "link"} =>
              LET z == <<Head(x.todo).id, x.event>>
              IN  z \in Pairs /\ x.applied \subseteq did'[z].done
        BY <3>1, <3>3, <1>y
      <4>2. did[y].done \subseteq history.done /\ row.applied \subseteq history.done
        BY <3>1, <3>4, <3>5, <1>p
      <4>3. x.event \in Events /\ TagsSound'
        BY <2>0, <3>3, <1>t, <1>u
      <4>4. QED
        BY <2>0, <2>3, <3>1, <3>2, <3>3, <3>4, <3>5, <4>0, <4>1, <4>2, <4>3, RunnerWrites
    <3>8. QED
      BY <3>7
  <2>4. QED
    BY <2>1, <2>2, <2>3
\* An action that took effect, with x after it.
<1>w. ASSUME NEW x, Fields(x), x.event = runner[c].event, x.todo = runner[c].todo, x.at = "act",
             NEW action, x.applied = runner[c].applied \cup {action},
             runner' = [runner EXCEPT ![c] = x], runner[c].at \in {"act", "find", "link"},
             did' = [did EXCEPT ![y].done = did[y].done \cup {action}],
             UNCHANGED <<rule, making, given, run>>, TagsSound'
      PROVE  RulesInv'
  <2> DEFINE row == run[y]
             done == did[y].done \cup {action}
             history == [did[y] EXCEPT !.done = done]
  <2>1. y \in Pairs /\ runner[c].applied \subseteq did[y].done
    BY <1>w, <1>a
  <2>2. /\ DOMAIN run' = Pairs /\ run'[y] = row /\ \A z \in Pairs \ {y} : run'[z] = run[z]
        /\ DOMAIN did' = Pairs /\ did'[y] = history /\ \A z \in Pairs \ {y} : did'[z] = did[z]
    BY <1>w, <2>1, <1>t
  <2>3. history \in [taken : {0, 1}, done : {history.done}] /\ history.done = done
        /\ history.taken = did[y].taken
    <3> HIDE DEF done
    <3>1. QED
      BY <2>1, <1>p
  <2>4. row \in [there : BOOLEAN, applied : {row.applied}] /\ row.applied \subseteq did[y].done
    BY <2>1, <1>p
  <2>5. x.applied \subseteq done /\ did[y].done \subseteq done
    BY <1>w, <2>1
  <2>6. row.there <=> run[y].there
    OBVIOUS
  <2> HIDE DEF row, history
  <2>7. did'[y].done = done
    BY <2>2, <2>3
  <2>8. x.at \in {"act", "find", "link"} =>
          LET z == <<Head(x.todo).id, x.event>>
          IN  z \in Pairs /\ x.applied \subseteq did'[z].done
    BY <1>w, <2>1, <2>5, <2>7, <1>y
  <2> HIDE DEF done
  <2>9. x.event \in Events /\ did[y].done \subseteq history.done /\ row.applied \subseteq history.done
    BY <1>w, <2>3, <2>4, <2>5, <1>t
  <2>10. QED
    BY <1>w, <2>1, <2>2, <2>3, <2>4, <2>6, <2>8, <2>9, RunnerWrites
<1>2. CASE SetPriority(c)
  <2> DEFINE p == Action(c).value
             rest == Tail(runner[c].rest)
  <2>0. /\ runner[c].at = "act" /\ UNCHANGED <<rule, making, given, run, tagVars>>
    BY <1>2 DEF SetPriority, Acting
  <2>1. CASE runner[c].priority = p
    <3> DEFINE x == [runner[c] EXCEPT !.rest = rest]
    <3>1. runner' = [runner EXCEPT ![c] = x] /\ UNCHANGED did
      BY <1>2, <2>1, <1>t DEF SetPriority
    <3> HIDE DEF rest
    <3>2. /\ Fields(x) /\ x.at = runner[c].at /\ x.event = runner[c].event /\ x.todo = runner[c].todo
          /\ x.applied = runner[c].applied
      BY <1>t
    <3> HIDE DEF x
    <3>3. x.at \in {"act", "find", "link"} =>
            LET z == <<Head(x.todo).id, x.event>>
            IN  z \in Pairs /\ x.applied \subseteq did[z].done
      BY <2>0, <3>2, <1>a, <1>y
    <3>4. QED
      BY <2>0, <3>1, <3>2, <3>3, <1>t, <1>u, RunnerStep
  <2>2. CASE runner[c].priority /= p
    <3> DEFINE action == Action(c)
               applied == runner[c].applied \cup {action}
               x == [runner[c] EXCEPT !.rest = rest, !.priority = p, !.applied = applied]
    <3>1. /\ runner' = [runner EXCEPT ![c] = x]
          /\ did' = [did EXCEPT ![y].done = did[y].done \cup {action}]
      BY <1>2, <2>2, <1>t DEF SetPriority, y
    <3>2. applied = runner[c].applied \cup {action}
      OBVIOUS
    <3> HIDE DEF rest, p, applied, action
    <3>3. /\ Fields(x) /\ x.at = runner[c].at /\ x.event = runner[c].event /\ x.todo = runner[c].todo
          /\ x.applied = applied
      BY <1>t
    <3> HIDE DEF x
    <3>4. QED
      BY <2>0, <3>1, <3>2, <3>3, <1>w, <1>u
  <2>3. QED
    BY <2>1, <2>2
<1>3. CASE LinkTag(c)
  <2> DEFINE n == Action(c).value
             rest == Tail(runner[c].rest)
  <2>0. /\ runner[c].at = "link" /\ UNCHANGED <<rule, making, given, run, indexed, known>>
        /\ linked \subseteq linked'
    BY <1>3 DEF LinkTag
  <2>t. TagsSound'
    BY <2>0, <1>t DEF TagsSound
  <2>1. CASE tagRow[n] /= runner[c].tag
    <3> DEFINE x == [runner[c] EXCEPT !.at = "act", !.tag = 0, !.rest = rest]
    <3>1. runner' = [runner EXCEPT ![c] = x] /\ UNCHANGED did
      BY <1>3, <2>1, <1>t DEF LinkTag
    <3> HIDE DEF rest
    <3>2. /\ Fields(x) /\ x.at = "act" /\ x.event = runner[c].event /\ x.todo = runner[c].todo
          /\ x.applied = runner[c].applied
      BY <1>t
    <3> HIDE DEF x
    <3>3. x.at \in {"act", "find", "link"} =>
            LET z == <<Head(x.todo).id, x.event>>
            IN  z \in Pairs /\ x.applied \subseteq did[z].done
      BY <2>0, <3>2, <1>a, <1>y
    <3>4. QED
      BY <2>0, <2>t, <3>1, <3>2, <3>3, <1>t, RunnerStep
  <2>2. CASE tagRow[n] = runner[c].tag
    <3> DEFINE action == Action(c)
               applied == runner[c].applied \cup {action}
               x == [runner[c] EXCEPT !.at = "act", !.tag = 0, !.rest = rest, !.applied = applied]
    <3>1. /\ runner' = [runner EXCEPT ![c] = x]
          /\ did' = [did EXCEPT ![y].done = did[y].done \cup {action}]
      BY <1>3, <2>2, <1>t DEF LinkTag, y
    <3>2. applied = runner[c].applied \cup {action}
      OBVIOUS
    <3> HIDE DEF rest, applied, action
    <3>3. /\ Fields(x) /\ x.at = "act" /\ x.event = runner[c].event /\ x.todo = runner[c].todo
          /\ x.applied = applied
      BY <1>t
    <3> HIDE DEF x
    <3>4. QED
      BY <2>0, <2>t, <3>1, <3>2, <3>3, <1>w
  <2>3. QED
    BY <2>1, <2>2
<1>4. CASE WriteApplied(c)
  <2> DEFINE todo == Tail(runner[c].todo)
             x == [runner[c] EXCEPT !.at = "next", !.todo = todo, !.applied = {}]
             row == IF run[y].there THEN [run[y] EXCEPT !.applied = runner[c].applied] ELSE run[y]
             history == did[y]
  <2>1. runner[c].at = "act" /\ UNCHANGED <<rule, making, given, did, tagVars>>
    BY <1>4 DEF WriteApplied
  <2>2. y \in Pairs /\ runner[c].applied \subseteq did[y].done
    BY <2>1, <1>a
  <2>3. runner' = [runner EXCEPT ![c] = x]
    BY <1>4, <1>t DEF WriteApplied
  <2>4. DOMAIN run' = Pairs /\ run'[y] = row /\ \A z \in Pairs \ {y} : run'[z] = run[z]
    <3>1. run' = IF run[y].there THEN [run EXCEPT ![y].applied = runner[c].applied] ELSE run
      BY <1>4 DEF WriteApplied, y
    <3>2. QED
      BY <3>1, <2>2, <1>t
  <2>5. DOMAIN did' = Pairs /\ did'[y] = history /\ \A z \in Pairs \ {y} : did'[z] = did[z]
    BY <2>1, <1>t
  <2>6. /\ row \in [there : BOOLEAN, applied : {row.applied}] /\ (row.there <=> run[y].there)
        /\ row.applied \subseteq did[y].done
    BY <2>2, <1>p
  <2> HIDE DEF todo
  <2>7. Fields(x) /\ x.at = "next" /\ x.event = runner[c].event
    BY <1>t
  <2>8. history \in [taken : {0, 1}, done : {history.done}] /\ history.taken = did[y].taken
        /\ history.done = did[y].done
    BY <2>2, <1>p
  <2> HIDE DEF x, row, history
  <2>9. QED
    BY <2>1, <2>2, <2>3, <2>4, <2>5, <2>6, <2>7, <2>8, <1>t, <1>u, RunnerWrites
<1>5. QED
  BY <1>1, <1>2, <1>3, <1>4

LEMMA RulesInvStep == RulesInv /\ [RulesNext]_ruleVars => RulesInv'
<1> SUFFICES ASSUME RulesInv, [RulesNext]_ruleVars PROVE RulesInv'
  OBVIOUS
<1>t. TagsSound /\ IdsGiven /\ RuleTypes /\ 0 \notin Rules
  BY RulesAssumption DEF RulesInv
<1>1. ASSUME NEW r \in Rules,
             \/ ReadPlace(r) \/ DeleteRule(r)
             \/ \E enabled \in BOOLEAN, place \in Places : PatchRule(r, enabled, place)
      PROVE  RulesInv'
  BY <1>1, RulesInvAdmin
<1>2. ASSUME NEW says \in Contents, InsertRule(says) PROVE RulesInv'
  <2>1. making.id \in Rules
    BY <1>2, <1>t DEF InsertRule, IdsGiven, RuleTypes
  <2>2. QED
    BY <2>1, <1>2, RulesInvAdmin
<1>3. ASSUME NEW c \in Runners,
             \/ \E e \in Events : ReadTicket(c, e)
             \/ ReadRules(c) \/ NextRule(c) \/ ClaimRun(c) \/ SetPriority(c) \/ MakeTag(c) \/ FindTag(c)
             \/ LinkTag(c) \/ ActionThrows(c) \/ WriteApplied(c) \/ RunnerDies(c)
      PROVE  RulesInv'
  BY <1>3, RunnerReads, RunnerActs
<1>4. ASSUME NEW n \in Names, CreateTag(n) \/ DeleteTag(n) PROVE RulesInv'
  <2>1. UNCHANGED runVars /\ TagsSound'
    BY <1>4, <1>t DEF CreateTag, DeleteTag, TagsSound
  <2>2. QED
    BY <2>1, TagStep
<1>5. ASSUME NEW g \in Taggers,
             \/ AddLink(g) \/ RefreshSearch(g) \/ TaggerDies(g)
             \/ \E n \in Names : ReadTag(g, n) \/ RemoveLink(g, n)
      PROVE  RulesInv'
  <2>1. UNCHANGED runVars
    BY <1>5 DEF AddLink, RefreshSearch, TaggerDies, ReadTag, RemoveLink
  <2>2. TagsSound'
    BY <1>5, <1>t DEF AddLink, RefreshSearch, TaggerDies, ReadTag, RemoveLink, TagsSound
  <2>3. QED
    BY <2>1, <2>2, TagStep
<1>6. CASE UNCHANGED ruleVars
  <2>1. UNCHANGED runVars /\ TagsSound'
    BY <1>6, <1>t DEF ruleVars, runVars, TagsSound
  <2>2. QED
    BY <2>1, TagStep
<1>7. QED
  BY <1>1, <1>2, <1>3, <1>4, <1>5, <1>6 DEF RulesNext

LEMMA RulesHoldInv == RulesSpec => []RulesInv
  BY RulesInvInit, RulesInvStep, PTL DEF RulesSpec

\* Theorem: a rule is applied to an event once at most, its run lists nothing
\* that was not done, and a tag an agent was told of is found by search, however
\* passes overlap and rules and tags are deleted meanwhile.
THEOREM RulesAreSound == RulesSpec => []RulesSound
<1>1. RulesInv => RulesSound
  <2> SUFFICES ASSUME RulesInv PROVE RulesSound
    OBVIOUS
  <2>1. \A x \in Pairs : did[x].taken \in {0, 1}
    BY DEF RulesInv, RuleTypes
  <2>2. QED
    BY <2>1 DEF RulesInv, RuleTypes, RunsSound, TagsSound, RulesSound, RuleOnce, RunsHonest, TagsFound
<1>2. QED
  BY <1>1, RulesHoldInv, PTL

(***************************************************************************)
(* Accounts.                                                               *)
(***************************************************************************)
MemberRow == [role : {"owner", "admin", "agent", "none"}, disabled : BOOLEAN]
Invitation == [state : {"none", "open", "accepted", "gone"}, org : Orgs \cup {Absent},
               email : Emails \cup {Absent}, role : {"admin", "agent"}]
SessionRow == [user : Users \cup {Absent}, org : Orgs \cup {Absent}]
ActPoints == {"idle", "signup", "invite", "accept", "acceptNew", "member", "move", "session", "done"}
Act == [pc : ActPoints, user : Users \cup {Absent}, email : Emails \cup {Absent},
        org : Orgs \cup {Absent}, invite : Invitation, role : {"admin", "agent"}]
Members == [Orgs -> [Users -> MemberRow]]

AccountTypes ==
  /\ email \in [Users -> Emails \cup {Absent}] /\ org \subseteq Orgs /\ member \in Members
  /\ invite \in [Invites -> Invitation] /\ session \in [AccountCalls -> SessionRow]
  /\ act \in [AccountCalls -> Act]

Belongs(o, u) == member[o][u].role /= "none"
Owns(o, u) == member[o][u].role = "owner"

\* Members have accounts and workspaces, and owners are never disabled.
MembersReal ==
  \A o \in Orgs, u \in Users :
    /\ Belongs(o, u) => o \in org /\ Exists(u)
    /\ ~Belongs(o, u) => member[o][u] = NotMember
    /\ Owns(o, u) => ~member[o][u].disabled

OwnersThere == \A o \in org : \E u \in Users : Owns(o, u)

\* An invitation never goes to an owner of its workspace.
NotToOwner(o, e) == o \in org /\ e \in Emails /\ \A u \in Users : Owns(o, u) => email[u] /= e

InvitesSound == \A i \in Invites : invite[i].state /= "none" => NotToOwner(invite[i].org, invite[i].email)

InHome(u, o) == u \in Users /\ o \in Orgs /\ Belongs(o, u)

SessionsSound == \A s \in AccountCalls : session[s] = NoSession \/ InHome(session[s].user, session[s].org)

\* What a request has read is true, or stays true.
ActSound(a) ==
  /\ a.pc = "signup" => a.email \in Emails /\ a.org \in Orgs
  /\ a.pc \in {"session", "move"} => InHome(a.user, a.org)
  /\ a.pc = "invite" => NotToOwner(a.org, a.email)
  /\ a.pc \in {"accept", "acceptNew"} => a.org = a.invite.org /\ NotToOwner(a.invite.org, a.invite.email)
  /\ a.pc = "accept" => a.user \in Users /\ email[a.user] = a.invite.email
  /\ a.pc = "member" => InHome(a.user, a.org) /\ ~Owns(a.org, a.user)

ActsSound ==
  \A r \in AccountCalls :
    /\ ActSound(act[r])
    /\ act[r].pc \notin {"session", "done"} => ~Exists(r)

AccountInv ==
  /\ AccountTypes /\ MembersReal /\ OwnersThere /\ InvitesSound /\ SessionsSound /\ ActsSound
  /\ OneAccountPerEmail /\ UserHasHome

LEMMA Accounting ==
  /\ NoInvite \in Invitation /\ NoInvite.state = "none" /\ NoAct \in Act /\ NoAct.pc = "idle"
  /\ NoSession \in SessionRow /\ NoSession.user = Absent
  /\ NotMember \in MemberRow /\ NotMember.role = "none"
  /\ \A role \in {"owner", "admin", "agent"} :
       Joined(role) \in MemberRow /\ Joined(role).role = role /\ ~Joined(role).disabled
  /\ Absent \notin Users /\ Absent \notin Emails /\ Absent \notin Orgs
<1>1. NoInvite \in Invitation /\ NoInvite.state = "none"
  BY DEF NoInvite, Invitation
<1>2. NoAct \in Act /\ NoAct.pc = "idle"
  <2> HIDE DEF NoInvite
  <2>1. QED
    BY <1>1 DEF NoAct, Act, ActPoints
<1>3. NoSession \in SessionRow /\ NoSession.user = Absent
  BY DEF NoSession, SessionRow
<1>4. NotMember \in MemberRow /\ NotMember.role = "none"
  BY DEF NotMember, MemberRow
<1>5. ASSUME NEW role \in {"owner", "admin", "agent"}
      PROVE  Joined(role) \in MemberRow /\ Joined(role).role = role /\ ~Joined(role).disabled
  BY DEF Joined, MemberRow
<1>6. QED
  BY <1>1, <1>2, <1>3, <1>4, <1>5, AccountAssumption DEF Users

LEMMA AccountInvInit == AccountInit => AccountInv
<1> SUFFICES ASSUME AccountInit PROVE AccountInv
  OBVIOUS
<1>a. FirstOrg \in Orgs /\ Founder \in Users /\ Founder \notin AccountCalls
  BY AccountAssumption DEF Users
<1>1. PICK e \in Emails : email = [u \in Users |-> IF u = Founder THEN e ELSE Absent]
  BY DEF AccountInit
<1>2. /\ org = {FirstOrg}
      /\ member = [o \in Orgs |-> [u \in Users |->
                     IF o = FirstOrg /\ u = Founder THEN Joined("owner") ELSE NotMember]]
      /\ invite = [i \in Invites |-> NoInvite] /\ session = [r \in AccountCalls |-> NoSession]
      /\ act = [r \in AccountCalls |-> NoAct]
  BY DEF AccountInit
<1>3. AccountTypes
  <2>1. member \in Members
    BY <1>2, Accounting DEF Members
  <2>2. email \in [Users -> Emails \cup {Absent}]
    BY <1>1
  <2>3. QED
    BY <1>2, <1>a, <2>1, <2>2, Accounting DEF AccountTypes
<1>4. /\ \A o \in Orgs, u \in Users : member[o][u] = IF o = FirstOrg /\ u = Founder THEN Joined("owner") ELSE NotMember
      /\ \A u \in Users : Exists(u) <=> u = Founder
  <2>1. e /= Absent
    BY Accounting
  <2>2. QED
    BY <1>1, <1>2, <2>1 DEF Exists
<1>b. \A o \in Orgs, u \in Users :
        /\ Belongs(o, u) <=> o = FirstOrg /\ u = Founder
        /\ Owns(o, u) <=> o = FirstOrg /\ u = Founder
  BY <1>4, Accounting DEF Belongs, Owns
<1>5. MembersReal /\ OwnersThere /\ UserHasHome /\ OneAccountPerEmail
  <2>1. MembersReal
    BY <1>2, <1>4, <1>b, Accounting DEF MembersReal
  <2>2. OwnersThere
    BY <1>a, <1>2, <1>b DEF OwnersThere
  <2>3. UserHasHome
    BY <1>a, <1>2, <1>4, <1>b DEF UserHasHome, Belongs
  <2>4. OneAccountPerEmail
    BY <1>1, <1>4 DEF OneAccountPerEmail, Exists
  <2>5. QED
    BY <2>1, <2>2, <2>3, <2>4
<1>6. InvitesSound /\ SessionsSound
  BY <1>2, Accounting DEF InvitesSound, SessionsSound
<1>7. ActsSound
  BY <1>a, <1>2, <1>4, Accounting DEF ActsSound, ActSound, Users
<1>8. QED
  BY <1>3, <1>5, <1>6, <1>7 DEF AccountInv

\* Accounts, workspaces and memberships only grow, and nobody becomes or ceases
\* to be the owner of a workspace there is.
AccountsGrow ==
  /\ org \subseteq org'
  /\ \A u \in Users : Exists(u) => email'[u] = email[u]
  /\ \A o \in Orgs, u \in Users : Belongs(o, u) => member'[o][u].role /= "none"
  /\ \A o \in org, u \in Users : Owns(o, u) <=> member'[o][u].role = "owner"

LEMMA StillTrue ==
  ASSUME AccountInv, AccountsGrow, org' \subseteq Orgs
  PROVE  /\ \A o, e : NotToOwner(o, e) => NotToOwner(o, e)'
         /\ \A u, o : InHome(u, o) => InHome(u, o)'
         /\ \A a : ActSound(a) => ActSound(a)'
<1>t. org \subseteq Orgs /\ MembersReal
  BY DEF AccountInv, AccountTypes
<1>1. ASSUME NEW o, NEW e, NotToOwner(o, e) PROVE NotToOwner(o, e)'
  <2>1. o \in org /\ e \in Emails /\ o \in Orgs
    BY <1>1, <1>t DEF NotToOwner
  <2>2. ASSUME NEW u \in Users, Owns(o, u)' PROVE email'[u] /= e
    <3>1. Owns(o, u) /\ Belongs(o, u)
      BY <2>1, <2>2 DEF AccountsGrow, Owns, Belongs
    <3>2. Exists(u) /\ email[u] /= e
      BY <2>1, <3>1, <1>1, <1>t DEF MembersReal, NotToOwner
    <3>3. QED
      BY <3>2 DEF AccountsGrow
  <2>3. QED
    BY <2>1, <2>2 DEF NotToOwner, AccountsGrow
<1>2. ASSUME NEW u, NEW o, InHome(u, o) PROVE InHome(u, o)'
  BY <1>2 DEF InHome, AccountsGrow, Belongs
<1>3. ASSUME NEW a, ActSound(a) PROVE ActSound(a)'
  <2>1. a.pc = "accept" => email'[a.user] = a.invite.email
    <3>1. CASE a.pc = "accept"
      <4>1. a.user \in Users /\ email[a.user] = a.invite.email /\ a.invite.email \in Emails
        BY <1>3, <3>1 DEF ActSound, NotToOwner
      <4>2. Exists(a.user)
        BY <4>1, Accounting DEF Exists
      <4>3. QED
        BY <4>1, <4>2 DEF AccountsGrow
    <3>2. QED
      BY <3>1
  <2>2. a.pc = "member" => ~Owns(a.org, a.user)'
    <3>1. CASE a.pc = "member"
      <4>1. a.user \in Users /\ a.org \in Orgs /\ Belongs(a.org, a.user) /\ ~Owns(a.org, a.user)
        BY <1>3, <3>1 DEF ActSound, InHome
      <4>2. a.org \in org
        BY <4>1, <1>t DEF MembersReal
      <4>3. QED
        BY <4>1, <4>2 DEF AccountsGrow, Owns
    <3>2. QED
      BY <3>1
  <2>3. QED
    BY <1>1, <1>2, <1>3, <2>1, <2>2 DEF ActSound
<1>4. QED
  BY <1>1, <1>2, <1>3

\* What a step has to show: the tables are in order, and so is the new copy of
\* the request that takes it.
LEMMA ActMoves ==
  ASSUME AccountInv, AccountsGrow, org' \subseteq Orgs, NEW r \in AccountCalls, NEW a \in Act,
         act' = [act EXCEPT ![r] = a], ActSound(a)', a.pc \notin {"session", "done"} => ~Exists(r)',
         \A u \in AccountCalls \ {r} : email'[u] = email[u]
  PROVE  act' \in [AccountCalls -> Act] /\ ActsSound'
<1>1. /\ act' \in [AccountCalls -> Act] /\ act'[r] = a
      /\ \A s \in AccountCalls \ {r} : act'[s] = act[s]
  BY DEF AccountInv, AccountTypes
<1>2. ASSUME NEW s \in AccountCalls \ {r} PROVE ActSound(act[s])' /\ (act[s].pc \notin {"session", "done"} => ~Exists(s)')
  <2>1. ActSound(act[s]) /\ (act[s].pc \notin {"session", "done"} => ~Exists(s))
    BY DEF AccountInv, ActsSound
  <2>2. PICK b : b = act[s]
    OBVIOUS
  <2>3. ActSound(b)'
    BY <2>1, <2>2, StillTrue
  <2>4. act'[s] = b
    BY <1>1, <2>2
  <2>5. QED
    BY <2>1, <2>2, <2>3, <2>4, <1>2 DEF Exists
<1>3. QED
  BY <1>1, <1>2 DEF ActsSound

\* A request that reads, or ends: the tables stay.
LEMMA ReadingStep ==
  ASSUME AccountInv, NEW r \in AccountCalls, NEW a \in Act, act' = [act EXCEPT ![r] = a],
         ActSound(a), a.pc \notin {"session", "done"} => ~Exists(r),
         UNCHANGED <<email, org, member>>,
         invite' \in [Invites -> Invitation], InvitesSound',
         session' \in [AccountCalls -> SessionRow], SessionsSound'
  PROVE  AccountInv'
<1>1. AccountsGrow /\ org' \subseteq Orgs
  BY DEF AccountsGrow, Belongs, Owns, AccountInv, AccountTypes
<1>2. ActSound(a)'
  BY <1>1, StillTrue
<1>3. act' \in [AccountCalls -> Act] /\ ActsSound'
  BY <1>1, <1>2, ActMoves DEF Exists
<1>4. QED
  BY <1>3 DEF AccountInv, AccountTypes, MembersReal, OwnersThere, Belongs, Owns, OneAccountPerEmail,
              UserHasHome, Exists

LEMMA StartKeeps ==
  ASSUME AccountInv, NEW r \in AccountCalls, StartAct(r)
  PROVE  AccountInv'
<1>t. AccountTypes /\ MembersReal /\ OwnersThere /\ InvitesSound /\ SessionsSound /\ ActsSound
  BY DEF AccountInv
<1>r. ~Exists(r)
  BY <1>t DEF StartAct, Incoming, ActsSound
\* The request reads, and holds a.
<1>k. ASSUME NEW a \in Act, Begin(r, a), ActSound(a), UNCHANGED <<email, org, member, invite, session>>
      PROVE  AccountInv'
  <2>1. InvitesSound' /\ SessionsSound'
    BY <1>k, <1>t DEF InvitesSound, SessionsSound, NotToOwner, InHome, Owns, Belongs
  <2>2. invite' \in [Invites -> Invitation] /\ session' \in [AccountCalls -> SessionRow]
    BY <1>k, <1>t DEF AccountTypes
  <2>3. QED
    BY <1>k, <1>r, <2>1, <2>2, ReadingStep DEF Begin
<1>m. \A o \in Orgs, u \in Users : Active(o, u) => InHome(u, o) /\ o \in org
  BY <1>t DEF Active, InHome, Belongs, MembersReal
<1>1. ASSUME NEW e \in Emails, NEW o \in Orgs, CheckSignup(r, e, o) PROVE AccountInv'
  <2> DEFINE a == [NoAct EXCEPT !.pc = "signup", !.email = e, !.org = o]
  <2>1. Begin(r, a) /\ UNCHANGED <<email, org, member, invite, session>>
    BY <1>1 DEF CheckSignup
  <2>2. a \in Act /\ a.pc = "signup" /\ a.email = e /\ a.org = o
    BY Accounting DEF Act, ActPoints
  <2> HIDE DEF a
  <2>3. QED
    BY <2>1, <2>2, <1>k DEF ActSound
<1>2. ASSUME NEW u \in Users, NEW o \in Orgs, Login(r, u, o) PROVE AccountInv'
  <2> DEFINE a == [NoAct EXCEPT !.pc = "session", !.user = u, !.org = o]
  <2>1. Begin(r, a) /\ UNCHANGED <<email, org, member, invite, session>> /\ Active(o, u)
    BY <1>2 DEF Login
  <2>2. a \in Act /\ a.pc = "session" /\ a.user = u /\ a.org = o
    BY Accounting DEF Act, ActPoints
  <2> HIDE DEF a
  <2>3. QED
    BY <2>1, <2>2, <1>k, <1>m DEF ActSound
<1>3. ASSUME NEW by \in Users, NEW o \in Orgs, NEW e \in Emails, NEW role \in {"admin", "agent"},
             CheckInvite(r, by, o, e, role)
      PROVE  AccountInv'
  <2> DEFINE a == [NoAct EXCEPT !.pc = "invite", !.org = o, !.email = e, !.role = role]
  <2>1. /\ Begin(r, a) /\ UNCHANGED <<email, org, member, invite, session>>
        /\ Active(o, by) /\ \A u \in Users : email[u] = e => ~Active(o, u)
    BY <1>3 DEF CheckInvite, SignedIn
  <2>2. a \in Act /\ a.pc = "invite" /\ a.email = e /\ a.org = o
    BY Accounting DEF Act, ActPoints
  <2> HIDE DEF a
  <2>3. \A u \in Users : Owns(o, u) => Active(o, u)
    BY <1>t DEF MembersReal, Owns, Active
  <2>4. NotToOwner(o, e)
    BY <2>1, <2>3, <1>m DEF NotToOwner
  <2>5. QED
    BY <2>1, <2>2, <2>4, <1>k DEF ActSound
<1>4. ASSUME NEW i \in Invites, NEW u \in Users \cup {Absent}, ReadInvite(r, i, u) PROVE AccountInv'
  <2> DEFINE kind == IF u = Absent THEN "acceptNew" ELSE "accept"
             v == invite[i]
             o == v.org
             a == [NoAct EXCEPT !.pc = kind, !.user = u, !.org = o, !.invite = v]
  <2>1. /\ Begin(r, a) /\ UNCHANGED <<email, org, member, invite, session>>
        /\ v.state = "open" /\ (u /= Absent => email[u] = v.email)
    BY <1>4 DEF ReadInvite
  <2>2. v \in Invitation /\ o \in Orgs \cup {Absent} /\ NotToOwner(o, v.email) /\ kind \in {"accept", "acceptNew"}
    BY <2>1, <1>t DEF AccountTypes, InvitesSound, Invitation
  <2>3. kind = "accept" => u \in Users
    OBVIOUS
  <2>o. o = v.org /\ (kind = "accept" => u /= Absent)
    OBVIOUS
  <2> HIDE DEF kind, o, v
  <2>4. a \in Act /\ a.pc = kind /\ a.user = u /\ a.org = o /\ a.invite = v
    BY <2>2, Accounting DEF Act, ActPoints
  <2> HIDE DEF a
  <2>5. ActSound(a)
    BY <2>1, <2>2, <2>3, <2>4, <2>o DEF ActSound
  <2>6. QED
    BY <2>1, <2>4, <2>5, <1>k
<1>5. ASSUME NEW by \in Users, NEW u \in Users, NEW o \in Orgs, ReadMember(r, by, o, u) PROVE AccountInv'
  <2> DEFINE a == [NoAct EXCEPT !.pc = "member", !.user = u, !.org = o]
  <2>1. /\ Begin(r, a) /\ UNCHANGED <<email, org, member, invite, session>>
        /\ member[o][u].role \notin {"none", "owner"}
    BY <1>5 DEF ReadMember
  <2>2. a \in Act /\ a.pc = "member" /\ a.user = u /\ a.org = o
    BY Accounting DEF Act, ActPoints
  <2> HIDE DEF a
  <2>3. QED
    BY <2>1, <2>2, <1>k DEF ActSound, InHome, Belongs, Owns
<1>6. ASSUME NEW s \in AccountCalls, NEW o \in Orgs, ReadSwitch(r, s, o) PROVE AccountInv'
  <2> DEFINE u == session[s].user
             a == [NoAct EXCEPT !.pc = "move", !.user = u, !.org = o]
  <2>1. /\ Begin(r, a) /\ UNCHANGED <<email, org, member, invite, session>>
        /\ session[s] /= NoSession /\ Active(o, u)
    BY <1>6 DEF ReadSwitch
  <2>2. u \in Users
    BY <2>1, <1>t DEF SessionsSound, InHome
  <2> HIDE DEF u
  <2>3. a \in Act /\ a.pc = "move" /\ a.user = u /\ a.org = o
    BY <2>2, Accounting DEF Act, ActPoints
  <2> HIDE DEF a
  <2>4. QED
    BY <2>1, <2>2, <2>3, <1>k, <1>m DEF ActSound
<1>7. QED
  BY <1>1, <1>2, <1>3, <1>4, <1>5, <1>6 DEF StartAct

\* One membership is written.
LEMMA MemberWritten ==
  ASSUME member \in Members, NEW o \in Orgs, NEW u \in Users, NEW row \in MemberRow,
         member' = [member EXCEPT ![o][u] = row]
  PROVE  /\ member' \in Members /\ member'[o][u] = row
         /\ \A p \in Orgs, v \in Users : p /= o \/ v /= u => member'[p][v] = member[p][v]
BY DEF Members

\* A new account of request r, which starts as a member of workspace o.
LEMMA AccountOpened ==
  ASSUME AccountInv, NEW r \in AccountCalls, ~Exists(r), NEW e \in Emails, ~Taken(e),
         NEW o \in Orgs, NEW role \in {"owner", "admin", "agent"},
         email' = [email EXCEPT ![r] = e], member' = [member EXCEPT ![o][r] = Joined(role)],
         org' = org \cup {o}, o \in org <=> role /= "owner",
         act' = [act EXCEPT ![r] = [act[r] EXCEPT !.pc = "session", !.user = r]], act[r].org = o,
         invite' \in [Invites -> Invitation],
         \A i \in Invites : invite'[i].state /= "none" => NotToOwner(invite'[i].org, invite'[i].email),
         UNCHANGED session
  PROVE  AccountInv'
<1>t. AccountTypes /\ MembersReal /\ OwnersThere /\ SessionsSound /\ OneAccountPerEmail /\ UserHasHome
  BY DEF AccountInv
<1>r. r \in Users /\ e /= Absent
  BY Accounting DEF Users
<1>j. Joined(role) \in MemberRow /\ Joined(role).role = role /\ ~Joined(role).disabled
  BY Accounting
<1>1. /\ email' \in [Users -> Emails \cup {Absent}] /\ email'[r] = e
      /\ \A u \in Users \ {r} : email'[u] = email[u]
  BY <1>t, <1>r DEF AccountTypes
<1>2. /\ member' \in Members /\ member'[o][r] = Joined(role)
      /\ \A p \in Orgs, v \in Users : p /= o \/ v /= r => member'[p][v] = member[p][v]
  BY <1>t, <1>r, <1>j, MemberWritten, ZenonT(60) DEF AccountTypes
<1>3. \A p \in Orgs : ~Belongs(p, r)
  BY <1>t, <1>r DEF MembersReal
<1>4. \A u \in Users : Belongs(o, u) => o \in org
  BY <1>t DEF MembersReal
<1>5. AccountsGrow
  <2>1. \A p \in Orgs, u \in Users : Belongs(p, u) => member'[p][u].role /= "none"
    BY <1>2, <1>3 DEF Belongs
  <2>2. \A p \in org, u \in Users : Owns(p, u) <=> member'[p][u].role = "owner"
    <3> SUFFICES ASSUME NEW p \in org, NEW u \in Users PROVE Owns(p, u) <=> member'[p][u].role = "owner"
      OBVIOUS
    <3>1. p \in Orgs
      BY <1>t DEF AccountTypes
    <3>2. CASE p /= o \/ u /= r
      BY <3>1, <3>2, <1>2 DEF Owns
    <3>3. CASE p = o /\ u = r
      <4>1. role /= "owner"
        BY <3>3
      <4>2. ~Owns(o, r)
        BY <1>3 DEF Owns, Belongs
      <4>3. QED
        BY <3>3, <4>1, <4>2, <1>2, <1>j
    <3>4. QED
      BY <3>2, <3>3
  <2>3. QED
    BY <2>1, <2>2, <1>1 DEF AccountsGrow
<1>6. org' \subseteq Orgs
  BY <1>t DEF AccountTypes
<1>7. MembersReal'
  <2> SUFFICES ASSUME NEW p \in Orgs, NEW u \in Users
               PROVE  /\ Belongs(p, u)' => p \in org' /\ Exists(u)'
                      /\ ~Belongs(p, u)' => member'[p][u] = NotMember
                      /\ Owns(p, u)' => ~member'[p][u].disabled
    BY DEF MembersReal
  <2>1. CASE p /= o \/ u /= r
    <3>1. member'[p][u] = member[p][u]
      BY <2>1, <1>2
    <3>2. Exists(u) => Exists(u)'
      BY <1>5 DEF AccountsGrow, Exists
    <3>3. QED
      BY <3>1, <3>2, <1>t, <1>5 DEF MembersReal, Belongs, Owns, AccountsGrow
  <2>2. CASE p = o /\ u = r
    BY <2>2, <1>1, <1>2, <1>j, <1>r DEF Belongs, Owns, Exists
  <2>3. QED
    BY <2>1, <2>2
<1>8. OwnersThere'
  <2> SUFFICES ASSUME NEW p \in org' PROVE \E u \in Users : Owns(p, u)'
    BY DEF OwnersThere
  <2>1. CASE p \in org
    <3>1. PICK u \in Users : Owns(p, u)
      BY <2>1, <1>t DEF OwnersThere
    <3>2. QED
      BY <2>1, <3>1, <1>5 DEF AccountsGrow, Owns
  <2>2. CASE p \notin org
    <3>1. p = o /\ role = "owner"
      BY <2>2
    <3>2. QED
      BY <3>1, <1>2, <1>j, <1>r DEF Owns
  <2>3. QED
    BY <2>1, <2>2
<1>9. InvitesSound'
  <2> SUFFICES ASSUME NEW i \in Invites, invite'[i].state /= "none"
               PROVE  NotToOwner(invite[i].org, invite[i].email)'
    BY DEF InvitesSound
  <2>1. PICK p, f : p = invite'[i].org /\ f = invite'[i].email
    OBVIOUS
  <2>2. NotToOwner(p, f)
    BY <2>1
  <2>3. NotToOwner(p, f)'
    BY <2>2, <1>5, <1>6, StillTrue
  <2>4. QED
    BY <2>1, <2>3 DEF NotToOwner
<1>10. SessionsSound'
  <2> SUFFICES ASSUME NEW s \in AccountCalls
               PROVE  session'[s] = NoSession \/ InHome(session[s].user, session[s].org)'
    BY DEF SessionsSound
  <2>1. PICK u, p : u = session[s].user /\ p = session[s].org
    OBVIOUS
  <2>2. InHome(u, p) => InHome(u, p)'
    BY <1>5, <1>6, StillTrue
  <2>3. QED
    BY <2>1, <2>2, <1>t DEF SessionsSound, InHome
<1>11. act' \in [AccountCalls -> Act] /\ ActsSound'
  <2> DEFINE a == [act[r] EXCEPT !.pc = "session", !.user = r]
  <2>1. a \in Act /\ a.pc = "session" /\ a.user = r /\ a.org = o
    <3>1. act[r] \in Act
      BY <1>t DEF AccountTypes
    <3>2. QED
      BY <3>1, <1>r DEF Act, ActPoints
  <2>2. act' = [act EXCEPT ![r] = a]
    OBVIOUS
  <2> HIDE DEF a
  <2>p. PICK b \in Act : b = a
    BY <2>1
  <2>3. InHome(r, o)'
    BY <1>r, <1>2, <1>j DEF InHome, Belongs
  <2>4. ActSound(b)'
    BY <2>1, <2>p, <2>3 DEF ActSound, InHome
  <2>5. \A u \in AccountCalls \ {r} : email'[u] = email[u]
    BY <1>1 DEF Users
  <2>6. QED
    BY <2>1, <2>2, <2>p, <2>4, <2>5, <1>5, <1>6, ActMoves
<1>12. OneAccountPerEmail'
  <2>1. \A u \in Users : email[u] /= e
    BY DEF Taken
  <2>2. QED
    BY <2>1, <1>1, <1>t DEF OneAccountPerEmail, Exists
<1>13. UserHasHome'
  <2> SUFFICES ASSUME NEW u \in Users, Exists(u)' PROVE \E p \in org' : member'[p][u].role /= "none"
    BY DEF UserHasHome
  <2>1. CASE u = r
    BY <2>1, <1>2, <1>j
  <2>2. CASE u /= r
    <3>1. Exists(u)
      BY <2>2, <1>1 DEF Exists
    <3>2. PICK p \in org : Belongs(p, u)
      BY <3>1, <1>t DEF UserHasHome, Belongs
    <3>3. p \in Orgs /\ p \in org'
      BY <1>t DEF AccountTypes
    <3>4. QED
      BY <3>2, <3>3, <1>5 DEF AccountsGrow
  <2>3. QED
    BY <2>1, <2>2
<1>14. QED
  BY <1>1, <1>2, <1>6, <1>7, <1>8, <1>9, <1>10, <1>11, <1>12, <1>13, <1>t DEF AccountInv, AccountTypes

\* A member who is no owner is written, by request r, which goes on with a.
LEMMA MemberPut ==
  ASSUME AccountInv, NEW r \in AccountCalls, NEW o \in org, NEW u \in Users, Exists(u), ~Owns(o, u),
         NEW row \in MemberRow, row.role \notin {"none", "owner"},
         member' = [member EXCEPT ![o][u] = row], UNCHANGED <<email, org, session>>,
         invite' \in [Invites -> Invitation],
         \A i \in Invites : invite'[i].state /= "none" => NotToOwner(invite'[i].org, invite'[i].email),
         NEW a \in Act, act' = [act EXCEPT ![r] = a], ActSound(a)',
         a.pc \notin {"session", "done"} => ~Exists(r)
  PROVE  AccountInv'
<1>t. /\ AccountTypes /\ MembersReal /\ OwnersThere /\ SessionsSound /\ OneAccountPerEmail /\ UserHasHome
      /\ o \in Orgs /\ org \subseteq Orgs /\ member \in Members
  BY DEF AccountInv, AccountTypes
<1>1. /\ member' \in Members /\ member'[o][u] = row
      /\ \A p \in Orgs, v \in Users : p /= o \/ v /= u => member'[p][v] = member[p][v]
  BY <1>t DEF Members
<1>2. \A p \in Orgs, v \in Users : /\ Belongs(p, v) => Belongs(p, v)'
                                  /\ Owns(p, v) <=> Owns(p, v)'
  <2> SUFFICES ASSUME NEW p \in Orgs, NEW v \in Users
               PROVE  (Belongs(p, v) => Belongs(p, v)') /\ (Owns(p, v) <=> Owns(p, v)')
    OBVIOUS
  <2>1. CASE p /= o \/ v /= u
    BY <2>1, <1>1 DEF Belongs, Owns
  <2>2. CASE p = o /\ v = u
    BY <2>2, <1>1 DEF Belongs, Owns
  <2>3. QED
    BY <2>1, <2>2
<1>3. AccountsGrow /\ org' \subseteq Orgs
  BY <1>2, <1>t DEF AccountsGrow, Belongs, Owns, AccountTypes
<1>4. MembersReal'
  <2> SUFFICES ASSUME NEW p \in Orgs, NEW v \in Users
               PROVE  /\ Belongs(p, v)' => p \in org' /\ Exists(v)'
                      /\ ~Belongs(p, v)' => member'[p][v] = NotMember
                      /\ Owns(p, v)' => ~member'[p][v].disabled
    BY DEF MembersReal
  <2>1. CASE p /= o \/ v /= u
    BY <2>1, <1>1, <1>t DEF MembersReal, Belongs, Owns, Exists
  <2>2. CASE p = o /\ v = u
    BY <2>2, <1>1 DEF Belongs, Owns, Exists
  <2>3. QED
    BY <2>1, <2>2
<1>5. OwnersThere' /\ UserHasHome' /\ OneAccountPerEmail'
  <2>1. OwnersThere'
    <3> SUFFICES ASSUME NEW p \in org PROVE \E v \in Users : Owns(p, v)'
      BY DEF OwnersThere
    <3>1. PICK v \in Users : Owns(p, v)
      BY <1>t DEF OwnersThere
    <3>2. QED
      BY <3>1, <1>2, <1>t DEF Owns
  <2>2. UserHasHome'
    BY <1>2, <1>t DEF UserHasHome, Belongs, Exists, AccountTypes
  <2>3. OneAccountPerEmail'
    BY <1>t DEF OneAccountPerEmail, Exists
  <2>4. QED
    BY <2>1, <2>2, <2>3
<1>6. InvitesSound'
  <2> SUFFICES ASSUME NEW i \in Invites, invite'[i].state /= "none"
               PROVE  NotToOwner(invite[i].org, invite[i].email)'
    BY DEF InvitesSound
  <2>1. PICK p, f : p = invite'[i].org /\ f = invite'[i].email
    OBVIOUS
  <2>2. NotToOwner(p, f)
    BY <2>1
  <2>3. NotToOwner(p, f)'
    BY <2>2, <1>3, StillTrue
  <2>4. QED
    BY <2>1, <2>3 DEF NotToOwner
<1>7. SessionsSound'
  <2> SUFFICES ASSUME NEW s \in AccountCalls
               PROVE  session'[s] = NoSession \/ InHome(session[s].user, session[s].org)'
    BY DEF SessionsSound
  <2>1. PICK v, p : v = session[s].user /\ p = session[s].org
    OBVIOUS
  <2>2. InHome(v, p) => InHome(v, p)'
    BY <1>3, StillTrue
  <2>3. QED
    BY <2>1, <2>2, <1>t DEF SessionsSound, InHome
<1>8. act' \in [AccountCalls -> Act] /\ ActsSound'
  BY <1>3, ActMoves DEF Exists
<1>9. QED
  BY <1>1, <1>3, <1>4, <1>5, <1>6, <1>7, <1>8, <1>t DEF AccountInv, AccountTypes

LEMMA AcceptedSound ==
  ASSUME AccountInv, NEW a \in Act, NotToOwner(a.invite.org, a.invite.email), invite' = Accepted(a)
  PROVE  /\ invite' \in [Invites -> Invitation]
         /\ \A i \in Invites : invite'[i].state /= "none" => NotToOwner(invite'[i].org, invite'[i].email)
<1> DEFINE v == [a.invite EXCEPT !.state = "accepted"]
<1>1. v \in Invitation /\ v.org = a.invite.org /\ v.email = a.invite.email
  BY DEF Act, Invitation
<1>2. \A i \in Invites : invite'[i] = v \/ invite'[i] = invite[i]
  BY DEF Accepted
<1>3. invite' \in [Invites -> Invitation]
  <2>1. invite' = [i \in Invites |-> IF invite[i] = a.invite THEN v ELSE invite[i]]
    BY DEF Accepted
  <2> HIDE DEF v
  <2>2. QED
    BY <2>1, <1>1 DEF AccountInv, AccountTypes
<1> HIDE DEF v
<1>4. QED
  BY <1>1, <1>2, <1>3 DEF AccountInv, InvitesSound

LEMMA ActKeeps ==
  ASSUME AccountInv, NEW r \in AccountCalls, ActStep(r)
  PROVE  AccountInv'
<1>t. /\ AccountTypes /\ MembersReal /\ OwnersThere /\ InvitesSound /\ SessionsSound /\ ActsSound
      /\ act[r] \in Act /\ ActSound(act[r])
      /\ (act[r].pc \notin {"session", "done"} => ~Exists(r))
  BY DEF AccountInv, AccountTypes, ActsSound
<1> DEFINE done == [NoAct EXCEPT !.pc = "done"]
<1>d. done \in Act /\ done.pc = "done"
  BY Accounting DEF Act, ActPoints
<1>e. Ends(r) => act' = [act EXCEPT ![r] = done]
  BY DEF Ends
<1> HIDE DEF done
<1>f. ActSound(done)
  BY <1>d DEF ActSound
\* The request ends; at most invitations or sessions changed.
<1>k. ASSUME Ends(r), UNCHANGED <<email, org, member>>,
             invite' \in [Invites -> Invitation], InvitesSound',
             session' \in [AccountCalls -> SessionRow], SessionsSound'
      PROVE  AccountInv'
  BY <1>k, <1>d, <1>e, <1>f, ReadingStep
<1>i. UNCHANGED <<email, org, member, invite>> => InvitesSound' /\ invite' \in [Invites -> Invitation]
  BY <1>t DEF InvitesSound, NotToOwner, Owns, AccountTypes
<1>s. UNCHANGED <<member, session>> => SessionsSound' /\ session' \in [AccountCalls -> SessionRow]
  BY <1>t DEF SessionsSound, InHome, Belongs, AccountTypes
<1>n. \A i \in Invites : invite[i].state /= "none" => NotToOwner(invite[i].org, invite[i].email)
  BY <1>t DEF InvitesSound
<1>1. ASSUME NEW i \in Invites, Invite(r, i) PROVE AccountInv'
  <2> DEFINE v == [state |-> "open", org |-> act[r].org, email |-> act[r].email, role |-> act[r].role]
  <2>1. /\ act[r].pc = "invite" /\ invite' = [invite EXCEPT ![i] = v] /\ Ends(r)
        /\ UNCHANGED <<email, org, member, session>>
    BY <1>1 DEF Invite
  <2>2. v \in Invitation /\ v.org = act[r].org /\ v.email = act[r].email
    BY <1>t DEF Act, Invitation
  <2> HIDE DEF v
  <2>3. NotToOwner(v.org, v.email)
    BY <2>1, <2>2, <1>t DEF ActSound
  <2>4. /\ invite' \in [Invites -> Invitation] /\ invite'[i] = v
        /\ \A j \in Invites \ {i} : invite'[j] = invite[j]
    BY <2>1, <2>2, <1>t DEF AccountTypes
  <2>5. InvitesSound'
    <3> SUFFICES ASSUME NEW j \in Invites, invite'[j].state /= "none"
                 PROVE  NotToOwner(invite[j].org, invite[j].email)'
      BY DEF InvitesSound
    <3>1. PICK w : w = invite'[j]
      OBVIOUS
    <3>2. NotToOwner(w.org, w.email)
      BY <3>1, <2>3, <2>4, <1>n
    <3>3. QED
      BY <3>1, <3>2, <2>1 DEF NotToOwner, Owns
  <2>6. QED
    BY <2>1, <2>4, <2>5, <1>k, <1>s
<1>2. ASSUME NEW role \in Roles, NEW disabled \in BOOLEAN, PatchMember(r, role, disabled) PROVE AccountInv'
  <2> DEFINE row == [role |-> role, disabled |-> disabled]
  <2>1. /\ act[r].pc = "member" /\ member' = [member EXCEPT ![act[r].org][act[r].user] = row] /\ Ends(r)
        /\ role \in {"admin", "agent", member[act[r].org][act[r].user].role}
        /\ UNCHANGED <<email, org, invite, session>>
    BY <1>2 DEF PatchMember
  <2>2. PICK o, u : o = act[r].org /\ u = act[r].user
    OBVIOUS
  <2>3. o \in Orgs /\ u \in Users /\ Belongs(o, u) /\ ~Owns(o, u)
    BY <2>1, <2>2, <1>t DEF ActSound, InHome
  <2>4. o \in org /\ Exists(u)
    BY <2>3, <1>t DEF MembersReal
  <2>5. row \in MemberRow /\ row.role = role /\ role \notin {"none", "owner"}
    BY <2>1, <2>2, <2>3 DEF MemberRow, Roles, Belongs, Owns
  <2> HIDE DEF row
  <2>6. ActSound(done)'
    BY <1>d DEF ActSound, done
  <2>7. QED
    BY <2>1, <2>2, <2>3, <2>4, <2>5, <2>6, <1>d, <1>e, <1>n, <1>t, MemberPut DEF AccountTypes
<1>3. CASE Signup(r)
  <2>1. act[r].pc = "signup" /\ UNCHANGED <<invite, session>>
    BY <1>3 DEF Signup
  <2>2. CASE Taken(act[r].email) \/ act[r].org \in org
    BY <1>3, <2>1, <2>2, <1>k, <1>i, <1>s DEF Signup
  <2>3. CASE ~(Taken(act[r].email) \/ act[r].org \in org)
    <3>1. PICK e, o : e = act[r].email /\ o = act[r].org
      OBVIOUS
    <3>2. /\ email' = [email EXCEPT ![r] = e] /\ org' = org \cup {o}
          /\ member' = [member EXCEPT ![o][r] = Joined("owner")]
          /\ act' = [act EXCEPT ![r] = [act[r] EXCEPT !.pc = "session", !.user = r]]
      BY <1>3, <2>3, <3>1 DEF Signup
    <3>3. e \in Emails /\ o \in Orgs /\ ~Taken(e) /\ o \notin org /\ ~Exists(r)
      BY <2>1, <2>3, <3>1, <1>t DEF ActSound
    <3>4. invite' \in [Invites -> Invitation]
          /\ \A i \in Invites : invite'[i].state /= "none" => NotToOwner(invite'[i].org, invite'[i].email)
      BY <2>1, <1>n, <1>t DEF AccountTypes
    <3>5. QED
      BY <2>1, <3>1, <3>2, <3>3, <3>4, AccountOpened
  <2>4. QED
    BY <2>2, <2>3
<1>4. CASE Accept(r)
  <2> DEFINE row == Joined(act[r].invite.role)
             a == [act[r] EXCEPT !.pc = "move"]
  <2>1. /\ act[r].pc = "accept" /\ member' = [member EXCEPT ![act[r].org][act[r].user] = row]
        /\ invite' = Accepted(act[r]) /\ UNCHANGED <<email, org, session>>
    BY <1>4 DEF Accept
  <2>2. act' = [act EXCEPT ![r] = a]
    BY <1>4 DEF Accept, ActAt
  <2>3. PICK o, u : o = act[r].org /\ u = act[r].user
    OBVIOUS
  <2>4. /\ o \in org /\ o \in Orgs /\ u \in Users /\ ~Owns(o, u) /\ Exists(u)
        /\ NotToOwner(act[r].invite.org, act[r].invite.email)
    <3>1. /\ NotToOwner(act[r].invite.org, act[r].invite.email) /\ u \in Users
          /\ email[u] = act[r].invite.email /\ o = act[r].invite.org
      BY <2>1, <2>3, <1>t DEF ActSound
    <3>2. email[u] \in Emails /\ o \in org
      BY <3>1 DEF NotToOwner
    <3>3. QED
      BY <3>1, <3>2, <1>t, Accounting DEF NotToOwner, Exists, AccountTypes
  <2>5. act[r].invite.role \in {"admin", "agent"}
    BY <1>t DEF Act, Invitation
  <2>6. row \in MemberRow /\ row.role \notin {"none", "owner"}
    BY <2>5, Accounting
  <2> HIDE DEF row
  <2>7. a \in Act /\ a.pc = "move" /\ a.user = u /\ a.org = o
    BY <2>3, <1>t DEF Act, ActPoints
  <2> HIDE DEF a
  <2>8. PICK b \in Act : b = a
    BY <2>7
  <2>9. InHome(u, o)'
    <3>1. member'[o][u] = row
      <4>1. member' = [member EXCEPT ![o][u] = row] /\ member \in Members
        BY <2>1, <2>3, <1>t DEF AccountTypes
      <4>2. QED
        BY <4>1, <2>4, <2>6 DEF Members
    <3>2. QED
      BY <3>1, <2>4, <2>6 DEF InHome, Belongs
  <2>10. ActSound(b)'
    BY <2>7, <2>8, <2>9 DEF ActSound
  <2>11. invite' \in [Invites -> Invitation]
         /\ \A i \in Invites : invite'[i].state /= "none" => NotToOwner(invite'[i].org, invite'[i].email)
    BY <2>1, <2>4, <1>t, AcceptedSound
  <2>12. ~Exists(r)
    BY <2>1, <1>t
  <2>13. act' = [act EXCEPT ![r] = b]
    BY <2>2, <2>8
  <2>14. member' = [member EXCEPT ![o][u] = row]
    BY <2>1, <2>3
  <2>15. QED
    BY <2>1, <2>4, <2>6, <2>10, <2>11, <2>12, <2>13, <2>14, MemberPut
<1>5. CASE MoveSession(r)
  <2>1. act[r].pc = "move" /\ Ends(r) /\ UNCHANGED <<email, org, member, invite>>
    BY <1>5 DEF MoveSession
  <2>2. CASE UNCHANGED session
    BY <2>1, <2>2, <1>k, <1>i, <1>s
  <2>3. ASSUME NEW s \in AccountCalls, session[s].user = act[r].user,
               session' = [session EXCEPT ![s].org = act[r].org]
        PROVE  AccountInv'
    <3>1. PICK o, u : o = act[r].org /\ u = act[r].user
      OBVIOUS
    <3>2. InHome(u, o)
      BY <2>1, <3>1, <1>t DEF ActSound
    <3> DEFINE row == [session[s] EXCEPT !.org = o]
    <3>3. session[s] \in SessionRow
      BY <1>t DEF AccountTypes
    <3>4. row \in SessionRow /\ row.user = u /\ row.org = o
      BY <2>3, <3>1, <3>2, <3>3 DEF SessionRow, InHome
    <3>5. session' = [session EXCEPT ![s] = row]
      BY <2>3, <3>1
    <3> HIDE DEF row
    <3>6. /\ session' \in [AccountCalls -> SessionRow] /\ session'[s] = row
          /\ \A q \in AccountCalls \ {s} : session'[q] = session[q]
      BY <3>4, <3>5, <1>t DEF AccountTypes
    <3>7. SessionsSound'
      <4> SUFFICES ASSUME NEW q \in AccountCalls
                   PROVE  session'[q] = NoSession \/ InHome(session[q].user, session[q].org)'
        BY DEF SessionsSound
      <4>1. PICK w : w = session'[q]
        OBVIOUS
      <4>2. w = NoSession \/ InHome(w.user, w.org)
        BY <4>1, <3>2, <3>4, <3>6, <1>t DEF SessionsSound
      <4>3. QED
        BY <4>1, <4>2, <2>1 DEF InHome, Belongs
    <3>8. QED
      BY <2>1, <3>6, <3>7, <1>k, <1>i
  <2>4. QED
    BY <1>5, <2>2, <2>3 DEF MoveSession
<1>6. CASE AcceptNew(r)
  <2>1. act[r].pc = "acceptNew" /\ UNCHANGED <<org, session>>
    BY <1>6 DEF AcceptNew
  <2>2. CASE Taken(act[r].invite.email)
    BY <1>6, <2>1, <2>2, <1>k, <1>i, <1>s DEF AcceptNew
  <2>3. CASE ~Taken(act[r].invite.email)
    <3>1. PICK e, o, role : e = act[r].invite.email /\ o = act[r].org /\ role = act[r].invite.role
      OBVIOUS
    <3>2. /\ email' = [email EXCEPT ![r] = e] /\ member' = [member EXCEPT ![o][r] = Joined(role)]
          /\ invite' = Accepted(act[r])
          /\ act' = [act EXCEPT ![r] = [act[r] EXCEPT !.pc = "session", !.user = r]]
      BY <1>6, <2>3, <3>1 DEF AcceptNew
    <3>3. /\ NotToOwner(act[r].invite.org, act[r].invite.email) /\ o = act[r].invite.org /\ ~Exists(r)
      BY <2>1, <3>1, <1>t DEF ActSound
    <3>4. e \in Emails /\ o \in org /\ o \in Orgs /\ ~Taken(e) /\ org' = org \cup {o}
      BY <2>1, <2>3, <3>1, <3>3, <1>t DEF NotToOwner, AccountTypes
    <3>5. role \in {"admin", "agent"}
      BY <3>1, <1>t DEF Act, Invitation
    <3>6. invite' \in [Invites -> Invitation]
          /\ \A i \in Invites : invite'[i].state /= "none" => NotToOwner(invite'[i].org, invite'[i].email)
      BY <3>2, <3>3, <1>t, AcceptedSound
    <3>7. QED
      BY <2>1, <3>1, <3>2, <3>3, <3>4, <3>5, <3>6, AccountOpened
  <2>4. QED
    BY <2>2, <2>3
<1>7. CASE OpenSession(r)
  <2> DEFINE row == [user |-> act[r].user, org |-> act[r].org]
  <2>1. /\ act[r].pc = "session" /\ session' = [session EXCEPT ![r] = row] /\ Ends(r)
        /\ UNCHANGED <<email, org, member, invite>>
    BY <1>7 DEF OpenSession
  <2>2. row \in SessionRow /\ row.user = act[r].user /\ row.org = act[r].org
    BY <1>t DEF Act, SessionRow
  <2> HIDE DEF row
  <2>3. InHome(row.user, row.org)
    BY <2>1, <2>2, <1>t DEF ActSound
  <2>4. /\ session' \in [AccountCalls -> SessionRow] /\ session'[r] = row
        /\ \A q \in AccountCalls \ {r} : session'[q] = session[q]
    BY <2>1, <2>2, <1>t DEF AccountTypes
  <2>5. SessionsSound'
    <3> SUFFICES ASSUME NEW q \in AccountCalls
                 PROVE  session'[q] = NoSession \/ InHome(session[q].user, session[q].org)'
      BY DEF SessionsSound
    <3>1. PICK w : w = session'[q]
      OBVIOUS
    <3>2. w = NoSession \/ InHome(w.user, w.org)
      BY <3>1, <2>3, <2>4, <1>t DEF SessionsSound
    <3>3. QED
      BY <3>1, <3>2, <2>1 DEF InHome, Belongs
  <2>6. QED
    BY <2>1, <2>4, <2>5, <1>k, <1>i
<1>8. CASE ActDies(r)
  BY <1>8, <1>k, <1>i, <1>s DEF ActDies
<1>9. QED
  BY <1>1, <1>2, <1>3, <1>4, <1>5, <1>6, <1>7, <1>8 DEF ActStep

\* Nothing but invitations or sessions changes.
LEMMA QuietStep ==
  ASSUME AccountInv, UNCHANGED <<email, org, member, act>>,
         invite' \in [Invites -> Invitation], InvitesSound',
         session' \in [AccountCalls -> SessionRow], SessionsSound'
  PROVE  AccountInv'
BY ZenonT(60) DEF AccountInv, AccountTypes, MembersReal, OwnersThere, ActsSound, ActSound, NotToOwner, InHome,
       Belongs, Owns, OneAccountPerEmail, UserHasHome, Exists

LEMMA AccountInvStep == AccountInv /\ [AccountNext]_accountVars => AccountInv'
<1> SUFFICES ASSUME AccountInv, [AccountNext]_accountVars PROVE AccountInv'
  OBVIOUS
<1>t. AccountTypes /\ InvitesSound /\ SessionsSound
  BY DEF AccountInv
<1>i. UNCHANGED <<email, org, member, invite>> => InvitesSound' /\ invite' \in [Invites -> Invitation]
  BY <1>t DEF InvitesSound, NotToOwner, Owns, AccountTypes
<1>s. UNCHANGED <<member, session>> => SessionsSound' /\ session' \in [AccountCalls -> SessionRow]
  BY <1>t DEF SessionsSound, InHome, Belongs, AccountTypes
<1>1. ASSUME NEW r \in AccountCalls, StartAct(r) \/ ActStep(r) PROVE AccountInv'
  BY <1>1, StartKeeps, ActKeeps
<1>2. ASSUME NEW i \in Invites, ExpireInvite(i) PROVE AccountInv'
  <2> DEFINE v == [invite[i] EXCEPT !.state = "gone"]
  <2>1. /\ invite[i].state = "open" /\ invite' = [invite EXCEPT ![i] = v]
        /\ UNCHANGED <<email, org, member, session, act>>
    BY <1>2 DEF ExpireInvite
  <2>2. v \in Invitation /\ v.org = invite[i].org /\ v.email = invite[i].email
    BY <1>t DEF AccountTypes, Invitation
  <2> HIDE DEF v
  <2>3. /\ invite' \in [Invites -> Invitation] /\ invite'[i] = v
        /\ \A j \in Invites \ {i} : invite'[j] = invite[j]
    BY <2>1, <2>2, <1>t DEF AccountTypes
  <2>4. InvitesSound'
    BY <2>1, <2>2, <2>3, <1>t DEF InvitesSound, NotToOwner, Owns
  <2>5. QED
    BY <2>1, <2>3, <2>4, <1>s, QuietStep
<1>3. ASSUME NEW gone \in SUBSET {s \in AccountCalls : session[s] /= NoSession}, EndSessions(gone) PROVE AccountInv'
  <2>1. /\ session' = [s \in AccountCalls |-> IF s \in gone THEN NoSession ELSE session[s]]
        /\ UNCHANGED <<email, org, member, invite, act>>
    BY <1>3 DEF EndSessions
  <2>2. session' \in [AccountCalls -> SessionRow]
    BY <2>1, <1>t, Accounting DEF AccountTypes
  <2>3. SessionsSound'
    BY <2>1, <1>t DEF SessionsSound, InHome, Belongs
  <2>4. QED
    BY <2>1, <2>2, <2>3, <1>i, QuietStep
<1>4. CASE UNCHANGED accountVars
  BY <1>4, <1>i, <1>s, QuietStep DEF accountVars
<1>5. QED
  BY <1>1, <1>2, <1>3, <1>4 DEF AccountNext

LEMMA AccountsHoldInv == AccountSpec => []AccountInv
  BY AccountInvInit, AccountInvStep, PTL DEF AccountSpec

\* Theorem: a workspace keeps its owner, an address has one account, an account
\* has a workspace and a session stands in one, however sign-ups, invitations,
\* changes of members and sessions overlap.
THEOREM AccountsStayWhole == AccountSpec => [](AccountTypeOK /\ AccountsWhole)
<1>1. AccountInv => AccountTypeOK /\ AccountsWhole
  <2> SUFFICES ASSUME AccountInv PROVE AccountTypeOK /\ AccountsWhole
    OBVIOUS
  <2>t. AccountTypes /\ MembersReal /\ OwnersThere /\ SessionsSound /\ org \subseteq Orgs
    BY DEF AccountInv, AccountTypes
  <2>1. \A o \in Orgs, u \in Users : member[o][u] \in MemberRow
    BY <2>t DEF AccountTypes, Members
  <2>2. \A o \in Orgs, u \in Users : member[o][u].role \in Roles \cup {"none"}
    BY <2>1 DEF MemberRow, Roles
  <2>3. \A o \in Orgs \ org, u \in Users : member[o][u] = NotMember
    BY <2>t DEF MembersReal
  <2>4. OwnerStays
    BY <2>t DEF OwnersThere, OwnerStays, Owns, Active, MembersReal
  <2>5. SessionAtHome
    BY <2>t DEF SessionsSound, SessionAtHome, InHome, Belongs
  <2>6. QED
    BY <2>2, <2>3, <2>4, <2>5, <2>t DEF AccountInv, AccountTypes, AccountTypeOK, AccountsWhole
<1>2. QED
  BY <1>1, AccountsHoldInv, PTL

(***************************************************************************)
(* The unsent reply of an agent.  Two things keep a sent text away.  One   *)
(* that was not on a screen while reply and note were switched is written  *)
(* at most once, by the tab it was typed in: it waits in that tab's timer  *)
(* or in its chain until then, and nobody else can have got hold of it     *)
(* meanwhile.  One that no screen took from the server may be written many *)
(* times, but by the one tab that holds it, and the clear of that tab      *)
(* takes it off the screen and waits for the part of the chain that can    *)
(* still hold it.                                                          *)
(***************************************************************************)
DraftRow == [text : 0 .. LastEdit, revision : Nat \ {0}]

Sent == [ticket : Tickets, text : Texts] \cup {NoSend}
Entry == [ticket : Tickets, text : 0 .. LastEdit]

TabRow ==
  [open : Tickets, body : 0 .. LastEdit, edited : BOOLEAN, hydrated : BOOLEAN,
   got : DraftRow \cup {NoDraft}, load : {"none", "asked", "answered"}, timer : BOOLEAN,
   revision : [Tickets -> Nat], writes : Seq(Entry),
   put : {"send", "again", "conflict", "write"}, next : Nat, sending : Sent,
   clearing : Sent, ahead : Nat]

DraftTypes ==
  /\ draft \in [Tickets -> DraftRow \cup {NoDraft}]
  /\ tab \in [Tabs -> TabRow]
  /\ edits \in 0 .. LastEdit
  /\ sentAway \subseteq Tickets \X Texts
  /\ toggled \subseteq Texts /\ reopened \subseteq Texts

\* A chain is in step with itself: what is on the wire is its head, a row has a
\* revision, a timer runs for an edited screen, and a clear ends the sending.
ChainSound ==
  \A p \in Tabs :
    /\ tab[p].put /= "send" => tab[p].writes /= <<>>
    /\ tab[p].put = "write" => tab[p].next > 0
    /\ tab[p].ahead <= Len(tab[p].writes)
    /\ tab[p].timer => tab[p].edited
    /\ tab[p].sending = NoSend \/ tab[p].clearing = NoSend

\* Texts are those of edits made so far.
Known ==
  /\ \A t \in Tickets : Stored(t) => draft[t].text <= edits
  /\ \A e \in sentAway : e[2] <= edits
  /\ \A p \in Tabs :
       /\ tab[p].body <= edits /\ tab[p].sending.text <= edits /\ tab[p].clearing.text <= edits
       /\ tab[p].got /= NoDraft => tab[p].got.text <= edits
       /\ \A i \in 1 .. Len(tab[p].writes) : tab[p].writes[i].text <= edits

\* Text k has yet to be written by tab p: its timer runs, or it is in the chain.
Timed(p, k) == tab[p].timer /\ tab[p].body = k
Chained(p, k) == \E i \in 1 .. Len(tab[p].writes) : tab[p].writes[i].text = k
Pending(p, k) == Timed(p, k) \/ Chained(p, k)

\* A text that was never switched between reply and note has one place to be
\* written from ...
OnePlace ==
  \A p \in Tabs :
    /\ \A i, j \in 1 .. Len(tab[p].writes) :
         tab[p].writes[i].text = tab[p].writes[j].text /\ tab[p].writes[i].text \in Texts \ toggled
           => i = j
    /\ tab[p].timer /\ tab[p].body \in Texts \ toggled => ~Chained(p, tab[p].body)

\* ... and until then no other tab, no row and no sent reply has it; the clear of
\* the tab itself waits for it.
NobodyElse(k) ==
  /\ \A t \in Tickets : Stored(t) => draft[t].text /= k
  /\ \A e \in sentAway : e[2] /= k
  /\ \A p \in Tabs : tab[p].got /= NoDraft => tab[p].got.text /= k

Holds(p, k) ==
  \/ tab[p].body = k \/ tab[p].sending.text = k \/ tab[p].clearing.text = k
  \/ Chained(p, k)

ClearWaits(p, k) ==
  tab[p].clearing.text = k =>
    /\ ~Timed(p, k)
    /\ \A i \in 1 .. Len(tab[p].writes) : tab[p].writes[i].text = k => i <= tab[p].ahead

PendingAlone ==
  \A p \in Tabs, k \in Texts \ toggled : Pending(p, k) =>
    /\ NobodyElse(k)
    /\ \A q \in Tabs : q /= p => ~Holds(q, k)
    /\ ClearWaits(p, k)

\* A text that no screen took from the server is held by one tab, whose clear has
\* it off the screen, and by none once it was sent away.
ClearsAll(p, k) ==
  tab[p].clearing.text = k =>
    /\ tab[p].body /= k /\ tab[p].sending.text /= k
    /\ \A i \in 1 .. Len(tab[p].writes) : tab[p].writes[i].text = k => i <= tab[p].ahead

HeldByOne ==
  \A k \in Texts \ reopened :
    /\ \A p, q \in Tabs : Holds(p, k) /\ Holds(q, k) => p = q
    /\ \A p \in Tabs : ClearsAll(p, k)
    /\ \A e \in sentAway : e[2] = k => \A q \in Tabs : ~Holds(q, k)

DraftInv ==
  /\ DraftTypes /\ ChainSound /\ Known
  /\ OnePlace /\ PendingAlone /\ HeldByOne /\ SentStaysAway

LEMMA TextsTyped ==
  /\ Texts \subseteq Nat /\ 0 \notin Texts /\ 0 .. LastEdit = Texts \cup {0} /\ LastEdit \in Nat
  /\ DraftRow \subseteq [text : Nat, revision : Nat] /\ NoDraft \notin DraftRow
  /\ NoSend.text = 0
<1>1. Texts \subseteq Nat /\ 0 \notin Texts /\ 0 .. LastEdit = Texts \cup {0} /\ LastEdit \in Nat
  BY DraftsAssumption DEF Texts
<1>2. DraftRow \subseteq [text : Nat, revision : Nat]
  BY <1>1 DEF DraftRow
<1> QED BY <1>1, <1>2, DraftsAssumption DEF NoSend

LEMMA EntryOf ==
  ASSUME NEW S, NEW s \in Seq(S), NEW i \in 1 .. Len(s)
  PROVE  s[i] \in S
  OBVIOUS

\* What a tab holds, field by field.
LEMMA TabFields ==
  ASSUME DraftTypes, NEW p \in Tabs
  PROVE  /\ tab[p] \in TabRow
         /\ tab[p].open \in Tickets /\ tab[p].body \in 0 .. LastEdit
         /\ tab[p].timer \in BOOLEAN /\ tab[p].edited \in BOOLEAN
         /\ tab[p].got \in DraftRow \cup {NoDraft}
         /\ tab[p].revision \in [Tickets -> Nat]
         /\ tab[p].writes \in Seq(Entry)
         /\ tab[p].next \in Nat /\ tab[p].ahead \in Nat
         /\ tab[p].sending \in Sent /\ tab[p].clearing \in Sent
         /\ tab[p].sending.text \in 0 .. LastEdit /\ tab[p].clearing.text \in 0 .. LastEdit
         /\ \A i \in 1 .. Len(tab[p].writes) :
              tab[p].writes[i].text \in 0 .. LastEdit /\ tab[p].writes[i].ticket \in Tickets
<1>1. tab[p] \in TabRow
  BY DEF DraftTypes
<1>2. /\ tab[p].writes \in Seq(Entry)
      /\ tab[p].sending \in Sent /\ tab[p].clearing \in Sent
  BY <1>1 DEF TabRow
<1>3. \A x \in Sent : x.text \in 0 .. LastEdit
  BY TextsTyped DEF Sent, NoSend
<1>4. \A i \in 1 .. Len(tab[p].writes) : tab[p].writes[i] \in Entry
  BY <1>2, EntryOf
<1> QED BY <1>1, <1>2, <1>3, <1>4 DEF TabRow, Entry

LEMMA DraftsStart == DraftsInit => DraftInv
<1> SUFFICES ASSUME DraftsInit PROVE DraftInv
  OBVIOUS
<1>1. \A p \in Tabs : \E t \in Tickets : tab[p] = FreshTab(t)
  BY DEF DraftsInit
<1>2. \A t \in Tickets : FreshTab(t) \in TabRow
  <2> SUFFICES ASSUME NEW t \in Tickets PROVE FreshTab(t) \in TabRow
    OBVIOUS
  <2>1. [u \in Tickets |-> 0] \in [Tickets -> Nat]
    OBVIOUS
  <2>2. <<>> \in Seq(Entry) /\ 0 \in 0 .. LastEdit /\ NoSend \in Sent
    BY TextsTyped DEF Sent
  <2> QED BY <2>1, <2>2 DEF FreshTab, TabRow
<1>3. /\ DOMAIN tab = Tabs /\ tab = [p \in Tabs |-> tab[p]]
  BY DEF DraftsInit
<1>4. tab \in [Tabs -> TabRow]
  BY <1>1, <1>2, <1>3
<1>5. DraftTypes
  BY <1>4, DraftsAssumption DEF DraftsInit, DraftTypes
<1>6. /\ \A t \in Tickets : ~Stored(t)
      /\ sentAway = {} /\ edits = 0 /\ toggled = {} /\ reopened = {}
  BY DEF DraftsInit, Stored
<1>7. \A p \in Tabs : /\ tab[p].writes = <<>> /\ ~tab[p].timer /\ tab[p].body = 0
                      /\ tab[p].got = NoDraft /\ tab[p].put = "send" /\ tab[p].ahead = 0
                      /\ tab[p].sending = NoSend /\ tab[p].clearing = NoSend
  <2>1. \A t \in Tickets :
          /\ FreshTab(t).writes = <<>> /\ ~FreshTab(t).timer /\ FreshTab(t).body = 0
          /\ FreshTab(t).got = NoDraft /\ FreshTab(t).put = "send" /\ FreshTab(t).ahead = 0
          /\ FreshTab(t).sending = NoSend /\ FreshTab(t).clearing = NoSend
    BY DEF FreshTab
  <2> QED BY <1>1, <2>1, TextsTyped
<1>8. \A p \in Tabs : Len(tab[p].writes) = 0
  BY <1>7
<1>9. \A p \in Tabs, k \in Texts : ~Pending(p, k) /\ ~Chained(p, k) /\ ~Holds(p, k)
  BY <1>7, <1>8, TextsTyped DEF Pending, Timed, Chained, Holds
<1>10. ChainSound
  BY <1>7, <1>8 DEF ChainSound
<1>11. Known
  BY <1>6, <1>7, <1>8, TextsTyped DEF Known
<1>12. OnePlace
  BY <1>7, <1>8 DEF OnePlace
<1>13. PendingAlone /\ SentStaysAway
  BY <1>6, <1>9 DEF PendingAlone, SentStaysAway
<1>14. HeldByOne
  <2>1. \A p \in Tabs, k \in Texts : ClearsAll(p, k)
    BY <1>7, TextsTyped DEF ClearsAll
  <2> QED BY <1>6, <1>9, <2>1 DEF HeldByOne
<1> QED BY <1>5, <1>10, <1>11, <1>12, <1>13, <1>14 DEF DraftInv

(***************************************************************************)
(* A step of tab p that types nothing new.                                 *)
(***************************************************************************)
\* Each text comes from where the tab could have it, a text is stored or sent away
\* only once it is not to be written any more, and a clear waits for its own.
OthersKept(p) == \A q \in Tabs : q /= p => tab'[q] = tab[q]

Gentle(p) ==
  /\ OthersKept(p) /\ toggled \subseteq toggled'
  /\ \A k \in Texts \ toggled' :
       /\ Pending(p, k)' => Pending(p, k) /\ ClearWaits(p, k)'
       /\ tab'[p].body = k =>
            tab[p].body = k \/ (tab[p].got /= NoDraft /\ tab[p].got.text = k)
       /\ tab'[p].sending.text = k => tab[p].sending.text = k \/ tab[p].body = k
       /\ tab'[p].clearing.text = k => tab[p].clearing.text = k \/ tab[p].sending.text = k
       /\ tab'[p].got /= NoDraft /\ tab'[p].got.text = k =>
            \/ tab[p].got /= NoDraft /\ tab[p].got.text = k
            \/ \E t \in Tickets : Stored(t) /\ draft[t].text = k
       /\ \A t \in Tickets : Stored(t)' /\ draft'[t].text = k =>
            (Stored(t) /\ draft[t].text = k) \/ (Chained(p, k) /\ ~Pending(p, k)')
       /\ \A e \in sentAway' : e[2] = k =>
            e \in sentAway \/ (tab[p].clearing.text = k /\ ~Pending(p, k)')

\* The tab holds nothing it did not hold, what it clears is off its screen, and
\* what it sent away it has no more.
HoldsNoMore(p) ==
  /\ OthersKept(p) /\ reopened \subseteq reopened'
  /\ \A k \in Texts \ reopened' :
       /\ Holds(p, k)' => Holds(p, k)
       /\ ClearsAll(p, k)'
       /\ \A e \in sentAway' : e[2] = k =>
            e \in sentAway \/ (Holds(p, k) /\ ~Holds(p, k)')

LEMMA HeldKept ==
  ASSUME DraftInv, NEW p \in Tabs, HoldsNoMore(p)
  PROVE  HeldByOne'
<1> SUFFICES ASSUME NEW k \in Texts \ reopened'
             PROVE  /\ \A u, q \in Tabs : Holds(u, k)' /\ Holds(q, k)' => u = q
                    /\ \A q \in Tabs : ClearsAll(q, k)'
                    /\ \A e \in sentAway' : e[2] = k => \A q \in Tabs : ~Holds(q, k)'
  BY DEF HeldByOne
<1>1. \A q \in Tabs : q /= p => /\ Holds(q, k)' <=> Holds(q, k)
                                /\ ClearsAll(q, k)' <=> ClearsAll(q, k)
  BY DEF HoldsNoMore, OthersKept, Holds, Chained, ClearsAll
<1>2. /\ \A u, q \in Tabs : Holds(u, k) /\ Holds(q, k) => u = q
      /\ \A q \in Tabs : ClearsAll(q, k)
      /\ \A e \in sentAway : e[2] = k => \A q \in Tabs : ~Holds(q, k)
  BY DEF DraftInv, HeldByOne, HoldsNoMore
<1>3. /\ Holds(p, k)' => Holds(p, k)
      /\ ClearsAll(p, k)'
      /\ \A e \in sentAway' : e[2] = k => e \in sentAway \/ (Holds(p, k) /\ ~Holds(p, k)')
  BY DEF HoldsNoMore
<1>4. \A q \in Tabs : Holds(q, k)' => Holds(q, k)
  BY <1>1, <1>3
<1>5. ASSUME NEW e \in sentAway', e[2] = k, NEW q \in Tabs PROVE ~Holds(q, k)'
  <2>1. CASE e \in sentAway
    BY <1>2, <1>4, <1>5, <2>1
  <2>2. CASE Holds(p, k) /\ ~Holds(p, k)'
    BY <1>1, <1>2, <2>2
  <2> QED BY <1>3, <1>5, <2>1, <2>2
<1> QED BY <1>1, <1>2, <1>3, <1>4, <1>5

LEMMA AloneKept ==
  ASSUME DraftInv, NEW p \in Tabs, Gentle(p)
  PROVE  PendingAlone'
<1> SUFFICES ASSUME NEW r \in Tabs, NEW k \in Texts \ toggled', Pending(r, k)'
             PROVE  /\ NobodyElse(k)'
                    /\ \A q \in Tabs : q /= r => ~Holds(q, k)'
                    /\ ClearWaits(r, k)'
  BY DEF PendingAlone
<1>0. /\ \A q \in Tabs : q /= p => tab'[q] = tab[q]
      /\ \A q \in Tabs : q /= p => /\ Pending(q, k)' <=> Pending(q, k)
                                   /\ Chained(q, k)' <=> Chained(q, k)
                                   /\ ClearWaits(q, k)' <=> ClearWaits(q, k)
                                   /\ Holds(q, k)' <=> Holds(q, k)
  BY DEF Gentle, OthersKept, Pending, Timed, Chained, ClearWaits, Holds
<1>1. Pending(r, k) /\ k \in Texts \ toggled
  BY <1>0 DEF Gentle
<1>2. /\ NobodyElse(k) /\ ClearWaits(r, k)
      /\ \A q \in Tabs : q /= r => ~Holds(q, k)
  BY <1>1 DEF DraftInv, PendingAlone
<1>3. r /= p => /\ tab[p].body /= k /\ tab[p].sending.text /= k /\ tab[p].clearing.text /= k
                /\ ~Chained(p, k) /\ ~Pending(p, k)
  BY <1>2 DEF Holds, Pending, Timed
<1>4. \A t \in Tickets : ~(Stored(t)' /\ draft'[t].text = k)
  BY <1>2, <1>3 DEF Gentle, NobodyElse
<1>5. \A e \in sentAway' : e[2] /= k
  BY <1>2, <1>3 DEF Gentle, NobodyElse
<1>6. \A q \in Tabs : ~(tab'[q].got /= NoDraft /\ tab'[q].got.text = k)
  BY <1>0, <1>2 DEF Gentle, NobodyElse
<1>7. NobodyElse(k)'
  BY <1>4, <1>5, <1>6 DEF NobodyElse
<1>8. ASSUME NEW q \in Tabs, q /= r PROVE ~Holds(q, k)'
  <2>1. CASE q /= p
    BY <1>0, <1>2, <1>8, <2>1
  <2>2. CASE q = p
    <3>1. ~Pending(p, k)'
      BY <1>3, <1>8, <2>2 DEF Gentle
    <3>2. tab'[p].body /= k /\ tab'[p].sending.text /= k /\ tab'[p].clearing.text /= k
      BY <1>2, <1>3, <1>8, <2>2 DEF Gentle, NobodyElse
    <3> QED BY <2>2, <3>1, <3>2 DEF Holds, Pending
  <2> QED BY <2>1, <2>2
<1>9. ClearWaits(r, k)'
  BY <1>0, <1>2 DEF Gentle
<1> QED BY <1>7, <1>8, <1>9

(***************************************************************************)
(* A step that leaves the chain as it is.                                  *)
(***************************************************************************)
LEMMA PutTab ==
  ASSUME DraftTypes, NEW p \in Tabs, NEW r \in TabRow, tab' = [tab EXCEPT ![p] = r]
  PROVE  /\ tab' \in [Tabs -> TabRow] /\ tab'[p] = r
         /\ \A q \in Tabs : q /= p => tab'[q] = tab[q]
  BY DEF DraftTypes

\* A text a clear waits for is not to be written any more once the clear's turn
\* has come.
LEMMA ClearTurn ==
  ASSUME DraftInv, NEW p \in Tabs, NEW k \in Texts \ toggled, tab[p].clearing.text = k,
         tab[p].ahead = 0
  PROVE  ~Pending(p, k)
<1> SUFFICES ASSUME Pending(p, k) PROVE FALSE
  OBVIOUS
<1>1. ~Timed(p, k) /\ \A i \in 1 .. Len(tab[p].writes) : tab[p].writes[i].text = k => i <= 0
  BY DEF DraftInv, PendingAlone, ClearWaits
<1> QED BY <1>1 DEF Pending, Chained

\* The screen, the send, the clear and the answer of a load change; the chain and
\* the rows do not, but for rows that go.  A timer that is set is for a text that
\* was switched, or for none; a text comes on the screen from the server.
Screen(p, r) ==
  /\ r.writes = tab[p].writes
  /\ r.timer => /\ r.edited
                /\ r.body \in toggled' \cup {0} \/ (tab[p].timer /\ r.body = tab[p].body)
  /\ r.put /= "send" => r.writes /= <<>>
  /\ r.put = "write" => r.next > 0
  /\ \/ r.body \in {0, tab[p].body}
     \/ tab[p].got /= NoDraft /\ r.body = tab[p].got.text /\ r.body \in reopened' \cup {0}
  /\ \/ r.got = tab[p].got
     \/ r.got = NoDraft
     \/ \E t \in Tickets : Stored(t) /\ r.got = draft[t]

\* What becomes of a send and of its clear.
Sends(p, r) ==
  \/ r.sending \in {NoSend, tab[p].sending} /\ r.clearing = tab[p].clearing /\ r.ahead = tab[p].ahead
  \/ /\ r.sending.text = tab[p].body
     /\ tab[p].clearing = NoSend /\ r.clearing = NoSend /\ r.ahead = tab[p].ahead
  \/ /\ r.sending = NoSend /\ r.clearing = tab[p].sending /\ r.ahead = Len(tab[p].writes)
     /\ ~r.timer /\ r.body = 0
  \/ r.sending = tab[p].sending /\ r.clearing = NoSend /\ r.ahead = tab[p].ahead

ScreenStep(p, r) ==
  /\ tab' = [tab EXCEPT ![p] = r]
  /\ edits' \in 0 .. LastEdit /\ edits <= edits'
  /\ toggled \subseteq toggled' /\ toggled' \subseteq Texts
  /\ reopened \subseteq reopened' /\ reopened' \subseteq Texts
  /\ Screen(p, r) /\ Sends(p, r)
  /\ draft' \in [Tickets -> DraftRow \cup {NoDraft}]
  /\ \A t \in Tickets : Stored(t)' => Stored(t) /\ draft'[t] = draft[t]
  /\ sentAway' \subseteq Tickets \X Texts
  /\ \A e \in sentAway' :
       \/ e \in sentAway
       \/ tab[p].clearing.text = e[2] /\ tab[p].ahead = 0 /\ r.clearing = NoSend
  /\ SentStaysAway'

LEMMA ScreenKeeps ==
  ASSUME DraftInv, NEW p \in Tabs, NEW r \in TabRow, ScreenStep(p, r)
  PROVE  DraftInv'
<1>0. DraftTypes /\ ChainSound /\ Known /\ OnePlace /\ PendingAlone /\ HeldByOne
  BY DEF DraftInv
<1>1. /\ tab' \in [Tabs -> TabRow] /\ tab'[p] = r
      /\ \A q \in Tabs : q /= p => tab'[q] = tab[q]
  BY <1>0, PutTab DEF ScreenStep
<1>2. DraftTypes'
  BY <1>0, <1>1 DEF ScreenStep, DraftTypes
<1>3. /\ tab[p].ahead <= Len(tab[p].writes) /\ Len(tab[p].writes) \in Nat
      /\ tab[p].sending = NoSend \/ tab[p].clearing = NoSend
      /\ NoSend.text = 0 /\ 0 \notin Texts
  BY <1>0, TabFields, TextsTyped DEF ChainSound
<1>4. ChainSound'
  <2> SUFFICES ASSUME NEW q \in Tabs
               PROVE  /\ tab'[q].put /= "send" => tab'[q].writes /= <<>>
                      /\ tab'[q].put = "write" => tab'[q].next > 0
                      /\ tab'[q].ahead <= Len(tab'[q].writes)
                      /\ tab'[q].timer => tab'[q].edited
                      /\ tab'[q].sending = NoSend \/ tab'[q].clearing = NoSend
    BY DEF ChainSound
  <2>1. CASE q /= p
    BY <1>0, <1>1, <2>1 DEF ChainSound
  <2>2. CASE q = p
    <3>1. r.ahead <= Len(r.writes) /\ (r.sending = NoSend \/ r.clearing = NoSend)
      BY <1>3 DEF ScreenStep, Screen, Sends
    <3> QED BY <1>1, <2>2, <3>1 DEF ScreenStep, Screen
  <2> QED BY <2>1, <2>2
<1>5. edits \in Nat /\ edits' \in Nat /\ edits <= edits'
  BY <1>0, TextsTyped DEF DraftTypes, ScreenStep
<1>6. Known'
  <2>0. ASSUME NEW v \in 0 .. LastEdit, v <= edits PROVE v <= edits'
    BY <1>5, <2>0, TextsTyped
  <2>1. ASSUME NEW t \in Tickets, Stored(t)' PROVE draft'[t].text <= edits'
    <3>1. Stored(t) /\ draft'[t] = draft[t] /\ draft[t] \in DraftRow
      BY <1>0, <2>1 DEF ScreenStep, DraftTypes, Stored
    <3> QED BY <1>0, <2>0, <3>1 DEF Known, DraftRow
  <2>2. ASSUME NEW q \in Tabs
        PROVE  /\ tab[q].body <= edits' /\ tab[q].sending.text <= edits'
               /\ tab[q].clearing.text <= edits'
               /\ tab[q].got /= NoDraft => tab[q].got.text <= edits'
               /\ \A i \in 1 .. Len(tab[q].writes) : tab[q].writes[i].text <= edits'
    <3>1. tab[q].got /= NoDraft => tab[q].got.text \in 0 .. LastEdit
      BY <1>0, TabFields DEF DraftRow
    <3> QED BY <1>0, <2>0, <3>1, TabFields DEF Known
  <2>3. ASSUME NEW e \in sentAway' PROVE e[2] <= edits'
    <3>1. e[2] \in 0 .. LastEdit
      BY <2>3, TextsTyped DEF ScreenStep
    <3>2. e \in sentAway \/ tab[p].clearing.text = e[2]
      BY <2>3 DEF ScreenStep
    <3>3. e[2] <= edits
      BY <1>0, <3>2 DEF Known
    <3> QED BY <2>0, <3>1, <3>3
  <2>4. ASSUME NEW q \in Tabs
        PROVE  /\ tab'[q].body <= edits' /\ tab'[q].sending.text <= edits'
               /\ tab'[q].clearing.text <= edits'
               /\ tab'[q].got /= NoDraft => tab'[q].got.text <= edits'
               /\ \A i \in 1 .. Len(tab'[q].writes) : tab'[q].writes[i].text <= edits'
    <3>1. CASE q /= p
      BY <1>1, <2>2, <2>4, <3>1
    <3>2. CASE q = p
      <4>1. r.body <= edits'
        BY <1>5, <2>2 DEF ScreenStep, Screen
      <4>2. r.sending.text <= edits' /\ r.clearing.text <= edits'
        BY <1>3, <1>5, <2>2 DEF ScreenStep, Sends
      <4>3. r.got /= NoDraft => r.got.text <= edits'
        <5>1. ASSUME NEW t \in Tickets, Stored(t) PROVE draft[t].text <= edits'
          <6>1. draft[t].text \in 0 .. LastEdit
            BY <1>0, <5>1 DEF DraftTypes, Stored, DraftRow
          <6> QED BY <1>0, <2>0, <5>1, <6>1 DEF Known
        <5> QED BY <2>2, <5>1 DEF ScreenStep, Screen
      <4>4. \A i \in 1 .. Len(r.writes) : r.writes[i].text <= edits'
        BY <2>2 DEF ScreenStep, Screen
      <4> QED BY <1>1, <3>2, <4>1, <4>2, <4>3, <4>4
    <3> QED BY <3>1, <3>2
  <2> QED BY <2>1, <2>3, <2>4 DEF Known
<1>7. /\ \A k \in Texts : Chained(p, k)' <=> Chained(p, k)
      /\ \A k \in Texts \ toggled' : Timed(p, k)' => Timed(p, k)
      /\ \A k \in Texts \ toggled' : Pending(p, k)' => Pending(p, k)
  BY <1>1, <1>3 DEF ScreenStep, Screen, Pending, Chained, Timed
<1>8. OnePlace'
  <2> SUFFICES ASSUME NEW q \in Tabs
               PROVE  /\ \A i, j \in 1 .. Len(tab'[q].writes) :
                           /\ tab'[q].writes[i].text = tab'[q].writes[j].text
                           /\ tab'[q].writes[i].text \in Texts \ toggled'
                           => i = j
                      /\ tab'[q].timer /\ tab'[q].body \in Texts \ toggled' =>
                           ~\E i \in 1 .. Len(tab'[q].writes) : tab'[q].writes[i].text = tab'[q].body
    BY DEF OnePlace, Chained
  <2>0. toggled \subseteq toggled'
    BY DEF ScreenStep
  <2>1. CASE q /= p
    BY <1>0, <1>1, <2>0, <2>1 DEF OnePlace, Chained
  <2>2. CASE q = p
    <3>1. r.timer /\ r.body \in Texts \ toggled' => tab[p].timer /\ r.body = tab[p].body
      BY <1>3 DEF ScreenStep, Screen
    <3>2. r.writes = tab[p].writes
      BY DEF ScreenStep, Screen
    <3> QED BY <1>0, <1>1, <2>0, <2>2, <3>1, <3>2 DEF OnePlace, Chained
  <2> QED BY <2>1, <2>2
<1>9. Gentle(p)
  <2> SUFFICES ASSUME NEW k \in Texts \ toggled'
               PROVE
       /\ Pending(p, k)' => Pending(p, k) /\ ClearWaits(p, k)'
       /\ tab'[p].body = k =>
            tab[p].body = k \/ (tab[p].got /= NoDraft /\ tab[p].got.text = k)
       /\ tab'[p].sending.text = k => tab[p].sending.text = k \/ tab[p].body = k
       /\ tab'[p].clearing.text = k => tab[p].clearing.text = k \/ tab[p].sending.text = k
       /\ tab'[p].got /= NoDraft /\ tab'[p].got.text = k =>
            \/ tab[p].got /= NoDraft /\ tab[p].got.text = k
            \/ \E t \in Tickets : Stored(t) /\ draft[t].text = k
       /\ \A t \in Tickets : Stored(t)' /\ draft'[t].text = k =>
            (Stored(t) /\ draft[t].text = k) \/ (Chained(p, k) /\ ~Pending(p, k)')
       /\ \A e \in sentAway' : e[2] = k =>
            e \in sentAway \/ (tab[p].clearing.text = k /\ ~Pending(p, k)')
    BY <1>1 DEF Gentle, OthersKept, ScreenStep
  <2>0. k /= 0 /\ k \in Texts \ toggled
    BY <1>3 DEF ScreenStep
  <2>1. ASSUME Pending(p, k)' PROVE Pending(p, k) /\ ClearWaits(p, k)'
    <3>1. Pending(p, k) /\ ClearWaits(p, k)
      BY <1>0, <1>7, <2>0, <2>1 DEF PendingAlone
    <3>2. CASE r.clearing = NoSend
      BY <1>1, <1>3, <2>0, <3>1, <3>2 DEF ClearWaits
    <3>3. CASE r.clearing = tab[p].clearing /\ r.ahead = tab[p].ahead
      BY <1>1, <1>7, <3>1, <3>3 DEF ClearWaits, ScreenStep, Screen
    <3>4. CASE ~r.timer /\ r.ahead = Len(tab[p].writes)
      BY <1>1, <1>3, <3>1, <3>4 DEF ClearWaits, Timed, ScreenStep, Screen
    <3> QED BY <3>1, <3>2, <3>3, <3>4 DEF ScreenStep, Sends
  <2>2. ASSUME NEW e \in sentAway', e[2] = k, e \notin sentAway
        PROVE  tab[p].clearing.text = k /\ ~Pending(p, k)'
    <3>1. tab[p].clearing.text = k /\ tab[p].ahead = 0
      BY <2>2 DEF ScreenStep
    <3>2. ~Pending(p, k)
      BY <2>0, <3>1, ClearTurn
    <3> QED BY <1>7, <3>1, <3>2
  <2>3. /\ tab'[p].body = k =>
             tab[p].body = k \/ (tab[p].got /= NoDraft /\ tab[p].got.text = k)
        /\ tab'[p].sending.text = k => tab[p].sending.text = k \/ tab[p].body = k
        /\ tab'[p].clearing.text = k => tab[p].clearing.text = k \/ tab[p].sending.text = k
    BY <1>1, <1>3, <2>0 DEF ScreenStep, Screen, Sends
  <2>4. tab'[p].got /= NoDraft /\ tab'[p].got.text = k =>
            \/ tab[p].got /= NoDraft /\ tab[p].got.text = k
            \/ \E t \in Tickets : Stored(t) /\ draft[t].text = k
    BY <1>1 DEF ScreenStep, Screen
  <2>5. ASSUME NEW t \in Tickets, Stored(t)', draft'[t].text = k
        PROVE  Stored(t) /\ draft[t].text = k
    <3>1. Stored(t) /\ draft'[t] = draft[t]
      BY <2>5 DEF ScreenStep
    <3> QED BY <2>5, <3>1
  <2> QED BY <2>1, <2>2, <2>3, <2>4, <2>5
<1>10. HoldsNoMore(p)
  <2> SUFFICES ASSUME NEW k \in Texts \ reopened'
               PROVE  /\ Holds(p, k)' => Holds(p, k)
                      /\ ClearsAll(p, k)'
                      /\ \A e \in sentAway' : e[2] = k =>
                           e \in sentAway \/ (Holds(p, k) /\ ~Holds(p, k)')
    BY <1>1 DEF HoldsNoMore, OthersKept, ScreenStep
  <2>0. k /= 0 /\ k \in Texts \ reopened /\ k /= NoSend.text
    BY <1>3 DEF ScreenStep
  <2>1. ClearsAll(p, k)
    BY <1>0, <2>0 DEF HeldByOne
  <2>2. r.body = k => tab[p].body = k
    BY <2>0 DEF ScreenStep, Screen
  <2>3. /\ r.sending.text = k => tab[p].sending.text = k \/ tab[p].body = k
        /\ r.clearing.text = k => tab[p].clearing.text = k \/ tab[p].sending.text = k
    BY <2>0 DEF ScreenStep, Sends
  <2>4. Holds(p, k)' => Holds(p, k)
    BY <1>1, <1>7, <2>2, <2>3 DEF Holds
  <2>5. ASSUME r.clearing.text = k
        PROVE  /\ r.body /= k /\ r.sending.text /= k
               /\ \A i \in 1 .. Len(tab[p].writes) : tab[p].writes[i].text = k => i <= r.ahead
    <3>1. CASE r.sending \in {NoSend, tab[p].sending} /\ r.clearing = tab[p].clearing /\ r.ahead = tab[p].ahead
      BY <2>0, <2>1, <2>2, <2>5, <3>1 DEF ClearsAll
    <3>2. CASE r.sending = NoSend /\ r.ahead = Len(tab[p].writes) /\ r.body = 0
      BY <1>3, <2>0, <3>2
    <3>3. r.clearing /= NoSend
      BY <2>0, <2>5
    <3> QED BY <3>1, <3>2, <3>3 DEF ScreenStep, Sends
  <2>6. ClearsAll(p, k)'
    BY <1>1, <2>5 DEF ClearsAll, ScreenStep, Screen
  <2>7. ASSUME NEW e \in sentAway', e[2] = k, e \notin sentAway
        PROVE  Holds(p, k) /\ ~Holds(p, k)'
    <3>1. tab[p].clearing.text = k /\ tab[p].ahead = 0 /\ r.clearing = NoSend
      BY <2>7 DEF ScreenStep
    <3>2. /\ tab[p].body /= k /\ tab[p].sending.text /= k
          /\ \A i \in 1 .. Len(tab[p].writes) : tab[p].writes[i].text = k => i <= 0
      BY <2>1, <3>1 DEF ClearsAll
    <3>3. ~Chained(p, k)
      BY <3>2 DEF Chained
    <3>4. r.body /= k /\ r.sending.text /= k /\ r.clearing.text /= k
      BY <2>0, <2>2, <2>3, <3>1, <3>2
    <3> QED BY <1>1, <1>7, <3>1, <3>3, <3>4 DEF Holds
  <2> QED BY <2>4, <2>6, <2>7
<1>11. PendingAlone' /\ HeldByOne'
  BY <1>9, <1>10, AloneKept, HeldKept
<1> QED BY <1>2, <1>4, <1>6, <1>8, <1>11 DEF DraftInv, ScreenStep

(***************************************************************************)
(* A step that settles the head of the chain.                              *)
(***************************************************************************)
\* The rest of a chain, entry by entry.
LEMMA RestOf ==
  ASSUME NEW S, NEW s \in Seq(S), s /= <<>>
  PROVE  /\ Tail(s) \in Seq(S) /\ Len(s) \in Nat \ {0} /\ Len(Tail(s)) = Len(s) - 1
         /\ \A i \in 1 .. Len(Tail(s)) : Tail(s)[i] = s[i + 1] /\ i + 1 \in 1 .. Len(s)
         /\ Head(s) = s[1] /\ Head(s) \in S
  OBVIOUS

HeadStep(p, r) ==
  /\ tab' = [tab EXCEPT ![p] = r] /\ UNCHANGED <<edits, toggled, reopened>>
  /\ tab[p].writes /= <<>>
  /\ r.writes = Tail(tab[p].writes)
  /\ r.timer <=> tab[p].timer
  /\ r.edited <=> tab[p].edited
  /\ r.body = tab[p].body /\ r.got = tab[p].got
  /\ r.sending = tab[p].sending /\ r.clearing = tab[p].clearing
  /\ r.put = "send"
  /\ r.ahead = IF tab[p].ahead > 0 THEN tab[p].ahead - 1 ELSE 0
  /\ sentAway' = sentAway
  /\ draft' \in [Tickets -> DraftRow \cup {NoDraft}]
  /\ \A t \in Tickets : Stored(t)' =>
       \/ Stored(t) /\ draft'[t] = draft[t]
       \/ draft'[t].text = tab[p].writes[1].text

LEMMA HeadKeeps ==
  ASSUME DraftInv, NEW p \in Tabs, NEW r \in TabRow, HeadStep(p, r)
  PROVE  DraftInv'
<1>0. DraftTypes /\ ChainSound /\ Known /\ OnePlace /\ PendingAlone /\ HeldByOne
  BY DEF DraftInv
<1>1. /\ tab' \in [Tabs -> TabRow] /\ tab'[p] = r
      /\ \A q \in Tabs : q /= p => tab'[q] = tab[q]
  BY <1>0, PutTab DEF HeadStep
<1>2. DraftTypes'
  BY <1>0, <1>1 DEF HeadStep, DraftTypes
<1>3. PICK w : w = tab[p].writes
  OBVIOUS
<1>4. /\ w /= <<>> /\ w \in Seq(Entry)
      /\ r.writes = Tail(w) /\ tab[p].ahead \in Nat /\ tab[p].ahead <= Len(w)
  BY <1>0, <1>3, TabFields DEF HeadStep, ChainSound
<1>5. /\ Len(w) \in Nat \ {0} /\ Len(Tail(w)) = Len(w) - 1
      /\ \A i \in 1 .. Len(Tail(w)) : Tail(w)[i] = w[i + 1] /\ i + 1 \in 1 .. Len(w)
      /\ 1 \in 1 .. Len(w) /\ w[1].text \in 0 .. LastEdit
  <2>1. w[1] \in Entry
    BY <1>4, RestOf
  <2> QED BY <1>4, <2>1, RestOf DEF Entry
<1>6. /\ \A i, j \in 1 .. Len(w) :
           w[i].text = w[j].text /\ w[i].text \in Texts \ toggled => i = j
      /\ tab[p].timer /\ tab[p].body \in Texts \ toggled =>
           ~\E i \in 1 .. Len(w) : w[i].text = tab[p].body
  BY <1>0, <1>3 DEF OnePlace, Chained
<1>7. ChainSound'
  <2> SUFFICES ASSUME NEW q \in Tabs
               PROVE  /\ tab'[q].put /= "send" => tab'[q].writes /= <<>>
                      /\ tab'[q].put = "write" => tab'[q].next > 0
                      /\ tab'[q].ahead <= Len(tab'[q].writes)
                      /\ tab'[q].timer => tab'[q].edited
                      /\ tab'[q].sending = NoSend \/ tab'[q].clearing = NoSend
    BY DEF ChainSound
  <2>1. CASE q /= p
    BY <1>0, <1>1, <2>1 DEF ChainSound
  <2>2. CASE q = p
    <3>1. r.ahead <= Len(Tail(w))
      BY <1>4, <1>5 DEF HeadStep
    <3> QED BY <1>0, <1>1, <1>4, <2>2, <3>1 DEF HeadStep, ChainSound
  <2> QED BY <2>1, <2>2
<1>8. \A i \in 1 .. Len(w) : w[i].text <= edits
  BY <1>0, <1>3 DEF Known
<1>9. Known'
  <2>1. edits' = edits /\ \A e \in sentAway' : e[2] <= edits
    BY <1>0 DEF HeadStep, Known
  <2>2. \A t \in Tickets : Stored(t)' => draft'[t].text <= edits
    BY <1>0, <1>3, <1>5, <1>8 DEF HeadStep, Known
  <2>3. ASSUME NEW q \in Tabs
        PROVE  /\ tab'[q].body <= edits /\ tab'[q].sending.text <= edits
               /\ tab'[q].clearing.text <= edits
               /\ tab'[q].got /= NoDraft => tab'[q].got.text <= edits
               /\ \A i \in 1 .. Len(tab'[q].writes) : tab'[q].writes[i].text <= edits
    <3>1. CASE q /= p
      BY <1>0, <1>1, <2>3, <3>1 DEF Known
    <3>2. CASE q = p
      <4>1. \A i \in 1 .. Len(r.writes) : r.writes[i].text <= edits
        BY <1>4, <1>5, <1>8
      <4> QED BY <1>0, <1>1, <3>2, <4>1 DEF HeadStep, Known
    <3> QED BY <3>1, <3>2
  <2> QED BY <2>1, <2>2, <2>3 DEF Known
<1>10. OnePlace'
  <2> SUFFICES ASSUME NEW q \in Tabs
               PROVE  /\ \A i, j \in 1 .. Len(tab'[q].writes) :
                           /\ tab'[q].writes[i].text = tab'[q].writes[j].text
                           /\ tab'[q].writes[i].text \in Texts \ toggled
                           => i = j
                      /\ tab'[q].timer /\ tab'[q].body \in Texts \ toggled =>
                           ~\E i \in 1 .. Len(tab'[q].writes) : tab'[q].writes[i].text = tab'[q].body
    BY DEF OnePlace, Chained, HeadStep
  <2>1. CASE q /= p
    BY <1>0, <1>1, <2>1 DEF OnePlace, Chained
  <2>2. CASE q = p
    <3>1. ASSUME NEW i \in 1 .. Len(Tail(w)), NEW j \in 1 .. Len(Tail(w)),
                 Tail(w)[i].text = Tail(w)[j].text, Tail(w)[i].text \in Texts \ toggled
          PROVE  i = j
      <4>1. i + 1 = j + 1
        BY <1>5, <1>6, <3>1
      <4> QED BY <4>1
    <3>2. ASSUME tab[p].timer, tab[p].body \in Texts \ toggled, NEW i \in 1 .. Len(Tail(w)), Tail(w)[i].text = tab[p].body
          PROVE  FALSE
      BY <1>5, <1>6, <3>2
    <3>3. tab'[q].writes = Tail(w) /\ (tab'[q].timer <=> tab[p].timer) /\ tab'[q].body = tab[p].body
      BY <1>1, <1>4, <2>2 DEF HeadStep
    <3> QED BY <3>1, <3>2, <3>3
  <2> QED BY <2>1, <2>2
<1>11. \A k \in Texts : Chained(p, k)' => /\ Chained(p, k)
                                          /\ k \in toggled \/ k /= w[1].text
  <2> SUFFICES ASSUME NEW k \in Texts, NEW i \in 1 .. Len(Tail(w)), Tail(w)[i].text = k
               PROVE  Chained(p, k) /\ (k \in toggled \/ k /= w[1].text)
    BY <1>1, <1>4 DEF Chained
  <2>1. w[i + 1].text = k /\ i + 1 \in 1 .. Len(w) /\ i + 1 /= 1
    BY <1>5
  <2> QED BY <1>3, <1>5, <1>6, <2>1 DEF Chained
<1>12. /\ \A k \in Texts : Timed(p, k)' <=> Timed(p, k)
       /\ Chained(p, w[1].text)
       /\ w[1].text \in Texts \ toggled => ~Pending(p, w[1].text)'
  <2>1. \A k \in Texts : Timed(p, k)' <=> Timed(p, k)
    BY <1>1 DEF HeadStep, Timed
  <2>2. Chained(p, w[1].text)
    BY <1>3, <1>5 DEF Chained
  <2>3. w[1].text \in Texts \ toggled => ~Timed(p, w[1].text)
    BY <1>5, <1>6 DEF Timed
  <2> QED BY <1>11, <2>1, <2>2, <2>3 DEF Pending
<1>13. \A t \in Tickets : Stored(t)' =>
         \/ Stored(t) /\ draft'[t].text = draft[t].text
         \/ draft'[t].text = w[1].text
  BY <1>3 DEF HeadStep
<1>14. Gentle(p)
  <2> SUFFICES ASSUME NEW k \in Texts \ toggled
               PROVE  /\ Pending(p, k)' => Pending(p, k) /\ ClearWaits(p, k)'
                      /\ \A t \in Tickets : Stored(t)' /\ draft'[t].text = k =>
                           (Stored(t) /\ draft[t].text = k) \/ (Chained(p, k) /\ ~Pending(p, k)')
    <3>1. /\ tab'[p].body = tab[p].body /\ tab'[p].got = tab[p].got
          /\ tab'[p].sending = tab[p].sending /\ tab'[p].clearing = tab[p].clearing
          /\ sentAway' = sentAway /\ toggled' = toggled
      BY <1>1 DEF HeadStep
    <3> QED BY <1>1, <3>1 DEF Gentle, OthersKept
  <2>1. ASSUME Pending(p, k)' PROVE Pending(p, k) /\ ClearWaits(p, k)'
    <3>1. Pending(p, k)
      BY <1>11, <1>12, <2>1 DEF Pending
    <3>2. ClearWaits(p, k)
      BY <1>0, <3>1 DEF PendingAlone
    <3>3. ASSUME tab[p].clearing.text = k, NEW i \in 1 .. Len(Tail(w)), Tail(w)[i].text = k
          PROVE  i <= r.ahead
      <4>1. i + 1 <= tab[p].ahead
        BY <1>3, <1>5, <3>2, <3>3 DEF ClearWaits
      <4> QED BY <1>4, <4>1 DEF HeadStep
    <3> QED BY <1>1, <1>4, <1>12, <3>1, <3>2, <3>3 DEF ClearWaits, HeadStep
  <2>2. ASSUME NEW t \in Tickets, Stored(t)', draft'[t].text = k
        PROVE  (Stored(t) /\ draft[t].text = k) \/ (Chained(p, k) /\ ~Pending(p, k)')
    <3>1. CASE Stored(t) /\ draft'[t].text = draft[t].text
      BY <2>2, <3>1
    <3>2. CASE draft'[t].text = w[1].text
      <4>1. k = w[1].text
        BY <2>2, <3>2
      <4> QED BY <1>12, <4>1
    <3> QED BY <1>13, <2>2, <3>1, <3>2
  <2> QED BY <2>1, <2>2
<1>15. HoldsNoMore(p)
  <2> SUFFICES ASSUME NEW k \in Texts \ reopened
               PROVE  (Holds(p, k)' => Holds(p, k)) /\ ClearsAll(p, k)'
    <3>1. sentAway' = sentAway /\ reopened' = reopened
      BY DEF HeadStep
    <3> QED BY <1>1, <3>1 DEF HoldsNoMore, OthersKept
  <2>1. /\ tab'[p].body = tab[p].body
        /\ tab'[p].sending = tab[p].sending /\ tab'[p].clearing = tab[p].clearing
    BY <1>1 DEF HeadStep
  <2>2. Holds(p, k)' => Holds(p, k)
    BY <1>11, <2>1 DEF Holds
  <2>3. ClearsAll(p, k)
    BY <1>0 DEF HeldByOne
  <2>4. ASSUME tab[p].clearing.text = k, NEW i \in 1 .. Len(Tail(w)), Tail(w)[i].text = k
        PROVE  i <= r.ahead
    <3>1. i + 1 <= tab[p].ahead
      BY <1>3, <1>5, <2>3, <2>4 DEF ClearsAll
    <3> QED BY <1>4, <3>1 DEF HeadStep
  <2>5. ClearsAll(p, k)'
    BY <1>1, <1>4, <2>1, <2>3, <2>4 DEF ClearsAll
  <2> QED BY <2>2, <2>5
<1>16. SentStaysAway'
  <2>1. ASSUME NEW e \in sentAway, e[2] = w[1].text PROVE w[1].text \in toggled \cap reopened
    <3>0. w[1].text \in Texts
      BY <1>0, <2>1 DEF DraftTypes
    <3>1. CASE w[1].text \notin toggled
      BY <1>0, <1>12, <2>1, <3>0, <3>1 DEF PendingAlone, NobodyElse, Pending
    <3>2. CASE w[1].text \notin reopened
      BY <1>0, <1>12, <2>1, <3>0, <3>2 DEF HeldByOne, Holds
    <3> QED BY <3>1, <3>2
  <2>2. UNCHANGED <<sentAway, toggled, reopened>>
    BY DEF HeadStep
  <2> QED BY <1>13, <2>1, <2>2 DEF DraftInv, SentStaysAway
<1>17. PendingAlone' /\ HeldByOne'
  BY <1>14, <1>15, AloneKept, HeldKept
<1> QED BY <1>2, <1>7, <1>9, <1>10, <1>16, <1>17 DEF DraftInv

\* The usual case: rows and history are left alone.
LEMMA ScreenOnly ==
  ASSUME DraftInv, NEW p \in Tabs, NEW r \in TabRow, tab' = [tab EXCEPT ![p] = r],
         Screen(p, r), Sends(p, r), UNCHANGED <<draft, edits, sentAway, screens>>
  PROVE  DraftInv'
<1>1. DraftTypes /\ SentStaysAway
  BY DEF DraftInv
<1>2. SentStaysAway' /\ \A t \in Tickets : Stored(t)' => Stored(t) /\ draft'[t] = draft[t]
  BY <1>1 DEF SentStaysAway, Stored, screens
<1>3. ScreenStep(p, r)
  BY <1>1, <1>2, TextsTyped DEF ScreenStep, DraftTypes, screens
<1> QED BY <1>3, ScreenKeeps

\* What a tab has at hand to change one of its fields.
LEMMA AtHand ==
  ASSUME DraftInv, NEW p \in Tabs
  PROVE  /\ DraftTypes /\ tab[p] \in TabRow
         /\ tab[p].timer => tab[p].edited
         /\ tab[p].put /= "send" => tab[p].writes /= <<>>
         /\ tab[p].put = "write" => tab[p].next > 0
         /\ NoSend \in Sent /\ NoSend.text = 0 /\ 0 \in 0 .. LastEdit
         /\ \A x \in Sent : x /= NoSend => /\ x \in [ticket : Tickets, text : Texts]
                                           /\ x.ticket \in Tickets /\ x.text \in Texts
<1>1. DraftTypes /\ ChainSound
  BY DEF DraftInv
<1>2. NoSend \in Sent /\ NoSend.text = 0 /\ 0 \in 0 .. LastEdit
  BY TextsTyped DEF Sent
<1>3. \A x \in Sent : x /= NoSend => /\ x \in [ticket : Tickets, text : Texts]
                                     /\ x.ticket \in Tickets /\ x.text \in Texts
  BY DEF Sent
<1> QED BY <1>1, <1>2, <1>3, TabFields DEF ChainSound

LEMMA OpenTicketStep ==
  ASSUME DraftInv, NEW p \in Tabs, NEW t \in Tickets, OpenTicket(p, t)
  PROVE  DraftInv'
<1> DEFINE r == [tab[p] EXCEPT !.open = t, !.edited = FALSE, !.hydrated = FALSE,
                               !.timer = FALSE, !.load = "asked"]
<1>1. r \in TabRow
  BY AtHand, ZenonT(60) DEF TabRow
<1>2. Screen(p, r) /\ Sends(p, r)
  BY AtHand DEF Screen, Sends, TabRow
<1>3. tab' = [tab EXCEPT ![p] = r] /\ UNCHANGED <<draft, edits, sentAway, screens>>
  BY DEF OpenTicket
<1> QED BY <1>1, <1>2, <1>3, ScreenOnly

LEMMA PressSendStep ==
  ASSUME DraftInv, NEW p \in Tabs, PressSend(p)
  PROVE  DraftInv'
<1> DEFINE x == [ticket |-> tab[p].open, text |-> tab[p].body]
           r == [tab[p] EXCEPT !.sending = x]
<1>1. x \in Sent /\ x.text = tab[p].body /\ tab[p].clearing = NoSend
  BY AtHand, TextsTyped DEF TabRow, Sent, PressSend
<1> HIDE DEF x
<1>2. r \in TabRow
  BY <1>1, AtHand, ZenonT(60) DEF TabRow
<1>3. Screen(p, r) /\ Sends(p, r)
  BY <1>1, AtHand DEF Screen, Sends, TabRow
<1>4. tab' = [tab EXCEPT ![p] = r] /\ UNCHANGED <<draft, edits, sentAway, screens>>
  BY DEF PressSend, x
<1> QED BY <1>2, <1>3, <1>4, ScreenOnly

LEMMA SendRefusedStep ==
  ASSUME DraftInv, NEW p \in Tabs, SendRefused(p)
  PROVE  DraftInv'
<1> DEFINE r == [tab[p] EXCEPT !.sending = NoSend]
<1>1. r \in TabRow
  BY AtHand, ZenonT(60) DEF TabRow
<1>2. Screen(p, r) /\ Sends(p, r)
  BY AtHand DEF Screen, Sends, TabRow
<1>3. tab' = [tab EXCEPT ![p] = r] /\ UNCHANGED <<draft, edits, sentAway, screens>>
  BY DEF SendRefused
<1> QED BY <1>1, <1>2, <1>3, ScreenOnly

LEMMA ClearStep ==
  ASSUME DraftInv, NEW p \in Tabs, Clear(p)
  PROVE  DraftInv'
<1> DEFINE r == [tab[p] EXCEPT !.sending = NoSend, !.timer = FALSE, !.edited = FALSE,
                               !.body = 0, !.clearing = tab[p].sending,
                               !.ahead = Len(tab[p].writes)]
<1>1. r \in TabRow
  <2>1. Len(tab[p].writes) \in Nat
    BY AtHand, SMTT(30) DEF TabRow
  <2> QED BY <2>1, AtHand, ZenonT(60) DEF TabRow
<1>2. Screen(p, r) /\ Sends(p, r)
  BY AtHand DEF Screen, Sends, TabRow
<1>3. tab' = [tab EXCEPT ![p] = r] /\ UNCHANGED <<draft, edits, sentAway, screens>>
  BY DEF Clear
<1> QED BY <1>1, <1>2, <1>3, ScreenOnly

\* The row goes, and its text is recorded as sent: no other row can have it.
LEMMA DeleteDraftStep ==
  ASSUME DraftInv, NEW p \in Tabs, DeleteDraft(p)
  PROVE  DraftInv'
<1>1. PICK gone : gone = tab[p].clearing
  OBVIOUS
<1>2. /\ gone /= NoSend /\ tab[p].ahead = 0
      /\ draft' = [draft EXCEPT ![gone.ticket] = NoDraft]
      /\ sentAway' = sentAway \cup {<<gone.ticket, gone.text>>}
      /\ UNCHANGED <<edits, toggled, reopened>>
      /\ tab' = [tab EXCEPT ![p].clearing = NoSend, ![p].revision[gone.ticket] = 0]
  BY <1>1 DEF DeleteDraft, screens
<1>3. gone.ticket \in Tickets /\ gone.text \in Texts
  BY <1>1, <1>2, AtHand, ZenonT(60) DEF TabRow
<1> DEFINE rev == [tab[p].revision EXCEPT ![gone.ticket] = 0]
           r == [tab[p] EXCEPT !.clearing = NoSend, !.revision = rev]
<1>4. rev \in [Tickets -> Nat]
  BY <1>3, AtHand, ZenonT(60) DEF TabRow
<1>5. tab' = [tab EXCEPT ![p] = r]
  BY <1>2
<1> HIDE DEF rev
<1>6. r \in TabRow
  BY <1>4, AtHand, ZenonT(60) DEF TabRow
<1>7. Screen(p, r) /\ Sends(p, r) /\ r.clearing = NoSend
  BY AtHand DEF Screen, Sends, TabRow
<1>8. /\ draft' \in [Tickets -> DraftRow \cup {NoDraft}]
      /\ \A t \in Tickets : Stored(t)' => t /= gone.ticket /\ Stored(t) /\ draft'[t] = draft[t]
  BY <1>2, <1>3, AtHand DEF DraftTypes, Stored
<1>9. sentAway' \subseteq Tickets \X Texts
  BY <1>2, <1>3, AtHand DEF DraftTypes
<1>10. SentStaysAway'
  BY <1>2, <1>8 DEF SentStaysAway, DraftInv
<1>11. \A e \in sentAway' :
         e \in sentAway \/ (tab[p].clearing.text = e[2] /\ tab[p].ahead = 0)
  BY <1>1, <1>2
<1>12. /\ edits' \in 0 .. LastEdit /\ edits <= edits'
       /\ toggled' = toggled /\ toggled' \subseteq Texts
       /\ reopened' = reopened /\ reopened' \subseteq Texts
  BY <1>2, AtHand, TextsTyped DEF DraftTypes
<1> HIDE DEF r
<1>13. ScreenStep(p, r)
  BY <1>5, <1>7, <1>8, <1>9, <1>10, <1>11, <1>12 DEF ScreenStep
<1> QED BY <1>6, <1>13, ScreenKeeps

LEMMA DeleteFailsStep ==
  ASSUME DraftInv, NEW p \in Tabs, DeleteFails(p)
  PROVE  DraftInv'
<1> DEFINE t == tab[p].clearing.ticket
           rev == [tab[p].revision EXCEPT ![t] = 0]
           r == [tab[p] EXCEPT !.revision = rev, !.clearing = NoSend]
<1>1. rev \in [Tickets -> Nat]
  BY AtHand, ZenonT(60) DEF TabRow
<1>2. tab' = [tab EXCEPT ![p] = r] /\ UNCHANGED <<draft, edits, sentAway, screens>>
  BY DEF DeleteFails
<1> HIDE DEF rev
<1>3. r \in TabRow
  BY <1>1, AtHand, ZenonT(60) DEF TabRow
<1>4. Screen(p, r) /\ Sends(p, r)
  BY AtHand DEF Screen, Sends, TabRow
<1> QED BY <1>2, <1>3, <1>4, ScreenOnly

LEMMA ReadDraftStep ==
  ASSUME DraftInv, NEW p \in Tabs, ReadDraft(p)
  PROVE  DraftInv'
<1> DEFINE g == draft[tab[p].open]
           r == [tab[p] EXCEPT !.load = "answered", !.got = g]
<1>1. tab' = [tab EXCEPT ![p] = r] /\ UNCHANGED <<draft, edits, sentAway, screens>>
  BY DEF ReadDraft
<1>2. /\ g \in DraftRow \cup {NoDraft}
      /\ g = NoDraft \/ \E t \in Tickets : Stored(t) /\ g = draft[t]
  BY AtHand, TabFields DEF DraftTypes, Stored
<1> HIDE DEF g
<1>3. r \in TabRow
  BY <1>2, AtHand, ZenonT(60) DEF TabRow
<1>4. Screen(p, r) /\ Sends(p, r)
  BY <1>2, AtHand DEF Screen, Sends, TabRow
<1> QED BY <1>1, <1>3, <1>4, ScreenOnly

\* A text that is taken from the server is recorded as reopened.
LEMMA LoadedStep ==
  ASSUME DraftInv, NEW p \in Tabs, Loaded(p)
  PROVE  DraftInv'
<1> DEFINE taken == ~tab[p].edited /\ tab[p].got /= NoDraft
           b == IF tab[p].edited THEN tab[p].body ELSE IF taken THEN tab[p].got.text ELSE 0
           v == IF tab[p].edited THEN tab[p].revision[tab[p].open]
                ELSE IF taken THEN tab[p].got.revision ELSE 0
           rev == [tab[p].revision EXCEPT ![tab[p].open] = v]
           r == [tab[p] EXCEPT !.load = "none", !.hydrated = TRUE, !.got = NoDraft,
                               !.body = b, !.revision = rev]
<1>0. tab' = [tab EXCEPT ![p] = r] /\ UNCHANGED <<draft, edits, sentAway, toggled>>
  <2>1. tab' = [tab EXCEPT ![p] = r]
    BY DEF Loaded
  <2> QED BY <2>1 DEF Loaded
<1>1. tab[p].got /= NoDraft => tab[p].got.text \in 0 .. LastEdit /\ tab[p].got.revision \in Nat
  BY AtHand, TabFields DEF DraftRow
<1>2. v \in Nat
  BY <1>1, AtHand, TabFields
<1> HIDE DEF v
<1>3. rev \in [Tickets -> Nat]
  BY <1>2, AtHand, TabFields
<1> HIDE DEF rev
<1>t. /\ reopened \subseteq reopened' /\ reopened' \subseteq Texts
      /\ taken => tab[p].got.text \in reopened' \cup {0}
  <2>1. reopened' = IF taken THEN reopened \cup ({tab[p].got.text} \ {0}) ELSE reopened
    BY DEF Loaded
  <2> QED BY <1>1, <2>1, AtHand, TextsTyped DEF DraftTypes
<1>4. /\ b \in 0 .. LastEdit
      /\ tab[p].edited => b = tab[p].body
      /\ \/ b \in {0, tab[p].body}
         \/ tab[p].got /= NoDraft /\ b = tab[p].got.text /\ b \in reopened' \cup {0}
  <2>1. tab[p].body \in 0 .. LastEdit /\ 0 \in 0 .. LastEdit
    BY AtHand, TabFields
  <2>2. tab[p].got /= NoDraft => tab[p].got.text \in 0 .. LastEdit
    BY <1>1
  <2> QED BY <1>t, <2>1, <2>2
<1> HIDE DEF b, taken
<1>5. r \in TabRow
  <2>1. tab[p] \in TabRow /\ b \in 0 .. LastEdit /\ rev \in [Tickets -> Nat]
    BY <1>3, <1>4, AtHand
  <2> QED BY <2>1 DEF TabRow
<1>6. Screen(p, r) /\ Sends(p, r)
  BY <1>4, AtHand DEF Screen, Sends, TabRow
<1> HIDE DEF r
<1>7. SentStaysAway' /\ \A t \in Tickets : Stored(t)' => Stored(t) /\ draft'[t] = draft[t]
  BY <1>0, <1>t DEF SentStaysAway, Stored, DraftInv
<1>8. ScreenStep(p, r)
  BY <1>0, <1>t, <1>6, <1>7, AtHand, TextsTyped DEF ScreenStep, DraftTypes
<1> QED BY <1>5, <1>8, ScreenKeeps

LEMMA LoadFailsStep ==
  ASSUME DraftInv, NEW p \in Tabs, LoadFails(p)
  PROVE  DraftInv'
<1> DEFINE r == [tab[p] EXCEPT !.load = "none", !.hydrated = TRUE]
<1>1. r \in TabRow
  BY AtHand, ZenonT(60) DEF TabRow
<1>2. Screen(p, r) /\ Sends(p, r)
  BY AtHand DEF Screen, Sends, TabRow
<1>3. tab' = [tab EXCEPT ![p] = r] /\ UNCHANGED <<draft, edits, sentAway, screens>>
  BY DEF LoadFails
<1> QED BY <1>1, <1>2, <1>3, ScreenOnly

LEMMA TakeRevisionStep ==
  ASSUME DraftInv, NEW p \in Tabs, TakeRevision(p)
  PROVE  DraftInv'
<1>1. PICK t : t = Head1(p).ticket
  OBVIOUS
<1>2. tab[p].writes /= <<>> /\ t \in Tickets
  <2>1. tab[p].writes /= <<>>
    BY DEF TakeRevision
  <2> QED BY <1>1, <2>1, AtHand, TabFields, RestOf DEF Head1
<1> DEFINE v == IF Stored(t) THEN draft[t].revision ELSE tab[p].revision[t]
           rev == [tab[p].revision EXCEPT ![t] = v]
           r == [tab[p] EXCEPT !.put = "again", !.revision = rev]
<1>3. tab' = [tab EXCEPT ![p] = r] /\ UNCHANGED <<draft, edits, sentAway, screens>>
  BY <1>1 DEF TakeRevision
<1>4. v \in Nat
  <2>1. Stored(t) => draft[t] \in DraftRow
    BY <1>2, AtHand DEF DraftTypes, Stored
  <2> QED BY <1>2, <2>1, AtHand, TabFields DEF DraftRow
<1> HIDE DEF v
<1>5. rev \in [Tickets -> Nat]
  BY <1>4, AtHand, TabFields
<1> HIDE DEF rev
<1>6. r \in TabRow
  BY <1>5, AtHand, ZenonT(60) DEF TabRow
<1>7. Screen(p, r) /\ Sends(p, r)
  BY <1>2, AtHand DEF Screen, Sends, TabRow
<1> QED BY <1>3, <1>6, <1>7, ScreenOnly

\* A put whose turn is over, without a row written.
LEMMA SettledStep ==
  ASSUME DraftInv, NEW p \in Tabs, tab[p].writes /= <<>>,
         tab' = [tab EXCEPT ![p] = Settled(p, tab[p])],
         UNCHANGED <<draft, edits, sentAway, screens>>
  PROVE  DraftInv'
<1> DEFINE a == IF tab[p].ahead > 0 THEN tab[p].ahead - 1 ELSE 0
           s == Tail(tab[p].writes)
           r == [tab[p] EXCEPT !.writes = s, !.put = "send", !.next = 0, !.ahead = a]
<1>1. tab' = [tab EXCEPT ![p] = r]
  BY DEF Settled
<1>2. a \in Nat /\ s \in Seq(Entry)
  <2>1. tab[p].ahead \in Nat /\ tab[p].writes \in Seq(Entry)
    BY AtHand, TabFields
  <2>2. a \in Nat
    BY <2>1
  <2>3. s \in Seq(Entry)
    BY <2>1, RestOf
  <2> QED BY <2>2, <2>3
<1>3. a = IF tab[p].ahead > 0 THEN tab[p].ahead - 1 ELSE 0
  OBVIOUS
<1>4. s = Tail(tab[p].writes)
  OBVIOUS
<1> HIDE DEF a, s
<1>5. r \in TabRow
  BY <1>2, AtHand, ZenonT(60) DEF TabRow
<1>6. /\ draft' \in [Tickets -> DraftRow \cup {NoDraft}]
      /\ \A t \in Tickets : Stored(t)' => Stored(t) /\ draft'[t] = draft[t]
  BY AtHand DEF DraftTypes, Stored
<1>7. /\ r.writes = s /\ r.timer = tab[p].timer /\ r.edited = tab[p].edited
      /\ r.body = tab[p].body /\ r.got = tab[p].got
      /\ r.sending = tab[p].sending /\ r.clearing = tab[p].clearing
      /\ r.put = "send" /\ r.ahead = a
  BY AtHand, ZenonT(60) DEF TabRow
<1>8. HeadStep(p, r)
  BY <1>1, <1>3, <1>4, <1>6, <1>7 DEF HeadStep, screens
<1> QED BY <1>5, <1>8, HeadKeeps

LEMMA PutReadsStep ==
  ASSUME DraftInv, NEW p \in Tabs, PutReads(p)
  PROVE  DraftInv'
<1>1. PICK mine : mine = tab[p].revision[Head1(p).ticket]
  OBVIOUS
<1>2. PICK theirs : theirs = IF Stored(Head1(p).ticket) THEN draft[Head1(p).ticket].revision ELSE 0
  OBVIOUS
<1>3. tab[p].writes /= <<>> /\ UNCHANGED <<draft, edits, sentAway, screens>>
  BY DEF PutReads
<1>4. tab' = [tab EXCEPT ![p] =
             IF mine >= theirs THEN [tab[p] EXCEPT !.put = "write", !.next = mine + 1]
             ELSE IF tab[p].put = "send" THEN [tab[p] EXCEPT !.put = "conflict"]
             ELSE Settled(p, tab[p])]
  BY <1>1, <1>2 DEF PutReads
<1>5. mine \in Nat
  <2>1. Head1(p).ticket \in Tickets
    BY <1>3, AtHand, TabFields, RestOf DEF Head1
  <2> QED BY <1>1, <2>1, AtHand, TabFields
<1>6. CASE mine >= theirs
  <2> DEFINE n == mine + 1
             r == [tab[p] EXCEPT !.put = "write", !.next = n]
  <2>1. tab' = [tab EXCEPT ![p] = r]
    BY <1>4, <1>6
  <2>2. n \in Nat /\ n > 0
    BY <1>5
  <2> HIDE DEF n
  <2>3. r \in TabRow
    BY <2>2, AtHand, ZenonT(60) DEF TabRow
  <2>4. Screen(p, r) /\ Sends(p, r)
    BY <1>3, <2>2, AtHand DEF Screen, Sends, TabRow
  <2> QED BY <1>3, <2>1, <2>3, <2>4, ScreenOnly
<1>7. CASE ~(mine >= theirs) /\ tab[p].put = "send"
  <2> DEFINE r == [tab[p] EXCEPT !.put = "conflict"]
  <2>1. tab' = [tab EXCEPT ![p] = r]
    BY <1>4, <1>7
  <2>2. r \in TabRow
    BY AtHand, ZenonT(60) DEF TabRow
  <2>3. Screen(p, r) /\ Sends(p, r)
    BY <1>3, AtHand DEF Screen, Sends, TabRow
  <2> QED BY <1>3, <2>1, <2>2, <2>3, ScreenOnly
<1>8. CASE ~(mine >= theirs) /\ tab[p].put /= "send"
  BY <1>3, <1>4, <1>8, SettledStep
<1> QED BY <1>6, <1>7, <1>8

LEMMA PutFailsStep ==
  ASSUME DraftInv, NEW p \in Tabs, PutFails(p)
  PROVE  DraftInv'
BY SettledStep DEF PutFails

LEMMA PutWritesStep ==
  ASSUME DraftInv, NEW p \in Tabs, PutWrites(p)
  PROVE  DraftInv'
<1>1. PICK w : w = Head1(p)
  OBVIOUS
<1>2. /\ tab[p].writes /= <<>> /\ tab[p].put = "write"
      /\ draft' = [draft EXCEPT ![w.ticket] = [text |-> w.text, revision |-> tab[p].next]]
      /\ tab' = [tab EXCEPT ![p] =
                   Settled(p, [tab[p] EXCEPT !.revision[w.ticket] = tab[p].next])]
      /\ UNCHANGED <<edits, sentAway, toggled, reopened>>
  BY <1>1 DEF PutWrites, screens
<1>3. w.ticket \in Tickets /\ w.text \in 0 .. LastEdit /\ w = tab[p].writes[1]
  BY <1>1, <1>2, AtHand, TabFields, RestOf DEF Head1
<1>4. tab[p].next \in Nat \ {0} /\ tab[p].revision \in [Tickets -> Nat]
  BY <1>2, AtHand, TabFields
<1> DEFINE row == [text |-> w.text, revision |-> tab[p].next]
           rev == [tab[p].revision EXCEPT ![w.ticket] = tab[p].next]
           a == IF tab[p].ahead > 0 THEN tab[p].ahead - 1 ELSE 0
           s == Tail(tab[p].writes)
           r == [tab[p] EXCEPT !.revision = rev, !.writes = s, !.put = "send", !.next = 0,
                               !.ahead = a]
<1>5. tab' = [tab EXCEPT ![p] = r]
  <2>1. tab[p] \in TabRow
    BY AtHand
  <2>2. Settled(p, [tab[p] EXCEPT !.revision[w.ticket] = tab[p].next]) = r
    BY <2>1 DEF Settled, TabRow
  <2> HIDE DEF r
  <2> QED BY <1>2, <2>2
<1>6. a \in Nat /\ s \in Seq(Entry) /\ rev \in [Tickets -> Nat]
  <2>1. tab[p].ahead \in Nat /\ tab[p].writes \in Seq(Entry)
    BY AtHand, TabFields
  <2>2. a \in Nat
    BY <2>1
  <2>3. s \in Seq(Entry)
    BY <1>2, <2>1, RestOf
  <2>4. rev \in [Tickets -> Nat]
    BY <1>3, <1>4
  <2> QED BY <2>2, <2>3, <2>4
<1>7. a = IF tab[p].ahead > 0 THEN tab[p].ahead - 1 ELSE 0
  OBVIOUS
<1>8. s = Tail(tab[p].writes)
  OBVIOUS
<1>9. row \in DraftRow /\ row.text = w.text
  BY <1>3, <1>4 DEF DraftRow
<1>10. draft' = [draft EXCEPT ![w.ticket] = row]
  BY <1>2
<1> HIDE DEF a, s, rev, row
<1>11. r \in TabRow
  BY <1>6, AtHand, ZenonT(60) DEF TabRow
<1>12. /\ draft' \in [Tickets -> DraftRow \cup {NoDraft}]
       /\ \A t \in Tickets : Stored(t)' =>
            \/ Stored(t) /\ draft'[t] = draft[t]
            \/ draft'[t].text = w.text
  BY <1>3, <1>9, <1>10, AtHand DEF DraftTypes, Stored
<1>13. /\ r.writes = s /\ r.timer = tab[p].timer /\ r.edited = tab[p].edited
       /\ r.body = tab[p].body /\ r.got = tab[p].got
       /\ r.sending = tab[p].sending /\ r.clearing = tab[p].clearing
       /\ r.put = "send" /\ r.ahead = a
  BY AtHand, ZenonT(60) DEF TabRow
<1>14. HeadStep(p, r)
  BY <1>2, <1>3, <1>5, <1>7, <1>8, <1>12, <1>13 DEF HeadStep
<1> QED BY <1>11, <1>14, HeadKeeps

(***************************************************************************)
(* The text moves from the timer to the chain.                             *)
(***************************************************************************)
LEMMA AppendOf ==
  ASSUME NEW S, NEW s \in Seq(S), NEW x \in S
  PROVE  /\ Append(s, x) \in Seq(S) /\ Len(s) \in Nat
         /\ Len(Append(s, x)) = Len(s) + 1 /\ Append(s, x) /= <<>>
         /\ \A i \in 1 .. Len(s) : Append(s, x)[i] = s[i]
         /\ Append(s, x)[Len(s) + 1] = x
  OBVIOUS

LEMMA TimerFiresStep ==
  ASSUME DraftInv, NEW p \in Tabs, TimerFires(p)
  PROVE  DraftInv'
<1>0. DraftTypes /\ ChainSound /\ Known /\ OnePlace /\ PendingAlone /\ HeldByOne /\ SentStaysAway
  BY DEF DraftInv
<1>1. PICK w : w = tab[p].writes
  OBVIOUS
<1>2. PICK b : b = tab[p].body
  OBVIOUS
<1>3. PICK x : x = [ticket |-> tab[p].open, text |-> b]
  OBVIOUS
<1>4. PICK s : s = Append(w, x)
  OBVIOUS
<1> DEFINE r == [tab[p] EXCEPT !.timer = FALSE, !.writes = s]
<1>5. tab[p].timer /\ tab' = [tab EXCEPT ![p] = r] /\ UNCHANGED <<draft, edits, sentAway, toggled, reopened>>
  BY <1>1, <1>2, <1>3, <1>4 DEF TimerFires, screens
<1>6. b \in 0 .. LastEdit
  BY <1>0, <1>2, TabFields
<1>7. /\ x \in Entry /\ x.text = b
      /\ w \in Seq(Entry)
  BY <1>0, <1>1, <1>3, <1>6, TabFields DEF Entry
<1>8. /\ s \in Seq(Entry) /\ Len(w) \in Nat
      /\ Len(s) = Len(w) + 1 /\ s /= <<>>
      /\ \A i \in 1 .. Len(w) : s[i] = w[i]
      /\ s[Len(w) + 1].text = b
  BY <1>4, <1>7, AppendOf
<1>9. \A i \in 1 .. Len(s) : i \in 1 .. Len(w) \/ i = Len(w) + 1
  BY <1>8
<1>10. r \in TabRow
  <2>1. s \in Seq(Entry)
    BY <1>8
  <2> QED BY <2>1, AtHand, ZenonT(60) DEF TabRow
<1>11. /\ tab' \in [Tabs -> TabRow] /\ tab'[p] = r
       /\ \A q \in Tabs : q /= p => tab'[q] = tab[q]
  BY <1>0, <1>5, <1>10, PutTab
<1>12. /\ r.writes = s /\ ~r.timer /\ r.body = b /\ r.put = tab[p].put /\ r.next = tab[p].next
       /\ r.ahead = tab[p].ahead /\ r.got = tab[p].got /\ r.sending = tab[p].sending
       /\ r.clearing = tab[p].clearing
  BY <1>0, <1>2, TabFields DEF TabRow
<1> HIDE DEF r
<1>13. DraftTypes'
  BY <1>0, <1>5, <1>11 DEF DraftTypes
<1>14. ChainSound'
  <2> SUFFICES ASSUME NEW q \in Tabs
               PROVE  /\ tab'[q].put /= "send" => tab'[q].writes /= <<>>
                      /\ tab'[q].put = "write" => tab'[q].next > 0
                      /\ tab'[q].ahead <= Len(tab'[q].writes)
                      /\ tab'[q].timer => tab'[q].edited
                      /\ tab'[q].sending = NoSend \/ tab'[q].clearing = NoSend
    BY DEF ChainSound
  <2>1. CASE q /= p
    BY <1>0, <1>11, <2>1 DEF ChainSound
  <2>2. CASE q = p
    <3>1. /\ tab[p].ahead <= Len(w) /\ tab[p].ahead \in Nat
          /\ tab[p].put = "write" => tab[p].next > 0
          /\ tab[p].sending = NoSend \/ tab[p].clearing = NoSend
      BY <1>0, <1>1, TabFields DEF ChainSound
    <3> QED BY <1>8, <1>11, <1>12, <2>2, <3>1
  <2> QED BY <2>1, <2>2
<1>15. b <= edits /\ \A i \in 1 .. Len(w) : w[i].text <= edits
  BY <1>0, <1>1, <1>2 DEF Known
<1>16. Known'
  <2>1. /\ \A t \in Tickets : Stored(t)' => draft'[t].text <= edits'
        /\ \A e \in sentAway' : e[2] <= edits'
    BY <1>0, <1>5 DEF Known, Stored
  <2>2. ASSUME NEW q \in Tabs
        PROVE  /\ tab'[q].body <= edits /\ tab'[q].sending.text <= edits
               /\ tab'[q].clearing.text <= edits
               /\ tab'[q].got /= NoDraft => tab'[q].got.text <= edits
               /\ \A i \in 1 .. Len(tab'[q].writes) : tab'[q].writes[i].text <= edits
    <3>1. CASE q /= p
      BY <1>0, <1>11, <2>2, <3>1 DEF Known
    <3>2. CASE q = p
      <4>1. \A i \in 1 .. Len(s) : s[i].text <= edits
        BY <1>8, <1>9, <1>15
      <4>2. /\ tab[p].sending.text <= edits /\ tab[p].clearing.text <= edits
            /\ tab[p].got /= NoDraft => tab[p].got.text <= edits
        BY <1>0 DEF Known
      <4> QED BY <1>11, <1>12, <1>15, <3>2, <4>1, <4>2
    <3> QED BY <3>1, <3>2
  <2> QED BY <1>5, <2>1, <2>2 DEF Known
<1>17. /\ \A i, j \in 1 .. Len(w) :
            w[i].text = w[j].text /\ w[i].text \in Texts \ toggled => i = j
       /\ b \in Texts \ toggled => \A i \in 1 .. Len(w) : w[i].text /= b
  BY <1>0, <1>1, <1>2, <1>5 DEF OnePlace, Chained
<1>18. OnePlace'
  <2> SUFFICES ASSUME NEW q \in Tabs
               PROVE  /\ \A i, j \in 1 .. Len(tab'[q].writes) :
                           /\ tab'[q].writes[i].text = tab'[q].writes[j].text
                           /\ tab'[q].writes[i].text \in Texts \ toggled
                           => i = j
                      /\ tab'[q].timer /\ tab'[q].body \in Texts \ toggled =>
                           ~\E i \in 1 .. Len(tab'[q].writes) : tab'[q].writes[i].text = tab'[q].body
    BY <1>5 DEF OnePlace, Chained
  <2>1. CASE q /= p
    BY <1>0, <1>11, <2>1 DEF OnePlace, Chained
  <2>2. CASE q = p
    <3>1. \A i, j \in 1 .. Len(s) :
            s[i].text = s[j].text /\ s[i].text \in Texts \ toggled => i = j
      BY <1>8, <1>9, <1>17
    <3> QED BY <1>11, <1>12, <2>2, <3>1
  <2> QED BY <2>1, <2>2
<1>19. Timed(p, b) /\ \A k \in Texts : ~Timed(p, k)'
  BY <1>2, <1>5, <1>11, <1>12 DEF Timed
<1>20. \A k \in Texts : Chained(p, k)' => Chained(p, k) \/ k = b
  <2> SUFFICES ASSUME NEW k \in Texts, NEW i \in 1 .. Len(s), s[i].text = k
               PROVE  Chained(p, k) \/ k = b
    BY <1>11, <1>12 DEF Chained
  <2> QED BY <1>1, <1>8, <1>9 DEF Chained
<1>21. Gentle(p)
  <2> SUFFICES ASSUME NEW k \in Texts \ toggled, Pending(p, k)'
               PROVE  Pending(p, k) /\ ClearWaits(p, k)'
    <3>1. /\ tab'[p].body = tab[p].body /\ tab'[p].got = tab[p].got
          /\ tab'[p].sending = tab[p].sending /\ tab'[p].clearing = tab[p].clearing
          /\ sentAway' = sentAway /\ toggled' = toggled
      BY <1>2, <1>5, <1>11, <1>12
    <3>2. \A t \in Tickets, k \in Texts : Stored(t)' /\ draft'[t].text = k => Stored(t) /\ draft[t].text = k
      BY <1>5 DEF Stored
    <3> QED BY <1>11, <3>1, <3>2 DEF Gentle, OthersKept
  <2>1. Pending(p, k)
    BY <1>19, <1>20 DEF Pending
  <2>2. ClearWaits(p, k)
    BY <1>0, <2>1 DEF PendingAlone
  <2>3. ASSUME tab[p].clearing.text = k, NEW i \in 1 .. Len(s), s[i].text = k
        PROVE  i <= tab[p].ahead
    <3>1. k /= b
      BY <1>19, <2>2, <2>3 DEF ClearWaits
    <3>2. i \in 1 .. Len(w) /\ w[i].text = k
      BY <1>8, <1>9, <2>3, <3>1
    <3> QED BY <1>1, <2>2, <2>3, <3>2 DEF ClearWaits
  <2> QED BY <1>11, <1>12, <1>19, <2>1, <2>3 DEF ClearWaits
<1>22. HoldsNoMore(p)
  <2> SUFFICES ASSUME NEW k \in Texts \ reopened
               PROVE  (Holds(p, k)' => Holds(p, k)) /\ ClearsAll(p, k)'
    BY <1>5, <1>11 DEF HoldsNoMore, OthersKept
  <2>1. Holds(p, k)' => Holds(p, k)
    BY <1>2, <1>11, <1>12, <1>20 DEF Holds
  <2>2. ClearsAll(p, k)
    BY <1>0 DEF HeldByOne
  <2>3. ASSUME tab[p].clearing.text = k, NEW i \in 1 .. Len(s), s[i].text = k
        PROVE  i <= tab[p].ahead
    <3>1. b /= k
      BY <1>2, <2>2, <2>3 DEF ClearsAll
    <3>2. i \in 1 .. Len(w) /\ w[i].text = k
      BY <1>8, <1>9, <2>3, <3>1
    <3> QED BY <1>1, <2>2, <2>3, <3>2 DEF ClearsAll
  <2>4. ClearsAll(p, k)'
    BY <1>2, <1>11, <1>12, <2>2, <2>3 DEF ClearsAll
  <2> QED BY <2>1, <2>4
<1>23. SentStaysAway'
  BY <1>0, <1>5 DEF SentStaysAway, Stored
<1>24. PendingAlone' /\ HeldByOne'
  BY <1>21, <1>22, AloneKept, HeldKept
<1> QED BY <1>13, <1>14, <1>16, <1>18, <1>23, <1>24 DEF DraftInv

(***************************************************************************)
(* The agent edits.  The text is erased or switched between reply and note *)
(* on the screen, or a new one is typed: nobody has it yet.                *)
(***************************************************************************)
LEMMA SetKindStep ==
  ASSUME DraftInv, NEW p \in Tabs, NEW other \in BOOLEAN, SetKind(p, other)
  PROVE  DraftInv'
<1> DEFINE on == IF other THEN Saves(p, tab[p].body) ELSE tab[p].timer
           r == [tab[p] EXCEPT !.edited = TRUE, !.timer = on]
<1>1. tab' = [tab EXCEPT ![p] = r] /\ UNCHANGED <<draft, sentAway, reopened>>
  BY DEF SetKind
<1>2. on \in BOOLEAN
  BY AtHand, TabFields DEF Saves, TabRow
<1> HIDE DEF on
<1>3. r \in TabRow
  BY <1>2, AtHand, ZenonT(60) DEF TabRow
<1>4. /\ edits' \in 0 .. LastEdit /\ edits <= edits'
      /\ toggled \subseteq toggled' /\ toggled' \subseteq Texts
      /\ tab[p].body \in toggled' \cup {0}
  BY AtHand, TabFields, TextsTyped DEF SetKind, DraftTypes
<1>5. Screen(p, r) /\ Sends(p, r)
  BY <1>4, AtHand DEF Screen, Sends, TabRow
<1> HIDE DEF r
<1>6. SentStaysAway' /\ \A t \in Tickets : Stored(t)' => Stored(t) /\ draft'[t] = draft[t]
  BY <1>1, <1>4 DEF SentStaysAway, Stored, DraftInv
<1>7. ScreenStep(p, r)
  BY <1>1, <1>4, <1>5, <1>6, AtHand DEF ScreenStep, DraftTypes
<1> QED BY <1>3, <1>7, ScreenKeeps

LEMMA EraseStep ==
  ASSUME DraftInv, NEW p \in Tabs, Type(p, 0)
  PROVE  DraftInv'
<1> DEFINE on == Saves(p, 0)
           r == [tab[p] EXCEPT !.body = 0, !.edited = TRUE, !.timer = on]
<1>1. tab' = [tab EXCEPT ![p] = r] /\ UNCHANGED <<draft, sentAway, toggled, reopened>>
  BY DEF Type, screens
<1>2. on \in BOOLEAN
  BY AtHand, TabFields DEF Saves, TabRow
<1> HIDE DEF on
<1>3. r \in TabRow
  BY <1>2, AtHand, ZenonT(60) DEF TabRow
<1>4. edits' \in 0 .. LastEdit /\ edits <= edits'
  BY AtHand, TextsTyped DEF Type, DraftTypes
<1>5. Screen(p, r) /\ Sends(p, r)
  BY AtHand DEF Screen, Sends, TabRow
<1> HIDE DEF r
<1>6. SentStaysAway' /\ \A t \in Tickets : Stored(t)' => Stored(t) /\ draft'[t] = draft[t]
  BY <1>1 DEF SentStaysAway, Stored, DraftInv
<1>7. ScreenStep(p, r)
  BY <1>1, <1>4, <1>5, <1>6, AtHand DEF ScreenStep, DraftTypes
<1> QED BY <1>3, <1>7, ScreenKeeps

LEMMA TypeStep ==
  ASSUME DraftInv, NEW p \in Tabs, NEW text, Type(p, text), text /= 0
  PROVE  DraftInv'
<1>0. DraftTypes /\ ChainSound /\ Known /\ OnePlace /\ PendingAlone /\ HeldByOne /\ SentStaysAway
  BY DEF DraftInv
<1>1. PICK n : n = text
  OBVIOUS
<1>2. edits \in Nat /\ n \in Nat /\ n \in Texts /\ n > edits /\ n /= 0 /\ edits' = n
  BY <1>0, <1>1, DraftsAssumption DEF DraftTypes, Type, Texts
<1> DEFINE on == Saves(p, n)
           r == [tab[p] EXCEPT !.body = n, !.edited = TRUE, !.timer = on]
<1>3. tab' = [tab EXCEPT ![p] = r] /\ UNCHANGED <<draft, sentAway, toggled, reopened>>
  BY <1>1 DEF Type, screens
<1>b. on \in BOOLEAN
  BY AtHand, TabFields DEF Saves, TabRow
<1> HIDE DEF on
<1>4. r \in TabRow
  <2>1. n \in 0 .. LastEdit
    BY <1>2, TextsTyped
  <2> QED BY <1>b, <2>1, AtHand, ZenonT(60) DEF TabRow
<1>5. /\ tab' \in [Tabs -> TabRow] /\ tab'[p] = r
      /\ \A q \in Tabs : q /= p => tab'[q] = tab[q]
  BY <1>0, <1>3, <1>4, PutTab
<1>6. /\ r.writes = tab[p].writes /\ r.body = n /\ r.edited /\ r.put = tab[p].put
      /\ r.next = tab[p].next /\ r.ahead = tab[p].ahead /\ r.got = tab[p].got
      /\ r.sending = tab[p].sending /\ r.clearing = tab[p].clearing
  BY <1>0, TabFields DEF TabRow
<1> HIDE DEF r
<1>7. DraftTypes'
  BY <1>0, <1>2, <1>3, <1>5, TextsTyped DEF DraftTypes
<1>8. ChainSound'
  BY <1>0, <1>2, <1>5, <1>6 DEF ChainSound
<1>9. /\ \A t \in Tickets : Stored(t) => draft[t].text <= edits /\ draft[t].text \in Nat
      /\ \A e \in sentAway : e[2] <= edits /\ e[2] \in Nat
      /\ \A q \in Tabs :
           /\ tab[q].body <= edits /\ tab[q].sending.text <= edits /\ tab[q].clearing.text <= edits
           /\ tab[q].body \in Nat /\ tab[q].sending.text \in Nat /\ tab[q].clearing.text \in Nat
           /\ tab[q].got /= NoDraft => tab[q].got.text <= edits /\ tab[q].got.text \in Nat
           /\ \A i \in 1 .. Len(tab[q].writes) :
                tab[q].writes[i].text <= edits /\ tab[q].writes[i].text \in Nat
  <2>1. \A t \in Tickets : Stored(t) => draft[t].text \in Nat
    BY <1>0, TextsTyped DEF DraftTypes, Stored
  <2>2. \A e \in sentAway : e[2] \in Nat
    BY <1>0, TextsTyped DEF DraftTypes
  <2>3. \A q \in Tabs :
          /\ tab[q].body \in Nat /\ tab[q].sending.text \in Nat /\ tab[q].clearing.text \in Nat
          /\ tab[q].got /= NoDraft => tab[q].got.text \in Nat
          /\ \A i \in 1 .. Len(tab[q].writes) : tab[q].writes[i].text \in Nat
    BY <1>0, TabFields, TextsTyped
  <2> QED BY <1>0, <2>1, <2>2, <2>3 DEF Known
<1>10. Known'
  <2>0. \A v \in Nat : v <= edits => v <= n
    BY <1>2
  <2>1. /\ \A t \in Tickets : Stored(t)' => draft'[t].text <= n
        /\ \A e \in sentAway' : e[2] <= n
    <3>1. draft' = draft /\ sentAway' = sentAway /\ \A t \in Tickets : Stored(t)' => Stored(t)
      BY <1>3 DEF Stored
    <3> QED BY <1>9, <2>0, <3>1
  <2>2. \A q \in Tabs :
          /\ tab'[q].body <= n /\ tab'[q].sending.text <= n
          /\ tab'[q].clearing.text <= n
          /\ tab'[q].got /= NoDraft => tab'[q].got.text <= n
          /\ \A i \in 1 .. Len(tab'[q].writes) : tab'[q].writes[i].text <= n
    <3> TAKE q \in Tabs
    <3>1. /\ tab'[q].body \in {n, tab[q].body} /\ tab'[q].sending = tab[q].sending
          /\ tab'[q].clearing = tab[q].clearing /\ tab'[q].got = tab[q].got
          /\ tab'[q].writes = tab[q].writes
      BY <1>5, <1>6
    <3>2. n <= n
      BY <1>2
    <3> QED BY <1>9, <2>0, <3>1, <3>2
  <2> QED BY <1>2, <2>1, <2>2 DEF Known
<1>11. \A k \in Texts, q \in Tabs : Chained(q, k)' <=> Chained(q, k)
  BY <1>5, <1>6 DEF Chained
<1>12. \A q \in Tabs : ~Chained(q, n)
  BY <1>2, <1>9 DEF Chained
<1>13. OnePlace'
  <2> SUFFICES ASSUME NEW q \in Tabs
               PROVE  /\ \A i, j \in 1 .. Len(tab'[q].writes) :
                           /\ tab'[q].writes[i].text = tab'[q].writes[j].text
                           /\ tab'[q].writes[i].text \in Texts \ toggled
                           => i = j
                      /\ tab'[q].timer /\ tab'[q].body \in Texts \ toggled =>
                           ~\E i \in 1 .. Len(tab'[q].writes) : tab'[q].writes[i].text = tab'[q].body
    BY <1>3 DEF OnePlace, Chained
  <2>1. CASE q /= p
    BY <1>0, <1>5, <2>1 DEF OnePlace, Chained
  <2>2. CASE q = p
    <3>1. \A i \in 1 .. Len(tab[p].writes) : tab[p].writes[i].text /= n
      BY <1>12 DEF Chained
    <3>2. \A i, j \in 1 .. Len(tab[p].writes) :
            tab[p].writes[i].text = tab[p].writes[j].text /\ tab[p].writes[i].text \in Texts \ toggled
              => i = j
      BY <1>0 DEF OnePlace
    <3> QED BY <1>5, <1>6, <2>2, <3>1, <3>2
  <2> QED BY <2>1, <2>2
\* Only this tab has the new text, on its screen.
<1>n. /\ \A t \in Tickets : Stored(t)' => draft'[t].text /= n
      /\ \A e \in sentAway' : e[2] /= n
      /\ \A q \in Tabs : tab'[q].sending.text /= n /\ tab'[q].clearing.text /= n
      /\ \A q \in Tabs : q /= p => ~Holds(q, n)'
  <2>1. \A t \in Tickets : Stored(t)' => draft'[t].text /= n
    BY <1>2, <1>3, <1>9 DEF Stored
  <2>2. \A e \in sentAway' : e[2] /= n
    BY <1>2, <1>3, <1>9
  <2>3. \A q \in Tabs : tab'[q].sending.text /= n /\ tab'[q].clearing.text /= n
    BY <1>2, <1>5, <1>6, <1>9
  <2>4. \A q \in Tabs : q /= p => tab'[q].body /= n
    BY <1>2, <1>5, <1>9
  <2> QED BY <1>2, <1>11, <1>12, <2>1, <2>2, <2>3, <2>4 DEF Holds
\* Another text is held where it was.
<1>o. \A k \in Texts, q \in Tabs : k /= n /\ Holds(q, k)' => Holds(q, k)
  <2>1. \A q \in Tabs : /\ tab'[q].body \in {n, tab[q].body}
                        /\ tab'[q].sending = tab[q].sending
                        /\ tab'[q].clearing = tab[q].clearing
    BY <1>5, <1>6
  <2> QED BY <1>11, <2>1 DEF Holds
<1>14. PendingAlone'
  <2> SUFFICES ASSUME NEW u \in Tabs, NEW k \in Texts \ toggled, Pending(u, k)'
               PROVE  /\ NobodyElse(k)'
                      /\ \A q \in Tabs : q /= u => ~Holds(q, k)'
                      /\ ClearWaits(u, k)'
    BY <1>3 DEF PendingAlone
  <2>1. CASE k = n
    <3>1. u = p
      <4> SUFFICES ASSUME u /= p PROVE FALSE
        OBVIOUS
      <4>1. ~Timed(u, n)'
        BY <1>2, <1>5, <1>9 DEF Timed
      <4> QED BY <1>11, <1>12, <2>1, <4>1 DEF Pending
    <3>2. NobodyElse(n)'
      <4>1. ASSUME NEW q \in Tabs, tab'[q].got /= NoDraft PROVE tab'[q].got.text /= n
        <5>1. tab'[q].got = tab[q].got
          BY <1>5, <1>6
        <5>2. tab[q].got.text \in Nat /\ tab[q].got.text <= edits
          BY <1>9, <4>1, <5>1
        <5> QED BY <1>2, <5>1, <5>2
      <4> QED BY <1>n, <4>1 DEF NobodyElse
    <3>3. ClearWaits(p, n)'
      BY <1>n DEF ClearWaits
    <3> QED BY <1>n, <2>1, <3>1, <3>2, <3>3
  <2>2. CASE k /= n
    <3>1. ~Timed(p, k)'
      BY <1>5, <1>6, <2>2 DEF Timed
    <3>2. Pending(u, k)
      BY <1>5, <1>11, <3>1 DEF Pending, Timed
    <3>3. /\ NobodyElse(k) /\ ClearWaits(u, k)
          /\ \A q \in Tabs : q /= u => ~Holds(q, k)
      BY <1>0, <3>2 DEF PendingAlone
    <3>4. NobodyElse(k)'
      <4>1. \A q \in Tabs : tab'[q].got = tab[q].got
        BY <1>5, <1>6
      <4> QED BY <1>3, <3>3, <4>1 DEF NobodyElse, Stored
    <3>5. \A q \in Tabs : q /= u => ~Holds(q, k)'
      BY <1>o, <2>2, <3>3
    <3>6. ClearWaits(u, k)'
      BY <1>5, <1>6, <3>1, <3>3 DEF ClearWaits, Timed
    <3> QED BY <3>4, <3>5, <3>6
  <2> QED BY <2>1, <2>2
<1>15. HeldByOne'
  <2> SUFFICES ASSUME NEW k \in Texts \ reopened
               PROVE  /\ \A u, q \in Tabs : Holds(u, k)' /\ Holds(q, k)' => u = q
                      /\ \A q \in Tabs : ClearsAll(q, k)'
                      /\ \A e \in sentAway : e[2] = k => \A q \in Tabs : ~Holds(q, k)'
    BY <1>3 DEF HeldByOne
  <2>1. CASE k = n
    <3>1. \A q \in Tabs : ClearsAll(q, n)'
      BY <1>n DEF ClearsAll
    <3> QED BY <1>3, <1>n, <2>1, <3>1
  <2>2. CASE k /= n
    <3>1. /\ \A u, q \in Tabs : Holds(u, k) /\ Holds(q, k) => u = q
          /\ \A q \in Tabs : ClearsAll(q, k)
          /\ \A e \in sentAway : e[2] = k => \A q \in Tabs : ~Holds(q, k)
      BY <1>0 DEF HeldByOne
    <3>2. \A q \in Tabs : ClearsAll(q, k)'
      <4> TAKE q \in Tabs
      <4>1. /\ tab'[q].body \in {n, tab[q].body} /\ tab'[q].sending = tab[q].sending
            /\ tab'[q].clearing = tab[q].clearing /\ tab'[q].ahead = tab[q].ahead
            /\ tab'[q].writes = tab[q].writes
        BY <1>5, <1>6
      <4> QED BY <2>2, <3>1, <4>1 DEF ClearsAll
    <3> QED BY <1>o, <2>2, <3>1, <3>2
  <2> QED BY <2>1, <2>2
<1>16. SentStaysAway'
  BY <1>0, <1>3 DEF SentStaysAway, Stored
<1> QED BY <1>7, <1>8, <1>10, <1>13, <1>14, <1>15, <1>16 DEF DraftInv

(***************************************************************************)
(* A text that was sent comes back as a draft only if it was both taken    *)
(* from the server and switched between reply and note, and the rows, the  *)
(* tabs and their chains stay typed (Drafts.tla).                          *)
(***************************************************************************)
THEOREM SentNeverReturns == DraftsSpec => [](DraftsTypeOK /\ SentStaysAway)
<1>1. DraftInv /\ [DraftsNext]_draftVars => DraftInv'
  <2> SUFFICES ASSUME DraftInv, [DraftsNext]_draftVars PROVE DraftInv'
    OBVIOUS
  <2>1. CASE UNCHANGED draftVars
    BY <2>1 DEF draftVars, DraftInv, DraftTypes, ChainSound, Known, OnePlace, PendingAlone,
                HeldByOne, NobodyElse, Holds, ClearWaits, ClearsAll, Pending, Timed, Chained,
                SentStaysAway, Stored
  <2>2. CASE DraftsNext
    <3> SUFFICES ASSUME NEW p \in Tabs,
                        \/ \E t \in Tickets : OpenTicket(p, t)
                        \/ \E text \in 0 .. LastEdit : Type(p, text)
                        \/ \E other \in BOOLEAN : SetKind(p, other)
                        \/ PressSend(p) \/ SendRefused(p) \/ Clear(p)
                        \/ DeleteDraft(p) \/ DeleteFails(p)
                        \/ ReadDraft(p) \/ Loaded(p) \/ LoadFails(p)
                        \/ TimerFires(p) \/ PutReads(p) \/ PutWrites(p) \/ PutFails(p)
                        \/ TakeRevision(p)
                 PROVE  DraftInv'
      BY <2>2 DEF DraftsNext
    <3>1. ASSUME NEW text \in 0 .. LastEdit, Type(p, text) PROVE DraftInv'
      BY <3>1, TypeStep, EraseStep
    <3> QED BY <3>1, OpenTicketStep, SetKindStep, PressSendStep, SendRefusedStep, ClearStep,
               DeleteDraftStep, DeleteFailsStep, ReadDraftStep, LoadedStep, LoadFailsStep,
               TimerFiresStep, PutReadsStep, PutWritesStep, PutFailsStep, TakeRevisionStep
  <2> QED BY <2>1, <2>2
<1>2. DraftInv => DraftsTypeOK /\ SentStaysAway
  <2> SUFFICES ASSUME DraftInv PROVE DraftsTypeOK
    BY DEF DraftInv
  <2>1. DraftTypes /\ ChainSound
    BY DEF DraftInv
  <2>2. \A t \in Tickets : Stored(t) => draft[t].text \in 0 .. LastEdit /\ draft[t].revision \in Nat \ {0}
    BY <2>1 DEF DraftTypes, Stored, DraftRow
  <2>3. \A p \in Tabs : /\ tab[p].open \in Tickets /\ tab[p].body \in 0 .. LastEdit
                        /\ tab[p].put /= "send" => tab[p].writes /= <<>>
                        /\ tab[p].ahead <= Len(tab[p].writes)
    BY <2>1, TabFields DEF ChainSound
  <2> QED BY <2>1, <2>2, <2>3 DEF DraftsTypeOK, DraftTypes
<1> QED BY <1>1, <1>2, DraftsStart, PTL DEF DraftsSpec

(***************************************************************************)
(* Lists that are read page by page while they change.  A page is the      *)
(* newest part of what lies below the cursor, so what is not on it lies    *)
(* below any of its rows, its last one included; that there is a last one  *)
(* needs the least number of a set.                                        *)
(***************************************************************************)
LEMMA LeastNumber ==
  ASSUME NEW T \in SUBSET Nat, T /= {}
  PROVE  \E m \in T : \A n \in T : m <= n
<1>1. IsWellFoundedOn(OpToRel(<, Nat), Nat)
  BY NatLessThanWellFounded, Zenon
<1>2. PICK m \in T : \A n \in T : ~ (<<n, m>> \in OpToRel(<, Nat))
  BY <1>1, WFMin, Zenon
<1>3. \A n \in T : ~(n < m)
  BY <1>2 DEF OpToRel
<1> QED BY <1>3

\* The newest part of a finite ordered set: Above[x] are the elements newer than x,
\* and the part takes those with less than L of them.
OrderedBy(S, Above) ==
  /\ Above \in [S -> SUBSET S]
  /\ \A x \in S : x \notin Above[x]
  /\ \A x, y \in S : y \in Above[x] => Above[y] \subseteq Above[x]
  /\ \A x, y \in S : x = y \/ x \in Above[y] \/ y \in Above[x]

PartOf(S, Above, L) == {x \in S : Cardinality(Above[x]) < L}

LEMMA NewestPart ==
  ASSUME NEW S, IsFiniteSet(S), NEW L \in Nat \ {0}, NEW Above, OrderedBy(S, Above)
  PROVE  LET page == PartOf(S, Above, L)
         IN  /\ S /= {} => \E last \in page : \A x \in page : last \notin Above[x]
             /\ \A x \in S \ page : Cardinality(S) > L /\ \A y \in page : y \in Above[x]
<1>0. PICK page : page = PartOf(S, Above, L)
  OBVIOUS
<1>a. /\ Above \in [S -> SUBSET S] /\ page = {x \in S : Cardinality(Above[x]) < L}
      /\ \A x \in S : x \notin Above[x]
      /\ \A x, y \in S : y \in Above[x] => Above[y] \subseteq Above[x]
      /\ \A x, y \in S : x = y \/ x \in Above[y] \/ y \in Above[x]
  BY <1>0 DEF OrderedBy, PartOf
<1> USE <1>a
<1>1. \A x \in S : IsFiniteSet(Above[x]) /\ Cardinality(Above[x]) \in Nat
  BY FS_Subset, FS_CardinalityType
<1>2. \A x, y \in S : y \in Above[x] => Cardinality(Above[y]) < Cardinality(Above[x])
  <2> SUFFICES ASSUME NEW x \in S, NEW y \in S, y \in Above[x]
               PROVE  Cardinality(Above[y]) < Cardinality(Above[x])
    OBVIOUS
  <2>1. PICK A : A = Above[x]
    OBVIOUS
  <2>2. PICK B : B = Above[y]
    OBVIOUS
  <2>3. IsFiniteSet(A) /\ B \in SUBSET A /\ B /= A
    BY <1>1, <2>1, <2>2
  <2>4. Cardinality(B) <= Cardinality(A) /\ Cardinality(B) /= Cardinality(A)
    BY <2>3, FS_Subset
  <2>5. Cardinality(A) \in Nat /\ Cardinality(B) \in Nat
    BY <1>1, <2>1, <2>2
  <2> QED BY <2>1, <2>2, <2>4, <2>5
<1>3. ASSUME S /= {} PROVE page /= {}
  <2> DEFINE counts == {Cardinality(Above[x]) : x \in S}
  <2>1. counts \in SUBSET Nat /\ counts /= {}
    BY <1>1, <1>3
  <2>2. PICK least \in counts : \A c \in counts : least <= c
    BY <2>1, LeastNumber
  <2>3. PICK top \in S : Cardinality(Above[top]) = least
    BY <2>2
  <2>4. Above[top] = {}
    <3> SUFFICES ASSUME NEW y \in Above[top] PROVE FALSE
      OBVIOUS
    <3>1. y \in S
      BY <2>3
    <3>2. Cardinality(Above[y]) < least /\ Cardinality(Above[y]) \in Nat /\ least \in Nat
      BY <1>1, <1>2, <2>3, <3>1
    <3>3. least <= Cardinality(Above[y])
      BY <2>2, <3>1
    <3> QED BY <3>2, <3>3
  <2>5. Cardinality(Above[top]) = 0
    BY <2>4, FS_EmptySet
  <2> QED BY <2>3, <2>5
<1>4. ASSUME page /= {} PROVE \E last \in page : \A x \in page : last \notin Above[x]
  <2> DEFINE left == {L - Cardinality(Above[x]) : x \in page}
  <2>1. left \in SUBSET Nat /\ left /= {}
    BY <1>1, <1>4
  <2>2. PICK least \in left : \A c \in left : least <= c
    BY <2>1, LeastNumber
  <2>3. PICK last \in page : L - Cardinality(Above[last]) = least
    BY <2>2
  <2>4. ASSUME NEW x \in page, last \in Above[x] PROVE FALSE
    <3>1. Cardinality(Above[last]) < Cardinality(Above[x])
      BY <1>2, <2>4
    <3>2. Cardinality(Above[last]) \in Nat /\ Cardinality(Above[x]) \in Nat
      BY <1>1
    <3>3. least <= L - Cardinality(Above[x])
      BY <2>2
    <3> QED BY <2>3, <3>1, <3>2, <3>3
  <2> QED BY <2>4
<1>5. ASSUME NEW x \in S \ page
      PROVE  Cardinality(S) > L /\ \A y \in page : y \in Above[x]
  <2>1. x \in S /\ ~(Cardinality(Above[x]) < L)
    OBVIOUS
  <2>2. PICK A : A = Above[x]
    OBVIOUS
  <2>3. A \in SUBSET S /\ A /= S /\ Cardinality(A) \in Nat
    BY <1>1, <2>1, <2>2
  <2>4. Cardinality(A) <= Cardinality(S) /\ Cardinality(A) /= Cardinality(S)
    BY <2>3, FS_Subset
  <2>5. Cardinality(S) > L
    BY <2>1, <2>2, <2>3, <2>4, FS_CardinalityType
  <2>6. ASSUME NEW y \in page, y \notin Above[x] PROVE FALSE
    <3>1. y \in S /\ Cardinality(Above[y]) < L /\ x /= y
      OBVIOUS
    <3>2. x \in Above[y]
      BY <2>1, <2>6, <3>1
    <3>3. Cardinality(Above[x]) < Cardinality(Above[y])
      BY <1>2, <2>1, <3>1, <3>2
    <3> QED BY <1>1, <2>1, <3>1, <3>3
  <2> QED BY <2>5, <2>6
<1> QED BY <1>0, <1>3, <1>4, <1>5

PagingTypes ==
  /\ stamp \in [Entries -> 0 .. tick] /\ tick \in 2 .. LastTick
  /\ listed \subseteq Entries /\ shown \subseteq Entries /\ steady \subseteq Entries
  /\ walk \in {"idle", "walking", "ended"}
  /\ (cursor = Top \/ cursor[2] \in Entries) /\ cursor \in Nat \X Nat

\* What stays is listed and there; before a walk nothing has been read.
PagingInv ==
  /\ PagingTypes
  /\ steady \subseteq {e \in listed : stamp[e] # 0}
  /\ walk = "idle" => cursor = Top /\ shown = {} /\ steady = {}
  /\ NothingSkipped

\* The order of the list.
LEMMA NewerOrder ==
  ASSUME PagingTypes, NEW e \in Entries, NEW f \in Entries
  PROVE  /\ e = f \/ Newer(e, f) \/ Newer(f, e)
         /\ ~(Newer(e, f) /\ Newer(f, e)) /\ ~Newer(e, e)
         /\ \A g \in Entries : Newer(e, f) /\ Newer(f, g) => Newer(e, g)
         /\ Newer(e, f) <=> Below(f, <<stamp[e], e>>)
<1>1. \A g \in Entries : g \in Nat /\ stamp[g] \in Nat
  BY PagingAssumption DEF PagingTypes
<1> QED BY <1>1 DEF Newer, Below

LEMMA RestTyped ==
  /\ Rest \subseteq Entries /\ IsFiniteSet(Rest) /\ PageOf(Rest) \subseteq Rest
  /\ \A S \in SUBSET Rest : IsFiniteSet(S) /\ Cardinality(S) \in Nat
  /\ Cardinality(Rest) \in Nat
<1>1. Rest \subseteq Entries
  BY DEF Rest
<1>2. IsFiniteSet(Rest)
  BY <1>1, PagingAssumption, FS_Subset
<1>3. \A S \in SUBSET Rest : IsFiniteSet(S) /\ Cardinality(S) \in Nat
  BY <1>2, FS_Subset, FS_CardinalityType
<1> QED BY <1>1, <1>2, <1>3, FS_CardinalityType DEF PageOf

\* A page has a last row, and what is not on it lies below each of its rows; there
\* is nothing of that kind unless the rest is longer than a page.
LEMMA PageIsNewest ==
  ASSUME PagingTypes
  PROVE  /\ Rest /= {} => \E e \in PageOf(Rest) : \A f \in PageOf(Rest) : ~Newer(e, f)
         /\ \A e \in Rest \ PageOf(Rest) : HasMore /\ \A f \in PageOf(Rest) : Newer(f, e)
<1>1. PICK S : S = Rest
  OBVIOUS
<1>2. PICK page : page = PageOf(Rest)
  OBVIOUS
<1>3. PICK Above : Above = [e \in S |-> {f \in S : Newer(f, e)}]
  OBVIOUS
<1>4. /\ S \subseteq Entries /\ IsFiniteSet(S) /\ page \subseteq S
      /\ Above \in [S -> SUBSET S]
      /\ \A e, f \in S : f \in Above[e] <=> Newer(f, e)
  BY <1>1, <1>2, <1>3, RestTyped
<1>5. \A e \in S : e \notin Above[e]
  BY <1>4, NewerOrder
<1>6. \A e, f \in S : f \in Above[e] => Above[f] \subseteq Above[e]
  <2> SUFFICES ASSUME NEW e \in S, NEW f \in S, f \in Above[e], NEW g \in Above[f]
               PROVE  g \in Above[e]
    OBVIOUS
  <2>1. g \in S /\ Newer(g, f) /\ Newer(f, e)
    BY <1>4
  <2>2. Newer(g, e)
    BY <1>4, <2>1, NewerOrder
  <2> QED BY <1>4, <2>1, <2>2
<1>7. \A e, f \in S : e = f \/ e \in Above[f] \/ f \in Above[e]
  BY <1>4, NewerOrder
<1>8. page = PartOf(S, Above, PageLimit)
  BY <1>1, <1>2, <1>3 DEF PageOf, PartOf
<1>9. OrderedBy(S, Above)
  BY <1>4, <1>5, <1>6, <1>7 DEF OrderedBy
<1>10. IsFiniteSet(S) /\ PageLimit \in Nat \ {0}
  BY <1>4, PagingAssumption
<1>11. /\ S /= {} => \E e \in page : \A f \in page : e \notin Above[f]
       /\ \A e \in S \ page : Cardinality(S) > PageLimit /\ \A f \in page : f \in Above[e]
  BY <1>8, <1>9, <1>10, NewestPart
<1> QED BY <1>1, <1>2, <1>4, <1>11 DEF HasMore

LEMMA FetchPageStep ==
  ASSUME PagingInv, FetchPage
  PROVE  PagingInv'
<1>1. PICK page : page = PageOf(Rest)
  OBVIOUS
<1>2. PICK last : last = CHOOSE e \in page : \A f \in page : ~Newer(e, f)
  OBVIOUS
<1>3. /\ walk = "walking" /\ shown' = shown \cup page
      /\ HasMore => cursor' = <<stamp[last], last>> /\ walk' = walk
      /\ ~HasMore => walk' = "ended" /\ cursor' = cursor
      /\ UNCHANGED <<stamp, listed, tick, steady>>
  BY <1>1, <1>2 DEF FetchPage
<1>4. /\ PagingTypes /\ steady \subseteq {e \in listed : stamp[e] # 0}
      /\ \A e \in steady : e \in shown \/ Below(e, cursor)
  BY <1>3 DEF PagingInv, NothingSkipped
<1>5. page \subseteq Rest /\ page \subseteq Entries
  BY <1>1, RestTyped
<1>6. HasMore => last \in page
  <2> SUFFICES ASSUME HasMore PROVE last \in page
    OBVIOUS
  <2>1. Rest /= {}
    BY RestTyped, FS_EmptySet, PagingAssumption DEF HasMore
  <2>2. \E e \in page : \A f \in page : ~Newer(e, f)
    BY <1>1, <1>4, <2>1, PageIsNewest
  <2> QED BY <1>2, <2>2
<1>7. \A e \in steady : e \in shown' \/ (HasMore /\ Below(e, <<stamp[last], last>>))
  <2> SUFFICES ASSUME NEW e \in steady, e \notin shown'
               PROVE  HasMore /\ Below(e, <<stamp[last], last>>)
    OBVIOUS
  <2>1. e \in Rest /\ e \notin page
    BY <1>3, <1>4 DEF Rest, PagingTypes
  <2>2. HasMore /\ \A f \in page : Newer(f, e)
    BY <1>1, <1>4, <2>1, PageIsNewest
  <2>3. last \in Entries /\ e \in Entries /\ Newer(last, e)
    BY <1>5, <1>6, <2>1, <2>2, RestTyped
  <2> QED BY <1>4, <2>2, <2>3, NewerOrder
<1>8. PagingTypes'
  <2>1. cursor' \in Nat \X Nat /\ (cursor' = Top \/ cursor'[2] \in Entries)
    <3>1. CASE HasMore
      <4>1. last \in Entries /\ last \in Nat
        BY <1>5, <1>6, <3>1, PagingAssumption
      <4>2. stamp[last] \in Nat
        BY <1>4, <4>1 DEF PagingTypes
      <4> QED BY <1>3, <3>1, <4>1, <4>2
    <3>2. CASE ~HasMore
      BY <1>3, <1>4, <3>2 DEF PagingTypes
    <3> QED BY <3>1, <3>2
  <2>2. Top' = Top
    BY DEF Top
  <2> QED BY <1>3, <1>4, <1>5, <2>1, <2>2 DEF PagingTypes
<1>9. NothingSkipped'
  <2>1. CASE HasMore
    <3>1. walk' = "walking" /\ cursor' = <<stamp[last], last>>
      BY <1>3, <2>1
    <3> QED BY <1>3, <1>7, <3>1 DEF NothingSkipped, Below
  <2>2. CASE ~HasMore
    <3>1. walk' = "ended"
      BY <1>3, <2>2
    <3> QED BY <1>3, <1>7, <2>2, <3>1 DEF NothingSkipped
  <2> QED BY <2>1, <2>2
<1>10. walk' /= "idle"
  BY <1>3
<1> QED BY <1>3, <1>4, <1>8, <1>9, <1>10 DEF PagingInv

(***************************************************************************)
(* Whatever happens between two pages, and however many rows share a time, *)
(* a row that stays as it is is found; and rows and cursors stay typed     *)
(* (QueuePaging.tla).                                                      *)
(***************************************************************************)
THEOREM WalksFindAll == PagingSpec => [](PagingTypeOK /\ NothingSkipped)
<1>1. PagingInit => PagingInv
  <2> SUFFICES ASSUME PagingInit PROVE PagingInv
    OBVIOUS
  <2>1. PagingTypes
    BY PagingAssumption DEF PagingInit, PagingTypes, Top
  <2> QED BY <2>1 DEF PagingInit, PagingInv, NothingSkipped
<1>2. PagingInv /\ [PagingNext]_pagingVars => PagingInv'
  <2> SUFFICES ASSUME PagingInv, [PagingNext]_pagingVars PROVE PagingInv'
    OBVIOUS
  <2>0. /\ PagingTypes /\ steady \subseteq {e \in listed : stamp[e] # 0}
        /\ walk = "idle" => cursor = Top /\ shown = {} /\ steady = {}
        /\ walk = "ended" => steady \subseteq shown
        /\ walk = "walking" => \A e \in steady : e \in shown \/ Below(e, cursor)
        /\ Top' = Top
    BY DEF PagingInv, NothingSkipped, Top
  <2>1. CASE UNCHANGED pagingVars
    BY <2>0, <2>1 DEF pagingVars, PagingInv, PagingTypes, NothingSkipped, Below
  <2>2. CASE StartWalk
    <3>1. /\ walk = "idle" /\ walk' = "walking" /\ steady' = {e \in listed : stamp[e] # 0}
          /\ UNCHANGED <<stamp, listed, tick, cursor, shown>> /\ cursor = Top
      BY <2>0, <2>2 DEF StartWalk
    <3>2. PagingTypes'
      BY <2>0, <3>1 DEF PagingTypes
    <3>3. \A e \in steady' : Below(e, cursor)'
      <4> SUFFICES ASSUME NEW e \in steady' PROVE stamp[e] < LastTick + 1
        BY <3>1 DEF Below, Top
      <4> QED BY <2>0, <3>1, PagingAssumption DEF PagingTypes
    <3> QED BY <3>1, <3>2, <3>3 DEF PagingInv, NothingSkipped
  <2>3. CASE FetchPage
    BY <2>3, FetchPageStep
  <2>4. CASE Refetch
    <3>1. cursor' \in Nat \X Nat /\ cursor' = Top
      BY <2>4, PagingAssumption DEF Refetch, Top
    <3>2. PagingTypes'
      BY <2>0, <2>4, <3>1 DEF Refetch, PagingTypes
    <3> QED BY <2>0, <2>4, <3>1, <3>2 DEF Refetch, PagingInv, NothingSkipped
  <2>5. CASE ClockTicks
    <3>1. PagingTypes'
      BY <2>0, <2>5, PagingAssumption DEF ClockTicks, PagingTypes
    <3> QED BY <2>0, <2>5, <3>1 DEF ClockTicks, PagingInv, NothingSkipped, Below
  <2>6. ASSUME NEW e \in Entries, Update(e) PROVE PagingInv'
    <3>1. PagingTypes'
      BY <2>0, <2>6 DEF Update, PagingTypes
    <3>2. \A f \in steady' : f \in steady /\ f /= e /\ stamp'[f] = stamp[f] /\ f \in listed'
      BY <2>0, <2>6 DEF Update, PagingTypes
    <3>3. \A f \in steady' : Below(f, cursor)' <=> Below(f, cursor)
      BY <2>6, <3>2 DEF Update, Below
    <3> QED BY <2>0, <2>6, <3>1, <3>2, <3>3 DEF Update, PagingInv, NothingSkipped
  <2>7. ASSUME NEW e \in Entries, Reappear(e) PROVE PagingInv'
    <3>1. PagingTypes'
      BY <2>0, <2>7 DEF Reappear, PagingTypes
    <3> QED BY <2>0, <2>7, <3>1 DEF Reappear, PagingInv, NothingSkipped, Below
  <2>8. ASSUME NEW e \in Entries, Erase(e) PROVE PagingInv'
    <3>1. PagingTypes'
      BY <2>0, <2>8 DEF Erase, PagingTypes
    <3>2. \A f \in steady' : f \in steady /\ f /= e /\ stamp'[f] = stamp[f] /\ f \in listed'
      BY <2>0, <2>8 DEF Erase, PagingTypes
    <3>3. \A f \in steady' : Below(f, cursor)' <=> Below(f, cursor)
      BY <2>8, <3>2 DEF Erase, Below
    <3> QED BY <2>0, <2>8, <3>1, <3>2, <3>3 DEF Erase, PagingInv, NothingSkipped
  <2> QED BY <2>1, <2>2, <2>3, <2>4, <2>5, <2>6, <2>7, <2>8 DEF PagingNext
<1>3. PagingInv => PagingTypeOK /\ NothingSkipped
  BY DEF PagingInv, PagingTypes, PagingTypeOK
<1> QED BY <1>1, <1>2, <1>3, PTL DEF PagingSpec

(***************************************************************************)
(* A conversation that is read page by page while it grows.                *)
(***************************************************************************)
PageRow == [asked : Nat, shown : SUBSET Notes, below : Nat \X Nat, more : BOOLEAN,
            base : SUBSET Notes]

ThreadTypes ==
  /\ moment \in 1 .. LastMoment
  /\ note \in [Notes -> [at : {"none", "taken", "posted", "told", "gone"}, time : Nat]]
  /\ \A n \in Notes : note[n].time <= moment
  /\ held \in PageRow
  /\ load \in [at : {"idle", "read", "mark"}, goal : Nat, got : PageRow]

\* The messages that have been posted at some time: the others are none of the
\* reader's, and none of these changes its place.
Came == {n \in Notes : note[n].at \in {"posted", "told", "gone"}}

\* A set of pages has no hole.
NoHole(pages) ==
  /\ pages.base \subseteq Came
  /\ \A n \in pages.base \cap There : (pages.more => ~Before(Key(n), pages.below)) => n \in pages.shown

\* The pages on the screen, and those of the fetch under way, which goes on only
\* where there is more.
ThreadInv ==
  /\ ThreadTypes
  /\ NoHole(held) /\ NoHole(load.got)
  /\ load.at = "read" => load.got.more

LEMMA ThreadFacts ==
  ASSUME ThreadTypes
  PROVE  /\ There \subseteq Came /\ Came \subseteq Notes
         /\ \A n \in Notes : n \in Nat /\ note[n].time \in Nat
         /\ \A n \in Notes : note[n].time < LastMoment + 1
         /\ NoPages \in PageRow /\ NoPages.more /\ NoPages.base = {}
         /\ NoPages.below = <<LastMoment + 1, 0>>
         /\ load.got \in PageRow
<1>1. \A n \in Notes : note[n].time \in Nat /\ note[n].time <= moment
  BY DEF ThreadTypes
<1>2. LastMoment + 1 \in Nat /\ moment \in Nat /\ moment <= LastMoment
  BY ConversationAssumption DEF ThreadTypes
<1>3. \A n \in Notes : note[n].time < LastMoment + 1
  BY <1>1, <1>2, ConversationAssumption
<1>4. NoPages \in PageRow
  <2>1. <<LastMoment + 1, 0>> \in Nat \X Nat /\ {} \in SUBSET Notes /\ 0 \in Nat
    BY <1>2
  <2> QED BY <2>1 DEF NoPages, PageRow
<1> QED BY <1>1, <1>3, <1>4, ConversationAssumption DEF ThreadTypes, NoPages, There, Came

\* Pages stay whole while messages come and go: a message that came keeps its
\* place or goes, and none comes back.
LEMMA WritingKeeps ==
  ASSUME ThreadInv, ThreadTypes', UNCHANGED <<held, load>>,
         \A n \in Came : n \in Came' /\ note'[n].time = note[n].time,
         \A n \in Came : n \in There' => n \in There
  PROVE  ThreadInv'
<1>1. ASSUME NEW pages \in PageRow, NoHole(pages) PROVE NoHole(pages)'
  <2>1. pages.base \subseteq Came'
    BY <1>1 DEF NoHole
  <2>2. ASSUME NEW n \in pages.base, n \in There', pages.more => ~Before(Key(n)', pages.below)
        PROVE  n \in pages.shown
    <3>1. n \in Came /\ n \in There /\ Key(n)' = Key(n)
      BY <1>1, <2>2 DEF NoHole, Key
    <3> QED BY <1>1, <2>2, <3>1 DEF NoHole
  <2> QED BY <2>1, <2>2 DEF NoHole
<1>2. held \in PageRow /\ load.got \in PageRow
  BY ThreadFacts DEF ThreadInv, ThreadTypes
<1>3. NoHole(held)' /\ NoHole(load.got)'
  BY <1>1, <1>2 DEF ThreadInv
<1> QED BY <1>3 DEF ThreadInv

LEMMA OneNoteMoves ==
  ASSUME ThreadInv, NEW n \in Notes, NEW to \in {"taken", "posted", "told", "gone"},
         NEW t \in Nat, t <= moment, note' = [note EXCEPT ![n] = [at |-> to, time |-> t]],
         n \in Came => t = note[n].time /\ to /= "taken",
         to \in {"posted", "told"} /\ n \in Came => n \in There,
         UNCHANGED <<moment, held, load>>
  PROVE  ThreadInv'
<1>1. ThreadTypes
  BY DEF ThreadInv
<1>2. PICK row : row = [at |-> to, time |-> t]
  OBVIOUS
<1>3. /\ row \in [at : {"none", "taken", "posted", "told", "gone"}, time : Nat]
      /\ row.at = to /\ row.time = t
  BY <1>2
<1>4. /\ note' = [note EXCEPT ![n] = row] /\ note'[n] = row
      /\ \A m \in Notes : m /= n => note'[m] = note[m]
  BY <1>1, <1>2 DEF ThreadTypes
<1>5. ThreadTypes'
  <2>1. \A m \in Notes : note'[m].time <= moment
    BY <1>1, <1>3, <1>4 DEF ThreadTypes
  <2> QED BY <1>1, <1>3, <1>4, <2>1 DEF ThreadTypes
<1>6. \A m \in Came : m \in Came' /\ note'[m].time = note[m].time
  BY <1>3, <1>4 DEF Came
<1>7. \A m \in Came : m \in There' => m \in There
  BY <1>3, <1>4 DEF Came, There
<1> QED BY <1>5, <1>6, <1>7, WritingKeeps

\* The window is the newest part of what lies below the cursor.
LEMMA WindowIsNewest ==
  ASSUME ThreadTypes, NEW below
  PROVE  /\ Older(below) /= {} =>
              \E e \in Window(below) : \A f \in Window(below) : ~Before(Key(f), Key(e))
         /\ Window(below) \subseteq Older(below) /\ Older(below) \subseteq There
         /\ Cardinality(Older(below)) \in Nat
         /\ Cardinality(Older(below)) > WindowSize => Older(below) /= {}
         /\ \A e \in Older(below) \ Window(below) :
              /\ Cardinality(Older(below)) > WindowSize
              /\ \A f \in Window(below) : ~Before(Key(f), Key(e))
              /\ \A f \in Window(below) : Before(Key(e), Key(f))
<1>1. PICK S : S = Older(below)
  OBVIOUS
<1>2. PICK page : page = Window(below)
  OBVIOUS
<1>3. PICK Above : Above = [e \in S |-> {f \in S : Before(Key(e), Key(f))}]
  OBVIOUS
<1>4. /\ S \subseteq There /\ S \subseteq Notes /\ page \subseteq S
      /\ Above \in [S -> SUBSET S]
      /\ \A e, f \in S : f \in Above[e] <=> Before(Key(e), Key(f))
  BY <1>1, <1>2, <1>3 DEF Older, Window, There
<1>5. IsFiniteSet(S) /\ Cardinality(S) \in Nat
  BY <1>4, ConversationAssumption, FS_Subset, FS_CardinalityType
<1>6. \A e \in S : e \in Nat /\ note[e].time \in Nat /\ Key(e)[1] = note[e].time /\ Key(e)[2] = e
  BY <1>4, ThreadFacts DEF Key
<1>7. /\ \A e \in S : ~Before(Key(e), Key(e))
      /\ \A e, f \in S : ~(Before(Key(e), Key(f)) /\ Before(Key(f), Key(e)))
      /\ \A e, f, g \in S : Before(Key(e), Key(f)) /\ Before(Key(f), Key(g)) => Before(Key(e), Key(g))
      /\ \A e, f \in S : e = f \/ Before(Key(e), Key(f)) \/ Before(Key(f), Key(e))
  BY <1>6 DEF Before
<1>8. \A e, f \in S : f \in Above[e] => Above[f] \subseteq Above[e]
  <2> SUFFICES ASSUME NEW e \in S, NEW f \in S, f \in Above[e], NEW g \in Above[f]
               PROVE  g \in Above[e]
    OBVIOUS
  <2>1. g \in S /\ Before(Key(f), Key(g)) /\ Before(Key(e), Key(f))
    BY <1>4
  <2> QED BY <1>4, <1>7, <2>1
<1>9. OrderedBy(S, Above)
  <2>1. \A e \in S : e \notin Above[e]
    BY <1>4, <1>7
  <2>2. \A e, f \in S : e = f \/ e \in Above[f] \/ f \in Above[e]
    BY <1>4, <1>7
  <2> QED BY <1>4, <1>8, <2>1, <2>2 DEF OrderedBy
<1>10. page = PartOf(S, Above, WindowSize)
  BY <1>1, <1>2, <1>3 DEF Window, PartOf
<1>11. IsFiniteSet(S) /\ WindowSize \in Nat \ {0}
  BY <1>5, ConversationAssumption
<1>12. /\ S /= {} => \E e \in page : \A f \in page : e \notin Above[f]
       /\ \A e \in S \ page : Cardinality(S) > WindowSize /\ \A f \in page : f \in Above[e]
  BY <1>9, <1>10, <1>11, NewestPart
<1>13. S /= {} => \E e \in page : \A f \in page : ~Before(Key(f), Key(e))
  BY <1>4, <1>12
<1>14. \A e \in S \ page : /\ Cardinality(S) > WindowSize
                           /\ \A f \in page : Before(Key(e), Key(f)) /\ ~Before(Key(f), Key(e))
  BY <1>4, <1>7, <1>12
<1>15. Cardinality(S) > WindowSize => S /= {}
  BY <1>11, FS_EmptySet
<1> QED BY <1>1, <1>2, <1>4, <1>5, <1>13, <1>14, <1>15

LEMMA ReadWindowStep ==
  ASSUME ThreadInv, ReadWindow
  PROVE  ThreadInv'
<1>1. ThreadTypes /\ load.at = "read" /\ UNCHANGED <<moment, note, held>>
  BY DEF ThreadInv, ReadWindow, writing
<1>2. PICK got : got = load.got
  OBVIOUS
<1>3. PICK page : page = Window(got.below)
  OBVIOUS
<1> DEFINE more == Cardinality(Older(got.below)) > WindowSize
<1>4. more = (Cardinality(Older(got.below)) > WindowSize)
  OBVIOUS
<1>5. PICK last : last = CHOOSE n \in page : \A m \in page : ~Before(Key(m), Key(n))
  OBVIOUS
<1> DEFINE b == IF more THEN Key(last) ELSE got.below
<1>6. b = IF more THEN Key(last) ELSE got.below
  OBVIOUS
<1> DEFINE g == [got EXCEPT !.asked = @ + 1, !.shown = @ \cup page, !.more = more, !.below = b]
<1>7. load' = [load EXCEPT !.at = "mark", !.got = g]
  BY <1>2, <1>3, <1>5 DEF ReadWindow
<1>a. more \in BOOLEAN
  BY <1>1, WindowIsNewest, ConversationAssumption
<1> HIDE DEF more, b
<1>8. got \in PageRow /\ NoHole(got) /\ got.more
  BY <1>1, <1>2, ThreadFacts DEF ThreadInv
<1>9. page \subseteq There /\ page \subseteq Notes
  BY <1>1, <1>3, WindowIsNewest DEF There
<1>10. more => last \in page
  BY <1>1, <1>3, <1>4, <1>5, WindowIsNewest
<1>11. b \in Nat \X Nat
  BY <1>1, <1>6, <1>8, <1>9, <1>10, ThreadFacts DEF PageRow, Key
<1>12. /\ g \in PageRow /\ g.base = got.base /\ g.shown = got.shown \cup page
       /\ g.more = more /\ g.below = b
  <2>1. /\ got.asked + 1 \in Nat /\ got.shown \cup page \in SUBSET Notes
        /\ got.base \in SUBSET Notes
    BY <1>8, <1>9 DEF PageRow
  <2>2. g \in PageRow
    BY <1>8, <1>11, <1>a, <2>1 DEF PageRow
  <2>3. /\ g.base = got.base /\ g.shown = got.shown \cup page
        /\ g.more = more /\ g.below = b
    BY <1>8 DEF PageRow
  <2> QED BY <2>2, <2>3
<1> HIDE DEF g
<1>b. PICK pages : pages = g
  OBVIOUS
<1>13. ThreadTypes' /\ load'.got = pages /\ load'.at = "mark"
  BY <1>1, <1>7, <1>12, <1>b DEF ThreadTypes
<1>14. ASSUME NEW n \in got.base \cap There, more => ~Before(Key(n), b), n \notin got.shown
       PROVE  n \in page
  <2>1. n \in Older(got.below)
    BY <1>8, <1>14 DEF NoHole, Older
  <2>2. CASE ~more
    BY <1>1, <1>3, <1>4, <2>1, <2>2, WindowIsNewest
  <2>3. CASE more
    <3>1. last \in page /\ b = Key(last)
      BY <1>6, <1>10, <2>3
    <3> QED BY <1>1, <1>3, <1>14, <2>1, <2>3, <3>1, WindowIsNewest
  <2> QED BY <2>2, <2>3
<1>15. There' = There /\ Came' = Came /\ \A n : Key(n)' = Key(n)
  BY <1>1 DEF There, Came, Key
<1>16. NoHole(pages)'
  <2>1. pages.base \subseteq Came
    BY <1>8, <1>12, <1>b DEF NoHole
  <2>2. \A n \in pages.base \cap There : (pages.more => ~Before(Key(n), pages.below)) => n \in pages.shown
    BY <1>12, <1>14, <1>b
  <2> QED BY <1>15, <2>1, <2>2 DEF NoHole
<1>17. NoHole(held)'
  <2>1. NoHole(held')
    BY <1>1 DEF ThreadInv
  <2> QED BY <1>15, <2>1 DEF NoHole
<1> QED BY <1>13, <1>16, <1>17 DEF ThreadInv

\* A step of the client that takes over pages it has, or starts anew.
LEMMA ClientKeeps ==
  ASSUME ThreadInv, UNCHANGED <<moment, note>>, held' \in {held, load.got},
         load' \in [at : {"idle", "read", "mark"}, goal : Nat, got : PageRow],
         NoHole(load'.got), load'.at = "read" => load'.got.more
  PROVE  ThreadInv'
<1>1. /\ There' = There /\ Came' = Came /\ \A n : Key(n)' = Key(n)
      /\ ThreadTypes /\ NoHole(held) /\ NoHole(load.got)
  BY DEF There, Came, Key, ThreadInv
<1>2. ThreadTypes'
  BY <1>1, ThreadFacts DEF ThreadTypes
<1>3. NoHole(held')
  BY <1>1
<1>4. NoHole(held)' /\ NoHole(load.got)'
  BY <1>1, <1>3 DEF NoHole
<1> QED BY <1>2, <1>4 DEF ThreadInv

(***************************************************************************)
(* The conversation on the screen has no hole, for any number of messages  *)
(* and size of the window (Conversation.tla).                              *)
(***************************************************************************)
THEOREM ThreadHasNoHole == ThreadSpec => []NoHoleInThread
<1>1. ThreadInit => ThreadInv
  <2> SUFFICES ASSUME ThreadInit PROVE ThreadInv
    OBVIOUS
  <2>1. PICK first \in Notes :
          note = [n \in Notes |-> IF n = first THEN [at |-> "told", time |-> 1]
                                  ELSE [at |-> "none", time |-> 0]]
    BY DEF ThreadInit
  <2>2. [at |-> "told", time |-> 1] \in [at : {"none", "taken", "posted", "told", "gone"}, time : Nat]
    OBVIOUS
  <2>3. [at |-> "none", time |-> 0] \in [at : {"none", "taken", "posted", "told", "gone"}, time : Nat]
    OBVIOUS
  <2>4. /\ note \in [Notes -> [at : {"none", "taken", "posted", "told", "gone"}, time : Nat]]
        /\ \A n \in Notes : note[n].time <= 1
    BY <2>1, <2>2, <2>3
  <2>5. NoPages \in PageRow /\ NoPages.base = {}
    <3>1. <<LastMoment + 1, 0>> \in Nat \X Nat /\ {} \in SUBSET Notes /\ 0 \in Nat
      BY ConversationAssumption
    <3> QED BY <3>1 DEF NoPages, PageRow
  <2>6. /\ moment = 1 /\ held = NoPages
        /\ load.at = "idle" /\ load.got = NoPages
        /\ load \in [at : {"idle", "read", "mark"}, goal : Nat, got : PageRow]
    BY <2>5 DEF ThreadInit
  <2>7. ThreadTypes
    BY <2>4, <2>5, <2>6, ConversationAssumption DEF ThreadTypes
  <2> QED BY <2>5, <2>6, <2>7 DEF ThreadInv, NoHole
<1>2. ThreadInv /\ [ThreadNext]_threadVars => ThreadInv'
  <2> SUFFICES ASSUME ThreadInv, [ThreadNext]_threadVars PROVE ThreadInv'
    OBVIOUS
  <2>0. /\ ThreadTypes /\ NoHole(held) /\ NoHole(load.got)
        /\ load.at = "read" => load.got.more
        /\ held \in PageRow /\ load.got \in PageRow
        /\ load \in [at : {"idle", "read", "mark"}, goal : Nat, got : PageRow]
        /\ moment \in Nat
        /\ \A n \in Notes : note[n] \in [at : {"none", "taken", "posted", "told", "gone"}, time : Nat]
    BY ThreadFacts DEF ThreadInv, ThreadTypes
  <2>1. CASE UNCHANGED threadVars
    <3>1. ThreadTypes'
      BY <2>0, <2>1 DEF threadVars, ThreadTypes
    <3>2. \A n \in Came : n \in Came' /\ note'[n].time = note[n].time
      BY <2>1 DEF threadVars, Came
    <3>3. \A n \in Came : n \in There' => n \in There
      BY <2>1 DEF threadVars, There
    <3> QED BY <2>1, <3>1, <3>2, <3>3, WritingKeeps DEF threadVars
  <2>2. ASSUME NEW n \in Notes, TakeTime(n) PROVE ThreadInv'
    <3>1. moment <= moment /\ n \notin Came
      BY <2>0, <2>2 DEF TakeTime, Came
    <3> QED BY <2>0, <2>2, <3>1, OneNoteMoves DEF TakeTime
  <2>3. ASSUME NEW n \in Notes, NEW to \in {"posted", "told", "gone"},
               note[n].at \in {"taken", "posted"}, to = "gone" => note[n].at = "posted",
               note' = [note EXCEPT ![n].at = to], UNCHANGED <<moment, held, load>>
        PROVE  ThreadInv'
    <3>1. PICK t : t = note[n].time
      OBVIOUS
    <3>2. t \in Nat /\ t <= moment
      BY <2>0, <3>1 DEF ThreadTypes
    <3>3. [note[n] EXCEPT !.at = to] = [at |-> to, time |-> t]
      BY <2>0, <3>1
    <3>4. note' = [note EXCEPT ![n] = [at |-> to, time |-> t]]
      BY <2>3, <3>3
    <3>5. n \in Came => n \in There
      BY <2>3 DEF Came, There
    <3> QED BY <2>3, <3>1, <3>2, <3>4, <3>5, OneNoteMoves
  <2>4. ASSUME NEW n \in Notes,
               MailArrives(n) \/ ReplyArrives(n) \/ ReplyTouches(n) \/ ReplyUnwinds(n)
        PROVE  ThreadInv'
    <3>1. /\ \E to \in {"posted", "told", "gone"} :
               /\ note' = [note EXCEPT ![n].at = to]
               /\ to = "gone" => note[n].at = "posted"
          /\ note[n].at \in {"taken", "posted"} /\ UNCHANGED <<moment, held, load>>
      BY <2>4 DEF MailArrives, ReplyArrives, ReplyTouches, ReplyUnwinds
    <3> QED BY <2>3, <3>1
  <2>5. CASE Passes1ms
    <3>1. ThreadTypes'
      BY <2>0, <2>5, ConversationAssumption DEF Passes1ms, ThreadTypes
    <3>2. \A n \in Came : n \in Came' /\ note'[n].time = note[n].time
      BY <2>5 DEF Passes1ms, Came
    <3>3. \A n \in Came : n \in There' => n \in There
      BY <2>5 DEF Passes1ms, There
    <3> QED BY <2>5, <3>1, <3>2, <3>3, WritingKeeps DEF Passes1ms
  <2>6. CASE ReadWindow
    BY <2>6, ReadWindowStep
  <2>7. CASE MarkRead
    <3>1. UNCHANGED <<moment, note>>
      BY <2>7 DEF MarkRead, writing
    <3>2. CASE load.got.more /\ load.got.asked < load.goal
      <4>1. load' = [load EXCEPT !.at = "read"] /\ held' = held
        BY <2>7, <3>2 DEF MarkRead
      <4>2. /\ load' \in [at : {"idle", "read", "mark"}, goal : Nat, got : PageRow]
            /\ load'.got = load.got
        BY <2>0, <4>1
      <4> QED BY <2>0, <3>1, <3>2, <4>1, <4>2, ClientKeeps
    <3>3. CASE ~(load.got.more /\ load.got.asked < load.goal)
      <4>1. load' = [load EXCEPT !.at = "idle", !.got = NoPages] /\ held' = load.got
        BY <2>7, <3>3 DEF MarkRead
      <4>2. NoPages \in PageRow /\ NoHole(NoPages)
        BY <2>0, ThreadFacts DEF NoHole
      <4>3. /\ load' \in [at : {"idle", "read", "mark"}, goal : Nat, got : PageRow]
            /\ load'.got = NoPages /\ load'.at = "idle"
        BY <2>0, <4>1, <4>2
      <4> QED BY <3>1, <4>1, <4>2, <4>3, ClientKeeps
    <3> QED BY <3>2, <3>3
  <2>8. CASE FetchPages
    <3>1. PICK g : g = [NoPages EXCEPT !.base = There]
      OBVIOUS
    <3>2. PICK goal : goal = IF held.asked = 0 THEN 1 ELSE held.asked
      OBVIOUS
    <3>3. load' = [at |-> "read", goal |-> goal, got |-> g] /\ UNCHANGED <<moment, note, held>>
      BY <2>8, <3>1, <3>2 DEF FetchPages, writing
    <3>4. /\ g \in PageRow /\ g.more /\ g.base = There /\ g.below = <<LastMoment + 1, 0>>
      BY <2>0, <3>1, ThreadFacts DEF PageRow, There
    <3>5. goal \in Nat
      BY <2>0, <3>2 DEF PageRow
    <3>6. \A n \in There : Before(Key(n), g.below)
      BY <2>0, <3>4, ThreadFacts DEF Before, Key, There
    <3>7. NoHole(g)
      BY <2>0, <3>4, <3>6, ThreadFacts DEF NoHole
    <3>8. /\ load' \in [at : {"idle", "read", "mark"}, goal : Nat, got : PageRow]
          /\ load'.got = g
      BY <3>3, <3>4, <3>5
    <3> QED BY <3>3, <3>4, <3>7, <3>8, ClientKeeps
  <2>9. CASE LoadOlder
    <3>1. PICK goal : goal = held.asked + 1
      OBVIOUS
    <3>2. load' = [at |-> "read", goal |-> goal, got |-> held] /\ UNCHANGED <<moment, note, held>>
          /\ held.more
      BY <2>9, <3>1 DEF LoadOlder, writing
    <3>3. goal \in Nat
      BY <2>0, <3>1 DEF PageRow
    <3>4. /\ load' \in [at : {"idle", "read", "mark"}, goal : Nat, got : PageRow]
          /\ load'.got = held
      BY <2>0, <3>2, <3>3
    <3> QED BY <2>0, <3>2, <3>4, ClientKeeps
  <2>10. CASE FetchFails
    <3>1. load' = [load EXCEPT !.at = "idle", !.got = NoPages] /\ UNCHANGED <<moment, note, held>>
      BY <2>10 DEF FetchFails, writing
    <3>2. NoPages \in PageRow /\ NoHole(NoPages)
      BY <2>0, ThreadFacts DEF NoHole
    <3>3. /\ load' \in [at : {"idle", "read", "mark"}, goal : Nat, got : PageRow]
          /\ load'.got = NoPages /\ load'.at = "idle"
      BY <2>0, <3>1, <3>2
    <3> QED BY <3>1, <3>2, <3>3, ClientKeeps
  <2> QED BY <2>1, <2>2, <2>4, <2>5, <2>6, <2>7, <2>8, <2>9, <2>10 DEF ThreadNext
<1>3. ThreadInv => NoHoleInThread
  BY DEF ThreadInv, NoHole, NoHoleInThread
<1> QED BY <1>1, <1>2, <1>3, PTL DEF ThreadSpec

(***************************************************************************)
(* Working hours.  Away from the change of the clock FromLocal finds the   *)
(* instant of a local time (ClearIsExact); a calm change touches neither a *)
(* midnight nor an open minute, so a date's instants lie between two       *)
(* midnights (DayBegins) and the rest of its window is one stretch of      *)
(* instants (OpenRest).  Each round of the two loops therefore adds the    *)
(* minutes worked until the next midnight (AddStep, CountStep).  What the  *)
(* loops compute follows by induction on the number of days left to scan:  *)
(* if they failed for some number they would for a least one.              *)
(***************************************************************************)
\* The sample a behavior computes.
PolicyInput == /\ zone \in Zones /\ hours \in Schedules
               /\ start \in Starts /\ amount \in Amounts
\* Local times without one instant.
Unclear == Skipped \cup Repeated

\* Division and its remainder, by any positive number.
LEMMA DivMod ==
  ASSUME NEW x \in Int, NEW y \in Nat \ {0}
  PROVE  /\ x \div y \in Int /\ x % y \in Int
         /\ x % y = x - y * (x \div y) /\ 0 <= x % y /\ x % y < y
<1>1. x \div y \in Int /\ x % y \in Int /\ 0 <= x % y /\ x % y < y
  OBVIOUS
<1>2. x % y = x - y * (x \div y)
  BY SMTT(30)
<1> QED BY <1>1, <1>2

LEMMA DivModUnique ==
  ASSUME NEW d \in Int, NEW y \in Nat \ {0}, NEW m \in Int, 0 <= m, m < y
  PROVE  (d * y + m) \div y = d /\ (d * y + m) % y = m
OBVIOUS

LEMMA NextMultiple ==
  ASSUME NEW d \in Int, NEW y \in Int
  PROVE  (d + 1) * y = d * y + y /\ d * y \in Int
OBVIOUS

LEMMA ZoneTyped ==
  ASSUME PolicyInput
  PROVE  /\ zone.before \in Int /\ zone.after \in Int /\ zone.at \in Int
         /\ start \in Int /\ amount \in Int
         /\ DayLength \in Int /\ DayLength > 0
BY PolicyAssumption DEF PolicyInput

LEMMA ClockTyped ==
  ASSUME PolicyInput, NEW x \in Int
  PROVE  /\ OffsetAt(x) \in {zone.before, zone.after} /\ OffsetAt(x) \in Int
         /\ ToLocal(x) \in Int /\ FromLocal(x) \in Int
         /\ DateOf(x) \in Int /\ MinuteOf(x) \in Int
         /\ NextLocalMidnight(x) \in Int
<1>1. \A y \in Int : OffsetAt(y) \in {zone.before, zone.after} /\ OffsetAt(y) \in Int
  BY ZoneTyped DEF OffsetAt
<1>2. \A y \in Int : ToLocal(y) \in Int /\ FromLocal(y) \in Int
  BY <1>1 DEF ToLocal, FromLocal
<1>3. DateOf(x) \in Int /\ MinuteOf(x) \in Int
  BY ZoneTyped, PolicyAssumption, DivMod DEF DateOf, MinuteOf
<1>4. (DateOf(x) + 1) * DayLength \in Int
  BY <1>3, ZoneTyped
<1> QED BY <1>1, <1>2, <1>3, <1>4 DEF NextLocalMidnight

\* A local time is its date and its minute.
LEMMA DateAndMinute ==
  ASSUME PolicyInput, NEW x \in Int
  PROVE  /\ x = DateOf(x) * DayLength + MinuteOf(x)
         /\ 0 <= MinuteOf(x) /\ MinuteOf(x) < DayLength
         /\ DateOf(x) * DayLength \in Int
<1>1. /\ MinuteOf(x) = x - DayLength * DateOf(x)
      /\ 0 <= MinuteOf(x) /\ MinuteOf(x) < DayLength
  BY DivMod, PolicyAssumption DEF DateOf, MinuteOf
<1>2. PICK d \in Int : d = DateOf(x)
  BY ClockTyped
<1>3. PICK m \in Int : m = MinuteOf(x)
  BY ClockTyped
<1>4. x = d * DayLength + m /\ d * DayLength \in Int
  BY <1>1, <1>2, <1>3, ZoneTyped
<1> QED BY <1>1, <1>2, <1>3, <1>4

LEMMA OnDate ==
  ASSUME PolicyInput, NEW d \in Int, NEW m \in 0..(DayLength - 1)
  PROVE  DateOf(d * DayLength + m) = d /\ MinuteOf(d * DayLength + m) = m
BY ZoneTyped, DivModUnique, PolicyAssumption DEF DateOf, MinuteOf

\* A date's local times are those from its midnight to the next.
LEMMA DateOrder ==
  ASSUME PolicyInput, NEW x \in Int, NEW d \in Int
  PROVE  DateOf(x) = d <=> d * DayLength <= x /\ x < (d + 1) * DayLength
<1>1. (d + 1) * DayLength = d * DayLength + DayLength /\ d * DayLength \in Int
  BY NextMultiple, ZoneTyped
<1>2. ASSUME DateOf(x) = d
      PROVE  d * DayLength <= x /\ x < (d + 1) * DayLength
  <2>1. x = d * DayLength + MinuteOf(x) /\ 0 <= MinuteOf(x) /\ MinuteOf(x) < DayLength
    BY <1>2, DateAndMinute
  <2> QED BY <1>1, <2>1, ClockTyped, ZoneTyped
<1>3. ASSUME d * DayLength <= x, x < (d + 1) * DayLength
      PROVE  DateOf(x) = d
  <2> DEFINE m == x - d * DayLength
  <2>1. m \in 0..(DayLength - 1) /\ x = d * DayLength + m
    BY <1>1, <1>3, ZoneTyped
  <2> QED BY <2>1, OnDate
<1> QED BY <1>2, <1>3

\* Away from the change of the clock FromLocal finds the instant of a local time,
\* and what is before it on the clock is before it in time.
LEMMA ClearIsExact ==
  ASSUME PolicyInput, NEW x \in Int, x \notin Unclear
  PROVE  /\ ToLocal(FromLocal(x)) = x
         /\ \A ms \in Int : ms >= FromLocal(x) <=> ToLocal(ms) >= x
<1>1. \/ x < zone.at + zone.before /\ x < zone.at + zone.after
      \/ x >= zone.at + zone.before /\ x >= zone.at + zone.after
  BY ZoneTyped DEF Unclear, Skipped, Repeated
<1>2. CASE x < zone.at + zone.before /\ x < zone.at + zone.after
  <2>1. FromLocal(x) = x - zone.before
    BY <1>2, ZoneTyped DEF FromLocal, OffsetAt
  <2> QED BY <1>2, <2>1, ZoneTyped DEF ToLocal, OffsetAt
<1>3. CASE x >= zone.at + zone.before /\ x >= zone.at + zone.after
  <2>1. FromLocal(x) = x - zone.after
    BY <1>3, ZoneTyped DEF FromLocal, OffsetAt
  <2> QED BY <1>3, <2>1, ZoneTyped DEF ToLocal, OffsetAt
<1> QED BY <1>1, <1>2, <1>3

\* The instant of such a time is the only one.
LEMMA ClearReturns ==
  ASSUME PolicyInput, NEW ms \in Int, ToLocal(ms) \notin Unclear
  PROVE  FromLocal(ToLocal(ms)) = ms
<1>0. PICK x \in Int : x = ToLocal(ms)
  BY ClockTyped
<1>1. \/ x < zone.at + zone.before /\ x < zone.at + zone.after
      \/ x >= zone.at + zone.before /\ x >= zone.at + zone.after
  BY <1>0, ZoneTyped DEF Unclear, Skipped, Repeated
<1>2. FromLocal(x) = ms
  BY <1>0, <1>1, ZoneTyped DEF ToLocal, FromLocal, OffsetAt
<1> QED BY <1>0, <1>2

\* Where no time is skipped or repeated, minutes on the clock are minutes.
LEMMA ClearStretch ==
  ASSUME PolicyInput, NEW x \in Int, NEW y \in Int, x <= y,
         \A z \in x .. y : z \notin Unclear
  PROVE  FromLocal(y) = FromLocal(x) + (y - x)
<1> DEFINE b == zone.at + zone.before
           a == zone.at + zone.after
<1>1. b \in Int /\ a \in Int
  BY ZoneTyped
<1>2. \A z \in x .. y : (z < b /\ z < a) \/ (z >= b /\ z >= a)
  BY <1>1, ZoneTyped DEF Unclear, Skipped, Repeated
<1>3. a = b \/ (y < b /\ y < a) \/ (x >= b /\ x >= a)
  <2>1. SUFFICES ASSUME a /= b, x < b, x < a, y >= b, y >= a PROVE FALSE
    BY <1>1, <1>2
  <2>2. CASE b < a
    BY <1>1, <1>2, <2>1, <2>2
  <2>3. CASE a < b
    BY <1>1, <1>2, <2>1, <2>3
  <2> QED BY <1>1, <2>1, <2>2, <2>3
<1> QED BY <1>3, ZoneTyped DEF FromLocal, OffsetAt

\* The window of a day: that of any local time of the day.
OpenHours(d) == WindowFor(d * DayLength)
DayMinutes == 0 .. (DayLength - 1)

LEMMA WindowOfDay ==
  ASSUME PolicyInput, NEW x \in Int
  PROVE  WindowFor(x) = OpenHours(DateOf(x))
<1>1. PICK d \in Int : d = DateOf(x)
  BY ClockTyped
<1>2. DateOf(d * DayLength + 0) = d
  BY OnDate, ZoneTyped
<1>3. d * DayLength + 0 = d * DayLength
  BY ZoneTyped
<1>4. DateOf(d * DayLength) = DateOf(x)
  BY <1>1, <1>2, <1>3
<1> QED BY <1>1, <1>4, Zenon DEF WindowFor, OpenHours

\* A day is closed, or opens before it closes.
LEMMA WindowTyped ==
  ASSUME PolicyInput, NEW x
  PROVE  \/ WindowFor(x) = NonWorking
         \/ /\ WindowFor(x) \in DayMinutes \X DayMinutes
            /\ WindowFor(x)[1] < WindowFor(x)[2] /\ WindowFor(x) /= NonWorking
<1> DEFINE w == hours.days[DateOf(x) % WeekLength]
<1>1. CASE \/ DateOf(x) \in hours.holidays \/ DateOf(x) % WeekLength \notin DOMAIN hours.days
           \/ w[2] <= w[1]
  BY <1>1, Zenon DEF WindowFor
<1>2. CASE ~(\/ DateOf(x) \in hours.holidays \/ DateOf(x) % WeekLength \notin DOMAIN hours.days
             \/ w[2] <= w[1])
  <2>1. w \in DayMinutes \X DayMinutes
    BY <1>2, PolicyAssumption DEF PolicyInput, DayMinutes
  <2>2. w[1] \in Int /\ w[2] \in Int /\ ~(w[2] <= w[1])
    BY <1>2, <2>1, ZoneTyped DEF DayMinutes
  <2>3. w[1] < w[2] /\ w /= NonWorking
    BY <2>2 DEF NonWorking
  <2>4. WindowFor(x) = w
    BY <1>2, Zenon DEF WindowFor
  <2> QED BY <2>1, <2>3, <2>4
<1> QED BY <1>1, <1>2

\* At a calm change no midnight is skipped or repeated, and no minute from a
\* day's opening to its closing.
LEMMA CalmMidnight ==
  ASSUME PolicyInput, Calm, NEW d \in Int
  PROVE  d * DayLength \in Int /\ d * DayLength \notin Unclear
<1>1. MinuteOf(d * DayLength + 0) = 0
  BY OnDate, ZoneTyped
<1>2. d * DayLength + 0 = d * DayLength /\ d * DayLength \in Int
  BY ZoneTyped
<1> QED BY <1>1, <1>2 DEF Calm, Unclear

LEMMA CalmWindow ==
  ASSUME PolicyInput, Calm, NEW d \in Int, OpenHours(d) /= NonWorking,
         NEW m \in OpenHours(d)[1] .. OpenHours(d)[2]
  PROVE  d * DayLength + m \in Int /\ d * DayLength + m \notin Unclear
<1>1. OpenHours(d) \in DayMinutes \X DayMinutes /\ OpenHours(d)[1] < OpenHours(d)[2]
  BY WindowTyped DEF OpenHours
<1>2. m \in DayMinutes /\ m \in Int /\ OpenHours(d)[1] <= m /\ m <= OpenHours(d)[2]
  BY <1>1, ZoneTyped DEF DayMinutes
<1>3. PICK x \in Int : x = d * DayLength + m
  BY <1>2, ZoneTyped
<1>4. DateOf(x) = d /\ MinuteOf(x) = m
  BY <1>2, <1>3, OnDate DEF DayMinutes
<1>5. WindowFor(x) = OpenHours(d)
  BY <1>4, WindowOfDay
<1>6. ~(MinuteOf(x) < WindowFor(x)[1]) /\ ~(MinuteOf(x) > WindowFor(x)[2])
  <2>1. OpenHours(d)[1] \in Int /\ OpenHours(d)[2] \in Int
    BY <1>1, ZoneTyped DEF DayMinutes
  <2> QED BY <1>2, <1>4, <1>5, <2>1
<1>7. x \notin Unclear
  BY <1>5, <1>6 DEF Calm, Unclear
<1> QED BY <1>3, <1>7

\* A calm change is shorter than a day.
LEMMA CalmIsShort ==
  ASSUME PolicyInput, Calm
  PROVE  zone.after - zone.before < DayLength /\ zone.before - zone.after < DayLength
<1> DEFINE a == zone.at + zone.after
           b == zone.at + zone.before
<1>0. a \in Int /\ b \in Int
  BY ZoneTyped
<1>1. ASSUME NEW x \in Int PROVE \E d \in Int : x <= d * DayLength /\ d * DayLength < x + DayLength
  <2>1. PICK d \in Int : d = DateOf(x + DayLength - 1)
    BY ClockTyped, ZoneTyped
  <2>2. x + DayLength - 1 = d * DayLength + MinuteOf(x + DayLength - 1)
        /\ 0 <= MinuteOf(x + DayLength - 1) /\ MinuteOf(x + DayLength - 1) < DayLength
    BY <2>1, DateAndMinute, ZoneTyped
  <2>3. PICK m \in Int : m = MinuteOf(x + DayLength - 1)
    BY ClockTyped, ZoneTyped
  <2> QED BY <2>1, <2>2, <2>3, ZoneTyped
<1>2. zone.after - zone.before < DayLength
  <2> SUFFICES ASSUME ~(a - b < DayLength) PROVE FALSE
    BY ZoneTyped
  <2>1. PICK d \in Int : b <= d * DayLength /\ d * DayLength < b + DayLength
    BY <1>0, <1>1
  <2>2. d * DayLength \in b .. (a - 1)
    BY <1>0, <2>1, ZoneTyped
  <2>3. PICK x \in Int : x = d * DayLength /\ x \notin Unclear
    BY CalmMidnight
  <2>4. zone.at + zone.before <= x /\ x <= zone.at + zone.after - 1
    BY <2>2, <2>3, ZoneTyped
  <2>5. x \in Skipped
    BY <2>4, ZoneTyped DEF Skipped
  <2> QED BY <2>3, <2>5 DEF Unclear
<1>3. zone.before - zone.after < DayLength
  <2> SUFFICES ASSUME ~(b - a < DayLength) PROVE FALSE
    BY ZoneTyped
  <2>1. PICK d \in Int : a <= d * DayLength /\ d * DayLength < a + DayLength
    BY <1>0, <1>1
  <2>2. d * DayLength \in a .. (b - 1)
    BY <1>0, <2>1, ZoneTyped
  <2>3. PICK x \in Int : x = d * DayLength /\ x \notin Unclear
    BY CalmMidnight
  <2>4. zone.at + zone.after <= x /\ x <= zone.at + zone.before - 1
    BY <2>2, <2>3, ZoneTyped
  <2>5. x \in Repeated
    BY <2>4, ZoneTyped DEF Repeated
  <2> QED BY <2>3, <2>5 DEF Unclear
<1> QED BY <1>2, <1>3

\* The minutes worked: counted over adjacent ranges, they add up.
WorkedSet(from, to) == {ms \in from .. (to - 1) : Works(ms)}

LEMMA WorkedTyped ==
  ASSUME NEW a \in Int, NEW b \in Int
  PROVE  /\ IsFiniteSet(WorkedSet(a, b)) /\ Worked(a, b) = Cardinality(WorkedSet(a, b))
         /\ Worked(a, b) \in Nat
<1>1. IsFiniteSet(a .. (b - 1)) /\ WorkedSet(a, b) \in SUBSET (a .. (b - 1))
  BY FS_Interval DEF WorkedSet
<1>2. IsFiniteSet(WorkedSet(a, b))
  BY <1>1, FS_Subset
<1>3. Worked(a, b) = Cardinality(WorkedSet(a, b))
  BY DEF Worked, WorkedSet
<1> QED BY <1>2, <1>3, FS_CardinalityType

\* From a to b the working minutes are those from p to q.
Stretch(a, b, p, q) ==
  /\ a <= p /\ p <= q /\ q <= b
  /\ \A ms \in Int : a <= ms /\ ms < b => (Works(ms) <=> p <= ms /\ ms < q)

LEMMA WorkedStretch ==
  ASSUME NEW a \in Int, NEW b \in Int, NEW p \in Int, NEW q \in Int, Stretch(a, b, p, q)
  PROVE  Worked(a, b) = q - p
<1>0. p <= q
  BY DEF Stretch
<1>1. WorkedSet(a, b) = p .. (q - 1)
  <2>1. \A ms \in Int : ms \in WorkedSet(a, b) <=> ms \in p .. (q - 1)
    BY DEF WorkedSet, Stretch
  <2>2. WorkedSet(a, b) \subseteq Int /\ p .. (q - 1) \subseteq Int
    BY DEF WorkedSet
  <2> QED BY <2>1, <2>2
<1>2. q - 1 \in Int
  OBVIOUS
<1>3. Cardinality(p .. (q - 1)) = IF p > q - 1 THEN 0 ELSE (q - 1) - p + 1
  BY <1>2, FS_Interval, Zenon
<1>4. Cardinality(p .. (q - 1)) = q - p
  BY <1>0, <1>3
<1> QED BY <1>1, <1>4, WorkedTyped

LEMMA WorkedNone ==
  ASSUME NEW a \in Int, NEW b \in Int, \A ms \in Int : a <= ms /\ ms < b => ~Works(ms)
  PROVE  Worked(a, b) = 0
<1>1. WorkedSet(a, b) = {}
  BY DEF WorkedSet
<1> QED BY <1>1, WorkedTyped, FS_EmptySet

LEMMA WorkedSplit ==
  ASSUME NEW a \in Int, NEW b \in Int, NEW c \in Int, a <= b, b <= c
  PROVE  Worked(a, c) = Worked(a, b) + Worked(b, c)
<1>1. WorkedSet(a, c) = WorkedSet(a, b) \cup WorkedSet(b, c)
  BY DEF WorkedSet
<1>2. WorkedSet(a, b) \cap WorkedSet(b, c) = {}
  BY DEF WorkedSet
<1>3. Cardinality({}) = 0
  BY FS_EmptySet
<1>4. IsFiniteSet(WorkedSet(a, b)) /\ IsFiniteSet(WorkedSet(b, c))
  BY WorkedTyped
<1>5. Cardinality(WorkedSet(a, c)) =
        Cardinality(WorkedSet(a, b)) + Cardinality(WorkedSet(b, c)) - 0
  BY <1>1, <1>2, <1>3, <1>4, FS_Union
<1>6. /\ Worked(a, c) = Cardinality(WorkedSet(a, c))
      /\ Worked(a, b) = Cardinality(WorkedSet(a, b)) /\ Worked(a, b) \in Nat
      /\ Worked(b, c) = Cardinality(WorkedSet(b, c)) /\ Worked(b, c) \in Nat
  BY WorkedTyped
<1> QED BY <1>5, <1>6

\* The instant at which a date begins.
Midnight(d) == FromLocal(d * DayLength)

\* A date's instants lie between two midnights.
LEMMA DayBegins ==
  ASSUME PolicyInput, Calm, NEW d \in Int
  PROVE  /\ Midnight(d) \in Int /\ Midnight(d + 1) \in Int
         /\ DateOf(ToLocal(Midnight(d))) = d
         /\ \A ms \in Int : DateOf(ToLocal(ms)) = d <=> Midnight(d) <= ms /\ ms < Midnight(d + 1)
<1>1. /\ Midnight(d) \in Int /\ Midnight(d + 1) \in Int
      /\ d * DayLength \in Int /\ (d + 1) * DayLength \in Int
  BY ClockTyped, ZoneTyped DEF Midnight
<1>2. /\ ToLocal(Midnight(d)) = d * DayLength
      /\ \A ms \in Int : ms >= Midnight(d) <=> ToLocal(ms) >= d * DayLength
  BY <1>1, CalmMidnight, ClearIsExact DEF Midnight
<1>3. \A ms \in Int : ms >= Midnight(d + 1) <=> ToLocal(ms) >= (d + 1) * DayLength
  <2>1. d + 1 \in Int /\ (d + 1) * DayLength \notin Unclear
    BY CalmMidnight
  <2> QED BY <1>1, <2>1, ClearIsExact DEF Midnight
<1>4. DateOf(ToLocal(Midnight(d))) = d
  <2>1. d * DayLength < (d + 1) * DayLength
    BY NextMultiple, ZoneTyped
  <2> QED BY <1>1, <1>2, <2>1, DateOrder
<1>5. ASSUME NEW ms \in Int
      PROVE  DateOf(ToLocal(ms)) = d <=> Midnight(d) <= ms /\ ms < Midnight(d + 1)
  <2>1. PICK x \in Int : x = ToLocal(ms)
    BY ClockTyped
  <2>2. DateOf(x) = d <=> d * DayLength <= x /\ x < (d + 1) * DayLength
    BY DateOrder
  <2>3. (ms >= Midnight(d) <=> x >= d * DayLength)
        /\ (ms >= Midnight(d + 1) <=> x >= (d + 1) * DayLength)
    BY <1>2, <1>3, <2>1
  <2>4. PICK u \in Int : u = d * DayLength
    BY <1>1
  <2>5. PICK v \in Int : v = (d + 1) * DayLength
    BY <1>1
  <2>6. DateOf(x) = d <=> Midnight(d) <= ms /\ ms < Midnight(d + 1)
    BY <1>1, <2>2, <2>3, <2>4, <2>5
  <2> QED BY <2>1, <2>6
<1> QED BY <1>1, <1>4, <1>5

\* On a date the working minutes are those from opening to closing time.
LEMMA DayWorks ==
  ASSUME PolicyInput, Calm, DOMAIN hours.days /= {}, NEW ms \in Int, NEW d \in Int,
         DateOf(ToLocal(ms)) = d
  PROVE  /\ Works(ms) <=> OpenHours(d)[1] <= MinuteOf(ToLocal(ms)) /\ MinuteOf(ToLocal(ms)) < OpenHours(d)[2]
         /\ OpenHours(d) = NonWorking => ~Works(ms)
<1>1. ToLocal(ms) \in Int /\ MinuteOf(ToLocal(ms)) \in Int /\ MinuteOf(ToLocal(ms)) >= 0
  BY ClockTyped, DateAndMinute
<1>2. WindowFor(ToLocal(ms)) = OpenHours(d)
  BY <1>1, WindowOfDay
<1>3. Works(ms) <=> OpenHours(d)[1] <= MinuteOf(ToLocal(ms)) /\ MinuteOf(ToLocal(ms)) < OpenHours(d)[2]
  BY <1>2, Zenon DEF Works
<1>4. ASSUME OpenHours(d) = NonWorking PROVE ~(MinuteOf(ToLocal(ms)) < OpenHours(d)[2])
  BY <1>1, <1>4 DEF NonWorking
<1> QED BY <1>3, <1>4

\* The next midnight is later and begins the next date.
LEMMA RestOfDay ==
  ASSUME PolicyInput, Calm, DOMAIN hours.days /= {}, NEW c \in Int, NEW d \in Int,
         DateOf(ToLocal(c)) = d
  PROVE  /\ NextLocalMidnight(ToLocal(c)) = Midnight(d + 1)
         /\ Midnight(d + 1) \in Int /\ c < Midnight(d + 1)
         /\ DateOf(ToLocal(Midnight(d + 1))) = d + 1
         /\ WindowFor(ToLocal(c)) = OpenHours(d)
<1>1. ToLocal(c) \in Int
  BY ClockTyped
<1>2. d + 1 \in Int
  OBVIOUS
<1> QED BY <1>1, <1>2, DayBegins, WindowOfDay DEF NextLocalMidnight, Midnight

\* Once a date has closed nothing of it is worked.
LEMMA ClosedRest ==
  ASSUME PolicyInput, Calm, DOMAIN hours.days /= {}, NEW c \in Int, NEW d \in Int,
         DateOf(ToLocal(c)) = d,
         OpenHours(d) = NonWorking \/ MinuteOf(ToLocal(c)) >= OpenHours(d)[2],
         NEW ms \in Int, c <= ms, ms < Midnight(d + 1)
  PROVE  ~Works(ms)
<1>1. DateOf(ToLocal(ms)) = d
  <2>1. Midnight(d) \in Int /\ Midnight(d + 1) \in Int /\ Midnight(d) <= c
    BY DayBegins
  <2>2. Midnight(d) <= ms /\ ms < Midnight(d + 1)
    BY <2>1
  <2> QED BY <2>2, DayBegins
<1>2. CASE OpenHours(d) = NonWorking
  BY <1>1, <1>2, DayWorks
<1>3. CASE OpenHours(d) /= NonWorking /\ MinuteOf(ToLocal(c)) >= OpenHours(d)[2]
  <2>1. OpenHours(d) \in DayMinutes \X DayMinutes /\ OpenHours(d)[1] < OpenHours(d)[2]
    BY <1>3, WindowTyped DEF OpenHours
  <2>2. PICK u \in Int : u = OpenHours(d)[2]
    BY <2>1, ZoneTyped DEF DayMinutes
  <2>2a. OpenHours(d)[1] \in Int
    BY <2>1, ZoneTyped DEF DayMinutes
  <2>3. /\ u \in OpenHours(d)[1] .. OpenHours(d)[2]
    BY <2>1, <2>2, <2>2a
  <2>4. PICK x \in Int : x = d * DayLength + u /\ x \notin Unclear
    BY <1>3, <2>3, CalmWindow
  <2>5. \A y \in Int : DateOf(ToLocal(y)) = d => (MinuteOf(ToLocal(y)) >= u <=> y >= FromLocal(x))
    <3> SUFFICES ASSUME NEW y \in Int, DateOf(ToLocal(y)) = d
                 PROVE  MinuteOf(ToLocal(y)) >= u <=> y >= FromLocal(x)
      OBVIOUS
    <3>1. PICK l \in Int : l = ToLocal(y)
      BY ClockTyped
    <3>2. PICK m \in Int : m = MinuteOf(l)
      BY ClockTyped
    <3>3. PICK k \in Int : k = d * DayLength
      BY ZoneTyped
    <3>4. l = k + m
      BY <3>1, <3>2, <3>3, DateAndMinute
    <3>5. y >= FromLocal(x) <=> l >= x
      BY <2>4, <3>1, ClearIsExact
    <3> QED BY <2>4, <3>1, <3>2, <3>3, <3>4, <3>5
  <2>6. FromLocal(x) \in Int /\ c >= FromLocal(x)
    BY <1>3, <2>2, <2>5, ClockTyped
  <2>7. ms >= FromLocal(x)
    BY <2>6
  <2>8. MinuteOf(ToLocal(ms)) >= u /\ MinuteOf(ToLocal(ms)) \in Int
    BY <1>1, <2>5, <2>7, ClockTyped
  <2> QED BY <1>1, <2>2, <2>8, DayWorks
<1> QED BY <1>2, <1>3

\* The first open minute of the cursor's date, at the cursor or after it.
First(c, d) == LatestRange(MinuteOf(ToLocal(c)), OpenHours(d)[1])
InstantOf(d, m) == FromLocal(d * DayLength + m)
Closes(d) == OpenHours(d)[2]

\* On an open date the rest of the window is one stretch of instants, as long as
\* it is on the clock.
LEMMA OpenRest ==
  ASSUME PolicyInput, Calm, DOMAIN hours.days /= {}, NEW c \in Int, NEW d \in Int,
         DateOf(ToLocal(c)) = d,
         OpenHours(d) /= NonWorking, MinuteOf(ToLocal(c)) < Closes(d)
  PROVE  /\ First(c, d) \in Int /\ Closes(d) \in Int /\ First(c, d) < Closes(d)
         /\ c <= InstantOf(d, First(c, d)) /\ InstantOf(d, First(c, d)) \in Int
         /\ InstantOf(d, Closes(d)) < Midnight(d + 1)
         /\ \A m \in First(c, d) .. Closes(d) :
               InstantOf(d, m) = InstantOf(d, First(c, d)) + (m - First(c, d))
         /\ \A ms \in Int : c <= ms /\ ms < Midnight(d + 1) =>
               (Works(ms) <=> InstantOf(d, First(c, d)) <= ms /\ ms < InstantOf(d, Closes(d)))
<1>1. OpenHours(d) \in DayMinutes \X DayMinutes /\ OpenHours(d)[1] < OpenHours(d)[2]
  BY WindowTyped DEF OpenHours
<1>2. PICK o \in Int : o = OpenHours(d)[1]
  BY <1>1, ZoneTyped DEF DayMinutes
<1>3. PICK u \in Int : u = Closes(d)
  BY <1>1, ZoneTyped DEF DayMinutes, Closes
<1>4. PICK l \in Int : l = ToLocal(c)
  BY ClockTyped
<1>5. PICK n \in Int : n = MinuteOf(l)
  BY ClockTyped
<1>6. PICK k \in Int : k = d * DayLength
  BY ZoneTyped
<1>7. PICK f \in Int : f = First(c, d)
  BY <1>2, <1>4, <1>5 DEF First, LatestRange
<1>8. l = k + n /\ 0 <= n /\ n < u /\ 0 <= o /\ o < u /\ u < DayLength
  BY <1>1, <1>2, <1>3, <1>4, <1>5, <1>6, DateAndMinute, ZoneTyped DEF DayMinutes, Closes
<1>9. o <= f /\ n <= f /\ f < u /\ (f = o \/ f = n)
  BY <1>2, <1>4, <1>5, <1>7, <1>8 DEF First, LatestRange
<1>10. \A m \in o .. u : k + m \in Int /\ k + m \notin Unclear
  BY <1>2, <1>3, <1>6, CalmWindow DEF Closes
<1>11. \A m \in Int : InstantOf(d, m) = FromLocal(k + m)
  BY <1>6 DEF InstantOf
<1>12. \A m \in o .. u : InstantOf(d, m) \in Int
  BY <1>10, <1>11, ClockTyped
<1>13. ASSUME NEW m \in f .. u PROVE InstantOf(d, m) = InstantOf(d, f) + (m - f)
  <2>1. k + f \in Int /\ k + m \in Int /\ k + f <= k + m
    OBVIOUS
  <2>2. \A z \in (k + f) .. (k + m) : z \notin Unclear
    <3> SUFFICES ASSUME NEW z \in (k + f) .. (k + m) PROVE z \notin Unclear
      OBVIOUS
    <3>1. z - k \in o .. u /\ k + (z - k) = z
      BY <1>9
    <3> QED BY <1>10, <3>1
  <2>3. FromLocal(k + m) = FromLocal(k + f) + ((k + m) - (k + f))
    BY <2>1, <2>2, ClearStretch
  <2>4. InstantOf(d, f) = FromLocal(k + f) /\ InstantOf(d, m) = FromLocal(k + m)
    BY <1>11
  <2>5. FromLocal(k + f) \in Int
    BY <2>1, ClockTyped
  <2> QED BY <2>3, <2>4, <2>5
<1>14. \A m \in o .. u : \A ms \in Int : ms >= InstantOf(d, m) <=> ToLocal(ms) >= k + m
  BY <1>10, <1>11, ClearIsExact
<1>15. ASSUME NEW m \in o .. u, NEW ms \in Int, DateOf(ToLocal(ms)) = d
       PROVE  ms >= InstantOf(d, m) <=> MinuteOf(ToLocal(ms)) >= m
  <2>1. PICK y \in Int : y = ToLocal(ms)
    BY ClockTyped
  <2>2. PICK v \in Int : v = MinuteOf(y)
    BY ClockTyped
  <2>3. y = k + v
    BY <1>6, <1>15, <2>1, <2>2, DateAndMinute
  <2>4. ms >= InstantOf(d, m) <=> y >= k + m
    BY <1>14, <2>1
  <2> QED BY <2>1, <2>2, <2>3, <2>4
<1>16. c <= InstantOf(d, f)
  <2>1. CASE f = n
    <3>1. n \in o .. u
      BY <1>9, <2>1
    <3>2. FromLocal(ToLocal(c)) = c
      BY <1>4, <1>8, <1>10, <3>1, ClearReturns
    <3>3. InstantOf(d, f) = FromLocal(k + n)
      BY <1>11, <2>1
    <3> QED BY <1>4, <1>8, <3>2, <3>3
  <2>2. CASE f > n
    <3>1. ~(n >= f) /\ f \in o .. u
      BY <1>9, <2>2
    <3>2. ~(c >= InstantOf(d, f)) /\ InstantOf(d, f) \in Int
      BY <1>4, <1>5, <1>12, <1>15, <3>1
    <3> QED BY <3>2
  <2> QED BY <1>9, <2>1, <2>2
<1>17. InstantOf(d, u) < Midnight(d + 1)
  <2>1. u \in o .. u /\ InstantOf(d, u) \in Int /\ k + u \in Int
    BY <1>8, <1>12
  <2>2. ToLocal(InstantOf(d, u)) = k + u
    BY <1>10, <1>11, <2>1, ClearIsExact
  <2>3. DateOf(ToLocal(InstantOf(d, u))) = d
    <3>1. u \in 0 .. (DayLength - 1)
      BY <1>8, ZoneTyped
    <3> QED BY <1>6, <2>2, <3>1, OnDate
  <2> QED BY <2>1, <2>3, DayBegins
<1>18. ASSUME NEW ms \in Int, c <= ms, ms < Midnight(d + 1)
       PROVE  Works(ms) <=> InstantOf(d, f) <= ms /\ ms < InstantOf(d, u)
  <2>1. DateOf(ToLocal(ms)) = d
    <3>1. Midnight(d) \in Int /\ Midnight(d + 1) \in Int /\ Midnight(d) <= c
      BY DayBegins
    <3>2. Midnight(d) <= ms /\ ms < Midnight(d + 1)
      BY <1>18, <3>1
    <3> QED BY <3>2, DayBegins
  <2>2. PICK v \in Int : v = MinuteOf(ToLocal(ms))
    BY ClockTyped
  <2>3. Works(ms) <=> o <= v /\ v < u
    BY <1>2, <1>3, <2>1, <2>2, DayWorks DEF Closes
  <2>4. /\ ms >= InstantOf(d, f) <=> v >= f
        /\ ms >= InstantOf(d, u) <=> v >= u
        /\ InstantOf(d, f) \in Int /\ InstantOf(d, u) \in Int
    <3>1. f \in o .. u /\ u \in o .. u
      BY <1>8, <1>9
    <3> QED BY <1>12, <1>15, <2>1, <2>2, <3>1
  <2>5. o <= v => f <= v \/ v < n
    BY <1>9
  <2>6. ~(o <= v /\ v < n)
    <3> SUFFICES ASSUME o <= v, v < n PROVE FALSE
      OBVIOUS
    <3>1. n \in o .. u
      BY <1>8
    <3>2. c >= InstantOf(d, n) /\ ~(ms >= InstantOf(d, n)) /\ InstantOf(d, n) \in Int
      BY <1>4, <1>5, <1>12, <1>15, <2>1, <2>2, <3>1
    <3> QED BY <1>18, <3>2
  <2> QED BY <1>9, <2>3, <2>4, <2>5, <2>6
<1>19. u \in o .. u /\ f \in o .. u
  BY <1>8, <1>9
<1> QED BY <1>3, <1>7, <1>9, <1>12, <1>13, <1>16, <1>17, <1>18, <1>19

Scans == 0 .. MaxDaysScanned

\* One round of the loop of AddFrom, with f for the rounds after it.
AddRound(f, n, c, r) ==
    LET local == ToLocal(c)
        window == WindowFor(local)
        first == LatestRange(MinuteOf(local), window[1])
        later == f[n + 1][NextLocalMidnight(local)]
    IN IF n = MaxDaysScanned
       THEN start + amount
       ELSE IF window = NonWorking \/ MinuteOf(local) >= window[2]
       THEN later[r]
       ELSE IF window[2] - first >= r
       THEN FromLocal(DateOf(local) * DayLength + first + r)
       ELSE later[r - (window[2] - first)]
AddTable(f) == [s \in Scans |-> [c \in Int |-> [r \in Int |-> AddRound(f, s, c, r)]]]

LEMMA AddTableHas ==
  ASSUME NEW f, NEW s \in Scans, NEW c \in Int, NEW r \in Int
  PROVE  AddTable(f)[s][c][r] = AddRound(f, s, c, r)
BY Zenon DEF AddTable

LEMMA AddFromIs ==
  ASSUME NEW f, f = AddTable(f)
  PROVE  AddFrom = AddTable(AddFrom)
<1>1. AddFrom = CHOOSE g : g = AddTable(g)
  BY Zenon DEF AddFrom, AddTable, AddRound, Scans
<1> QED BY <1>1, Zenon

\* A round asks only for the round after it, so two tables that agree on that
\* round agree on this one.
LEMMA AddRoundReads ==
  ASSUME PolicyInput, NEW f, NEW g, NEW s \in Scans, NEW c \in Int, NEW r \in Int,
         s < MaxDaysScanned =>
           \A d, q \in Int : f[s + 1][d][q] = g[s + 1][d][q]
  PROVE  AddRound(f, s, c, r) = AddRound(g, s, c, r)
<1>1. CASE s = MaxDaysScanned
  BY <1>1, Zenon DEF AddRound
<1>2. CASE s /= MaxDaysScanned
  <2>1. s < MaxDaysScanned
    BY <1>2, PolicyAssumption DEF Scans
  <2>2. ToLocal(c) \in Int /\ NextLocalMidnight(ToLocal(c)) \in Int
    BY ClockTyped
  <2>3. CASE WindowFor(ToLocal(c)) = NonWorking \/ MinuteOf(ToLocal(c)) >= WindowFor(ToLocal(c))[2]
    <3>1. f[s + 1][NextLocalMidnight(ToLocal(c))][r] = g[s + 1][NextLocalMidnight(ToLocal(c))][r]
      BY <2>1, <2>2
    <3> QED BY <1>2, <2>3, <3>1, Zenon DEF AddRound
  <2>4. CASE ~(WindowFor(ToLocal(c)) = NonWorking \/ MinuteOf(ToLocal(c)) >= WindowFor(ToLocal(c))[2])
    <3> DEFINE w == WindowFor(ToLocal(c))
               q == r - (w[2] - LatestRange(MinuteOf(ToLocal(c)), w[1]))
    <3>1. w[1] \in Int /\ w[2] \in Int
      BY <2>4, WindowTyped, ZoneTyped DEF DayMinutes
    <3>2. q \in Int
      BY <2>2, <3>1, ClockTyped DEF LatestRange
    <3>3. f[s + 1][NextLocalMidnight(ToLocal(c))][q] = g[s + 1][NextLocalMidnight(ToLocal(c))][q]
      BY <2>1, <2>2, <3>2
    <3> QED BY <1>2, <2>4, <3>3, Zenon DEF AddRound
  <2> QED BY <2>3, <2>4
<1> QED BY <1>1, <1>2

\* The equation has a solution: by induction on the number of last rounds that
\* a table gets right, as the least number of them that none gets right.
LEMMA AddFromDefined ==
  ASSUME PolicyInput
  PROVE  \A s \in Scans, c \in Int, r \in Int : AddFrom[s][c][r] = AddRound(AddFrom, s, c, r)
<1> DEFINE Right(f, k) == \A s \in Scans : s >= MaxDaysScanned - k =>
                            \A c, r \in Int : f[s][c][r] = AddRound(f, s, c, r)
           Wrong == {k \in Nat : ~ \E f : Right(f, k)}
<1>1. Wrong = {}
  <2> SUFFICES ASSUME Wrong /= {} PROVE FALSE
    OBVIOUS
  <2>1. PICK k \in Wrong : \A n \in Wrong : k <= n
    <3>1. Wrong \in SUBSET Nat
      OBVIOUS
    <3> HIDE DEF Wrong
    <3> QED BY <3>1, LeastNumber
  <2>2. k \in Nat /\ ~ \E f : Right(f, k)
    BY <2>1
  <2>3. PICK f : \A s \in Scans : s >= MaxDaysScanned - (k - 1) =>
                   \A c, r \in Int : f[s][c][r] = AddRound(f, s, c, r)
    <3>1. CASE k = 0
      <4>1. \A s \in Scans : ~(s >= MaxDaysScanned - (k - 1))
        BY <3>1, PolicyAssumption DEF Scans
      <4> QED BY <4>1
    <3>2. CASE k /= 0
      <4>1. k - 1 \in Nat /\ ~(k <= k - 1)
        BY <2>2, <3>2
      <4>2. k - 1 \notin Wrong
        BY <2>1, <4>1
      <4>3. \E f : Right(f, k - 1)
        BY <4>1, <4>2
      <4> QED BY <4>3
    <3> QED BY <3>1, <3>2
  <2>4. ASSUME NEW s \in Scans, s >= MaxDaysScanned - k, NEW c \in Int, NEW r \in Int
        PROVE  AddTable(f)[s][c][r] = AddRound(AddTable(f), s, c, r)
    <3>1. ASSUME s < MaxDaysScanned, NEW d \in Int, NEW q \in Int
          PROVE  f[s + 1][d][q] = AddTable(f)[s + 1][d][q]
      <4>1. s + 1 \in Scans /\ s + 1 >= MaxDaysScanned - (k - 1)
        BY <2>2, <2>4, <3>1, PolicyAssumption DEF Scans
      <4>2. f[s + 1][d][q] = AddRound(f, s + 1, d, q)
        BY <2>3, <4>1
      <4> HIDE DEF Wrong
      <4> QED BY <4>1, <4>2, AddTableHas
    <3>2. AddRound(f, s, c, r) = AddRound(AddTable(f), s, c, r)
      <4> HIDE DEF Wrong
      <4> QED BY <3>1, AddRoundReads
    <3> QED BY <3>2, AddTableHas
  <2>5. Right(AddTable(f), k)
    BY <2>4
  <2> QED BY <2>2, <2>5
<1>2. PICK f : \A s \in Scans, c \in Int, r \in Int : f[s][c][r] = AddRound(f, s, c, r)
  <2>1. MaxDaysScanned \in Nat /\ MaxDaysScanned \notin Wrong
    BY <1>1, PolicyAssumption
  <2>2. PICK f : Right(f, MaxDaysScanned)
    BY <2>1
  <2>3. \A s \in Scans : s >= MaxDaysScanned - MaxDaysScanned
    BY PolicyAssumption DEF Scans
  <2> QED BY <2>2, <2>3
<1>3. AddTable(f) = AddTable(AddTable(f))
  <2>1. ASSUME NEW s \in Scans, NEW c \in Int, NEW r \in Int
        PROVE  AddRound(f, s, c, r) = AddRound(AddTable(f), s, c, r)
    <3>1. ASSUME s < MaxDaysScanned, NEW d \in Int, NEW q \in Int
          PROVE  f[s + 1][d][q] = AddTable(f)[s + 1][d][q]
      <4>1. s + 1 \in Scans
        BY <3>1, PolicyAssumption DEF Scans
      <4>2. f[s + 1][d][q] = AddRound(f, s + 1, d, q)
        BY <1>2, <4>1
      <4> QED BY <4>1, <4>2, AddTableHas
    <3> QED BY <3>1, AddRoundReads
  <2> QED BY <2>1, Zenon DEF AddTable
<1>4. AddFrom = AddTable(AddFrom)
  BY <1>3, AddFromIs
<1> QED BY <1>4, AddTableHas, Zenon

\* One round of the loop of CountFrom.
CountRound(f, n, c, t) ==
    LET local == ToLocal(c)
        window == WindowFor(local)
        date == DateOf(local) * DayLength
        first == LatestRange(MinuteOf(local), window[1])
        opens == FromLocal(date + first)
        until == Earliest(FromLocal(date + window[2]), t)
        later == f[n + 1][NextLocalMidnight(local)][t]
    IN IF n = MaxDaysScanned \/ c >= t THEN 0
       ELSE IF window # NonWorking /\ first < window[2] /\ until > opens
       THEN until - opens + later
       ELSE later
CountTable(f) == [s \in Scans |-> [c \in Int |-> [t \in Int |-> CountRound(f, s, c, t)]]]

LEMMA CountTableHas ==
  ASSUME NEW f, NEW s \in Scans, NEW c \in Int, NEW r \in Int
  PROVE  CountTable(f)[s][c][r] = CountRound(f, s, c, r)
BY Zenon DEF CountTable

LEMMA CountFromIs ==
  ASSUME NEW f, f = CountTable(f)
  PROVE  CountFrom = CountTable(CountFrom)
<1>1. CountFrom = CHOOSE g : g = CountTable(g)
  BY Zenon DEF CountFrom, CountTable, CountRound, Scans
<1> QED BY <1>1, Zenon

LEMMA CountRoundReads ==
  ASSUME PolicyInput, NEW f, NEW g, NEW s \in Scans, NEW c \in Int, NEW r \in Int,
         s < MaxDaysScanned =>
           \A d, q \in Int : f[s + 1][d][q] = g[s + 1][d][q]
  PROVE  CountRound(f, s, c, r) = CountRound(g, s, c, r)
<1>1. CASE s = MaxDaysScanned
  BY <1>1, Zenon DEF CountRound
<1>2. CASE s /= MaxDaysScanned
  <2>1. s < MaxDaysScanned
    BY <1>2, PolicyAssumption DEF Scans
  <2>2. ToLocal(c) \in Int /\ NextLocalMidnight(ToLocal(c)) \in Int
    BY ClockTyped
  <2>3. f[s + 1][NextLocalMidnight(ToLocal(c))][r] = g[s + 1][NextLocalMidnight(ToLocal(c))][r]
    BY <2>1, <2>2
  <2> QED BY <2>3, Zenon DEF CountRound
<1> QED BY <1>1, <1>2

LEMMA CountFromDefined ==
  ASSUME PolicyInput
  PROVE  \A s \in Scans, c \in Int, r \in Int : CountFrom[s][c][r] = CountRound(CountFrom, s, c, r)
<1> DEFINE Right(f, k) == \A s \in Scans : s >= MaxDaysScanned - k =>
                            \A c, r \in Int : f[s][c][r] = CountRound(f, s, c, r)
           Wrong == {k \in Nat : ~ \E f : Right(f, k)}
<1>1. Wrong = {}
  <2> SUFFICES ASSUME Wrong /= {} PROVE FALSE
    OBVIOUS
  <2>1. PICK k \in Wrong : \A n \in Wrong : k <= n
    <3>1. Wrong \in SUBSET Nat
      OBVIOUS
    <3> HIDE DEF Wrong
    <3> QED BY <3>1, LeastNumber
  <2>2. k \in Nat /\ ~ \E f : Right(f, k)
    BY <2>1
  <2>3. PICK f : \A s \in Scans : s >= MaxDaysScanned - (k - 1) =>
                   \A c, r \in Int : f[s][c][r] = CountRound(f, s, c, r)
    <3>1. CASE k = 0
      <4>1. \A s \in Scans : ~(s >= MaxDaysScanned - (k - 1))
        BY <3>1, PolicyAssumption DEF Scans
      <4> QED BY <4>1
    <3>2. CASE k /= 0
      <4>1. k - 1 \in Nat /\ ~(k <= k - 1)
        BY <2>2, <3>2
      <4>2. k - 1 \notin Wrong
        BY <2>1, <4>1
      <4>3. \E f : Right(f, k - 1)
        BY <4>1, <4>2
      <4> QED BY <4>3
    <3> QED BY <3>1, <3>2
  <2>4. ASSUME NEW s \in Scans, s >= MaxDaysScanned - k, NEW c \in Int, NEW r \in Int
        PROVE  CountTable(f)[s][c][r] = CountRound(CountTable(f), s, c, r)
    <3>1. ASSUME s < MaxDaysScanned, NEW d \in Int, NEW q \in Int
          PROVE  f[s + 1][d][q] = CountTable(f)[s + 1][d][q]
      <4>1. s + 1 \in Scans /\ s + 1 >= MaxDaysScanned - (k - 1)
        BY <2>2, <2>4, <3>1, PolicyAssumption DEF Scans
      <4>2. f[s + 1][d][q] = CountRound(f, s + 1, d, q)
        BY <2>3, <4>1
      <4> HIDE DEF Wrong
      <4> QED BY <4>1, <4>2, CountTableHas
    <3>2. CountRound(f, s, c, r) = CountRound(CountTable(f), s, c, r)
      <4> HIDE DEF Wrong
      <4> QED BY <3>1, CountRoundReads
    <3> QED BY <3>2, CountTableHas
  <2>5. Right(CountTable(f), k)
    BY <2>4
  <2> QED BY <2>2, <2>5
<1>2. PICK f : \A s \in Scans, c \in Int, r \in Int : f[s][c][r] = CountRound(f, s, c, r)
  <2>1. MaxDaysScanned \in Nat /\ MaxDaysScanned \notin Wrong
    BY <1>1, PolicyAssumption
  <2>2. PICK f : Right(f, MaxDaysScanned)
    BY <2>1
  <2>3. \A s \in Scans : s >= MaxDaysScanned - MaxDaysScanned
    BY PolicyAssumption DEF Scans
  <2> QED BY <2>2, <2>3
<1>3. CountTable(f) = CountTable(CountTable(f))
  <2>1. ASSUME NEW s \in Scans, NEW c \in Int, NEW r \in Int
        PROVE  CountRound(f, s, c, r) = CountRound(CountTable(f), s, c, r)
    <3>1. ASSUME s < MaxDaysScanned, NEW d \in Int, NEW q \in Int
          PROVE  f[s + 1][d][q] = CountTable(f)[s + 1][d][q]
      <4>1. s + 1 \in Scans
        BY <3>1, PolicyAssumption DEF Scans
      <4>2. f[s + 1][d][q] = CountRound(f, s + 1, d, q)
        BY <1>2, <4>1
      <4> QED BY <4>1, <4>2, CountTableHas
    <3> QED BY <3>1, CountRoundReads
  <2> QED BY <2>1, Zenon DEF CountTable
<1>4. CountFrom = CountTable(CountFrom)
  BY <1>3, CountFromIs
<1> QED BY <1>4, CountTableHas, Zenon

\* After s rounds the cursor is s dates later, and all dates scanned end behind
\* the minutes Calm looks at.
Reached(c, s) == start <= c /\ DateOf(ToLocal(c)) = DateOf(ToLocal(start)) + s
Horizon == start + (MaxDaysScanned - 2) * DayLength

LEMMA HorizonReached ==
  ASSUME PolicyInput, Calm, NEW c \in Int, Reached(c, MaxDaysScanned)
  PROVE  Horizon \in Int /\ Horizon <= c
<1>1. PICK d \in Int : d = DateOf(ToLocal(start))
  BY ClockTyped, ZoneTyped
<1>2. PICK x \in Int : x = ToLocal(start)
  BY ClockTyped, ZoneTyped
<1>3. PICK y \in Int : y = ToLocal(c)
  BY ClockTyped
<1>4. PICK u \in Int : u = d * DayLength
  BY ZoneTyped
<1>5. PICK v \in Int : v = (MaxDaysScanned - 2) * DayLength
  BY ZoneTyped, PolicyAssumption
<1>6. (d + MaxDaysScanned) * DayLength = u + v + DayLength + DayLength
  BY <1>4, <1>5, ZoneTyped, PolicyAssumption
<1>7. x < u + DayLength
  BY <1>1, <1>2, <1>4, DateOrder, NextMultiple, ZoneTyped
<1>8. u + v + DayLength + DayLength <= y
  <2>1. d + MaxDaysScanned \in Int /\ DateOf(y) = d + MaxDaysScanned
    BY <1>1, <1>3, PolicyAssumption DEF Reached
  <2> QED BY <1>6, <2>1, DateOrder
<1>9. x = start + OffsetAt(start) /\ y = c + OffsetAt(c)
  BY <1>2, <1>3 DEF ToLocal
<1>10. PICK p \in {zone.before, zone.after} : p = OffsetAt(start)
  BY ClockTyped, ZoneTyped
<1>11. PICK q \in {zone.before, zone.after} : q = OffsetAt(c)
  BY ClockTyped
<1>12. p \in Int /\ q \in Int /\ q - p < DayLength
  BY ZoneTyped, CalmIsShort
<1>13. Horizon = start + v
  BY <1>5 DEF Horizon
<1>14. x = start + p /\ y = c + q
  BY <1>9, <1>10, <1>11
<1> QED BY <1>5, <1>7, <1>8, <1>12, <1>13, <1>14, ZoneTyped

\* What a due date is.
Promised(x) == x \in Int /\ Worked(start, x) = amount /\ Works(x - 1)

LEMMA ReachedNext ==
  ASSUME PolicyInput, Calm, DOMAIN hours.days /= {}, NEW s \in Scans, s < MaxDaysScanned,
         NEW c \in Int, Reached(c, s), NEW d \in Int, DateOf(ToLocal(c)) = d
  PROVE  Reached(Midnight(d + 1), s + 1) /\ s + 1 \in Scans
<1>1. DateOf(ToLocal(start)) \in Int /\ start \in Int
  BY ClockTyped, ZoneTyped
<1>2. s \in Int /\ s + 1 \in Scans
  BY PolicyAssumption DEF Scans
<1>3. Midnight(d + 1) \in Int /\ c < Midnight(d + 1) /\ DateOf(ToLocal(Midnight(d + 1))) = d + 1
  BY RestOfDay
<1> QED BY <1>1, <1>2, <1>3 DEF Reached

\* One round of AddFrom: it finds the due date or leaves the rest for the next date.
LEMMA AddStep ==
  ASSUME PolicyInput, Calm, DOMAIN hours.days /= {}, NEW s \in Scans,
         NEW c \in Int, NEW r \in Int, Reached(c, s), r > 0, Worked(start, c) + r = amount,
         s < MaxDaysScanned =>
           \A e, q \in Int : Reached(e, s + 1) /\ q > 0 /\ Worked(start, e) + q = amount
                              => Promised(AddFrom[s + 1][e][q])
  PROVE  Promised(AddFrom[s][c][r])
<1>0. start \in Int /\ amount \in Int /\ start <= c /\ Worked(start, c) \in Nat
  BY ZoneTyped, WorkedTyped DEF Reached
<1>1. s /= MaxDaysScanned
  <2> SUFFICES ASSUME s = MaxDaysScanned PROVE FALSE
    OBVIOUS
  <2>1. Horizon \in Int /\ Horizon <= c
    BY HorizonReached
  <2>2. Worked(start, Horizon) >= amount /\ Worked(start, Horizon) \in Nat
    BY <1>0, <2>1, WorkedTyped DEF Calm, Horizon
  <2>3. CASE start <= Horizon
    <3>1. Worked(start, c) = Worked(start, Horizon) + Worked(Horizon, c)
      BY <1>0, <2>1, <2>3, WorkedSplit
    <3>2. Worked(Horizon, c) \in Nat
      BY <2>1, WorkedTyped
    <3> QED BY <1>0, <2>2, <3>1, <3>2
  <2>4. CASE Horizon < start
    <3>1. Worked(start, Horizon) = 0
      BY <1>0, <2>1, <2>4, WorkedNone
    <3> QED BY <1>0, <2>2, <3>1
  <2> QED BY <1>0, <2>1, <2>3, <2>4
<1>2. s < MaxDaysScanned
  BY <1>1, PolicyAssumption DEF Scans
<1>3. PICK d \in Int : d = DateOf(ToLocal(c))
  BY ClockTyped
<1>4. PICK M \in Int : M = Midnight(d + 1) /\ NextLocalMidnight(ToLocal(c)) = M /\ c < M
  BY <1>3, RestOfDay
<1>5. Reached(M, s + 1)
  BY <1>2, <1>3, <1>4, ReachedNext
<1>6. Worked(start, M) = Worked(start, c) + Worked(c, M)
  BY <1>0, <1>4, WorkedSplit
<1>7. WindowFor(ToLocal(c)) = OpenHours(d)
  BY <1>3, RestOfDay
<1>8. AddFrom[s][c][r] = AddRound(AddFrom, s, c, r)
  BY AddFromDefined
<1>9. CASE OpenHours(d) = NonWorking \/ MinuteOf(ToLocal(c)) >= OpenHours(d)[2]
  <2>1. AddFrom[s][c][r] = AddFrom[s + 1][M][r]
    BY <1>1, <1>4, <1>7, <1>8, <1>9, Zenon DEF AddRound
  <2>2. Worked(c, M) = 0
    BY <1>3, <1>4, <1>9, ClosedRest, WorkedNone
  <2>3. Worked(start, M) + r = amount
    BY <1>0, <1>6, <2>2
  <2> QED BY <1>2, <1>5, <2>1, <2>3
<1>10. CASE ~(OpenHours(d) = NonWorking \/ MinuteOf(ToLocal(c)) >= OpenHours(d)[2])
  <2>0. Closes(d) \in Int /\ MinuteOf(ToLocal(c)) \in Int /\ OpenHours(d) /= NonWorking
    BY <1>10, WindowTyped, ClockTyped, ZoneTyped DEF OpenHours, Closes, DayMinutes
  <2>1. MinuteOf(ToLocal(c)) < Closes(d)
    BY <1>10, <2>0 DEF Closes
  <2>2. PICK f \in Int : f = First(c, d) /\ f < Closes(d)
    BY <1>3, <2>0, <2>1, OpenRest
  <2>3. PICK p \in Int : p = InstantOf(d, f) /\ c <= p
    BY <1>3, <2>0, <2>1, <2>2, OpenRest
  <2>4. PICK q \in Int : q = InstantOf(d, Closes(d)) /\ q < M /\ q = p + (Closes(d) - f)
    <3>1. Closes(d) \in f .. Closes(d)
      BY <2>0, <2>2
    <3>2. InstantOf(d, Closes(d)) = p + (Closes(d) - f)
      BY <1>3, <2>0, <2>1, <2>2, <2>3, <3>1, OpenRest
    <3> QED BY <1>3, <1>4, <2>0, <2>1, <2>2, <2>3, <3>2, OpenRest
  <2>5. \A ms \in Int : c <= ms /\ ms < M => (Works(ms) <=> p <= ms /\ ms < q)
    <3>1. \A ms \in Int : c <= ms /\ ms < Midnight(d + 1) =>
            (Works(ms) <=> InstantOf(d, First(c, d)) <= ms /\ ms < InstantOf(d, Closes(d)))
      BY <1>3, <2>0, <2>1, OpenRest
    <3> QED BY <1>4, <2>2, <2>3, <2>4, <3>1
  <2>6. CASE Closes(d) - f >= r
    <3>1. AddFrom[s][c][r] = FromLocal(d * DayLength + f + r)
      BY <1>1, <1>3, <1>7, <1>8, <1>10, <2>2, <2>6, Zenon DEF AddRound, First, Closes
    <3>2. d * DayLength + f + r = d * DayLength + (f + r)
      BY ZoneTyped
    <3>3. InstantOf(d, f + r) = p + r
      <4>1. f + r \in f .. Closes(d)
        BY <2>0, <2>6
      <4>2. InstantOf(d, f + r) = p + ((f + r) - f)
        BY <1>3, <2>0, <2>1, <2>2, <2>3, <4>1, OpenRest
      <4> QED BY <4>2
    <3>4. AddFrom[s][c][r] = p + r
      BY <3>1, <3>2, <3>3 DEF InstantOf
    <3>5. Worked(c, p + r) = r
      <4>1. PICK e \in Int : e = p + r
        OBVIOUS
      <4>2. p <= e /\ e <= q /\ e < M /\ e - p = r
        BY <2>0, <2>4, <2>6, <4>1
      <4>3. \A ms \in Int : c <= ms /\ ms < e => (Works(ms) <=> p <= ms /\ ms < e)
        BY <2>4, <2>5, <4>2
      <4>4. Stretch(c, e, p, e)
        BY <2>3, <4>2, <4>3 DEF Stretch
      <4>5. Worked(c, e) = e - p
        BY <4>4, WorkedStretch
      <4> QED BY <4>1, <4>2, <4>5
    <3>6. Worked(start, p + r) = Worked(start, c) + Worked(c, p + r)
      <4>1. p + r \in Int /\ c <= p + r
        BY <2>3
      <4> QED BY <1>0, <4>1, WorkedSplit
    <3>7. Works(p + r - 1)
      <4>1. p + r - 1 \in Int /\ c <= p + r - 1 /\ p + r - 1 < M /\ p <= p + r - 1 /\ p + r - 1 < q
        BY <2>0, <2>3, <2>4, <2>6
      <4> QED BY <2>5, <4>1
    <3> QED BY <1>0, <3>4, <3>5, <3>6, <3>7 DEF Promised
  <2>7. CASE ~(Closes(d) - f >= r)
    <3>1. AddFrom[s][c][r] = AddFrom[s + 1][M][r - (Closes(d) - f)]
      BY <1>1, <1>3, <1>4, <1>7, <1>8, <1>10, <2>2, <2>7, Zenon DEF AddRound, First, Closes
    <3>2. Worked(c, M) = q - p
      <4>1. Stretch(c, M, p, q)
        BY <2>0, <2>2, <2>3, <2>4, <2>5 DEF Stretch
      <4> QED BY <4>1, WorkedStretch
    <3>3. PICK t \in Int : t = r - (Closes(d) - f)
      BY <2>0
    <3>4. t > 0 /\ Worked(start, M) + t = amount
      BY <1>0, <1>6, <2>0, <2>4, <2>7, <3>2, <3>3
    <3> QED BY <1>2, <1>5, <3>1, <3>3, <3>4
  <2> QED BY <2>6, <2>7
<1> QED BY <1>9, <1>10

\* One round of CountFrom counts what is worked until the next midnight.
LEMMA CountStep ==
  ASSUME PolicyInput, Calm, DOMAIN hours.days /= {}, NEW s \in Scans,
         NEW c \in Int, NEW t \in Int, Reached(c, s), t <= Horizon,
         s < MaxDaysScanned =>
           \A e \in Int : Reached(e, s + 1) => CountFrom[s + 1][e][t] = Worked(e, t)
  PROVE  CountFrom[s][c][t] = Worked(c, t)
<1>1. CountFrom[s][c][t] = CountRound(CountFrom, s, c, t)
  BY CountFromDefined
<1>2. CASE c >= t
  <2>1. Worked(c, t) = 0
    BY <1>2, WorkedNone
  <2>2. CountRound(CountFrom, s, c, t) = 0
    BY <1>2, Zenon DEF CountRound
  <2> QED BY <1>1, <2>1, <2>2
<1>3. CASE ~(c >= t)
  <2>1. s < MaxDaysScanned /\ s /= MaxDaysScanned
    <3>1. s /= MaxDaysScanned
      <4>1. s = MaxDaysScanned => Horizon \in Int /\ Horizon <= c
        BY HorizonReached
      <4> QED BY <1>3, <4>1
    <3> QED BY <3>1, PolicyAssumption DEF Scans
  <2>2. PICK d \in Int : d = DateOf(ToLocal(c))
    BY ClockTyped
  <2>3. PICK M \in Int : M = Midnight(d + 1) /\ NextLocalMidnight(ToLocal(c)) = M /\ c < M
    BY <2>2, RestOfDay
  <2>4. CountFrom[s + 1][M][t] = Worked(M, t) /\ Worked(M, t) \in Nat
    <3>1. Reached(M, s + 1)
      BY <2>1, <2>2, <2>3, ReachedNext
    <3> QED BY <2>1, <3>1, WorkedTyped
  <2>5. WindowFor(ToLocal(c)) = OpenHours(d)
    BY <2>2, RestOfDay
  <2>6. PICK h \in Int : (h = M \/ h = t) /\ h <= M /\ h <= t
    OBVIOUS
  <2>7. Worked(c, t) = Worked(c, h) + Worked(M, t)
    <3>1. CASE h = M
      BY <1>3, <2>3, <2>6, <3>1, WorkedSplit
    <3>2. CASE h = t /\ t <= M
      <4>1. Worked(M, t) = 0
        BY <3>2, WorkedNone
      <4>2. Worked(c, t) = Worked(c, h) /\ Worked(c, t) \in Nat
        BY <3>2, WorkedTyped
      <4> QED BY <4>1, <4>2
    <3> QED BY <2>6, <3>1, <3>2
  <2>8. CASE OpenHours(d) = NonWorking \/ MinuteOf(ToLocal(c)) >= OpenHours(d)[2]
    <3>1. Worked(c, h) = 0
      BY <2>2, <2>3, <2>6, <2>8, ClosedRest, WorkedNone
    <3>2. OpenHours(d) = NonWorking \/ ~(First(c, d) < OpenHours(d)[2])
      <4>1. CASE OpenHours(d) /= NonWorking
        <5>1. OpenHours(d)[1] \in Int /\ OpenHours(d)[2] \in Int /\ MinuteOf(ToLocal(c)) \in Int
          BY <4>1, WindowTyped, ClockTyped, ZoneTyped DEF OpenHours, DayMinutes
        <5> QED BY <2>8, <4>1, <5>1 DEF First, LatestRange
      <4> QED BY <4>1
    <3>3. CountRound(CountFrom, s, c, t) = CountFrom[s + 1][M][t]
      BY <1>3, <2>1, <2>3, <2>5, <3>2, Zenon DEF CountRound, First
    <3> QED BY <1>1, <2>4, <2>7, <3>1, <3>3
  <2>9. CASE ~(OpenHours(d) = NonWorking \/ MinuteOf(ToLocal(c)) >= OpenHours(d)[2])
    <3>0. Closes(d) \in Int /\ MinuteOf(ToLocal(c)) \in Int /\ OpenHours(d) /= NonWorking
      BY <2>9, WindowTyped, ClockTyped, ZoneTyped DEF OpenHours, Closes, DayMinutes
    <3>1. MinuteOf(ToLocal(c)) < Closes(d)
      BY <2>9, <3>0 DEF Closes
    <3>2. PICK f \in Int : f = First(c, d) /\ f < Closes(d)
      BY <2>2, <3>0, <3>1, OpenRest
    <3>3. PICK p \in Int : p = InstantOf(d, f) /\ c <= p
      BY <2>2, <3>0, <3>1, <3>2, OpenRest
    <3>4. PICK q \in Int : q = InstantOf(d, Closes(d)) /\ q < M /\ q = p + (Closes(d) - f)
      <4>1. Closes(d) \in f .. Closes(d)
        BY <3>0, <3>2
      <4>2. InstantOf(d, Closes(d)) = p + (Closes(d) - f)
        BY <2>2, <3>0, <3>1, <3>2, <3>3, <4>1, OpenRest
      <4> QED BY <2>2, <2>3, <3>0, <3>1, <3>2, <3>3, <4>2, OpenRest
    <3>5. \A ms \in Int : c <= ms /\ ms < M => (Works(ms) <=> p <= ms /\ ms < q)
      <4>1. \A ms \in Int : c <= ms /\ ms < Midnight(d + 1) =>
              (Works(ms) <=> InstantOf(d, First(c, d)) <= ms /\ ms < InstantOf(d, Closes(d)))
        BY <2>2, <3>0, <3>1, OpenRest
      <4> QED BY <2>3, <3>2, <3>3, <3>4, <4>1
    <3>6. PICK u \in Int : u = Earliest(q, t) /\ (u = q \/ u = t) /\ u <= q /\ u <= t
      BY DEF Earliest
    <3>7. CountRound(CountFrom, s, c, t) = IF u > p THEN (u - p) + CountFrom[s + 1][M][t]
                                                    ELSE CountFrom[s + 1][M][t]
      <4>1. /\ LatestRange(MinuteOf(ToLocal(c)), WindowFor(ToLocal(c))[1]) = f
            /\ FromLocal(DateOf(ToLocal(c)) * DayLength + f) = p
            /\ Earliest(FromLocal(DateOf(ToLocal(c)) * DayLength + WindowFor(ToLocal(c))[2]), t) = u
            /\ f < WindowFor(ToLocal(c))[2] /\ WindowFor(ToLocal(c)) # NonWorking
        BY <2>2, <2>5, <3>0, <3>2, <3>3, <3>4, <3>6, Zenon DEF First, Closes, InstantOf
      <4> QED BY <1>3, <2>1, <2>3, <4>1, Zenon DEF CountRound
    <3>8. CASE u > p
      <4>1. Worked(c, h) = u - p
        <5>1. p <= u /\ u <= h
          BY <2>6, <3>4, <3>6, <3>8
        <5>2. \A ms \in Int : c <= ms /\ ms < h => (Works(ms) <=> p <= ms /\ ms < u)
          BY <2>6, <3>5, <3>6
        <5>3. Stretch(c, h, p, u)
          BY <3>3, <5>1, <5>2 DEF Stretch
        <5> QED BY <5>3, WorkedStretch
      <4> QED BY <1>1, <2>4, <2>7, <3>7, <3>8, <4>1
    <3>9. CASE ~(u > p)
      <4>1. t <= p
        BY <3>0, <3>2, <3>4, <3>6, <3>9
      <4>2. \A ms \in Int : c <= ms /\ ms < h => ~Works(ms)
        BY <2>6, <3>5, <4>1
      <4>3. Worked(c, h) = 0
        BY <4>2, WorkedNone
      <4> QED BY <1>1, <2>4, <2>7, <3>7, <3>9, <4>3
    <3> QED BY <3>8, <3>9
  <2> QED BY <2>8, <2>9
<1> QED BY <1>2, <1>3

\* Both loops by induction on the number of days still to scan.
LEMMA AddRuns ==
  ASSUME PolicyInput, Calm, DOMAIN hours.days /= {}, NEW s \in Scans,
         NEW c \in Int, NEW r \in Int, Reached(c, s), r > 0, Worked(start, c) + r = amount
  PROVE  Promised(AddFrom[s][c][r])
<1> DEFINE Fails(n) == \E e, q \in Int : /\ Reached(e, n) /\ q > 0 /\ Worked(start, e) + q = amount
                                        /\ ~Promised(AddFrom[n][e][q])
           Wrong == {k \in Nat : MaxDaysScanned - k \in Scans /\ Fails(MaxDaysScanned - k)}
<1>1. Wrong = {}
  <2> SUFFICES ASSUME Wrong /= {} PROVE FALSE
    OBVIOUS
  <2>1. PICK k \in Wrong : \A n \in Wrong : k <= n
    <3>1. Wrong \in SUBSET Nat
      OBVIOUS
    <3> HIDE DEF Wrong
    <3> QED BY <3>1, LeastNumber
  <2>2. PICK n \in Scans : n = MaxDaysScanned - k /\ Fails(n)
    OBVIOUS
  <2>3. n < MaxDaysScanned => ~Fails(n + 1)
    <3> HIDE DEF Fails
    <3> SUFFICES ASSUME n < MaxDaysScanned, Fails(n + 1) PROVE FALSE
      OBVIOUS
    <3>1. k - 1 \in Nat /\ MaxDaysScanned - (k - 1) = n + 1 /\ n + 1 \in Scans /\ ~(k <= k - 1)
      BY <2>2, PolicyAssumption DEF Scans
    <3>2. k - 1 \in Wrong
      BY <3>1
    <3> QED BY <2>1, <3>1, <3>2
  <2>4. PICK e \in Int, q \in Int : /\ Reached(e, n) /\ q > 0 /\ Worked(start, e) + q = amount
                                    /\ ~Promised(AddFrom[n][e][q])
    BY <2>2
  <2>5. n < MaxDaysScanned =>
          \A f, t \in Int : Reached(f, n + 1) /\ t > 0 /\ Worked(start, f) + t = amount
                             => Promised(AddFrom[n + 1][f][t])
    BY <2>3
  <2> HIDE DEF Wrong, Fails
  <2> QED BY <2>4, <2>5, AddStep
<1>2. PICK k \in Nat : k = MaxDaysScanned - s /\ MaxDaysScanned - k = s
  BY PolicyAssumption DEF Scans
<1>3. ~Fails(s)
  <2> HIDE DEF Fails
  <2> QED BY <1>1, <1>2
<1> QED BY <1>3

LEMMA CountRuns ==
  ASSUME PolicyInput, Calm, DOMAIN hours.days /= {}, NEW s \in Scans,
         NEW c \in Int, NEW t \in Int, Reached(c, s), t <= Horizon
  PROVE  CountFrom[s][c][t] = Worked(c, t)
<1> DEFINE Fails(n) == \E e \in Int : Reached(e, n) /\ CountFrom[n][e][t] /= Worked(e, t)
           Wrong == {k \in Nat : MaxDaysScanned - k \in Scans /\ Fails(MaxDaysScanned - k)}
<1>1. Wrong = {}
  <2> SUFFICES ASSUME Wrong /= {} PROVE FALSE
    OBVIOUS
  <2>1. PICK k \in Wrong : \A n \in Wrong : k <= n
    <3>1. Wrong \in SUBSET Nat
      OBVIOUS
    <3> HIDE DEF Wrong
    <3> QED BY <3>1, LeastNumber
  <2>2. PICK n \in Scans : n = MaxDaysScanned - k /\ Fails(n)
    OBVIOUS
  <2>3. n < MaxDaysScanned => ~Fails(n + 1)
    <3> HIDE DEF Fails
    <3> SUFFICES ASSUME n < MaxDaysScanned, Fails(n + 1) PROVE FALSE
      OBVIOUS
    <3>1. k - 1 \in Nat /\ MaxDaysScanned - (k - 1) = n + 1 /\ n + 1 \in Scans /\ ~(k <= k - 1)
      BY <2>2, PolicyAssumption DEF Scans
    <3>2. k - 1 \in Wrong
      BY <3>1
    <3> QED BY <2>1, <3>1, <3>2
  <2>4. PICK e \in Int : Reached(e, n) /\ CountFrom[n][e][t] /= Worked(e, t)
    BY <2>2
  <2>5. n < MaxDaysScanned =>
          \A f \in Int : Reached(f, n + 1) => CountFrom[n + 1][f][t] = Worked(f, t)
    BY <2>3
  <2> HIDE DEF Wrong, Fails
  <2> QED BY <2>4, <2>5, CountStep
<1>2. PICK k \in Nat : k = MaxDaysScanned - s /\ MaxDaysScanned - k = s
  BY PolicyAssumption DEF Scans
<1>3. ~Fails(s)
  <2> HIDE DEF Fails
  <2> QED BY <1>1, <1>2
<1> QED BY <1>3

LEMMA WorkedAllOpen ==
  ASSUME NEW a \in Int, NEW b \in Int, a <= b, DOMAIN hours.days = {}
  PROVE  Worked(a, b) = b - a
<1>1. \A ms \in Int : Works(ms)
  BY DEF Works
<1>2. Stretch(a, b, a, b)
  BY <1>1 DEF Stretch
<1> QED BY <1>2, WorkedStretch

\* A due date is exact.
LEMMA AddIsExact ==
  ASSUME PolicyInput, Calm, amount > 0
  PROVE  Promised(AddBusinessMinutes)
<1>0. start \in Int /\ amount \in Int /\ ~(amount <= 0)
  BY ZoneTyped
<1>1. CASE DOMAIN hours.days = {}
  <2>1. AddBusinessMinutes = start + amount
    BY <1>1 DEF AddBusinessMinutes
  <2>2. Worked(start, start + amount) = amount
    <3>1. PICK b \in Int : b = start + amount
      BY <1>0
    <3>2. Worked(start, b) = b - start
      BY <1>0, <1>1, <3>1, WorkedAllOpen
    <3> QED BY <1>0, <3>1, <3>2
  <2>3. Works(start + amount - 1)
    BY <1>1 DEF Works
  <2> QED BY <1>0, <2>1, <2>2, <2>3 DEF Promised
<1>2. CASE DOMAIN hours.days /= {}
  <2>1. AddBusinessMinutes = AddFrom[0][start][amount]
    BY <1>0, <1>2 DEF AddBusinessMinutes
  <2>2. Reached(start, 0) /\ 0 \in Scans
    BY <1>0, ClockTyped, PolicyAssumption DEF Reached, Scans
  <2>3. Worked(start, start) = 0
    BY <1>0, WorkedNone
  <2> QED BY <1>0, <1>2, <2>1, <2>2, <2>3, AddRuns
<1> QED BY <1>1, <1>2

\* Counting is exact up to the horizon, and the cap on what is returned does not bite.
LEMMA CountIsWorked ==
  ASSUME PolicyInput, Calm, NEW to \in start .. Horizon
  PROVE  BusinessMinutesBetween(start, to) = Worked(start, to)
<1>0. start \in Int /\ Horizon \in Int /\ to \in Int /\ start <= to /\ to <= Horizon
  <2>1. start \in Int /\ MaxDaysScanned - 2 \in Int /\ DayLength \in Int
    BY ZoneTyped, PolicyAssumption
  <2>2. (MaxDaysScanned - 2) * DayLength \in Int
    BY <2>1
  <2> QED BY <2>1, <2>2 DEF Horizon
<1>1. CASE to <= start
  BY <1>0, <1>1, WorkedNone DEF BusinessMinutesBetween
<1>2. CASE ~(to <= start) /\ DOMAIN hours.days = {}
  <2>1. Worked(start, to) = to - start
    BY <1>0, <1>2, WorkedAllOpen
  <2> QED BY <1>2, <2>1 DEF BusinessMinutesBetween
<1>3. CASE ~(to <= start) /\ DOMAIN hours.days /= {}
  <2>1. Reached(start, 0) /\ 0 \in Scans
    BY <1>0, ClockTyped, PolicyAssumption DEF Reached, Scans
  <2>2. CountFrom[0][start][to] = Worked(start, to)
    BY <1>0, <1>3, <2>1, CountRuns
  <2>3. Worked(start, to) \in Nat /\ Worked(start, to) <= to - start
    <3>1. WorkedSet(start, to) \in SUBSET (start .. (to - 1))
      BY DEF WorkedSet
    <3>2. to - 1 \in Int
      BY <1>0
    <3>3. IsFiniteSet(start .. (to - 1)) /\ Cardinality(start .. (to - 1)) = IF start > to - 1 THEN 0 ELSE (to - 1) - start + 1
      BY <1>0, <3>2, FS_Interval, Zenon
    <3>4. Cardinality(WorkedSet(start, to)) <= Cardinality(start .. (to - 1))
      BY <3>1, <3>3, FS_Subset
    <3> QED BY <1>0, <1>3, <3>3, <3>4, WorkedTyped
  <2>4. to - start <= DayLength * MaxDaysScanned /\ DayLength * MaxDaysScanned \in Int
    <3>1. PICK v \in Int : v = (MaxDaysScanned - 2) * DayLength
      BY ZoneTyped, PolicyAssumption
    <3>2. DayLength * MaxDaysScanned = v + DayLength + DayLength
      BY <3>1, ZoneTyped, PolicyAssumption
    <3>3. Horizon = start + v
      BY <3>1 DEF Horizon
    <3> QED BY <1>0, <3>1, <3>2, <3>3, ZoneTyped
  <2>5. Earliest(Worked(start, to), DayLength * MaxDaysScanned) = Worked(start, to)
    BY <1>0, <2>3, <2>4 DEF Earliest
  <2> QED BY <1>3, <2>2, <2>5 DEF BusinessMinutesBetween
<1> QED BY <1>1, <1>2, <1>3

\* The inductive invariant: the due date is the one computed from the sample.
PolicyInv == PolicyInput /\ (due /= NotYet => due = AddBusinessMinutes)

LEMMA PolicyHolds ==
  ASSUME PolicyInv
  PROVE  PolicyExact
<1>1. PolicyInput /\ (due /= NotYet => due = AddBusinessMinutes)
  BY DEF PolicyInv
<1>2. DueIsExact
  BY <1>1, AddIsExact DEF DueIsExact, Promised
<1>3. CountIsExact
  BY <1>1, CountIsWorked DEF CountIsExact, Horizon
<1> QED BY <1>2, <1>3 DEF PolicyExact

LEMMA PolicyStarts ==
  ASSUME PolicyInit
  PROVE  PolicyInv
BY DEF PolicyInit, PolicyInv, PolicyInput

\* What is computed depends on the sample alone.
LEMMA SameSample ==
  ASSUME zone' = zone, hours' = hours, start' = start, amount' = amount
  PROVE  AddBusinessMinutes' = AddBusinessMinutes
<1>1. \A x : OffsetAt(x)' = OffsetAt(x)
  BY DEF OffsetAt
<1>2. \A x : ToLocal(x)' = ToLocal(x)
  BY <1>1, Zenon DEF ToLocal
<1>3. \A x : FromLocal(x)' = FromLocal(x)
  BY <1>1, Zenon DEF FromLocal
<1>4. \A x : NextLocalMidnight(x)' = NextLocalMidnight(x)
  BY <1>3, Zenon DEF NextLocalMidnight
<1>5. \A x : WindowFor(x)' = WindowFor(x)
  BY Zenon DEF WindowFor
<1>6. ASSUME NEW f, NEW s \in Scans, NEW c \in Int, NEW r \in Int
      PROVE  AddRound(f, s, c, r)' = AddRound(f, s, c, r)
  BY <1>2, <1>3, <1>4, <1>5, Zenon DEF AddRound
<1>7. ASSUME NEW f PROVE AddTable(f)' = AddTable(f)
  BY <1>6 DEF AddTable, Scans
<1>8. AddFrom = CHOOSE g : g = AddTable(g)
  BY Zenon DEF AddFrom, AddTable, AddRound, Scans
<1>9. AddFrom' = CHOOSE g : g = AddTable(g)'
  BY Zenon DEF AddFrom, AddTable, AddRound, Scans
<1>10. AddFrom' = AddFrom
  BY <1>7, <1>8, <1>9, Zenon
<1> QED BY <1>10 DEF AddBusinessMinutes

LEMMA ComputeDueKeeps ==
  ASSUME PolicyInv, ComputeDue
  PROVE  PolicyInv'
<1>1. zone' = zone /\ hours' = hours /\ start' = start /\ amount' = amount
      /\ due' = AddBusinessMinutes /\ PolicyInput
  BY DEF ComputeDue, PolicyInv
<1>2. PolicyInput'
  BY <1>1 DEF PolicyInput
<1>3. AddBusinessMinutes' = AddBusinessMinutes
  BY <1>1, SameSample
<1> QED BY <1>1, <1>2, <1>3 DEF PolicyInv

LEMMA PolicyStutters ==
  ASSUME PolicyInv, UNCHANGED policyVars
  PROVE  PolicyInv'
<1>1. zone' = zone /\ hours' = hours /\ start' = start /\ amount' = amount /\ due' = due
  BY DEF policyVars
<1>2. PolicyInput'
  BY <1>1 DEF PolicyInv, PolicyInput
<1>3. AddBusinessMinutes' = AddBusinessMinutes
  BY <1>1, SameSample
<1> QED BY <1>1, <1>2, <1>3 DEF PolicyInv

\* Theorem: for every zone, schedule, start and amount, a due date lies behind
\* exactly the promised working minutes and counting agrees with the minute-by-minute
\* definition, as long as the clock changes outside working hours (sla/policy.ts).
THEOREM DueDatesAreExact == PolicySpec => []PolicyExact
<1>1. ASSUME PolicyInv, [ComputeDue]_policyVars PROVE PolicyInv'
  <2>1. CASE ComputeDue
    BY <1>1, <2>1, ComputeDueKeeps
  <2>2. CASE UNCHANGED policyVars
    BY <1>1, <2>2, PolicyStutters
  <2> QED BY <1>1, <2>1, <2>2
<1> QED BY <1>1, PolicyStarts, PolicyHolds, PTL DEF PolicySpec

(***************************************************************************)
(* All parts, each of whose variables only its own steps change.           *)
(***************************************************************************)
LEMMA PartsAreComponents ==
  MCSpec => /\ DeskSpec /\ AccountSpec /\ DraftsSpec
            /\ PagingSpec /\ ThreadSpec /\ RulesSpec /\ PolicySpec
<1>1. MCInit => /\ DeskInit /\ AccountInit /\ DraftsInit
                /\ PagingInit /\ ThreadInit /\ RulesInit /\ PolicyInit
  BY DEF MCInit
<1>2. [MCNext]_mcVars => /\ [DeskNext]_deskVars
                         /\ [AccountNext]_accountVars /\ [DraftsNext]_draftVars
                         /\ [PagingNext]_pagingVars /\ [ThreadNext]_threadVars
                         /\ [RulesNext]_ruleVars /\ [ComputeDue]_policyVars
  BY DEF MCNext, mcVars
<1> QED
  BY <1>1, <1>2, PTL DEF MCSpec, DeskSpec, AccountSpec, DraftsSpec, PagingSpec,
                         ThreadSpec, RulesSpec, PolicySpec

\* Theorem: rows, requests, tabs and walks of every part have their types.
THEOREM WorkIsTyped == MCSpec => []AgentWorkTypeOK
<1>1. /\ DeskTypeOK /\ EndHasTime /\ AccountTypeOK /\ DraftsTypeOK /\ PagingTypeOK
      => AgentWorkTypeOK
  BY DEF AgentWorkTypeOK
<1> QED
  BY <1>1, PartsAreComponents, DeskTyped, AccountsStayWhole, SentNeverReturns,
     WalksFindAll, PTL

\* Theorem: what is read page by page while it changes, lists and conversations,
\* skips nothing that stays.
THEOREM WalksAreComplete == MCSpec => []WalksComplete
<1>1. NothingSkipped /\ NoHoleInThread => WalksComplete
  BY DEF WalksComplete
<1> QED
  BY <1>1, PartsAreComponents, WalksFindAll, ThreadHasNoHole, PTL
================================================================================
