------------------------------ MODULE MailStaging ------------------------------
(***************************************************************************)
(* The raw copy of an inbound mail once its event has stopped: the         *)
(* administrator may retry the event, which needs the copy, and the        *)
(* staging cleanup removes copies that have not been touched for seven     *)
(* days.  InboundMail has what happens before; here the queue's work on a  *)
(* retried event is one step.                                              *)
(***************************************************************************)
EXTENDS Integers

CONSTANTS
  Passes,        \* invocations of the cleanup under way together
  Clicks,        \* retries asked for
  MaxGeneration  \* bound: retries that can succeed

VARIABLES
  event,  \* the inbound_mail_events row; old: updated_at lies seven days back
  raw,    \* the object at its staging key exists
  pc      \* per pass and per click, with the generation a click came with

stagingVars == <<event, raw, pc>>

StagingInit ==
  /\ event \in [status : {"failed", "completed"}, generation : {0}, lease : {FALSE},
                old : BOOLEAN, staged : {TRUE}]
  /\ raw = TRUE
  /\ pc = [x \in Passes \cup Clicks |-> [at |-> "idle", generation |-> 0]]

Moves(x, at) == pc' = [pc EXCEPT ![x].at = at]

(***************************************************************************)
(* processMaintenance, kind staging.                                       *)
(***************************************************************************)
SelectOld(p) ==
  /\ pc[p].at = "idle"
  /\ event.status \in {"completed", "failed"} /\ event.old /\ ~event.lease /\ event.staged
  /\ Moves(p, "claim")
  /\ UNCHANGED <<event, raw>>

\* A retry since the SELECT renewed updated_at, another pass holds the lease.
ClaimOld(p) ==
  /\ pc[p].at = "claim"
  /\ IF event.old /\ ~event.lease
     THEN event' = [event EXCEPT !.lease = TRUE] /\ Moves(p, "delete")
     ELSE UNCHANGED event /\ Moves(p, "idle")
  /\ UNCHANGED raw

DeleteCopy(p) ==
  /\ pc[p].at = "delete"
  /\ raw' = FALSE
  /\ Moves(p, "forget")
  /\ UNCHANGED event

ForgetKey(p) ==
  /\ pc[p].at = "forget"
  /\ event' = [event EXCEPT !.staged = FALSE, !.lease = FALSE]
  /\ Moves(p, "idle")
  /\ UNCHANGED raw

\* The invocation ends at any statement; its lease runs out later.
PassDies(p) == pc[p].at /= "idle" /\ Moves(p, "idle") /\ UNCHANGED <<event, raw>>
LeaseEnds == event.lease /\ event' = [event EXCEPT !.lease = FALSE] /\ UNCHANGED <<raw, pc>>

(***************************************************************************)
(* GET /mail/recovery and POST /mail/recovery/:id/retry.                   *)
(***************************************************************************)
\* The stopped mail on the administrator's list; its generation comes with the click.
SeeStopped(k) ==
  /\ pc[k].at = "idle" /\ event.status = "failed"
  /\ pc' = [pc EXCEPT ![k] = [at |-> "seen", generation |-> event.generation]]
  /\ UNCHANGED <<event, raw>>

\* Of the row the click finds only status and staging key matter.
ReadStopped(k) ==
  /\ pc[k].at = "seen"
  /\ Moves(k, IF event.status = "failed" /\ event.staged THEN "head" ELSE "done")
  /\ UNCHANGED <<event, raw>>

\* Without the object the answer is payload_expired.
HeadCopy(k) == pc[k].at = "head" /\ Moves(k, IF raw THEN "requeue" ELSE "done") /\ UNCHANGED <<event, raw>>

Requeue(k) ==
  /\ pc[k].at = "requeue" /\ event.generation < MaxGeneration
  /\ event' = IF event.status = "failed" /\ event.generation = pc[k].generation /\ ~event.lease
              THEN [event EXCEPT !.status = "staged", !.generation = @ + 1, !.old = FALSE]
              ELSE event
  /\ Moves(k, "done")
  /\ UNCHANGED raw

\* The queue: the mail is taken in and its copy deleted, or the event stops again.
Reprocess ==
  /\ event.status = "staged"
  /\ \/ raw /\ event' = [event EXCEPT !.status = "completed"] /\ raw' = FALSE
     \/ event' = [event EXCEPT !.status = "failed"] /\ UNCHANGED raw
  /\ UNCHANGED pc

SevenDays == event.status /= "staged" /\ event' = [event EXCEPT !.old = TRUE] /\ UNCHANGED <<raw, pc>>

StagingNext ==
  \/ \E p \in Passes : SelectOld(p) \/ ClaimOld(p) \/ DeleteCopy(p) \/ ForgetKey(p) \/ PassDies(p)
  \/ \E k \in Clicks : SeeStopped(k) \/ ReadStopped(k) \/ HeadCopy(k) \/ Requeue(k)
  \/ LeaseEnds \/ Reprocess \/ SevenDays

StagingSpec == StagingInit /\ [][StagingNext]_stagingVars

(***************************************************************************)
(* Properties.                                                             *)
(***************************************************************************)
\* What src/server/maintenance/service.ts:95 says of the cleanup: the event is
\* reserved against a manual retry before its only raw copy is removed, so a
\* retried event still has its copy.
RetriedHasCopy == event.status = "staged" => raw
=============================================================================
