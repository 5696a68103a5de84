---------------------------- MODULE WebhookDelivery ----------------------------
(***************************************************************************)
(* Outgoing webhooks of one endpoint.  An event becomes a delivery row and  *)
(* is attempted at once; the Cron retries what is due.  The row, the        *)
(* endpoint's failure counter and the request to the receiver share no      *)
(* transaction, nothing leases a row, and the counter is written from the   *)
(* copy of the endpoint the attempt began with.                            *)
(*                                                                         *)
(* The Cron claims twenty rows a run; Deliveries is smaller than that.     *)
(***************************************************************************)
EXTENDS Integers, FiniteSets

CONSTANTS
  Deliveries,
  HookAttempts,  \* MAX_ATTEMPTS
  DisableAfter,  \* AUTO_DISABLE_AFTER
  MaxCrashes,    \* bounds the Cron runs that end early
  NoDelivery

ASSUME WebhookAssumption ==
  /\ HookAttempts \in Nat \ {0} /\ DisableAfter \in Nat \ {0} /\ MaxCrashes \in Nat
  /\ IsFiniteSet(Deliveries) /\ NoDelivery \notin Deliveries

VARIABLES
  hook,     \* the webhook_endpoints row
  delivery, \* webhook_deliveries rows
  sender,   \* the attempt made at once, by delivery, and the Cron's
  batch,    \* what the Cron run has selected and not tried yet
  crashes

webhookVars == <<hook, delivery, sender, batch, crashes>>

Cron == NoDelivery
Senders == Deliveries \cup {Cron}

FreshHook == [there |-> TRUE, enabled |-> TRUE, failures |-> 0]
NoRecord == [status |-> "none", attempts |-> 0, due |-> FALSE]
Pending == [status |-> "pending", attempts |-> 0, due |-> TRUE]
Resting == [pc |-> "idle", delivery |-> NoDelivery, hook |-> FreshHook, terminal |-> FALSE, attempts |-> 0]

WebhookInit ==
  /\ hook = FreshHook
  /\ delivery = [d \in Deliveries |-> NoRecord]
  /\ sender = [s \in Senders |-> Resting]
  /\ batch = {}
  /\ crashes = 0

SenderAt(s, pc) == sender' = [sender EXCEPT ![s].pc = pc]
SenderRests(s) == sender' = [sender EXCEPT ![s] = Resting]

(***************************************************************************)
(* An event, or the administrator's test.                                  *)
(***************************************************************************)
\* emitWebhookEvent takes enabled endpoints only, the test route takes any.
Subscribed(d, test) ==
  /\ delivery[d].status = "none" /\ sender[d].pc = "idle"
  /\ hook.there /\ (hook.enabled \/ test)
  /\ sender' = [sender EXCEPT ![d] = [Resting EXCEPT !.pc = "insert", !.delivery = d, !.hook = hook]]
  /\ UNCHANGED <<hook, delivery, batch, crashes>>

\* The row, unless the endpoint it refers to is gone.  What emits from a queue
\* consumer, or ends here, leaves the row to the Cron.
InsertDelivery(d, stays) ==
  /\ sender[d].pc = "insert"
  /\ delivery' = IF hook.there THEN [delivery EXCEPT ![d] = Pending] ELSE delivery
  /\ IF hook.there /\ stays THEN SenderAt(d, "send") ELSE SenderRests(d)
  /\ UNCHANGED <<hook, batch, crashes>>

(***************************************************************************)
(* attemptDelivery.                                                        *)
(***************************************************************************)
\* The receiver accepts, refuses for good (a redirect, 410, a bad destination),
\* fails, or does not answer in ten seconds.
Post(s, answer) ==
  /\ sender[s].pc = "send"
  /\ sender' = [sender EXCEPT ![s].pc = IF answer = "accepted" THEN "success" ELSE "failure",
                              ![s].terminal = answer = "terminal"]
  /\ UNCHANGED <<hook, delivery, batch, crashes>>

MRecordSuccessStaysDue(s) ==
  LET d == sender[s].delivery
  IN  /\ sender[s].pc = "success"
      /\ delivery' = IF delivery[d].status = "none" THEN delivery
                     ELSE [delivery EXCEPT ![d].status = "delivered", ![d].attempts = @ + 1]
      /\ hook' = IF hook.there THEN [hook EXCEPT !.failures = 0] ELSE hook
      /\ SenderRests(s)
      /\ UNCHANGED <<batch, crashes>>

\* Both updates name ids only: whatever the row has become, it is delivered.
RecordSuccess(s) ==
  LET d == sender[s].delivery
  IN  /\ sender[s].pc = "success"
      /\ delivery' = IF delivery[d].status = "none" THEN delivery
                     ELSE [delivery EXCEPT ![d].status = "delivered", ![d].attempts = @ + 1, ![d].due = FALSE]
      /\ hook' = IF hook.there THEN [hook EXCEPT !.failures = 0] ELSE hook
      /\ SenderRests(s)
      /\ UNCHANGED <<batch, crashes>>

\* A row that is gone counts as one with no attempts.
ReadAttempts(s) ==
  /\ sender[s].pc = "failure"
  /\ sender' = [sender EXCEPT ![s].pc = "record", ![s].attempts = delivery[sender[s].delivery].attempts]
  /\ UNCHANGED <<hook, delivery, batch, crashes>>

\* The attempts as read a statement ago, the endpoint as read before the request.
RecordFailure(s) ==
  LET d == sender[s].delivery
      copy == sender[s].hook
      attempts == sender[s].attempts + 1
      exhausted == sender[s].terminal \/ attempts >= HookAttempts
  IN  /\ sender[s].pc = "record"
      /\ delivery' = IF delivery[d].status = "none" THEN delivery
                     ELSE [delivery EXCEPT ![d] = [status |-> IF exhausted THEN "abandoned" ELSE "pending",
                                                   attempts |-> attempts, due |-> FALSE]]
      /\ hook' = IF ~hook.there THEN hook
                 ELSE [hook EXCEPT !.failures = copy.failures + 1,
                                   !.enabled = copy.enabled /\ copy.failures + 1 < DisableAfter]
      /\ SenderRests(s)
      /\ UNCHANGED <<batch, crashes>>

\* waitUntil is cut short, or a statement throws.
SenderDies(d) ==
  /\ sender[d].pc \in {"insert", "send", "success", "failure", "record"}
  /\ SenderRests(d)
  /\ UNCHANGED <<hook, delivery, batch, crashes>>

(***************************************************************************)
(* The Cron.                                                               *)
(***************************************************************************)
DueDeliveries == {d \in Deliveries : delivery[d].status = "pending" /\ delivery[d].due}

SelectDue ==
  /\ sender[Cron].pc = "idle" /\ batch = {}
  /\ DueDeliveries /= {}
  /\ batch' = DueDeliveries
  /\ UNCHANGED <<hook, delivery, sender, crashes>>

MRetrySkipsDisabled(d) ==
  /\ sender[Cron].pc = "idle" /\ d \in batch
  /\ batch' = batch \ {d}
  /\ sender' = IF hook.there /\ hook.enabled
               THEN [sender EXCEPT ![Cron] = [Resting EXCEPT !.pc = "send", !.delivery = d, !.hook = hook]]
               ELSE sender
  /\ UNCHANGED <<hook, delivery, crashes>>

\* The endpoint is read afresh: gone, skip; disabled, abandon; else attempt.
Retry(d) ==
  /\ sender[Cron].pc = "idle" /\ d \in batch
  /\ batch' = batch \ {d}
  /\ sender' = IF hook.there /\ hook.enabled
               THEN [sender EXCEPT ![Cron] = [Resting EXCEPT !.pc = "send", !.delivery = d, !.hook = hook]]
               ELSE sender
  /\ delivery' = IF hook.there /\ ~hook.enabled
                 THEN [delivery EXCEPT ![d].status = "abandoned", ![d].due = FALSE] ELSE delivery
  /\ UNCHANGED <<hook, crashes>>

CronDies ==
  /\ crashes < MaxCrashes
  /\ sender[Cron].pc /= "idle" \/ batch /= {}
  /\ crashes' = crashes + 1
  /\ SenderRests(Cron)
  /\ batch' = {}
  /\ UNCHANGED <<hook, delivery>>

\* The back-off is over.
BecomesDue(d) ==
  /\ delivery[d].status = "pending" /\ ~delivery[d].due
  /\ delivery' = [delivery EXCEPT ![d].due = TRUE]
  /\ UNCHANGED <<hook, sender, batch, crashes>>

(***************************************************************************)
(* The administrator.                                                      *)
(***************************************************************************)
EnableHook ==
  /\ hook.there
  /\ hook' = FreshHook
  /\ UNCHANGED <<delivery, sender, batch, crashes>>

\* Deliveries cascade away with their endpoint.
DeleteHook ==
  /\ hook.there
  /\ hook' = [hook EXCEPT !.there = FALSE]
  /\ delivery' = [d \in Deliveries |-> NoRecord]
  /\ UNCHANGED <<sender, batch, crashes>>

WebhookNext ==
  \/ \E d \in Deliveries :
       \/ \E b \in BOOLEAN : Subscribed(d, b) \/ InsertDelivery(d, b)
       \/ SenderDies(d) \/ Retry(d) \/ BecomesDue(d)
  \/ \E s \in Senders :
       \/ \E answer \in {"accepted", "terminal", "failed"} : Post(s, answer)
       \/ RecordSuccess(s) \/ ReadAttempts(s) \/ RecordFailure(s)
  \/ SelectDue \/ CronDies
  \/ EnableHook \/ DeleteHook

CronWork ==
  \/ SelectDue \/ \E d \in Deliveries : Retry(d)
  \/ \E answer \in {"accepted", "terminal", "failed"} : Post(Cron, answer)
  \/ RecordSuccess(Cron) \/ ReadAttempts(Cron) \/ RecordFailure(Cron)

WebhookFairness ==
  /\ WF_webhookVars(CronWork)
  /\ \A d \in Deliveries : WF_webhookVars(BecomesDue(d))

WebhookSpec == WebhookInit /\ [][WebhookNext]_webhookVars /\ WebhookFairness

(***************************************************************************)
(* Properties.                                                             *)
(***************************************************************************)
WebhookTypeOK ==
  /\ hook.failures \in 0 .. DisableAfter + Cardinality(Deliveries)
  /\ \A d \in Deliveries :
       /\ delivery[d].status \in {"none", "pending", "delivered", "abandoned"}
       /\ delivery[d].attempts \in 0 .. HookAttempts + Cardinality(Senders)
       /\ delivery[d].due => delivery[d].status = "pending"
  /\ batch \subseteq Deliveries

\* "Delivery is delayed, never lost": every delivery is in the end delivered,
\* abandoned after its attempts, or removed with its endpoint, although attempts
\* overlap, lose each other's counts, overwrite each other's outcome and die.
WebhookSettles ==
  \A d \in Deliveries : delivery[d].status = "pending" ~> delivery[d].status /= "pending"
=============================================================================
