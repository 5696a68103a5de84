------------------------------ MODULE MCSettling ------------------------------
(* What the scheduler owes to work that was begun: a customer's search task, *)
(* the deliveries of a webhook and the replies of agents, checked side by    *)
(* side.  They share no state, so a behavior runs one of them.               *)
EXTENDS CustomerRefresh, WebhookDelivery, AgentReplies, TLC

CONSTANTS da, db, f1, f2

\* Two submissions of one draft and one of another, with a file in common.
DraftOfPost == <<da, da, db>>
FilesOfPost == <<{f1, f2}, {f1, f2}, {f2}>>

VARIABLE part

mcVars == <<vars, webhookVars, replyVars, part>>

MCInit == Init /\ WebhookInit /\ ReplyInit /\ part \in {"search", "webhook", "reply"}

Search(A) == part = "search" /\ A /\ UNCHANGED <<webhookVars, replyVars, part>>
Webhook(A) == part = "webhook" /\ A /\ UNCHANGED <<vars, replyVars, part>>
Reply(A) == part = "reply" /\ A /\ UNCHANGED <<vars, webhookVars, part>>

MCNext == Search(Next) \/ Webhook(WebhookNext) \/ Reply(ReplyNext)

\* The fairness of the three modules, of the part that runs.
MCFairness ==
  /\ SF_mcVars(Search(Dispatch(TRUE)))
  /\ \A m \in Messages : SF_mcVars(Search(\E c \in Consumers : Claimable(m) /\ Claim(c, m)))
  /\ \A c \in Consumers : WF_mcVars(Search(Work(c)))
  /\ WF_mcVars(Search(StopSpent)) /\ WF_mcVars(Search(LeaseExpires))
  /\ WF_mcVars(Search(ReservationExpires)) /\ WF_mcVars(Search(BackoffEnds))
  /\ WF_mcVars(Webhook(CronWork))
  /\ \A d \in Deliveries : WF_mcVars(Webhook(BecomesDue(d)))
  /\ \A p \in Posts : WF_mcVars(Reply(PostEnds(p)))
  /\ WF_mcVars(Reply(RecoverOutbox))

MCSpec == MCInit /\ [][MCNext]_mcVars /\ MCFairness

\* Rows, senders and requests have their types, and only pending deliveries are due.
SettlingTypeOK == ReplyTypeOK /\ WebhookTypeOK

\* A delivery of a webhook ends, and a reply kept without a job gets one:
\* WebhookSettles of WebhookDelivery and ReplyGetsJob of AgentReplies.
WorkSettles == WebhookSettles /\ ReplyGetsJob
=============================================================================
