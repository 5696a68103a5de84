---------------------------- MODULE MCMailSettles ----------------------------
(* What the scheduler owes to a mail in either direction: a reply on its way *)
(* out and a customer's mail on its way in, checked side by side.  The two   *)
(* share no state, so a behavior runs one of them.                           *)
EXTENDS OutboundMail

CONSTANTS d1, NoDelivery, support

VARIABLES
  part,
  inSmtp, inEvent, inRaw, inQueue, inDlq, inConsumer, inMessage, inTicket,
  inNotices, inStored, inEffects, inOpened

inVars == <<inSmtp, inEvent, inRaw, inQueue, inDlq, inConsumer, inMessage, inTicket,
            inNotices, inStored, inEffects, inOpened>>
mcVars == <<vars, inVars, part>>

\* One delivery of a mail with two attachments, one of them stored per invocation.
OneMail == {d1}
OneInbox == {support}
InboxOfMail == [d \in OneMail |-> support]

Inbound == INSTANCE InboundMail WITH
  Deliveries <- OneMail, Inboxes <- OneInbox, InboxOf <- InboxOfMail,
  Attachments <- 2, Chunk <- 1, EmitFails <- TRUE,
  smtp <- inSmtp, event <- inEvent, raw <- inRaw, queue <- inQueue, dlq <- inDlq,
  consumer <- inConsumer, message <- inMessage, ticket <- inTicket, notices <- inNotices,
  stored <- inStored, effects <- inEffects, opened <- inOpened

MCInit ==
  /\ Init /\ Inbound!Init /\ part \in {"out", "in"}
  /\ IF part = "out" THEN inTicket.state = "none" ELSE oversize = {}

MCNext ==
  \/ part = "out" /\ Next /\ UNCHANGED <<inVars, part>>
  \/ part = "in" /\ Inbound!Next /\ UNCHANGED <<vars, part>>

Outgoing(A) == part = "out" /\ A /\ UNCHANGED <<inVars, part>>
Incoming(A) == part = "in" /\ A /\ UNCHANGED <<vars, part>>

\* The fairness of the two modules.  What one cause drives in both shares a
\* conjunct, as only one of them runs.
MCFairness ==
  /\ SF_mcVars(Outgoing(Dispatch(TRUE)) \/ Incoming(Inbound!Dispatch(d1, TRUE)))
  /\ \A c \in Consumers :
       /\ SF_mcVars(Outgoing(Receive(c)) \/ Incoming(\E i \in Consumers : Inbound!Claim(i, d1)))
       /\ WF_mcVars(Outgoing(Invoke(c)) \/ Incoming(Inbound!Invoke(c)))
  /\ WF_mcVars(Outgoing(Sweep) \/ Incoming(Inbound!Sweep))
  /\ WF_mcVars(Outgoing(Retry) \/ Incoming(Inbound!Receipt(d1)))
  /\ WF_mcVars(Outgoing(LeaseExpires) \/ Incoming(Inbound!LeaseExpires(d1)))
  /\ WF_mcVars(Outgoing(ReservationExpires) \/ Incoming(Inbound!ReservationExpires(d1)))
  /\ WF_mcVars(Outgoing(BackoffEnds) \/ Incoming(Inbound!BackoffEnds(d1)))

MCSpec == MCInit /\ [][MCNext]_mcVars /\ MCFairness

\* Every job ends up sent or stopped, again after each retry.
OutboundSettles == part = "out" => Settles

\* No inbound row stays undecided: it is completed, or stopped.
InboundSettles == Inbound!Settles
=============================================================================
