--------------------------- MODULE IntakePromise ---------------------------
(***************************************************************************)
(* What the Worker promises about one mail that reaches it several times,  *)
(* whatever dies, repeats or overlaps below.  A sender is answered once    *)
(* there is a copy to work from; a copy is given up only for the message   *)
(* or for another copy bound for the same inbox; the message is filed      *)
(* once, in the step that opens its ticket, and nothing else opens it; a   *)
(* delivery is closed when the message, its attachments and the notice to  *)
(* the assignee are there, and others hear of the mail no earlier.         *)
(***************************************************************************)
EXTENDS Integers

CONSTANTS Deliveries, InboxOf, Indices, Effects

VARIABLES
  accepted,  \* deliveries whose sender has been told so
  kept,      \* deliveries with a staged copy that is still to be worked on
  filed,     \* the mail is a message
  open,      \* its ticket is open
  attached,  \* attachments stored: <<delivery, index>>
  told,      \* the assignee has been notified
  closed,    \* deliveries that were worked to the end
  announced  \* what others have heard: webhooks, automations

intakeVars == <<accepted, kept, filed, open, attached, told, closed, announced>>

Init ==
  /\ accepted = {} /\ kept = {} /\ closed = {}
  /\ filed = FALSE /\ open = FALSE /\ told = FALSE
  /\ attached = {} /\ announced = {}

Keep(d) ==
  /\ kept' = kept \cup {d}
  /\ UNCHANGED <<accepted, filed, open, attached, told, closed, announced>>

Accept(d) ==
  /\ d \in kept
  /\ accepted' = accepted \cup {d}
  /\ UNCHANGED <<kept, filed, open, attached, told, closed, announced>>

GiveUp(d) ==
  /\ filed \/ \E o \in kept \ {d} : InboxOf[o] = InboxOf[d]
  /\ kept' = kept \ {d}
  /\ UNCHANGED <<accepted, filed, open, attached, told, closed, announced>>

File ==
  /\ ~filed
  /\ filed' = TRUE /\ open' = TRUE
  /\ UNCHANGED <<accepted, kept, attached, told, closed, announced>>

AgentCloses ==
  /\ open' = FALSE
  /\ UNCHANGED <<accepted, kept, filed, attached, told, closed, announced>>

Tell ==
  /\ filed
  /\ told' = TRUE
  /\ UNCHANGED <<accepted, kept, filed, open, attached, closed, announced>>

Attach(d, i) ==
  /\ filed /\ told
  /\ attached' = attached \cup {<<d, i>>}
  /\ UNCHANGED <<accepted, kept, filed, open, told, closed, announced>>

Close(d) ==
  /\ filed /\ told /\ {d} \X Indices \subseteq attached
  /\ closed' = closed \cup {d} /\ kept' = kept \ {d}
  /\ UNCHANGED <<accepted, filed, open, attached, told, announced>>

\* A pass that overlapped the one that closed it hands the delivery back.
Resume(d) ==
  /\ filed /\ told
  /\ closed' = closed \ {d} /\ kept' \in {kept, kept \cup {d}}
  /\ UNCHANGED <<accepted, filed, open, attached, told, announced>>

Announce(e) ==
  /\ filed /\ told
  /\ announced' = announced \cup {e}
  /\ UNCHANGED <<accepted, kept, filed, open, attached, told, closed>>

Next ==
  \/ \E d \in Deliveries :
       Keep(d) \/ Accept(d) \/ GiveUp(d) \/ Close(d) \/ Resume(d)
  \/ \E d \in Deliveries, i \in Indices : Attach(d, i)
  \/ File \/ AgentCloses \/ Tell
  \/ \E e \in Effects : Announce(e)

Spec == Init /\ [][Next]_intakeVars
=============================================================================
