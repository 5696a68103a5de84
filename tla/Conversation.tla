------------------------------ MODULE Conversation -----------------------------
(***************************************************************************)
(* Reading one conversation while it grows: GET /tickets/:id answers the   *)
(* newest messages and a cursor below which the older ones follow, the     *)
(* client holds the pages it asked for and fetches all of them again when  *)
(* it polls, and every answer marks the ticket as read.                    *)
(***************************************************************************)
EXTENDS Naturals, FiniteSets

CONSTANTS
  Notes,       \* messages, a set of numbers; the id breaks ties of time
  WindowSize,  \* messages per answer, fifty in the code
  LastMoment   \* bounds the clock

ASSUME ConversationAssumption ==
  Notes \subseteq Nat \ {0} /\ IsFiniteSet(Notes) /\ WindowSize \in Nat \ {0} /\ LastMoment \in Nat \ {0}

VARIABLES
  moment,   \* the clock
  note,     \* per message: how far it has come, and the time it carries
  touched,  \* tickets.updated_at
  lastRead, \* ticket_read_states.last_read_at of the reader, 0 without a row
  held,     \* the pages the client shows
  load      \* the fetch under way

threadVars == <<moment, note, touched, lastRead, held, load>>
writing == <<moment, note, touched>>

\* asked counts the pages; base is history: messages that were there when the
\* first of the pages was asked for.
NoPages == [asked |-> 0, shown |-> {}, below |-> <<LastMoment + 1, 0>>, more |-> TRUE, base |-> {}]

\* A ticket is made together with its first message.
ThreadInit ==
  /\ moment = 1 /\ touched = 1 /\ lastRead = 0
  /\ \E first \in Notes :
       note = [n \in Notes |-> IF n = first THEN [at |-> "told", time |-> 1]
                               ELSE [at |-> "none", time |-> 0]]
  /\ held = NoPages
  /\ load = [at |-> "idle", goal |-> 0, got |-> NoPages]

There == {n \in Notes : note[n].at \in {"posted", "told"}}

(***************************************************************************)
(* Messages arrive.                                                        *)
(***************************************************************************)
\* The handler takes the time first and writes later.
TakeTime(n) ==
  /\ note[n].at = "none"
  /\ note' = [note EXCEPT ![n] = [at |-> "taken", time |-> moment]]
  /\ UNCHANGED <<moment, touched, lastRead, held, load>>

\* A customer's mail: message and ticket in one batch.
MailArrives(n) ==
  /\ note[n].at = "taken"
  /\ note' = [note EXCEPT ![n].at = "told"]
  /\ touched' = note[n].time
  /\ UNCHANGED <<moment, lastRead, held, load>>

\* An agent's reply: the message, then its files, then the ticket.
ReplyArrives(n) ==
  /\ note[n].at = "taken"
  /\ note' = [note EXCEPT ![n].at = "posted"]
  /\ UNCHANGED <<moment, touched, lastRead, held, load>>

ReplyTouches(n) ==
  /\ note[n].at = "posted"
  /\ note' = [note EXCEPT ![n].at = "told"]
  /\ touched' = note[n].time
  /\ UNCHANGED <<moment, lastRead, held, load>>

\* A file was missing: the message is taken back.
ReplyUnwinds(n) ==
  /\ note[n].at = "posted"
  /\ note' = [note EXCEPT ![n].at = "gone"]
  /\ UNCHANGED <<moment, touched, lastRead, held, load>>

Passes1ms == moment < LastMoment /\ moment' = moment + 1 /\ UNCHANGED <<note, touched, lastRead, held, load>>

(***************************************************************************)
(* GET /tickets/:id?messageWindow=latest.                                  *)
(***************************************************************************)
Key(n) == <<note[n].time, n>>
Before(j, k) == j[1] < k[1] \/ (j[1] = k[1] /\ j[2] < k[2])

MOlder(below) == {n \in There : note[n].time < below[1]}

\* Below the cursor, in both its columns.
Older(below) == {n \in There : Before(Key(n), below)}

Window(below) ==
  {n \in Older(below) : Cardinality({m \in Older(below) : Before(Key(n), Key(m))}) < WindowSize}

\* One message more than a window is read, to know whether a cursor is due.
ReadWindow ==
  /\ load.at = "read"
  /\ LET got == load.got
         page == Window(got.below)
         more == Cardinality(Older(got.below)) > WindowSize
         pages == [got EXCEPT !.asked = @ + 1, !.shown = @ \cup page, !.more = more,
           !.below = IF more THEN Key(CHOOSE n \in page : \A m \in page : ~Before(Key(m), Key(n)))
                     ELSE @]
     IN  load' = [load EXCEPT !.at = "mark", !.got = pages]
  /\ UNCHANGED <<writing, lastRead, held>>

\* The ticket is marked as read with the time of the mark; the client goes on
\* with the next page or shows what it has got.
MarkRead ==
  /\ load.at = "mark"
  /\ lastRead' = moment
  /\ IF load.got.more /\ load.got.asked < load.goal
     THEN load' = [load EXCEPT !.at = "read"] /\ UNCHANGED held
     ELSE load' = [load EXCEPT !.at = "idle", !.got = NoPages] /\ held' = load.got
  /\ UNCHANGED writing

(***************************************************************************)
(* useConversation.                                                        *)
(***************************************************************************)
\* The first visit, the poll, and after every write of this client: as many
\* pages as before, from the newest on.
FetchPages ==
  /\ load.at = "idle"
  /\ load' = [at |-> "read", goal |-> IF held.asked = 0 THEN 1 ELSE held.asked,
              got |-> [NoPages EXCEPT !.base = There]]
  /\ UNCHANGED <<writing, lastRead, held>>

\* One page more, not while another fetch runs.
LoadOlder ==
  /\ load.at = "idle" /\ held.asked > 0 /\ held.more
  /\ load' = [at |-> "read", goal |-> held.asked + 1, got |-> held]
  /\ UNCHANGED <<writing, lastRead, held>>

\* An error of a page leaves the pages that are shown.
FetchFails ==
  /\ load.at /= "idle"
  /\ load' = [load EXCEPT !.at = "idle", !.got = NoPages]
  /\ UNCHANGED <<writing, lastRead, held>>

ThreadNext ==
  \/ \E n \in Notes : TakeTime(n) \/ MailArrives(n) \/ ReplyArrives(n) \/ ReplyTouches(n) \/ ReplyUnwinds(n)
  \/ Passes1ms \/ ReadWindow \/ MarkRead \/ FetchPages \/ LoadOlder \/ FetchFails

ThreadSpec == ThreadInit /\ [][ThreadNext]_threadVars

(***************************************************************************)
(* Properties.                                                             *)
(***************************************************************************)
\* The conversation on the screen has no hole: of the messages that were there
\* when its newest page was asked for, all down to the oldest one of the last
\* page are shown, whatever arrives between two pages and however many messages
\* share a time; and the client knows whether there are older ones.
NoHoleInThread ==
  \A n \in held.base \cap There :
    (held.more => ~Before(Key(n), held.below)) => n \in held.shown

\* What the unread column of the list (src/server/tickets/routes.ts:101) stands
\* for.  It does not hold, and no run checks it: a message that arrives between
\* the SELECT of an answer and its mark is taken as read by nobody having seen it.
ReadMeansSeen == lastRead >= touched => \A n \in There : n \in held.shown \cup load.got.shown
=============================================================================
