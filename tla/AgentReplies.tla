------------------------------ MODULE AgentReplies ------------------------------
(***************************************************************************)
(* An agent's reply from the composer to the outbox.  The composer gives a *)
(* draft one clientMessageId and may submit it again; every submission     *)
(* writes its message, claims the draft's attachments and takes the         *)
(* message back when it cannot have them all, writes the outbox job and    *)
(* answers.  The steps are statements of their own, and a request may end  *)
(* between any two; the Cron gives a job to messages left without one.     *)
(*                                                                         *)
(* A request ends within the two minutes after which the Cron takes a      *)
(* message for abandoned.  A message has the identity of its request.      *)
(***************************************************************************)
EXTENDS Integers, FiniteSets, FiniteSetsExt

CONSTANTS
  Posts,      \* submissions; numbers, the order of their random message ids
  DraftOf,    \* the draft a submission is of
  FilesOf,    \* the attachments it names
  Files,
  PageSize,   \* messages the Cron looks at per run
  LastTime,   \* bounds the clock of created_at
  NoPost

ASSUME ReplyAssumption ==
  /\ Posts \subseteq Nat \ {0} /\ FilesOf \in [Posts -> SUBSET Files]
  /\ NoPost \notin Posts
  /\ PageSize \in Nat \ {0} /\ LastTime \in Nat \ {0}

VARIABLES
  post,     \* the requests: where each stands, and the message it answered with
  message,  \* messages rows: created_at, and whether delivery is still queued
  outbox,   \* messages with an outbound_mail_jobs row
  file,     \* attachments.message_id
  clock,
  cursor,   \* the Cron's (created_at, id)
  everSent  \* messages that ever had a job

replyVars == <<post, message, outbox, file, clock, cursor, everSent>>

NoReply == [there |-> FALSE, created |-> 0, queued |-> FALSE]
Start == <<-1, 0>>

ReplyInit ==
  /\ post = [p \in Posts |-> [pc |-> "idle", answer |-> NoPost]]
  /\ message = [p \in Posts |-> NoReply]
  /\ outbox = {}
  /\ file = [f \in Files |-> NoPost]
  /\ clock = 0
  /\ cursor = Start
  /\ everSent = {}

PostAt(p, pc) == post' = [post EXCEPT ![p].pc = pc]
Answer(p, m) == post' = [post EXCEPT ![p] = [pc |-> "done", answer |-> m]]

\* findExisting: the message of this draft, if there is one.
SameDraft(p) == {m \in Posts : message[m].there /\ DraftOf[m] = DraftOf[p]}

\* The fast path: a submission that already landed is answered with its message.
Settle(p) ==
  /\ post[p].pc = "idle"
  /\ IF SameDraft(p) = {} THEN PostAt(p, "insert") ELSE \E m \in SameDraft(p) : Answer(p, m)
  /\ UNCHANGED <<message, outbox, file, clock, cursor, everSent>>

MInsertReply(p) ==
  /\ post[p].pc = "insert"
  /\ message' = [message EXCEPT ![p] = [there |-> TRUE, created |-> clock, queued |-> TRUE]]
  /\ PostAt(p, "claim")
  /\ UNCHANGED <<outbox, file, clock, cursor, everSent>>

\* onConflictDoNothing on (organization_id, client_message_id).
InsertReply(p) ==
  /\ post[p].pc = "insert"
  /\ IF SameDraft(p) = {}
     THEN /\ message' = [message EXCEPT ![p] = [there |-> TRUE, created |-> clock, queued |-> TRUE]]
          /\ PostAt(p, "claim")
     ELSE UNCHANGED message /\ PostAt(p, "lost")
  /\ UNCHANGED <<outbox, file, clock, cursor, everSent>>

\* The loser reports the message that won, or a conflict when it is gone again.
AnswerWinner(p) ==
  /\ post[p].pc = "lost"
  /\ IF SameDraft(p) = {} THEN PostAt(p, "done") ELSE \E m \in SameDraft(p) : Answer(p, m)
  /\ UNCHANGED <<message, outbox, file, clock, cursor, everSent>>

\* One UPDATE guarded by message_id IS NULL.
ClaimFiles(p) ==
  LET free == {f \in FilesOf[p] : file[f] = NoPost}
  IN  /\ post[p].pc = "claim"
      /\ file' = [f \in Files |-> IF f \in free THEN p ELSE file[f]]
      /\ PostAt(p, IF free = FilesOf[p] THEN "send" ELSE "unwind")
      /\ UNCHANGED <<message, outbox, clock, cursor, everSent>>

\* A short claim: release, delete the message; the client hears 404.
Unwind(p) ==
  /\ post[p].pc = "unwind"
  /\ file' = [f \in Files |-> IF file[f] = p THEN NoPost ELSE file[f]]
  /\ message' = [message EXCEPT ![p] = NoReply]
  /\ outbox' = outbox \ {p}
  /\ PostAt(p, "done")
  /\ UNCHANGED <<clock, cursor, everSent>>

QueueSend(p) ==
  /\ post[p].pc = "send"
  /\ outbox' = outbox \cup {p}
  /\ everSent' = everSent \cup {p}
  /\ Answer(p, p)
  /\ UNCHANGED <<message, file, clock, cursor>>

PostDies(p) ==
  /\ post[p].pc \notin {"idle", "done"}
  /\ PostAt(p, "done")
  /\ UNCHANGED <<message, outbox, file, clock, cursor, everSent>>

(***************************************************************************)
(* recoverMissingOutbox.                                                   *)
(***************************************************************************)
\* Queued and two minutes old.
Abandoned == {m \in Posts : message[m].there /\ message[m].queued /\ post[m].pc = "done"}

\* (created_at, id) > cursor.
After(m) == message[m].created > cursor[1] \/ (message[m].created = cursor[1] /\ m > cursor[2])

Before(m, n) ==
  message[m].created < message[n].created \/ (message[m].created = message[n].created /\ m <= n)

Candidates == {m \in Abandoned : After(m)}
CandidatePage == {m \in Candidates : Cardinality({n \in Candidates : Before(n, m)}) <= PageSize}

\* INSERT OR IGNORE; a page that is not full starts the walk over.
RecoverOutbox ==
  /\ CandidatePage /= {} \/ cursor /= Start
  /\ outbox' = outbox \cup CandidatePage
  /\ everSent' = everSent \cup CandidatePage
  /\ cursor' = IF Cardinality(CandidatePage) < PageSize THEN Start
               ELSE LET last == CHOOSE m \in CandidatePage : \A n \in CandidatePage : Before(n, m)
                    IN  <<message[last].created, last>>
  /\ UNCHANGED <<post, message, file, clock>>

\* What OutboundMail models: the message leaves "queued" in the end.
Delivered(m) ==
  /\ m \in outbox /\ message[m].queued
  /\ message' = [message EXCEPT ![m].queued = FALSE]
  /\ UNCHANGED <<post, outbox, file, clock, cursor, everSent>>

ReplyTick ==
  /\ clock < LastTime
  /\ clock' = clock + 1
  /\ UNCHANGED <<post, message, outbox, file, cursor, everSent>>

ReplyNext ==
  \/ \E p \in Posts :
       \/ Settle(p) \/ InsertReply(p) \/ AnswerWinner(p) \/ ClaimFiles(p) \/ Unwind(p)
       \/ QueueSend(p) \/ PostDies(p) \/ Delivered(p)
  \/ RecoverOutbox \/ ReplyTick

\* Requests end; the Cron goes on.
PostEnds(p) ==
  \/ InsertReply(p) \/ AnswerWinner(p) \/ ClaimFiles(p) \/ Unwind(p) \/ QueueSend(p) \/ PostDies(p)

ReplyFairness ==
  /\ \A p \in Posts : WF_replyVars(PostEnds(p))
  /\ WF_replyVars(RecoverOutbox)

ReplySpec == ReplyInit /\ [][ReplyNext]_replyVars /\ ReplyFairness

(***************************************************************************)
(* Properties.                                                             *)
(***************************************************************************)
ReplyTypeOK ==
  /\ \A p \in Posts : post[p].answer \in Posts \cup {NoPost}
  /\ \A m \in Posts : message[m].created \in 0 .. LastTime
  /\ file \in [Files -> Posts \cup {NoPost}]
  /\ outbox \subseteq {m \in Posts : message[m].there}

\* A draft goes to the customer once at most, however often it is submitted,
\* whichever submission is taken back, and whatever the Cron recovers.
DraftMailedOnce ==
  \A m, n \in everSent : DraftOf[m] = DraftOf[n] => m = n

\* A file is in one message at most, and that message exists: taking a message
\* back never takes the attachments with it.
FilesSurvive == \A f \in Files : file[f] /= NoPost => message[file[f]].there

\* A reply that stays in the conversation gets its outbox job, although its
\* request died before writing one and its neighbours share its created_at.
ReplyGetsJob ==
  \A m \in Posts : message[m].there ~> (m \in outbox \/ ~message[m].there)

\* Replies leave once, and taking one back leaves the files of the others alone.
RepliesIntact == DraftMailedOnce /\ FilesSurvive
=============================================================================
