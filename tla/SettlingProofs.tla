---------------------------- MODULE SettlingProofs ----------------------------
(***************************************************************************)
(* Proofs about the parts of MCSettling that no other module proves: for   *)
(* every set of submissions, drafts and files, every page size and every   *)
(* clock, a draft is mailed once and taking a message back leaves the      *)
(* files of the others alone; for every set of deliveries, every limit of  *)
(* attempts and of failures, the counts of a webhook stay bounded.         *)
(***************************************************************************)
EXTENDS MCSettling, FiniteSetTheorems, TLAPS

PostPoints == {"idle", "insert", "lost", "claim", "unwind", "send", "done"}
PostRecord == [pc : PostPoints, answer : Posts \cup {NoPost}]
ReplyRecord == [there : BOOLEAN, created : 0 .. LastTime, queued : BOOLEAN]

(***************************************************************************)
(* The inductive invariant.  A draft has one message at a time, and the    *)
(* message of a submission is there from its insert on, unless the same    *)
(* submission takes it back; that one writes no job, and the Cron looks    *)
(* only at messages whose submission is over.                              *)
(***************************************************************************)
ReplyTypes ==
  /\ post \in [Posts -> PostRecord]
  /\ message \in [Posts -> ReplyRecord]
  /\ file \in [Files -> Posts \cup {NoPost}]
  /\ clock \in 0 .. LastTime

OneMessage ==
  \A m, n \in Posts : message[m].there /\ message[n].there /\ DraftOf[m] = DraftOf[n] => m = n
ThereSinceInsert == \A p \in Posts : post[p].pc \in {"claim", "unwind", "send"} => message[p].there
NotThereBefore == \A p \in Posts : post[p].pc \in {"idle", "insert", "lost"} => ~message[p].there
SentStays == everSent \subseteq {m \in Posts : message[m].there /\ post[m].pc = "done"}
JobsStay == outbox \subseteq everSent

ReplyInv ==
  /\ ReplyTypes /\ OneMessage /\ ThereSinceInsert /\ NotThereBefore /\ SentStays /\ JobsStay
  /\ FilesSurvive

LEMMA ReplyInvInit == ReplyInit => ReplyInv
<1> SUFFICES ASSUME ReplyInit PROVE ReplyInv
  OBVIOUS
<1>1. ReplyTypes
  BY ReplyAssumption DEF ReplyInit, ReplyTypes, PostRecord, PostPoints, ReplyRecord, NoReply
<1>2. \A p \in Posts : post[p].pc = "idle" /\ ~message[p].there
  BY DEF ReplyInit, NoReply
<1>3. QED
  BY <1>1, <1>2 DEF ReplyInit, ReplyInv, OneMessage, ThereSinceInsert, NotThereBefore, SentStays, JobsStay,
                    FilesSurvive

\* A submission moves on its own.
LEMMA PostMoves ==
  ASSUME post \in [Posts -> PostRecord], NEW p \in Posts, NEW pc \in PostPoints, PostAt(p, pc)
  PROVE  post' \in [Posts -> PostRecord] /\ post'[p].pc = pc
         /\ \A q \in Posts \ {p} : post'[q] = post[q]
<1> DEFINE r == [post[p] EXCEPT !.pc = pc]
<1>1. r \in PostRecord /\ r.pc = pc
  BY DEF PostRecord
<1>2. post' = [post EXCEPT ![p] = r]
  BY DEF PostAt
<1> HIDE DEF r
<1>3. QED
  BY <1>1, <1>2

LEMMA AnswerMoves ==
  ASSUME post \in [Posts -> PostRecord], NEW p \in Posts, NEW m \in Posts, Answer(p, m)
  PROVE  post' \in [Posts -> PostRecord] /\ post'[p].pc = "done"
         /\ \A q \in Posts \ {p} : post'[q] = post[q]
<1> DEFINE r == [pc |-> "done", answer |-> m]
<1>1. r \in PostRecord /\ r.pc = "done"
  BY DEF PostRecord, PostPoints
<1>2. post' = [post EXCEPT ![p] = r]
  BY DEF Answer
<1> HIDE DEF r
<1>3. QED
  BY <1>1, <1>2

\* The steps that only move a submission: to "insert", or to an end without a job.
LEMMA OnlyPostMoves ==
  ASSUME ReplyInv, NEW p \in Posts, post' \in [Posts -> PostRecord],
         \A q \in Posts \ {p} : post'[q] = post[q],
         UNCHANGED <<message, outbox, file, clock, everSent>>,
         post[p].pc = "done" => post'[p].pc = "done",
         \/ post'[p].pc = "done"
         \/ post'[p].pc \in {"insert", "lost"} /\ ~message[p].there
  PROVE  ReplyInv'
<1> USE DEF ReplyInv
<1>1. ReplyTypes'
  BY DEF ReplyTypes
<1>2. OneMessage' /\ ThereSinceInsert' /\ NotThereBefore' /\ JobsStay' /\ FilesSurvive'
  BY DEF OneMessage, ThereSinceInsert, NotThereBefore, JobsStay, FilesSurvive
<1>3. SentStays'
  BY DEF SentStays
<1>4. QED
  BY <1>1, <1>2, <1>3

LEMMA ReplyInvStep == ReplyInv /\ [ReplyNext]_replyVars => ReplyInv'
<1> SUFFICES ASSUME ReplyInv, [ReplyNext]_replyVars PROVE ReplyInv'
  OBVIOUS
<1>t. /\ post \in [Posts -> PostRecord] /\ message \in [Posts -> ReplyRecord]
      /\ file \in [Files -> Posts \cup {NoPost}] /\ clock \in 0 .. LastTime
  BY DEF ReplyInv, ReplyTypes
<1>n. NoPost \notin Posts
  BY ReplyAssumption
<1>s. \A p \in Posts : SameDraft(p) \subseteq Posts
  BY DEF SameDraft
<1>1. ASSUME NEW p \in Posts, Settle(p) PROVE ReplyInv'
  <2>1. CASE SameDraft(p) = {}
    <3>1. PostAt(p, "insert") /\ post[p].pc = "idle"
      BY <1>1, <2>1 DEF Settle
    <3>2. ~message[p].there
      BY <3>1 DEF ReplyInv, NotThereBefore
    <3>3. UNCHANGED <<message, outbox, file, clock, everSent>>
      BY <1>1 DEF Settle
    <3>4. post' \in [Posts -> PostRecord] /\ post'[p].pc = "insert"
          /\ \A q \in Posts \ {p} : post'[q] = post[q]
      BY <3>1, <1>t, PostMoves DEF PostPoints
    <3>5. QED
      BY <3>1, <3>2, <3>3, <3>4, OnlyPostMoves
  <2>2. CASE SameDraft(p) /= {}
    <3>1. PICK m \in Posts : Answer(p, m)
      BY <1>1, <2>2, <1>s DEF Settle
    <3>2. UNCHANGED <<message, outbox, file, clock, everSent>>
      BY <1>1 DEF Settle
    <3>3. QED
      BY <3>1, <3>2, <1>t, AnswerMoves, OnlyPostMoves
  <2>3. QED
    BY <2>1, <2>2
<1>2. ASSUME NEW p \in Posts, InsertReply(p) PROVE ReplyInv'
  <2>0. post[p].pc = "insert" /\ ~message[p].there
    BY <1>2 DEF InsertReply, ReplyInv, NotThereBefore
  <2>1. CASE SameDraft(p) = {}
    <3> DEFINE row == [there |-> TRUE, created |-> clock, queued |-> TRUE]
    <3>1. row \in ReplyRecord /\ row.there
      BY <1>t DEF ReplyRecord
    <3>2. message' = [message EXCEPT ![p] = row] /\ PostAt(p, "claim")
          /\ UNCHANGED <<outbox, file, clock, everSent>>
      BY <1>2, <2>1 DEF InsertReply
    <3> HIDE DEF row
    <3>3. message' \in [Posts -> ReplyRecord] /\ message'[p].there
          /\ \A q \in Posts \ {p} : message'[q] = message[q]
      BY <3>1, <3>2, <1>t
    <3>4. post' \in [Posts -> PostRecord] /\ post'[p].pc = "claim"
          /\ \A q \in Posts \ {p} : post'[q] = post[q]
      BY <3>2, <1>t, PostMoves DEF PostPoints
    <3>5. \A m \in Posts : message[m].there => DraftOf[m] /= DraftOf[p]
      BY <2>1 DEF SameDraft
    <3>6. ReplyTypes'
      BY <3>2, <3>3, <3>4, <1>t DEF ReplyTypes
    <3>7. OneMessage' /\ ThereSinceInsert' /\ NotThereBefore'
      BY <3>3, <3>4, <3>5 DEF ReplyInv, OneMessage, ThereSinceInsert, NotThereBefore
    <3>8. SentStays' /\ JobsStay'
      BY <3>2, <3>3, <3>4, <2>0 DEF ReplyInv, SentStays, JobsStay
    <3>9. FilesSurvive'
      BY <3>2, <3>3, <1>t DEF ReplyInv, FilesSurvive
    <3>10. QED
      BY <3>6, <3>7, <3>8, <3>9 DEF ReplyInv
  <2>2. CASE SameDraft(p) /= {}
    <3>1. PostAt(p, "lost") /\ UNCHANGED <<message, outbox, file, clock, everSent>>
      BY <1>2, <2>2 DEF InsertReply
    <3>2. post' \in [Posts -> PostRecord] /\ post'[p].pc = "lost"
          /\ \A q \in Posts \ {p} : post'[q] = post[q]
      BY <3>1, <1>t, PostMoves DEF PostPoints
    <3>3. QED
      BY <2>0, <3>1, <3>2, OnlyPostMoves
  <2>3. QED
    BY <2>1, <2>2
<1>3. ASSUME NEW p \in Posts, AnswerWinner(p) PROVE ReplyInv'
  <2>0. post[p].pc = "lost" /\ UNCHANGED <<message, outbox, file, clock, everSent>>
    BY <1>3 DEF AnswerWinner
  <2>1. CASE SameDraft(p) = {}
    <3>1. PostAt(p, "done")
      BY <1>3, <2>1 DEF AnswerWinner
    <3>2. QED
      BY <2>0, <3>1, <1>t, PostMoves, OnlyPostMoves DEF PostPoints
  <2>2. CASE SameDraft(p) /= {}
    <3>1. PICK m \in Posts : Answer(p, m)
      BY <1>3, <2>2, <1>s DEF AnswerWinner
    <3>2. QED
      BY <2>0, <3>1, <1>t, AnswerMoves, OnlyPostMoves
  <2>3. QED
    BY <2>1, <2>2
<1>4. ASSUME NEW p \in Posts, ClaimFiles(p) PROVE ReplyInv'
  <2> DEFINE free == {f \in FilesOf[p] : file[f] = NoPost}
             pc == IF free = FilesOf[p] THEN "send" ELSE "unwind"
  <2>1. /\ post[p].pc = "claim" /\ PostAt(p, pc) /\ pc \in {"send", "unwind"}
        /\ \A f \in Files : file'[f] = IF f \in free THEN p ELSE file[f]
        /\ file' \in [Files -> Posts \cup {NoPost}]
        /\ UNCHANGED <<message, outbox, clock, everSent>>
    BY <1>4, <1>t DEF ClaimFiles
  <2> HIDE DEF free, pc
  <2>2. post' \in [Posts -> PostRecord] /\ post'[p].pc = pc
        /\ \A q \in Posts \ {p} : post'[q] = post[q]
    BY <2>1, <1>t, PostMoves DEF PostPoints
  <2>3. message[p].there
    BY <2>1 DEF ReplyInv, ThereSinceInsert
  <2>4. ReplyTypes'
    BY <2>1, <2>2, <1>t DEF ReplyTypes
  <2>5. OneMessage' /\ ThereSinceInsert' /\ NotThereBefore' /\ FilesSurvive'
    BY <2>1, <2>2, <2>3 DEF ReplyInv, OneMessage, ThereSinceInsert, NotThereBefore, FilesSurvive
  <2>6. SentStays' /\ JobsStay'
    BY <2>1, <2>2 DEF ReplyInv, SentStays, JobsStay
  <2>7. QED
    BY <2>4, <2>5, <2>6 DEF ReplyInv
<1>5. ASSUME NEW p \in Posts, Unwind(p) PROVE ReplyInv'
  <2>1. /\ post[p].pc = "unwind" /\ PostAt(p, "done")
        /\ \A f \in Files : file'[f] = IF file[f] = p THEN NoPost ELSE file[f]
        /\ file' \in [Files -> Posts \cup {NoPost}]
        /\ message' = [message EXCEPT ![p] = NoReply]
        /\ outbox' = outbox \ {p}
        /\ UNCHANGED <<clock, everSent>>
    BY <1>5, <1>t DEF Unwind
  <2>2. post' \in [Posts -> PostRecord] /\ post'[p].pc = "done"
        /\ \A q \in Posts \ {p} : post'[q] = post[q]
    BY <2>1, <1>t, PostMoves DEF PostPoints
  <2>3. NoReply \in ReplyRecord /\ ~NoReply.there
    BY ReplyAssumption DEF NoReply, ReplyRecord
  <2>4. message' \in [Posts -> ReplyRecord] /\ ~message'[p].there
        /\ \A q \in Posts \ {p} : message'[q] = message[q]
    BY <2>1, <2>3, <1>t
  <2>5. p \notin everSent
    BY <2>1 DEF ReplyInv, SentStays
  <2>6. ReplyTypes'
    BY <2>1, <2>2, <2>4, <1>t DEF ReplyTypes
  <2>7. OneMessage' /\ ThereSinceInsert' /\ NotThereBefore'
    BY <2>2, <2>4 DEF ReplyInv, OneMessage, ThereSinceInsert, NotThereBefore
  <2>8. FilesSurvive'
    BY <2>1, <2>4, <1>t DEF ReplyInv, FilesSurvive
  <2>9. SentStays' /\ JobsStay'
    BY <2>1, <2>2, <2>4, <2>5 DEF ReplyInv, SentStays, JobsStay
  <2>10. QED
    BY <2>6, <2>7, <2>8, <2>9 DEF ReplyInv
<1>6. ASSUME NEW p \in Posts, QueueSend(p) PROVE ReplyInv'
  <2>1. /\ post[p].pc = "send" /\ Answer(p, p) /\ outbox' = outbox \cup {p}
        /\ everSent' = everSent \cup {p} /\ UNCHANGED <<message, file, clock>>
    BY <1>6 DEF QueueSend
  <2>2. post' \in [Posts -> PostRecord] /\ post'[p].pc = "done"
        /\ \A q \in Posts \ {p} : post'[q] = post[q]
    BY <2>1, <1>t, AnswerMoves
  <2>3. message[p].there
    BY <2>1 DEF ReplyInv, ThereSinceInsert
  <2>4. ReplyTypes' /\ OneMessage' /\ ThereSinceInsert' /\ NotThereBefore' /\ FilesSurvive'
    BY <2>1, <2>2, <1>t DEF ReplyInv, ReplyTypes, OneMessage, ThereSinceInsert, NotThereBefore, FilesSurvive
  <2>5. SentStays' /\ JobsStay'
    BY <2>1, <2>2, <2>3 DEF ReplyInv, SentStays, JobsStay
  <2>6. QED
    BY <2>4, <2>5 DEF ReplyInv
<1>7. ASSUME NEW p \in Posts, PostDies(p) PROVE ReplyInv'
  <2>1. PostAt(p, "done") /\ UNCHANGED <<message, outbox, file, clock, everSent>>
    BY <1>7 DEF PostDies
  <2>2. QED
    BY <2>1, <1>t, PostMoves, OnlyPostMoves DEF PostPoints
<1>8. ASSUME NEW p \in Posts, Delivered(p) PROVE ReplyInv'
  <2> DEFINE row == [message[p] EXCEPT !.queued = FALSE]
  <2>1. row \in ReplyRecord /\ (row.there <=> message[p].there)
    BY <1>t DEF ReplyRecord
  <2>2. message' = [message EXCEPT ![p] = row] /\ UNCHANGED <<post, outbox, file, clock, everSent>>
    BY <1>8 DEF Delivered
  <2> HIDE DEF row
  <2>3. message' \in [Posts -> ReplyRecord] /\ \A q \in Posts : message'[q].there <=> message[q].there
    BY <2>1, <2>2, <1>t
  <2>4. ReplyTypes'
    BY <2>2, <2>3, <1>t DEF ReplyTypes
  <2>5. OneMessage' /\ ThereSinceInsert' /\ NotThereBefore'
    BY <2>2, <2>3 DEF ReplyInv, OneMessage, ThereSinceInsert, NotThereBefore
  <2>6. SentStays' /\ JobsStay' /\ FilesSurvive'
    BY <2>2, <2>3, <1>t DEF ReplyInv, SentStays, JobsStay, FilesSurvive
  <2>7. QED
    BY <2>4, <2>5, <2>6 DEF ReplyInv
<1>9. CASE RecoverOutbox
  <2>1. /\ outbox' = outbox \cup CandidatePage /\ everSent' = everSent \cup CandidatePage
        /\ UNCHANGED <<post, message, file, clock>>
    BY <1>9 DEF RecoverOutbox
  <2>2. \A m \in CandidatePage : m \in Posts /\ message[m].there /\ post[m].pc = "done"
    BY DEF CandidatePage, Candidates, Abandoned
  <2>3. ReplyTypes' /\ OneMessage' /\ ThereSinceInsert' /\ NotThereBefore' /\ FilesSurvive'
    BY <2>1 DEF ReplyInv, ReplyTypes, OneMessage, ThereSinceInsert, NotThereBefore, FilesSurvive
  <2>4. SentStays' /\ JobsStay'
    BY <2>1, <2>2 DEF ReplyInv, SentStays, JobsStay
  <2>5. QED
    BY <2>3, <2>4 DEF ReplyInv
<1>10. CASE ReplyTick
  <2>1. clock' \in 0 .. LastTime /\ UNCHANGED <<post, message, outbox, file, everSent>>
    BY <1>10, <1>t, ReplyAssumption DEF ReplyTick
  <2>2. QED
    BY <2>1 DEF ReplyInv, ReplyTypes, OneMessage, ThereSinceInsert, NotThereBefore, FilesSurvive,
                SentStays, JobsStay
<1>11. CASE UNCHANGED replyVars
  BY <1>11 DEF replyVars, ReplyInv, ReplyTypes, OneMessage, ThereSinceInsert, NotThereBefore, FilesSurvive,
               SentStays, JobsStay
<1>12. QED
  BY <1>1, <1>2, <1>3, <1>4, <1>5, <1>6, <1>7, <1>8, <1>9, <1>10, <1>11 DEF ReplyNext

LEMMA RepliesHoldInv == ReplyInit /\ [][ReplyNext]_replyVars => []ReplyInv
  BY ReplyInvInit, ReplyInvStep, PTL

LEMMA ReplyInvTypes == ReplyInv => ReplyTypeOK
  BY DEF ReplyInv, ReplyTypes, SentStays, JobsStay, ReplyTypeOK, PostRecord, ReplyRecord

\* Theorem: whatever is submitted, taken back and recovered, requests, rows and
\* files have their types, and a job belongs to a message that is there.
THEOREM RepliesTyped == ReplySpec => []ReplyTypeOK
<1>1. ReplyInv => ReplyTypeOK
  BY ReplyInvTypes
<1>2. QED
  BY <1>1, RepliesHoldInv, PTL DEF ReplySpec

\* Theorem: a draft leaves in one message, however often it is submitted and
\* whatever the Cron recovers, and a file stays with a message that exists.
THEOREM RepliesStayIntact == ReplySpec => []RepliesIntact
<1>1. ReplyInv => RepliesIntact
  BY DEF ReplyInv, OneMessage, SentStays, RepliesIntact, DraftMailedOnce
<1>2. QED
  BY <1>1, RepliesHoldInv, PTL DEF ReplySpec

(***************************************************************************)
(* Webhook deliveries.  Two attempts at most write a row at a time, the    *)
(* one made at once and the Cron's, and each has one record left to write: *)
(* Mine and Crons count these, and every record of a row uses one up.  A   *)
(* delivery is Spent once its own attempt is over; the failure counter can *)
(* pass the limit only by attempts that began with a disabled endpoint,    *)
(* and those are tests, of a delivery that is not spent yet.               *)
(***************************************************************************)
HookPoints == {"idle", "insert", "send", "success", "failure", "record"}
HookRow == [there : BOOLEAN, enabled : BOOLEAN, failures : Nat]
DeliveryRow ==
  [status : {"none", "pending", "delivered", "abandoned"}, attempts : Nat, due : BOOLEAN]
SenderRow ==
  [pc : HookPoints, delivery : Senders, hook : HookRow, terminal : BOOLEAN, attempts : Nat]

WebhookTypes ==
  /\ hook \in HookRow
  /\ delivery \in [Deliveries -> DeliveryRow]
  /\ sender \in [Senders -> SenderRow]
  /\ batch \in SUBSET Deliveries

CronAt(d) == sender[Cron].pc /= "idle" /\ sender[Cron].delivery = d
Mine(d) == IF delivery[d].status = "none" \/ sender[d].pc /= "idle" THEN 1 ELSE 0
Crons(d) == IF d \in batch \/ CronAt(d) THEN 1 ELSE 0
Spent == {d \in Deliveries : delivery[d].status /= "none" /\ sender[d].pc = "idle"}

\* What a sender works on; the Cron attempts only for an enabled endpoint.
SendersSound ==
  /\ \A d \in Deliveries : sender[d].pc /= "idle" => sender[d].delivery = d
  /\ sender[Cron].pc /= "idle" =>
       /\ sender[Cron].pc /= "insert"
       /\ sender[Cron].delivery \in Deliveries \ batch
       /\ sender[Cron].hook.failures < DisableAfter

RowsSound ==
  \A d \in Deliveries :
    /\ delivery[d].due => delivery[d].status = "pending"
    /\ delivery[d].status = "none" => delivery[d].attempts = 0
    /\ ~hook.there => delivery[d].status = "none"
    /\ hook.there /\ delivery[d].status = "none" =>
         sender[d].pc \in {"idle", "insert"} /\ Crons(d) = 0
    /\ sender[d].pc = "insert" => delivery[d].status = "none"

AttemptsBounded ==
  \A d \in Deliveries :
    /\ delivery[d].attempts + Mine(d) + Crons(d) <= HookAttempts + 1
    /\ delivery[d].status = "pending" => delivery[d].attempts < HookAttempts

\* The count a failing attempt has read and will write, plus one.
ReadsBounded ==
  hook.there =>
    \A d \in Deliveries :
      /\ sender[d].pc = "record" =>
           /\ sender[d].attempts + Crons(d) <= HookAttempts
           /\ delivery[d].status = "pending" => sender[d].attempts < HookAttempts
      /\ CronAt(d) /\ sender[Cron].pc = "record" => sender[Cron].attempts + Mine(d) <= HookAttempts

FailuresBounded ==
  /\ hook.failures <= DisableAfter + Cardinality(Deliveries)
  /\ hook.enabled => hook.failures < DisableAfter
  /\ hook.there =>
       /\ hook.failures <= DisableAfter + Cardinality(Spent)
       /\ \A d \in Deliveries :
            sender[d].pc /= "idle" => sender[d].hook.failures <= DisableAfter + Cardinality(Spent)

WebhookInv ==
  WebhookTypes /\ SendersSound /\ RowsSound /\ AttemptsBounded /\ ReadsBounded /\ FailuresBounded

LEMMA SendersFacts == Cron \in Senders /\ Deliveries \subseteq Senders /\ Cron \notin Deliveries
  BY WebhookAssumption DEF Cron, Senders

LEMMA RestingFacts == Resting \in SenderRow /\ Resting.pc = "idle" /\ FreshHook \in HookRow
  BY DEF Resting, SenderRow, HookRow, FreshHook, HookPoints, Senders, Cron

LEMMA WebhookInvInit == WebhookInit => WebhookInv
<1> SUFFICES ASSUME WebhookInit PROVE WebhookInv
  OBVIOUS
<1>1. WebhookTypes
  BY SendersFacts, RestingFacts DEF WebhookInit, WebhookTypes, NoRecord, DeliveryRow
<1>2. \A d \in Deliveries : delivery[d] = NoRecord /\ sender[d] = Resting
  BY SendersFacts DEF WebhookInit
<1>3. sender[Cron] = Resting /\ batch = {} /\ hook = FreshHook
  BY SendersFacts DEF WebhookInit
<1>4. SendersSound /\ RowsSound /\ AttemptsBounded /\ ReadsBounded
  BY <1>2, <1>3, RestingFacts, WebhookAssumption
     DEF SendersSound, RowsSound, AttemptsBounded, ReadsBounded, NoRecord, Mine, Crons, CronAt
<1>5. Cardinality(Deliveries) \in Nat
  BY FS_CardinalityType, WebhookAssumption
<1>6. Spent \in SUBSET Deliveries
  BY DEF Spent
<1>7. Cardinality(Spent) \in Nat
  BY <1>6, FS_Subset, FS_CardinalityType, WebhookAssumption
<1>8. FailuresBounded
  BY <1>2, <1>3, <1>5, <1>7, RestingFacts, WebhookAssumption DEF FailuresBounded, FreshHook
<1> QED BY <1>1, <1>4, <1>8 DEF WebhookInv

\* One sender moves on.
LEMMA OneSender ==
  ASSUME sender \in [Senders -> SenderRow], NEW s \in Senders, NEW r \in SenderRow,
         sender' = [sender EXCEPT ![s] = r]
  PROVE  /\ sender' \in [Senders -> SenderRow] /\ sender'[s] = r
         /\ \A q \in Senders \ {s} : sender'[q] = sender[q]
  OBVIOUS

\* One row is written.
LEMMA OneDelivery ==
  ASSUME delivery \in [Deliveries -> DeliveryRow], NEW d \in Deliveries, NEW r \in DeliveryRow,
         delivery' = [delivery EXCEPT ![d] = r]
  PROVE  /\ delivery' \in [Deliveries -> DeliveryRow] /\ delivery'[d] = r
         /\ \A q \in Deliveries \ {d} : delivery'[q] = delivery[q]
  OBVIOUS

\* Counting the deliveries that are spent.
LEMMA SpentCount ==
  /\ Cardinality(Spent) \in Nat /\ Cardinality(Deliveries) \in Nat
  /\ Cardinality(Spent) <= Cardinality(Deliveries)
<1>1. Spent \in SUBSET Deliveries
  BY DEF Spent
<1> QED BY <1>1, FS_Subset, FS_CardinalityType, WebhookAssumption

LEMMA MoreSpent ==
  ASSUME Spent \subseteq Spent'
  PROVE  Cardinality(Spent') \in Nat /\ Cardinality(Spent) <= Cardinality(Spent')
<1>1. PICK S : S = Spent'
  OBVIOUS
<1>2. S \in SUBSET Deliveries
  BY <1>1 DEF Spent
<1>3. IsFiniteSet(S) /\ Cardinality(S) \in Nat
  BY <1>2, FS_Subset, FS_CardinalityType, WebhookAssumption
<1>4. Spent \in SUBSET S
  BY <1>1
<1>5. Cardinality(Spent) <= Cardinality(S)
  BY <1>3, <1>4, FS_Subset
<1> QED BY <1>1, <1>3, <1>5

LEMMA OneMoreSpent ==
  ASSUME NEW d \in Spent', d \notin Spent, Spent \subseteq Spent'
  PROVE  Cardinality(Spent') \in Nat /\ Cardinality(Spent) + 1 <= Cardinality(Spent')
<1>1. PICK S : S = Spent'
  OBVIOUS
<1>2. S \in SUBSET Deliveries /\ Spent \in SUBSET Deliveries
  BY <1>1 DEF Spent
<1>3. IsFiniteSet(S) /\ Cardinality(S) \in Nat /\ IsFiniteSet(Spent) /\ Cardinality(Spent) \in Nat
  BY <1>2, FS_Subset, FS_CardinalityType, WebhookAssumption
<1>4. PICK T : T = Spent \cup {d}
  OBVIOUS
<1>5. Cardinality(T) = Cardinality(Spent) + 1
  BY <1>3, <1>4, FS_AddElement
<1>6. T \in SUBSET S
  BY <1>1, <1>4
<1>7. Cardinality(T) <= Cardinality(S)
  BY <1>3, <1>6, FS_Subset
<1> QED BY <1>1, <1>3, <1>5, <1>7

\* Steps that leave the endpoint alone: copies of it stay or are taken now.
LEMMA FailuresKeep ==
  ASSUME WebhookTypes, FailuresBounded, hook' = hook, hook.there => Spent \subseteq Spent',
         \A d \in Deliveries : sender'[d].pc /= "idle" =>
            \/ sender'[d].hook = hook
            \/ sender[d].pc /= "idle" /\ sender'[d].hook = sender[d].hook
  PROVE  FailuresBounded'
<1>1. CASE ~hook.there
  BY <1>1 DEF FailuresBounded
<1>2. CASE hook.there
  <2>1. Cardinality(Spent) \in Nat /\ Cardinality(Spent') \in Nat
        /\ Cardinality(Spent) <= Cardinality(Spent')
    BY <1>2, MoreSpent, SpentCount
  <2>2. hook.failures \in Nat /\ \A d \in Deliveries : sender[d].hook.failures \in Nat
    BY SendersFacts DEF WebhookTypes, HookRow, SenderRow
  <2>3. hook'.failures <= DisableAfter + Cardinality(Spent')
    BY <1>2, <2>1, <2>2, WebhookAssumption DEF FailuresBounded
  <2>4. ASSUME NEW d \in Deliveries, sender'[d].pc /= "idle"
        PROVE  sender'[d].hook.failures <= DisableAfter + Cardinality(Spent')
    <3>1. CASE sender'[d].hook = hook
      BY <3>1, <2>3
    <3>2. CASE sender[d].pc /= "idle" /\ sender'[d].hook = sender[d].hook
      <4>1. sender[d].hook.failures <= DisableAfter + Cardinality(Spent)
        BY <1>2, <3>2 DEF FailuresBounded
      <4> QED BY <4>1, <3>2, <2>1, <2>2, WebhookAssumption
    <3> QED BY <2>4, <3>1, <3>2
  <2> QED BY <1>2, <2>3, <2>4 DEF FailuresBounded
<1> QED BY <1>1, <1>2

\* Steps of a sender alone.
LEMMA SubscribedKeeps ==
  ASSUME WebhookInv, NEW d \in Deliveries, NEW test \in BOOLEAN, Subscribed(d, test)
  PROVE  WebhookInv'
<1>1. PICK r : r = [Resting EXCEPT !.pc = "insert", !.delivery = d, !.hook = hook]
  OBVIOUS
<1>2. /\ sender' = [sender EXCEPT ![d] = r] /\ UNCHANGED <<hook, delivery, batch>>
      /\ delivery[d].status = "none" /\ sender[d].pc = "idle"
  BY <1>1 DEF Subscribed
<1>3. r \in SenderRow /\ r.pc = "insert" /\ r.delivery = d /\ r.hook = hook
  BY <1>1, SendersFacts, RestingFacts DEF WebhookInv, WebhookTypes, SenderRow, HookPoints, Resting
<1>4. /\ sender' \in [Senders -> SenderRow] /\ sender'[d] = r
      /\ \A q \in Senders \ {d} : sender'[q] = sender[q]
  BY <1>2, <1>3, SendersFacts, OneSender DEF WebhookInv, WebhookTypes
<1>5. sender'[Cron] = sender[Cron]
  BY <1>4, SendersFacts
<1>6. WebhookTypes'
  BY <1>2, <1>4 DEF WebhookInv, WebhookTypes
<1>7. SendersSound' /\ RowsSound' /\ AttemptsBounded' /\ ReadsBounded'
  BY <1>2, <1>3, <1>4, <1>5, SendersFacts
     DEF WebhookInv, SendersSound, RowsSound, AttemptsBounded, ReadsBounded, Mine, Crons, CronAt
<1>8. Spent \subseteq Spent'
  BY <1>2, <1>3, <1>4, SendersFacts DEF Spent
<1>9. FailuresBounded'
  BY <1>2, <1>3, <1>4, <1>8, SendersFacts, FailuresKeep DEF WebhookInv
<1> QED BY <1>6, <1>7, <1>9 DEF WebhookInv

\* A sender that moves from one point to another with its delivery and its copy
\* of the endpoint, or ends, while the rows stay; not to "record".
LEMMA SenderKeeps ==
  ASSUME WebhookInv, NEW s \in Senders, NEW r \in SenderRow,
         sender' = [sender EXCEPT ![s] = r], UNCHANGED <<hook, delivery>>,
         batch' = batch \/ batch' = {},
         \/ r.pc = "idle"
         \/ /\ r.pc \in {"success", "failure", "record"} /\ sender[s].pc \notin {"idle", "insert"}
            /\ r.delivery = sender[s].delivery /\ r.hook = sender[s].hook,
         r.pc = "record" => r.attempts = delivery[r.delivery].attempts
  PROVE  WebhookInv'
<1>1. /\ sender' \in [Senders -> SenderRow] /\ sender'[s] = r
      /\ \A q \in Senders \ {s} : sender'[q] = sender[q]
  BY OneSender DEF WebhookInv, WebhookTypes
<1>2. WebhookTypes'
  BY <1>1 DEF WebhookInv, WebhookTypes
<1>3. \A d \in Deliveries : delivery[d].attempts \in Nat
  BY DEF WebhookInv, WebhookTypes, DeliveryRow
<1>4. \A q \in Senders : sender[q].attempts \in Nat
  BY DEF WebhookInv, WebhookTypes, SenderRow
<1>5. \A d \in Deliveries : Mine(d) \in {0, 1} /\ Crons(d) \in {0, 1} /\ Mine(d)' \in {0, 1}
         /\ Crons(d)' \in {0, 1} /\ Mine(d)' <= Mine(d) /\ Crons(d)' <= Crons(d)
  BY <1>1, SendersFacts DEF Mine, Crons, CronAt
<1>6. SendersSound'
  BY <1>1, SendersFacts DEF WebhookInv, SendersSound
<1>7. RowsSound'
  BY <1>1, <1>5, SendersFacts DEF WebhookInv, RowsSound
<1>8. AttemptsBounded'
  BY <1>3, <1>5, WebhookAssumption DEF WebhookInv, AttemptsBounded
<1>9. ReadsBounded'
  <2> SUFFICES ASSUME hook.there, NEW d \in Deliveries
               PROVE  /\ sender'[d].pc = "record" =>
                           /\ sender'[d].attempts + Crons(d)' <= HookAttempts
                           /\ delivery[d].status = "pending" => sender'[d].attempts < HookAttempts
                      /\ CronAt(d)' /\ sender'[Cron].pc = "record" =>
                           sender'[Cron].attempts + Mine(d)' <= HookAttempts
    BY DEF ReadsBounded
  <2>1. CASE s = d
    <3>1. sender'[d].pc = "record" => sender'[d].attempts = delivery[d].attempts /\ Mine(d) = 1
      BY <1>1, <2>1, SendersFacts DEF WebhookInv, SendersSound, Mine
    <3>2. sender'[Cron] = sender[Cron]
      BY <1>1, <2>1, SendersFacts
    <3>3. CronAt(d)' = CronAt(d)
      BY <3>2 DEF CronAt
    <3> QED BY <1>3, <1>4, <1>5, <3>1, <3>2, <3>3, SendersFacts, WebhookAssumption
               DEF WebhookInv, AttemptsBounded, ReadsBounded
  <2>2. CASE s = Cron
    <3>1. sender'[d] = sender[d]
      BY <1>1, <2>2, SendersFacts
    <3>2. CronAt(d)' => CronAt(d) /\ (sender'[Cron].pc = "record" =>
             sender'[Cron].attempts = delivery[d].attempts /\ Crons(d) = 1)
      BY <1>1, <2>2, SendersFacts DEF CronAt, Crons
    <3> QED BY <1>3, <1>4, <1>5, <3>1, <3>2, SendersFacts, WebhookAssumption
               DEF WebhookInv, AttemptsBounded, ReadsBounded
  <2>3. CASE s /= d /\ s /= Cron
    <3>1. sender'[d] = sender[d] /\ sender'[Cron] = sender[Cron]
      BY <1>1, <2>3, SendersFacts
    <3>2. CronAt(d)' = CronAt(d)
      BY <3>1 DEF CronAt
    <3> QED BY <1>4, <1>5, <3>1, <3>2, SendersFacts, WebhookAssumption DEF WebhookInv, ReadsBounded
  <2> QED BY <2>1, <2>2, <2>3
<1>10. Spent \subseteq Spent'
  BY <1>1, SendersFacts DEF Spent
<1>11. FailuresBounded'
  BY <1>1, <1>10, SendersFacts, FailuresKeep DEF WebhookInv
<1> QED BY <1>2, <1>6, <1>7, <1>8, <1>9, <1>11 DEF WebhookInv

LEMMA PostKeeps ==
  ASSUME WebhookInv, NEW s \in Senders, NEW answer \in {"accepted", "terminal", "failed"},
         Post(s, answer)
  PROVE  WebhookInv'
<1>1. PICK pc : pc = (IF answer = "accepted" THEN "success" ELSE "failure")
  OBVIOUS
<1>2. PICK t : t = (answer = "terminal")
  OBVIOUS
<1>3. PICK r : r = [sender[s] EXCEPT !.pc = pc, !.terminal = t]
  OBVIOUS
<1>4. sender[s] \in SenderRow /\ sender \in [Senders -> SenderRow]
  BY DEF WebhookInv, WebhookTypes
<1>5. sender' = [sender EXCEPT ![s] = r] /\ UNCHANGED <<hook, delivery, batch>> /\ sender[s].pc = "send"
  BY <1>1, <1>2, <1>3, <1>4 DEF Post
<1>6. /\ r \in SenderRow /\ r.pc \in {"success", "failure"}
      /\ r.delivery = sender[s].delivery /\ r.hook = sender[s].hook
  BY <1>1, <1>2, <1>3, <1>4 DEF SenderRow, HookPoints
<1> QED BY <1>5, <1>6, SenderKeeps

LEMMA ReadAttemptsKeeps ==
  ASSUME WebhookInv, NEW s \in Senders, ReadAttempts(s)
  PROVE  WebhookInv'
<1>1. PICK n : n = delivery[sender[s].delivery].attempts
  OBVIOUS
<1>2. PICK r : r = [sender[s] EXCEPT !.pc = "record", !.attempts = n]
  OBVIOUS
<1>3. sender[s] \in SenderRow /\ sender \in [Senders -> SenderRow]
  BY DEF WebhookInv, WebhookTypes
<1>4. sender' = [sender EXCEPT ![s] = r] /\ UNCHANGED <<hook, delivery, batch>>
      /\ sender[s].pc = "failure"
  BY <1>1, <1>2, <1>3 DEF ReadAttempts
<1>5. sender[s].delivery \in Deliveries
  BY <1>4 DEF WebhookInv, SendersSound, Senders
<1>6. n \in Nat
  BY <1>1, <1>5 DEF WebhookInv, WebhookTypes, DeliveryRow
<1>7. /\ r \in SenderRow /\ r.pc = "record" /\ r.attempts = n
      /\ r.delivery = sender[s].delivery /\ r.hook = sender[s].hook
  BY <1>2, <1>3, <1>6 DEF SenderRow, HookPoints
<1> QED BY <1>1, <1>4, <1>7, SenderKeeps

LEMMA SenderDiesKeeps ==
  ASSUME WebhookInv, NEW d \in Deliveries, SenderDies(d)
  PROVE  WebhookInv'
<1>1. sender' = [sender EXCEPT ![d] = Resting] /\ UNCHANGED <<hook, delivery, batch>>
      /\ sender[d].pc /= "idle"
  BY DEF SenderDies, SenderRests
<1> QED BY <1>1, RestingFacts, SendersFacts, SenderKeeps

LEMMA CronDiesKeeps ==
  ASSUME WebhookInv, CronDies
  PROVE  WebhookInv'
<1>1. sender' = [sender EXCEPT ![Cron] = Resting] /\ UNCHANGED <<hook, delivery>> /\ batch' = {}
  BY DEF CronDies, SenderRests
<1> QED BY <1>1, RestingFacts, SendersFacts, SenderKeeps

LEMMA InsertDeliveryKeeps ==
  ASSUME WebhookInv, NEW d \in Deliveries, NEW stays \in BOOLEAN, InsertDelivery(d, stays)
  PROVE  WebhookInv'
<1>1. CASE ~(hook.there /\ stays)
  <2>1. sender' = [sender EXCEPT ![d] = Resting] /\ UNCHANGED <<hook, batch>>
    BY <1>1 DEF InsertDelivery, SenderRests
  <2>2. CASE ~hook.there
    <3>1. UNCHANGED delivery
      BY <2>2 DEF InsertDelivery
    <3> QED BY <2>1, <3>1, RestingFacts, SendersFacts, SenderKeeps
  <2>3. CASE hook.there
    <3>1. delivery' = [delivery EXCEPT ![d] = Pending] /\ sender[d].pc = "insert"
          /\ delivery[d].status = "none"
      BY <2>3 DEF InsertDelivery, WebhookInv, RowsSound
    <3>2. Pending \in DeliveryRow
      BY DEF Pending, DeliveryRow
    <3>3. /\ delivery' \in [Deliveries -> DeliveryRow] /\ delivery'[d] = Pending
          /\ \A q \in Deliveries \ {d} : delivery'[q] = delivery[q]
      BY <3>1, <3>2, OneDelivery DEF WebhookInv, WebhookTypes
    <3>4. /\ sender' \in [Senders -> SenderRow] /\ sender'[d] = Resting
          /\ \A q \in Senders \ {d} : sender'[q] = sender[q]
      BY <2>1, RestingFacts, SendersFacts, OneSender DEF WebhookInv, WebhookTypes
    <3>5. sender'[Cron] = sender[Cron]
      BY <3>4, SendersFacts
    <3>6. WebhookTypes'
      BY <2>1, <3>3, <3>4 DEF WebhookInv, WebhookTypes
    <3>7. SendersSound' /\ RowsSound' /\ AttemptsBounded' /\ ReadsBounded'
      BY <2>1, <2>3, <3>1, <3>3, <3>4, <3>5, RestingFacts, SendersFacts, WebhookAssumption
         DEF WebhookInv, SendersSound, RowsSound, AttemptsBounded, ReadsBounded, Mine, Crons,
             CronAt, Pending
    <3>8. Spent \subseteq Spent'
      BY <3>1, <3>3, <3>4, RestingFacts, SendersFacts DEF Spent, Pending
    <3>9. FailuresBounded'
      BY <2>1, <3>4, <3>8, RestingFacts, SendersFacts, FailuresKeep DEF WebhookInv
    <3> QED BY <3>6, <3>7, <3>9 DEF WebhookInv
  <2> QED BY <2>2, <2>3
<1>2. CASE hook.there /\ stays
  <2>1. PICK r : r = [sender[d] EXCEPT !.pc = "send"]
    OBVIOUS
  <2>2. sender[d] \in SenderRow /\ sender \in [Senders -> SenderRow]
    BY SendersFacts DEF WebhookInv, WebhookTypes
  <2>3. sender' = [sender EXCEPT ![d] = r] /\ UNCHANGED <<hook, batch>>
    BY <1>2, <2>1, <2>2 DEF InsertDelivery, SenderAt
  <2>4. r \in SenderRow /\ r.pc = "send" /\ r.delivery = sender[d].delivery /\ r.hook = sender[d].hook
    BY <2>1, <2>2 DEF SenderRow, HookPoints
  <2>5. delivery' = [delivery EXCEPT ![d] = Pending] /\ sender[d].pc = "insert"
        /\ delivery[d].status = "none"
    BY <1>2 DEF InsertDelivery, WebhookInv, RowsSound
  <2>6. Pending \in DeliveryRow
    BY DEF Pending, DeliveryRow
  <2>7. /\ delivery' \in [Deliveries -> DeliveryRow] /\ delivery'[d] = Pending
        /\ \A q \in Deliveries \ {d} : delivery'[q] = delivery[q]
    BY <2>5, <2>6, OneDelivery DEF WebhookInv, WebhookTypes
  <2>8. /\ sender' \in [Senders -> SenderRow] /\ sender'[d] = r
        /\ \A q \in Senders \ {d} : sender'[q] = sender[q]
    BY <2>3, <2>4, SendersFacts, OneSender DEF WebhookInv, WebhookTypes
  <2>9. sender'[Cron] = sender[Cron]
    BY <2>8, SendersFacts
  <2>10. WebhookTypes'
    BY <2>3, <2>7, <2>8 DEF WebhookInv, WebhookTypes
  <2>11. SendersSound' /\ RowsSound' /\ AttemptsBounded' /\ ReadsBounded'
    BY <1>2, <2>3, <2>4, <2>5, <2>7, <2>8, <2>9, SendersFacts, WebhookAssumption
       DEF WebhookInv, SendersSound, RowsSound, AttemptsBounded, ReadsBounded, Mine, Crons,
           CronAt, Pending
  <2>12. Spent \subseteq Spent'
    BY <2>5, <2>7, <2>8, SendersFacts DEF Spent, Pending
  <2>13. FailuresBounded'
    BY <2>3, <2>4, <2>5, <2>8, <2>12, SendersFacts, FailuresKeep DEF WebhookInv
  <2> QED BY <2>10, <2>11, <2>13 DEF WebhookInv
<1> QED BY <1>1, <1>2

\* The Cron.
LEMMA SelectDueKeeps ==
  ASSUME WebhookInv, SelectDue
  PROVE  WebhookInv'
<1>1. /\ batch' = DueDeliveries /\ batch = {} /\ sender[Cron].pc = "idle"
      /\ UNCHANGED <<hook, delivery, sender>>
  BY DEF SelectDue
<1>2. \A d \in Deliveries : d \in batch' => delivery[d].status = "pending"
  BY <1>1 DEF DueDeliveries
<1>3. WebhookTypes'
  BY <1>1 DEF WebhookInv, WebhookTypes, DueDeliveries
<1>4. SendersSound' /\ RowsSound'
  BY <1>1, <1>2 DEF WebhookInv, SendersSound, RowsSound, Crons, CronAt
<1>5. \A d \in Deliveries : delivery[d].attempts \in Nat
  BY DEF WebhookInv, WebhookTypes, DeliveryRow
<1>6. \A q \in Deliveries : sender[q].attempts \in Nat
  BY SendersFacts DEF WebhookInv, WebhookTypes, SenderRow
<1>7. AttemptsBounded'
  BY <1>1, <1>2, <1>5, WebhookAssumption DEF WebhookInv, AttemptsBounded, Mine, Crons, CronAt
<1>8. ReadsBounded'
  BY <1>1, <1>2, <1>6, WebhookAssumption DEF WebhookInv, ReadsBounded, Mine, Crons, CronAt
<1>9. FailuresBounded'
  BY <1>1 DEF WebhookInv, FailuresBounded, Spent
<1> QED BY <1>3, <1>4, <1>7, <1>8, <1>9 DEF WebhookInv

LEMMA BecomesDueKeeps ==
  ASSUME WebhookInv, NEW d \in Deliveries, BecomesDue(d)
  PROVE  WebhookInv'
<1>1. PICK r : r = [delivery[d] EXCEPT !.due = TRUE]
  OBVIOUS
<1>2. delivery[d] \in DeliveryRow /\ delivery \in [Deliveries -> DeliveryRow]
  BY DEF WebhookInv, WebhookTypes
<1>3. delivery' = [delivery EXCEPT ![d] = r] /\ UNCHANGED <<hook, sender, batch>>
      /\ delivery[d].status = "pending"
  BY <1>1, <1>2 DEF BecomesDue
<1>4. r \in DeliveryRow /\ r.status = "pending" /\ r.attempts = delivery[d].attempts
  BY <1>1, <1>2, <1>3 DEF DeliveryRow
<1>5. /\ delivery' \in [Deliveries -> DeliveryRow] /\ delivery'[d] = r
      /\ \A q \in Deliveries \ {d} : delivery'[q] = delivery[q]
  BY <1>2, <1>3, <1>4, OneDelivery
<1>6. \A q \in Deliveries : delivery'[q].status = delivery[q].status
        /\ delivery'[q].attempts = delivery[q].attempts
  BY <1>3, <1>4, <1>5
<1>7. WebhookTypes'
  BY <1>3, <1>5 DEF WebhookInv, WebhookTypes
<1>8. SendersSound' /\ AttemptsBounded' /\ ReadsBounded'
  BY <1>3, <1>6 DEF WebhookInv, SendersSound, AttemptsBounded, ReadsBounded, Mine, Crons, CronAt
<1>9. RowsSound'
  BY <1>3, <1>4, <1>5 DEF WebhookInv, RowsSound, Crons, CronAt
<1>10. Spent \subseteq Spent'
  BY <1>3, <1>6 DEF Spent
<1>11. FailuresBounded'
  BY <1>3, <1>10, FailuresKeep DEF WebhookInv
<1> QED BY <1>7, <1>8, <1>9, <1>11 DEF WebhookInv

LEMMA RetryKeeps ==
  ASSUME WebhookInv, NEW d \in Deliveries, Retry(d)
  PROVE  WebhookInv'
<1>0. /\ batch' = batch \ {d} /\ UNCHANGED hook /\ d \in batch /\ sender[Cron].pc = "idle"
      /\ sender \in [Senders -> SenderRow] /\ delivery \in [Deliveries -> DeliveryRow]
  BY DEF Retry, WebhookInv, WebhookTypes
<1>1. CASE hook.there /\ hook.enabled
  <2>1. PICK r : r = [Resting EXCEPT !.pc = "send", !.delivery = d, !.hook = hook]
    OBVIOUS
  <2>2. sender' = [sender EXCEPT ![Cron] = r] /\ UNCHANGED delivery
    BY <1>1, <2>1 DEF Retry
  <2>3. r \in SenderRow /\ r.pc = "send" /\ r.delivery = d /\ r.hook = hook
    BY <2>1, SendersFacts, RestingFacts
       DEF WebhookInv, WebhookTypes, SenderRow, HookPoints, Resting
  <2>4. /\ sender' \in [Senders -> SenderRow] /\ sender'[Cron] = r
        /\ \A q \in Deliveries : sender'[q] = sender[q]
    BY <1>0, <2>2, <2>3, SendersFacts, OneSender
  <2>5. WebhookTypes'
    BY <1>0, <2>2, <2>4 DEF WebhookInv, WebhookTypes
  <2>6. \A q \in Deliveries : Mine(q)' = Mine(q) /\ Crons(q)' = Crons(q)
    BY <1>0, <2>2, <2>3, <2>4 DEF Mine, Crons, CronAt
  <2>7. SendersSound'
    BY <1>0, <1>1, <2>3, <2>4, WebhookAssumption DEF WebhookInv, SendersSound, FailuresBounded
  <2>8. RowsSound' /\ AttemptsBounded' /\ ReadsBounded'
    BY <1>0, <2>2, <2>3, <2>4, <2>6 DEF WebhookInv, RowsSound, AttemptsBounded, ReadsBounded
  <2>9. Spent \subseteq Spent'
    BY <2>2, <2>4 DEF Spent
  <2>10. FailuresBounded'
    BY <1>0, <2>4, <2>9, FailuresKeep DEF WebhookInv
  <2> QED BY <2>5, <2>7, <2>8, <2>10 DEF WebhookInv
<1>2. CASE ~(hook.there /\ hook.enabled)
  <2>1. UNCHANGED sender
    BY <1>2 DEF Retry
  <2>2. PICK r : r = IF hook.there /\ ~hook.enabled
                     THEN [delivery[d] EXCEPT !.status = "abandoned", !.due = FALSE] ELSE delivery[d]
    OBVIOUS
  <2>3. delivery' = [delivery EXCEPT ![d] = r]
    BY <1>0, <2>2 DEF Retry
  <2>4. /\ r \in DeliveryRow /\ r.attempts = delivery[d].attempts
        /\ r.due => r.status = "pending"
        /\ r = delivery[d] \/ (hook.there /\ r.status = "abandoned")
    <3>1. delivery[d] \in DeliveryRow /\ (delivery[d].due => delivery[d].status = "pending")
      BY <1>0 DEF WebhookInv, RowsSound
    <3>2. CASE hook.there /\ ~hook.enabled
      BY <2>2, <3>1, <3>2 DEF DeliveryRow
    <3>3. CASE ~(hook.there /\ ~hook.enabled)
      BY <2>2, <3>1, <3>3
    <3> QED BY <3>2, <3>3
  <2>5. /\ delivery' \in [Deliveries -> DeliveryRow] /\ delivery'[d] = r
        /\ \A q \in Deliveries \ {d} : delivery'[q] = delivery[q]
    BY <1>0, <2>3, <2>4, OneDelivery
  <2>6. WebhookTypes'
    BY <1>0, <2>1, <2>5 DEF WebhookInv, WebhookTypes
  <2>7. SendersSound'
    BY <1>0, <2>1 DEF WebhookInv, SendersSound
  <2>8. hook.there => delivery[d].status /= "none" /\ sender[d].pc /= "insert"
    BY <1>0 DEF WebhookInv, RowsSound, Crons
  <2>9. RowsSound'
    <3>1. \A q \in Deliveries : Crons(q) = 0 => Crons(q)' = 0
      BY <1>0, <2>1 DEF Crons, CronAt
    <3>2. ASSUME NEW q \in Deliveries, q /= d
          PROVE  /\ delivery'[q] = delivery[q] /\ sender'[q] = sender[q] /\ hook' = hook
                 /\ Crons(q) = 0 => Crons(q)' = 0
      BY <1>0, <2>1, <2>5, <3>1, <3>2
    <3>3. /\ delivery'[d].due => delivery'[d].status = "pending"
          /\ delivery'[d].status = "none" => ~hook.there /\ delivery'[d].attempts = 0
          /\ ~hook.there => delivery'[d].status = "none"
          /\ sender'[d].pc = "insert" => delivery'[d].status = "none"
      BY <1>0, <2>1, <2>4, <2>5, <2>8 DEF WebhookInv, RowsSound
    <3> QED BY <1>0, <3>2, <3>3 DEF WebhookInv, RowsSound
  <2>10. \A q \in Deliveries : Mine(q) \in {0, 1} /\ Crons(q) \in {0, 1} /\ Mine(q)' = Mine(q)
           /\ Crons(q)' \in {0, 1} /\ Crons(q)' <= Crons(q)
    BY <1>0, <2>1, <2>4, <2>5, <2>8 DEF Mine, Crons, CronAt
  <2>11. \A q \in Deliveries : delivery[q].attempts \in Nat /\ sender[q].attempts \in Nat
    BY <1>0, SendersFacts DEF DeliveryRow, SenderRow
  <2>12. AttemptsBounded'
    <3>1. \A q \in Deliveries : delivery'[q].attempts = delivery[q].attempts
            /\ (delivery'[q].status = "pending" => delivery[q].status = "pending")
      BY <2>4, <2>5
    <3> QED BY <2>10, <2>11, <3>1, WebhookAssumption DEF WebhookInv, AttemptsBounded
  <2>13. ReadsBounded'
    BY <1>0, <2>1, <2>4, <2>5, <2>10, <2>11, WebhookAssumption DEF WebhookInv, ReadsBounded, CronAt
  <2>14. hook.there => Spent \subseteq Spent'
    BY <2>1, <2>4, <2>5, <2>8 DEF Spent
  <2>15. FailuresBounded'
    BY <1>0, <2>1, <2>14, FailuresKeep DEF WebhookInv
  <2> QED BY <2>6, <2>7, <2>9, <2>12, <2>13, <2>15 DEF WebhookInv
<1> QED BY <1>1, <1>2

\* The end of an attempt: its sender rests, and its row, if there is one, has
\* one record more than the attempt has read, or than the row had.
LEMMA RecordKeeps ==
  ASSUME WebhookInv, NEW s \in Senders, NEW d \in Deliveries, sender[s].delivery = d,
         sender[s].pc \in {"success", "record"}, sender' = [sender EXCEPT ![s] = Resting],
         UNCHANGED batch, NEW r \in DeliveryRow,
         delivery' = IF delivery[d].status = "none" THEN delivery ELSE [delivery EXCEPT ![d] = r],
         \/ /\ sender[s].pc = "success" /\ r.attempts = delivery[d].attempts + 1
            /\ r.status = "delivered"
         \/ /\ sender[s].pc = "record" /\ r.attempts = sender[s].attempts + 1
            /\ r.status \in {"pending", "abandoned"}
            /\ r.status = "pending" => r.attempts < HookAttempts,
         ~r.due, hook' \in HookRow, hook'.there = hook.there
  PROVE  /\ WebhookTypes' /\ SendersSound' /\ RowsSound' /\ AttemptsBounded' /\ ReadsBounded'
         /\ hook.there => Spent \subseteq Spent' /\ s \notin Spent /\ (s = d => s \in Spent')
<1>0. /\ sender \in [Senders -> SenderRow] /\ delivery \in [Deliveries -> DeliveryRow]
      /\ s = d \/ s = Cron
  BY SendersFacts DEF WebhookInv, WebhookTypes, SendersSound, Senders, Cron
<1>1. /\ sender' \in [Senders -> SenderRow] /\ sender'[s] = Resting
      /\ \A q \in Senders \ {s} : sender'[q] = sender[q]
  BY <1>0, RestingFacts, OneSender
<1>2. \A q \in Deliveries : delivery[q].attempts \in Nat /\ sender[q].attempts \in Nat
  BY <1>0, SendersFacts DEF DeliveryRow, SenderRow
<1>3. sender[Cron].attempts \in Nat /\ r.attempts \in Nat
  BY <1>0, SendersFacts DEF SenderRow, DeliveryRow
<1>4. \A q \in Deliveries : sender'[q].pc /= "idle" => sender'[q] = sender[q]
  BY <1>1, RestingFacts, SendersFacts
<1>5. sender'[Cron].pc /= "idle" => sender'[Cron] = sender[Cron]
  BY <1>1, RestingFacts, SendersFacts
<1>6. CASE delivery[d].status = "none"
  <2>1. delivery' = delivery /\ ~hook.there
    BY <1>6, <1>0 DEF WebhookInv, RowsSound, Crons, CronAt
  <2>2. WebhookTypes' /\ SendersSound'
    BY <1>1, <1>4, <1>5, <2>1 DEF WebhookInv, WebhookTypes, SendersSound
  <2>3. RowsSound' /\ ReadsBounded'
    BY <1>4, <1>5, <2>1 DEF WebhookInv, RowsSound, ReadsBounded
  <2>4. \A q \in Deliveries : Mine(q) \in {0, 1} /\ Mine(q)' \in {0, 1} /\ Crons(q)' \in {0, 1}
          /\ Crons(q) \in {0, 1} /\ Mine(q)' <= Mine(q) /\ Crons(q)' <= Crons(q)
    BY <1>4, <1>5, <2>1 DEF Mine, Crons, CronAt
  <2>5. AttemptsBounded'
    BY <1>2, <2>1, <2>4, WebhookAssumption DEF WebhookInv, AttemptsBounded
  <2> QED BY <2>1, <2>2, <2>3, <2>5
<1>7. CASE delivery[d].status /= "none"
  <2>1. /\ delivery' \in [Deliveries -> DeliveryRow] /\ delivery'[d] = r
        /\ \A q \in Deliveries \ {d} : delivery'[q] = delivery[q]
    BY <1>0, <1>7, OneDelivery
  <2>2. hook.there
    BY <1>7 DEF WebhookInv, RowsSound
  <2>3. WebhookTypes' /\ SendersSound'
    BY <1>1, <1>4, <1>5, <2>1 DEF WebhookInv, WebhookTypes, SendersSound
  <2>4. \A q \in Deliveries : Mine(q) \in {0, 1} /\ Mine(q)' \in {0, 1} /\ Crons(q)' \in {0, 1}
          /\ Crons(q) \in {0, 1} /\ Mine(q)' <= Mine(q) /\ Crons(q)' <= Crons(q)
    BY <1>4, <1>5, <1>7, <2>1 DEF Mine, Crons, CronAt
  <2>5. s = d => Mine(d) = 1 /\ Mine(d)' = 0
    BY <1>1, <1>7, <2>1, RestingFacts DEF Mine
  <2>6. s = Cron => Crons(d) = 1 /\ Crons(d)' = 0
    BY <1>1, RestingFacts DEF WebhookInv, SendersSound, Crons, CronAt
  <2>7. sender[d].pc /= "insert"
    BY <1>7 DEF WebhookInv, RowsSound
  <2>8. RowsSound'
    BY <1>4, <1>5, <2>1, <2>2, <2>4, <2>7 DEF WebhookInv, RowsSound
  <2>9. r.attempts + Mine(d)' + Crons(d)' <= HookAttempts + 1
    <3>1. CASE sender[s].pc = "success"
      BY <1>0, <1>2, <2>4, <2>5, <2>6, <3>1, WebhookAssumption DEF WebhookInv, AttemptsBounded
    <3>2. CASE sender[s].pc = "record" /\ s = d
      BY <1>2, <2>2, <2>4, <2>5, <3>2, WebhookAssumption DEF WebhookInv, ReadsBounded
    <3>3. CASE sender[s].pc = "record" /\ s = Cron
      <4>1. CronAt(d)
        BY <3>3 DEF CronAt
      <4> QED BY <1>3, <2>2, <2>4, <2>6, <3>3, <4>1, WebhookAssumption DEF WebhookInv, ReadsBounded
    <3> QED BY <1>0, <3>1, <3>2, <3>3
  <2>10. AttemptsBounded'
    BY <1>2, <2>1, <2>4, <2>9, WebhookAssumption DEF WebhookInv, AttemptsBounded
  <2>11. ReadsBounded'
    <3> SUFFICES ASSUME NEW q \in Deliveries
                 PROVE  /\ sender'[q].pc = "record" =>
                             /\ sender'[q].attempts + Crons(q)' <= HookAttempts
                             /\ delivery'[q].status = "pending" => sender'[q].attempts < HookAttempts
                        /\ CronAt(q)' /\ sender'[Cron].pc = "record" =>
                             sender'[Cron].attempts + Mine(q)' <= HookAttempts
      BY DEF ReadsBounded
    <3>1. CronAt(q)' => CronAt(q) /\ sender'[Cron] = sender[Cron]
      BY <1>5 DEF CronAt
    <3>2. CronAt(q)' /\ sender'[Cron].pc = "record" => sender'[Cron].attempts + Mine(q)' <= HookAttempts
      BY <1>3, <2>2, <2>4, <3>1, WebhookAssumption DEF WebhookInv, ReadsBounded
    <3>3. ASSUME sender'[q].pc = "record"
          PROVE  sender'[q].attempts + Crons(q)' <= HookAttempts
      BY <1>2, <1>4, <2>2, <2>4, <3>3, WebhookAssumption DEF WebhookInv, ReadsBounded
    <3>4. ASSUME sender'[q].pc = "record", delivery'[q].status = "pending"
          PROVE  sender'[q].attempts < HookAttempts
      <4>1. CASE q /= d
        BY <1>4, <2>1, <2>2, <3>4, <4>1 DEF WebhookInv, ReadsBounded
      <4>2. CASE q = d
        <5>1. s = Cron
          BY <1>0, <1>1, <3>4, <4>2, RestingFacts
        <5> QED BY <1>2, <1>4, <2>2, <2>6, <3>4, <4>2, <5>1, WebhookAssumption
                   DEF WebhookInv, ReadsBounded
      <4> QED BY <4>1, <4>2
    <3> QED BY <3>2, <3>3, <3>4
  <2>12. Spent \subseteq Spent' /\ s \notin Spent /\ (s = d => s \in Spent')
    BY <1>1, <1>7, <2>1, RestingFacts, SendersFacts DEF Spent
  <2> QED BY <2>3, <2>8, <2>10, <2>11, <2>12
<1> QED BY <1>6, <1>7

LEMMA RecordSuccessKeeps ==
  ASSUME WebhookInv, NEW s \in Senders, RecordSuccess(s)
  PROVE  WebhookInv'
<1>1. PICK d : d = sender[s].delivery
  OBVIOUS
<1>2. sender[s].pc = "success" /\ sender' = [sender EXCEPT ![s] = Resting] /\ UNCHANGED batch
  BY DEF RecordSuccess, SenderRests
<1>3. d \in Deliveries
  BY <1>1, <1>2 DEF WebhookInv, SendersSound, Senders
<1>4. PICK r : r = [delivery[d] EXCEPT !.status = "delivered", !.attempts = delivery[d].attempts + 1,
                                      !.due = FALSE]
  OBVIOUS
<1>5. delivery[d] \in DeliveryRow
  BY <1>3 DEF WebhookInv, WebhookTypes
<1>6. r \in DeliveryRow /\ r.attempts = delivery[d].attempts + 1 /\ r.status = "delivered" /\ ~r.due
  <2>1. delivery[d].attempts + 1 \in Nat
    BY <1>5 DEF DeliveryRow
  <2>2. r = [status |-> "delivered", attempts |-> delivery[d].attempts + 1, due |-> FALSE]
    BY <1>4, <1>5 DEF DeliveryRow
  <2> QED BY <2>1, <2>2 DEF DeliveryRow
<1>7. delivery' = IF delivery[d].status = "none" THEN delivery ELSE [delivery EXCEPT ![d] = r]
  BY <1>1, <1>4, <1>3 DEF RecordSuccess, WebhookInv, WebhookTypes
<1>8. hook' = (IF hook.there THEN [hook EXCEPT !.failures = 0] ELSE hook) /\ hook \in HookRow
  BY DEF RecordSuccess, WebhookInv, WebhookTypes
<1>9. /\ hook' \in HookRow /\ hook'.there = hook.there
      /\ hook'.failures = hook.failures \/ hook'.failures = 0
      /\ hook'.enabled = hook.enabled
  BY <1>8 DEF HookRow
<1>10. /\ WebhookTypes' /\ SendersSound' /\ RowsSound' /\ AttemptsBounded' /\ ReadsBounded'
       /\ hook.there => Spent \subseteq Spent'
  BY <1>1, <1>2, <1>3, <1>6, <1>7, <1>9, RecordKeeps
<1>11. hook'.there => Cardinality(Spent') \in Nat /\ Cardinality(Spent) <= Cardinality(Spent')
  BY <1>9, <1>10, MoreSpent
<1>12. \A q \in Deliveries : sender[q].hook.failures \in Nat
         /\ (sender'[q].pc /= "idle" => sender'[q] = sender[q])
  BY <1>2, SendersFacts, RestingFacts DEF WebhookInv, WebhookTypes, SenderRow, HookRow
<1>13. FailuresBounded'
  <2>1. hook.failures \in Nat
    BY <1>8 DEF HookRow
  <2>2. hook'.failures <= DisableAfter + Cardinality(Deliveries)
        /\ (hook'.enabled => hook'.failures < DisableAfter)
    BY <2>1, <1>9, SpentCount, WebhookAssumption DEF WebhookInv, FailuresBounded
  <2>3. hook'.there => hook'.failures <= DisableAfter + Cardinality(Spent')
    BY <2>1, <1>9, <1>11, SpentCount, WebhookAssumption DEF WebhookInv, FailuresBounded
  <2>4. ASSUME hook'.there, NEW q \in Deliveries, sender'[q].pc /= "idle"
        PROVE  sender'[q].hook.failures <= DisableAfter + Cardinality(Spent')
    <3>1. sender[q].hook.failures <= DisableAfter + Cardinality(Spent)
      BY <2>4, <1>9, <1>12 DEF WebhookInv, FailuresBounded
    <3> QED BY <2>4, <3>1, <1>11, <1>12, SpentCount, WebhookAssumption
  <2> QED BY <2>2, <2>3, <2>4 DEF FailuresBounded
<1> QED BY <1>10, <1>13 DEF WebhookInv

LEMMA RecordFailureKeeps ==
  ASSUME WebhookInv, NEW s \in Senders, RecordFailure(s)
  PROVE  WebhookInv'
<1>1. PICK d : d = sender[s].delivery
  OBVIOUS
<1>2. sender[s].pc = "record" /\ sender' = [sender EXCEPT ![s] = Resting] /\ UNCHANGED batch
  BY DEF RecordFailure, SenderRests
<1>3. d \in Deliveries
  BY <1>1, <1>2 DEF WebhookInv, SendersSound, Senders
<1>4. PICK n : n = sender[s].attempts + 1
  OBVIOUS
<1>5. PICK status : status = IF sender[s].terminal \/ n >= HookAttempts THEN "abandoned" ELSE "pending"
  OBVIOUS
<1>6. PICK r : r = [status |-> status, attempts |-> n, due |-> FALSE]
  OBVIOUS
<1>7. sender[s] \in SenderRow /\ hook \in HookRow
  BY DEF WebhookInv, WebhookTypes
<1>8. n \in Nat /\ status \in {"pending", "abandoned"} /\ (status = "pending" => n < HookAttempts)
  BY <1>4, <1>5, <1>7, WebhookAssumption DEF SenderRow
<1>9. /\ r \in DeliveryRow /\ r.attempts = sender[s].attempts + 1 /\ ~r.due
      /\ r.status \in {"pending", "abandoned"}
      /\ r.status = "pending" => r.attempts < HookAttempts
  BY <1>4, <1>6, <1>8 DEF DeliveryRow
<1>10. delivery' = IF delivery[d].status = "none" THEN delivery ELSE [delivery EXCEPT ![d] = r]
  BY <1>1, <1>4, <1>5, <1>6 DEF RecordFailure
<1>11. PICK copy : copy = sender[s].hook
  OBVIOUS
<1>12. copy \in HookRow
  BY <1>7, <1>11 DEF SenderRow
<1>13. PICK e : e = (copy.enabled /\ copy.failures + 1 < DisableAfter)
  OBVIOUS
<1>14. hook' = IF ~hook.there THEN hook
               ELSE [hook EXCEPT !.failures = copy.failures + 1, !.enabled = e]
  BY <1>11, <1>13 DEF RecordFailure
<1>15. copy.failures \in Nat /\ e \in BOOLEAN
  BY <1>12, <1>13 DEF HookRow
<1>16. /\ hook' \in HookRow /\ hook'.there = hook.there /\ (~hook.there => hook' = hook)
       /\ hook.there => hook'.failures = copy.failures + 1 /\ hook'.enabled = e
  <2>1. CASE ~hook.there
    BY <1>7, <1>14, <2>1
  <2>2. CASE hook.there
    <3>1. hook' = [there |-> TRUE, enabled |-> e, failures |-> copy.failures + 1]
      BY <1>7, <1>14, <2>2 DEF HookRow
    <3>2. copy.failures + 1 \in Nat
      BY <1>15
    <3> QED BY <1>15, <2>2, <3>1, <3>2 DEF HookRow
  <2> QED BY <2>1, <2>2
<1>17. /\ WebhookTypes' /\ SendersSound' /\ RowsSound' /\ AttemptsBounded' /\ ReadsBounded'
       /\ hook.there => Spent \subseteq Spent' /\ s \notin Spent /\ (s = d => s \in Spent')
  BY <1>1, <1>2, <1>3, <1>9, <1>10, <1>16, RecordKeeps
<1>18. FailuresBounded'
  <2>1. CASE ~hook.there
    BY <1>16, <2>1 DEF WebhookInv, FailuresBounded
  <2>2. CASE hook.there
    <3>1. Cardinality(Spent') \in Nat /\ Cardinality(Spent) <= Cardinality(Spent')
      BY <1>17, <2>2, MoreSpent
    <3>2. \A q \in Deliveries : sender[q].hook.failures \in Nat
            /\ (sender'[q].pc /= "idle" => sender'[q] = sender[q])
      BY <1>2, SendersFacts, RestingFacts DEF WebhookInv, WebhookTypes, SenderRow, HookRow
    <3>3. copy.failures + 1 <= DisableAfter + Cardinality(Spent')
      <4>1. CASE s = d
        <5>1. copy.failures <= DisableAfter + Cardinality(Spent)
          BY <1>2, <1>3, <1>11, <2>2, <4>1 DEF WebhookInv, FailuresBounded
        <5>2. s \in Spent' /\ s \notin Spent /\ Spent \subseteq Spent'
          BY <1>17, <2>2, <4>1
        <5>3. Cardinality(Spent) + 1 <= Cardinality(Spent')
          BY <5>2, OneMoreSpent
        <5> QED BY <1>15, <3>1, <5>1, <5>3, SpentCount, WebhookAssumption
      <4>2. CASE s = Cron
        <5>1. copy.failures < DisableAfter
          BY <1>2, <1>11, <4>2 DEF WebhookInv, SendersSound
        <5> QED BY <1>15, <3>1, <5>1, WebhookAssumption
      <4> QED BY <1>1, <1>2, <4>1, <4>2 DEF WebhookInv, SendersSound, Senders, Cron
    <3>4. Spent' \subseteq Deliveries
      BY DEF Spent
    <3>5. Cardinality(Spent') <= Cardinality(Deliveries)
      <4>1. PICK S : S = Spent'
        OBVIOUS
      <4>2. S \in SUBSET Deliveries
        BY <3>4, <4>1
      <4>3. Cardinality(S) <= Cardinality(Deliveries)
        BY <4>2, FS_Subset, WebhookAssumption
      <4> QED BY <4>1, <4>3
    <3>6. hook'.enabled => hook'.failures < DisableAfter
      BY <1>13, <1>16, <2>2
    <3>7. ASSUME NEW q \in Deliveries, sender'[q].pc /= "idle"
          PROVE  sender'[q].hook.failures <= DisableAfter + Cardinality(Spent')
      <4>1. sender[q].hook.failures <= DisableAfter + Cardinality(Spent)
        BY <2>2, <3>2, <3>7 DEF WebhookInv, FailuresBounded
      <4> QED BY <3>1, <3>2, <3>7, <4>1, SpentCount, WebhookAssumption
    <3>8. /\ hook'.failures <= DisableAfter + Cardinality(Spent')
          /\ hook'.failures <= DisableAfter + Cardinality(Deliveries)
      BY <1>15, <1>16, <2>2, <3>1, <3>3, <3>5, SpentCount, WebhookAssumption
    <3> QED BY <3>6, <3>7, <3>8 DEF FailuresBounded
  <2> QED BY <2>1, <2>2
<1> QED BY <1>17, <1>18 DEF WebhookInv

\* The administrator.
LEMMA EnableHookKeeps ==
  ASSUME WebhookInv, EnableHook
  PROVE  WebhookInv'
<1>1. hook' = FreshHook /\ hook.there /\ UNCHANGED <<delivery, sender, batch>>
  BY DEF EnableHook
<1>2. WebhookTypes'
  BY <1>1, RestingFacts DEF WebhookInv, WebhookTypes
<1>3. SendersSound' /\ RowsSound' /\ AttemptsBounded' /\ ReadsBounded'
  BY <1>1 DEF WebhookInv, SendersSound, RowsSound, AttemptsBounded, ReadsBounded, Mine, Crons, CronAt,
              FreshHook
<1>4. FailuresBounded'
  <2>1. PICK n : n = Cardinality(Spent)
    OBVIOUS
  <2>2. n \in Nat
    BY <2>1, SpentCount
  <2>3. Cardinality(Spent') = n
    BY <1>1, <2>1 DEF Spent
  <2>4. \A d \in Deliveries : sender[d].pc /= "idle" => sender[d].hook.failures <= DisableAfter + n
    BY <1>1, <2>1 DEF WebhookInv, FailuresBounded
  <2>5. FreshHook.failures = 0
    BY DEF FreshHook
  <2> QED BY <1>1, <2>2, <2>3, <2>4, <2>5, SpentCount, WebhookAssumption DEF FailuresBounded
<1> QED BY <1>2, <1>3, <1>4 DEF WebhookInv

LEMMA DeleteHookKeeps ==
  ASSUME WebhookInv, DeleteHook
  PROVE  WebhookInv'
<1>1. /\ hook' = [hook EXCEPT !.there = FALSE] /\ UNCHANGED <<sender, batch>>
      /\ delivery' = [d \in Deliveries |-> NoRecord] /\ hook \in HookRow
  BY DEF DeleteHook, WebhookInv, WebhookTypes
<1>2. hook' \in HookRow /\ ~hook'.there /\ hook'.failures = hook.failures
      /\ hook'.enabled = hook.enabled
  BY <1>1 DEF HookRow
<1>3. \A d \in Deliveries : delivery'[d] = NoRecord
  BY <1>1
<1>4. WebhookTypes'
  BY <1>1, <1>2 DEF WebhookInv, WebhookTypes, NoRecord, DeliveryRow
<1>5. SendersSound' /\ RowsSound' /\ AttemptsBounded' /\ ReadsBounded'
  BY <1>1, <1>2, <1>3, WebhookAssumption
     DEF WebhookInv, SendersSound, RowsSound, AttemptsBounded, ReadsBounded, Mine, Crons, CronAt, NoRecord
<1>6. FailuresBounded'
  BY <1>2 DEF WebhookInv, FailuresBounded
<1> QED BY <1>4, <1>5, <1>6 DEF WebhookInv

LEMMA WebhookInvStep == WebhookInv /\ [WebhookNext]_webhookVars => WebhookInv'
<1> SUFFICES ASSUME WebhookInv, [WebhookNext]_webhookVars PROVE WebhookInv'
  OBVIOUS
<1>1. ASSUME NEW d \in Deliveries, NEW b \in BOOLEAN, Subscribed(d, b) \/ InsertDelivery(d, b)
      PROVE  WebhookInv'
  BY <1>1, SubscribedKeeps, InsertDeliveryKeeps
<1>2. ASSUME NEW d \in Deliveries, SenderDies(d) \/ Retry(d) \/ BecomesDue(d)
      PROVE  WebhookInv'
  BY <1>2, SenderDiesKeeps, RetryKeeps, BecomesDueKeeps
<1>3. ASSUME NEW s \in Senders, NEW answer \in {"accepted", "terminal", "failed"}, Post(s, answer)
      PROVE  WebhookInv'
  BY <1>3, PostKeeps
<1>4. ASSUME NEW s \in Senders, RecordSuccess(s) \/ ReadAttempts(s) \/ RecordFailure(s)
      PROVE  WebhookInv'
  BY <1>4, RecordSuccessKeeps, ReadAttemptsKeeps, RecordFailureKeeps
<1>5. CASE SelectDue \/ CronDies \/ EnableHook \/ DeleteHook
  BY <1>5, SelectDueKeeps, CronDiesKeeps, EnableHookKeeps, DeleteHookKeeps
<1>6. CASE UNCHANGED webhookVars
  BY <1>6 DEF webhookVars, WebhookInv, WebhookTypes, SendersSound, RowsSound, AttemptsBounded,
              ReadsBounded, FailuresBounded, Mine, Crons, CronAt, Spent
<1> QED BY <1>1, <1>2, <1>3, <1>4, <1>5, <1>6 DEF WebhookNext

LEMMA WebhookHoldsInv == WebhookInit /\ [][WebhookNext]_webhookVars => []WebhookInv
  BY WebhookInvInit, WebhookInvStep, PTL

LEMMA WebhookInvTypes == WebhookInv => WebhookTypeOK
<1> SUFFICES ASSUME WebhookInv PROVE WebhookTypeOK
  OBVIOUS
<1>1. hook.failures \in 0 .. DisableAfter + Cardinality(Deliveries)
  <2>1. hook.failures \in Nat
    BY DEF WebhookInv, WebhookTypes, HookRow
  <2> QED BY <2>1, SpentCount, WebhookAssumption DEF WebhookInv, FailuresBounded
<1>2. Cardinality(Senders) \in Nat /\ 1 <= Cardinality(Senders)
  <2>1. PICK S : S = Deliveries \cup {Cron}
    OBVIOUS
  <2>2. IsFiniteSet(S) /\ Cardinality(S) = Cardinality(Deliveries) + 1
    BY <2>1, SendersFacts, FS_AddElement, WebhookAssumption
  <2>3. S = Senders
    BY <2>1 DEF Senders
  <2> QED BY <2>2, <2>3, SpentCount
<1>3. ASSUME NEW d \in Deliveries
      PROVE  delivery[d].attempts \in 0 .. HookAttempts + Cardinality(Senders)
  <2>1. delivery[d].attempts \in Nat
    BY DEF WebhookInv, WebhookTypes, DeliveryRow
  <2>2. Mine(d) \in {0, 1} /\ Crons(d) \in {0, 1}
    BY DEF Mine, Crons
  <2>3. delivery[d].attempts + Mine(d) + Crons(d) <= HookAttempts + 1
    BY DEF WebhookInv, AttemptsBounded
  <2> QED BY <1>2, <2>1, <2>2, <2>3, WebhookAssumption
<1>4. \A d \in Deliveries :
        /\ delivery[d].status \in {"none", "pending", "delivered", "abandoned"}
        /\ delivery[d].due => delivery[d].status = "pending"
  BY DEF WebhookInv, WebhookTypes, RowsSound, DeliveryRow
<1>5. batch \subseteq Deliveries
  BY DEF WebhookInv, WebhookTypes
<1>6. \A d \in Deliveries : delivery[d].attempts \in 0 .. HookAttempts + Cardinality(Senders)
  BY <1>3
<1> QED BY <1>1, <1>4, <1>5, <1>6 DEF WebhookTypeOK

\* Theorem: attempts that overlap, lose each other's counts and die leave the
\* attempts of a delivery and the failures of its endpoint bounded, and only a
\* pending delivery is due.
THEOREM DeliveriesTyped == WebhookSpec => []WebhookTypeOK
  BY WebhookInvTypes, WebhookHoldsInv, PTL DEF WebhookSpec

(***************************************************************************)
(* The parts side by side.                                                 *)
(***************************************************************************)
\* Theorem: rows, senders and requests have their types whichever part runs.
THEOREM SettlingIsTyped == MCSpec => []SettlingTypeOK
<1>1. MCInit => ReplyInit /\ WebhookInit
  BY DEF MCInit
<1>2. [MCNext]_mcVars => [ReplyNext]_replyVars /\ [WebhookNext]_webhookVars
  BY DEF MCNext, mcVars, Search, Webhook, Reply
<1>3. ReplyInv /\ WebhookInv => SettlingTypeOK
  BY ReplyInvTypes, WebhookInvTypes DEF SettlingTypeOK
<1> QED BY <1>1, <1>2, <1>3, RepliesHoldInv, WebhookHoldsInv, PTL DEF MCSpec
================================================================================
