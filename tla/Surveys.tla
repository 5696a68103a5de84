------------------------------ MODULE Surveys ------------------------------
(* Satisfaction surveys: csat/service.ts, csat/routes.ts, csat/token.ts, the *)
(* part of processOutboundMail that appends the links (mail/queue.ts), the   *)
(* page the links open (web/pages/rate.tsx) and the merge of the ticket's    *)
(* customer into another (customers/merge.ts).                               *)
(* A ticket has one row, taken by the first reply built while the ticket is  *)
(* resolved.  The row is the customer's as well: a merge moves the ticket,   *)
(* not the row, and deletes the customer and with them the row.  Passes over *)
(* one reply may overlap and end anywhere; a customer may follow several     *)
(* links, and one link several times, at once.                               *)
EXTENDS Integers

CONSTANTS
    ReplyJobs,  \* outbound jobs of one ticket
    Senders,     \* invocations that process them
    Clicks,     \* times a link is followed
    Ratings,    \* 1, 3 and 5
    LastCustomer, \* bound: the ticket's customers are numbered as merges replace them
    NoSurvey

VARIABLES
    status,     \* tickets.status: "open", "solved" (resolved or closed) or "gone"
    customer,   \* tickets.customer_id, and that of the row while there is one
    survey,     \* the csat_responses row, or NoSurvey
    envelope,   \* outbound_mail_jobs.envelope: Unbuilt, Plain or the customer it surveys
    sender,     \* what an invocation is doing
    mailed,     \* <<reply, customer>>: replies that left with links, and whom they survey
    click       \* a visit of the rating page

surveyVars == <<status, customer, survey, envelope, sender, mailed, click>>

Surveyed == 1 .. LastCustomer
Plain == 0        \* no links, nobody surveyed
Unbuilt == -1

NoPass == [reply |-> NoSurvey, at |-> "idle", customer |-> 0, links |-> Plain]
Unrated == 0
\* owner: whose survey had the score the page shows; note: whose took its note
NoClick == [at |-> "closed", rating |-> Unrated, told |-> Unrated, owner |-> 0, note |-> 0]
Row == [reply : ReplyJobs, rating : Ratings \cup {Unrated}, noted : BOOLEAN]

ASSUME SurveyAssumption ==
    /\ NoSurvey \notin ReplyJobs /\ NoSurvey \notin Row
    /\ Unrated \notin Ratings
    /\ LastCustomer \in Nat \ {0}

SurveyInit ==
    /\ status = "open" /\ customer = 1 /\ survey = NoSurvey /\ mailed = {}
    /\ envelope = [j \in ReplyJobs |-> Unbuilt]
    /\ sender = [p \in Senders |-> NoPass]
    /\ click = [c \in Clicks |-> NoClick]
---------------------------------------------------------------------------
(* Sending a reply.                                                          *)

\* the ticket is resolved, reopened and resolved again
Solve == /\ \/ status = "open" /\ status' = "solved"
            \/ status = "solved" /\ status' = "open"
         /\ UNCHANGED <<customer, survey, envelope, sender, mailed, click>>

\* the job row, the ticket's status and its customer are read together (OutboundRow);
\* a stored envelope is sent as it is, and needs no customer
ReadReply(p, j) ==
    /\ sender[p] = NoPass /\ status # "gone"
    /\ sender' = [sender EXCEPT ![p] =
          IF envelope[j] # Unbuilt THEN [NoPass EXCEPT !.reply = j, !.at = "send", !.links = envelope[j]]
          ELSE IF status = "solved" THEN [NoPass EXCEPT !.reply = j, !.at = "claim", !.customer = customer]
          ELSE [NoPass EXCEPT !.reply = j, !.at = "save"]]
    /\ UNCHANGED <<status, customer, survey, envelope, mailed, click>>

Unanswered(j) == [reply |-> j, rating |-> Unrated, noted |-> FALSE]

MClaimBlind(p) ==
    /\ sender[p].at = "claim" /\ status # "gone"
    /\ survey' = Unanswered(sender[p].reply)
    /\ sender' = [sender EXCEPT ![p].at = "save", ![p].customer = 0, ![p].links = sender[p].customer]
    /\ UNCHANGED <<status, customer, envelope, mailed, click>>

\* claimSurvey: INSERT ... ON CONFLICT DO NOTHING on the unique ticket; without
\* the ticket or the customer it read, a foreign key refuses it and the pass ends
ClaimSurvey(p) ==
    /\ sender[p].at = "claim" /\ status # "gone"
    /\ IF survey # NoSurvey
       THEN sender' = [sender EXCEPT ![p].at = "save", ![p].customer = 0] /\ UNCHANGED survey
       ELSE /\ sender[p].customer = customer
            /\ survey' = Unanswered(sender[p].reply)
            /\ sender' = [sender EXCEPT ![p].at = "save", ![p].customer = 0, ![p].links = customer]
    /\ UNCHANGED <<status, customer, envelope, mailed, click>>

\* UPDATE outbound_mail_jobs SET envelope: unconditional (no row is left of a
\* deleted ticket's job, and nobody reads it again)
SaveEnvelope(p) ==
    /\ sender[p].at = "save"
    /\ envelope' = [envelope EXCEPT ![sender[p].reply] = sender[p].links]
    /\ sender' = [sender EXCEPT ![p].at = "send"]
    /\ UNCHANGED <<status, customer, survey, mailed, click>>

\* the provider gets the envelope this pass built or read
SendReply(p) ==
    /\ sender[p].at = "send"
    /\ mailed' = IF sender[p].links = Plain THEN mailed
                 ELSE mailed \cup {<<sender[p].reply, sender[p].links>>}
    /\ sender' = [sender EXCEPT ![p] = NoPass]
    /\ UNCHANGED <<status, customer, survey, envelope, click>>

PassEnds(p) == /\ sender[p] # NoPass
               /\ sender' = [sender EXCEPT ![p] = NoPass]
               /\ UNCHANGED <<status, customer, survey, envelope, mailed, click>>

\* mergeCustomers with the ticket's customer as the one that goes: the ticket is
\* moved first, then the row goes with the customer (ON DELETE CASCADE)
MergeSurveyed ==
    /\ status # "gone" /\ customer < LastCustomer
    /\ customer' = customer + 1
    /\ survey' = NoSurvey
    /\ UNCHANGED <<status, envelope, sender, mailed, click>>
---------------------------------------------------------------------------
(* Answering it.  A link carries one rating, signed (verifyCsatToken), and   *)
(* exists once a reply with links left.                                      *)

\* POST /:token: one UPDATE whose predicate makes the link single use
ClaimRating(c, r) ==
    /\ click[c].at = "closed" /\ mailed # {}
    /\ IF survey # NoSurvey /\ survey.rating = Unrated
       THEN /\ survey' = [survey EXCEPT !.rating = r]
            /\ click' = [click EXCEPT ![c] = [@ EXCEPT !.at = "shown", !.rating = r, !.told = r,
                                                      !.owner = customer]]
       ELSE /\ click' = [click EXCEPT ![c].at = "late", ![c].rating = r]
            /\ UNCHANGED survey
    /\ UNCHANGED <<status, customer, envelope, sender, mailed>>

\* already rated: answer with the score on file, which after a merge may be none;
\* no row: "unavailable"
ReadRating(c) ==
    /\ click[c].at = "late"
    /\ click' = IF survey = NoSurvey THEN [click EXCEPT ![c].at = "unavailable"]
                ELSE IF survey.rating = Unrated THEN [click EXCEPT ![c].at = "shown"]
                ELSE [click EXCEPT ![c].at = "shown", ![c].told = survey.rating,
                                   ![c].owner = customer]
    /\ UNCHANGED <<status, customer, survey, envelope, sender, mailed>>

\* POST /:token/comment: only where the link's rating is the recorded one
Comment(c) ==
    /\ click[c].at \in {"shown", "failed"} /\ click[c].note = 0
    /\ IF survey # NoSurvey /\ survey.rating = click[c].rating
       THEN /\ survey' = [survey EXCEPT !.noted = TRUE]
            /\ click' = [click EXCEPT ![c].at = "shown", ![c].note = customer]
       ELSE click' = [click EXCEPT ![c].at = "failed"] /\ UNCHANGED survey
    /\ UNCHANGED <<status, customer, envelope, sender, mailed>>

\* eraseTicket, for retention, an erasure or by hand: the row goes with the ticket
DeleteSurveyed ==
    /\ status # "gone" /\ status' = "gone"
    /\ survey' = NoSurvey
    /\ UNCHANGED <<customer, envelope, sender, mailed, click>>
---------------------------------------------------------------------------
SurveyNext ==
    \/ Solve
    \/ DeleteSurveyed
    \/ MergeSurveyed
    \/ \E p \in Senders : ClaimSurvey(p) \/ SaveEnvelope(p) \/ SendReply(p) \/ PassEnds(p)
    \/ \E p \in Senders, j \in ReplyJobs : ReadReply(p, j)
    \/ \E c \in Clicks : ReadRating(c) \/ Comment(c)
    \/ \E c \in Clicks, r \in Ratings : ClaimRating(c, r)

SurveySpec == SurveyInit /\ [][SurveyNext]_surveyVars
---------------------------------------------------------------------------
(* Rows and requests have their types.                                       *)
SurveyTypeOK ==
    /\ status \in {"open", "solved", "gone"} /\ customer \in Surveyed
    /\ survey \in Row \cup {NoSurvey} /\ mailed \subseteq ReplyJobs \X Surveyed
    /\ envelope \in [ReplyJobs -> Surveyed \cup {Plain, Unbuilt}]
    /\ sender \in [Senders -> [reply : ReplyJobs \cup {NoSurvey}, customer : Surveyed \cup {0},
                            links : Surveyed \cup {Plain}, at : {"idle", "claim", "save", "send"}]]
    /\ click \in [Clicks -> [at : {"closed", "late", "shown", "failed", "unavailable"},
                             rating : Ratings \cup {Unrated}, told : Ratings \cup {Unrated},
                             owner : Surveyed \cup {0}, note : Surveyed \cup {0}]]

(* Each customer a ticket has had is surveyed about it in one reply at most, *)
(* however often it is resolved again and however passes over one reply      *)
(* overlap, die or work with a customer who has been merged away meanwhile   *)
(* (service.ts:77-78; a merge forgets whom it surveyed, see NeverTwice).     *)
SurveyedOnce == \A m, n \in mailed : m[2] = n[2] => m[1] = n[1]

(* Every page that shows a score of one customer's survey shows the same     *)
(* one, the one on file while that survey exists; and a note on it was taken *)
(* only by a page opened for that score (routes.ts:37-38: two simultaneous   *)
(* clicks cannot both win; routes.ts:62: confirm the score actually          *)
(* recorded).                                                                *)
OneAnswer ==
    /\ \A c, d \in Clicks :
          (click[c].owner # 0 /\ click[c].owner = click[d].owner) => click[c].told = click[d].told
    /\ \A c \in Clicks :
          /\ survey # NoSurvey /\ click[c].owner = customer => survey.rating = click[c].told
          /\ click[c].note # 0 /\ click[c].note = click[c].owner => click[c].rating = click[c].told

(* One survey of a customer, and one answer to it, on rows of their types.   *)
OneSurvey == SurveyTypeOK /\ SurveyedOnce /\ OneAnswer

(* What service.ts:77-78 says: a ticket that is resolved, reopened and       *)
(* resolved again does not survey the customer twice.  It does not hold: a   *)
(* merge takes the row that remembers, and the next reply surveys whoever    *)
(* has the ticket now.                                                       *)
NeverTwice == \A m, n \in mailed : m[1] = n[1]
=============================================================================
