------------------------ MODULE CustomerErasureProofs ------------------------
(***************************************************************************)
(* Proofs about the two parts of MCErasure: about CustomerErasure for      *)
(* every set of customers, addresses, mails, tickets and passes and every  *)
(* number of requests and attempts, and about Surveys, at the end, for     *)
(* every set of replies, invocations and clicks and every bound on merges. *)
(***************************************************************************)
EXTENDS CustomerErasure, Surveys, TLAPS

USE ErasureAssumption

(***************************************************************************)
(* The inductive invariant.  That a completed task left nothing waiting is *)
(* known in three places before the task says so: a pass that has deleted  *)
(* the customer, the customer's absence, and the addresses a pass has      *)
(* still to stop.                                                          *)
(***************************************************************************)
MailRow == [status : {"staged", "processing", "completed", "failed"},
            reason : {"none", "customer_erased", "inbound_processing_failed"},
            message : Tickets \cup {NoTicket}, raw : BOOLEAN, gen : 0 .. 1]

WorkerRow == [pc : {"idle", "staging", "lookup", "create", "find", "write", "close"},
              customer : Customers \cup {Nobody}, ticket : Tickets \cup {NoTicket}]

PassRow == [pc : {"idle", "customer", "ticket", "stop", "delete", "addresses", "finish"},
            gen : 0 .. MaxRequests, todo : SUBSET Tickets, full : BOOLEAN,
            current : Tickets \cup {NoTicket}, mails : SUBSET Mails,
            addresses : SUBSET (HomeAddresses \cup {Email})]

LocalTypes ==
  /\ worker \in [Mails -> WorkerRow]
  /\ \A m \in Mails : worker[m].pc = "write" => worker[m].ticket \in Tickets
  /\ \A m \in Mails : worker[m].pc = "staging" => mail[m].status /= "completed"
  /\ pass \in [Passes -> PassRow]
  /\ merge \in [pc : {"idle", "checked", "done"}, from : Customers \cup {Nobody},
                to : Customers \cup {Nobody}]
  /\ merge.pc = "checked" => merge.from /= merge.to

\* A mail nothing is left to do for, unless an erasure has spared it.
Ended(m) == mail[m].status = "completed" \/ mail[m].reason /= "none"

Settled(m) == m \in spared \/ (Ended(m) /\ ~InProcess(m))

\* Nothing is left to do for the mail from address a that no one retried.
Quiet(a) ==
  \A m \in Mails : Sender[m] = a /\ mail[m].gen = 0 => Settled(m)

Unmerged == merge.pc /= "done"

\* While the customer is there, so are the addresses they came with.
HomesKept ==
  Unmerged /\ Subject \in person =>
    \A a \in HomeAddresses : HomeOf[a] = Subject => holder[a] = Subject

\* A pass that has read the addresses stops the mail of each before the profile goes.
AddressesRead ==
  Unmerged => \A p \in Passes : pass[p].pc = "addresses" =>
    \A a \in HomeAddresses : HomeOf[a] = Subject => a \in pass[p].addresses \/ Quiet(a)

\* Without the customer nothing of theirs waits, and a pass that ends without
\* another page to come has seen the customer go.
GoneQuiet ==
  Unmerged /\ Subject \notin person =>
    \A a \in HomeAddresses : HomeOf[a] = Subject => Quiet(a)

FinishedGone ==
  \A p \in Passes : pass[p].pc = "finish" /\ ~pass[p].full => Subject \notin person

CompletedGone == task.status = "completed" => Subject \notin person

ErasureInv ==
  /\ ErasureTypeOK /\ LocalTypes
  /\ HomesKept /\ AddressesRead /\ GoneQuiet
  /\ FinishedGone /\ CompletedGone

(***************************************************************************)
(* Rows.                                                                   *)
(***************************************************************************)
LEMMA Names == {Subject, Other} \subseteq Customers /\ Fresh \subseteq Customers
  BY DEF Customers

LEMMA IdleRows == IdleWorker \in WorkerRow /\ IdlePass \in PassRow
  BY DEF IdleWorker, WorkerRow, IdlePass, PassRow

LEMMA InitTypes == ErasureInit => ErasureTypeOK /\ LocalTypes
<1> SUFFICES ASSUME ErasureInit PROVE ErasureTypeOK /\ LocalTypes
  OBVIOUS
<1>1. person \subseteq Customers /\ person = {Subject, Other}
  BY Names DEF ErasureInit
<1>2. holder \in [HomeAddresses -> person \cup {Nobody}]
  BY <1>1 DEF ErasureInit
<1>3. ticket \in [Tickets -> person \cup {"unused", "gone"}]
  <2> SUFFICES ASSUME NEW t \in Tickets
               PROVE  (IF \E m \in Mails : Filed[m] = t THEN HomeOf[Sender[
                         CHOOSE m \in Mails : Filed[m] = t]] ELSE "unused")
                      \in person \cup {"unused", "gone"}
    BY DEF ErasureInit
  <2>1. CASE \E m \in Mails : Filed[m] = t
    <3>1. (CHOOSE m \in Mails : Filed[m] = t) \in Mails
      BY <2>1
    <3>2. HomeOf[Sender[CHOOSE m \in Mails : Filed[m] = t]] \in {Subject, Other}
      BY <3>1
    <3> QED BY <1>1, <2>1, <3>2
  <2>2. CASE ~\E m \in Mails : Filed[m] = t
    BY <2>2
  <2> QED BY <2>1, <2>2
<1>4. mail \in [Mails -> MailRow]
  BY DEF ErasureInit, MailRow
<1>5. task \in [status : {"none", "pending", "completed", "failed"}, gen : 0 .. MaxRequests,
               attempts : 0 .. MaxAttempts, leased : BOOLEAN]
  BY DEF ErasureInit
<1>6. /\ worker \in [Mails -> WorkerRow]
      /\ \A m \in Mails : worker[m].pc /= "write"
      /\ \A m \in Mails : worker[m].pc = "staging" => mail[m].status /= "completed"
  <2> DEFINE w == [IdleWorker EXCEPT !.pc = "staging"]
  <2>1. w \in WorkerRow /\ w.pc = "staging" /\ IdleWorker.pc = "idle"
    BY DEF IdleWorker, WorkerRow
  <2>2. worker = [m \in Mails |-> IF Filed[m] = NoTicket THEN w ELSE IdleWorker]
    BY DEF ErasureInit
  <2>3. \A m \in Mails : Filed[m] = NoTicket => mail[m].status = "processing"
    BY DEF ErasureInit
  <2> HIDE DEF w
  <2> QED BY <2>1, <2>2, <2>3, IdleRows
<1>9. spared \subseteq Mails
  BY DEF ErasureInit
<1>7. pass \in [Passes -> PassRow]
  BY IdleRows DEF ErasureInit
<1>8. /\ merge \in [pc : {"idle", "checked", "done"}, from : Customers \cup {Nobody},
                    to : Customers \cup {Nobody}]
      /\ merge.pc = "idle"
  BY DEF ErasureInit, NoMerge
<1> QED BY <1>1, <1>2, <1>3, <1>4, <1>5, <1>6, <1>7, <1>8, <1>9 DEF ErasureTypeOK, LocalTypes, MailRow

LEMMA InvInit == ErasureInit => ErasureInv
<1> SUFFICES ASSUME ErasureInit PROVE ErasureInv
  OBVIOUS
<1>1. \A p \in Passes : pass[p].pc = "idle"
  BY DEF ErasureInit, IdlePass
<1>2. Subject \in person /\ holder = HomeOf /\ task.status = "none"
  BY DEF ErasureInit
<1>3. HomesKept /\ AddressesRead /\ GoneQuiet /\ FinishedGone /\ CompletedGone
  BY <1>1, <1>2 DEF HomesKept, AddressesRead, GoneQuiet, FinishedGone, CompletedGone
<1> QED BY <1>3, InitTypes DEF ErasureInv

(***************************************************************************)
(* Passes.                                                                 *)
(***************************************************************************)
LEMMA PutPass ==
  ASSUME pass \in [Passes -> PassRow], NEW p \in Passes, NEW r \in PassRow,
         pass' = [pass EXCEPT ![p] = r]
  PROVE  /\ pass' \in [Passes -> PassRow]
         /\ pass'[p] = r
         /\ \A q \in Passes : q /= p => pass'[q] = pass[q]
  OBVIOUS

\* What a step of pass p leaves of the passes: the others are as they were; p
\* comes to the addresses by reading or stopping some, and to its end either
\* with more to do or with the customer gone.
PassLeft(p) ==
  /\ pass' \in [Passes -> PassRow]
  /\ \A q \in Passes : q /= p => pass'[q] = pass[q]
  /\ pass'[p].pc = "addresses" =>
       \/ ReadAddresses(p) /\ pass'[p].addresses = {Email} \cup HeldBy(Subject)
       \/ /\ pass[p].pc = "addresses"
          /\ \E a \in HomeAddresses :
               StopAddress(p, a) /\ pass'[p].addresses = pass[p].addresses \ {a}
  /\ pass'[p].pc = "finish" /\ ~pass'[p].full => Subject \notin person \/ DeleteCustomer(p)

LEMMA IdleLeft ==
  ASSUME pass \in [Passes -> PassRow], NEW p \in Passes, pass' = [pass EXCEPT ![p] = IdlePass]
  PROVE  PassLeft(p)
<1>1. IdlePass.pc = "idle"
  BY DEF IdlePass
<1> QED BY <1>1, IdleRows, PutPass DEF PassLeft

\* A step to a place that is neither among the addresses nor the end.
LEMMA ElsewhereLeft ==
  ASSUME pass \in [Passes -> PassRow], NEW p \in Passes, NEW r \in PassRow,
         pass' = [pass EXCEPT ![p] = r], r.pc \notin {"addresses", "finish"}
  PROVE  PassLeft(p)
  BY PutPass DEF PassLeft

LEMMA PassEffect ==
  ASSUME ErasureTypeOK, LocalTypes, NEW p \in Passes, PassStep(p), FinishedGone
  PROVE  PassLeft(p)
<1>0. pass \in [Passes -> PassRow] /\ pass[p] \in PassRow
  BY DEF LocalTypes
<1>1. CASE ClaimTask(p)
  <2> DEFINE r == [IdlePass EXCEPT !.pc = "customer", !.gen = task.gen]
  <2>1. task.gen \in 0 .. MaxRequests
    BY DEF ErasureTypeOK
  <2>2. r \in PassRow /\ r.pc = "customer"
    BY <2>1 DEF IdlePass, PassRow
  <2>3. pass' = [pass EXCEPT ![p] = r]
    BY <1>1 DEF ClaimTask
  <2> HIDE DEF r
  <2> QED BY <1>0, <2>2, <2>3, ElsewhereLeft
<1>2. ASSUME NEW page \in SUBSET Tickets, SelectTickets(p, page) PROVE PassLeft(p)
  <2>1. CASE Subject \notin person
    <3> DEFINE r == [pass[p] EXCEPT !.pc = "finish"]
    <3>1. r \in PassRow /\ r.pc = "finish"
      BY <1>0 DEF PassRow
    <3>2. pass' = [pass EXCEPT ![p] = r]
      BY <1>2, <2>1 DEF SelectTickets, Step
    <3> HIDE DEF r
    <3> QED BY <1>0, <2>1, <3>1, <3>2, PutPass DEF PassLeft
  <2>2. CASE Subject \in person
    <3> DEFINE full == Cardinality(page) = PageSize
               r == [pass[p] EXCEPT !.pc = "ticket", !.todo = page, !.full = full]
    <3>1. full \in BOOLEAN
      OBVIOUS
    <3>3. pass' = [pass EXCEPT ![p] = r]
      BY <1>2, <2>2 DEF SelectTickets
    <3> HIDE DEF full
    <3>2. r \in PassRow /\ r.pc = "ticket"
      BY <1>0, <3>1 DEF PassRow
    <3> HIDE DEF r
    <3> QED BY <1>0, <3>2, <3>3, ElsewhereLeft
  <2> QED BY <2>1, <2>2
<1>3. ASSUME NEW t \in Tickets, DeleteOneTicket(p, t) PROVE PassLeft(p)
  <2> DEFINE todo == {t}
             r == [IdlePass EXCEPT !.pc = "ticket", !.todo = todo]
  <2>0. todo \in SUBSET Tickets
    OBVIOUS
  <2>2. pass' = [pass EXCEPT ![p] = r]
    BY <1>3 DEF DeleteOneTicket
  <2> HIDE DEF todo
  <2>1. r \in PassRow /\ r.pc = "ticket"
    BY <2>0, IdleRows DEF PassRow
  <2> HIDE DEF r
  <2> QED BY <1>0, <2>1, <2>2, ElsewhereLeft
<1>4. ASSUME NEW t \in Tickets, ReadMessages(p, t) PROVE PassLeft(p)
  <2>1. CASE Lives(t)
    <3> DEFINE ms == {m \in Mails : mail[m].message = t}
               r == [pass[p] EXCEPT !.pc = "stop", !.current = t, !.mails = ms]
    <3>1. ms \in SUBSET Mails
      OBVIOUS
    <3>2. pass' = [pass EXCEPT ![p] = r]
      BY <1>4, <2>1 DEF ReadMessages
    <3> HIDE DEF ms
    <3>3. r \in PassRow /\ r.pc = "stop"
      BY <1>0, <3>1 DEF PassRow
    <3> HIDE DEF r
    <3> QED BY <1>0, <3>2, <3>3, ElsewhereLeft
  <2>2. CASE ~Lives(t)
    <3> DEFINE r == [pass[p] EXCEPT !.todo = pass[p].todo \ {t}]
    <3>1. pass' = [pass EXCEPT ![p] = r]
      BY <1>4, <2>2 DEF ReadMessages
    <3>2. r \in PassRow /\ r.pc = "ticket"
      BY <1>0, <1>4 DEF PassRow, ReadMessages
    <3> HIDE DEF r
    <3> QED BY <1>0, <3>1, <3>2, ElsewhereLeft
  <2> QED BY <2>1, <2>2
<1>5. CASE StopMails(p)
  <2> DEFINE r == [pass[p] EXCEPT !.pc = "delete"]
  <2>1. r \in PassRow /\ r.pc = "delete"
    BY <1>0 DEF PassRow
  <2>2. pass' = [pass EXCEPT ![p] = r]
    BY <1>5 DEF StopMails, Step
  <2> HIDE DEF r
  <2> QED BY <1>0, <2>1, <2>2, ElsewhereLeft
<1>6. CASE DeleteTicket(p)
  <2> DEFINE r == [pass[p] EXCEPT !.pc = "ticket", !.todo = pass[p].todo \ {pass[p].current},
                                  !.current = NoTicket, !.mails = {}]
  <2>1. r \in PassRow /\ r.pc = "ticket"
    BY <1>0 DEF PassRow
  <2>2. pass' = [pass EXCEPT ![p] = r]
    BY <1>6 DEF DeleteTicket
  <2> HIDE DEF r
  <2> QED BY <1>0, <2>1, <2>2, ElsewhereLeft
<1>7. CASE ReadAddresses(p)
  <2> DEFINE read == IF pass[p].full THEN {} ELSE {Email} \cup HeldBy(Subject)
             pc == IF pass[p].full THEN "finish" ELSE "addresses"
             r == [pass[p] EXCEPT !.pc = pc, !.addresses = read]
  <2>1. read \in SUBSET (HomeAddresses \cup {Email}) /\ pc \in {"finish", "addresses"}
    BY DEF HeldBy
  <2>2. pass' = [pass EXCEPT ![p] = r]
    BY <1>7 DEF ReadAddresses
  <2>3. pc = "finish" => pass[p].full
    OBVIOUS
  <2>4. pc = "addresses" => read = {Email} \cup HeldBy(Subject)
    OBVIOUS
  <2> HIDE DEF read, pc
  <2>5. /\ r \in PassRow
        /\ r.pc = pc /\ r.addresses = read /\ (r.full <=> pass[p].full)
    BY <1>0, <2>1 DEF PassRow
  <2> HIDE DEF r
  <2>6. pass' \in [Passes -> PassRow] /\ pass'[p] = r /\ \A q \in Passes : q /= p => pass'[q] = pass[q]
    BY <1>0, <2>2, <2>5, PutPass
  <2> QED BY <1>7, <2>3, <2>4, <2>5, <2>6 DEF PassLeft
<1>8. CASE TicketDeleted(p) \/ FinishPass(p) \/ PassFails(p) \/ PassDies(p)
  <2>1. pass' = [pass EXCEPT ![p] = IdlePass]
    BY <1>8 DEF TicketDeleted, FinishPass, PassFails, PassDies
  <2> QED BY <1>0, <2>1, IdleLeft
<1>9. ASSUME NEW a \in HomeAddresses, StopAddress(p, a) PROVE PassLeft(p)
  <2> DEFINE r == [pass[p] EXCEPT !.addresses = pass[p].addresses \ {a}]
  <2>1. pass[p].pc = "addresses" /\ pass' = [pass EXCEPT ![p] = r]
    BY <1>9 DEF StopAddress
  <2>2. r \in PassRow /\ r.pc = "addresses" /\ r.addresses = pass[p].addresses \ {a}
    BY <1>0, <2>1 DEF PassRow
  <2> HIDE DEF r
  <2>3. pass' \in [Passes -> PassRow] /\ pass'[p] = r /\ \A q \in Passes : q /= p => pass'[q] = pass[q]
    BY <1>0, <2>1, <2>2, PutPass
  <2> QED BY <1>9, <2>1, <2>2, <2>3 DEF PassLeft
<1>10. CASE DeleteCustomer(p)
  <2> DEFINE r == [pass[p] EXCEPT !.pc = "finish"]
  <2>1. r \in PassRow /\ r.pc = "finish"
    BY <1>0 DEF PassRow
  <2>2. pass' = [pass EXCEPT ![p] = r]
    BY <1>10 DEF DeleteCustomer, Step
  <2> HIDE DEF r
  <2> QED BY <1>0, <1>10, <2>1, <2>2, PutPass DEF PassLeft
<1> QED BY <1>1, <1>2, <1>3, <1>4, <1>5, <1>6, <1>7, <1>8, <1>9, <1>10 DEF PassStep

(***************************************************************************)
(* Mail and its workers.                                                   *)
(***************************************************************************)
\* What a step leaves of mail m: none is set going again except at a retry, and
\* only the first invocation, at a mail not yet through, stages it.
RowKept(m) ==
  /\ mail'[m].gen = 0 => mail[m].gen = 0 /\ (Settled(m) => Settled(m)')
  /\ worker'[m].pc = "staging" => mail'[m].status /= "completed"

MailKept ==
  /\ mail' \in [Mails -> MailRow]
  /\ spared' \subseteq Mails
  /\ \A m \in Mails : RowKept(m)

\* The invocation of mail m: its locals stay typed, and a ticket is chosen before
\* anything is written.
WorkerKept ==
  /\ worker' \in [Mails -> WorkerRow]
  /\ \A m \in Mails : worker'[m].pc = "write" => worker'[m].ticket \in Tickets

\* A mail stays settled when its row stays ended and nobody takes it up.
LEMMA EndedKept ==
  ASSUME LocalTypes, NEW m \in Mails,
         mail'[m].gen = mail[m].gen, spared \subseteq spared',
         Ended(m) => Ended(m)', worker'[m] = worker[m],
         mail'[m].status = "completed" => mail[m].status = "completed"
  PROVE  RowKept(m)
  BY DEF RowKept, Settled, InProcess, LocalTypes

LEMMA SameRows ==
  ASSUME ErasureTypeOK, LocalTypes, UNCHANGED <<mail, worker, spared>>
  PROVE  MailKept /\ WorkerKept
<1>1. /\ mail \in [Mails -> MailRow] /\ spared \subseteq Mails /\ WorkerKept
  BY DEF ErasureTypeOK, MailRow, LocalTypes, WorkerKept
<1>2. \A m \in Mails : RowKept(m)
  BY EndedKept DEF Ended
<1> QED BY <1>1, <1>2 DEF MailKept

\* The row and the invocation of one mail, after a step of its own.
LEMMA PutMail ==
  ASSUME ErasureTypeOK, LocalTypes, NEW m \in Mails, NEW r \in MailRow, NEW w \in WorkerRow,
         mail' = [mail EXCEPT ![m] = r], worker' = [worker EXCEPT ![m] = w], spared' = spared,
         r.gen = 0 => mail[m].gen = 0,
         r.gen = 0 /\ Settled(m) =>
           m \in spared \/ /\ r.status = "completed" \/ r.reason /= "none"
                           /\ w.pc \in {"idle", "staging"},
         w.pc = "staging" => r.status /= "completed",
         w.pc = "write" => w.ticket \in Tickets
  PROVE  MailKept /\ WorkerKept
<1>0. mail \in [Mails -> MailRow] /\ worker \in [Mails -> WorkerRow] /\ spared \subseteq Mails
  BY DEF ErasureTypeOK, MailRow, LocalTypes
<1>1. mail'[m] = r /\ worker'[m] = w
  BY <1>0
<1>2. RowKept(m)
  BY <1>1 DEF RowKept, Settled, Ended, InProcess
<1>3. ASSUME NEW n \in Mails, n /= m
      PROVE  RowKept(n) /\ (worker'[n].pc = "write" => worker'[n].ticket \in Tickets)
  <2>1. mail'[n] = mail[n] /\ worker'[n] = worker[n]
    BY <1>0, <1>3
  <2> QED BY <2>1, EndedKept DEF Ended, LocalTypes
<1>4. mail' \in [Mails -> MailRow] /\ worker' \in [Mails -> WorkerRow]
  BY <1>0
<1> QED BY <1>0, <1>1, <1>2, <1>3, <1>4 DEF MailKept, WorkerKept

LEMMA ErasedMail ==
  ASSUME ErasureTypeOK, LocalTypes, NEW ms, mail' = Erased(ms), worker' = worker,
         spared \subseteq spared', spared' \subseteq Mails
  PROVE  MailKept
<1>0. mail \in [Mails -> MailRow]
  BY DEF ErasureTypeOK, MailRow
<1>1. ASSUME NEW m \in Mails
      PROVE  /\ mail'[m] \in MailRow
             /\ mail'[m].gen = mail[m].gen /\ (Ended(m) => Ended(m)')
             /\ mail'[m].status = "completed" => mail[m].status = "completed"
  <2>1. mail[m] \in MailRow
    BY <1>0
  <2>2. CASE m \in ms
    <3>1. mail'[m] = [mail[m] EXCEPT !.status = "failed", !.reason = "customer_erased"]
      BY <2>2 DEF Erased
    <3> QED BY <2>1, <3>1 DEF MailRow, Ended
  <2>3. CASE m \notin ms
    <3>1. mail'[m] = mail[m]
      BY <2>3 DEF Erased
    <3> QED BY <2>1, <3>1 DEF Ended
  <2> QED BY <2>2, <2>3
<1>2. mail' = [m \in Mails |-> mail'[m]]
  BY DEF Erased
<1>3. \A m \in Mails : RowKept(m)
  BY <1>1, EndedKept
<1> QED BY <1>1, <1>2, <1>3 DEF MailKept

\* A ticket that goes takes its messages; the rows stay.
LEMMA UnfiledMail ==
  ASSUME ErasureTypeOK, LocalTypes, NEW t, worker' = worker, spared' = spared,
         mail' = [m \in Mails |-> IF mail[m].message = t
                                  THEN [mail[m] EXCEPT !.message = NoTicket] ELSE mail[m]]
  PROVE  /\ MailKept
         /\ \A m \in Mails : mail'[m].reason = mail[m].reason
<1>0. mail \in [Mails -> MailRow] /\ spared \subseteq Mails
  BY DEF ErasureTypeOK, MailRow
<1>1. ASSUME NEW m \in Mails
      PROVE  /\ mail'[m] \in MailRow
             /\ mail'[m].gen = mail[m].gen /\ mail'[m].status = mail[m].status
             /\ mail'[m].reason = mail[m].reason
  <2>1. mail[m] \in MailRow
    BY <1>0
  <2>2. mail'[m] = [mail[m] EXCEPT !.message = NoTicket] \/ mail'[m] = mail[m]
    OBVIOUS
  <2> QED BY <2>1, <2>2 DEF MailRow
<1>2. mail' = [m \in Mails |-> mail'[m]]
  OBVIOUS
<1>3. \A m \in Mails : RowKept(m)
  BY <1>1, EndedKept DEF Ended
<1> QED BY <1>0, <1>1, <1>2, <1>3 DEF MailKept

LEMMA MailStepKeeps ==
  ASSUME ErasureTypeOK, LocalTypes, NEW m \in Mails, MailStep(m)
  PROVE  MailKept /\ WorkerKept
<1>0. /\ mail \in [Mails -> MailRow] /\ mail[m] \in MailRow
      /\ worker \in [Mails -> WorkerRow] /\ worker[m] \in WorkerRow
      /\ holder \in [HomeAddresses -> person \cup {Nobody}]
      /\ person \subseteq Customers
      /\ IdleWorker \in WorkerRow /\ IdleWorker.pc = "idle"
      /\ mail = [mail EXCEPT ![m] = mail[m]] /\ worker = [worker EXCEPT ![m] = worker[m]]
  BY IdleRows DEF ErasureTypeOK, LocalTypes, MailRow, IdleWorker
<1>1. CASE ClaimMail(m)
  <2> DEFINE r == [mail[m] EXCEPT !.status = "processing"]
             w == [worker[m] EXCEPT !.pc = "lookup"]
  <2>1. r \in MailRow /\ r.status = "processing" /\ r.gen = mail[m].gen
    BY <1>0 DEF MailRow
  <2>2. w \in WorkerRow /\ w.pc = "lookup"
    BY <1>0 DEF WorkerRow
  <2>3. mail' = [mail EXCEPT ![m] = r] /\ worker' = [worker EXCEPT ![m] = w] /\ spared' = spared
    BY <1>1 DEF ClaimMail
  <2>4. Settled(m) => m \in spared
    BY <1>1 DEF ClaimMail, ClaimableMail, Settled, Ended
  <2> HIDE DEF r, w
  <2> QED BY <2>1, <2>2, <2>3, <2>4, PutMail
<1>2. CASE LookupSender(m)
  <2> DEFINE c == holder[Sender[m]]
             pc == IF c = Nobody THEN "create" ELSE "find"
             w == [worker[m] EXCEPT !.pc = pc, !.customer = c]
  <2>1. c \in Customers \cup {Nobody} /\ pc \in {"create", "find"}
    BY <1>0
  <2>2. worker' = [worker EXCEPT ![m] = w] /\ mail' = mail /\ spared' = spared
    BY <1>2 DEF LookupSender
  <2> HIDE DEF c, pc
  <2>3. w \in WorkerRow /\ w.pc = pc
    BY <1>0, <2>1 DEF WorkerRow
  <2>4. Settled(m) => m \in spared
    BY <1>2 DEF LookupSender, Settled, InProcess
  <2> HIDE DEF w
  <2> QED BY <1>0, <2>1, <2>2, <2>3, <2>4, PutMail
<1>3. ASSUME NEW c \in Fresh, CreateSender(m, c) PROVE MailKept /\ WorkerKept
  <2> DEFINE w == [worker[m] EXCEPT !.pc = "find", !.customer = c]
  <2>1. w \in WorkerRow /\ w.pc = "find"
    BY <1>0, Names DEF WorkerRow
  <2>2. worker' = [worker EXCEPT ![m] = w] /\ mail' = mail /\ spared' = spared
    BY <1>3 DEF CreateSender
  <2>4. Settled(m) => m \in spared
    BY <1>3 DEF CreateSender, Settled, InProcess
  <2> HIDE DEF w
  <2> QED BY <1>0, <2>1, <2>2, <2>4, PutMail
<1>4. ASSUME NEW t \in Tickets, FindTicket(m, t) PROVE MailKept /\ WorkerKept
  <2> DEFINE w == [worker[m] EXCEPT !.pc = "write", !.ticket = t]
  <2>1. w \in WorkerRow /\ w.pc = "write" /\ w.ticket = t
    BY <1>0 DEF WorkerRow
  <2>2. worker' = [worker EXCEPT ![m] = w] /\ mail' = mail /\ spared' = spared
    BY <1>4 DEF FindTicket
  <2>4. Settled(m) => m \in spared
    BY <1>4 DEF FindTicket, Settled, InProcess
  <2> HIDE DEF w
  <2> QED BY <1>0, <2>1, <2>2, <2>4, PutMail
<1>5. CASE WriteMail(m)
  <2> DEFINE w == [IdleWorker EXCEPT !.pc = "close"]
             r == [mail[m] EXCEPT !.message = worker[m].ticket]
  <2>1. w \in WorkerRow /\ w.pc = "close"
    BY DEF IdleWorker, WorkerRow
  <2>2. worker' = [worker EXCEPT ![m] = w] /\ spared' = spared
    BY <1>5 DEF WriteMail
  <2>3. worker[m].ticket \in Tickets
    BY <1>5 DEF WriteMail, LocalTypes
  <2>4. /\ r \in MailRow /\ r.gen = mail[m].gen
    BY <1>0, <2>3 DEF MailRow
  <2>5. mail' = mail \/ mail' = [mail EXCEPT ![m] = r]
    BY <1>5 DEF WriteMail
  <2>6. Settled(m) => m \in spared
    BY <1>5 DEF WriteMail, Settled, InProcess
  <2> HIDE DEF r, w
  <2> QED BY <1>0, <2>1, <2>2, <2>4, <2>5, <2>6, PutMail
<1>6. CASE CompleteMail(m)
  <2> DEFINE r == [mail[m] EXCEPT !.status = "completed", !.raw = FALSE]
  <2>1. r \in MailRow /\ r.status = "completed" /\ r.gen = mail[m].gen
    BY <1>0 DEF MailRow
  <2>2. mail' = [mail EXCEPT ![m] = r] /\ worker' = [worker EXCEPT ![m] = IdleWorker] /\ spared' = spared
    BY <1>6 DEF CompleteMail
  <2> HIDE DEF r
  <2> QED BY <1>0, <2>1, <2>2, PutMail
<1>7. ASSUME NEW terminal \in BOOLEAN, FailMail(m, terminal) PROVE MailKept /\ WorkerKept
  <2> DEFINE reason == IF terminal THEN "inbound_processing_failed" ELSE "none"
             r == [mail[m] EXCEPT !.status = "failed", !.reason = reason]
  <2>1. reason \in {"none", "inbound_processing_failed"}
    OBVIOUS
  <2>2. /\ mail' = mail \/ mail' = [mail EXCEPT ![m] = r]
        /\ worker' = [worker EXCEPT ![m] = IdleWorker] /\ spared' = spared
    BY <1>7 DEF FailMail
  <2> HIDE DEF reason
  <2>3. r \in MailRow /\ r.gen = mail[m].gen
    BY <1>0, <2>1 DEF MailRow
  <2> HIDE DEF r
  <2>4. Settled(m) => m \in spared
    BY <1>7 DEF FailMail, Settled
  <2> QED BY <1>0, <2>2, <2>3, <2>4, PutMail
<1>8. CASE MailDies(m)
  <2>1. worker' = [worker EXCEPT ![m] = IdleWorker] /\ mail' = mail /\ spared' = spared
    BY <1>8 DEF MailDies
  <2>2. Settled(m) => m \in spared \/ Ended(m)
    BY DEF Settled
  <2> QED BY <1>0, <2>1, <2>2, PutMail DEF Ended
<1>9. CASE RetryMail(m)
  <2> DEFINE r == [mail[m] EXCEPT !.status = "staged", !.reason = "none", !.gen = 1]
  <2>0. 1 \in 0 .. 1 /\ 1 /= 0
    OBVIOUS
  <2>1. r \in MailRow
    BY <1>0, <2>0 DEF MailRow
  <2>3. r.gen /= 0 /\ r.status = "staged"
    BY <1>0, <2>0 DEF MailRow
  <2>2. mail' = [mail EXCEPT ![m] = r] /\ worker' = worker /\ spared' = spared
    BY <1>9 DEF RetryMail
  <2> HIDE DEF r
  <2>4. worker[m].pc = "write" => worker[m].ticket \in Tickets
    BY DEF LocalTypes
  <2> QED BY <1>0, <2>1, <2>2, <2>3, <2>4, PutMail
<1>10. ASSUME NEW put \in BOOLEAN, StageMail(m) \/ StagingFails(m, put) PROVE MailKept /\ WorkerKept
  <2> DEFINE r(outcome, raw) == [mail[m] EXCEPT !.status = outcome, !.raw = raw]
  <2>1. \E outcome \in {"staged", "failed"}, raw \in BOOLEAN : mail' = [mail EXCEPT ![m] = r(outcome, raw)]
    BY <1>10 DEF StageMail, StagingFails
  <2>2. PICK outcome \in {"staged", "failed"}, raw \in BOOLEAN : mail' = [mail EXCEPT ![m] = r(outcome, raw)]
    BY <2>1
  <2>3. r(outcome, raw) \in MailRow /\ r(outcome, raw).gen = mail[m].gen
        /\ r(outcome, raw).reason = mail[m].reason
    BY <1>0 DEF MailRow
  <2>4. worker' = [worker EXCEPT ![m] = IdleWorker] /\ spared' = spared /\ mail[m].status /= "completed"
    BY <1>10 DEF StageMail, StagingFails, LocalTypes
  <2>5. Settled(m) => m \in spared \/ mail[m].reason /= "none"
    BY <2>4 DEF Settled, Ended
  <2> HIDE DEF r
  <2> QED BY <1>0, <2>2, <2>3, <2>4, <2>5, PutMail
<1>11. CASE RecoverMail(m)
  <2> DEFINE r == [mail[m] EXCEPT !.status = "failed"]
  <2>1. r \in MailRow /\ r.gen = mail[m].gen /\ r.reason = mail[m].reason
    BY <1>0 DEF MailRow
  <2>2. mail' = [mail EXCEPT ![m] = r] /\ worker' = worker /\ spared' = spared
        /\ mail[m].status = "processing" /\ worker[m].pc = "idle"
    BY <1>11 DEF RecoverMail
  <2>3. Settled(m) => m \in spared \/ mail[m].reason /= "none"
    BY <2>2 DEF Settled, Ended
  <2> HIDE DEF r
  <2> QED BY <1>0, <2>1, <2>2, <2>3, PutMail
<1>12. CASE ContinueMail(m)
  <2> DEFINE r == [mail[m] EXCEPT !.status = "staged"]
  <2>1. r \in MailRow /\ r.gen = mail[m].gen
    BY <1>0 DEF MailRow
  <2>2. mail' = [mail EXCEPT ![m] = r] /\ worker' = [worker EXCEPT ![m] = IdleWorker] /\ spared' = spared
    BY <1>12 DEF ContinueMail
  <2>3. Settled(m) => m \in spared
    BY <1>12 DEF ContinueMail, Settled, InProcess
  <2> HIDE DEF r
  <2> QED BY <1>0, <2>1, <2>2, <2>3, PutMail
<1> QED BY <1>1, <1>2, <1>3, <1>4, <1>5, <1>6, <1>7, <1>8, <1>9, <1>10, <1>11, <1>12 DEF MailStep

LEMMA PassMail ==
  ASSUME ErasureTypeOK, LocalTypes, NEW p \in Passes, PassStep(p), worker' = worker
  PROVE  MailKept
<1>0. spared \subseteq Mails
  BY DEF ErasureTypeOK
<1>1. CASE StopMails(p)
  BY <1>0, <1>1, ErasedMail DEF StopMails
<1>2. CASE DeleteTicket(p)
  BY <1>2, UnfiledMail DEF DeleteTicket
<1>3. ASSUME NEW a \in HomeAddresses, StopAddress(p, a) PROVE MailKept
  <2>1. spared \subseteq spared' /\ spared' \subseteq Mails
    BY <1>0, <1>3 DEF StopAddress
  <2> QED BY <1>3, <2>1, ErasedMail DEF StopAddress
<1>4. CASE UNCHANGED <<mail, spared>>
  BY <1>4, SameRows
<1> QED BY <1>1, <1>2, <1>3, <1>4 DEF PassStep, ClaimTask, SelectTickets, DeleteOneTicket,
     ReadMessages, ReadAddresses, TicketDeleted, DeleteCustomer, FinishPass, PassFails, PassDies

(***************************************************************************)
(* Customers, addresses and tickets.                                       *)
(***************************************************************************)
\* A holder is a customer or nobody, and a ticket's customer exists.
RowsHeld ==
  /\ person \subseteq Customers
  /\ holder \in [HomeAddresses -> person \cup {Nobody}]
  /\ ticket \in [Tickets -> person \cup {"unused", "gone"}]

\* Nobody comes back: the customer to erase is not among those mail creates.
Absent == Subject \notin person

LEMMA RowsStep ==
  ASSUME ErasureTypeOK, LocalTypes, ErasureNext
  PROVE  /\ RowsHeld'
         /\ Absent => Absent'
         /\ Absent' => \/ Absent
                       \/ \E p \in Passes : DeleteCustomer(p)
                       \/ merge'.pc = "done"
<1>0. RowsHeld /\ (merge.pc = "checked" => merge.from /= merge.to)
  BY DEF ErasureTypeOK, RowsHeld, LocalTypes
<1>1. CASE UNCHANGED <<person, holder, ticket>>
  BY <1>0, <1>1 DEF ErasureTypeOK, RowsHeld, Absent
<1>2. ASSUME NEW p \in Passes, DeleteTicket(p)
      PROVE  RowsHeld' /\ person' = person
  <2>1. UNCHANGED <<person, holder>> /\ ticket' = [ticket EXCEPT ![pass[p].current] = "gone"]
    BY <1>2 DEF DeleteTicket
  <2>2. ticket' \in [Tickets -> person \cup {"unused", "gone"}]
    BY <2>1 DEF ErasureTypeOK
  <2> QED BY <2>1, <2>2 DEF ErasureTypeOK, RowsHeld
<1>3. ASSUME NEW p \in Passes, DeleteCustomer(p)
      PROVE  RowsHeld' /\ Absent'
  <2>1. /\ person' = person \ {Subject} /\ ticket' = ticket
        /\ holder' = [a \in HomeAddresses |-> IF holder[a] = Subject THEN Nobody ELSE holder[a]]
        /\ TicketsOf(Subject) = {}
    BY <1>3 DEF DeleteCustomer
  <2>2. \A t \in Tickets : ticket[t] /= Subject
    BY <2>1 DEF TicketsOf
  <2> QED BY <2>1, <2>2 DEF ErasureTypeOK, RowsHeld, Absent
<1>4. ASSUME NEW m \in Mails, NEW c \in Fresh, CreateSender(m, c)
      PROVE  RowsHeld' /\ (Absent <=> Absent')
  <2>1. /\ person' = person \cup {c} /\ ticket' = ticket
        /\ holder' = [holder EXCEPT ![Sender[m]] = c]
    BY <1>4 DEF CreateSender
  <2>2. c \in Customers /\ c /= Subject
    BY Names
  <2>3. person' \subseteq Customers
    BY <2>1, <2>2 DEF ErasureTypeOK
  <2>4. holder' \in [HomeAddresses -> person' \cup {Nobody}]
    BY <2>1 DEF ErasureTypeOK
  <2>5. ticket' \in [Tickets -> person' \cup {"unused", "gone"}]
    BY <2>1 DEF ErasureTypeOK
  <2> QED BY <2>1, <2>2, <2>3, <2>4, <2>5 DEF RowsHeld, Absent
<1>5. ASSUME NEW m \in Mails, WriteMail(m)
      PROVE  RowsHeld' /\ person' = person
  <2>1. UNCHANGED <<person, holder>>
    BY <1>5 DEF WriteMail
  <2>2. CASE ticket' = ticket
    BY <2>1, <2>2 DEF ErasureTypeOK, RowsHeld
  <2>3. CASE ticket' /= ticket
    <3> DEFINE t == worker[m].ticket
               of == IF ticket[t] = "unused" THEN worker[m].customer ELSE ticket[t]
    <3>1. worker[m].customer \in person /\ ticket' = [ticket EXCEPT ![t] = of]
      BY <1>5, <2>3 DEF WriteMail
    <3>2. t \in Tickets
      BY <1>5 DEF WriteMail, LocalTypes
    <3>3. of \in person \cup {"unused", "gone"}
      BY <3>1, <3>2 DEF ErasureTypeOK
    <3> HIDE DEF of, t
    <3>4. ticket' \in [Tickets -> person \cup {"unused", "gone"}]
      BY <3>1, <3>2, <3>3 DEF ErasureTypeOK
    <3> QED BY <2>1, <3>4 DEF ErasureTypeOK, RowsHeld
  <2> QED BY <2>2, <2>3
<1>6. CASE ApplyMerge
  <2>1. CASE {merge.from, merge.to} \subseteq person
    <3> DEFINE moved(c) == IF c = merge.from THEN merge.to ELSE c
    <3>1. /\ person' = person \ {merge.from}
          /\ holder' = [a \in HomeAddresses |-> moved(holder[a])]
          /\ ticket' = [t \in Tickets |-> moved(ticket[t])]
          /\ merge' = [NoMerge EXCEPT !.pc = "done"]
      BY <1>6, <2>1 DEF ApplyMerge
    <3>2. merge.to \in person /\ merge.from /= merge.to
      BY <1>0, <1>6, <2>1 DEF ApplyMerge
    <3>3. \A c \in person : moved(c) \in person'
      BY <3>1, <3>2
    <3>4. merge.from \in Customers /\ moved(Nobody) = Nobody /\ moved("unused") = "unused"
          /\ moved("gone") = "gone"
      BY <2>1 DEF ErasureTypeOK
    <3> HIDE DEF moved
    <3>5. holder' \in [HomeAddresses -> person' \cup {Nobody}]
      BY <3>1, <3>3, <3>4 DEF ErasureTypeOK
    <3>6. ticket' \in [Tickets -> person' \cup {"unused", "gone"}]
      BY <3>1, <3>3, <3>4 DEF ErasureTypeOK
    <3>7. merge'.pc = "done"
      BY <3>1 DEF NoMerge
    <3> QED BY <3>1, <3>5, <3>6, <3>7 DEF ErasureTypeOK, RowsHeld, Absent
  <2>2. CASE ~({merge.from, merge.to} \subseteq person)
    BY <1>1, <1>6, <2>2 DEF ApplyMerge
  <2> QED BY <2>1, <2>2
<1>7. ASSUME NEW p \in Passes, PassStep(p), ~DeleteTicket(p), ~DeleteCustomer(p)
      PROVE  UNCHANGED <<person, holder, ticket>>
  BY <1>7 DEF PassStep, ClaimTask, SelectTickets, DeleteOneTicket, ReadMessages, StopMails,
     ReadAddresses, TicketDeleted, StopAddress, FinishPass, PassFails, PassDies
<1>8. ASSUME NEW m \in Mails, MailStep(m), ~WriteMail(m), ~\E c \in Fresh : CreateSender(m, c)
      PROVE  UNCHANGED <<person, holder, ticket>>
  BY <1>8 DEF MailStep, ClaimMail, LookupSender, CompleteMail, FindTicket, FailMail, MailDies,
     RetryMail, StageMail, StagingFails,
       RecoverMail, ContinueMail
<1>9. CASE RequestErasure \/ TaskLeaseExpires \/ FailSpentTask
           \/ \E pair \in Merges : CheckMerge(pair[1], pair[2])
  BY <1>1, <1>9 DEF RequestErasure, TaskLeaseExpires, FailSpentTask, CheckMerge
<1>10. ASSUME NEW p \in Passes, PassStep(p)
       PROVE  /\ RowsHeld' /\ (Absent => Absent')
              /\ Absent' => Absent \/ DeleteCustomer(p)
  <2>1. CASE DeleteTicket(p)
    BY <1>2, <2>1 DEF Absent
  <2>2. CASE DeleteCustomer(p)
    BY <1>3, <2>2
  <2>3. CASE ~DeleteTicket(p) /\ ~DeleteCustomer(p)
    <3>1. UNCHANGED <<person, holder, ticket>>
      BY <1>7, <1>10, <2>3
    <3> QED BY <3>1 DEF ErasureTypeOK, RowsHeld, Absent
  <2> QED BY <2>1, <2>2, <2>3
<1>11. ASSUME NEW m \in Mails, MailStep(m)
       PROVE  RowsHeld' /\ (Absent <=> Absent')
  <2>1. CASE WriteMail(m)
    BY <1>5, <2>1 DEF Absent
  <2>2. CASE \E c \in Fresh : CreateSender(m, c)
    BY <1>4, <2>2
  <2>3. CASE ~WriteMail(m) /\ ~\E c \in Fresh : CreateSender(m, c)
    <3>1. UNCHANGED <<person, holder, ticket>>
      BY <1>8, <1>11, <2>3
    <3> QED BY <3>1 DEF ErasureTypeOK, RowsHeld, Absent
  <2> QED BY <2>1, <2>2, <2>3
<1> QED BY <1>6, <1>9, <1>10, <1>11 DEF ErasureNext

\* The addresses the customer came with, while nothing took them away.
LEMMA HoldersStep ==
  ASSUME ErasureTypeOK, LocalTypes, ErasureNext, HomesKept
  PROVE  HomesKept'
<1>0. (Absent => Absent') /\ (merge.pc = "done" => merge' = merge)
  <2>1. merge.pc = "done" => merge' = merge
    BY ZenonT(60) DEF ErasureNext, RequestErasure, TaskLeaseExpires, FailSpentTask, CheckMerge, ApplyMerge,
       PassStep, ClaimTask, SelectTickets, DeleteOneTicket, ReadMessages, StopMails, DeleteTicket,
       ReadAddresses, TicketDeleted, StopAddress, DeleteCustomer, FinishPass, PassFails, PassDies,
       MailStep, ClaimMail, LookupSender, CreateSender, FindTicket, WriteMail, CompleteMail,
       FailMail, MailDies, RetryMail, StageMail, StagingFails,
       RecoverMail, ContinueMail
  <2> QED BY <2>1, RowsStep
<1> SUFFICES ASSUME Unmerged', ~Absent', NEW a \in HomeAddresses, HomeOf[a] = Subject
             PROVE  holder'[a] = Subject
  BY DEF HomesKept, Absent
<1>1. holder[a] = Subject /\ Unmerged
  BY <1>0 DEF HomesKept, Unmerged, Absent
<1>2. CASE holder' = holder
  BY <1>1, <1>2
<1>3. ASSUME NEW p \in Passes, DeleteCustomer(p) PROVE FALSE
  BY <1>3 DEF DeleteCustomer, Absent
<1>4. ASSUME NEW m \in Mails, NEW c \in Fresh, CreateSender(m, c) PROVE holder'[a] = Subject
  <2>1. holder[Sender[m]] = Nobody /\ holder' = [holder EXCEPT ![Sender[m]] = c]
    BY <1>4 DEF CreateSender
  <2>2. Subject /= Nobody
    BY Names
  <2> QED BY <1>1, <2>1, <2>2
<1>5. ASSUME ApplyMerge PROVE holder' = holder
  <2>1. CASE {merge.from, merge.to} \subseteq person
    <3>1. merge' = [NoMerge EXCEPT !.pc = "done"]
      BY <1>5, <2>1 DEF ApplyMerge
    <3> QED BY <3>1 DEF Unmerged, NoMerge
  <2>2. CASE ~({merge.from, merge.to} \subseteq person)
    BY <1>5, <2>2 DEF ApplyMerge
  <2> QED BY <2>1, <2>2
<1>6. CASE RequestErasure \/ TaskLeaseExpires \/ FailSpentTask
           \/ \E pair \in Merges : CheckMerge(pair[1], pair[2])
  BY <1>2, <1>6 DEF RequestErasure, TaskLeaseExpires, FailSpentTask, CheckMerge
<1>7. ASSUME NEW p \in Passes, PassStep(p) PROVE holder'[a] = Subject
  BY <1>2, <1>3, <1>7 DEF PassStep, ClaimTask, SelectTickets, DeleteOneTicket, ReadMessages,
     StopMails, DeleteTicket, ReadAddresses, TicketDeleted, StopAddress, FinishPass, PassFails,
     PassDies
<1>8. ASSUME NEW m \in Mails, MailStep(m) PROVE holder'[a] = Subject
  BY <1>2, <1>4, <1>8 DEF MailStep, ClaimMail, LookupSender, WriteMail, CompleteMail, FindTicket,
     FailMail, MailDies, RetryMail, StageMail, StagingFails,
       RecoverMail, ContinueMail
<1> QED BY <1>2, <1>5, <1>6, <1>7, <1>8 DEF ErasureNext

(***************************************************************************)
(* The request to merge and the task.                                      *)
(***************************************************************************)
LEMMA MergeStep ==
  ASSUME ErasureTypeOK, LocalTypes, ErasureNext
  PROVE  /\ merge' \in [pc : {"idle", "checked", "done"}, from : Customers \cup {Nobody},
                        to : Customers \cup {Nobody}]
         /\ merge'.pc = "checked" => merge'.from /= merge'.to
         /\ Unmerged' => Unmerged
<1>0. /\ merge \in [pc : {"idle", "checked", "done"}, from : Customers \cup {Nobody},
                    to : Customers \cup {Nobody}]
      /\ merge.pc = "checked" => merge.from /= merge.to
  BY DEF LocalTypes
<1>1. ASSUME NEW pair \in Merges, CheckMerge(pair[1], pair[2])
      PROVE  /\ merge' \in [pc : {"idle", "checked", "done"}, from : Customers \cup {Nobody},
                            to : Customers \cup {Nobody}]
             /\ merge'.from /= merge'.to
             /\ Unmerged
  BY <1>1 DEF CheckMerge, Unmerged
<1>2. ASSUME ApplyMerge
      PROVE  /\ merge' \in [pc : {"idle", "checked", "done"}, from : Customers \cup {Nobody},
                            to : Customers \cup {Nobody}]
             /\ merge'.pc /= "checked"
             /\ Unmerged
  BY <1>2 DEF ApplyMerge, NoMerge, Unmerged
<1>3. CASE merge' = merge
  BY <1>0, <1>3 DEF Unmerged
<1> QED BY <1>1, <1>2, <1>3, ZenonT(60) DEF ErasureNext, RequestErasure, TaskLeaseExpires, FailSpentTask,
     PassStep, ClaimTask, SelectTickets, DeleteOneTicket, ReadMessages, StopMails, DeleteTicket,
     ReadAddresses, TicketDeleted, StopAddress, DeleteCustomer, FinishPass, PassFails, PassDies,
     MailStep, ClaimMail, LookupSender, CreateSender, FindTicket, WriteMail, CompleteMail,
     FailMail, MailDies, RetryMail, StageMail, StagingFails,
       RecoverMail, ContinueMail

TaskRow == [status : {"none", "pending", "completed", "failed"}, gen : 0 .. MaxRequests,
            attempts : 0 .. MaxAttempts, leased : BOOLEAN]

LEMMA TaskStep ==
  ASSUME ErasureTypeOK, LocalTypes, ErasureNext, FinishedGone
  PROVE  /\ task' \in TaskRow
         /\ task'.status = "completed" => task.status = "completed" \/ Absent
<1>0. task \in TaskRow
  BY DEF ErasureTypeOK, TaskRow
<1>1. CASE task' = task
  BY <1>0, <1>1
<1>2. CASE RequestErasure
  <2>1. task.gen + 1 \in 0 .. MaxRequests /\ 0 \in 0 .. MaxAttempts
    BY <1>0, <1>2 DEF RequestErasure, TaskRow
  <2>2. task' = [status |-> "pending", gen |-> task.gen + 1, attempts |-> 0, leased |-> FALSE]
    BY <1>2 DEF RequestErasure
  <2> QED BY <2>1, <2>2 DEF TaskRow
<1>3. CASE TaskLeaseExpires
  BY <1>0, <1>3 DEF TaskLeaseExpires, TaskRow
<1>4. CASE FailSpentTask
  BY <1>0, <1>4 DEF FailSpentTask, TaskRow
<1>5. ASSUME NEW p \in Passes, ClaimTask(p)
      PROVE  task' \in TaskRow /\ task'.status = task.status
  <2>1. task.attempts + 1 \in 0 .. MaxAttempts
    BY <1>0, <1>5 DEF ClaimTask, TaskRow
  <2>2. task' = [task EXCEPT !.attempts = task.attempts + 1, !.leased = TRUE]
    BY <1>5 DEF ClaimTask
  <2> QED BY <1>0, <2>1, <2>2 DEF TaskRow
<1>6. ASSUME NEW p \in Passes, FinishPass(p)
      PROVE  task' \in TaskRow /\ (task'.status = "completed" => task.status = "completed" \/ Absent)
  <2> DEFINE outcome == IF pass[p].full THEN "pending" ELSE "completed"
  <2>1. outcome \in {"pending", "completed"} /\ 0 \in 0 .. MaxAttempts
    OBVIOUS
  <2>2. outcome = "completed" => Absent
    BY <1>6 DEF FinishPass, FinishedGone, Absent
  <2>3. \/ task' = [task EXCEPT !.status = outcome, !.attempts = 0, !.leased = FALSE]
        \/ task' = [task EXCEPT !.leased = FALSE]
    BY <1>6 DEF FinishPass
  <2> HIDE DEF outcome
  <2> QED BY <1>0, <2>1, <2>2, <2>3 DEF TaskRow
<1>7. ASSUME NEW p \in Passes, PassFails(p)
      PROVE  task' \in TaskRow /\ (task'.status = "completed" => task.status = "completed")
  <2> DEFINE outcome == IF task.attempts >= MaxAttempts THEN "failed" ELSE "pending"
  <2>1. outcome \in {"pending", "failed"}
    OBVIOUS
  <2>2. task' = [task EXCEPT !.leased = FALSE, !.status = outcome] \/ task' = task
    BY <1>7 DEF PassFails
  <2> HIDE DEF outcome
  <2> QED BY <1>0, <2>1, <2>2 DEF TaskRow
<1> QED BY <1>1, <1>2, <1>3, <1>4, <1>5, <1>6, <1>7 DEF ErasureNext, CheckMerge, ApplyMerge,
     PassStep, SelectTickets, DeleteOneTicket, ReadMessages, StopMails, DeleteTicket,
     ReadAddresses, TicketDeleted, StopAddress, DeleteCustomer, PassDies,
     MailStep, ClaimMail, LookupSender, CreateSender, FindTicket, WriteMail, CompleteMail,
     FailMail, MailDies, RetryMail, StageMail, StagingFails,
       RecoverMail, ContinueMail

(***************************************************************************)
(* One step.                                                               *)
(***************************************************************************)
\* Which rows an action leaves to the passes and to the mail.
LEMMA ActorFrame ==
  ASSUME ErasureTypeOK, LocalTypes, ErasureNext, FinishedGone
  PROVE  /\ MailKept /\ WorkerKept
         /\ pass' = pass \/ \E p \in Passes : PassStep(p) /\ PassLeft(p)
<1>0. worker' = worker => WorkerKept
  BY DEF LocalTypes, WorkerKept
<1>1. ASSUME NEW p \in Passes, PassStep(p)
      PROVE  MailKept /\ WorkerKept /\ PassLeft(p)
  <2>1. worker' = worker
    BY <1>1 DEF PassStep, ClaimTask, SelectTickets, DeleteOneTicket, ReadMessages, StopMails,
       DeleteTicket, ReadAddresses, TicketDeleted, StopAddress, DeleteCustomer, FinishPass,
       PassFails, PassDies
  <2> QED BY <1>0, <1>1, <2>1, PassMail, PassEffect
<1>2. ASSUME NEW m \in Mails, MailStep(m)
      PROVE  MailKept /\ WorkerKept /\ pass' = pass
  <2>1. pass' = pass
    BY <1>2 DEF MailStep, ClaimMail, LookupSender, CreateSender, FindTicket, WriteMail,
       CompleteMail, FailMail, MailDies, RetryMail, StageMail, StagingFails,
       RecoverMail, ContinueMail
  <2> QED BY <1>2, <2>1, MailStepKeeps
<1>3. CASE RequestErasure \/ TaskLeaseExpires \/ FailSpentTask \/ ApplyMerge
           \/ \E pair \in Merges : CheckMerge(pair[1], pair[2])
  <2>1. UNCHANGED <<mail, worker, pass, spared>>
    BY <1>3 DEF RequestErasure, TaskLeaseExpires, FailSpentTask, ApplyMerge, CheckMerge
  <2> QED BY <2>1, SameRows
<1> QED BY <1>1, <1>2, <1>3 DEF ErasureNext

\* Quiet stays quiet: a settled mail is set going again only at a retry, which
\* counts.
LEMMA QuietStays ==
  ASSUME MailKept, NEW a, Quiet(a)
  PROVE  Quiet(a)'
  BY DEF MailKept, RowKept, Quiet

\* A pass that stops an address leaves it quiet.
LEMMA StoppedIsQuiet ==
  ASSUME ErasureTypeOK, NEW p \in Passes, NEW a \in HomeAddresses, StopAddress(p, a),
         worker' = worker
  PROVE  Quiet(a)'
<1> SUFFICES ASSUME NEW m \in Mails, Sender[m] = a PROVE Settled(m)'
  BY DEF Quiet
<1> DEFINE ms == {n \in Mails : Sender[n] = a /\ mail[n].status \in {"staged", "processing"}}
<1>1. mail' = Erased(ms) /\ (AwaitsRetry(m) \/ InProcess(m) => m \in spared')
  BY DEF StopAddress
<1>2. mail[m] \in MailRow
  BY DEF ErasureTypeOK, MailRow
<1>3. m \notin ms => mail[m].status \in {"completed", "failed"}
  BY <1>2 DEF MailRow
<1> HIDE DEF ms
<1>4. ~InProcess(m) => ~InProcess(m)'
  BY DEF InProcess
<1>5. CASE m \in ms
  <2>1. mail'[m] = [mail[m] EXCEPT !.status = "failed", !.reason = "customer_erased"]
    BY <1>1, <1>5 DEF Erased
  <2>2. mail'[m].reason = "customer_erased"
    BY <1>2, <2>1 DEF MailRow
  <2> QED BY <1>1, <1>4, <2>2 DEF Settled, Ended
<1>6. CASE m \notin ms
  <2>1. mail'[m] = mail[m]
    BY <1>1, <1>6 DEF Erased
  <2> QED BY <1>1, <1>3, <1>4, <1>6, <2>1 DEF Settled, Ended, AwaitsRetry
<1> QED BY <1>5, <1>6

LEMMA InvNext ==
  ASSUME ErasureInv, ErasureNext
  PROVE  ErasureInv'
<1>0. ErasureTypeOK /\ LocalTypes /\ FinishedGone
  BY DEF ErasureInv
<1>1. /\ MailKept /\ WorkerKept
      /\ pass' = pass \/ \E p \in Passes : PassStep(p) /\ PassLeft(p)
  BY <1>0, ActorFrame
<1>2. /\ RowsHeld' /\ (Absent => Absent')
      /\ Absent' => Absent \/ (\E p \in Passes : DeleteCustomer(p)) \/ merge'.pc = "done"
  BY <1>0, RowsStep
<1>3. ErasureTypeOK' /\ LocalTypes'
  <2>1. task' \in TaskRow
    BY <1>0, TaskStep
  <2>2. pass' \in [Passes -> PassRow]
    BY <1>0, <1>1 DEF LocalTypes, PassLeft
  <2>3. /\ merge' \in [pc : {"idle", "checked", "done"}, from : Customers \cup {Nobody},
                       to : Customers \cup {Nobody}]
        /\ merge'.pc = "checked" => merge'.from /= merge'.to
    BY <1>0, MergeStep
  <2>4. ErasureTypeOK'
    BY <1>1, <1>2, <2>1 DEF ErasureTypeOK, RowsHeld, MailKept, MailRow, TaskRow
  <2>6. \A m \in Mails : worker'[m].pc = "staging" => mail'[m].status /= "completed"
    BY <1>1 DEF MailKept, RowKept
  <2>5. LocalTypes'
    BY <1>1, <2>2, <2>3, <2>6 DEF LocalTypes, WorkerKept
  <2> QED BY <2>4, <2>5
<1>4. HomesKept'
  BY <1>0, HoldersStep DEF ErasureInv
<1>5. Unmerged' => Unmerged
  BY <1>0, MergeStep
<1>6. GoneQuiet'
  <2> SUFFICES ASSUME Unmerged', Absent', NEW a \in HomeAddresses, HomeOf[a] = Subject
               PROVE  Quiet(a)'
    BY DEF GoneQuiet, Absent
  <2>1. CASE Absent
    BY <1>1, <1>5, <2>1, QuietStays DEF ErasureInv, GoneQuiet, Absent
  <2>2. CASE \E p \in Passes : DeleteCustomer(p)
    <3>1. Quiet(a)
      BY <1>5, <2>2 DEF DeleteCustomer, ErasureInv, AddressesRead
    <3> QED BY <1>1, <3>1, QuietStays
  <2> QED BY <1>2, <2>1, <2>2 DEF Unmerged
<1>7. AddressesRead'
  <2> SUFFICES ASSUME Unmerged', NEW p \in Passes, pass'[p].pc = "addresses",
                      NEW a \in HomeAddresses, HomeOf[a] = Subject
               PROVE  a \in pass'[p].addresses \/ Quiet(a)'
    BY DEF AddressesRead
  <2>1. ASSUME pass'[p] = pass[p] PROVE a \in pass'[p].addresses \/ Quiet(a)'
    BY <1>1, <1>5, <2>1, QuietStays DEF ErasureInv, AddressesRead
  <2>2. ASSUME pass'[p] /= pass[p] PROVE PassStep(p) /\ PassLeft(p)
    BY <1>1, <2>2 DEF PassLeft
  <2>3. ASSUME ReadAddresses(p), pass'[p].addresses = {Email} \cup HeldBy(Subject)
        PROVE  a \in pass'[p].addresses \/ Quiet(a)'
    <3>1. CASE Absent
      BY <1>1, <1>5, <3>1, QuietStays DEF ErasureInv, GoneQuiet, Absent
    <3>2. CASE ~Absent
      BY <1>5, <2>3, <3>2 DEF ErasureInv, HomesKept, HeldBy, Absent
    <3> QED BY <3>1, <3>2
  <2>4. ASSUME pass[p].pc = "addresses", NEW b \in HomeAddresses,
               StopAddress(p, b), pass'[p].addresses = pass[p].addresses \ {b}
        PROVE  a \in pass'[p].addresses \/ Quiet(a)'
    <3>1. CASE a = b
      BY <1>0, <2>4, <3>1, StoppedIsQuiet DEF StopAddress
    <3>2. CASE a /= b
      BY <1>1, <1>5, <2>4, <3>2, QuietStays DEF ErasureInv, AddressesRead
    <3> QED BY <3>1, <3>2
  <2> QED BY <2>1, <2>2, <2>3, <2>4 DEF PassLeft
<1>8. FinishedGone'
  <2> SUFFICES ASSUME NEW p \in Passes, pass'[p].pc = "finish", ~pass'[p].full PROVE Absent'
    BY DEF FinishedGone, Absent
  <2>1. CASE pass'[p] = pass[p]
    BY <1>0, <1>2, <2>1 DEF FinishedGone, Absent
  <2>2. CASE pass'[p] /= pass[p]
    <3>1. PassLeft(p)
      BY <1>1, <2>2 DEF PassLeft
    <3>2. Absent \/ DeleteCustomer(p)
      BY <3>1 DEF PassLeft, Absent
    <3> QED BY <1>2, <3>2 DEF DeleteCustomer, Absent
  <2> QED BY <2>1, <2>2
<1>9. CompletedGone'
  BY <1>0, <1>2, TaskStep DEF ErasureInv, CompletedGone, Absent
<1> QED BY <1>3, <1>4, <1>6, <1>7, <1>8, <1>9 DEF ErasureInv

LEMMA InvStep == ErasureInv /\ [ErasureNext]_erasureVars => ErasureInv'
<1> SUFFICES ASSUME ErasureInv, UNCHANGED erasureVars PROVE ErasureInv'
  BY InvNext
<1> QED BY DEF erasureVars, ErasureInv, ErasureTypeOK, LocalTypes, HomesKept, AddressesRead,
     GoneQuiet, FinishedGone, CompletedGone, Quiet, Settled, Ended, InProcess, Unmerged

\* When the task of an erasure is completed the profile is gone and no ticket is
\* theirs.  Of the mail from any address they held, the queue may still process what
\* an erasure found failed or in process, or an administrator retried, and nothing
\* else: with any number of passes at work at once, whatever becomes of the mail
\* between their statements and however often the erasure is asked for.
THEOREM ErasureIsComplete == ErasureSpec => []ErasureComplete
<1>1. ErasureSpec => []ErasureInv
  BY InvInit, InvStep, PTL DEF ErasureSpec
<1>2. ErasureInv => ErasureComplete
  <2> SUFFICES ASSUME ErasureInv PROVE ErasureComplete
    OBVIOUS
  <2>1. CompletedMeansGone
    <3>1. Subject \notin person => TicketsOf(Subject) = {}
      <4>1. ticket \in [Tickets -> person \cup {"unused", "gone"}]
        BY DEF ErasureInv, ErasureTypeOK
      <4>2. Subject \notin {"unused", "gone"}
        BY Names
      <4> QED BY <4>1, <4>2 DEF TicketsOf
    <3> QED BY <3>1 DEF ErasureInv, CompletedGone, CompletedMeansGone
  <2>2. WaitingMailStopped
    <3> SUFFICES ASSUME task.status = "completed", merge.pc /= "done", NEW m \in Mails,
                        HomeOf[Sender[m]] = Subject, mail[m].gen = 0, ClaimableMail(m)
                 PROVE  m \in spared
      BY DEF WaitingMailStopped
    <3>1. Subject \notin person /\ Unmerged /\ Sender[m] \in HomeAddresses
      BY DEF ErasureInv, CompletedGone, Unmerged
    <3>2. Quiet(Sender[m])
      BY <3>1 DEF ErasureInv, GoneQuiet
    <3> QED BY <3>2 DEF Quiet, Settled, Ended, ClaimableMail
  <2> QED BY <2>1, <2>2 DEF ErasureInv, ErasureComplete
<1> QED BY <1>1, <1>2, PTL

(***************************************************************************)
(* A stopped mail.  No invariant but the types is needed: every statement  *)
(* that could set it going reads the reason, leaves it as it is, or is one *)
(* of the invocation that processes the mail.                              *)
(***************************************************************************)
StoppedKept(m) ==
  mail[m].reason = "customer_erased" /\ ~InProcess(m) =>
    \/ mail'[m].reason = "customer_erased" /\ ~InProcess(m)'
    \/ mail'[m].gen > mail[m].gen

LEMMA ErasedReason ==
  ASSUME ErasureTypeOK, NEW ms, mail' = Erased(ms), NEW m \in Mails,
         mail[m].reason = "customer_erased"
  PROVE  mail'[m].reason = "customer_erased"
<1>1. mail[m] \in MailRow
  BY DEF ErasureTypeOK, MailRow
<1>2. mail'[m] = [mail[m] EXCEPT !.status = "failed", !.reason = "customer_erased"]
      \/ mail'[m] = mail[m]
  BY DEF Erased
<1> QED BY <1>1, <1>2 DEF MailRow

LEMMA StoppedPass ==
  ASSUME ErasureTypeOK, LocalTypes, NEW p \in Passes, PassStep(p), NEW m \in Mails
  PROVE  StoppedKept(m)
<1>1. worker' = worker
  BY DEF PassStep, ClaimTask, SelectTickets, DeleteOneTicket, ReadMessages, StopMails,
     DeleteTicket, ReadAddresses, TicketDeleted, StopAddress, DeleteCustomer, FinishPass,
     PassFails, PassDies
<1> SUFFICES ASSUME mail[m].reason = "customer_erased" PROVE mail'[m].reason = "customer_erased"
  BY <1>1 DEF StoppedKept, InProcess
<1>2. CASE StopMails(p)
  BY <1>2, ErasedReason DEF StopMails
<1>3. CASE \E a \in HomeAddresses : StopAddress(p, a)
  BY <1>3, ErasedReason DEF StopAddress
<1>4. CASE DeleteTicket(p)
  BY <1>1, <1>4, UnfiledMail DEF DeleteTicket
<1>5. CASE mail' = mail
  BY <1>5
<1> QED BY <1>2, <1>3, <1>4, <1>5 DEF PassStep, ClaimTask, SelectTickets, DeleteOneTicket,
     ReadMessages, ReadAddresses, TicketDeleted, DeleteCustomer, FinishPass, PassFails, PassDies

LEMMA StoppedMail ==
  ASSUME ErasureTypeOK, LocalTypes, NEW n \in Mails, MailStep(n), NEW m \in Mails
  PROVE  StoppedKept(m)
<1> SUFFICES ASSUME mail[m].reason = "customer_erased", ~InProcess(m)
             PROVE  \/ mail'[m].reason = "customer_erased" /\ ~InProcess(m)'
                    \/ mail'[m].gen > mail[m].gen
  BY DEF StoppedKept
<1>0. /\ mail \in [Mails -> MailRow] /\ mail[m] \in MailRow
      /\ worker \in [Mails -> WorkerRow] /\ IdleWorker.pc = "idle"
  BY DEF ErasureTypeOK, MailRow, LocalTypes, IdleWorker
<1>1. CASE n /= m
  <2>1. mail'[m] = mail[m] /\ worker'[m] = worker[m]
    BY <1>0, <1>1 DEF MailStep, ClaimMail, LookupSender, CreateSender, FindTicket, WriteMail,
       CompleteMail, FailMail, MailDies, RetryMail, StageMail, StagingFails, RecoverMail,
       ContinueMail
  <2> QED BY <2>1 DEF InProcess
<1>2. CASE n = m
  <2>1. CASE RetryMail(m)
    <3> DEFINE r == [mail[m] EXCEPT !.status = "staged", !.reason = "none", !.gen = 1]
    <3>1. mail' = [mail EXCEPT ![m] = r] /\ mail[m].gen = 0
      BY <2>1 DEF RetryMail
    <3>2. r.gen = 1
      BY <1>0 DEF MailRow
    <3> HIDE DEF r
    <3> QED BY <1>0, <3>1, <3>2
  <2>2. CASE MailDies(m)
    BY <1>0, <2>2 DEF MailDies, InProcess
  <2>3. CASE RecoverMail(m)
    BY <1>0, <2>3 DEF RecoverMail, InProcess, MailRow
  <2>4. ASSUME NEW put \in BOOLEAN, StageMail(m) \/ StagingFails(m, put)
        PROVE  mail'[m].reason = "customer_erased" /\ ~InProcess(m)'
    BY <1>0, <2>4 DEF StageMail, StagingFails, InProcess, MailRow
  <2>5. RetryMail(m) \/ MailDies(m) \/ RecoverMail(m)
        \/ \E put \in BOOLEAN : StageMail(m) \/ StagingFails(m, put)
    BY <1>2 DEF MailStep, ClaimMail, ClaimableMail, LookupSender, CreateSender, FindTicket,
       WriteMail, CompleteMail, ContinueMail, FailMail, InProcess
  <2> QED BY <2>1, <2>2, <2>3, <2>4, <2>5
<1> QED BY <1>1, <1>2

\* A mail an erasure stopped while no invocation was processing it stays stopped
\* until an administrator retries it: not the end of its staging, a redelivered
\* pointer, the Cron, a page of another pass, the deletion of a ticket or a merge
\* sets it going again.
THEOREM StoppedMailStays == ErasureSpec => StoppedStaysStopped
<1>1. ErasureSpec => []ErasureInv
  BY InvInit, InvStep, PTL DEF ErasureSpec
<1>2. ErasureInv /\ [ErasureNext]_erasureVars =>
        [\A m \in Mails :
           mail[m].reason = "customer_erased" /\ ~InProcess(m) =>
             \/ mail'[m].reason = "customer_erased" /\ ~InProcess(m)'
             \/ mail'[m].gen > mail[m].gen]_erasureVars
  <2> SUFFICES ASSUME ErasureInv, ErasureNext, NEW m \in Mails PROVE StoppedKept(m)
    BY DEF StoppedKept
  <2>1. ErasureTypeOK /\ LocalTypes
    BY DEF ErasureInv
  <2>2. CASE RequestErasure \/ TaskLeaseExpires \/ FailSpentTask \/ ApplyMerge
             \/ \E pair \in Merges : CheckMerge(pair[1], pair[2])
    <3>1. UNCHANGED <<mail, worker>>
      BY <2>2 DEF RequestErasure, TaskLeaseExpires, FailSpentTask, ApplyMerge, CheckMerge
    <3> QED BY <3>1 DEF StoppedKept, InProcess
  <2> QED BY <2>1, <2>2, StoppedPass, StoppedMail DEF ErasureNext
<1> QED BY <1>1, <1>2, PTL DEF ErasureSpec, StoppedStaysStopped

(***************************************************************************)
(* Surveys.  Which reply surveys a customer is known in three places, a    *)
(* reply that left, a stored envelope and a pass: they agree, and while    *)
(* the customer has the ticket the row is there.  Nothing names a customer *)
(* the ticket has not had, so a merge starts from nothing.                 *)
(***************************************************************************)
SurveyPass == [reply : ReplyJobs \cup {NoSurvey}, customer : Surveyed \cup {0},
               links : Surveyed \cup {Plain}, at : {"idle", "claim", "save", "send"}]
SurveyClick == [at : {"closed", "late", "shown", "failed", "unavailable"},
                rating : Ratings \cup {Unrated}, told : Ratings \cup {Unrated},
                owner : Surveyed \cup {0}, note : Surveyed \cup {0}]

\* A reply that has the links of customer o, or will leave with them.
Surveying(o, j) ==
  \/ <<j, o>> \in mailed
  \/ envelope[j] = o
  \/ \E p \in Senders : sender[p].links = o /\ sender[p].reply = j

SendersBusy ==
  \A p \in Senders : sender[p].at = "idle" \/ sender[p].reply \in ReplyJobs

OneSurveying ==
  /\ \A o \in Surveyed : \A j, k \in ReplyJobs : Surveying(o, j) /\ Surveying(o, k) => j = k
  /\ \A o \in Surveyed : \A j \in ReplyJobs : Surveying(o, j) => o <= customer
  /\ \A j \in ReplyJobs : Surveying(customer, j) /\ status /= "gone" => survey /= NoSurvey
  /\ status = "gone" => survey = NoSurvey

\* A page that shows a score was told it, of a row that is there as long as its
\* customer and the ticket are.
PagesSound ==
  \A c \in Clicks :
    /\ click[c].at \in {"closed", "late"} => click[c].owner = 0 /\ click[c].note = 0
    /\ click[c].owner <= customer
    /\ click[c].owner /= 0 => click[c].told /= Unrated
    /\ click[c].owner = customer /\ status /= "gone" => survey /= NoSurvey

SurveyInv == SurveyTypeOK /\ SendersBusy /\ OneSurveying /\ PagesSound /\ OneAnswer

LEMMA SurveyInvInit == SurveyInit => SurveyInv
<1> SUFFICES ASSUME SurveyInit PROVE SurveyInv
  OBVIOUS
<1>1. 1 \in Surveyed /\ 0 \notin Surveyed /\ -1 \notin Surveyed
  BY SurveyAssumption DEF Surveyed
<1>2. /\ status = "open" /\ customer = 1 /\ survey = NoSurvey /\ mailed = {}
      /\ envelope = [j \in ReplyJobs |-> -1]
      /\ \A p \in Senders : sender[p].at = "idle" /\ sender[p].links = 0
      /\ \A c \in Clicks : click[c].at = "closed" /\ click[c].owner = 0 /\ click[c].note = 0
  BY DEF SurveyInit, NoPass, NoClick, Plain, Unbuilt
<1>3. SurveyTypeOK
  BY <1>1 DEF SurveyInit, SurveyTypeOK, NoPass, NoClick, Plain, Unbuilt
<1>4. \A o \in Surveyed : \A j \in ReplyJobs : ~Surveying(o, j)
  BY <1>1, <1>2 DEF Surveying
<1>5. OneSurveying
  BY <1>1, <1>2, <1>4 DEF OneSurveying
<1>6. PagesSound /\ OneAnswer /\ SendersBusy
  BY <1>2 DEF PagesSound, OneAnswer, SendersBusy
<1>7. QED
  BY <1>3, <1>5, <1>6 DEF SurveyInv

\* A step that gives no reply the links, and takes no row.
LEMMA NoneMoreSurveyed ==
  ASSUME OneSurveying, UNCHANGED customer, customer \in Surveyed,
         \A o \in Surveyed : \A j \in ReplyJobs : Surveying(o, j)' => Surveying(o, j),
         status' = "gone" <=> status = "gone", survey' = NoSurvey <=> survey = NoSurvey
  PROVE  OneSurveying'
BY DEF OneSurveying

LEMMA SurveyInvStep == SurveyInv /\ [SurveyNext]_surveyVars => SurveyInv'
<1> SUFFICES ASSUME SurveyInv, [SurveyNext]_surveyVars PROVE SurveyInv'
  OBVIOUS
<1>t. /\ status \in {"open", "solved", "gone"} /\ survey \in Row \cup {NoSurvey}
      /\ customer \in Surveyed /\ mailed \subseteq ReplyJobs \X Surveyed
      /\ envelope \in [ReplyJobs -> Surveyed \cup {Plain, Unbuilt}]
      /\ sender \in [Senders -> SurveyPass] /\ click \in [Clicks -> SurveyClick]
      /\ SurveyTypeOK
  BY DEF SurveyInv, SurveyTypeOK, SurveyPass, SurveyClick
<1>i. SendersBusy /\ OneSurveying /\ PagesSound /\ OneAnswer
  BY DEF SurveyInv
<1>z. /\ 0 \notin Surveyed /\ -1 \notin Surveyed /\ Plain = 0 /\ Unbuilt = -1
      /\ Surveyed \subseteq Nat /\ customer > 0
  BY <1>t, SurveyAssumption DEF Surveyed, Plain, Unbuilt
<1>n. NoPass \in SurveyPass /\ NoPass.at = "idle" /\ NoPass.links = 0
  BY DEF NoPass, SurveyPass, Plain
<1>1. CASE Solve
  <2>1. /\ UNCHANGED <<customer, survey, envelope, sender, mailed, click>>
        /\ status' \in {"open", "solved"} /\ status /= "gone"
    BY <1>1 DEF Solve
  <2>2. \A o \in Surveyed : \A j \in ReplyJobs : Surveying(o, j)' => Surveying(o, j)
    BY <2>1 DEF Surveying
  <2>3. OneSurveying'
    BY <2>1, <2>2, <1>i, <1>t, NoneMoreSurveyed
  <2>4. PagesSound' /\ OneAnswer' /\ SurveyTypeOK' /\ SendersBusy'
    BY <2>1, <1>t, <1>i DEF PagesSound, OneAnswer, SurveyTypeOK, SendersBusy
  <2>5. QED
    BY <2>3, <2>4 DEF SurveyInv
<1>2. CASE DeleteSurveyed
  <2>1. UNCHANGED <<customer, envelope, sender, mailed, click>> /\ survey' = NoSurvey /\ status' = "gone"
    BY <1>2 DEF DeleteSurveyed
  <2>2. \A o \in Surveyed : \A j \in ReplyJobs : Surveying(o, j)' => Surveying(o, j)
    BY <2>1 DEF Surveying
  <2>3. OneSurveying'
    BY <2>1, <2>2, <1>i, <1>t DEF OneSurveying
  <2>4. PagesSound' /\ OneAnswer' /\ SurveyTypeOK' /\ SendersBusy'
    BY <2>1, <1>t, <1>i DEF PagesSound, OneAnswer, SurveyTypeOK, SendersBusy
  <2>5. QED
    BY <2>3, <2>4 DEF SurveyInv
<1>3. CASE MergeSurveyed
  <2>1. /\ UNCHANGED <<status, envelope, sender, mailed, click>>
        /\ survey' = NoSurvey /\ customer' = customer + 1 /\ customer < LastCustomer
    BY <1>3 DEF MergeSurveyed
  <2>2. customer' \in Surveyed
    BY <2>1, <1>t, SurveyAssumption DEF Surveyed
  <2>3. \A o \in Surveyed : \A j \in ReplyJobs : Surveying(o, j)' <=> Surveying(o, j)
    BY <2>1 DEF Surveying
  <2>4. \A j \in ReplyJobs : ~Surveying(customer, j)'
    <3> SUFFICES ASSUME NEW j \in ReplyJobs PROVE ~Surveying(customer, j)'
      OBVIOUS
    <3>1. customer + 1 \in Surveyed /\ ~(customer + 1 <= customer)
      BY <2>1, <2>2, <1>t, <1>z
    <3>2. ~Surveying(customer + 1, j)
      BY <3>1, <1>i DEF OneSurveying
    <3>3. QED
      BY <3>2, <2>1 DEF Surveying
  <2>5. \A o \in Surveyed : o <= customer => o <= customer'
    BY <2>1, <1>t, <1>z
  <2>6. OneSurveying'
    BY <2>1, <2>3, <2>4, <2>5, <1>i DEF OneSurveying
  <2>7. \A c \in Clicks : click[c].owner \in Surveyed \cup {0} /\ click[c].owner <= customer
    BY <1>t, <1>i DEF PagesSound, SurveyClick
  <2>8. ASSUME NEW c \in Clicks PROVE click[c].owner <= customer + 1 /\ click[c].owner /= customer + 1
    <3>1. customer \in Nat /\ Surveyed \subseteq Nat
      BY <1>t, <1>z
    <3>2. click[c].owner \in Surveyed \cup {0} /\ click[c].owner <= customer
      BY <2>7
    <3>3. click[c].owner \in Nat
      BY <3>2, SurveyAssumption DEF Surveyed
    <3>4. QED
      BY <3>1, <3>2, <3>3
  <2>9. PagesSound'
    BY <2>1, <2>8, <1>i DEF PagesSound
  <2>10. OneAnswer'
    BY <2>1, <1>i DEF OneAnswer
  <2>11. SurveyTypeOK' /\ SendersBusy'
    BY <2>1, <2>2, <1>t, <1>i DEF SurveyTypeOK, SendersBusy
  <2>12. QED
    BY <2>6, <2>9, <2>10, <2>11 DEF SurveyInv
\* A pass that moves on to x, without the row.
<1>p. ASSUME NEW p \in Senders, NEW x \in SurveyPass, sender' = [sender EXCEPT ![p] = x],
             x.at = "idle" \/ x.reply \in ReplyJobs,
             x.links \in Surveyed => Surveying(x.links, x.reply),
             UNCHANGED <<status, customer, survey, click>>,
             mailed' \subseteq ReplyJobs \X Surveyed,
             \A j \in ReplyJobs, o \in Surveyed : <<j, o>> \in mailed' => Surveying(o, j),
             envelope' \in [ReplyJobs -> Surveyed \cup {Plain, Unbuilt}],
             \A j \in ReplyJobs, o \in Surveyed : envelope'[j] = o => Surveying(o, j)
      PROVE  SurveyInv'
  <2>1. /\ sender' \in [Senders -> SurveyPass] /\ sender'[p] = x
        /\ \A q \in Senders \ {p} : sender'[q] = sender[q]
    BY <1>p, <1>t
  <2>2. \A o \in Surveyed : \A j \in ReplyJobs : Surveying(o, j)' => Surveying(o, j)
    BY <1>p, <2>1 DEF Surveying
  <2>3. OneSurveying'
    BY <1>p, <2>2, <1>i, <1>t, NoneMoreSurveyed
  <2>4. PagesSound' /\ OneAnswer'
    BY <1>p, <1>i DEF PagesSound, OneAnswer
  <2>5. SurveyTypeOK'
    BY <1>p, <2>1, <1>t DEF SurveyTypeOK, SurveyPass
  <2>6. SendersBusy'
    BY <1>p, <2>1, <1>i DEF SendersBusy
  <2>7. QED
    BY <2>3, <2>4, <2>5, <2>6 DEF SurveyInv
<1>s. \A j \in ReplyJobs, o \in Surveyed : <<j, o>> \in mailed => Surveying(o, j)
  BY DEF Surveying
<1>e. \A j \in ReplyJobs, o \in Surveyed : envelope[j] = o => Surveying(o, j)
  BY DEF Surveying
<1>4. ASSUME NEW p \in Senders, NEW j \in ReplyJobs, ReadReply(p, j) PROVE SurveyInv'
  <2>0. UNCHANGED <<status, customer, survey, envelope, mailed, click>>
    BY <1>4 DEF ReadReply
  <2> DEFINE x == IF envelope[j] /= Unbuilt
                  THEN [NoPass EXCEPT !.reply = j, !.at = "send", !.links = envelope[j]]
                  ELSE IF status = "solved"
                  THEN [NoPass EXCEPT !.reply = j, !.at = "claim", !.customer = customer]
                  ELSE [NoPass EXCEPT !.reply = j, !.at = "save"]
  <2>1. sender' = [sender EXCEPT ![p] = x]
    BY <1>4 DEF ReadReply
  <2>2. /\ x.reply = j /\ x.links \in Surveyed \cup {Plain}
        /\ x.links = Plain \/ x.links = envelope[j]
    BY <1>t DEF NoPass
  <2>3. x \in SurveyPass
    BY <1>t DEF SurveyPass, NoPass
  <2> HIDE DEF x
  <2>4. x.links \in Surveyed => Surveying(x.links, x.reply)
    BY <2>1, <2>2, <1>e, <1>z
  <2>5. QED
    BY <2>0, <2>1, <2>2, <2>3, <2>4, <1>p, <1>s, <1>e, <1>t
<1>5. ASSUME NEW p \in Senders, ClaimSurvey(p) PROVE SurveyInv'
  <2>1. /\ sender[p].at = "claim" /\ status # "gone"
        /\ UNCHANGED <<status, customer, envelope, mailed, click>>
    BY <1>5 DEF ClaimSurvey
  <2>2. sender[p] \in SurveyPass /\ sender[p].reply \in ReplyJobs
    BY <2>1, <1>t, <1>i DEF SendersBusy
  <2>3. CASE survey /= NoSurvey
    <3> DEFINE x == [sender[p] EXCEPT !.at = "save", !.customer = 0]
    <3>1. sender' = [sender EXCEPT ![p] = x] /\ survey' = survey
      BY <1>5, <2>3, <1>t DEF ClaimSurvey
    <3>2. x \in SurveyPass /\ x.reply = sender[p].reply /\ x.links = sender[p].links
      BY <2>2 DEF SurveyPass
    <3> HIDE DEF x
    <3>3. x.links \in Surveyed => Surveying(x.links, x.reply)
      BY <3>2 DEF Surveying
    <3>4. QED
      BY <2>1, <2>2, <3>1, <3>2, <3>3, <1>p, <1>s, <1>e, <1>t
  <2>4. CASE survey = NoSurvey
    <3> DEFINE x == [sender[p] EXCEPT !.at = "save", !.customer = 0, !.links = customer]
               row == Unanswered(sender[p].reply)
    <3>1. sender' = [sender EXCEPT ![p] = x] /\ survey' = row
      BY <1>5, <2>4, <1>t DEF ClaimSurvey
    <3>2. x \in SurveyPass /\ x.reply = sender[p].reply /\ x.links = customer
      BY <2>2, <1>t DEF SurveyPass
    <3>3. row \in Row /\ row /= NoSurvey
      <4>1. row \in Row
        BY <2>2 DEF Row, Unanswered
      <4>2. QED
        BY <4>1, SurveyAssumption
    <3> HIDE DEF x, row
    <3>4. /\ sender' \in [Senders -> SurveyPass] /\ sender'[p] = x
          /\ \A q \in Senders \ {p} : sender'[q] = sender[q]
      BY <3>1, <3>2, <1>t
    <3>5. \A j \in ReplyJobs : ~Surveying(customer, j)
      BY <2>1, <2>4, <1>i DEF OneSurveying
    <3>6. \A o \in Surveyed : \A j \in ReplyJobs :
            Surveying(o, j)' => Surveying(o, j) \/ (o = customer /\ j = sender[p].reply)
      BY <2>1, <3>2, <3>4 DEF Surveying
    <3>7. OneSurveying'
      <4>1. \A o \in Surveyed : \A j, k \in ReplyJobs : Surveying(o, j)' /\ Surveying(o, k)' => j = k
        BY <3>5, <3>6, <1>i DEF OneSurveying
      <4>2. \A o \in Surveyed : \A j \in ReplyJobs : Surveying(o, j)' => o <= customer
        BY <3>6, <1>i, <1>z, <1>t DEF OneSurveying
      <4>3. QED
        BY <4>1, <4>2, <2>1, <3>1, <3>3 DEF OneSurveying
    <3>8. \A c \in Clicks : click[c].owner /= customer
      BY <2>1, <2>4, <1>i DEF PagesSound
    <3>9. PagesSound' /\ OneAnswer'
      BY <2>1, <3>8, <1>i DEF PagesSound, OneAnswer
    <3>10. SurveyTypeOK' /\ SendersBusy'
      BY <2>1, <2>2, <3>1, <3>2, <3>3, <3>4, <1>t, <1>i DEF SurveyTypeOK, SurveyPass, SendersBusy
    <3>11. QED
      BY <3>7, <3>9, <3>10 DEF SurveyInv
  <2>5. QED
    BY <2>3, <2>4
<1>6. ASSUME NEW p \in Senders, SaveEnvelope(p) PROVE SurveyInv'
  <2> DEFINE j == sender[p].reply
             x == [sender[p] EXCEPT !.at = "send"]
             e == sender[p].links
  <2>1. /\ sender[p].at = "save" /\ sender' = [sender EXCEPT ![p] = x]
        /\ envelope' = [envelope EXCEPT ![j] = e]
        /\ UNCHANGED <<status, customer, survey, mailed, click>>
    BY <1>6, <1>t DEF SaveEnvelope
  <2>2. /\ sender[p] \in SurveyPass /\ j \in ReplyJobs
        /\ \A o \in Surveyed : e = o => Surveying(o, j)
    BY <2>1, <1>t, <1>i DEF SendersBusy, Surveying
  <2>3. x \in SurveyPass /\ x.reply = j /\ x.links = e /\ e \in Surveyed \cup {Plain}
    BY <2>2 DEF SurveyPass
  <2> HIDE DEF x, e, j
  <2>4. /\ envelope' \in [ReplyJobs -> Surveyed \cup {Plain, Unbuilt}]
        /\ \A k \in ReplyJobs, o \in Surveyed : envelope'[k] = o => Surveying(o, k)
    BY <2>1, <2>2, <2>3, <1>t, <1>e
  <2>5. QED
    BY <2>1, <2>2, <2>3, <2>4, <1>p, <1>s, <1>t
<1>7. ASSUME NEW p \in Senders, SendReply(p) PROVE SurveyInv'
  <2> DEFINE j == sender[p].reply
             o == sender[p].links
  <2>1. /\ sender[p].at = "send" /\ sender' = [sender EXCEPT ![p] = NoPass]
        /\ mailed' = (IF o = Plain THEN mailed ELSE mailed \cup {<<j, o>>})
        /\ UNCHANGED <<status, customer, survey, envelope, click>>
    BY <1>7 DEF SendReply
  <2>2. j \in ReplyJobs /\ o \in Surveyed \cup {Plain} /\ (o \in Surveyed => Surveying(o, j))
    BY <2>1, <1>t, <1>i DEF SendersBusy, Surveying, SurveyPass
  <2> HIDE DEF j, o
  <2>3. /\ mailed' \subseteq ReplyJobs \X Surveyed
        /\ \A k \in ReplyJobs, u \in Surveyed : <<k, u>> \in mailed' => Surveying(u, k)
    BY <2>1, <2>2, <1>s, <1>t
  <2>4. QED
    BY <2>1, <2>3, <1>n, <1>z, <1>p, <1>e, <1>t
<1>8. ASSUME NEW p \in Senders, PassEnds(p) PROVE SurveyInv'
  BY <1>8, <1>n, <1>z, <1>p, <1>s, <1>e, <1>t DEF PassEnds
\* A page that moves on to x, with a row that has the score it had, if it had one.
<1>c. ASSUME NEW c \in Clicks, NEW x \in SurveyClick, click' = [click EXCEPT ![c] = x],
             UNCHANGED <<status, customer, envelope, sender, mailed>>,
             survey' \in Row \cup {NoSurvey}, survey' = NoSurvey <=> survey = NoSurvey,
             \A d \in Clicks : survey /= NoSurvey /\ click[d].owner = customer => survey'.rating = click[d].told,
             x.at \in {"closed", "late"} => x.owner = 0 /\ x.note = 0,
             \/ x.owner = click[c].owner /\ x.told = click[c].told
             \/ x.owner = 0
             \/ /\ x.owner = customer /\ x.told /= Unrated
                /\ survey /= NoSurvey /\ survey'.rating = x.told,
             x.note /= 0 /\ x.note = x.owner => x.rating = x.told
      PROVE  SurveyInv'
  <2>1. /\ click' \in [Clicks -> SurveyClick] /\ click'[c] = x
        /\ \A d \in Clicks \ {c} : click'[d] = click[d]
    BY <1>c, <1>t
  <2>2. \A o \in Surveyed : \A j \in ReplyJobs : Surveying(o, j)' => Surveying(o, j)
    BY <1>c DEF Surveying
  <2>3. OneSurveying'
    BY <1>c, <2>2, <1>i, <1>t, NoneMoreSurveyed
  <2>4. PagesSound'
    <3>1. ASSUME NEW d \in Clicks
          PROVE  /\ click'[d].at \in {"closed", "late"} => click'[d].owner = 0 /\ click'[d].note = 0
                 /\ click'[d].owner <= customer
                 /\ click'[d].owner /= 0 => click'[d].told /= Unrated
                 /\ click'[d].owner = customer /\ status /= "gone" => survey' /= NoSurvey
      <4>1. CASE d /= c
        BY <4>1, <1>c, <2>1, <1>i DEF PagesSound
      <4>2. CASE d = c
        BY <4>2, <1>c, <2>1, <1>i, <1>z, <1>t DEF PagesSound
      <4>3. QED
        BY <4>1, <4>2
    <3>2. QED
      BY <3>1, <1>c DEF PagesSound
  <2>5. OneAnswer'
    <3>1. ASSUME NEW d \in Clicks, click'[d].owner /= 0, click'[d].owner = x.owner
          PROVE  click'[d].told = x.told
      BY <3>1, <1>c, <2>1, <1>i DEF OneAnswer
    <3>2. \A d, f \in Clicks : click'[d].owner /= 0 /\ click'[d].owner = click'[f].owner
                                 => click'[d].told = click'[f].told
      BY <3>1, <2>1, <1>i DEF OneAnswer
    <3>3. \A d \in Clicks : survey' /= NoSurvey /\ click'[d].owner = customer => survey'.rating = click'[d].told
      BY <1>c, <2>1, <1>z
    <3>4. \A d \in Clicks : click'[d].note /= 0 /\ click'[d].note = click'[d].owner
                              => click'[d].rating = click'[d].told
      BY <1>c, <2>1, <1>i DEF OneAnswer
    <3>5. QED
      BY <3>2, <3>3, <3>4, <1>c DEF OneAnswer
  <2>6. SurveyTypeOK' /\ SendersBusy'
    BY <1>c, <2>1, <1>t, <1>i DEF SurveyTypeOK, SurveyClick, SendersBusy
  <2>7. QED
    BY <2>3, <2>4, <2>5, <2>6 DEF SurveyInv
<1>o. \A d \in Clicks : survey /= NoSurvey /\ click[d].owner = customer => survey.rating = click[d].told
  BY <1>i DEF OneAnswer
<1>9. ASSUME NEW c \in Clicks, NEW r \in Ratings, ClaimRating(c, r) PROVE SurveyInv'
  <2>1. click[c].at = "closed" /\ UNCHANGED <<status, customer, envelope, sender, mailed>>
    BY <1>9 DEF ClaimRating
  <2>2. click[c] \in SurveyClick /\ click[c].owner = 0 /\ click[c].note = 0 /\ r /= Unrated
    BY <2>1, <1>t, <1>i, SurveyAssumption DEF PagesSound
  <2>3. CASE survey /= NoSurvey /\ survey.rating = Unrated
    <3> DEFINE row == [survey EXCEPT !.rating = r]
               x == [click[c] EXCEPT !.at = "shown", !.rating = r, !.told = r, !.owner = customer]
    <3>1. survey' = row /\ click' = [click EXCEPT ![c] = x]
      BY <1>9, <2>3, <1>t DEF ClaimRating
    <3>2. row \in Row /\ row.rating = r /\ row /= NoSurvey
      <4>1. survey \in Row
        BY <2>3, <1>t
      <4>2. row \in Row /\ row.rating = r
        BY <4>1 DEF Row
      <4>3. QED
        BY <4>2, SurveyAssumption
    <3>3. x \in SurveyClick /\ x.at = "shown" /\ x.told = r /\ x.owner = customer /\ x.note = 0
      BY <2>2, <1>t DEF SurveyClick
    <3> HIDE DEF row, x
    <3>4. \A d \in Clicks : click[d].owner /= customer
      BY <2>3, <1>o, <1>i, <1>z, <1>t DEF PagesSound
    <3>5. QED
      BY <2>1, <2>2, <2>3, <3>1, <3>2, <3>3, <3>4, <1>c
  <2>4. CASE ~(survey /= NoSurvey /\ survey.rating = Unrated)
    <3> DEFINE x == [click[c] EXCEPT !.at = "late", !.rating = r]
    <3>1. UNCHANGED survey /\ click' = [click EXCEPT ![c] = x]
      BY <1>9, <2>4, <1>t DEF ClaimRating
    <3>2. x \in SurveyClick /\ x.at = "late" /\ x.owner = 0 /\ x.note = 0
      BY <2>2 DEF SurveyClick
    <3> HIDE DEF x
    <3>3. QED
      BY <2>1, <3>1, <3>2, <1>c, <1>o, <1>t
  <2>5. QED
    BY <2>3, <2>4
<1>10. ASSUME NEW c \in Clicks, ReadRating(c) PROVE SurveyInv'
  <2>1. click[c].at = "late" /\ UNCHANGED <<status, customer, survey, envelope, sender, mailed>>
    BY <1>10 DEF ReadRating
  <2>2. click[c] \in SurveyClick /\ click[c].owner = 0 /\ click[c].note = 0
    BY <2>1, <1>t, <1>i DEF PagesSound
  <2>3. CASE survey = NoSurvey \/ (survey /= NoSurvey /\ survey.rating = Unrated)
    <3>1. PICK f \in {"unavailable", "shown"} : click' = [click EXCEPT ![c].at = f]
      BY <1>10, <2>3 DEF ReadRating
    <3> DEFINE x == [click[c] EXCEPT !.at = f]
    <3>2. click' = [click EXCEPT ![c] = x]
      BY <3>1, <1>t
    <3>3. x \in SurveyClick /\ x.at = f /\ x.owner = 0 /\ x.note = 0
      BY <2>2, <3>1 DEF SurveyClick
    <3> HIDE DEF x
    <3>4. x.at \notin {"closed", "late"}
      BY <3>1, <3>3
    <3>5. QED
      BY <2>1, <3>2, <3>3, <3>4, <1>c, <1>o, <1>t
  <2>4. CASE survey /= NoSurvey /\ survey.rating /= Unrated
    <3> DEFINE x == [click[c] EXCEPT !.at = "shown", !.told = survey.rating, !.owner = customer]
    <3>1. click' = [click EXCEPT ![c] = x]
      BY <1>10, <2>4, <1>t DEF ReadRating
    <3>2. survey.rating \in Ratings \cup {Unrated}
      BY <2>4, <1>t DEF Row
    <3>3. x \in SurveyClick /\ x.at = "shown" /\ x.told = survey.rating /\ x.owner = customer /\ x.note = 0
      BY <2>2, <3>2, <1>t DEF SurveyClick
    <3> HIDE DEF x
    <3>4. QED
      BY <2>1, <2>4, <3>1, <3>3, <1>c, <1>o, <1>t
  <2>5. QED
    BY <2>3, <2>4
<1>11. ASSUME NEW c \in Clicks, Comment(c) PROVE SurveyInv'
  <2> DEFINE fits == survey # NoSurvey /\ survey.rating = click[c].rating
  <2>1. /\ click[c].at \in {"shown", "failed"} /\ click[c].note = 0
        /\ UNCHANGED <<status, customer, envelope, sender, mailed>>
    BY <1>11 DEF Comment
  <2>2. click[c] \in SurveyClick
    BY <1>t
  <2>3. CASE ~fits
    <3> DEFINE x == [click[c] EXCEPT !.at = "failed"]
    <3>1. UNCHANGED survey /\ click' = [click EXCEPT ![c] = x]
      BY <1>11, <2>3, <1>t DEF Comment
    <3>2. /\ x \in SurveyClick /\ x.at = "failed" /\ x.told = click[c].told
          /\ x.owner = click[c].owner /\ x.note = 0
      BY <2>1, <2>2 DEF SurveyClick
    <3> HIDE DEF x
    <3>3. QED
      BY <2>1, <3>1, <3>2, <1>c, <1>o, <1>t
  <2>4. CASE fits
    <3> DEFINE x == [click[c] EXCEPT !.at = "shown", !.note = customer]
               row == [survey EXCEPT !.noted = TRUE]
    <3>1. survey' = row /\ click' = [click EXCEPT ![c] = x]
      BY <1>11, <2>4, <1>t DEF Comment
    <3>2. /\ x \in SurveyClick /\ x.at = "shown" /\ x.told = click[c].told
          /\ x.rating = click[c].rating /\ x.owner = click[c].owner /\ x.note = customer
      BY <2>2, <1>t DEF SurveyClick
    <3>3. row \in Row /\ row.rating = survey.rating /\ row /= NoSurvey
      <4>1. survey \in Row
        BY <2>4, <1>t
      <4>2. row \in Row /\ row.rating = survey.rating
        BY <4>1 DEF Row
      <4>3. QED
        BY <4>2, SurveyAssumption
    <3>4. survey /= NoSurvey /\ survey.rating = click[c].rating
      BY <2>4
    <3>5. click[c].owner = customer => click[c].rating = click[c].told
      BY <3>4, <1>o
    <3> HIDE DEF x, row, fits
    <3>6. QED
      BY <2>1, <3>1, <3>2, <3>3, <3>4, <3>5, <1>c, <1>o
  <2>5. QED
    BY <2>3, <2>4
<1>12. CASE UNCHANGED surveyVars
  BY <1>12 DEF surveyVars, SurveyInv, SurveyTypeOK, SendersBusy, OneSurveying, Surveying, PagesSound, OneAnswer
<1>13. QED
  BY <1>1, <1>2, <1>3, <1>4, <1>5, <1>6, <1>7, <1>8, <1>9, <1>10, <1>11, <1>12 DEF SurveyNext

LEMMA SurveyHoldsInv == SurveySpec => []SurveyInv
  BY SurveyInvInit, SurveyInvStep, PTL DEF SurveySpec

\* Theorem: each customer a ticket has had is surveyed about it in one reply at
\* most, every page that shows a score of one survey shows the same one, and a
\* note on it was taken for that score, however passes and clicks overlap, fail
\* and repeat, and whenever the customer is merged or the ticket deleted.
THEOREM SurveysAreUnique == SurveySpec => []OneSurvey
<1>1. SurveyInv => OneSurvey
  <2> SUFFICES ASSUME SurveyInv PROVE OneSurvey
    OBVIOUS
  <2>1. \A m, n \in mailed : m[2] = n[2] => m[1] = n[1]
    <3> SUFFICES ASSUME NEW m \in mailed, NEW n \in mailed, m[2] = n[2] PROVE m[1] = n[1]
      OBVIOUS
    <3>1. /\ m = <<m[1], m[2]>> /\ n = <<n[1], n[2]>>
          /\ m[1] \in ReplyJobs /\ n[1] \in ReplyJobs /\ m[2] \in Surveyed
      BY DEF SurveyInv, SurveyTypeOK
    <3>2. Surveying(m[2], m[1]) /\ Surveying(m[2], n[1])
      BY <3>1 DEF Surveying
    <3>3. QED
      BY <3>1, <3>2 DEF SurveyInv, OneSurveying
  <2>2. QED
    BY <2>1 DEF SurveyInv, OneSurvey, SurveyedOnce
<1>2. QED
  BY <1>1, SurveyHoldsInv, PTL
=============================================================================
