------------------------- MODULE OutboundMailProofs -------------------------
(***************************************************************************)
(* Proofs about OutboundMail for every set of invocations, every number of *)
(* attempts and generations, and both kinds of provider.                   *)
(***************************************************************************)
EXTENDS OutboundMail, TLAPS

USE OutboundAssumption DEF Generations

(***************************************************************************)
(* Types.  EventJob writes the outcome of its event as the terminal        *)
(* reason, so the type of the job rests on which events get that far.      *)
(***************************************************************************)
OnlyNegativeEvents ==
  \A e \in Events : event[e] = "job" => e[2] /= "delivered"

\* The refusals of the retry route, remembered with what its SELECT returned.
RetryBounded ==
  admin.open => admin.generation < MaxGeneration /\ admin.reason /= "complained"

TypeInv == TypeOK /\ OnlyNegativeEvents /\ RetryBounded

LEMMA IdleType == Idle \in Invocation
  BY DEF Idle, Invocation, PCs, Reasons

LEMMA TypeInit == Init => TypeInv
<1> SUFFICES ASSUME Init PROVE TypeInv
  OBVIOUS
<1>1. job \in JobRow
  BY DEF Init, JobRow, Statuses, Reasons, NoId
<1>2. consumer \in [Consumers -> Invocation]
  BY IdleType DEF Init
<1>3. admin \in [open : BOOLEAN, generation : Generations, reason : Reasons]
  BY DEF Init, NoRequest, Reasons
<1>4. event \in [Events -> {"new", "job", "processed"}] /\ OnlyNegativeEvents
  BY DEF Init, OnlyNegativeEvents
<1>5. handedOff \in [Generations -> Nat]
  BY DEF Init
<1>6. RetryBounded
  BY DEF Init, NoRequest, RetryBounded
<1> QED BY <1>1, <1>2, <1>3, <1>4, <1>5, <1>6 DEF Init, TypeInv, TypeOK

\* Replacing the locals of one invocation by well-typed ones.
LEMMA PutType ==
  ASSUME TypeOK, NEW c \in Consumers, NEW r \in Invocation,
         consumer' = [consumer EXCEPT ![c] = r]
  PROVE  consumer' \in [Consumers -> Invocation]
  BY DEF TypeOK

LEMMA LocalType ==
  ASSUME TypeOK, NEW c \in Consumers
  PROVE  /\ consumer[c] \in Invocation
         /\ consumer[c].pc \in PCs
         /\ consumer[c].generation \in Generations
         /\ consumer[c].attempts \in 0..MaxAttempts
         /\ consumer[c].code \in Reasons
         /\ consumer[c].terminal \in BOOLEAN
<1>1. consumer[c] \in Invocation
  BY DEF TypeOK
<1> QED BY <1>1 DEF Invocation

LEMMA JobColumns ==
  ASSUME TypeOK
  PROVE  /\ job \in JobRow
         /\ job.status \in Statuses
         /\ job.attempts \in 0..MaxAttempts
         /\ job.generation \in Generations
         /\ job.terminal \in Reasons
         /\ job.lease \in BOOLEAN
         /\ job.first \in {"none", "recent", "old"}
         /\ job.sendAttempted \in BOOLEAN
         /\ job.providerId \in Generations \cup {NoId}
  BY DEF TypeOK, JobRow

LEMMA GotoType ==
  ASSUME TypeOK, NEW c \in Consumers, NEW pc \in PCs, Goto(c, pc)
  PROVE  consumer' \in [Consumers -> Invocation]
<1>1. [consumer[c] EXCEPT !.pc = pc] \in Invocation
  BY LocalType DEF Invocation
<1>2. consumer' = [consumer EXCEPT ![c] = [consumer[c] EXCEPT !.pc = pc]]
  BY DEF Goto
<1> QED BY <1>1, <1>2, PutType

LEMMA FailType ==
  ASSUME TypeOK, NEW c \in Consumers, NEW pc \in PCs, NEW code \in Reasons,
         NEW terminal \in BOOLEAN, Fail(c, pc, code, terminal)
  PROVE  consumer' \in [Consumers -> Invocation]
<1> DEFINE r == [Idle EXCEPT !.pc = pc, !.generation = consumer[c].generation,
                   !.code = code,
                   !.terminal = terminal \/ consumer[c].attempts >= MaxAttempts]
<1>1. r \in Invocation
  BY IdleType, LocalType DEF Invocation
<1>2. consumer' = [consumer EXCEPT ![c] = r]
  BY DEF Fail
<1> HIDE DEF r
<1> QED BY <1>1, <1>2, PutType

LEMMA ProceedType ==
  ASSUME TypeOK, NEW c \in Consumers, Proceed(c)
  PROVE  consumer' \in [Consumers -> Invocation]
<1> DEFINE r == [Idle EXCEPT !.pc = "sending", !.generation = consumer[c].generation,
                   !.attempts = consumer[c].attempts]
<1>1. r \in Invocation
  <2>1. "sending" \in PCs
    BY DEF PCs
  <2> QED BY <2>1, IdleType, LocalType DEF Invocation
<1>2. consumer' = [consumer EXCEPT ![c] = r]
  BY DEF Proceed
<1> HIDE DEF r
<1> QED BY <1>1, <1>2, PutType

LEMMA ConsumerType ==
  ASSUME TypeOK, NEW c \in Consumers, Receive(c) \/ Invoke(c) \/ Crash(c)
  PROVE  consumer' \in [Consumers -> Invocation]
<1>1. CASE Receive(c)
  <2> DEFINE r == [Idle EXCEPT !.pc = "read", !.generation = job.generation,
                     !.first = job.first, !.sendAttempted = job.sendAttempted]
  <2>1. "read" \in PCs
    BY DEF PCs
  <2>2. r \in Invocation
    BY <2>1, IdleType, JobColumns DEF Invocation
  <2>3. consumer' = consumer \/ consumer' = [consumer EXCEPT ![c] = r]
    BY <1>1 DEF Receive
  <2> HIDE DEF r
  <2> QED BY <2>2, <2>3, PutType DEF TypeOK
<1>2. CASE Claim(c)
  <2> DEFINE r == [consumer[c] EXCEPT !.pc = "claimed", !.attempts = job.attempts + 1]
  <2>1. CASE Claimable(c)
    <3>1. "claimed" \in PCs /\ job.attempts + 1 \in 0..MaxAttempts
      BY <2>1, JobColumns DEF PCs, Claimable
    <3>2. r \in Invocation
      BY <3>1, LocalType DEF Invocation
    <3>3. consumer' = [consumer EXCEPT ![c] = r]
      BY <1>2, <2>1 DEF Claim
    <3> HIDE DEF r
    <3> QED BY <3>2, <3>3, PutType
  <2>2. CASE ~Claimable(c)
    BY <1>2, <2>2, IdleType, PutType DEF Claim
  <2> QED BY <2>1, <2>2
<1>3. CASE ConfirmSent(c) \/ RecordSent(c) \/ FailMessage(c) \/ Crash(c)
  BY <1>3, IdleType, PutType DEF ConfirmSent, RecordSent, FailMessage, Crash
<1>4. CASE Prepare(c)
  <2> DEFINE r == [consumer[c] EXCEPT !.pc = "prepared", !.first = "none"]
  <2>1. "prepared" \in PCs
    BY DEF PCs
  <2>2. r \in Invocation
    BY <2>1, LocalType DEF Invocation
  <2>3. consumer' = [consumer EXCEPT ![c] = r]
    BY <1>4 DEF Prepare
  <2> HIDE DEF r
  <2> QED BY <2>2, <2>3, PutType
<1>5. CASE FindMessageSent(c) \/ SendAccepted(c) \/ Unmark(c) \/ RecordFailure(c)
  <2>1. {"confirm", "record", "fail", "failMessage"} \subseteq PCs
    BY DEF PCs
  <2> QED BY <1>5, <2>1, GotoType DEF FindMessageSent, SendAccepted, Unmark, RecordFailure
<1>6. CASE \/ PrepareFails(c) \/ PrecheckFails(c) \/ SendRefused(c) \/ SendUnknown(c)
           \/ RecordSentFails(c)
  <2>1. /\ {"fail", "unmark"} \subseteq PCs
        /\ {"config", "refused", "delivery_uncertain"} \subseteq Reasons
    BY DEF PCs, Reasons
  <2>2. CASE PrepareFails(c)
    <3>1. \E pc \in {"fail", "unmark"},
             code \in {"config", "refused", "delivery_uncertain"},
             terminal \in BOOLEAN : Fail(c, pc, code, terminal)
      BY <2>2 DEF PrepareFails
    <3> QED BY <2>1, <3>1, FailType
  <2>3. CASE PrecheckFails(c)
    <3>1. \E pc \in {"fail", "unmark"},
             code \in {"config", "refused", "delivery_uncertain"},
             terminal \in BOOLEAN : Fail(c, pc, code, terminal)
      BY <2>3 DEF PrecheckFails
    <3> QED BY <2>1, <3>1, FailType
  <2>4. CASE SendRefused(c)
    <3>1. \E pc \in {"fail", "unmark"}, code \in {"config", "refused"},
             terminal \in BOOLEAN : Fail(c, pc, code, terminal)
      BY <2>4 DEF SendRefused
    <3> QED BY <2>1, <3>1, FailType
  <2>5. CASE SendUnknown(c) \/ RecordSentFails(c)
    <3>1. \E terminal \in BOOLEAN : Fail(c, "fail", "delivery_uncertain", terminal)
      BY <2>5 DEF SendUnknown, RecordSentFails
    <3> QED BY <2>1, <3>1, FailType
  <2> QED BY <1>6, <2>2, <2>3, <2>4, <2>5
<1>7. CASE Mark(c)
  <2>1. "fail" \in PCs /\ "delivery_uncertain" \in Reasons
    BY DEF PCs, Reasons
  <2> QED BY <1>7, <2>1, FailType, ProceedType DEF Mark
<1> QED BY <1>1, <1>2, <1>3, <1>4, <1>5, <1>6, <1>7 DEF Invoke

\* Whatever the dead-letter consumer, the Cron and the failure handlers write.
LEMMA NamesType ==
  /\ {"pending", "processing", "sent", "failed"} \subseteq Statuses
  /\ {"none", "delivery_uncertain", "queue_exhausted", "complained"} \subseteq Reasons
  BY DEF Statuses, Reasons

LEMMA JobOfConsumerType ==
  ASSUME TypeOK, NEW c \in Consumers, Receive(c) \/ Invoke(c) \/ Crash(c)
  PROVE  job' \in JobRow
<1>0. job \in JobRow /\ job.terminal \in Reasons
  BY JobColumns
<1>1. CASE Claim(c)
  <2>1. CASE Claimable(c)
    <3>1. job.attempts + 1 \in 0..MaxAttempts
      BY <2>1, JobColumns DEF Claimable
    <3>2. job' = [job EXCEPT !.status = "processing", !.lease = TRUE,
                             !.attempts = job.attempts + 1]
      BY <1>1, <2>1 DEF Claim
    <3> QED BY <1>0, <3>1, <3>2, NamesType, ZenonT(60) DEF JobRow
  <2>2. CASE ~Claimable(c)
    BY <1>0, <1>1, <2>2 DEF Claim
  <2> QED BY <2>1, <2>2
<1>2. CASE ConfirmSent(c)
  BY <1>0, <1>2, NamesType DEF ConfirmSent, JobRow
<1>3. CASE Prepare(c)
  BY <1>0, <1>3, ZenonT(60) DEF Prepare, JobRow
<1>4. CASE Mark(c) \/ Unmark(c)
  BY <1>0, <1>4, ZenonT(60) DEF Mark, Unmark, JobRow
<1>5. CASE RecordSent(c)
  <2>1. consumer[c].generation \in Generations \cup {NoId}
    BY LocalType
  <2>2. (IF job.terminal = "none" THEN "sent" ELSE "failed") \in Statuses
    BY NamesType
  <2> QED BY <1>0, <1>5, <2>1, <2>2 DEF RecordSent, JobRow
<1>6. CASE RecordFailure(c)
  <2>1. (IF consumer[c].terminal THEN consumer[c].code ELSE "none") \in Reasons
    BY LocalType, NamesType
  <2> QED BY <1>0, <1>6, <2>1, NamesType DEF RecordFailure, JobRow
<1>7. CASE UNCHANGED job
  BY <1>0, <1>7
<1> QED BY <1>1, <1>2, <1>3, <1>4, <1>5, <1>6, <1>7 DEF Invoke, Receive, Crash,
     FindMessageSent, PrepareFails, PrecheckFails, SendAccepted, SendRefused,
     SendUnknown, RecordSentFails, FailMessage

LEMMA SweepType ==
  ASSUME TypeOK PROVE StopSpent(Unstall(job)) \in JobRow
<1> DEFINE j == Unstall(job)
<1>1. j \in JobRow
  BY JobColumns, NamesType DEF Unstall, JobRow
<1> HIDE DEF j
<1>2. StopSpent(j) \in JobRow
  BY <1>1, NamesType DEF StopSpent, JobRow
<1> QED BY <1>2 DEF j

LEMMA JobType ==
  ASSUME TypeInv, Next
  PROVE  job' \in JobRow
<1>0. TypeOK /\ job \in JobRow /\ job.terminal \in Reasons
  BY JobColumns DEF TypeInv
<1>1. ASSUME NEW enqueued \in BOOLEAN, Dispatch(enqueued) PROVE job' \in JobRow
  BY <1>0, <1>1 DEF Dispatch, JobRow
<1>2. ASSUME NEW c \in Consumers, Receive(c) \/ Invoke(c) \/ Crash(c)
      PROVE  job' \in JobRow
  BY <1>0, <1>2, JobOfConsumerType
<1>3. ASSUME NEW g \in Generations, NEW written \in BOOLEAN, DrainLetter(g, written)
      PROVE  job' \in JobRow
  <2>1. \/ job' = job
        \/ job' = [job EXCEPT !.status = "failed", !.lease = FALSE,
                              !.terminal = "queue_exhausted", !.reserved = FALSE]
    BY <1>3 DEF DrainLetter
  <2> QED BY <1>0, <2>1, NamesType, ZenonT(60) DEF JobRow
<1>4. CASE Sweep
  BY <1>0, <1>4, SweepType DEF Sweep
<1>5. CASE Retry
  <2>1. CASE StillStopped
    <3>1. job.generation + 1 \in Generations
      BY <1>0, <1>5, <2>1, JobColumns DEF TypeInv, RetryBounded, Retry, StillStopped
    <3>2. job' = [job EXCEPT !.status = "pending", !.terminal = "none",
                    !.attempts = 0, !.reserved = FALSE, !.backoff = FALSE,
                    !.generation = job.generation + 1, !.first = "none",
                    !.sendAttempted = FALSE]
      BY <1>5, <2>1 DEF Retry
    <3>3. 0 \in 0..MaxAttempts
      OBVIOUS
    <3> QED BY <1>0, <3>1, <3>2, <3>3, NamesType, ZenonT(60) DEF JobRow
  <2>2. CASE ~StillStopped
    BY <1>0, <1>5, <2>2 DEF Retry
  <2> QED BY <2>1, <2>2
<1>6. ASSUME NEW e \in Events,
             MissEvent(e) \/ EventMessage(e) \/ EventJob(e) \/ EventCrash(e)
      PROVE  job' \in JobRow
  <2>1. CASE EventJob(e)
    <3>1. e[2] \in Reasons
      BY <2>1 DEF TypeInv, EventJob, OnlyNegativeEvents, Events, Reasons
    <3>2. (IF job.terminal = "complained" THEN "complained" ELSE e[2]) \in Reasons
      BY <3>1, NamesType
    <3> QED BY <1>0, <2>1, <3>2, NamesType DEF EventJob, Negative, JobRow
  <2> QED BY <1>0, <1>6, <2>1 DEF MissEvent, EventMessage, EventCrash
<1>7. CASE LeaseExpires \/ ReservationExpires \/ BackoffEnds \/ WindowCloses
  <2>1. \/ job' = [job EXCEPT !.lease = FALSE]
        \/ job' = [job EXCEPT !.reserved = FALSE]
        \/ job' = [job EXCEPT !.backoff = FALSE]
        \/ job' = [job EXCEPT !.first = "old"]
    BY <1>7 DEF LeaseExpires, ReservationExpires, BackoffEnds, WindowCloses
  <2> QED BY <1>0, <2>1, ZenonT(60) DEF JobRow
<1>8. CASE Exhaust \/ \E ack \in BOOLEAN : OpenRetry(ack)
  BY <1>0, <1>8 DEF Exhaust, OpenRetry
<1> QED BY <1>1, <1>2, <1>3, <1>4, <1>5, <1>6, <1>7, <1>8 DEF Next

LEMMA TypeStep == TypeInv /\ [Next]_vars => TypeInv'
<1> SUFFICES ASSUME TypeInv, [Next]_vars PROVE TypeInv'
  OBVIOUS
<1>0. TypeOK
  BY DEF TypeInv
<1>1. CASE UNCHANGED vars
  BY <1>1 DEF vars, history, TypeInv, TypeOK, OnlyNegativeEvents, RetryBounded
<1>2. ASSUME NEW enqueued \in BOOLEAN, Dispatch(enqueued) PROVE TypeInv'
  BY <1>2, JobType DEF Dispatch, Next, history, TypeInv, TypeOK, OnlyNegativeEvents, RetryBounded
<1>3. ASSUME NEW c \in Consumers, Receive(c) \/ Invoke(c) \/ Crash(c) PROVE TypeInv'
  <2>1. job' \in JobRow /\ consumer' \in [Consumers -> Invocation]
    BY <1>0, <1>3, JobOfConsumerType, ConsumerType
  <2>2. UNCHANGED <<admin, event, oversize, expired>>
    BY <1>3 DEF Receive, Invoke, Crash, Claim, FindMessageSent, ConfirmSent, Prepare,
       PrepareFails, PrecheckFails, Mark, SendAccepted, SendRefused, SendUnknown,
       RecordSent, RecordSentFails, Unmark, RecordFailure, FailMessage,
       Environment, history
  <2>3. message' \in {"queued", "sent", "failed"} /\ queue' \in BOOLEAN
    BY <1>0, <1>3 DEF TypeOK, Receive, Invoke, Crash, Claim, FindMessageSent, ConfirmSent, Prepare,
       PrepareFails, PrecheckFails, Mark, SendAccepted, SendRefused, SendUnknown,
       RecordSent, RecordSentFails, Unmark, RecordFailure, FailMessage, GiveBack, DeadLetter
  <2>4. dlq' \in SUBSET Generations
    <3>1. consumer[c].generation \in Generations /\ dlq \in SUBSET Generations
      BY <1>0, LocalType DEF TypeOK
    <3> QED BY <3>1, <1>3 DEF Receive, Invoke, Crash, Claim, FindMessageSent, ConfirmSent,
       Prepare, PrepareFails, PrecheckFails, Mark, SendAccepted, SendRefused, SendUnknown,
       RecordSent, RecordSentFails, Unmark, RecordFailure, FailMessage, GiveBack,
       DeadLetter, Environment
  <2>5. handedOff' \in [Generations -> Nat]
    <3>1. consumer[c].generation \in Generations /\ handedOff \in [Generations -> Nat]
      BY <1>0, LocalType DEF TypeOK
    <3>2. handedOff' = handedOff \/ CountHandOff(c)
      BY <1>3 DEF Receive, Invoke, Crash, Claim, FindMessageSent, ConfirmSent,
       Prepare, PrepareFails, PrecheckFails, Mark, SendAccepted, SendRefused, SendUnknown,
       RecordSent, RecordSentFails, Unmark, RecordFailure, FailMessage, history
    <3> QED BY <3>1, <3>2 DEF CountHandOff
  <2> QED BY <2>1, <2>2, <2>3, <2>4, <2>5 DEF TypeInv, TypeOK, OnlyNegativeEvents, RetryBounded
<1>4. CASE Exhaust
  BY <1>4, JobColumns DEF Exhaust, TypeInv, TypeOK, OnlyNegativeEvents, RetryBounded
<1>5. ASSUME NEW g \in Generations, NEW written \in BOOLEAN, DrainLetter(g, written)
      PROVE  TypeInv'
  <2>1. job' \in JobRow
    BY <1>5, JobType DEF Next
  <2> QED BY <1>5, <2>1 DEF DrainLetter, history, TypeInv, TypeOK, OnlyNegativeEvents, RetryBounded
<1>6. CASE Sweep \/ LeaseExpires \/ ReservationExpires \/ BackoffEnds \/ WindowCloses
  <2>1. job' \in JobRow
    BY <1>6, JobType DEF Next
  <2>2. expired' \in SUBSET Generations
    BY <1>6, JobColumns DEF Sweep, LeaseExpires, ReservationExpires, BackoffEnds,
       WindowCloses, history, TypeInv, TypeOK
  <2>3. UNCHANGED <<message, queue, consumer, dlq, admin, event, oversize, handedOff>>
    BY <1>6 DEF Sweep, LeaseExpires, ReservationExpires, BackoffEnds, WindowCloses,
       Environment, history
  <2> QED BY <2>1, <2>2, <2>3 DEF TypeInv, TypeOK, OnlyNegativeEvents, RetryBounded
<1>7. ASSUME NEW ack \in BOOLEAN, OpenRetry(ack) PROVE TypeInv'
  <2>1. /\ job.generation \in Generations /\ job.terminal \in Reasons
        /\ job.generation < MaxGeneration
    BY <1>0, <1>7, JobColumns DEF OpenRetry
  <2>2. admin' = [open |-> TRUE, generation |-> job.generation, reason |-> job.terminal]
    BY <1>7 DEF OpenRetry
  <2>3. /\ admin' \in [open : BOOLEAN, generation : Generations, reason : Reasons]
        /\ RetryBounded'
    BY <1>7, <2>1, <2>2 DEF RetryBounded, OpenRetry
  <2> QED BY <1>7, <2>3 DEF OpenRetry, history, TypeInv, TypeOK, OnlyNegativeEvents
<1>8. CASE Retry
  <2>1. job' \in JobRow
    BY <1>8, JobType DEF Next
  <2>2. /\ admin' \in [open : BOOLEAN, generation : Generations, reason : Reasons]
        /\ RetryBounded'
    BY <1>8, NamesType DEF Retry, NoRequest, RetryBounded
  <2> QED BY <1>8, <2>1, <2>2 DEF Retry, history, TypeInv, TypeOK, OnlyNegativeEvents
<1>9. ASSUME NEW e \in Events,
             MissEvent(e) \/ EventMessage(e) \/ EventJob(e) \/ EventCrash(e)
      PROVE  TypeInv'
  <2>1. job' \in JobRow
    BY <1>9, JobType DEF Next
  <2>2. /\ event' \in [Events -> {"new", "job", "processed"}]
        /\ OnlyNegativeEvents'
    BY <1>9 DEF MissEvent, EventMessage, EventJob, EventCrash, OnlyNegativeEvents,
       TypeInv, TypeOK
  <2>3. message' \in {"queued", "sent", "failed"}
    BY <1>9 DEF MissEvent, EventMessage, EventJob, EventCrash, TypeInv, TypeOK
  <2>4. UNCHANGED <<queue, dlq, consumer, admin, oversize, handedOff, expired>>
    BY <1>9 DEF MissEvent, EventMessage, EventJob, EventCrash, history
  <2> QED BY <2>1, <2>2, <2>3, <2>4 DEF TypeInv, TypeOK, RetryBounded
<1> QED BY <1>1, <1>2, <1>3, <1>4, <1>5, <1>6, <1>7, <1>8, <1>9 DEF Next

\* Types, the claim limit included, hold in every reachable state: no race
\* between a claim, a retry and the sweep takes attempts past MaxAttempts.
THEOREM TypeCorrect == Spec => []TypeOK
<1>1. Spec => []TypeInv
  BY TypeInit, TypeStep, PTL DEF Spec
<1>2. TypeInv => TypeOK
  BY DEF TypeInv
<1> QED BY <1>1, <1>2, PTL
(***************************************************************************)
(* At most one hand-off.  The property is not inductive: a hand-off is     *)
(* prevented only by send_attempted_at, which belongs to the current       *)
(* generation and is cleared by the retry and by a proven refusal.  The    *)
(* strengthening says who may hold the marker: one invocation per          *)
(* generation, until its send is decided.                                  *)
(***************************************************************************)
\* No invocation and no hand-off is ahead of the job row.
GenerationBound ==
  /\ \A c \in Consumers : consumer[c].generation <= job.generation
  /\ \A g \in Generations : g > job.generation => handedOff[g] = 0

\* c has set the marker of its generation and nothing of it has left yet.
Owner(c) ==
  \/ consumer[c].pc = "sending"
  \/ consumer[c].pc = "unmark" /\ consumer[c].generation \notin oversize

OwnerFirst ==
  \A c \in Consumers : Owner(c) =>
    /\ handedOff[consumer[c].generation] = 0
    /\ consumer[c].generation \notin oversize
    /\ consumer[c].generation = job.generation => job.sendAttempted

OwnerAlone ==
  \A c, d \in Consumers :
    Owner(c) /\ Owner(d) /\ consumer[c].generation = consumer[d].generation => c = d

MarkerKept == handedOff[job.generation] > 0 => job.sendAttempted

OversizeStays == \A g \in oversize : handedOff[g] = 0

Fence == /\ \A g \in Generations : handedOff[g] <= 1
         /\ OwnerFirst /\ OwnerAlone /\ MarkerKept /\ OversizeStays

HandOffInv == TypeInv /\ GenerationBound /\ (~Idempotent => Fence)

LEMMA HandOffInit == Init => HandOffInv
<1> SUFFICES ASSUME Init PROVE HandOffInv
  OBVIOUS
<1>1. \A c \in Consumers : consumer[c].pc = "idle" /\ consumer[c].generation = 0
  BY DEF Init, Idle
<1>2. \A g \in Generations : handedOff[g] = 0
  BY DEF Init
<1>3. job.generation = 0 /\ oversize \subseteq Generations
  BY DEF Init
<1>4. GenerationBound
  BY <1>1, <1>2, <1>3 DEF GenerationBound
<1>5. Fence
  BY <1>1, <1>2, <1>3 DEF Fence, OwnerFirst, OwnerAlone, Owner, MarkerKept, OversizeStays
<1> QED BY <1>4, <1>5, TypeInit DEF HandOffInv

\* Where a step leaves invocation c, and that it leaves the others alone.
Becomes(c, pc, g) ==
  /\ consumer'[c].pc = pc
  /\ consumer'[c].generation = g
  /\ \A d \in Consumers : d /= c => consumer'[d] = consumer[d]

LEMMA PutBecomes ==
  ASSUME TypeOK, NEW c \in Consumers, NEW r \in Invocation,
         consumer' = [consumer EXCEPT ![c] = r]
  PROVE  Becomes(c, r.pc, r.generation)
<1>1. consumer \in [Consumers -> Invocation]
  BY DEF TypeOK
<1>2. consumer'[c] = r /\ \A d \in Consumers : d /= c => consumer'[d] = consumer[d]
  BY <1>1
<1> QED BY <1>2 DEF Becomes

LEMMA IdleBecomes ==
  ASSUME TypeOK, NEW c \in Consumers, consumer' = [consumer EXCEPT ![c] = Idle]
  PROVE  Becomes(c, "idle", 0)
<1>1. Idle.pc = "idle" /\ Idle.generation = 0
  BY DEF Idle
<1> QED BY <1>1, IdleType, PutBecomes

LEMMA GotoBecomes ==
  ASSUME TypeOK, NEW c \in Consumers, NEW pc \in PCs, Goto(c, pc)
  PROVE  Becomes(c, pc, consumer[c].generation)
<1> DEFINE r == [consumer[c] EXCEPT !.pc = pc]
<1>1. r \in Invocation /\ r.pc = pc /\ r.generation = consumer[c].generation
  BY LocalType DEF Invocation
<1>2. consumer' = [consumer EXCEPT ![c] = r]
  BY DEF Goto
<1> HIDE DEF r
<1> QED BY <1>1, <1>2, PutBecomes

LEMMA FailBecomes ==
  ASSUME TypeOK, NEW c \in Consumers, NEW pc \in PCs, NEW code \in Reasons,
         NEW terminal \in BOOLEAN, Fail(c, pc, code, terminal)
  PROVE  Becomes(c, pc, consumer[c].generation)
<1> DEFINE r == [Idle EXCEPT !.pc = pc, !.generation = consumer[c].generation,
                   !.code = code,
                   !.terminal = terminal \/ consumer[c].attempts >= MaxAttempts]
<1>1. r \in Invocation
  BY IdleType, LocalType DEF Invocation
<1>2. r.pc = pc /\ r.generation = consumer[c].generation
  BY DEF Idle
<1>3. consumer' = [consumer EXCEPT ![c] = r]
  BY DEF Fail
<1> HIDE DEF r
<1> QED BY <1>1, <1>2, <1>3, PutBecomes

LEMMA ProceedBecomes ==
  ASSUME TypeOK, NEW c \in Consumers, Proceed(c)
  PROVE  Becomes(c, "sending", consumer[c].generation)
<1> DEFINE r == [Idle EXCEPT !.pc = "sending", !.generation = consumer[c].generation,
                   !.attempts = consumer[c].attempts]
<1>1. r \in Invocation
  <2>1. "sending" \in PCs
    BY DEF PCs
  <2> QED BY <2>1, IdleType, LocalType DEF Invocation
<1>2. r.pc = "sending" /\ r.generation = consumer[c].generation
  BY DEF Idle
<1>3. consumer' = [consumer EXCEPT ![c] = r]
  BY DEF Proceed
<1> HIDE DEF r
<1> QED BY <1>1, <1>2, <1>3, PutBecomes

\* The steps of an invocation that leave both the marker and the history alone,
\* with the program counter they leave behind.
KeepsMarker ==
  /\ job'.generation = job.generation
  /\ job'.sendAttempted = job.sendAttempted

LEMMA ReceiveBecomes ==
  ASSUME TypeOK, NEW c \in Consumers, Receive(c)
  PROVE  Becomes(c, "idle", consumer[c].generation) \/ Becomes(c, "read", job.generation)
<1> DEFINE r == [Idle EXCEPT !.pc = "read", !.generation = job.generation,
                   !.first = job.first, !.sendAttempted = job.sendAttempted]
<1>1. r \in Invocation /\ r.pc = "read" /\ r.generation = job.generation
  BY IdleType, JobColumns DEF Invocation, Idle, PCs
<1>2. consumer[c].pc = "idle" /\ (consumer' = consumer \/ consumer' = [consumer EXCEPT ![c] = r])
  BY DEF Receive
<1> HIDE DEF r
<1>3. CASE consumer' = consumer
  BY <1>2, <1>3 DEF Becomes
<1>4. CASE consumer' = [consumer EXCEPT ![c] = r]
  BY <1>1, <1>4, PutBecomes
<1> QED BY <1>2, <1>3, <1>4

LEMMA ClaimBecomes ==
  ASSUME TypeOK, NEW c \in Consumers, Claim(c)
  PROVE  Becomes(c, "idle", 0) \/ Becomes(c, "claimed", consumer[c].generation)
<1> DEFINE r == [consumer[c] EXCEPT !.pc = "claimed", !.attempts = job.attempts + 1]
<1>1. CASE Claimable(c)
  <2>1. "claimed" \in PCs /\ job.attempts + 1 \in 0..MaxAttempts
    BY <1>1, JobColumns DEF PCs, Claimable
  <2>2. r \in Invocation /\ r.pc = "claimed" /\ r.generation = consumer[c].generation
    BY <2>1, LocalType DEF Invocation
  <2>3. consumer' = [consumer EXCEPT ![c] = r]
    BY <1>1 DEF Claim
  <2> HIDE DEF r
  <2> QED BY <2>2, <2>3, PutBecomes
<1>2. CASE ~Claimable(c)
  BY <1>2, IdleBecomes DEF Claim
<1> QED BY <1>1, <1>2

LEMMA PrepareBecomes ==
  ASSUME TypeOK, NEW c \in Consumers, Prepare(c)
  PROVE  Becomes(c, "prepared", consumer[c].generation)
<1> DEFINE r == [consumer[c] EXCEPT !.pc = "prepared", !.first = "none"]
<1>1. "prepared" \in PCs
  BY DEF PCs
<1>2. r \in Invocation /\ r.pc = "prepared" /\ r.generation = consumer[c].generation
  BY <1>1, LocalType DEF Invocation
<1>3. consumer' = [consumer EXCEPT ![c] = r]
  BY DEF Prepare
<1> HIDE DEF r
<1> QED BY <1>2, <1>3, PutBecomes

LEMMA FailsBecome ==
  ASSUME TypeOK, NEW c \in Consumers,
         PrepareFails(c) \/ PrecheckFails(c) \/ RecordSentFails(c)
  PROVE  \/ Becomes(c, "fail", consumer[c].generation)
         \/ Becomes(c, "unmark", consumer[c].generation) /\ consumer[c].generation \in oversize
<1>1. /\ {"fail", "unmark"} \subseteq PCs
      /\ {"config", "refused", "delivery_uncertain"} \subseteq Reasons
  BY DEF PCs, Reasons
<1>2. \E pc \in {"fail", "unmark"}, code \in {"config", "refused", "delivery_uncertain"},
         terminal \in BOOLEAN :
        Fail(c, pc, code, terminal) /\ (pc = "unmark" => consumer[c].generation \in oversize)
  <2>1. CASE PrepareFails(c)
    BY <2>1 DEF PrepareFails
  <2>2. CASE PrecheckFails(c)
    BY <2>2 DEF PrecheckFails
  <2>3. CASE RecordSentFails(c)
    BY <2>3 DEF RecordSentFails
  <2> QED BY <2>1, <2>2, <2>3
<1> QED BY <1>1, <1>2, FailBecomes

LEMMA SendFailsBecome ==
  ASSUME TypeOK, NEW c \in Consumers
  PROVE  /\ SendRefused(c) => \/ Becomes(c, "fail", consumer[c].generation) /\ Idempotent
                              \/ Becomes(c, "unmark", consumer[c].generation)
         /\ SendUnknown(c) => Becomes(c, "fail", consumer[c].generation)
<1>1. {"fail", "unmark"} \subseteq PCs /\ {"config", "refused", "delivery_uncertain"} \subseteq Reasons
  BY DEF PCs, Reasons
<1>2. CASE SendRefused(c)
  <2>1. \E pc \in {"fail", "unmark"}, code \in {"config", "refused"}, terminal \in BOOLEAN :
          Fail(c, pc, code, terminal) /\ (pc = "fail" => Idempotent)
    BY <1>2 DEF SendRefused
  <2>2. \E pc \in {"fail", "unmark"} :
          Becomes(c, pc, consumer[c].generation) /\ (pc = "fail" => Idempotent)
    BY <1>1, <2>1, FailBecomes
  <2>3. ~SendUnknown(c) \/ Becomes(c, "fail", consumer[c].generation)
    <3>1. SendUnknown(c) =>
            \E terminal \in BOOLEAN : Fail(c, "fail", "delivery_uncertain", terminal)
      BY DEF SendUnknown
    <3> QED BY <1>1, <3>1, FailBecomes
  <2> QED BY <2>2, <2>3
<1>3. CASE ~SendRefused(c)
  <2>1. SendUnknown(c) =>
          \E terminal \in BOOLEAN : Fail(c, "fail", "delivery_uncertain", terminal)
    BY DEF SendUnknown
  <2> QED BY <1>1, <1>3, <2>1, FailBecomes
<1> QED BY <1>2, <1>3

LEMMA MarkBecomes ==
  ASSUME TypeOK, NEW c \in Consumers, Mark(c)
  PROVE  \/ Becomes(c, "fail", consumer[c].generation) /\ UNCHANGED job
         \/ Becomes(c, "sending", consumer[c].generation) /\ Idempotent /\ UNCHANGED job
         \/ /\ Becomes(c, "sending", consumer[c].generation)
            /\ Unattempted(c)
            /\ job' = [job EXCEPT !.sendAttempted = TRUE]
<1>1. "fail" \in PCs /\ "delivery_uncertain" \in Reasons /\ TRUE \in BOOLEAN
  BY DEF PCs, Reasons
<1>2. Fail(c, "fail", "delivery_uncertain", TRUE) => Becomes(c, "fail", consumer[c].generation)
  BY <1>1, FailBecomes
<1> QED BY <1>2, ProceedBecomes DEF Mark

LEMMA JobKept ==
  ASSUME TypeOK, NEW c \in Consumers, Receive(c) \/ Invoke(c) \/ Crash(c)
  PROVE  /\ job'.generation = job.generation
         /\ ~Mark(c) /\ ~Unmark(c) => KeepsMarker
<1>1. job \in JobRow
  BY JobColumns
<1>2. CASE UNCHANGED job
  BY <1>2 DEF KeepsMarker
<1>3. CASE Claim(c)
  BY <1>1, <1>3 DEF Claim, KeepsMarker, JobRow
<1>4. CASE Prepare(c) \/ ConfirmSent(c)
  BY <1>1, <1>4 DEF Prepare, ConfirmSent, KeepsMarker, JobRow
<1>5. CASE RecordSent(c) \/ RecordFailure(c)
  BY <1>1, <1>5 DEF RecordSent, RecordFailure, KeepsMarker, JobRow
<1>6. CASE Mark(c) \/ Unmark(c)
  BY <1>1, <1>6, ZenonT(60) DEF Mark, Unmark, JobRow
<1> QED BY <1>2, <1>3, <1>4, <1>5, <1>6 DEF Invoke, Receive, Crash,
     FindMessageSent, PrepareFails, PrecheckFails, SendAccepted, SendRefused,
     SendUnknown, RecordSentFails, FailMessage

\* What a step of invocation c does to the facts above.
Others(c) ==
  /\ \A d \in Consumers : d /= c => consumer'[d] = consumer[d]
  /\ consumer'[c].generation \in {0, consumer[c].generation, job.generation}
  /\ job'.generation = job.generation
  /\ oversize' = oversize

Quiet(c) ==
  /\ handedOff' = handedOff
  /\ job'.sendAttempted = job.sendAttempted
  /\ Owner(c)' => Owner(c) /\ consumer'[c].generation = consumer[c].generation

Marks(c) ==
  /\ handedOff' = handedOff
  /\ ~job.sendAttempted /\ job'.sendAttempted
  /\ consumer[c].generation = job.generation
  /\ consumer'[c].generation = job.generation
  /\ consumer[c].generation \notin oversize

Hands(c) ==
  /\ consumer[c].pc = "sending" /\ ~Owner(c)'
  /\ CountHandOff(c)
  /\ job'.sendAttempted = job.sendAttempted

Clears(c) ==
  /\ ~Owner(c)'
  /\ handedOff' = handedOff
  /\ Owner(c) \/ consumer[c].generation \in oversize
  /\ consumer[c].generation /= job.generation => job'.sendAttempted = job.sendAttempted

LEMMA InvocationEffect ==
  ASSUME TypeOK, NEW c \in Consumers, Receive(c) \/ Invoke(c) \/ Crash(c)
  PROVE  /\ Others(c)
         /\ handedOff' = handedOff \/ Hands(c)
         /\ ~Idempotent => Quiet(c) \/ Marks(c) \/ Hands(c) \/ Clears(c)
<1>1. job'.generation = job.generation /\ oversize' = oversize
  BY JobKept DEF Receive, Invoke, Crash, Claim, FindMessageSent, ConfirmSent, Prepare,
     PrepareFails, PrecheckFails, Mark, SendAccepted, SendRefused, SendUnknown,
     RecordSent, RecordSentFails, Unmark, RecordFailure, FailMessage, Environment
<1>2. CASE Receive(c)
  <2>1. handedOff' = handedOff
    BY <1>2 DEF Receive, history
  <2>2. KeepsMarker
    BY <1>2 DEF Receive, KeepsMarker
  <2> QED BY <1>1, <1>2, <2>1, <2>2, ReceiveBecomes DEF Becomes, KeepsMarker, Others, Quiet, Owner
<1>3. CASE Claim(c)
  <2>1. handedOff' = handedOff /\ consumer[c].pc = "read"
    BY <1>3 DEF Claim, history
  <2>2. KeepsMarker
    BY <1>3, <2>1, JobKept DEF Mark, Unmark
  <2> QED BY <1>1, <1>3, <2>1, <2>2, ClaimBecomes DEF Becomes, KeepsMarker, Others, Quiet, Owner
<1>4. CASE Prepare(c)
  <2>1. handedOff' = handedOff /\ consumer[c].pc = "claimed"
    BY <1>4 DEF Prepare, history
  <2>2. KeepsMarker
    BY <1>4, <2>1, JobKept DEF Mark, Unmark
  <2> QED BY <1>1, <1>4, <2>1, <2>2, PrepareBecomes DEF Becomes, KeepsMarker, Others, Quiet, Owner
<1>5. CASE ConfirmSent(c) \/ RecordSent(c) \/ FailMessage(c) \/ Crash(c)
  <2>1. handedOff' = handedOff
    BY <1>5 DEF ConfirmSent, RecordSent, FailMessage, Crash, history
  <2>2. Becomes(c, "idle", 0)
    BY <1>5, IdleBecomes DEF ConfirmSent, RecordSent, FailMessage, Crash
  <2>3. KeepsMarker
    <3>1. CASE UNCHANGED job
      BY <3>1 DEF KeepsMarker
    <3>2. CASE ConfirmSent(c) \/ RecordSent(c)
      BY <3>2, JobKept DEF ConfirmSent, RecordSent, Mark, Unmark
    <3> QED BY <1>5, <3>1, <3>2 DEF FailMessage, Crash
  <2> QED BY <1>1, <2>1, <2>2, <2>3 DEF Becomes, KeepsMarker, Others, Quiet, Owner
<1>6. CASE FindMessageSent(c) \/ RecordFailure(c)
  <2>1. handedOff' = handedOff
    BY <1>6 DEF FindMessageSent, RecordFailure, history
  <2>2. \/ Becomes(c, "confirm", consumer[c].generation)
        \/ Becomes(c, "failMessage", consumer[c].generation)
    <3>1. {"confirm", "failMessage"} \subseteq PCs
      BY DEF PCs
    <3> QED BY <1>6, <3>1, GotoBecomes DEF FindMessageSent, RecordFailure
  <2>3. KeepsMarker
    BY <1>6, JobKept DEF FindMessageSent, RecordFailure, Mark, Unmark
  <2> QED BY <1>1, <2>1, <2>2, <2>3 DEF Becomes, KeepsMarker, Others, Quiet, Owner
<1>7. CASE PrepareFails(c) \/ PrecheckFails(c) \/ RecordSentFails(c)
  <2>1. handedOff' = handedOff /\ UNCHANGED job
    BY <1>7 DEF PrepareFails, PrecheckFails, RecordSentFails, history
  <2> QED BY <1>1, <1>7, <2>1, FailsBecome DEF Becomes, Others, Quiet, Owner
<1>8. CASE SendRefused(c)
  <2>1. handedOff' = handedOff /\ UNCHANGED job /\ consumer[c].pc = "sending"
    BY <1>8 DEF SendRefused, history
  <2> QED BY <1>1, <1>8, <2>1, SendFailsBecome DEF Becomes, Others, Quiet, Owner
<1>9. CASE SendAccepted(c) \/ SendUnknown(c)
  <2>1. CountHandOff(c) /\ UNCHANGED job /\ consumer[c].pc = "sending"
    BY <1>9 DEF SendAccepted, SendUnknown
  <2>2. \/ Becomes(c, "record", consumer[c].generation)
        \/ Becomes(c, "fail", consumer[c].generation)
    <3>1. "record" \in PCs
      BY DEF PCs
    <3> QED BY <1>9, <3>1, GotoBecomes, SendFailsBecome DEF SendAccepted
  <2> QED BY <1>1, <2>1, <2>2 DEF Becomes, Others, Hands, Owner
<1>10. CASE Mark(c)
  <2>1. handedOff' = handedOff /\ consumer[c].generation \notin oversize
    BY <1>10 DEF Mark, history
  <2>2. job' = [job EXCEPT !.sendAttempted = TRUE] => job'.sendAttempted
    BY JobColumns DEF JobRow
  <2> QED BY <1>1, <1>10, <2>1, <2>2, MarkBecomes DEF Becomes, Others, Quiet, Marks, Owner,
       Unattempted
<1>11. CASE Unmark(c)
  <2>1. handedOff' = handedOff /\ consumer[c].pc = "unmark"
    BY <1>11 DEF Unmark, history
  <2>2. "fail" \in PCs
    BY DEF PCs
  <2>3. Becomes(c, "fail", consumer[c].generation)
    BY <1>11, <2>2, GotoBecomes DEF Unmark
  <2>4. consumer[c].generation /= job.generation => job'.sendAttempted = job.sendAttempted
    BY <1>11 DEF Unmark
  <2> QED BY <1>1, <2>1, <2>3, <2>4 DEF Becomes, Others, Clears, Owner
<1> QED BY <1>2, <1>3, <1>4, <1>5, <1>6, <1>7, <1>8, <1>9, <1>10, <1>11 DEF Invoke

\* A step of another actor: it keeps the marker or opens a generation.
Reopens ==
  /\ admin.open /\ StillStopped
  /\ job'.generation = job.generation + 1
  /\ ~job'.sendAttempted
  /\ job'.first = "none"
  /\ job'.terminal = "none"

Actor ==
  \/ \E enqueued \in BOOLEAN : Dispatch(enqueued)
  \/ Exhaust
  \/ \E g \in Generations, written \in BOOLEAN : DrainLetter(g, written)
  \/ Sweep
  \/ \E ack \in BOOLEAN : OpenRetry(ack)
  \/ Retry
  \/ \E e \in Events : MissEvent(e) \/ EventMessage(e) \/ EventJob(e) \/ EventCrash(e)
  \/ LeaseExpires \/ ReservationExpires \/ BackoffEnds \/ WindowCloses

LEMMA ActorEffect ==
  ASSUME TypeOK, Actor
  PROVE  /\ UNCHANGED <<consumer, oversize, handedOff>>
         /\ \/ KeepsMarker /\ job'.first = job.first /\ expired' = expired
            \/ KeepsMarker /\ WindowCloses
            \/ Reopens /\ expired' = expired
<1>0. job \in JobRow
  BY JobColumns
<1>1. CASE \E enqueued \in BOOLEAN : Dispatch(enqueued)
  BY <1>0, <1>1 DEF Dispatch, history, KeepsMarker, JobRow
<1>2. CASE \/ Exhaust \/ \E ack \in BOOLEAN : OpenRetry(ack)
           \/ \E e \in Events : MissEvent(e) \/ EventMessage(e) \/ EventCrash(e)
  BY <1>2 DEF Exhaust, OpenRetry, MissEvent, EventMessage, EventCrash, history, KeepsMarker
<1>3. CASE \E g \in Generations, written \in BOOLEAN : DrainLetter(g, written)
  BY <1>0, <1>3 DEF DrainLetter, history, KeepsMarker, JobRow
<1>4. CASE Sweep
  <2> DEFINE j == Unstall(job)
  <2>1. /\ j.generation = job.generation /\ j.sendAttempted = job.sendAttempted
        /\ j.first = job.first /\ j \in JobRow
    BY <1>0, NamesType DEF Unstall, JobRow
  <2> HIDE DEF j
  <2>2. LET k == StopSpent(j) IN /\ k.generation = j.generation
                                 /\ k.sendAttempted = j.sendAttempted
                                 /\ k.first = j.first
    BY <2>1 DEF StopSpent, JobRow
  <2>3. job' = StopSpent(j)
    BY <1>4 DEF Sweep, j
  <2> QED BY <1>4, <2>1, <2>2, <2>3 DEF Sweep, Environment, history, KeepsMarker
<1>5. CASE Retry
  <2>1. CASE StillStopped
    BY <1>0, <1>5, <2>1 DEF Retry, history, Reopens, JobRow
  <2>2. CASE ~StillStopped
    BY <1>5, <2>2 DEF Retry, history, KeepsMarker
  <2> QED BY <2>1, <2>2
<1>6. ASSUME NEW e \in Events, EventJob(e)
      PROVE  /\ UNCHANGED <<consumer, oversize, handedOff, expired>>
             /\ KeepsMarker /\ job'.first = job.first
  BY <1>0, <1>6 DEF EventJob, Negative, history, KeepsMarker, JobRow
<1>7. CASE LeaseExpires \/ ReservationExpires \/ BackoffEnds
  <2>1. \/ job' = [job EXCEPT !.lease = FALSE]
        \/ job' = [job EXCEPT !.reserved = FALSE]
        \/ job' = [job EXCEPT !.backoff = FALSE]
    BY <1>7 DEF LeaseExpires, ReservationExpires, BackoffEnds
  <2>2. KeepsMarker /\ job'.first = job.first
    BY <1>0, <2>1 DEF KeepsMarker, JobRow
  <2> QED BY <1>7, <2>2 DEF LeaseExpires, ReservationExpires, BackoffEnds, Environment, history
<1>8. CASE WindowCloses
  <2>1. KeepsMarker
    BY <1>0, <1>8 DEF WindowCloses, KeepsMarker, JobRow
  <2> QED BY <1>8, <2>1 DEF WindowCloses, Environment
<1> QED BY <1>1, <1>2, <1>3, <1>4, <1>5, <1>6, <1>7, <1>8 DEF Actor

LEMMA BoundStep ==
  ASSUME TypeOK, GenerationBound, Next
  PROVE  GenerationBound'
<1>1. /\ job.generation \in Nat
      /\ handedOff \in [Generations -> Nat]
      /\ \A c \in Consumers : consumer[c].generation \in Generations
  BY JobColumns, LocalType DEF TypeOK
<1>2. ASSUME NEW c \in Consumers, Receive(c) \/ Invoke(c) \/ Crash(c)
      PROVE  GenerationBound'
  <2>1. Others(c) /\ (handedOff' = handedOff \/ Hands(c))
    BY <1>2, InvocationEffect
  <2>2. \A d \in Consumers : consumer'[d].generation <= job'.generation
    BY <1>1, <2>1 DEF Others, GenerationBound
  <2>3. \A g \in Generations : g > job'.generation => handedOff'[g] = 0
    <3>1. job'.generation = job.generation
      BY <2>1 DEF Others
    <3>2. CASE CountHandOff(c)
      <4>1. \A g \in Generations : g > job.generation => g /= consumer[c].generation
        BY <1>1 DEF GenerationBound
      <4>2. \A g \in Generations : g > job.generation => handedOff'[g] = handedOff[g]
        BY <1>1, <3>2, <4>1 DEF CountHandOff
      <4> QED BY <3>1, <4>2 DEF GenerationBound
    <3>3. CASE handedOff' = handedOff
      BY <3>1, <3>3 DEF GenerationBound
    <3> QED BY <2>1, <3>2, <3>3 DEF Hands
  <2> QED BY <2>2, <2>3 DEF GenerationBound
<1>3. CASE Actor
  <2>1. job'.generation = job.generation \/ job'.generation = job.generation + 1
    BY <1>3, ActorEffect DEF KeepsMarker, Reopens
  <2> QED BY <1>1, <1>3, <2>1, ActorEffect DEF GenerationBound
<1> QED BY <1>2, <1>3 DEF Next, Actor

LEMMA FenceStep ==
  ASSUME TypeInv, GenerationBound, ~Idempotent, Fence, Next
  PROVE  Fence'
<1>0. TypeOK
  BY DEF TypeInv
<1>1. /\ job.generation \in Generations
      /\ handedOff \in [Generations -> Nat]
      /\ oversize \subseteq Generations
      /\ \A c \in Consumers : consumer[c].generation \in Generations
  BY <1>0, JobColumns, LocalType DEF TypeOK
<1>2. ASSUME NEW c \in Consumers, Receive(c) \/ Invoke(c) \/ Crash(c)
      PROVE  Fence'
  <2>1. Others(c) /\ (Quiet(c) \/ Marks(c) \/ Hands(c) \/ Clears(c))
    BY <1>0, <1>2, InvocationEffect
  <2>2. \A d \in Consumers : d /= c =>
          (Owner(d)' <=> Owner(d)) /\ consumer'[d].generation = consumer[d].generation
    BY <2>1 DEF Others, Owner
  <2>3. CASE Quiet(c)
    BY <1>1, <2>1, <2>2, <2>3 DEF Others, Quiet, Fence, OwnerFirst, OwnerAlone, MarkerKept,
       OversizeStays
  <2>4. CASE Marks(c)
    <3>1. handedOff[job.generation] = 0
      BY <1>1, <2>4 DEF Marks, Fence, MarkerKept
    <3>2. \A d \in Consumers : Owner(d) => consumer[d].generation /= job.generation
      BY <2>4 DEF Marks, Fence, OwnerFirst
    <3>3. OwnerFirst'
      BY <2>1, <2>2, <2>4, <3>1 DEF Others, Marks, Fence, OwnerFirst
    <3>4. OwnerAlone'
      BY <2>1, <2>2, <2>4, <3>2 DEF Others, Marks, Fence, OwnerAlone
    <3> QED BY <2>1, <2>4, <3>3, <3>4 DEF Others, Marks, Fence, MarkerKept, OversizeStays
  <2>5. CASE Hands(c)
    <3>1. /\ Owner(c)
          /\ handedOff[consumer[c].generation] = 0
          /\ consumer[c].generation \notin oversize
          /\ consumer[c].generation = job.generation => job.sendAttempted
      BY <2>5 DEF Hands, Owner, Fence, OwnerFirst
    <3>2. handedOff' = [handedOff EXCEPT ![consumer[c].generation] = 1]
      BY <1>1, <2>5, <3>1 DEF Hands, CountHandOff
    <3>3. \A d \in Consumers : Owner(d)' =>
            Owner(d) /\ d /= c /\ consumer[d].generation /= consumer[c].generation
      BY <2>2, <2>5, <3>1 DEF Hands, Fence, OwnerAlone
    <3>4. OwnerFirst' /\ OwnerAlone'
      BY <1>1, <2>1, <2>2, <2>5, <3>2, <3>3 DEF Others, Hands, Fence, OwnerFirst, OwnerAlone
    <3>5. MarkerKept'
      BY <1>1, <2>1, <2>5, <3>1, <3>2 DEF Others, Hands, Fence, MarkerKept
    <3>6. OversizeStays' /\ \A g \in Generations : handedOff'[g] <= 1
      BY <1>1, <2>1, <3>1, <3>2 DEF Others, Fence, OversizeStays
    <3> QED BY <3>4, <3>5, <3>6 DEF Fence
  <2>6. CASE Clears(c)
    <3>1. handedOff[consumer[c].generation] = 0
      BY <1>1, <2>6 DEF Clears, Fence, OwnerFirst, OversizeStays
    <3>2. \A d \in Consumers : Owner(d)' =>
            Owner(d) /\ d /= c /\ consumer[d].generation /= consumer[c].generation
      BY <2>2, <2>6 DEF Clears, Fence, OwnerFirst, OwnerAlone
    <3>3. OwnerFirst' /\ OwnerAlone'
      BY <2>1, <2>2, <2>6, <3>2 DEF Others, Clears, Fence, OwnerFirst, OwnerAlone
    <3>4. MarkerKept'
      BY <2>1, <2>6, <3>1 DEF Others, Clears, Fence, MarkerKept
    <3> QED BY <2>1, <2>6, <3>3, <3>4 DEF Others, Clears, Fence, OversizeStays
  <2> QED BY <2>1, <2>3, <2>4, <2>5, <2>6
<1>3. CASE Actor
  <2>1. UNCHANGED <<consumer, oversize, handedOff>> /\ (KeepsMarker \/ Reopens)
    BY <1>0, <1>3, ActorEffect
  <2>2. CASE KeepsMarker
    BY <2>1, <2>2 DEF KeepsMarker, Fence, OwnerFirst, OwnerAlone, Owner, MarkerKept, OversizeStays
  <2>3. CASE Reopens
    <3>1. job'.generation \in Generations
      BY JobType DEF JobRow
    <3>2. handedOff[job'.generation] = 0
      BY <1>1, <2>3, <3>1 DEF Reopens, GenerationBound
    <3>3. \A c \in Consumers : consumer[c].generation /= job'.generation
      BY <1>1, <2>3 DEF Reopens, GenerationBound
    <3>4. \A c \in Consumers : Owner(c)' <=> Owner(c)
      BY <2>1 DEF Owner
    <3>5. OwnerFirst' /\ OwnerAlone'
      BY <2>1, <3>3, <3>4 DEF Fence, OwnerFirst, OwnerAlone
    <3>6. MarkerKept' /\ OversizeStays'
      BY <2>1, <3>2 DEF Fence, MarkerKept, OversizeStays
    <3> QED BY <2>1, <3>5, <3>6 DEF Fence
  <2> QED BY <2>1, <2>2, <2>3
<1> QED BY <1>2, <1>3 DEF Next, Actor

LEMMA HandOffStep == HandOffInv /\ [Next]_vars => HandOffInv'
<1> SUFFICES ASSUME HandOffInv, [Next]_vars PROVE HandOffInv'
  OBVIOUS
<1>1. TypeInv'
  BY TypeStep DEF HandOffInv
<1>2. CASE Next
  BY <1>1, <1>2, BoundStep, FenceStep DEF HandOffInv, TypeInv
<1>3. CASE UNCHANGED vars
  BY <1>1, <1>3 DEF vars, history, HandOffInv, GenerationBound, Fence, OwnerFirst, OwnerAlone,
     Owner, MarkerKept, OversizeStays
<1> QED BY <1>2, <1>3

\* With a provider that cannot recognise a repeated send, no interleaving of
\* invocations, dead letters, sweeps, retries and crashes calls it twice for one
\* generation, however many invocations run together.
THEOREM HandsOffAtMostOnce == Spec => []AtMostOneHandOff
<1>1. Spec => []HandOffInv
  BY HandOffInit, HandOffStep, PTL DEF Spec
<1>2. HandOffInv => AtMostOneHandOff
  BY DEF HandOffInv, Fence, AtMostOneHandOff
<1> QED BY <1>1, <1>2, PTL

(***************************************************************************)
(* The outbox implements MailPromise.  The mapping counts a generation as  *)
(* one copy however often its idempotency key is presented; what remains   *)
(* is that hand-offs belong to generations already opened, and that no     *)
(* retry undoes a complaint it had not seen.                               *)
(***************************************************************************)
PromiseInv == TypeInv /\ GenerationBound

Copies == [g \in Generations |-> IF handedOff[g] > 0 THEN 1 ELSE 0]

\* A recorded complaint outlives every step but nothing else need.
ComplaintKept == job.terminal = "complained" => job'.terminal = "complained"

LEMMA ComplaintInvocation ==
  ASSUME TypeOK, NEW c \in Consumers, Receive(c) \/ Invoke(c) \/ Crash(c)
  PROVE  ComplaintKept /\ (handedOff' = handedOff \/ job' = job)
<1>0. job \in JobRow
  BY JobColumns
<1>1. CASE RecordFailure(c)
  BY <1>0, <1>1 DEF RecordFailure, ComplaintKept, history
<1>2. CASE Claim(c)
  BY <1>0, <1>2 DEF Claim, ComplaintKept, JobRow, history
<1>3. CASE ConfirmSent(c) \/ Prepare(c)
  BY <1>0, <1>3 DEF ConfirmSent, Prepare, ComplaintKept, JobRow, history
<1>4. CASE RecordSent(c)
  BY <1>0, <1>4 DEF RecordSent, ComplaintKept, JobRow, history
<1>5. CASE Mark(c) \/ Unmark(c)
  BY <1>0, <1>5 DEF Mark, Unmark, ComplaintKept, JobRow, history
<1>6. CASE UNCHANGED job
  BY <1>6 DEF ComplaintKept
<1> QED BY <1>1, <1>2, <1>3, <1>4, <1>5, <1>6 DEF Invoke, Receive, Crash,
     FindMessageSent, PrepareFails, PrecheckFails, SendAccepted, SendRefused,
     SendUnknown, RecordSentFails, FailMessage

LEMMA ComplaintActor ==
  ASSUME TypeInv, Actor
  PROVE  ComplaintKept
<1>0. job \in JobRow
  BY JobColumns DEF TypeInv
<1>1. CASE \E g \in Generations, written \in BOOLEAN : DrainLetter(g, written)
  BY <1>0, <1>1 DEF DrainLetter, ComplaintKept
<1>2. CASE Sweep
  <2> DEFINE j == Unstall(job)
  <2>1. j.terminal = job.terminal /\ j \in JobRow
    BY <1>0, NamesType DEF Unstall, JobRow
  <2> HIDE DEF j
  <2>2. j.terminal = "complained" => StopSpent(j) = j
    BY DEF StopSpent
  <2>3. job' = StopSpent(j)
    BY <1>2 DEF Sweep, j
  <2> QED BY <2>1, <2>2, <2>3 DEF ComplaintKept
<1>3. CASE Retry
  <2>1. CASE StillStopped
    <3>1. job.terminal /= "complained"
      BY <1>3, <2>1 DEF Retry, StillStopped, TypeInv, RetryBounded
    <3> QED BY <3>1 DEF ComplaintKept
  <2>2. CASE ~StillStopped
    BY <1>3, <2>2 DEF Retry, ComplaintKept
  <2> QED BY <2>1, <2>2
<1>4. CASE \E e \in Events : EventJob(e)
  BY <1>0, <1>4 DEF EventJob, Negative, ComplaintKept, JobRow
<1>5. CASE \E enqueued \in BOOLEAN : Dispatch(enqueued)
  BY <1>0, <1>5 DEF Dispatch, ComplaintKept, JobRow
<1>6. CASE LeaseExpires \/ ReservationExpires \/ BackoffEnds \/ WindowCloses
  <2>1. \/ job' = [job EXCEPT !.lease = FALSE]
        \/ job' = [job EXCEPT !.reserved = FALSE]
        \/ job' = [job EXCEPT !.backoff = FALSE]
        \/ job' = [job EXCEPT !.first = "old"]
    BY <1>6 DEF LeaseExpires, ReservationExpires, BackoffEnds, WindowCloses
  <2> QED BY <1>0, <2>1 DEF ComplaintKept, JobRow
<1>7. CASE UNCHANGED job
  BY <1>7 DEF ComplaintKept
<1> QED BY <1>1, <1>2, <1>3, <1>4, <1>5, <1>6, <1>7 DEF Actor, Exhaust, OpenRetry, MissEvent,
     EventMessage, EventCrash

LEMMA PromiseInvStep == PromiseInv /\ [Next]_vars => PromiseInv'
<1> SUFFICES ASSUME PromiseInv, [Next]_vars PROVE PromiseInv'
  OBVIOUS
<1>1. TypeInv'
  BY TypeStep DEF PromiseInv
<1>2. CASE Next
  BY <1>1, <1>2, BoundStep DEF PromiseInv, TypeInv
<1>3. CASE UNCHANGED vars
  BY <1>1, <1>3 DEF vars, history, PromiseInv, GenerationBound
<1> QED BY <1>2, <1>3

LEMMA PromiseInit == Init => Promise!Init
  BY DEF Init, Promise!Init, Generations

LEMMA PromiseStep ==
  PromiseInv /\ [Next]_vars => [Promise!Next]_(Promise!promiseVars)
<1> SUFFICES ASSUME PromiseInv, [Next]_vars
             PROVE  [Promise!Next]_(Promise!promiseVars)
  OBVIOUS
<1>0. /\ TypeOK /\ TypeInv /\ GenerationBound
      /\ job.generation \in Generations
      /\ handedOff \in [Generations -> Nat]
      /\ \A c \in Consumers : consumer[c].generation \in Generations
  BY JobColumns, LocalType DEF PromiseInv, TypeInv, TypeOK
<1> DEFINE blocked == job.terminal = "complained"
<1>1. ASSUME job'.generation = job.generation, Copies' = Copies, ComplaintKept
      PROVE  [Promise!Next]_(Promise!promiseVars)
  <2>1. CASE job'.terminal = "complained"
    BY <1>1, <2>1 DEF Promise!Next, Promise!Complain, Promise!promiseVars, Copies
  <2>2. CASE job'.terminal /= "complained"
    BY <1>1, <2>2 DEF ComplaintKept, Promise!promiseVars, Copies
  <2> QED BY <2>1, <2>2
<1>2. ASSUME NEW c \in Consumers, Receive(c) \/ Invoke(c) \/ Crash(c)
      PROVE  [Promise!Next]_(Promise!promiseVars)
  <2>1. ComplaintKept /\ (handedOff' = handedOff \/ job' = job)
    BY <1>0, <1>2, ComplaintInvocation
  <2>2. job'.generation = job.generation /\ (handedOff' = handedOff \/ Hands(c))
    BY <1>0, <1>2, InvocationEffect DEF Others
  <2>3. CASE handedOff' = handedOff
    BY <1>1, <2>1, <2>2, <2>3 DEF Copies
  <2>4. CASE handedOff' /= handedOff
    <3>0. PICK g \in Generations : g = consumer[c].generation
      BY <1>0
    <3>1. job' = job /\ handedOff' = [handedOff EXCEPT ![g] = @ + 1]
      BY <2>1, <2>2, <2>4, <3>0 DEF Hands, CountHandOff
    <3>2. g \in Generations /\ g <= job.generation
      BY <1>0, <3>0 DEF GenerationBound
    <3>3. CASE handedOff[g] > 0
      <4>1. Copies' = Copies
        BY <1>0, <3>1, <3>2, <3>3 DEF Copies
      <4> QED BY <1>1, <2>1, <3>1, <4>1
    <3>4. CASE ~(handedOff[g] > 0)
      <4>1. Copies' = [Copies EXCEPT ![g] = 1] /\ Copies[g] = 0
        <5>1. handedOff[g] = 0 /\ handedOff'[g] = 1
          BY <1>0, <3>1, <3>2, <3>4
        <5>2. \A h \in Generations : h /= g => handedOff'[h] = handedOff[h]
          BY <1>0, <3>1, <3>2
        <5>3. Copies' = [h \in Generations |-> IF handedOff'[h] > 0 THEN 1 ELSE 0]
          BY DEF Copies
        <5>4. Copies'[g] = 1 /\ \A h \in Generations : h /= g => Copies'[h] = Copies[h]
          BY <3>2, <5>1, <5>2, <5>3 DEF Copies
        <5>5. Copies[g] = 0
          BY <3>2, <5>1 DEF Copies
        <5> QED BY <3>2, <5>3, <5>4, <5>5 DEF Copies
      <4>2. Promise!HandOff(g)
        BY <3>1, <3>2, <4>1 DEF Promise!HandOff, Copies
      <4> QED BY <3>2, <4>2 DEF Promise!Next
    <3> QED BY <3>3, <3>4
  <2> QED BY <2>3, <2>4
<1>3. CASE Actor
  <2>1. ComplaintKept /\ handedOff' = handedOff /\ (KeepsMarker \/ Reopens)
    BY <1>0, <1>3, ComplaintActor, ActorEffect
  <2>2. CASE KeepsMarker
    BY <1>1, <2>1, <2>2 DEF KeepsMarker, Copies
  <2>3. CASE Reopens
    <3>1. job.terminal /= "complained" /\ job'.terminal /= "complained"
      BY <1>0, <2>3 DEF Reopens, StillStopped, TypeInv, RetryBounded
    <3>2. job.generation < MaxGeneration /\ job'.generation = job.generation + 1
      BY <1>0, <2>3 DEF Reopens, StillStopped, TypeInv, RetryBounded
    <3>3. Promise!Reopen
      BY <2>1, <3>1, <3>2 DEF Promise!Reopen
    <3> QED BY <3>3 DEF Promise!Next
  <2> QED BY <2>1, <2>2, <2>3
<1>4. CASE UNCHANGED vars
  <2>1. Copies' = Copies /\ job' = job
    BY <1>4 DEF vars, history, Copies
  <2> QED BY <1>1, <2>1 DEF ComplaintKept
<1> QED BY <1>2, <1>3, <1>4 DEF Next, Actor

\* Every behaviour of the outbox is one MailPromise allows: one mail at most per
\* idempotency key, keys opened one at a time by the administrator only, and
\* never another one after a complaint is on record.
THEOREM ImplementsPromise == Spec => KeepsPromise
<1>1. Init => PromiseInv
  BY HandOffInit DEF HandOffInv, PromiseInv
<1> QED BY <1>1, PromiseInvStep, PromiseInit, PromiseStep, PTL DEF Spec, KeepsPromise, Promise!Spec

(***************************************************************************)
(* The window and the risk.  Both rest on what an invocation read of       *)
(* first_attempt_at and on what the row says of it now: the envelope is    *)
(* written without a generation, so a slow invocation may write it into    *)
(* the next one, and the window may only close when nobody is under way.   *)
(***************************************************************************)
\* c has read the job and not yet passed the window check.
Reading(c) == consumer[c].pc \in {"read", "claimed"}

\* c is past the window check, its mail not handed off yet.
Sending(c) == consumer[c].pc \in {"prepared", "sending"}

Current(c) == consumer[c].generation = job.generation

\* first_attempt_at is set before any mail of its generation can leave.
FirstWritten ==
  /\ handedOff[job.generation] > 0 => job.first /= "none"
  /\ \A c \in Consumers : Current(c) =>
       /\ Sending(c) => job.first /= "none"
       /\ Reading(c) /\ consumer[c].first /= "none" => job.first /= "none"

\* A generation whose window has closed shows it, and nobody who may still send
\* is of such a generation.
WindowKept ==
  /\ \A g \in expired : g <= job.generation
  /\ job.generation \in expired => job.first = "old"
  /\ \A c \in Consumers :
       /\ Sending(c) => consumer[c].generation \notin expired
       /\ Reading(c) /\ consumer[c].first /= "old" =>
            {job.generation, consumer[c].generation} \cap expired = {}

\* Whatever says that the mail went out says so after a hand-off.
HandedOver == \E g \in Generations : handedOff[g] > 0

SentKnown ==
  /\ message = "sent" \/ job.status = "sent" => HandedOver
  /\ \A c \in Consumers : consumer[c].pc \in {"confirm", "record"} => HandedOver

WindowInv == PromiseInv /\ FirstWritten /\ WindowKept

SentInv == TypeInv /\ SentKnown

LEMMA WindowInit == Init => WindowInv
<1> SUFFICES ASSUME Init PROVE WindowInv
  OBVIOUS
<1>1. PromiseInv
  BY HandOffInit DEF HandOffInv, PromiseInv
<1>2. \A c \in Consumers : consumer[c].pc = "idle"
  BY DEF Init, Idle
<1>3. /\ job.generation \in Generations /\ \A g \in Generations : handedOff[g] = 0
      /\ expired = {}
  BY DEF Init
<1>4. FirstWritten
  BY <1>2, <1>3 DEF FirstWritten, Sending, Reading
<1>5. WindowKept
  BY <1>2, <1>3 DEF WindowKept, Sending, Reading
<1> QED BY <1>1, <1>4, <1>5 DEF WindowInv

\* What a step of invocation c does to its place before or after the window
\* check, to what it read of first_attempt_at, and to the column itself.
Reads(c) ==
  /\ Reading(c)' /\ ~Sending(c)'
  /\ consumer'[c].generation = job.generation
  /\ consumer'[c].first = job.first
  /\ job' = job

GoesOn(c) ==
  /\ consumer'[c].generation = consumer[c].generation
  /\ Reading(c)' => Reading(c) /\ consumer'[c].first = consumer[c].first
  /\ Sending(c)' => Sending(c)
  /\ job'.first = job.first

Passes(c) ==
  /\ Reading(c) /\ ~Reading(c)' /\ Sending(c)'
  /\ consumer[c].first /= "old"
  /\ consumer'[c].generation = consumer[c].generation
  /\ job'.first = IF consumer[c].first = "none" THEN "recent" ELSE job.first

Leaves(c) ==
  /\ ~Reading(c)' /\ ~Sending(c)'
  /\ job'.first = job.first

\* consumer'[c] under a replacement of the locals of c.
LEMMA PutLocal ==
  ASSUME TypeOK, NEW c \in Consumers, NEW r, consumer' = [consumer EXCEPT ![c] = r]
  PROVE  consumer'[c] = r
  BY DEF TypeOK

LEMMA ColumnKept ==
  ASSUME TypeOK, NEW c \in Consumers, Receive(c) \/ Invoke(c) \/ Crash(c), ~Prepare(c)
  PROVE  job'.first = job.first
<1>1. job \in JobRow
  BY JobColumns
<1>2. CASE UNCHANGED job
  BY <1>2
<1>3. CASE Claim(c)
  BY <1>1, <1>3 DEF Claim, JobRow
<1>4. CASE ConfirmSent(c) \/ RecordSent(c) \/ RecordFailure(c)
  BY <1>1, <1>4 DEF ConfirmSent, RecordSent, RecordFailure, JobRow
<1>5. CASE Mark(c) \/ Unmark(c)
  BY <1>1, <1>5, ZenonT(60) DEF Mark, Unmark, JobRow
<1> QED BY <1>2, <1>3, <1>4, <1>5 DEF Invoke, Receive, Crash,
     FindMessageSent, PrepareFails, PrecheckFails, SendAccepted, SendRefused,
     SendUnknown, RecordSentFails, FailMessage

LEMMA InvocationPath ==
  ASSUME TypeOK, NEW c \in Consumers, Receive(c) \/ Invoke(c) \/ Crash(c)
  PROVE  /\ expired' = expired
         /\ Reads(c) \/ GoesOn(c) \/ Passes(c) \/ Leaves(c)
<1>0. ~Prepare(c) => job'.first = job.first
  BY ColumnKept
<1>1. expired' = expired
  BY DEF Receive, Invoke, Crash, Claim, FindMessageSent, ConfirmSent, Prepare,
     PrepareFails, PrecheckFails, Mark, SendAccepted, SendRefused, SendUnknown,
     RecordSent, RecordSentFails, Unmark, RecordFailure, FailMessage, history
<1>2. CASE Receive(c)
  <2> DEFINE r == [Idle EXCEPT !.pc = "read", !.generation = job.generation,
                     !.first = job.first, !.sendAttempted = job.sendAttempted]
  <2>1. r.pc = "read" /\ r.generation = job.generation /\ r.first = job.first
    BY DEF Idle
  <2>2. consumer' = consumer \/ consumer' = [consumer EXCEPT ![c] = r]
    BY <1>2 DEF Receive
  <2>3. job' = job /\ consumer[c].pc = "idle"
    BY <1>2 DEF Receive
  <2> HIDE DEF r
  <2>4. CASE consumer' = consumer
    BY <1>1, <2>3, <2>4 DEF Leaves, Reading, Sending
  <2>5. CASE consumer' = [consumer EXCEPT ![c] = r]
    <3>1. consumer'[c] = r
      BY <2>5, PutLocal
    <3> QED BY <1>1, <2>1, <2>3, <3>1 DEF Reads, Reading, Sending
  <2> QED BY <2>2, <2>4, <2>5
<1>3. CASE Claim(c)
  <2>1. consumer[c].pc = "read"
    BY <1>3 DEF Claim
  <2>2. CASE Claimable(c)
    <3> DEFINE r == [consumer[c] EXCEPT !.pc = "claimed", !.attempts = job.attempts + 1]
    <3>1. /\ r.pc = "claimed" /\ r.generation = consumer[c].generation
          /\ r.first = consumer[c].first
      BY LocalType DEF Invocation
    <3>2. consumer' = [consumer EXCEPT ![c] = r]
      BY <1>3, <2>2 DEF Claim
    <3> HIDE DEF r
    <3>3. consumer'[c] = r
      BY <3>2, PutLocal
    <3>4. job'.first = job.first
      BY <1>0, <1>3, <2>1 DEF Prepare
    <3> QED BY <1>1, <2>1, <3>1, <3>3, <3>4 DEF GoesOn, Reading, Sending
  <2>3. CASE ~Claimable(c)
    <3>1. consumer'[c] = Idle /\ job' = job
      BY <1>3, <2>3, PutLocal DEF Claim
    <3> QED BY <1>1, <3>1 DEF Leaves, Reading, Sending, Idle
  <2> QED BY <2>2, <2>3
<1>4. CASE Prepare(c)
  <2> DEFINE r == [consumer[c] EXCEPT !.pc = "prepared", !.first = "none"]
  <2>1. r.pc = "prepared" /\ r.generation = consumer[c].generation
    BY LocalType DEF Invocation
  <2>2. consumer' = [consumer EXCEPT ![c] = r]
    BY <1>4 DEF Prepare
  <2> HIDE DEF r
  <2>3. consumer'[c] = r
    BY <2>2, PutLocal
  <2>4. job'.first = IF consumer[c].first = "none" THEN "recent" ELSE job.first
    BY <1>4, JobColumns, ZenonT(60) DEF Prepare, JobRow
  <2>5. consumer[c].pc = "claimed" /\ consumer[c].first /= "old"
    BY <1>4 DEF Prepare
  <2> QED BY <1>1, <2>1, <2>3, <2>4, <2>5 DEF Passes, Reading, Sending
<1>5. CASE Mark(c)
  <2>1. consumer[c].pc = "prepared" /\ job'.first = job.first
    BY <1>0, <1>5 DEF Mark, Prepare
  <2>2. \/ Becomes(c, "fail", consumer[c].generation)
        \/ Becomes(c, "sending", consumer[c].generation)
    BY <1>5, MarkBecomes
  <2> QED BY <1>1, <2>1, <2>2 DEF Becomes, GoesOn, Reading, Sending
<1>6. CASE ConfirmSent(c) \/ RecordSent(c) \/ FailMessage(c) \/ Crash(c)
  <2>1. Becomes(c, "idle", 0)
    BY <1>6, IdleBecomes DEF ConfirmSent, RecordSent, FailMessage, Crash
  <2>2. job'.first = job.first
    <3>1. CASE Prepare(c)
      BY <1>6, <3>1 DEF Prepare, ConfirmSent, RecordSent, FailMessage, Crash
    <3> QED BY <1>0, <3>1
  <2> QED BY <1>1, <2>1, <2>2 DEF Becomes, Leaves, Reading, Sending
<1>7. CASE FindMessageSent(c) \/ RecordFailure(c) \/ Unmark(c)
  <2>1. {"confirm", "failMessage", "fail"} \subseteq PCs
    BY DEF PCs
  <2>2. \E pc \in {"confirm", "failMessage", "fail"} : Becomes(c, pc, consumer[c].generation)
    BY <1>7, <2>1, GotoBecomes DEF FindMessageSent, RecordFailure, Unmark
  <2>3. job'.first = job.first
    BY <1>0, <1>7 DEF Prepare, FindMessageSent, RecordFailure, Unmark
  <2> QED BY <1>1, <2>2, <2>3 DEF Becomes, Leaves, Reading, Sending
<1>8. CASE PrepareFails(c) \/ PrecheckFails(c) \/ RecordSentFails(c)
  <2>1. job' = job
    BY <1>8 DEF PrepareFails, PrecheckFails, RecordSentFails
  <2>2. \E pc \in {"fail", "unmark"} : Becomes(c, pc, consumer[c].generation)
    BY <1>8, FailsBecome
  <2> QED BY <1>1, <2>1, <2>2 DEF Becomes, Leaves, Reading, Sending
<1>9. CASE SendAccepted(c) \/ SendRefused(c) \/ SendUnknown(c)
  <2>1. job' = job /\ "record" \in PCs
    BY <1>9 DEF SendAccepted, SendRefused, SendUnknown, PCs
  <2>2. \E pc \in {"record", "fail", "unmark"} : Becomes(c, pc, consumer[c].generation)
    BY <1>9, <2>1, GotoBecomes, SendFailsBecome DEF SendAccepted
  <2> QED BY <1>1, <2>1, <2>2 DEF Becomes, Leaves, Reading, Sending
<1> QED BY <1>2, <1>3, <1>4, <1>5, <1>6, <1>7, <1>8, <1>9 DEF Invoke

LEMMA FirstStep ==
  ASSUME PromiseInv, FirstWritten, Next
  PROVE  FirstWritten'
<1>0. TypeOK /\ GenerationBound
  BY DEF PromiseInv, TypeInv
<1>1. /\ job.generation \in Generations
      /\ handedOff \in [Generations -> Nat]
      /\ \A d \in Consumers : consumer[d].generation \in Generations
  BY <1>0, JobColumns, LocalType DEF TypeOK
<1>2. ASSUME NEW c \in Consumers, Receive(c) \/ Invoke(c) \/ Crash(c)
      PROVE  FirstWritten'
  <2>1. Others(c) /\ (handedOff' = handedOff \/ Hands(c))
    BY <1>0, <1>2, InvocationEffect
  <2>2. Reads(c) \/ GoesOn(c) \/ Passes(c) \/ Leaves(c)
    BY <1>0, <1>2, InvocationPath
  <2>3. job.first /= "none" => job'.first /= "none"
    BY <2>2 DEF Reads, GoesOn, Passes, Leaves
  <2>4. handedOff'[job.generation] > 0 => job'.first /= "none"
    <3>1. CASE handedOff' = handedOff
      BY <2>3, <3>1 DEF FirstWritten
    <3>2. CASE Hands(c)
      <4>1. CASE consumer[c].generation = job.generation
        BY <2>3, <3>2, <4>1 DEF Hands, FirstWritten, Current, Sending
      <4>2. CASE consumer[c].generation /= job.generation
        <5>1. handedOff'[job.generation] = handedOff[job.generation]
          BY <1>1, <3>2, <4>2 DEF Hands, CountHandOff
        <5> QED BY <2>3, <5>1 DEF FirstWritten
      <4> QED BY <4>1, <4>2
    <3> QED BY <2>1, <3>1, <3>2
  <2>5. ASSUME NEW d \in Consumers, Current(d)'
        PROVE  /\ Sending(d)' => job'.first /= "none"
               /\ Reading(d)' /\ consumer'[d].first /= "none" => job'.first /= "none"
    <3>1. consumer'[d].generation = job.generation
      BY <2>1, <2>5 DEF Others, Current
    <3>2. CASE d /= c
      <4>1. consumer'[d] = consumer[d]
        BY <2>1, <3>2 DEF Others
      <4> QED BY <2>3, <3>1, <4>1 DEF FirstWritten, Current, Sending, Reading
    <3>3. CASE d = c
      <4>1. CASE Reads(c)
        BY <3>3, <4>1 DEF Reads
      <4>2. CASE GoesOn(c)
        BY <2>3, <3>1, <3>3, <4>2 DEF GoesOn, FirstWritten, Current
      <4>3. CASE Passes(c)
        BY <2>3, <3>1, <3>3, <4>3 DEF Passes, FirstWritten, Current
      <4>4. CASE Leaves(c)
        BY <3>3, <4>4 DEF Leaves
      <4> QED BY <2>2, <4>1, <4>2, <4>3, <4>4
    <3> QED BY <3>2, <3>3
  <2> QED BY <2>1, <2>4, <2>5 DEF FirstWritten, Others
<1>3. CASE Actor
  <2>1. UNCHANGED <<consumer, handedOff>>
    BY <1>0, <1>3, ActorEffect
  <2>2. CASE job'.generation = job.generation /\ (job.first /= "none" => job'.first /= "none")
    BY <2>1, <2>2 DEF FirstWritten, Current, Sending, Reading
  <2>3. CASE Reopens
    <3>1. job'.generation \in Generations /\ job'.generation > job.generation
      BY <1>1, <2>3, JobType DEF Reopens, JobRow, PromiseInv
    <3>2. handedOff'[job'.generation] = 0
      BY <1>0, <2>1, <3>1 DEF GenerationBound
    <3>3. \A d \in Consumers : consumer'[d].generation /= job'.generation
      BY <1>0, <1>1, <2>1, <3>1 DEF GenerationBound
    <3> QED BY <3>2, <3>3 DEF FirstWritten, Current
  <2>4. CASE KeepsMarker /\ WindowCloses
    <3>1. job'.first = "old"
      BY <1>0, <2>4, JobColumns DEF WindowCloses, JobRow
    <3> QED BY <2>2, <2>4, <3>1 DEF KeepsMarker
  <2> QED BY <1>0, <1>3, <2>2, <2>3, <2>4, ActorEffect DEF KeepsMarker
<1> QED BY <1>2, <1>3 DEF Next, Actor

LEMMA KeptStep ==
  ASSUME PromiseInv, WindowKept, Next
  PROVE  WindowKept'
<1>0. TypeOK /\ GenerationBound
  BY DEF PromiseInv, TypeInv
<1>1. /\ job.generation \in Generations
      /\ expired \subseteq Generations
      /\ \A d \in Consumers : consumer[d].generation \in Generations
  BY <1>0, JobColumns, LocalType DEF TypeOK
<1>2. ASSUME NEW c \in Consumers, Receive(c) \/ Invoke(c) \/ Crash(c)
      PROVE  WindowKept'
  <2>1. Others(c)
    BY <1>0, <1>2, InvocationEffect
  <2>2. expired' = expired /\ (Reads(c) \/ GoesOn(c) \/ Passes(c) \/ Leaves(c))
    BY <1>0, <1>2, InvocationPath
  <2>3. job.generation \in expired => job'.first = "old"
    <3>1. job.generation \in expired => job.first = "old" /\ ~Passes(c)
      BY DEF WindowKept, Passes
    <3> QED BY <2>2, <3>1 DEF Reads, GoesOn, Leaves
  <2>4. ASSUME NEW d \in Consumers
        PROVE  /\ Sending(d)' => consumer'[d].generation \notin expired
               /\ Reading(d)' /\ consumer'[d].first /= "old" =>
                    {job.generation, consumer'[d].generation} \cap expired = {}
    <3>1. CASE d /= c
      <4>1. consumer'[d] = consumer[d]
        BY <2>1, <3>1 DEF Others
      <4> QED BY <4>1 DEF WindowKept, Sending, Reading
    <3>2. CASE d = c
      <4>1. CASE Reads(c)
        BY <3>2, <4>1 DEF Reads, WindowKept
      <4>2. CASE GoesOn(c)
        BY <3>2, <4>2 DEF GoesOn, WindowKept
      <4>3. CASE Passes(c)
        BY <3>2, <4>3 DEF Passes, WindowKept
      <4>4. CASE Leaves(c)
        BY <3>2, <4>4 DEF Leaves
      <4> QED BY <2>2, <4>1, <4>2, <4>3, <4>4
    <3> QED BY <3>1, <3>2
  <2>5. job'.generation = job.generation
    BY <2>1 DEF Others
  <2> QED BY <2>2, <2>3, <2>4, <2>5 DEF WindowKept
<1>3. CASE Actor
  <2>1. UNCHANGED consumer
    BY <1>0, <1>3, ActorEffect
  <2>2. CASE KeepsMarker /\ job'.first = job.first /\ expired' = expired
    BY <2>1, <2>2 DEF KeepsMarker, WindowKept, Sending, Reading
  <2>3. CASE KeepsMarker /\ WindowCloses
    <3>1. \A d \in Consumers : ~Sending(d)' /\ ~Reading(d)'
      BY <2>1, <2>3 DEF WindowCloses, Sending, Reading
    <3>2. job'.first = "old"
      BY <1>0, <2>3, JobColumns DEF WindowCloses, JobRow
    <3>3. \A g \in expired' : g <= job'.generation
      BY <1>1, <2>3 DEF WindowCloses, KeepsMarker, WindowKept
    <3> QED BY <3>1, <3>2, <3>3 DEF WindowKept
  <2>4. CASE Reopens /\ expired' = expired
    <3>1. job'.generation \notin expired
      BY <1>1, <2>4 DEF Reopens, WindowKept
    <3>2. \A g \in expired : g <= job'.generation
      BY <1>1, <2>4 DEF Reopens, WindowKept
    <3> QED BY <2>1, <2>4, <3>1, <3>2 DEF WindowKept, Sending, Reading
  <2> QED BY <1>0, <1>3, <2>2, <2>3, <2>4, ActorEffect
<1> QED BY <1>2, <1>3 DEF Next, Actor

LEMMA WindowStep == WindowInv /\ [Next]_vars => WindowInv'
<1> SUFFICES ASSUME WindowInv, [Next]_vars PROVE WindowInv'
  OBVIOUS
<1>1. PromiseInv'
  BY PromiseInvStep DEF WindowInv
<1>2. CASE Next
  BY <1>1, <1>2, FirstStep, KeptStep DEF WindowInv
<1>3. CASE UNCHANGED vars
  BY <1>1, <1>3 DEF vars, history, WindowInv, FirstWritten, WindowKept, Current, Sending, Reading
<1> QED BY <1>2, <1>3

\* Whenever a mail of the current generation may have left, first_attempt_at is
\* set, so the retry route asks for the acknowledgement: however many invocations
\* of this and of earlier generations run, and whatever they write.
THEOREM RiskIsShown == Spec => []DuplicateRiskShown
<1>1. Spec => []WindowInv
  BY WindowInit, WindowStep, PTL DEF Spec
<1>2. WindowInv => DuplicateRiskShown
  BY DEF WindowInv, FirstWritten, DuplicateRiskShown, NeedsAck
<1> QED BY <1>1, <1>2, PTL

\* No invocation hands a mail off under an idempotency key the provider may have
\* forgotten, with a provider of either kind and any number of invocations.
THEOREM WindowIsKept == Spec => NoSendAfterWindow
<1>1. Spec => []WindowInv
  BY WindowInit, WindowStep, PTL DEF Spec
<1>2. WindowInv /\ [Next]_vars =>
        [\A g \in Generations : handedOff'[g] > handedOff[g] => g \notin expired]_vars
  <2> SUFFICES ASSUME WindowInv, Next, NEW g \in Generations, handedOff'[g] > handedOff[g]
               PROVE  g \notin expired
    OBVIOUS
  <2>1. TypeOK /\ WindowKept /\ handedOff \in [Generations -> Nat]
    BY DEF WindowInv, PromiseInv, TypeInv, TypeOK
  <2>2. handedOff' /= handedOff
    BY <2>1
  <2>3. PICK c \in Consumers : Hands(c)
    <3>1. CASE Actor
      BY <2>1, <2>2, <3>1, ActorEffect
    <3>2. ASSUME NEW c \in Consumers, Receive(c) \/ Invoke(c) \/ Crash(c) PROVE Hands(c)
      BY <2>1, <2>2, <3>2, InvocationEffect
    <3> QED BY <3>1, <3>2 DEF Next, Actor
  <2>4. g = consumer[c].generation /\ consumer[c].pc = "sending"
    BY <2>1, <2>3 DEF Hands, CountHandOff
  <2> QED BY <2>1, <2>4 DEF WindowKept, Sending
<1> QED BY <1>1, <1>2, PTL DEF Spec, NoSendAfterWindow

(***************************************************************************)
(* Shown as sent.  The message row, the job row and an invocation on its   *)
(* way to either can each carry the claim; delivery events carry it too,   *)
(* and an event exists only for a copy that left.                          *)
(***************************************************************************)
LEMMA SentInit == Init => SentInv
<1> SUFFICES ASSUME Init PROVE SentInv
  OBVIOUS
<1>1. message = "queued" /\ job.status = "pending" /\ \A c \in Consumers : consumer[c].pc = "idle"
  BY DEF Init, Idle
<1> QED BY <1>1, TypeInit DEF SentInv, SentKnown

LEMMA HandOffsStay ==
  ASSUME TypeOK, Next
  PROVE  HandedOver => HandedOver'
<1>1. handedOff \in [Generations -> Nat]
  BY DEF TypeOK
<1>2. handedOff' = handedOff \/ \E c \in Consumers : Hands(c)
  BY InvocationEffect, ActorEffect DEF Next, Actor
<1>3. ASSUME NEW c \in Consumers, Hands(c) PROVE HandedOver => HandedOver'
  BY <1>1, <1>3 DEF Hands, CountHandOff, HandedOver
<1> QED BY <1>2, <1>3 DEF HandedOver

LEMMA SentInvocation ==
  ASSUME TypeOK, SentKnown, NEW c \in Consumers, Receive(c) \/ Invoke(c) \/ Crash(c)
  PROVE  SentKnown'
<1>0. /\ job \in JobRow /\ consumer[c].generation \in Generations
      /\ handedOff \in [Generations -> Nat] /\ consumer \in [Consumers -> Invocation]
  BY JobColumns, LocalType DEF TypeOK
<1>1. HandedOver => HandedOver'
  BY HandOffsStay DEF Next
<1>2. /\ \A d \in Consumers : d /= c => consumer'[d] = consumer[d]
      /\ handedOff' = handedOff \/ Hands(c)
  BY InvocationEffect DEF Others
<1>3. message' = "sent" => message = "sent" \/ consumer[c].pc = "record"
  BY DEF Receive, Invoke, Crash, Claim, FindMessageSent, ConfirmSent, Prepare,
     PrepareFails, PrecheckFails, Mark, SendAccepted, SendRefused, SendUnknown,
     RecordSent, RecordSentFails, Unmark, RecordFailure, FailMessage
<1>4. job'.status = "sent" => job.status = "sent" \/ consumer[c].pc \in {"confirm", "record"}
  <2>1. CASE UNCHANGED job
    BY <2>1
  <2>2. CASE Claim(c)
    BY <1>0, <2>2 DEF Claim, JobRow
  <2>3. CASE Prepare(c) \/ Mark(c) \/ Unmark(c)
    BY <1>0, <2>3 DEF Prepare, Mark, Unmark, JobRow
  <2>4. CASE ConfirmSent(c) \/ RecordSent(c)
    BY <2>4 DEF ConfirmSent, RecordSent
  <2>5. CASE RecordFailure(c)
    BY <1>0, <2>5 DEF RecordFailure, JobRow
  <2> QED BY <2>1, <2>2, <2>3, <2>4, <2>5 DEF Invoke, Receive, Crash,
       FindMessageSent, PrepareFails, PrecheckFails, SendAccepted, SendRefused,
       SendUnknown, RecordSentFails, FailMessage
<1>5. consumer'[c].pc \in {"confirm", "record"} => HandedOver'
  <2>1. CASE FindMessageSent(c)
    BY <1>1, <2>1 DEF FindMessageSent, SentKnown
  <2>2. CASE SendAccepted(c)
    BY <1>0, <2>2 DEF SendAccepted, CountHandOff, HandedOver
  <2>3. CASE ~FindMessageSent(c) /\ ~SendAccepted(c)
    <3>1. consumer'[c].pc \notin {"confirm", "record"}
      <4>1. CASE Receive(c) \/ Claim(c)
        <5>1. \E pc \in {"idle", "read", "claimed"}, g \in Generations : Becomes(c, pc, g)
          BY <1>0, <4>1, ReceiveBecomes, ClaimBecomes DEF JobRow
        <5> QED BY <5>1 DEF Becomes
      <4>2. CASE Prepare(c) \/ Mark(c)
        BY <4>2, PrepareBecomes, MarkBecomes DEF Becomes
      <4>3. CASE ConfirmSent(c) \/ RecordSent(c) \/ FailMessage(c) \/ Crash(c)
        BY <4>3, IdleBecomes DEF ConfirmSent, RecordSent, FailMessage, Crash, Becomes
      <4>4. CASE RecordFailure(c) \/ Unmark(c)
        <5>1. {"failMessage", "fail"} \subseteq PCs
          BY DEF PCs
        <5> QED BY <4>4, <5>1, GotoBecomes DEF RecordFailure, Unmark, Becomes
      <4>5. CASE PrepareFails(c) \/ PrecheckFails(c) \/ RecordSentFails(c)
        BY <4>5, FailsBecome DEF Becomes
      <4>6. CASE SendRefused(c) \/ SendUnknown(c)
        BY <4>6, SendFailsBecome DEF Becomes
      <4> QED BY <2>3, <4>1, <4>2, <4>3, <4>4, <4>5, <4>6 DEF Invoke
    <3> QED BY <3>1
  <2> QED BY <2>1, <2>2, <2>3
<1> QED BY <1>1, <1>2, <1>3, <1>4, <1>5 DEF SentKnown

LEMMA SentActor ==
  ASSUME TypeInv, SentKnown, Actor
  PROVE  SentKnown'
<1>0. TypeOK /\ job \in JobRow
  BY JobColumns DEF TypeInv
<1>1. HandedOver => HandedOver'
  BY <1>0, HandOffsStay DEF Next, Actor
<1>2. UNCHANGED consumer
  BY <1>0, ActorEffect
<1>3. message' = "sent" => message = "sent" \/ HandedOver
  <2>1. ASSUME NEW e \in Events, EventMessage(e) PROVE HandedOver
    BY <2>1 DEF EventMessage, Events, HandedOver
  <2>2. CASE \E e \in Events : MissEvent(e) \/ EventJob(e) \/ EventCrash(e)
    BY <2>2 DEF MissEvent, EventJob, EventCrash
  <2>3. CASE ~\E e \in Events : MissEvent(e) \/ EventMessage(e) \/ EventJob(e) \/ EventCrash(e)
    BY <2>3 DEF Actor, Dispatch, Exhaust, DrainLetter, Sweep, OpenRetry, Retry,
       LeaseExpires, ReservationExpires, BackoffEnds, WindowCloses
  <2> QED BY <2>1, <2>2, <2>3
<1>4. job'.status = "sent" => job.status = "sent"
  <2>1. CASE \E g \in Generations, written \in BOOLEAN : DrainLetter(g, written)
    BY <1>0, <2>1 DEF DrainLetter, JobRow
  <2>2. CASE Sweep
    <3> DEFINE j == Unstall(job)
    <3>1. j \in JobRow /\ (j.status = "sent" => job.status = "sent")
      BY <1>0, NamesType DEF Unstall, JobRow
    <3> HIDE DEF j
    <3>2. StopSpent(j).status = "sent" => j.status = "sent"
      BY <3>1 DEF StopSpent, JobRow
    <3>3. job' = StopSpent(j)
      BY <2>2 DEF Sweep, j
    <3> QED BY <3>1, <3>2, <3>3
  <2>3. CASE Retry
    <3>1. \/ job' = job
          \/ job' = [job EXCEPT !.status = "pending", !.terminal = "none",
                        !.attempts = 0, !.reserved = FALSE, !.backoff = FALSE,
                        !.generation = job.generation + 1, !.first = "none",
                        !.sendAttempted = FALSE]
      BY <2>3 DEF Retry
    <3> QED BY <1>0, <3>1 DEF JobRow
  <2>4. CASE \E e \in Events : EventJob(e)
    BY <1>0, <2>4 DEF EventJob, Negative, JobRow
  <2>5. CASE \E enqueued \in BOOLEAN : Dispatch(enqueued)
    BY <1>0, <2>5 DEF Dispatch, JobRow
  <2>6. CASE LeaseExpires \/ ReservationExpires \/ BackoffEnds \/ WindowCloses
    <3>1. \/ job' = [job EXCEPT !.lease = FALSE]
          \/ job' = [job EXCEPT !.reserved = FALSE]
          \/ job' = [job EXCEPT !.backoff = FALSE]
          \/ job' = [job EXCEPT !.first = "old"]
      BY <2>6 DEF LeaseExpires, ReservationExpires, BackoffEnds, WindowCloses
    <3> QED BY <1>0, <3>1 DEF JobRow
  <2>7. CASE UNCHANGED job
    BY <2>7
  <2> QED BY <2>1, <2>2, <2>3, <2>4, <2>5, <2>6, <2>7 DEF Actor, Exhaust, OpenRetry,
       MissEvent, EventMessage, EventCrash
<1> QED BY <1>1, <1>2, <1>3, <1>4 DEF SentKnown

LEMMA SentStep == SentInv /\ [Next]_vars => SentInv'
<1> SUFFICES ASSUME SentInv, [Next]_vars PROVE SentInv'
  OBVIOUS
<1>1. TypeInv' /\ TypeOK
  BY TypeStep DEF SentInv, TypeInv
<1>2. CASE UNCHANGED vars
  BY <1>1, <1>2 DEF vars, history, SentInv, SentKnown, HandedOver
<1>3. ASSUME NEW c \in Consumers, Receive(c) \/ Invoke(c) \/ Crash(c) PROVE SentInv'
  BY <1>1, <1>3, SentInvocation DEF SentInv
<1>4. CASE Actor
  BY <1>1, <1>4, SentActor DEF SentInv
<1> QED BY <1>2, <1>3, <1>4 DEF Next, Actor

\* No interleaving of refusals, dead letters, late delivery events, retries and
\* crashes shows a reply as sent that no invocation ever handed to the provider.
THEOREM SentMeansHandedOff == Spec => []SentWasHandedOff
<1>1. Spec => []SentInv
  BY SentInit, SentStep, PTL DEF Spec
<1>2. SentInv => SentWasHandedOff
  BY DEF SentInv, SentKnown, HandedOver, SentWasHandedOff
<1> QED BY <1>1, <1>2, PTL
=============================================================================
