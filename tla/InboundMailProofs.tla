------------------------- MODULE InboundMailProofs -------------------------
(***************************************************************************)
(* Proofs about InboundMail for every set of deliveries, inboxes and       *)
(* invocations, every number of attempts, attachments and retries.         *)
(***************************************************************************)
EXTENDS InboundMail, TLAPS

USE InboundAssumption

(***************************************************************************)
(* Types.  The attachment indices an invocation writes stay within the     *)
(* mail's because the loop's bounds do.                                    *)
(***************************************************************************)
Bounded(k) ==
  /\ k.pc /= "idle" => k.d \in Deliveries
  /\ k.pc = "store" => k.index <= k.last
  /\ k.pc = "advance" => k.index < k.last

TypeInv == TypeOK /\ \A c \in Consumers : Bounded(consumer[c])

LEMMA IdleType == Idle \in Invocation /\ Bounded(Idle)
  BY DEF Idle, Invocation, PCs, Bounded

LEMMA NoRowType == NoRow \in Row
  BY DEF NoRow, Row, Statuses, Reasons

LEMMA TypeInit == Init => TypeInv
<1> SUFFICES ASSUME Init PROVE TypeInv
  OBVIOUS
<1>1. event \in [Deliveries -> Row]
  BY NoRowType DEF Init
<1>2. consumer \in [Consumers -> Invocation]
  BY IdleType DEF Init
<1>3. \A c \in Consumers : Bounded(consumer[c])
  BY IdleType DEF Init
<1>4. ticket \in Ticket
  BY DEF Init, Ticket
<1>5. smtp \in [Deliveries -> {"new", "putting", "put", "accepted", "refused"}]
  BY DEF Init
<1>6. /\ raw \subseteq Deliveries /\ queue \subseteq Deliveries /\ dlq \subseteq Deliveries
      /\ message \in BOOLEAN /\ opened \in BOOLEAN
      /\ effects \subseteq {"ticket.created", "message.received", "automations"}
  BY DEF Init
<1>7. stored \subseteq Deliveries \X Indices
  BY DEF Init
<1>8. notices \in 0..2
  BY DEF Init
<1> QED BY <1>1, <1>2, <1>3, <1>4, <1>5, <1>6, <1>7, <1>8 DEF TypeInv, TypeOK

LEMMA LocalType ==
  ASSUME TypeInv, NEW c \in Consumers
  PROVE  /\ consumer[c] \in Invocation
         /\ Bounded(consumer[c])
         /\ consumer[c].pc \in PCs
         /\ consumer[c].d \in Deliveries \cup {NoDelivery}
         /\ consumer[c].attempts \in Int
         /\ consumer[c].existing \in BOOLEAN
         /\ consumer[c].opens \in BOOLEAN
         /\ consumer[c].index \in 0..Attachments
         /\ consumer[c].last \in 0..Attachments
         /\ consumer[c].terminal \in BOOLEAN
<1>1. consumer[c] \in Invocation /\ Bounded(consumer[c])
  BY DEF TypeInv, TypeOK
<1> QED BY <1>1 DEF Invocation

LEMMA Columns ==
  ASSUME TypeInv, NEW d \in Deliveries
  PROVE  /\ event[d] \in Row
         /\ event[d].status \in Statuses
         /\ event[d].attempts \in Int
         /\ event[d].generation \in 0..MaxGeneration
         /\ event[d].terminal \in Reasons
         /\ event[d].lease \in BOOLEAN
         /\ event[d].registered \in BOOLEAN
         /\ event[d].cursor \in 0..Attachments
<1>1. event[d] \in Row
  BY DEF TypeInv, TypeOK
<1> QED BY <1>1 DEF Row

(***************************************************************************)
(* The locals of one invocation.                                           *)
(***************************************************************************)
\* Replacing the locals of one invocation by good ones.
LEMMA PutLocals ==
  ASSUME TypeInv, NEW c \in Consumers, NEW r \in Invocation, Bounded(r),
         consumer' = [consumer EXCEPT ![c] = r]
  PROVE  /\ consumer' \in [Consumers -> Invocation]
         /\ \A k \in Consumers : Bounded(consumer'[k])
  BY DEF TypeInv, TypeOK

LEMMA GotoType ==
  ASSUME TypeInv, NEW c \in Consumers, NEW pc \in PCs, Goto(c, pc),
         consumer[c].pc /= "idle", pc /= "store",
         pc = "advance" => consumer[c].index < consumer[c].last
  PROVE  /\ consumer' \in [Consumers -> Invocation]
         /\ \A k \in Consumers : Bounded(consumer'[k])
<1> DEFINE r == [consumer[c] EXCEPT !.pc = pc]
<1>1. r \in Invocation /\ Bounded(r)
  BY LocalType DEF Invocation, Bounded
<1>2. consumer' = [consumer EXCEPT ![c] = r]
  BY DEF Goto
<1> HIDE DEF r
<1> QED BY <1>1, <1>2, PutLocals

LEMMA FailType ==
  ASSUME TypeInv, NEW c \in Consumers, NEW terminal \in BOOLEAN, Fail(c, terminal),
         consumer[c].pc /= "idle"
  PROVE  /\ consumer' \in [Consumers -> Invocation]
         /\ \A k \in Consumers : Bounded(consumer'[k])
<1> DEFINE r == [Idle EXCEPT !.pc = "fail", !.d = consumer[c].d,
                   !.terminal = terminal \/ consumer[c].attempts >= MaxAttempts]
<1>1. r \in Invocation
  BY IdleType, LocalType DEF Invocation, PCs
<1>2. Bounded(r)
  BY LocalType DEF Bounded, Idle
<1>3. consumer' = [consumer EXCEPT ![c] = r]
  BY DEF Fail
<1> HIDE DEF r
<1> QED BY <1>1, <1>2, <1>3, PutLocals

LEMMA LocalsKeepType ==
  ASSUME TypeInv, NEW c \in Consumers, Invoke(c)
  PROVE  /\ consumer' \in [Consumers -> Invocation]
         /\ \A k \in Consumers : Bounded(consumer'[k])
<1> USE DEF PCs
<1>1. CASE Fetch(c)
  BY <1>1, GotoType, FailType, IdleType, PutLocals DEF Fetch
<1>2. CASE InboxMissing(c) \/ Throws(c)
  BY <1>2, FailType DEF InboxMissing, Throws
<1>3. CASE Dedupe(c)
  BY <1>3, GotoType DEF Dedupe
<1>4. CASE CompleteSame(c) \/ CompleteDuplicate(c) \/ Register(c)
  BY <1>4, GotoType DEF CompleteSame, CompleteDuplicate, Register
<1>5. CASE Lookup(c)
  <2> DEFINE r == [consumer[c] EXCEPT !.pc = "write", !.existing = message,
                     !.opens = ~message /\ ticket.state = "none"]
  <2>1. message \in BOOLEAN
    BY DEF TypeInv, TypeOK
  <2>2. r \in Invocation /\ Bounded(r)
    BY <1>5, <2>1, LocalType DEF Lookup, Invocation, Bounded
  <2>3. consumer' = [consumer EXCEPT ![c] = r]
    BY <1>5 DEF Lookup
  <2> HIDE DEF r
  <2> QED BY <2>2, <2>3, PutLocals
<1>6. CASE WriteMessage(c)
  BY <1>6, GotoType, FailType DEF WriteMessage
<1>7. CASE Reconcile(c) \/ Notify(c)
  BY <1>7, GotoType DEF Reconcile, Notify
<1>8. CASE ReadCursor(c)
  <2> DEFINE from == event[consumer[c].d].cursor
             to == IF from + Chunk < Attachments THEN from + Chunk ELSE Attachments
             r == [consumer[c] EXCEPT !.pc = "store", !.index = from, !.last = to]
  <2>1. consumer[c].d \in Deliveries
    BY <1>8, LocalType DEF ReadCursor, Bounded
  <2>2. from \in 0..Attachments
    BY <2>1, Columns
  <2>3. to \in 0..Attachments /\ from <= to
    <3> HIDE DEF from
    <3> QED BY <2>2
  <2>4. consumer' = [consumer EXCEPT ![c] = r]
    BY <1>8 DEF ReadCursor
  <2>5. r \in Invocation /\ Bounded(r)
    <3> HIDE DEF from, to
    <3> QED BY <2>1, <2>2, <2>3, LocalType DEF Invocation, Bounded
  <2> HIDE DEF r
  <2> QED BY <2>4, <2>5, PutLocals
<1>9. CASE Store(c)
  BY <1>9, GotoType DEF Store
<1>10. CASE Advance(c)
  <2> DEFINE r == [consumer[c] EXCEPT !.pc = "store", !.index = consumer[c].index + 1]
  <2>1. consumer[c].index + 1 \in 0..Attachments /\ consumer[c].index + 1 <= consumer[c].last
    BY <1>10, LocalType DEF Advance, Bounded
  <2>3. r.pc = "store" /\ r.d = consumer[c].d /\ r.index <= r.last
    BY <2>1, LocalType DEF Invocation
  <2>4. r \in Invocation
    BY <2>1, LocalType DEF Invocation
  <2>5. Bounded(r)
    BY <1>10, <2>3, LocalType DEF Advance, Bounded
  <2>2. consumer' = [consumer EXCEPT ![c] = r]
    BY <1>10 DEF Advance
  <2> HIDE DEF r
  <2> QED BY <2>2, <2>4, <2>5, PutLocals
<1>11. CASE Continue(c) \/ Unstage(c) \/ RecordFailure(c)
  BY <1>11, IdleType, PutLocals DEF Continue, Unstage, RecordFailure
<1>12. CASE Complete(c)
  BY <1>12, GotoType DEF Complete
<1>13. CASE AnnounceCreated(c) \/ AnnounceReceived(c) \/ Automate(c)
  BY <1>13, GotoType DEF AnnounceCreated, AnnounceReceived, Automate, Emit
<1> QED BY <1>1, <1>2, <1>3, <1>4, <1>5, <1>6, <1>7, <1>8, <1>9, <1>10, <1>11,
           <1>12, <1>13 DEF Invoke

(***************************************************************************)
(* The rows.  Most statements are tame: they change neither what a row     *)
(* says of the mail nor how far its attachments are, and complete nothing. *)
(***************************************************************************)
Tame(r, s) ==
  /\ s.registered = r.registered
  /\ s.cursor = r.cursor
  /\ s.status = "completed" => r.status = "completed"

TameEvents == \A d \in Deliveries : Tame(event[d], event'[d])

LEMMA PutRow ==
  ASSUME TypeInv, NEW d \in Deliveries, NEW r \in Row, event' = [event EXCEPT ![d] = r]
  PROVE  /\ event' \in [Deliveries -> Row]
         /\ event'[d] = r
         /\ \A o \in Deliveries : o /= d => event'[o] = event[o]
  BY DEF TypeInv, TypeOK

LEMMA PutTameRow ==
  ASSUME TypeInv, NEW d \in Deliveries, NEW r \in Row, Tame(event[d], r),
         event' = [event EXCEPT ![d] = r]
  PROVE  event' \in [Deliveries -> Row] /\ TameEvents
<1>1. \A o \in Deliveries : Tame(event[o], event[o])
  BY DEF Tame
<1> QED BY <1>1, PutRow DEF TameEvents

LEMMA SameRows ==
  ASSUME TypeInv, event' = event
  PROVE  event' \in [Deliveries -> Row] /\ TameEvents
<1>1. \A o \in Deliveries : Tame(event[o], event[o])
  BY DEF Tame
<1> QED BY <1>1 DEF TameEvents, TypeInv, TypeOK

\* email(), dispatchMail, the clocks and the administrator.
LEMMA DeliveryRows ==
  ASSUME TypeInv, NEW d \in Deliveries,
         \/ Accept(d) \/ Receipt(d) \/ (\E enqueued \in BOOLEAN : Dispatch(d, enqueued))
         \/ Exhaust(d) \/ Retry(d) \/ (\E written \in BOOLEAN : DrainLetter(d, written))
         \/ LeaseExpires(d) \/ ReservationExpires(d) \/ BackoffEnds(d)
  PROVE  event' \in [Deliveries -> Row] /\ TameEvents
<1> USE DEF Row, Tame, Statuses, Reasons
<1>1. CASE Accept(d)
  <2> DEFINE r == [event[d] EXCEPT !.status = "processing", !.lease = TRUE]
  <2>1. r \in Row /\ Tame(event[d], r)
    BY Columns
  <2>2. event' = [event EXCEPT ![d] = r]
    BY <1>1 DEF Accept
  <2> HIDE DEF r
  <2> QED BY <2>1, <2>2, PutTameRow
<1>2. CASE Put(d) \/ StageDies(d) \/ Exhaust(d)
  BY <1>2, SameRows DEF Put, StageDies, Exhaust
<1>3. CASE Stage(d)
  <2> DEFINE r == [event[d] EXCEPT !.status = "staged", !.lease = FALSE]
  <2>1. r \in Row /\ Tame(event[d], r)
    BY Columns
  <2>2. event' = [event EXCEPT ![d] = r]
    BY <1>3 DEF Stage
  <2> HIDE DEF r
  <2> QED BY <2>1, <2>2, PutTameRow
<1>4. CASE StageFails(d)
  <2> DEFINE r == [event[d] EXCEPT !.status = "failed", !.lease = FALSE]
  <2>1. r \in Row /\ Tame(event[d], r)
    BY Columns
  <2>2. event' = [event EXCEPT ![d] = r]
    BY <1>4 DEF StageFails
  <2> HIDE DEF r
  <2> QED BY <2>1, <2>2, PutTameRow
<1>5. CASE \E enqueued \in BOOLEAN : Dispatch(d, enqueued)
  <2> DEFINE r == [event[d] EXCEPT !.reserved = TRUE]
  <2>1. r \in Row /\ Tame(event[d], r)
    BY Columns
  <2>2. event' = [event EXCEPT ![d] = r]
    BY <1>5 DEF Dispatch
  <2> HIDE DEF r
  <2> QED BY <2>1, <2>2, PutTameRow
<1>6. CASE Retry(d)
  <2> DEFINE g == event[d].generation + 1
             n == 0
             r == [event[d] EXCEPT !.status = "staged", !.terminal = "none",
                     !.attempts = n, !.reserved = FALSE, !.backoff = FALSE,
                     !.generation = g]
  <2>1. g \in 0..MaxGeneration /\ n \in Int
    BY <1>6, Columns DEF Retry
  <2>2. event' = [event EXCEPT ![d] = r]
    BY <1>6 DEF Retry
  <2> HIDE DEF g, n
  <2>3. r \in Row /\ Tame(event[d], r)
    BY <2>1, Columns
  <2> HIDE DEF r
  <2> QED BY <2>2, <2>3, PutTameRow
<1>7. CASE \E written \in BOOLEAN : DrainLetter(d, written)
  <2> DEFINE r == [event[d] EXCEPT !.status = "failed", !.terminal = "stopped",
                     !.lease = FALSE, !.reserved = FALSE]
  <2>1. r \in Row /\ Tame(event[d], r)
    BY Columns
  <2>2. event' = event \/ event' = [event EXCEPT ![d] = r]
    BY <1>7 DEF DrainLetter
  <2> HIDE DEF r
  <2> QED BY <2>1, <2>2, PutTameRow, SameRows
<1>8. CASE LeaseExpires(d) \/ ReservationExpires(d) \/ BackoffEnds(d)
  <2> DEFINE r1 == [event[d] EXCEPT !.lease = FALSE]
             r2 == [event[d] EXCEPT !.reserved = FALSE]
             r3 == [event[d] EXCEPT !.backoff = FALSE]
  <2>1. r1 \in Row /\ Tame(event[d], r1) /\ r2 \in Row /\ Tame(event[d], r2)
        /\ r3 \in Row /\ Tame(event[d], r3)
    BY Columns
  <2>2. \/ event' = [event EXCEPT ![d] = r1]
        \/ event' = [event EXCEPT ![d] = r2]
        \/ event' = [event EXCEPT ![d] = r3]
    BY <1>8 DEF LeaseExpires, ReservationExpires, BackoffEnds
  <2> HIDE DEF r1, r2, r3
  <2> QED BY <2>1, <2>2, PutTameRow
<1> QED BY <1>1, <1>2, <1>3, <1>4, <1>5, <1>6, <1>7, <1>8 DEF Receipt

\* The Cron's batch.
LEMMA SweepRows ==
  ASSUME TypeInv, Sweep
  PROVE  event' \in [Deliveries -> Row] /\ TameEvents
<1>1. ASSUME NEW r \in Row
      PROVE  Unstall(r) \in Row /\ Tame(r, Unstall(r))
  BY DEF Unstall, Row, Tame, Statuses
<1>2. ASSUME NEW r \in Row
      PROVE  StopSpent(r) \in Row /\ Tame(r, StopSpent(r))
  BY DEF StopSpent, Row, Tame, Statuses, Reasons
<1>3. \A d \in Deliveries :
        StopSpent(Unstall(event[d])) \in Row /\ Tame(event[d], StopSpent(Unstall(event[d])))
  BY <1>1, <1>2, Columns DEF Tame
<1>4. event' = [d \in Deliveries |-> StopSpent(Unstall(event[d]))]
  BY DEF Sweep
<1> QED BY <1>3, <1>4 DEF TameEvents

\* The statements of an invocation that leave what a row promises alone.
LEMMA InvocationRows ==
  ASSUME TypeInv, NEW c \in Consumers,
         \/ (\E d \in Deliveries : Claim(c, d)) \/ Crash(c) \/ Continue(c) \/ RecordFailure(c)
  PROVE  event' \in [Deliveries -> Row] /\ TameEvents
<1> USE DEF Row, Tame, Statuses, Reasons
<1>1. ASSUME NEW d \in Deliveries, Claim(c, d)
      PROVE  event' \in [Deliveries -> Row] /\ TameEvents
  <2> DEFINE r == [event[d] EXCEPT !.status = "processing", !.lease = TRUE,
                                   !.attempts = event[d].attempts + 1]
  <2>3. event[d].attempts + 1 \in Int
    BY Columns
  <2>1. r \in Row /\ Tame(event[d], r)
    BY <2>3, Columns
  <2>2. event' = event \/ event' = [event EXCEPT ![d] = r]
    BY <1>1 DEF Claim
  <2> HIDE DEF r
  <2> QED BY <2>1, <2>2, PutTameRow, SameRows
<1>2. CASE Crash(c)
  BY <1>2, SameRows DEF Crash
<1>3. CASE Continue(c)
  <2> DEFINE d == consumer[c].d
             r == [event[d] EXCEPT !.status = "staged", !.attempts = event[d].attempts - 1,
                                   !.lease = FALSE, !.reserved = FALSE, !.backoff = FALSE]
  <2>1. d \in Deliveries
    BY <1>3, LocalType DEF Continue, Bounded
  <2>2. event' = [event EXCEPT ![d] = r]
    BY <1>3 DEF Continue
  <2> HIDE DEF d
  <2>4. event[d].attempts - 1 \in Int
    BY <2>1, Columns
  <2>3. r \in Row /\ Tame(event[d], r)
    BY <2>1, <2>4, Columns
  <2> HIDE DEF r
  <2> QED BY <2>1, <2>2, <2>3, PutTameRow
<1>4. CASE RecordFailure(c)
  <2> DEFINE d == consumer[c].d
             t == IF consumer[c].terminal THEN "stopped" ELSE "none"
             r == [event[d] EXCEPT !.status = "failed", !.lease = FALSE,
                                   !.reserved = TRUE, !.backoff = TRUE, !.terminal = t]
  <2>1. d \in Deliveries
    BY <1>4, LocalType DEF RecordFailure, Bounded
  <2>2. event' = event \/ event' = [event EXCEPT ![d] = r]
    BY <1>4 DEF RecordFailure
  <2>3. t \in Reasons
    OBVIOUS
  <2> HIDE DEF d, t
  <2>4. r \in Row /\ Tame(event[d], r)
    BY <2>1, <2>3, Columns
  <2> HIDE DEF r
  <2> QED BY <2>1, <2>2, <2>4, PutTameRow, SameRows
<1> QED BY <1>1, <1>2, <1>3, <1>4

\* The statements that say more about the mail.
Completes(d) ==
  /\ event'[d].status = "completed"
  /\ event'[d].registered = event[d].registered
  /\ event'[d].cursor = event[d].cursor
  /\ \A o \in Deliveries : o /= d => event'[o] = event[o]

Registers(d) ==
  /\ event'[d].status = event[d].status
  /\ event'[d].registered = TRUE
  /\ event'[d].cursor = event[d].cursor
  /\ \A o \in Deliveries : o /= d => event'[o] = event[o]

Advances(d, n) ==
  /\ event'[d].status = event[d].status
  /\ event'[d].registered = event[d].registered
  /\ event'[d].cursor = n
  /\ \A o \in Deliveries : o /= d => event'[o] = event[o]

LEMMA CompletingRows ==
  ASSUME TypeInv, NEW c \in Consumers,
         CompleteSame(c) \/ CompleteDuplicate(c) \/ Complete(c)
  PROVE  event' \in [Deliveries -> Row] /\ Completes(consumer[c].d)
<1> DEFINE d == consumer[c].d
<1>1. d \in Deliveries
  BY LocalType DEF CompleteSame, CompleteDuplicate, Complete, Bounded
<1>2. CASE CompleteSame(c) \/ Complete(c)
  <2> DEFINE r == [event[d] EXCEPT !.status = "completed", !.lease = FALSE]
  <2>1. event' = [event EXCEPT ![d] = r]
    BY <1>2 DEF CompleteSame, Complete
  <2> HIDE DEF d
  <2>2. /\ r \in Row /\ r.status = "completed" /\ r.registered = event[d].registered
        /\ r.cursor = event[d].cursor
    BY <1>1, Columns DEF Row, Statuses
  <2> HIDE DEF r
  <2>3. event' \in [Deliveries -> Row] /\ Completes(d)
    BY <1>1, <2>1, <2>2, PutRow DEF Completes
  <2> QED BY <2>3 DEF d
<1>3. CASE CompleteDuplicate(c)
  <2> DEFINE r == [event[d] EXCEPT !.status = "completed", !.terminal = "duplicate",
                                   !.lease = FALSE]
  <2>1. event' = [event EXCEPT ![d] = r]
    BY <1>3 DEF CompleteDuplicate
  <2> HIDE DEF d
  <2>2. /\ r \in Row /\ r.status = "completed" /\ r.registered = event[d].registered
        /\ r.cursor = event[d].cursor
    BY <1>1, Columns DEF Row, Statuses, Reasons
  <2> HIDE DEF r
  <2>3. event' \in [Deliveries -> Row] /\ Completes(d)
    BY <1>1, <2>1, <2>2, PutRow DEF Completes
  <2> QED BY <2>3 DEF d
<1> QED BY <1>2, <1>3

LEMMA RegisteringRows ==
  ASSUME TypeInv, NEW c \in Consumers, Register(c)
  PROVE  /\ event' \in [Deliveries -> Row]
         /\ \/ event' = event /\ ~(Holders(consumer[c].d) \subseteq {consumer[c].d})
            \/ Registers(consumer[c].d) /\ Holders(consumer[c].d) \subseteq {consumer[c].d}
<1> DEFINE d == consumer[c].d
           r == [event[d] EXCEPT !.registered = TRUE]
<1>1. d \in Deliveries
  BY LocalType DEF Register, Bounded
<1>2. \/ event' = event /\ ~(Holders(d) \subseteq {d})
      \/ event' = [event EXCEPT ![d] = r] /\ Holders(d) \subseteq {d}
  BY DEF Register
<1> HIDE DEF d
<1>3. /\ r \in Row /\ r.status = event[d].status /\ r.registered = TRUE
      /\ r.cursor = event[d].cursor
  BY <1>1, Columns DEF Row
<1> HIDE DEF r
<1>4. CASE event' = [event EXCEPT ![d] = r] /\ Holders(d) \subseteq {d}
  <2>1. event' \in [Deliveries -> Row] /\ Registers(d)
    BY <1>1, <1>3, <1>4, PutRow DEF Registers
  <2> QED BY <1>4, <2>1 DEF d
<1>5. CASE event' = event /\ ~(Holders(d) \subseteq {d})
  BY <1>5, SameRows DEF d
<1> QED BY <1>2, <1>4, <1>5

LEMMA AdvancingRows ==
  ASSUME TypeInv, NEW c \in Consumers, Advance(c)
  PROVE  event' \in [Deliveries -> Row] /\ Advances(consumer[c].d, consumer[c].index + 1)
<1> DEFINE d == consumer[c].d
           n == consumer[c].index + 1
           r == [event[d] EXCEPT !.cursor = n]
<1>1. d \in Deliveries
  BY LocalType DEF Advance, Bounded
<1>2. n \in 0..Attachments
  BY LocalType DEF Advance, Bounded
<1>3. event' = [event EXCEPT ![d] = r]
  BY DEF Advance
<1> HIDE DEF d, n
<1>4. /\ r \in Row /\ r.status = event[d].status /\ r.registered = event[d].registered
      /\ r.cursor = n
  BY <1>1, <1>2, Columns DEF Row
<1> HIDE DEF r
<1>5. event' \in [Deliveries -> Row] /\ Advances(d, n)
  BY <1>1, <1>3, <1>4, PutRow DEF Advances
<1> QED BY <1>5 DEF d, n

(***************************************************************************)
(* Everything but the rows and the locals.                                 *)
(***************************************************************************)
RestType ==
  /\ smtp \in [Deliveries -> {"new", "putting", "put", "accepted", "refused"}]
  /\ raw \subseteq Deliveries /\ queue \subseteq Deliveries /\ dlq \subseteq Deliveries
  /\ message \in BOOLEAN /\ ticket \in Ticket /\ notices \in 0..2
  /\ stored \subseteq Deliveries \X Indices
  /\ effects \subseteq {"ticket.created", "message.received", "automations"}
  /\ opened \in BOOLEAN

LEMMA RestOfType == TypeInv => RestType
  BY DEF TypeInv, TypeOK, RestType

\* What only a running invocation changes, and what only it and the agents do.
LEMMA OutcomeType ==
  ASSUME TypeInv, NEW c \in Consumers, Invoke(c)
  PROVE  /\ message' \in BOOLEAN /\ ticket' \in Ticket /\ notices' \in 0..2
         /\ stored' \subseteq Deliveries \X Indices
         /\ effects' \subseteq {"ticket.created", "message.received", "automations"}
         /\ opened' \in BOOLEAN
<1> USE RestOfType DEF RestType, outcome
<1>1. CASE WriteMessage(c)
  <2>1. consumer[c].opens \in BOOLEAN
    BY LocalType
  <2>2. [state |-> "open", replied |-> TRUE] \in Ticket
    BY DEF Ticket
  <2> QED BY <1>1, <2>1, <2>2 DEF WriteMessage
<1>2. CASE Reconcile(c)
  BY <1>2 DEF Reconcile, Ticket
<1>3. CASE Notify(c)
  BY <1>3 DEF Notify
<1>4. CASE Store(c)
  <2>1. consumer[c].d \in Deliveries /\ consumer[c].index \in Indices
    BY <1>4, LocalType DEF Store, Bounded, Indices
  <2>2. stored' \subseteq Deliveries \X Indices
    BY <1>4, <2>1 DEF Store
  <2> QED BY <1>4, <2>2 DEF Store
<1>5. CASE AnnounceCreated(c) \/ AnnounceReceived(c) \/ Automate(c)
  BY <1>5 DEF AnnounceCreated, AnnounceReceived, Automate, Emit
<1>6. CASE UNCHANGED outcome
  BY <1>6
<1> QED BY <1>1, <1>2, <1>3, <1>4, <1>5, <1>6 DEF Invoke, Fetch, InboxMissing, Dedupe,
      CompleteSame, CompleteDuplicate, Register, Lookup, ReadCursor, Advance, Continue,
      Complete, Unstage, Throws, RecordFailure

LEMMA CarrierType ==
  ASSUME TypeInv, NEW c \in Consumers, Invoke(c)
  PROVE  /\ smtp' = smtp
         /\ raw' \subseteq Deliveries /\ queue' \subseteq Deliveries /\ dlq' \subseteq Deliveries
<1> USE RestOfType DEF RestType, arrival, carriers
<1>1. CASE Unstage(c)
  BY <1>1 DEF Unstage
<1>2. CASE RecordFailure(c)
  <2>1. consumer[c].d \in Deliveries
    BY <1>2, LocalType DEF RecordFailure, Bounded
  <2> QED BY <1>2, <2>1 DEF RecordFailure, GiveBack
<1> QED BY <1>1, <1>2 DEF Invoke, Fetch, InboxMissing, Dedupe, CompleteSame,
      CompleteDuplicate, Register, Lookup, WriteMessage, Reconcile, Notify, ReadCursor,
      Store, Advance, Continue, Complete, AnnounceCreated, AnnounceReceived, Automate,
      Emit, Throws

\* Every step that is not an invocation's leaves the outcome alone, the agents'
\* hold on the ticket apart, and the locals alone, but for a claim or a crash.
LEMMA ElsewhereType ==
  ASSUME TypeInv, NEW d \in Deliveries,
         \/ Accept(d) \/ Receipt(d) \/ (\E enqueued \in BOOLEAN : Dispatch(d, enqueued))
         \/ Exhaust(d) \/ Retry(d) \/ (\E written \in BOOLEAN : DrainLetter(d, written))
         \/ LeaseExpires(d) \/ ReservationExpires(d) \/ BackoffEnds(d)
  PROVE  RestType' /\ UNCHANGED <<consumer, outcome>>
<1> USE RestOfType DEF RestType, arrival, carriers, outcome
<1>1. CASE Accept(d) \/ Receipt(d)
  BY <1>1 DEF Accept, Receipt, Put, Stage, StageFails, StageDies
<1>2. CASE (\E enqueued \in BOOLEAN : Dispatch(d, enqueued)) \/ Exhaust(d) \/ Retry(d)
  BY <1>2 DEF Dispatch, Exhaust, Retry
<1>3. CASE \E written \in BOOLEAN : DrainLetter(d, written)
  BY <1>3 DEF DrainLetter
<1>4. CASE LeaseExpires(d) \/ ReservationExpires(d) \/ BackoffEnds(d)
  BY <1>4 DEF LeaseExpires, ReservationExpires, BackoffEnds
<1> QED BY <1>1, <1>2, <1>3, <1>4

LEMMA ClaimType ==
  ASSUME TypeInv, NEW c \in Consumers, NEW d \in Deliveries, Claim(c, d)
  PROVE  TypeInv'
<1> DEFINE r == [Idle EXCEPT !.pc = "claimed", !.d = d, !.attempts = event[d].attempts + 1]
<1>1. event[d].attempts + 1 \in Int
  BY Columns
<1>2. r \in Invocation
  BY <1>1, IdleType DEF Invocation, PCs
<1>3. Bounded(r)
  BY DEF Bounded, Idle
<1>4. consumer' = consumer \/ consumer' = [consumer EXCEPT ![c] = r]
  BY DEF Claim
<1> HIDE DEF r
<1>5. consumer' \in [Consumers -> Invocation] /\ \A k \in Consumers : Bounded(consumer'[k])
  BY <1>2, <1>3, <1>4, PutLocals DEF TypeInv, TypeOK
<1>6. RestType'
  BY RestOfType DEF RestType, Claim, arrival, outcome
<1> QED BY <1>5, <1>6, InvocationRows DEF TypeInv, TypeOK, RestType

LEMMA CrashType ==
  ASSUME TypeInv, NEW c \in Consumers, Crash(c)
  PROVE  TypeInv'
<1>1. consumer[c].d \in Deliveries
  BY LocalType DEF Crash, Bounded
<1>2. consumer' \in [Consumers -> Invocation] /\ \A k \in Consumers : Bounded(consumer'[k])
  BY IdleType, PutLocals DEF Crash
<1>3. RestType'
  BY <1>1, RestOfType DEF RestType, Crash, GiveBack, arrival, outcome
<1> QED BY <1>2, <1>3, InvocationRows DEF TypeInv, TypeOK, RestType

LEMMA InvokeType ==
  ASSUME TypeInv, NEW c \in Consumers, Invoke(c)
  PROVE  TypeInv'
<1>1. event' \in [Deliveries -> Row]
  <2>1. CASE event' = event
    BY <2>1, SameRows
  <2>2. CASE CompleteSame(c) \/ CompleteDuplicate(c) \/ Complete(c)
    BY <2>2, CompletingRows
  <2>3. CASE Register(c)
    BY <2>3, RegisteringRows
  <2>4. CASE Advance(c)
    BY <2>4, AdvancingRows
  <2>5. CASE Continue(c) \/ RecordFailure(c)
    BY <2>5, InvocationRows
  <2> QED BY <2>1, <2>2, <2>3, <2>4, <2>5 DEF Invoke, Fetch, InboxMissing, Dedupe,
        Lookup, WriteMessage, Reconcile, Notify, ReadCursor, Store, AnnounceCreated,
        AnnounceReceived, Automate, Emit, Unstage, Throws
<1>2. RestType'
  BY OutcomeType, CarrierType, RestOfType DEF RestType
<1> QED BY <1>1, <1>2, LocalsKeepType DEF TypeInv, TypeOK, RestType

\* The steps of everybody but the invocations.
Elsewhere ==
  \/ \E d \in Deliveries :
       \/ Accept(d) \/ Receipt(d) \/ (\E enqueued \in BOOLEAN : Dispatch(d, enqueued))
       \/ Exhaust(d) \/ Retry(d) \/ (\E written \in BOOLEAN : DrainLetter(d, written))
       \/ LeaseExpires(d) \/ ReservationExpires(d) \/ BackoffEnds(d)
  \/ Sweep
  \/ AgentCloses

LEMMA Steps ==
  ASSUME Next
  PROVE  \/ Elsewhere
         \/ \E c \in Consumers, d \in Deliveries : Claim(c, d)
         \/ \E c \in Consumers : Crash(c)
         \/ \E c \in Consumers : Invoke(c)
  BY DEF Next, Elsewhere

LEMMA ElsewhereKeepsType ==
  ASSUME TypeInv, Elsewhere
  PROVE  TypeInv' /\ TameEvents /\ UNCHANGED <<consumer, message, notices, stored>>
<1>1. ASSUME NEW d \in Deliveries,
             \/ Accept(d) \/ Receipt(d) \/ (\E enqueued \in BOOLEAN : Dispatch(d, enqueued))
             \/ Exhaust(d) \/ Retry(d) \/ (\E written \in BOOLEAN : DrainLetter(d, written))
             \/ LeaseExpires(d) \/ ReservationExpires(d) \/ BackoffEnds(d)
      PROVE  TypeInv' /\ TameEvents /\ UNCHANGED <<consumer, message, notices, stored>>
  BY <1>1, DeliveryRows, ElsewhereType DEF TypeInv, TypeOK, RestType, outcome
<1>2. CASE Sweep
  BY <1>2, SweepRows DEF Sweep, TypeInv, TypeOK, arrival, carriers, outcome
<1>3. CASE AgentCloses
  <2>1. ticket' \in Ticket
    BY <1>3, RestOfType DEF AgentCloses, RestType, Ticket
  <2> QED BY <1>3, <2>1, SameRows DEF AgentCloses, TypeInv, TypeOK, arrival, carriers
<1> QED BY <1>1, <1>2, <1>3 DEF Elsewhere

LEMMA TypeStep == TypeInv /\ [Next]_vars => TypeInv'
<1> SUFFICES ASSUME TypeInv, [Next]_vars PROVE TypeInv'
  OBVIOUS
<1>1. CASE Next
  BY <1>1, Steps, ElsewhereKeepsType, ClaimType, CrashType, InvokeType
<1>2. CASE UNCHANGED vars
  BY <1>2 DEF vars, TypeInv, TypeOK
<1> QED BY <1>1, <1>2

\* Every row and every local of an invocation has the values the code can write:
\* the attachment cursor, above all, stays within the mail's attachments.
THEOREM TypeCorrect == Spec => []TypeOK
<1>1. Spec => []TypeInv
  BY TypeInit, TypeStep, PTL DEF Spec
<1>2. TypeInv => TypeOK
  BY DEF TypeInv
<1> QED BY <1>1, <1>2, PTL

(***************************************************************************)
(* What keeps a mail.  An event is discarded, closed or stripped of its    *)
(* raw copy only once the message exists or another event of the inbox     *)
(* carries the mail, and the one that carries it keeps its raw copy until  *)
(* the message exists.                                                     *)
(***************************************************************************)
Fetched == PCs \ {"idle", "claimed", "fail"}
Own == {"lookup", "write", "notify", "cursor", "store", "advance", "created",
        "received", "automate"}
Written == {"same", "notify", "cursor", "store", "advance", "created", "received", "automate"}
Noticed == Written \ {"notify"}

Others(d) == {o \in Holders(d) : o /= d}
Settled(d) == message \/ Others(d) /= {}
Whole(d) == \A i \in Indices : <<d, i>> \in stored
Upto(d, n) == \A i \in Indices : i < n => <<d, i>> \in stored

Unique ==
  \A d, o \in Deliveries :
    InboxOf[d] = InboxOf[o] /\ event[d].registered /\ event[o].registered => d = o

EventInv(d) ==
  /\ event[d].status = "completed" => Settled(d) /\ Holders(d) /= {}
  /\ event[d].status = "completed" /\ event[d].registered => Whole(d) /\ notices > 0
  /\ event[d].registered /\ d \notin raw => message
  /\ smtp[d] \in {"put", "accepted"} /\ d \notin raw => Settled(d)
  /\ Upto(d, event[d].cursor)

LocalInv(k) ==
  /\ k.pc \in Fetched /\ k.d \notin raw => Settled(k.d)
  /\ k.pc = "unstage" => Settled(k.d)
  /\ k.pc = "duplicate" => Others(k.d) /= {}
  /\ k.pc = "same" => Holders(k.d) /= {} /\ (event[k.d].registered => Whole(k.d))
  /\ k.pc \in Own => event[k.d].registered
  /\ k.pc \in Written => message
  /\ k.pc = "write" /\ k.existing => message
  /\ k.pc \in Noticed => notices > 0
  /\ k.pc \in {"store", "advance"} => Upto(k.d, k.index)
  /\ k.pc = "advance" => <<k.d, k.index>> \in stored

SafeInv ==
  /\ Unique
  /\ message => ticket.replied
  /\ \A d \in Deliveries : EventInv(d)
  /\ \A c \in Consumers : LocalInv(consumer[c])

LEMMA SafeInit == Init => SafeInv
<1> SUFFICES ASSUME Init PROVE SafeInv
  OBVIOUS
<1>1. ASSUME NEW d \in Deliveries
      PROVE  ~event[d].registered /\ event[d].status = "absent" /\ event[d].cursor = 0
             /\ smtp[d] = "new"
  BY DEF Init, NoRow
<1>2. Unique
  BY <1>1 DEF Unique
<1>3. ASSUME NEW d \in Deliveries PROVE EventInv(d)
  <2>1. Upto(d, 0)
    BY DEF Upto, Indices
  <2> QED BY <1>1, <2>1 DEF EventInv
<1>4. ASSUME NEW c \in Consumers PROVE LocalInv(consumer[c])
  <2>1. consumer[c].pc = "idle"
    BY DEF Init, Idle
  <2> QED BY <2>1 DEF LocalInv, Fetched, Own, Written, Noticed
<1> QED BY <1>2, <1>3, <1>4 DEF SafeInv, Init

(***************************************************************************)
(* What every step keeps.  Messages, attachment rows, notices and ids are  *)
(* never taken back, an id is given to an event only where no other event  *)
(* of its inbox has it, and raw copies go only when the mail is settled.   *)
(***************************************************************************)
Grown ==
  /\ message => message'
  /\ stored \subseteq stored'
  /\ notices > 0 => notices' > 0
  /\ \A d \in Deliveries : event[d].registered => event'[d].registered
  /\ \A d \in Deliveries : event'[d].registered /\ Holders(d) /= {} => event[d].registered

Kept == \A d \in Deliveries : d \in raw /\ d \notin raw' => Settled(d)

LEMMA GrownFacts ==
  ASSUME Grown, NEW d \in Deliveries
  PROVE  /\ Holders(d) \subseteq Holders(d)'
         /\ Others(d) /= {} => Others(d)' /= {}
         /\ Settled(d) => Settled(d)'
         /\ Whole(d) => Whole(d)'
         /\ \A n \in Int : Upto(d, n) => Upto(d, n)'
<1>1. Holders(d) \subseteq Holders(d)'
  BY DEF Grown, Holders
<1>2. Others(d) /= {} => Others(d)' /= {}
  BY <1>1 DEF Others
<1>3. Settled(d) => Settled(d)'
  BY <1>2 DEF Settled, Grown
<1>4. Whole(d) => Whole(d)'
  BY DEF Whole, Grown
<1>5. \A n \in Int : Upto(d, n) => Upto(d, n)'
  BY DEF Upto, Grown
<1> QED BY <1>1, <1>2, <1>3, <1>4, <1>5

\* An event that carries the mail shares its inbox with no other that does.
LEMMA LoneHolder ==
  ASSUME SafeInv, NEW d \in Deliveries, event[d].registered
  PROVE  Others(d) = {}
  BY DEF SafeInv, Unique, Others, Holders

\* A row the step completes not, registers not and advances not.
LEMMA RestingRow ==
  ASSUME TypeInv, SafeInv, Grown, Kept, NEW d \in Deliveries, Tame(event[d], event'[d]),
         smtp'[d] \in {"put", "accepted"} => smtp[d] \in {"put", "accepted"} \/ d \in raw'
  PROVE  EventInv(d)'
<1>1. EventInv(d)
  BY DEF SafeInv
<1>3. event'[d].status = "completed" => Settled(d)' /\ Holders(d)' /= {}
  BY <1>1, GrownFacts DEF EventInv, Tame
<1>4. event'[d].status = "completed" /\ event'[d].registered => Whole(d)' /\ notices' > 0
  BY <1>1, GrownFacts DEF EventInv, Tame, Grown
<1>5. event'[d].registered /\ d \notin raw' => message'
  <2>1. SUFFICES ASSUME event[d].registered, d \notin raw' PROVE message'
    BY DEF Tame
  <2>2. message \/ Settled(d)
    BY <1>1, <2>1 DEF EventInv, Kept
  <2> QED BY <2>1, <2>2, LoneHolder DEF Settled, Grown
<1>6. smtp'[d] \in {"put", "accepted"} /\ d \notin raw' => Settled(d)'
  BY <1>1, GrownFacts DEF EventInv, Kept
<1>7. Upto(d, event[d].cursor)'
  BY <1>1 DEF EventInv, Upto, Grown, Tame
<1> QED BY <1>3, <1>4, <1>5, <1>6, <1>7 DEF EventInv

\* An invocation that does not run.
LEMMA RestingLocals ==
  ASSUME TypeInv, Grown, Kept, NEW c \in Consumers, LocalInv(consumer[c]),
         consumer'[c] = consumer[c]
  PROVE  LocalInv(consumer[c])'
<1> DEFINE k == consumer[c]
<1>1. k.pc = "idle" \/ k.d \in Deliveries
  BY LocalType DEF Bounded
<1>2. CASE k.pc = "idle"
  BY <1>2 DEF LocalInv, Fetched, Own, Written, Noticed
<1>3. CASE k.d \in Deliveries
  <2>1. k.index \in Int
    BY LocalType
  <2>2. k.pc \in Fetched /\ k.d \notin raw' => Settled(k.d)'
    BY <1>3, GrownFacts DEF LocalInv, Kept
  <2>3. k.pc = "same" => Holders(k.d)' /= {} /\ (event'[k.d].registered => Whole(k.d)')
    BY <1>3, GrownFacts DEF LocalInv, Grown
  <2>4. k.pc \in {"store", "advance"} => Upto(k.d, k.index)'
    BY <1>3, <2>1, GrownFacts DEF LocalInv
  <2> QED BY <1>3, <2>2, <2>3, <2>4, GrownFacts DEF LocalInv, Grown
<1> QED BY <1>1, <1>2, <1>3

(***************************************************************************)
(* One step of a running invocation, column by column.                     *)
(***************************************************************************)
Alone(c) == \A k \in Consumers : k /= c => consumer'[k] = consumer[k]

LEMMA GotoLocals ==
  ASSUME TypeInv, NEW c \in Consumers, NEW pc \in PCs, Goto(c, pc)
  PROVE  /\ Alone(c)
         /\ consumer'[c].pc = pc
         /\ consumer'[c].d = consumer[c].d
         /\ consumer'[c].existing = consumer[c].existing
         /\ consumer'[c].index = consumer[c].index
         /\ consumer'[c].last = consumer[c].last
<1>1. consumer \in [Consumers -> Invocation]
  BY DEF TypeInv, TypeOK
<1> QED BY <1>1 DEF Goto, Alone, Invocation

LEMMA FailLocals ==
  ASSUME TypeInv, NEW c \in Consumers, NEW terminal, Fail(c, terminal)
  PROVE  Alone(c) /\ consumer'[c].pc = "fail"
<1>1. consumer \in [Consumers -> Invocation]
  BY DEF TypeInv, TypeOK
<1> QED BY <1>1 DEF Fail, Alone, Idle

LEMMA InvokeAlone ==
  ASSUME TypeInv, NEW c \in Consumers, Invoke(c)
  PROVE  Alone(c)
<1>1. consumer \in [Consumers -> Invocation]
  BY DEF TypeInv, TypeOK
<1> USE DEF PCs
<1>2. CASE Fetch(c) \/ InboxMissing(c) \/ Throws(c) \/ WriteMessage(c)
  BY <1>1, <1>2, FailLocals, GotoLocals DEF Fetch, InboxMissing, Throws, WriteMessage, Alone
<1>3. CASE Dedupe(c) \/ CompleteSame(c) \/ CompleteDuplicate(c) \/ Register(c)
  BY <1>3, GotoLocals DEF Dedupe, CompleteSame, CompleteDuplicate, Register
<1>4. CASE Reconcile(c) \/ Notify(c) \/ Store(c) \/ Complete(c)
  BY <1>4, GotoLocals DEF Reconcile, Notify, Store, Complete
<1>5. CASE AnnounceCreated(c) \/ AnnounceReceived(c) \/ Automate(c)
  BY <1>5, GotoLocals DEF AnnounceCreated, AnnounceReceived, Automate, Emit
<1>6. CASE Lookup(c) \/ ReadCursor(c) \/ Advance(c)
  BY <1>1, <1>6 DEF Lookup, ReadCursor, Advance, Alone
<1>7. CASE Continue(c) \/ Unstage(c) \/ RecordFailure(c)
  BY <1>1, <1>7 DEF Continue, Unstage, RecordFailure, Alone
<1> QED BY <1>2, <1>3, <1>4, <1>5, <1>6, <1>7 DEF Invoke

\* The statements of an invocation that touch a row, by what they do to it.
LEMMA InvokeRows ==
  ASSUME TypeInv, NEW c \in Consumers, Invoke(c)
  PROVE  \/ TameEvents
         \/ (CompleteSame(c) \/ CompleteDuplicate(c) \/ Complete(c)) /\ Completes(consumer[c].d)
         \/ Register(c) /\ Registers(consumer[c].d)
              /\ Holders(consumer[c].d) \subseteq {consumer[c].d}
         \/ Advance(c) /\ Advances(consumer[c].d, consumer[c].index + 1)
<1>1. CASE event' = event
  BY <1>1, SameRows
<1>2. CASE Continue(c) \/ RecordFailure(c)
  BY <1>2, InvocationRows
<1>3. CASE CompleteSame(c) \/ CompleteDuplicate(c) \/ Complete(c)
  BY <1>3, CompletingRows
<1>4. CASE Register(c)
  BY <1>4, RegisteringRows, SameRows
<1>5. CASE Advance(c)
  BY <1>5, AdvancingRows
<1> QED BY <1>1, <1>2, <1>3, <1>4, <1>5 DEF Invoke, Fetch, InboxMissing, Dedupe,
      Lookup, WriteMessage, Reconcile, Notify, ReadCursor, Store, AnnounceCreated,
      AnnounceReceived, Automate, Emit, Unstage, Throws

LEMMA BusyEvent ==
  ASSUME TypeInv, NEW c \in Consumers, Invoke(c)
  PROVE  consumer[c].d \in Deliveries
<1>1. consumer[c].pc /= "idle"
  BY DEF Invoke, Fetch, InboxMissing, Dedupe, CompleteSame, CompleteDuplicate, Register,
     Lookup, WriteMessage, Reconcile, Notify, ReadCursor, Store, Advance, Continue, Complete,
     AnnounceCreated, AnnounceReceived, Automate, Unstage, Throws, RecordFailure
<1> QED BY <1>1, LocalType DEF Bounded

LEMMA TameGrows ==
  ASSUME TameEvents, message => message', stored \subseteq stored', notices > 0 => notices' > 0
  PROVE  Grown
  BY DEF TameEvents, Tame, Grown

LEMMA InvokeGrown ==
  ASSUME TypeInv, NEW c \in Consumers, Invoke(c)
  PROVE  Grown
<1> DEFINE d == consumer[c].d
<1>1. (message => message') /\ stored \subseteq stored' /\ (notices > 0 => notices' > 0)
  <2> USE DEF outcome
  <2>1. CASE WriteMessage(c)
    BY <2>1 DEF WriteMessage
  <2>2. CASE Notify(c)
    BY <2>2, RestOfType DEF Notify, RestType
  <2>3. CASE Store(c)
    BY <2>3 DEF Store
  <2>4. CASE UNCHANGED <<message, stored, notices>>
    BY <2>4
  <2> QED BY <2>1, <2>2, <2>3, <2>4 DEF Invoke, Fetch, InboxMissing, Dedupe, CompleteSame,
        CompleteDuplicate, Register, Lookup, Reconcile, ReadCursor, Advance, Continue,
        Complete, AnnounceCreated, AnnounceReceived, Automate, Emit, Unstage, Throws,
        RecordFailure
<1>2. d \in Deliveries
  BY BusyEvent
<1>3. CASE TameEvents
  BY <1>1, <1>3, TameGrows
<1>4. CASE Completes(d) \/ Advances(d, consumer[c].index + 1)
  BY <1>1, <1>2, <1>4 DEF Completes, Advances, Grown
<1>5. CASE Registers(d) /\ Holders(d) \subseteq {d}
  <2>1. ASSUME NEW o \in Deliveries, event'[o].registered, Holders(o) /= {}
        PROVE  event[o].registered
    <3>1. CASE o = d
      <4>1. d \in Holders(d)
        BY <1>5, <2>1, <3>1
      <4> QED BY <3>1, <4>1 DEF Holders
    <3>2. CASE o /= d
      BY <1>5, <2>1, <3>2 DEF Registers
    <3> QED BY <3>1, <3>2
  <2> QED BY <1>1, <1>2, <1>5, <2>1 DEF Registers, Grown
<1> QED BY <1>3, <1>4, <1>5, InvokeRows

LEMMA InvokeKept ==
  ASSUME TypeInv, SafeInv, NEW c \in Consumers, Invoke(c)
  PROVE  Kept
<1>1. CASE raw' = raw
  BY <1>1 DEF Kept
<1>2. CASE Unstage(c)
  <2>1. Settled(consumer[c].d)
    BY <1>2 DEF Unstage, SafeInv, LocalInv
  <2> QED BY <1>2, <2>1 DEF Unstage, Kept
<1> USE DEF arrival
<1> QED BY <1>1, <1>2 DEF Invoke, Fetch, InboxMissing, Dedupe, CompleteSame,
      CompleteDuplicate, Register, Lookup, WriteMessage, Reconcile, Notify, ReadCursor,
      Store, Advance, Continue, Complete, AnnounceCreated, AnnounceReceived, Automate,
      Emit, Throws, RecordFailure

LEMMA InvokeSmtp ==
  ASSUME NEW c \in Consumers, Invoke(c)
  PROVE  smtp' = smtp
  BY DEF arrival, Invoke, Fetch, InboxMissing, Dedupe, CompleteSame, CompleteDuplicate,
     Register, Lookup, WriteMessage, Reconcile, Notify, ReadCursor, Store, Advance, Continue,
     Complete, AnnounceCreated, AnnounceReceived, Automate, Emit, Unstage, Throws,
     RecordFailure

(***************************************************************************)
(* The invariant after a step of a running invocation.                     *)
(***************************************************************************)
LEMMA UniqueKept ==
  ASSUME SafeInv, \A d \in Deliveries : event'[d].registered = event[d].registered
  PROVE  Unique'
  BY DEF SafeInv, Unique

LEMMA InvokeUnique ==
  ASSUME TypeInv, SafeInv, NEW c \in Consumers, Invoke(c)
  PROVE  Unique'
<1> DEFINE d == consumer[c].d
<1>1. d \in Deliveries
  BY BusyEvent
<1>2. CASE TameEvents
  BY <1>2, UniqueKept DEF TameEvents, Tame
<1>3. CASE Completes(d) \/ Advances(d, consumer[c].index + 1)
  BY <1>1, <1>3, UniqueKept DEF Completes, Advances
<1>4. CASE Registers(d) /\ Holders(d) \subseteq {d}
  <2>1. ASSUME NEW o \in Deliveries, InboxOf[o] = InboxOf[d], event'[o].registered
        PROVE  o = d
    <3>1. SUFFICES ASSUME o /= d PROVE FALSE
      OBVIOUS
    <3>2. o \in Holders(d)
      BY <1>4, <2>1, <3>1 DEF Registers, Holders
    <3> QED BY <1>4, <3>1, <3>2
  <2>2. ASSUME NEW o \in Deliveries, NEW p \in Deliveries, o /= d, p /= d,
               InboxOf[o] = InboxOf[p], event'[o].registered, event'[p].registered
        PROVE  o = p
    BY <1>4, <2>2 DEF Registers, SafeInv, Unique
  <2> QED BY <1>1, <2>1, <2>2 DEF Unique
<1> QED BY <1>2, <1>3, <1>4, InvokeRows

LEMMA InvokeTicket ==
  ASSUME TypeInv, SafeInv, NEW c \in Consumers, Invoke(c)
  PROVE  message' => ticket'.replied
<1> USE DEF SafeInv, outcome
<1>1. CASE WriteMessage(c)
  <2>1. CASE message
    BY <1>1, <2>1 DEF WriteMessage
  <2>2. CASE ~message
    <3>1. ticket' = [state |-> "open", replied |-> TRUE]
      BY <1>1, <2>2 DEF WriteMessage
    <3> QED BY <3>1
  <2> QED BY <2>1, <2>2
<1>2. CASE Reconcile(c)
  BY <1>2 DEF Reconcile
<1>3. CASE UNCHANGED <<message, ticket>>
  BY <1>3
<1> QED BY <1>1, <1>2, <1>3 DEF Invoke, Fetch, InboxMissing, Dedupe, CompleteSame,
      CompleteDuplicate, Register, Lookup, Notify, ReadCursor, Store, Advance, Continue,
      Complete, AnnounceCreated, AnnounceReceived, Automate, Emit, Unstage, Throws,
      RecordFailure

\* An event completed by the step: what the invocation knew of it.
LEMMA CompletedRow ==
  ASSUME TypeInv, SafeInv, NEW c \in Consumers, Grown, raw' = raw, smtp' = smtp,
         CompleteSame(c) \/ CompleteDuplicate(c) \/ Complete(c),
         NEW d \in Deliveries, d = consumer[c].d, Completes(d)
  PROVE  EventInv(d)'
<1>1. LocalInv(consumer[c]) /\ EventInv(d)
  BY DEF SafeInv
<1>2. /\ Settled(d) /\ Holders(d) /= {}
      /\ event[d].registered => Whole(d) /\ notices > 0
  <2>1. CASE CompleteSame(c)
    BY <1>1, <2>1 DEF CompleteSame, LocalInv, Written, Noticed, Settled
  <2>2. CASE CompleteDuplicate(c)
    <3>1. Others(d) /= {}
      BY <1>1, <2>2 DEF CompleteDuplicate, LocalInv
    <3> QED BY <3>1, LoneHolder DEF Settled, Others
  <2>3. CASE Complete(c)
    <3>1. event[d].registered /\ message /\ notices > 0 /\ Upto(d, Attachments)
      BY <1>1, <2>3, LocalType DEF Complete, LocalInv, Own, Written, Noticed
    <3>2. d \in Holders(d)
      BY <3>1 DEF Holders
    <3>3. Whole(d)
      BY <3>1 DEF Whole, Upto, Indices
    <3> QED BY <3>1, <3>2, <3>3 DEF Settled
  <2> QED BY <2>1, <2>2, <2>3
<1>3. Settled(d)' /\ Holders(d)' /= {}
  BY <1>2, GrownFacts
<1>4. event'[d].registered => Whole(d)' /\ notices' > 0
  BY <1>2, GrownFacts DEF Completes, Grown
<1>5. event'[d].registered /\ d \notin raw' => message'
  BY <1>1 DEF EventInv, Completes, Grown
<1>6. \A i \in Indices : i < event'[d].cursor => <<d, i>> \in stored'
  BY <1>1 DEF EventInv, Upto, Completes, Grown
<1> QED BY <1>3, <1>4, <1>5, <1>6 DEF EventInv, Upto

LEMMA InvokeEvents ==
  ASSUME TypeInv, SafeInv, NEW c \in Consumers, Invoke(c)
  PROVE  \A d \in Deliveries : EventInv(d)'
<1>1. Grown /\ Kept /\ smtp' = smtp
  BY InvokeGrown, InvokeKept, InvokeSmtp
<1>2. ASSUME NEW d \in Deliveries, Tame(event[d], event'[d]) PROVE EventInv(d)'
  BY <1>1, <1>2, RestingRow
<1>3. ASSUME NEW d \in Deliveries, event'[d] = event[d] PROVE EventInv(d)'
  BY <1>2, <1>3 DEF Tame
<1>4. PICK d \in Deliveries : d = consumer[c].d
  BY BusyEvent
<1>5. CASE TameEvents
  BY <1>2, <1>5 DEF TameEvents
<1>6. CASE /\ CompleteSame(c) \/ CompleteDuplicate(c) \/ Complete(c)
           /\ Completes(d)
  <2>1. raw' = raw
    BY <1>6 DEF CompleteSame, CompleteDuplicate, Complete, arrival
  <2>2. EventInv(d)'
    BY <1>1, <1>4, <1>6, <2>1, CompletedRow
  <2> QED BY <1>3, <1>6, <2>2 DEF Completes
<1>7. CASE Register(c) /\ Registers(d) /\ Holders(d) \subseteq {d}
  <2>1. EventInv(d) /\ LocalInv(consumer[c])
    BY DEF SafeInv
  <2>2. raw' = raw
    BY <1>7 DEF Register, arrival
  <2>3. event[d].status = "completed" => event[d].registered
    BY <1>7, <2>1 DEF EventInv, Holders
  <2>4. event'[d].status = "completed" => Settled(d)' /\ Holders(d)' /= {}
    BY <1>1, <1>7, <2>1, GrownFacts DEF EventInv, Registers
  <2>5. event'[d].status = "completed" => Whole(d)' /\ notices' > 0
    BY <1>1, <1>7, <2>1, <2>3, GrownFacts DEF EventInv, Registers, Grown
  <2>6. d \notin raw' => message'
    <3>1. Others(d) = {}
      BY <1>7 DEF Others
    <3>2. d \notin raw => Settled(d)
      BY <1>4, <1>7, <2>1 DEF Register, LocalInv, Fetched, PCs
    <3> QED BY <1>1, <2>2, <3>1, <3>2 DEF Settled, Grown
  <2>7. smtp'[d] \in {"put", "accepted"} /\ d \notin raw' => Settled(d)'
    BY <2>6 DEF Settled
  <2>8. \A i \in Indices : i < event'[d].cursor => <<d, i>> \in stored'
    BY <1>1, <1>7, <2>1 DEF EventInv, Upto, Registers, Grown
  <2>9. EventInv(d)'
    BY <2>4, <2>5, <2>6, <2>7, <2>8 DEF EventInv, Upto
  <2> QED BY <1>3, <1>7, <2>9 DEF Registers
<1>8. CASE Advance(c) /\ Advances(d, consumer[c].index + 1)
  <2>1. EventInv(d) /\ LocalInv(consumer[c])
    BY DEF SafeInv
  <2>2. raw' = raw
    BY <1>8 DEF Advance, arrival
  <2>3. \A i \in Indices : i < event'[d].cursor => <<d, i>> \in stored'
    <3>1. Upto(d, consumer[c].index) /\ <<d, consumer[c].index>> \in stored
      BY <1>4, <1>8, <2>1 DEF Advance, LocalInv
    <3>2. event'[d].cursor = consumer[c].index + 1 /\ consumer[c].index \in Int
      BY <1>8, LocalType DEF Advances
    <3> QED BY <1>1, <3>1, <3>2 DEF Upto, Indices, Grown
  <2>4. event'[d].status = "completed" => Settled(d)' /\ Holders(d)' /= {}
    BY <1>1, <1>8, <2>1, GrownFacts DEF EventInv, Advances
  <2>5. event'[d].status = "completed" /\ event'[d].registered => Whole(d)' /\ notices' > 0
    BY <1>1, <1>8, <2>1, GrownFacts DEF EventInv, Advances, Grown
  <2>6. event'[d].registered /\ d \notin raw' => message'
    BY <1>1, <1>8, <2>1, <2>2 DEF EventInv, Advances, Grown
  <2>7. smtp'[d] \in {"put", "accepted"} /\ d \notin raw' => Settled(d)'
    BY <1>1, <2>1, <2>2, GrownFacts DEF EventInv
  <2>8. EventInv(d)'
    BY <2>3, <2>4, <2>5, <2>6, <2>7 DEF EventInv, Upto
  <2> QED BY <1>3, <1>8, <2>8 DEF Advances
<1> QED BY <1>4, <1>5, <1>6, <1>7, <1>8, InvokeRows

\* Locals that promise nothing.
LEMMA QuietLocals ==
  ASSUME NEW c \in Consumers, consumer'[c].pc \in {"idle", "claimed", "fail"}
  PROVE  LocalInv(consumer[c])'
  BY DEF LocalInv, Fetched, Own, Written, Noticed

\* Moving on with the same event, to a point past the attachments or before them.
LEMMA GotoInv ==
  ASSUME TypeInv, Grown, raw' = raw, NEW c \in Consumers, LocalInv(consumer[c]),
         consumer[c].pc \in Fetched, NEW d \in Deliveries, d = consumer[c].d,
         NEW pc \in PCs \ {"same", "duplicate", "write", "store", "advance"}, Goto(c, pc),
         pc = "unstage" => Settled(d)',
         pc \in Own => event'[d].registered,
         pc \in Written => message',
         pc \in Noticed => notices' > 0
  PROVE  LocalInv(consumer[c])'
<1>1. consumer'[c].pc = pc /\ consumer'[c].d = d
  BY GotoLocals
<1>2. d \notin raw' => Settled(d)'
  BY GrownFacts DEF LocalInv
<1> QED BY <1>1, <1>2 DEF LocalInv, Settled, Others, Holders

LEMMA FetchLocals ==
  ASSUME TypeInv, NEW c \in Consumers, Fetch(c)
  PROVE  LocalInv(consumer[c])'
<1>1. CASE consumer[c].d \in raw /\ Goto(c, "parsed")
  <2>1. consumer'[c].pc = "parsed" /\ consumer'[c].d = consumer[c].d /\ raw' = raw
    BY <1>1, GotoLocals DEF Fetch, arrival, PCs
  <2> QED BY <1>1, <2>1 DEF LocalInv, Own, Written, Noticed
<1>2. CASE consumer' = [consumer EXCEPT ![c] = Idle]
  BY <1>2, QuietLocals DEF TypeInv, TypeOK, Idle
<1>3. CASE Fail(c, FALSE)
  BY <1>3, FailLocals, QuietLocals
<1> QED BY <1>1, <1>2, <1>3 DEF Fetch

LEMMA DedupeLocals ==
  ASSUME TypeInv, SafeInv, Grown, NEW c \in Consumers, Dedupe(c)
  PROVE  LocalInv(consumer[c])'
<1>1. PICK d \in Deliveries : d = consumer[c].d
  BY BusyEvent DEF Invoke
<1>2. UNCHANGED <<event, raw, stored, message, notices>>
  BY DEF Dedupe, arrival, outcome
<1>3. d \notin raw' => Settled(d)'
  <2>1. d \notin raw => Settled(d)
    BY <1>1 DEF Dedupe, SafeInv, LocalInv, Fetched, PCs
  <2> QED BY <1>2, <2>1, GrownFacts
<1>4. CASE \E o \in Holders(d) : event[o].status = "completed"
  <2>1. consumer'[c].pc = "same" /\ consumer'[c].d = d
    BY <1>1, <1>4, GotoLocals DEF Dedupe, PCs
  <2>2. PICK o \in Holders(d) : event[o].status = "completed"
    BY <1>4
  <2>3. o \in Deliveries /\ InboxOf[o] = InboxOf[d] /\ event[o].registered
    BY DEF Holders
  <2>4. Settled(o) /\ Whole(o) /\ notices > 0
    BY <2>2, <2>3 DEF SafeInv, EventInv
  <2>5. message
    BY <2>3, <2>4, LoneHolder DEF Settled
  <2>6. event[d].registered => Whole(d)
    BY <2>3, <2>4 DEF SafeInv, Unique
  <2>7. Holders(d)' /= {} /\ (event'[d].registered => Whole(d)')
    BY <1>2, <2>2, <2>6, GrownFacts
  <2> QED BY <1>2, <1>3, <2>1, <2>4, <2>5, <2>7 DEF LocalInv, Own, Settled, Others, Holders, Whole
<1>5. CASE ~(\E o \in Holders(d) : event[o].status = "completed") /\ (\E o \in Holders(d) : o /= d)
  <2>1. consumer'[c].pc = "duplicate" /\ consumer'[c].d = d
    BY <1>1, <1>5, GotoLocals DEF Dedupe, PCs
  <2>2. Others(d)' /= {}
    BY <1>5, GrownFacts DEF Others
  <2> QED BY <1>3, <2>1, <2>2 DEF LocalInv, Own, Written, Noticed, Settled, Others, Holders
<1>6. CASE ~(\E o \in Holders(d) : event[o].status = "completed") /\ ~(\E o \in Holders(d) : o /= d)
  <2>1. consumer'[c].pc = "register" /\ consumer'[c].d = d
    BY <1>1, <1>6, GotoLocals DEF Dedupe, PCs
  <2> QED BY <1>3, <2>1 DEF LocalInv, Own, Written, Noticed, Settled, Others, Holders
<1> QED BY <1>4, <1>5, <1>6

LEMMA RegisterLocals ==
  ASSUME TypeInv, SafeInv, Grown, NEW c \in Consumers, Register(c)
  PROVE  LocalInv(consumer[c])'
<1>1. PICK d \in Deliveries : d = consumer[c].d
  BY BusyEvent DEF Invoke
<1>2. UNCHANGED <<raw, message>>
  BY DEF Register, arrival, outcome
<1>3. d \notin raw' => Settled(d)'
  <2>1. d \notin raw => Settled(d)
    BY <1>1 DEF Register, SafeInv, LocalInv, Fetched, PCs
  <2> QED BY <1>2, <2>1, GrownFacts
<1>4. CASE Holders(d) \subseteq {d}
  <2>1. consumer'[c].pc = "lookup" /\ consumer'[c].d = d
    BY <1>1, <1>4, GotoLocals DEF Register, PCs
  <2>2. event'[d].registered
    BY <1>1, <1>4, RegisteringRows DEF Registers
  <2> QED BY <1>3, <2>1, <2>2 DEF LocalInv, Own, Written, Noticed, Settled, Others, Holders
<1>5. CASE ~(Holders(d) \subseteq {d})
  <2>1. consumer'[c].pc = "duplicate" /\ consumer'[c].d = d
    BY <1>1, <1>5, GotoLocals DEF Register, PCs
  <2>2. Others(d)' /= {}
    BY <1>5, GrownFacts DEF Others
  <2> QED BY <1>3, <2>1, <2>2 DEF LocalInv, Own, Written, Noticed, Settled, Others, Holders
<1> QED BY <1>4, <1>5

LEMMA LookupLocals ==
  ASSUME TypeInv, SafeInv, Grown, NEW c \in Consumers, Lookup(c)
  PROVE  LocalInv(consumer[c])'
<1>1. PICK d \in Deliveries : d = consumer[c].d
  BY BusyEvent DEF Invoke
<1>2. UNCHANGED <<raw, message, event>>
  BY DEF Lookup, arrival, outcome
<1>3. consumer'[c].pc = "write" /\ consumer'[c].d = d /\ consumer'[c].existing = message
  BY <1>1, LocalType DEF Lookup, TypeInv, TypeOK, Invocation
<1>4. (d \notin raw => Settled(d)) /\ event[d].registered
  BY <1>1 DEF Lookup, SafeInv, LocalInv, Fetched, PCs, Own
<1>5. d \notin raw' => Settled(d)'
  BY <1>2, <1>4, GrownFacts
<1> QED BY <1>2, <1>3, <1>4, <1>5 DEF LocalInv, Written, Noticed, Settled, Others, Holders

\* The loop over the attachments.
LEMMA LoopLocals ==
  ASSUME TypeInv, SafeInv, Grown, NEW c \in Consumers,
         ReadCursor(c) \/ Store(c) \/ Advance(c)
  PROVE  LocalInv(consumer[c])'
<1> DEFINE k == consumer[c]
<1>1. PICK d \in Deliveries : d = consumer[c].d
  BY BusyEvent DEF Invoke
<1>2. raw' = raw
  BY DEF ReadCursor, Store, Advance, arrival
<1>3. (d \notin raw => Settled(d)) /\ event[d].registered /\ message /\ notices > 0
  BY <1>1 DEF ReadCursor, Store, Advance, SafeInv, LocalInv, Fetched, PCs, Own, Written, Noticed
<1>4. (d \notin raw' => Settled(d)') /\ event'[d].registered /\ message' /\ notices' > 0
  BY <1>2, <1>3, GrownFacts DEF Grown
<1>5. CASE ReadCursor(c)
  <2>1. consumer'[c].pc = "store" /\ consumer'[c].d = d /\ consumer'[c].index = event[d].cursor
    BY <1>1, <1>5, LocalType DEF ReadCursor, TypeInv, TypeOK, Invocation
  <2>2. Upto(d, event[d].cursor) /\ stored' = stored
    BY <1>5 DEF SafeInv, EventInv, ReadCursor, outcome
  <2> QED BY <1>4, <2>1, <2>2 DEF LocalInv, Settled, Others, Holders, Upto
<1>6. CASE Store(c)
  <2>1. consumer'[c].pc = "advance" /\ consumer'[c].d = d /\ consumer'[c].index = k.index
    BY <1>1, <1>6, GotoLocals DEF Store, PCs
  <2>2. Upto(d, k.index)
    BY <1>1, <1>6 DEF Store, SafeInv, LocalInv
  <2>3. \A i \in Indices : i < k.index => <<d, i>> \in stored'
    BY <2>2 DEF Upto, Grown
  <2>4. <<d, k.index>> \in stored'
    BY <1>1, <1>6 DEF Store
  <2> QED BY <1>4, <2>1, <2>3, <2>4 DEF LocalInv, Settled, Others, Holders, Upto
<1>7. CASE Advance(c)
  <2>1. consumer'[c].pc = "store" /\ consumer'[c].d = d /\ consumer'[c].index = k.index + 1
    BY <1>1, <1>7, LocalType DEF Advance, TypeInv, TypeOK, Invocation
  <2>2. Upto(d, k.index) /\ <<d, k.index>> \in stored /\ k.index \in Int
    BY <1>1, <1>7, LocalType DEF Advance, SafeInv, LocalInv
  <2>3. \A i \in Indices : i < k.index + 1 => <<d, i>> \in stored'
    BY <2>2 DEF Upto, Indices, Grown
  <2> QED BY <1>4, <2>1, <2>3 DEF LocalInv, Settled, Others, Holders, Upto
<1> QED BY <1>5, <1>6, <1>7

LEMMA InvokeLocals ==
  ASSUME TypeInv, SafeInv, NEW c \in Consumers, Invoke(c)
  PROVE  LocalInv(consumer[c])'
<1>1. PICK d \in Deliveries : d = consumer[c].d
  BY BusyEvent
<1>2. Grown /\ LocalInv(consumer[c])
  BY InvokeGrown DEF SafeInv
<1>3. consumer \in [Consumers -> Invocation]
  BY DEF TypeInv, TypeOK
<1>4. CASE Fetch(c) \/ Dedupe(c) \/ Register(c) \/ Lookup(c) \/ ReadCursor(c) \/ Store(c)
           \/ Advance(c)
  BY <1>2, <1>4, FetchLocals, DedupeLocals, RegisterLocals, LookupLocals, LoopLocals
<1>5. CASE InboxMissing(c) \/ Throws(c)
  BY <1>5, FailLocals, QuietLocals DEF InboxMissing, Throws
<1>6. CASE Continue(c) \/ Unstage(c) \/ RecordFailure(c)
  BY <1>3, <1>6, QuietLocals DEF Continue, Unstage, RecordFailure, Idle
<1>7. CASE CompleteSame(c)
  <2>1. Settled(d)'
    BY <1>2, <1>7 DEF CompleteSame, LocalInv, Written, Settled, Grown
  <2>2. Goto(c, "unstage") /\ raw' = raw /\ consumer[c].pc \in Fetched
    BY <1>7 DEF CompleteSame, arrival, Fetched, PCs
  <2> QED BY <1>1, <1>2, <2>1, <2>2, GotoInv DEF PCs, Own, Written, Noticed
<1>8. CASE CompleteDuplicate(c)
  <2>1. Settled(d)
    BY <1>1, <1>2, <1>8 DEF CompleteDuplicate, LocalInv, Settled
  <2>2. Settled(d)'
    BY <1>2, <2>1, GrownFacts
  <2>3. Goto(c, "unstage") /\ raw' = raw /\ consumer[c].pc \in Fetched
    BY <1>8 DEF CompleteDuplicate, arrival, Fetched, PCs
  <2> QED BY <1>1, <1>2, <2>2, <2>3, GotoInv DEF PCs, Own, Written, Noticed
<1>9. CASE WriteMessage(c)
  <2>1. CASE message
    BY <1>9, <2>1, FailLocals, QuietLocals DEF WriteMessage
  <2>2. CASE ~message
    <3>1. /\ Goto(c, "notify") /\ raw' = raw /\ consumer[c].pc \in Fetched
          /\ event[d].registered /\ message'
      BY <1>1, <1>2, <1>9, <2>2 DEF WriteMessage, arrival, Fetched, PCs, LocalInv, Own
    <3> QED BY <1>1, <1>2, <3>1, GotoInv DEF PCs, Own, Written, Noticed, Grown
  <2> QED BY <2>1, <2>2
<1>10. CASE Reconcile(c)
  <2>1. /\ Goto(c, "notify") /\ raw' = raw /\ consumer[c].pc \in Fetched
        /\ event[d].registered /\ message
    BY <1>1, <1>2, <1>10 DEF Reconcile, arrival, Fetched, PCs, LocalInv, Own
  <2> QED BY <1>1, <1>2, <2>1, GotoInv DEF PCs, Own, Written, Noticed, Grown
<1>11. CASE Notify(c)
  <2>1. /\ Goto(c, "cursor") /\ raw' = raw /\ consumer[c].pc \in Fetched
        /\ event[d].registered /\ message
    BY <1>1, <1>2, <1>11 DEF Notify, arrival, Fetched, PCs, LocalInv, Own, Written
  <2>2. notices' > 0
    BY <1>11, RestOfType DEF Notify, RestType
  <2> QED BY <1>1, <1>2, <2>1, <2>2, GotoInv DEF PCs, Own, Written, Noticed, Grown
<1>12. CASE Complete(c) \/ AnnounceCreated(c) \/ AnnounceReceived(c) \/ Automate(c)
  <2>1. /\ raw' = raw /\ consumer[c].pc \in Fetched
        /\ event[d].registered /\ message /\ notices > 0
    BY <1>1, <1>2, <1>12 DEF Complete, AnnounceCreated, AnnounceReceived, Automate, Emit,
       arrival, Fetched, PCs, LocalInv, Own, Written, Noticed
  <2>2. event'[d].registered /\ message' /\ notices' > 0 /\ Settled(d)'
    BY <1>2, <2>1 DEF Grown, Settled
  <2>3. \E pc \in {"created", "received", "automate", "unstage"} : Goto(c, pc)
    BY <1>12 DEF Complete, AnnounceCreated, AnnounceReceived, Automate, Emit
  <2> QED BY <1>1, <1>2, <2>1, <2>2, <2>3, GotoInv DEF PCs
<1> QED BY <1>4, <1>5, <1>6, <1>7, <1>8, <1>9, <1>10, <1>11, <1>12 DEF Invoke

(***************************************************************************)
(* The invariant, and the theorems.                                        *)
(***************************************************************************)
LEMMA InvokeSafe ==
  ASSUME TypeInv, SafeInv, NEW c \in Consumers, Invoke(c)
  PROVE  SafeInv'
<1>1. ASSUME NEW k \in Consumers PROVE LocalInv(consumer[k])'
  <2>1. CASE k = c
    BY <2>1, InvokeLocals
  <2>2. CASE k /= c
    <3>1. consumer'[k] = consumer[k] /\ LocalInv(consumer[k])
      BY <2>2, InvokeAlone DEF Alone, SafeInv
    <3> QED BY <3>1, InvokeGrown, InvokeKept, RestingLocals
  <2> QED BY <2>1, <2>2
<1> QED BY <1>1, InvokeUnique, InvokeTicket, InvokeEvents DEF SafeInv

\* A step that changes no promise of a row and brings no invocation anywhere.
LEMMA TameSafe ==
  ASSUME TypeInv, SafeInv, TameEvents, UNCHANGED <<message, notices, stored>>,
         raw \subseteq raw', message => ticket'.replied,
         \A d \in Deliveries :
           smtp'[d] \in {"put", "accepted"} => smtp[d] \in {"put", "accepted"} \/ d \in raw',
         \A k \in Consumers : \/ consumer'[k] = consumer[k]
                              \/ consumer'[k].pc \in {"idle", "claimed", "fail"}
  PROVE  SafeInv'
<1>1. Grown
  BY TameGrows
<1>2. Kept
  BY DEF Kept
<1>3. Unique'
  BY UniqueKept DEF TameEvents, Tame
<1>4. ASSUME NEW d \in Deliveries PROVE EventInv(d)'
  BY <1>1, <1>2, RestingRow DEF TameEvents
<1>5. ASSUME NEW k \in Consumers PROVE LocalInv(consumer[k])'
  BY <1>1, <1>2, RestingLocals, QuietLocals DEF SafeInv
<1> QED BY <1>3, <1>4, <1>5 DEF SafeInv

LEMMA ElsewhereSafe ==
  ASSUME TypeInv, SafeInv, Elsewhere
  PROVE  SafeInv'
<1>1. TameEvents /\ UNCHANGED <<consumer, message, notices, stored>>
  BY ElsewhereKeepsType
<1>2. /\ raw \subseteq raw'
      /\ \A d \in Deliveries :
           smtp'[d] \in {"put", "accepted"} => smtp[d] \in {"put", "accepted"} \/ d \in raw'
      /\ ticket' = ticket \/ ticket'.replied = ticket.replied
  <2>1. ASSUME NEW d \in Deliveries, Accept(d) \/ Receipt(d)
        PROVE  /\ raw \subseteq raw' /\ ticket' = ticket
               /\ \A o \in Deliveries :
                    smtp'[o] \in {"put", "accepted"} =>
                      smtp[o] \in {"put", "accepted"} \/ o \in raw'
    <3>1. smtp \in [Deliveries -> {"new", "putting", "put", "accepted", "refused"}]
      BY RestOfType DEF RestType
    <3> QED BY <2>1, <3>1 DEF Accept, Receipt, Put, Stage, StageFails, StageDies, outcome
  <2>2. ASSUME NEW d \in Deliveries,
               \/ (\E enqueued \in BOOLEAN : Dispatch(d, enqueued))
               \/ Exhaust(d) \/ Retry(d) \/ (\E written \in BOOLEAN : DrainLetter(d, written))
               \/ LeaseExpires(d) \/ ReservationExpires(d) \/ BackoffEnds(d)
        PROVE  UNCHANGED <<raw, smtp, ticket>>
    BY <2>2 DEF Dispatch, Exhaust, Retry, DrainLetter, LeaseExpires, ReservationExpires,
       BackoffEnds, arrival, outcome
  <2>3. CASE Sweep
    BY <2>3 DEF Sweep, arrival, outcome
  <2>4. CASE AgentCloses
    BY <2>4, RestOfType DEF AgentCloses, arrival, RestType, Ticket
  <2> QED BY <2>1, <2>2, <2>3, <2>4 DEF Elsewhere
<1>3. message => ticket'.replied
  BY <1>2 DEF SafeInv
<1> QED BY <1>1, <1>2, <1>3, TameSafe

LEMMA ClaimSafe ==
  ASSUME TypeInv, SafeInv, NEW c \in Consumers, NEW d \in Deliveries, Claim(c, d)
  PROVE  SafeInv'
<1>1. UNCHANGED <<raw, smtp, message, ticket, notices, stored>>
  BY DEF Claim, arrival, outcome
<1>2. \A k \in Consumers : consumer'[k] = consumer[k] \/ consumer'[k].pc = "claimed"
  <2> DEFINE r == [Idle EXCEPT !.pc = "claimed", !.d = d, !.attempts = event[d].attempts + 1]
  <2>1. r.pc = "claimed"
    BY DEF Idle
  <2>2. consumer' = consumer \/ consumer' = [consumer EXCEPT ![c] = r]
    BY DEF Claim
  <2> HIDE DEF r
  <2> QED BY <2>1, <2>2 DEF TypeInv, TypeOK
<1> QED BY <1>1, <1>2, InvocationRows, TameSafe DEF SafeInv

LEMMA CrashSafe ==
  ASSUME TypeInv, SafeInv, NEW c \in Consumers, Crash(c)
  PROVE  SafeInv'
<1>1. UNCHANGED <<raw, smtp, message, ticket, notices, stored>>
  BY DEF Crash, arrival, outcome
<1>2. \A k \in Consumers : consumer'[k] = consumer[k] \/ consumer'[k].pc = "idle"
  BY DEF Crash, TypeInv, TypeOK, Idle
<1> QED BY <1>1, <1>2, InvocationRows, TameSafe DEF SafeInv

LEMMA SafeStep == TypeInv /\ SafeInv /\ [Next]_vars => SafeInv'
<1> SUFFICES ASSUME TypeInv, SafeInv, [Next]_vars PROVE SafeInv'
  OBVIOUS
<1>1. CASE Next
  BY <1>1, Steps, ElsewhereSafe, ClaimSafe, CrashSafe, InvokeSafe
<1>2. CASE UNCHANGED vars
  <2>1. TameEvents
    BY <1>2, SameRows DEF vars
  <2> QED BY <1>2, <2>1, TameSafe DEF vars, SafeInv
<1> QED BY <1>1, <1>2

IInv == TypeInv /\ SafeInv

LEMMA Inductive == Spec => []IInv
<1>1. Init => IInv
  BY TypeInit, SafeInit DEF IInv
<1>2. IInv /\ [Next]_vars => IInv'
  BY TypeStep, SafeStep DEF IInv
<1> QED BY <1>1, <1>2, PTL DEF Spec

LEMMA SafeKeepsMail == IInv => NothingLost
<1> SUFFICES ASSUME IInv, NEW d \in Deliveries, smtp[d] = "accepted", ~message
    PROVE  \E o \in raw : InboxOf[o] = InboxOf[d] /\ event[o].status /= "completed"
  BY DEF NothingLost
<1> USE DEF IInv
<1>1. EventInv(d)
  BY DEF SafeInv
<1>2. CASE d \in raw /\ event[d].status /= "completed"
  BY <1>2
<1>3. CASE d \notin raw \/ event[d].status = "completed"
  <2>1. PICK o \in Others(d) : TRUE
    BY <1>1, <1>3 DEF EventInv, Settled
  <2>2. o \in Deliveries /\ InboxOf[o] = InboxOf[d] /\ event[o].registered
    BY DEF Others, Holders
  <2>3. EventInv(o) /\ Others(o) = {}
    BY <2>2, LoneHolder DEF SafeInv
  <2>4. o \in raw /\ event[o].status /= "completed"
    BY <2>2, <2>3 DEF EventInv, Settled
  <2> QED BY <2>2, <2>4
<1> QED BY <1>2, <1>3

\* A mail the Worker accepted is never discarded before the message exists: for any
\* number of repeated deliveries, to any inboxes, with any overlap of invocations.
THEOREM MailKept == Spec => []NothingLost
  BY Inductive, SafeKeepsMail, PTL

LEMMA SafeStoresAll == IInv => AttachmentsStored /\ NoticedBeforeClosed
  BY DEF IInv, SafeInv, EventInv, Whole, AttachmentsStored, NoticedBeforeClosed

\* However the passes over one mail are cut short, repeated or overlapped, and
\* whatever their number, an event is closed only with every attachment stored.
THEOREM AllAttachmentsStored == Spec => []AttachmentsStored
<1>1. IInv => AttachmentsStored
  BY SafeStoresAll
<1> QED BY <1>1, Inductive, PTL

\* The assignee's notification is written before the event is closed on its own
\* account, also when the pass that wrote the message never came that far.
THEOREM NoticeNotLost == Spec => []NoticedBeforeClosed
<1>1. IInv => NoticedBeforeClosed
  BY SafeStoresAll
<1> QED BY <1>1, Inductive, PTL

LEMMA ReopeningStep ==
  ASSUME IInv, [Next]_vars, ticket.state = "closed", ticket'.state = "open"
  PROVE  ~message
<1>1. ticket' /= ticket
  OBVIOUS
<1>2. CASE Elsewhere
  <2>1. \A d \in Deliveries :
          \/ Accept(d) \/ Receipt(d) \/ (\E enqueued \in BOOLEAN : Dispatch(d, enqueued))
          \/ Exhaust(d) \/ Retry(d) \/ (\E written \in BOOLEAN : DrainLetter(d, written))
          \/ LeaseExpires(d) \/ ReservationExpires(d) \/ BackoffEnds(d)
          => ticket' = ticket
    BY ElsewhereType DEF IInv, outcome
  <2> QED BY <1>1, <1>2, <2>1 DEF Elsewhere, Sweep, AgentCloses, outcome
<1>3. CASE \E c \in Consumers : Crash(c) \/ \E d \in Deliveries : Claim(c, d)
  BY <1>1, <1>3 DEF Crash, Claim, outcome
<1>4. ASSUME NEW c \in Consumers, Invoke(c)
      PROVE  ~message
  <2>1. CASE WriteMessage(c)
    BY <1>1, <2>1 DEF WriteMessage
  <2>2. CASE Reconcile(c)
    <3>1. message /\ ticket.replied
      BY <2>2 DEF Reconcile, IInv, SafeInv, LocalInv
    <3> QED BY <1>1, <2>2, <3>1 DEF Reconcile
  <2>3. CASE ticket' = ticket
    BY <1>1, <2>3
  <2> QED BY <1>4, <2>1, <2>2, <2>3 DEF outcome, Invoke, Fetch, InboxMissing, Dedupe,
        CompleteSame, CompleteDuplicate, Register, Lookup, Notify, ReadCursor, Store,
        Advance, Continue, Complete, AnnounceCreated, AnnounceReceived, Automate, Emit,
        Unstage, Throws, RecordFailure
<1>5. CASE UNCHANGED vars
  BY <1>1, <1>5 DEF vars
<1> QED BY <1>2, <1>3, <1>4, <1>5, Steps

\* No pass after the first reopens a ticket an agent has closed since the mail came.
THEOREM OnlyMessageReopens == Spec => ReopensOnce
<1>1. IInv /\ [Next]_vars => (ticket.state = "closed" /\ ticket'.state = "open" => ~message)
  BY ReopeningStep
<1> QED BY <1>1, Inductive, PTL DEF Spec, ReopensOnce

(***************************************************************************)
(* The module implements IntakePromise.  Beside the invariant, the mapping *)
(* needs that nobody works on a delivery its sender still waits for.       *)
(***************************************************************************)
Early(d) ==
  smtp[d] \in {"new", "putting", "put"} =>
    /\ event[d].status = IF smtp[d] = "new" THEN "absent" ELSE "processing"
    /\ smtp[d] /= "new" => event[d].lease
    /\ d \notin queue /\ d \notin dlq
    /\ \A c \in Consumers : consumer[c].d /= d
    /\ smtp[d] = "put" => d \in raw

EarlyInv == \A d \in Deliveries : Early(d)

LEMMA EarlyInit == Init => EarlyInv
  BY DEF Init, EarlyInv, Early, NoRow, Idle

\* A delivery the step does not concern.
LEMMA EarlyRest ==
  ASSUME NEW d \in Deliveries, Early(d), event'[d] = event[d], smtp'[d] = smtp[d],
         d \in queue' => d \in queue, d \in dlq' => d \in dlq \cup queue, d \in raw => d \in raw',
         \A c \in Consumers : consumer'[c].d = d => consumer[c].d = d \/ d \in queue
  PROVE  Early(d)'
  BY DEF Early

\* An invocation has no business with another delivery than its own.
LEMMA InvokeElsewhere ==
  ASSUME TypeInv, NEW c \in Consumers, Invoke(c) \/ Crash(c),
         NEW d \in Deliveries, d /= consumer[c].d
  PROVE  /\ event'[d] = event[d] /\ smtp' = smtp
         /\ (d \in queue' => d \in queue) /\ (d \in dlq' => d \in dlq) /\ (d \in raw => d \in raw')
         /\ \A k \in Consumers : consumer'[k].d = d => consumer[k].d = d
<1>1. consumer \in [Consumers -> Invocation] /\ event \in [Deliveries -> Row]
      /\ d /= NoDelivery
  BY DEF TypeInv, TypeOK
<1> USE DEF arrival, carriers
<1>2. CASE Fetch(c) \/ InboxMissing(c) \/ Throws(c) \/ WriteMessage(c)
  <2>1. \A terminal : Fail(c, terminal) =>
           \A k \in Consumers : consumer'[k].d = d => consumer[k].d = d
    BY <1>1 DEF Fail, Idle
  <2>2. \A pc : Goto(c, pc) => \A k \in Consumers : consumer'[k].d = d => consumer[k].d = d
    BY <1>1 DEF Goto, Invocation
  <2>3. consumer' = [consumer EXCEPT ![c] = Idle] =>
           \A k \in Consumers : consumer'[k].d = d => consumer[k].d = d
    BY <1>1 DEF Idle
  <2> QED BY <1>2, <2>1, <2>2, <2>3 DEF Fetch, InboxMissing, Throws, WriteMessage
<1>3. CASE Dedupe(c) \/ CompleteSame(c) \/ CompleteDuplicate(c) \/ Register(c)
  BY <1>1, <1>3 DEF Dedupe, CompleteSame, CompleteDuplicate, Register, Goto, Invocation
<1>4. CASE Reconcile(c) \/ Notify(c) \/ Store(c) \/ Complete(c)
  BY <1>1, <1>4 DEF Reconcile, Notify, Store, Complete, Goto, Invocation
<1>5. CASE AnnounceCreated(c) \/ AnnounceReceived(c) \/ Automate(c)
  BY <1>1, <1>5 DEF AnnounceCreated, AnnounceReceived, Automate, Emit, Goto, Invocation
<1>6. CASE Lookup(c) \/ ReadCursor(c) \/ Advance(c)
  BY <1>1, <1>6 DEF Lookup, ReadCursor, Advance, Invocation
<1>7. CASE Continue(c) \/ Unstage(c)
  BY <1>1, <1>7 DEF Continue, Unstage, Idle
<1>8. CASE RecordFailure(c)
  BY <1>1, <1>8 DEF RecordFailure, GiveBack, Idle
<1>9. CASE Crash(c)
  BY <1>1, <1>9 DEF Crash, GiveBack, Idle, outcome
<1> QED BY <1>2, <1>3, <1>4, <1>5, <1>6, <1>7, <1>8, <1>9 DEF Invoke

LEMMA EarlyStep ==
  ASSUME TypeInv, EarlyInv, [Next]_vars
  PROVE  EarlyInv'
<1> SUFFICES ASSUME NEW d \in Deliveries PROVE Early(d)'
  BY DEF EarlyInv
<1>0. Early(d) /\ d /= NoDelivery
  BY DEF EarlyInv
<1>1. event \in [Deliveries -> Row] /\ DOMAIN smtp = Deliveries
  BY DEF TypeInv, TypeOK
<1> USE DEF arrival, carriers
<1>2. ASSUME NEW o \in Deliveries, Accept(o) \/ Receipt(o)
      PROVE  Early(d)'
  <2>1. CASE o = d
    BY <1>0, <1>1, <1>2, <2>1 DEF Accept, Receipt, Put, Stage, StageFails, StageDies, Early, Row
  <2>2. CASE o /= d
    <3>1. event'[d] = event[d] /\ smtp'[d] = smtp[d]
          /\ UNCHANGED <<queue, dlq, consumer>> /\ raw \subseteq raw'
      BY <1>1, <1>2, <2>2 DEF Accept, Receipt, Put, Stage, StageFails, StageDies
    <3> QED BY <1>0, <3>1, EarlyRest
  <2> QED BY <2>1, <2>2
<1>3. ASSUME NEW o \in Deliveries,
             \/ (\E enqueued \in BOOLEAN : Dispatch(o, enqueued)) \/ Exhaust(o) \/ Retry(o)
             \/ \E written \in BOOLEAN : DrainLetter(o, written)
             \/ LeaseExpires(o) \/ ReservationExpires(o) \/ BackoffEnds(o)
      PROVE  Early(d)'
  <2>1. CASE o = d
    <3>1. CASE \E enqueued \in BOOLEAN : Dispatch(o, enqueued)
      BY <1>0, <2>1, <3>1 DEF Dispatch, Dispatchable, Early
    <3>2. CASE Exhaust(o) \/ Retry(o) \/ \E written \in BOOLEAN : DrainLetter(o, written)
      BY <1>0, <2>1, <3>2 DEF Exhaust, Retry, DrainLetter, Early
    <3>3. CASE LeaseExpires(o) \/ ReservationExpires(o) \/ BackoffEnds(o)
      BY <1>0, <1>1, <2>1, <3>3 DEF LeaseExpires, ReservationExpires, BackoffEnds, Early, Row
    <3> QED BY <1>3, <3>1, <3>2, <3>3
  <2>2. CASE o /= d
    <3>1. event'[d] = event[d] /\ UNCHANGED <<smtp, raw, consumer>>
          /\ (d \in queue' => d \in queue) /\ (d \in dlq' => d \in dlq)
      BY <1>1, <1>3, <2>2 DEF Dispatch, Exhaust, Retry, DrainLetter, LeaseExpires,
         ReservationExpires, BackoffEnds
    <3> QED BY <1>0, <3>1, EarlyRest
  <2> QED BY <2>1, <2>2
<1>4. CASE Sweep
  <2>1. event'[d] = StopSpent(Unstall(event[d]))
    BY <1>4 DEF Sweep
  <2>2. smtp[d] \in {"new", "putting", "put"} => event'[d] = event[d]
    BY <1>0, <2>1 DEF Early, Unstall, StopSpent
  <2>3. UNCHANGED <<smtp, raw, queue, dlq, consumer>>
    BY <1>4 DEF Sweep
  <2> QED BY <1>0, <2>2, <2>3 DEF Early
<1>5. ASSUME NEW c \in Consumers, NEW o \in Deliveries, Claim(c, o)
      PROVE  Early(d)'
  <2>1. CASE o = d
    <3>1. d \in queue /\ smtp' = smtp
      BY <1>5, <2>1 DEF Claim
    <3> QED BY <1>0, <3>1 DEF Early
  <2>2. CASE o /= d
    <3>1. event'[d] = event[d] /\ UNCHANGED <<smtp, raw, dlq>> /\ queue' \subseteq queue
      BY <1>1, <1>5, <2>2 DEF Claim
    <3>2. \A k \in Consumers : consumer'[k].d = d => consumer[k].d = d
      <4> DEFINE r == [Idle EXCEPT !.pc = "claimed", !.d = o, !.attempts = event[o].attempts + 1]
      <4>1. consumer \in [Consumers -> Invocation] /\ r.d = o
        BY DEF TypeInv, TypeOK, Idle
      <4>2. consumer' = consumer \/ consumer' = [consumer EXCEPT ![c] = r]
        BY <1>5 DEF Claim
      <4> HIDE DEF r
      <4> QED BY <2>2, <4>1, <4>2
    <3> QED BY <1>0, <3>1, <3>2, EarlyRest
  <2> QED BY <2>1, <2>2
<1>6. ASSUME NEW c \in Consumers, Invoke(c) \/ Crash(c)
      PROVE  Early(d)'
  <2>1. CASE consumer[c].d = d
    <3>1. smtp' = smtp
      BY <1>6, InvokeSmtp DEF Crash
    <3> QED BY <1>0, <2>1, <3>1 DEF Early
  <2>2. CASE consumer[c].d /= d
    BY <1>0, <1>6, <2>2, InvokeElsewhere, EarlyRest
  <2> QED BY <2>1, <2>2
<1>7. CASE AgentCloses \/ UNCHANGED vars
  BY <1>0, <1>7, EarlyRest DEF AgentCloses, vars
<1> QED BY <1>2, <1>3, <1>4, <1>5, <1>6, <1>7 DEF Next

(***************************************************************************)
(* The mapping, and what each kind of step does to it.                     *)
(***************************************************************************)
Accepted == {d \in Deliveries : smtp[d] = "accepted"}
Copies == {d \in raw : event[d].status /= "completed"}
Closed == {d \in Deliveries : event[d].status = "completed" /\ event[d].registered}

\* What the promise sees of the message and what follows from it.
Outside == <<message, ticket.state = "open", stored, notices > 0, effects>>

SameEnd(d) ==
  /\ event'[d].status = "completed" <=> event[d].status = "completed"
  /\ event'[d].registered = event[d].registered

\* Rows that are neither completed nor taken back, and the same copies.
LEMMA SameEnds ==
  ASSUME TypeInv, \A d \in Deliveries : SameEnd(d), raw' = raw
  PROVE  Copies' = Copies /\ Closed' = Closed
<1>1. raw \subseteq Deliveries
  BY DEF TypeInv, TypeOK
<1> QED BY <1>1 DEF SameEnd, Copies, Closed

LEMMA Unseen ==
  ASSUME UNCHANGED <<Accepted, Copies, Closed, Outside>>
  PROVE  [Intake!Next]_(Intake!intakeVars)
  BY DEF Accepted, Copies, Closed, Outside, Intake!intakeVars

\* A copy that is settled has the message or another copy of its inbox behind it.
LEMMA SettledCopy ==
  ASSUME IInv, NEW d \in Deliveries, Settled(d)
  PROVE  message \/ \E o \in Copies \ {d} : InboxOf[o] = InboxOf[d]
<1>1. SUFFICES ASSUME ~message
               PROVE  \E o \in Copies \ {d} : InboxOf[o] = InboxOf[d]
  OBVIOUS
<1>2. PICK o \in Others(d) : TRUE
  BY <1>1 DEF Settled
<1>3. o \in Deliveries /\ o /= d /\ InboxOf[o] = InboxOf[d] /\ event[o].registered
  BY DEF Others, Holders
<1>4. EventInv(o) /\ Others(o) = {}
  BY <1>3, LoneHolder DEF IInv, SafeInv
<1>5. o \in raw /\ event[o].status /= "completed"
  BY <1>1, <1>3, <1>4 DEF EventInv, Settled
<1> QED BY <1>3, <1>5 DEF Copies

\* The steps of the promise, said of the mapping.
LEMMA IntakeSteps ==
  ASSUME NEW d \in Deliveries, UNCHANGED <<Accepted, Outside>>
  PROVE  /\ Copies' = Copies \cup {d} /\ UNCHANGED Closed => Intake!Next
         /\ /\ message \/ \E o \in Copies \ {d} : InboxOf[o] = InboxOf[d]
            /\ Copies' = Copies \ {d} /\ UNCHANGED Closed
            => Intake!Next
         /\ /\ message /\ notices > 0 /\ Whole(d)
            /\ Closed' = Closed \cup {d} /\ Copies' = Copies \ {d}
            => Intake!Next
         /\ /\ message /\ notices > 0
            /\ Closed' = Closed \ {d} /\ Copies' \in {Copies, Copies \cup {d}}
            => Intake!Next
<1> USE DEF Accepted, Copies, Closed, Outside
<1>1. Copies' = Copies \cup {d} /\ UNCHANGED Closed => Intake!Keep(d)
  BY DEF Intake!Keep
<1>2. /\ message \/ \E o \in Copies \ {d} : InboxOf[o] = InboxOf[d]
      /\ Copies' = Copies \ {d} /\ UNCHANGED Closed
      => Intake!GiveUp(d)
  BY DEF Intake!GiveUp
<1>3. /\ message /\ notices > 0 /\ Whole(d)
      /\ Closed' = Closed \cup {d} /\ Copies' = Copies \ {d}
      => Intake!Close(d)
  <2>1. Whole(d) => {d} \X Indices \subseteq stored
    BY DEF Whole
  <2> QED BY <2>1 DEF Intake!Close
<1>4. /\ message /\ notices > 0
      /\ Closed' = Closed \ {d} /\ Copies' \in {Copies, Copies \cup {d}}
      => Intake!Resume(d)
  BY DEF Intake!Resume
<1> HIDE DEF Accepted, Copies, Closed, Outside
<1> QED BY <1>1, <1>2, <1>3, <1>4 DEF Intake!Next

\* email(), the queues, the clocks and the administrator.
LEMMA DeliveryKeeps ==
  ASSUME IInv, EarlyInv, NEW d \in Deliveries,
         \/ Accept(d) \/ Receipt(d) \/ (\E enqueued \in BOOLEAN : Dispatch(d, enqueued))
         \/ Exhaust(d) \/ Retry(d) \/ (\E written \in BOOLEAN : DrainLetter(d, written))
         \/ LeaseExpires(d) \/ ReservationExpires(d) \/ BackoffEnds(d)
  PROVE  [Intake!Next]_(Intake!intakeVars)
<1>0. /\ event \in [Deliveries -> Row] /\ raw \subseteq Deliveries
      /\ DOMAIN smtp = Deliveries /\ Early(d)
  BY DEF IInv, TypeInv, TypeOK, EarlyInv
<1>1. UNCHANGED Outside
  BY ElsewhereType DEF outcome, Outside, IInv
<1> USE DEF arrival, carriers
<1>2. CASE Put(d)
  <2>1. event' = event /\ raw' = raw \cup {d} /\ event[d].status = "processing"
    BY <1>0, <1>2 DEF Put, Early
  <2>2. Copies' = Copies \cup {d} /\ Closed' = Closed
    BY <1>0, <2>1 DEF Copies, Closed
  <2>3. Accepted' = Accepted
    BY <1>0, <1>2 DEF Put, Accepted
  <2> QED BY <1>1, <2>2, <2>3, IntakeSteps
<1>3. CASE Stage(d)
  <2>1. raw' = raw /\ d \in raw /\ \A o \in Deliveries : SameEnd(o)
    BY <1>0, <1>3 DEF Stage, Early, SameEnd, Row
  <2>2. Copies' = Copies /\ Closed' = Closed /\ d \in Copies
    BY <1>0, <1>3, <2>1, SameEnds DEF Copies, Stage, Early, IInv
  <2>3. Accepted' = Accepted \cup {d}
    BY <1>0, <1>3 DEF Stage, Accepted
  <2>4. Intake!Accept(d)
    BY <1>1, <2>2, <2>3 DEF Intake!Accept, Accepted, Copies, Closed, Outside
  <2> QED BY <2>4 DEF Intake!Next
<1>4. CASE Accept(d) \/ StageFails(d) \/ StageDies(d)
  <2>1. raw' = raw /\ \A o \in Deliveries : SameEnd(o)
    BY <1>0, <1>4 DEF Accept, StageFails, StageDies, Early, SameEnd, Row
  <2>2. Accepted' = Accepted
    BY <1>0, <1>4 DEF Accept, StageFails, StageDies, Accepted
  <2> QED BY <1>1, <2>1, <2>2, SameEnds, Unseen DEF IInv
<1>5. CASE \/ (\E enqueued \in BOOLEAN : Dispatch(d, enqueued)) \/ Exhaust(d) \/ Retry(d)
           \/ \E written \in BOOLEAN : DrainLetter(d, written)
           \/ LeaseExpires(d) \/ ReservationExpires(d) \/ BackoffEnds(d)
  <2>1. UNCHANGED <<raw, smtp>>
    BY <1>5 DEF Dispatch, Exhaust, Retry, DrainLetter, LeaseExpires, ReservationExpires,
       BackoffEnds
  <2>2. CASE \E enqueued \in BOOLEAN : Dispatch(d, enqueued)
    <3>1. \A o \in Deliveries : SameEnd(o)
      BY <1>0, <2>2 DEF Dispatch, SameEnd, Row
    <3> QED BY <1>1, <2>1, <3>1, SameEnds, Unseen DEF IInv, Accepted
  <2>3. CASE Exhaust(d) \/ Retry(d)
    <3>1. \A o \in Deliveries : SameEnd(o)
      BY <1>0, <2>3 DEF Exhaust, Retry, SameEnd, Row
    <3> QED BY <1>1, <2>1, <3>1, SameEnds, Unseen DEF IInv, Accepted
  <2>4. CASE \E written \in BOOLEAN : DrainLetter(d, written)
    <3>1. \A o \in Deliveries : SameEnd(o)
      BY <1>0, <2>4 DEF DrainLetter, SameEnd, Row
    <3> QED BY <1>1, <2>1, <3>1, SameEnds, Unseen DEF IInv, Accepted
  <2>5. CASE LeaseExpires(d) \/ ReservationExpires(d) \/ BackoffEnds(d)
    <3>1. \A o \in Deliveries : SameEnd(o)
      BY <1>0, <2>5 DEF LeaseExpires, ReservationExpires, BackoffEnds, SameEnd, Row
    <3> QED BY <1>1, <2>1, <3>1, SameEnds, Unseen DEF IInv, Accepted
  <2> QED BY <1>5, <2>2, <2>3, <2>4, <2>5
<1> QED BY <1>2, <1>3, <1>4, <1>5 DEF Receipt

LEMMA SweepKeeps ==
  ASSUME IInv, Sweep
  PROVE  [Intake!Next]_(Intake!intakeVars)
<1>1. event \in [Deliveries -> Row]
  BY DEF IInv, TypeInv, TypeOK
<1>2. \A d \in Deliveries : event'[d] = StopSpent(Unstall(event[d]))
  BY DEF Sweep
<1>3. ASSUME NEW r \in Row
      PROVE  /\ Unstall(r) \in Row /\ Unstall(r).registered = r.registered
             /\ Unstall(r).status = "completed" <=> r.status = "completed"
             /\ StopSpent(r).registered = r.registered
             /\ StopSpent(r).status = "completed" <=> r.status = "completed"
  <2>1. Unstall(r) \in Row /\ Unstall(r).registered = r.registered
        /\ (Unstall(r).status = "completed" <=> r.status = "completed")
    BY DEF Unstall, Row, Statuses
  <2>2. StopSpent(r).registered = r.registered
        /\ (StopSpent(r).status = "completed" <=> r.status = "completed")
    BY DEF StopSpent, Row
  <2> QED BY <2>1, <2>2
<1>5. \A d \in Deliveries : SameEnd(d)
  BY <1>1, <1>2, <1>3 DEF SameEnd
<1>4. raw' = raw /\ UNCHANGED <<Accepted, Outside>>
  BY DEF Sweep, arrival, outcome, Accepted, Outside
<1> QED BY <1>4, <1>5, SameEnds, Unseen DEF IInv

LEMMA CloseKeeps ==
  ASSUME IInv, AgentCloses
  PROVE  [Intake!Next]_(Intake!intakeVars)
<1>1. ticket \in Ticket
  BY DEF IInv, TypeInv, TypeOK
<1>2. (ticket'.state = "open") = FALSE
  BY <1>1 DEF AgentCloses, Ticket
<1>3. Intake!AgentCloses
  BY <1>2 DEF AgentCloses, arrival, Intake!AgentCloses
<1> QED BY <1>3 DEF Intake!Next

LEMMA ClaimKeeps ==
  ASSUME IInv, NEW c \in Consumers, Crash(c) \/ \E d \in Deliveries : Claim(c, d)
  PROVE  [Intake!Next]_(Intake!intakeVars)
<1>1. event \in [Deliveries -> Row]
  BY DEF IInv, TypeInv, TypeOK
<1>2. \A d \in Deliveries : SameEnd(d)
  <2>1. CASE event' = event
    BY <2>1 DEF SameEnd
  <2>2. ASSUME NEW d \in Deliveries, Claim(c, d), event' /= event
        PROVE  \A o \in Deliveries : SameEnd(o)
    <3> DEFINE r == [event[d] EXCEPT !.status = "processing", !.lease = TRUE,
                                     !.attempts = event[d].attempts + 1]
    <3>3. event' = event \/ event' = [event EXCEPT ![d] = r]
      BY <2>2 DEF Claim
    <3>4. event[d].status /= "completed"
      BY <2>2 DEF Claim, Claimable
    <3>1. event[d].status /= "completed" /\ event' = [event EXCEPT ![d] = r]
      BY <2>2, <3>3, <3>4
    <3>2. r.status = "processing" /\ r.registered = event[d].registered
      BY <1>1 DEF Row
    <3> HIDE DEF r
    <3> QED BY <1>1, <3>1, <3>2 DEF SameEnd
  <2> QED BY <2>1, <2>2 DEF Crash
<1>3. raw' = raw /\ UNCHANGED <<Accepted, Outside>>
  BY DEF Crash, Claim, arrival, outcome, Accepted, Outside
<1> QED BY <1>2, <1>3, SameEnds, Unseen DEF IInv

\* The statements of an invocation that write the message and what goes with it.
LEMMA OutcomeKeeps ==
  ASSUME IInv, NEW c \in Consumers, UNCHANGED <<event, smtp, raw>>,
         \/ WriteMessage(c) \/ Reconcile(c) \/ Notify(c) \/ Store(c)
         \/ AnnounceCreated(c) \/ AnnounceReceived(c) \/ Automate(c)
  PROVE  [Intake!Next]_(Intake!intakeVars)
<1>0. /\ LocalInv(consumer[c]) /\ (message => ticket.replied)
      /\ message \in BOOLEAN /\ notices \in 0..2
  BY DEF IInv, SafeInv, TypeInv, TypeOK
<1>1. UNCHANGED <<Accepted, Copies, Closed>>
  BY DEF Accepted, Copies, Closed
<1>2. CASE UNCHANGED Outside
  BY <1>1, <1>2, Unseen
<1>3. CASE WriteMessage(c)
  <2>1. CASE message
    BY <1>2, <1>3, <2>1 DEF WriteMessage, Outside
  <2>2. CASE ~message
    <3>1. ticket' = [state |-> "open", replied |-> TRUE] /\ message' = TRUE
          /\ UNCHANGED <<stored, notices, effects>>
      BY <1>3, <2>2 DEF WriteMessage
    <3>2. (ticket'.state = "open") = TRUE
      BY <3>1
    <3>3. Intake!File
      BY <1>1, <2>2, <3>1, <3>2 DEF Intake!File, Accepted, Copies, Closed
    <3> QED BY <3>3 DEF Intake!Next
  <2> QED BY <2>1, <2>2
<1>4. CASE Reconcile(c)
  <2>1. message
    BY <1>0, <1>4 DEF Reconcile, LocalInv
  <2>2. ticket' = ticket
    BY <1>0, <1>4, <2>1 DEF Reconcile
  <2> QED BY <1>2, <1>4, <2>2 DEF Reconcile, Outside
<1>5. CASE Notify(c)
  <2>1. message
    BY <1>0, <1>5 DEF Notify, LocalInv, Written
  <2>2. (notices' > 0) = TRUE /\ UNCHANGED <<message, ticket, stored, effects>>
    BY <1>0, <1>5 DEF Notify
  <2>3. Intake!Tell
    BY <1>1, <2>1, <2>2 DEF Intake!Tell, Accepted, Copies, Closed
  <2> QED BY <2>3 DEF Intake!Next
<1>6. CASE Store(c)
  <2>1. message /\ notices > 0
    BY <1>0, <1>6 DEF Store, LocalInv, Written, Noticed
  <2>2. consumer[c].d \in Deliveries /\ consumer[c].index \in Indices
    BY <1>6, LocalType DEF IInv, Store, Bounded, Indices
  <2>3. Intake!Attach(consumer[c].d, consumer[c].index)
    BY <1>1, <1>6, <2>1 DEF Store, Intake!Attach, Accepted, Copies, Closed
  <2> QED BY <2>2, <2>3 DEF Intake!Next
<1>7. CASE AnnounceCreated(c) \/ AnnounceReceived(c) \/ Automate(c)
  <2>1. message /\ notices > 0
    BY <1>0, <1>7 DEF AnnounceCreated, AnnounceReceived, Automate, LocalInv, Written, Noticed
  <2>2. UNCHANGED <<message, ticket, stored, notices>>
    BY <1>7 DEF AnnounceCreated, AnnounceReceived, Automate, Emit
  <2>3. \/ effects' = effects
        \/ \E e \in {"ticket.created", "message.received", "automations"} :
              effects' = effects \cup {e}
    BY <1>7 DEF AnnounceCreated, AnnounceReceived, Automate, Emit
  <2>4. ASSUME NEW e \in {"ticket.created", "message.received", "automations"},
               effects' = effects \cup {e}
        PROVE  Intake!Next
    <3>1. Intake!Announce(e)
      BY <1>1, <2>1, <2>2, <2>4 DEF Intake!Announce, Accepted, Copies, Closed
    <3> QED BY <3>1 DEF Intake!Next
  <2> QED BY <1>2, <2>2, <2>3, <2>4 DEF Outside
<1> QED BY <1>3, <1>4, <1>5, <1>6, <1>7

\* The statements that close a delivery, hand it back or drop its copy.
LEMMA ClosingKeeps ==
  ASSUME IInv, NEW c \in Consumers, UNCHANGED <<smtp, outcome>>,
         \/ CompleteSame(c) \/ CompleteDuplicate(c) \/ Complete(c) \/ Continue(c)
         \/ Unstage(c) \/ RecordFailure(c)
  PROVE  [Intake!Next]_(Intake!intakeVars)
<1>0. PICK d \in Deliveries : d = consumer[c].d
  BY LocalType DEF IInv, Bounded, CompleteSame, CompleteDuplicate, Complete, Continue, Unstage,
     RecordFailure
<1>1. /\ LocalInv(consumer[c]) /\ EventInv(d)
      /\ event \in [Deliveries -> Row] /\ raw \subseteq Deliveries
  BY DEF IInv, SafeInv, TypeInv, TypeOK
<1>2. UNCHANGED <<Accepted, Outside>>
  BY DEF Accepted, Outside, outcome
<1> USE DEF arrival
<1>3. CASE CompleteSame(c) \/ CompleteDuplicate(c) \/ Complete(c)
  <2>1. Completes(d) /\ raw' = raw
    BY <1>0, <1>3, CompletingRows DEF IInv, CompleteSame, CompleteDuplicate, Complete
  <2>2. Copies' = Copies \ {d}
    BY <1>1, <2>1 DEF Completes, Copies
  <2>3. CASE event[d].registered
    <3>1. message /\ notices > 0 /\ Whole(d)
      <4>1. CASE CompleteSame(c)
        BY <1>0, <1>1, <2>3, <4>1 DEF CompleteSame, LocalInv, Written, Noticed
      <4>2. CASE CompleteDuplicate(c)
        BY <1>0, <1>1, <2>3, <4>2, LoneHolder DEF CompleteDuplicate, LocalInv, IInv
      <4>3. CASE Complete(c)
        <5>1. message /\ notices > 0 /\ Upto(d, Attachments)
          BY <1>0, <1>1, <4>3, LocalType DEF Complete, LocalInv, Written, Noticed, IInv
        <5> QED BY <5>1 DEF Whole, Upto, Indices
      <4> QED BY <1>3, <4>1, <4>2, <4>3
    <3>2. Closed' = Closed \cup {d}
      BY <2>1, <2>3 DEF Completes, Closed
    <3> QED BY <1>2, <2>2, <3>1, <3>2, IntakeSteps
  <2>4. CASE ~event[d].registered
    <3>1. Settled(d)
      <4>1. CASE CompleteSame(c)
        BY <1>0, <1>1, <4>1 DEF CompleteSame, LocalInv, Written, Settled
      <4>2. CASE CompleteDuplicate(c)
        BY <1>0, <1>1, <4>2 DEF CompleteDuplicate, LocalInv, Settled
      <4>3. CASE Complete(c)
        BY <1>0, <1>1, <4>3 DEF Complete, LocalInv, Written, Settled
      <4> QED BY <1>3, <4>1, <4>2, <4>3
    <3>2. Closed' = Closed
      BY <2>1, <2>4 DEF Completes, Closed
    <3> QED BY <1>2, <2>2, <3>1, <3>2, SettledCopy, IntakeSteps
  <2> QED BY <2>3, <2>4
<1>4. CASE Continue(c)
  <2>1. message /\ notices > 0
    BY <1>1, <1>4 DEF Continue, LocalInv, Written, Noticed
  <2> DEFINE r == [event[d] EXCEPT !.status = "staged", !.attempts = event[d].attempts - 1,
                                   !.lease = FALSE, !.reserved = FALSE, !.backoff = FALSE]
  <2>2. r.status = "staged" /\ r.registered = event[d].registered
    BY <1>1 DEF Row
  <2>3. event' = [event EXCEPT ![d] = r] /\ raw' = raw
    BY <1>0, <1>4 DEF Continue
  <2> HIDE DEF r
  <2>4. Closed' = Closed \ {d}
    BY <1>1, <2>2, <2>3 DEF Closed
  <2>5. Copies' \in {Copies, Copies \cup {d}}
    BY <1>1, <2>2, <2>3 DEF Copies
  <2> QED BY <1>2, <2>1, <2>4, <2>5, IntakeSteps
<1>5. CASE Unstage(c)
  <2>1. raw' = raw \ {d} /\ event' = event /\ Settled(d)
    BY <1>0, <1>1, <1>5 DEF Unstage, LocalInv
  <2>2. Copies' = Copies \ {d} /\ Closed' = Closed
    BY <2>1 DEF Copies, Closed
  <2> QED BY <1>2, <2>1, <2>2, SettledCopy, IntakeSteps
<1>6. CASE RecordFailure(c)
  <2>1. TameEvents /\ raw' = raw
    BY <1>6, InvocationRows DEF IInv, RecordFailure
  <2>2. \A o \in Deliveries : event[o].status = "completed" => event'[o] = event[o]
    BY <1>1, <1>6 DEF RecordFailure
  <2>3. \A o \in Deliveries : SameEnd(o)
    BY <2>1, <2>2 DEF TameEvents, Tame, SameEnd
  <2> QED BY <1>2, <2>1, <2>3, SameEnds, Unseen DEF IInv
<1> QED BY <1>3, <1>4, <1>5, <1>6

LEMMA InvokeKeeps ==
  ASSUME IInv, NEW c \in Consumers, Invoke(c)
  PROVE  [Intake!Next]_(Intake!intakeVars)
<1>1. TypeInv /\ smtp' = smtp
  BY InvokeSmtp DEF IInv
<1> USE DEF arrival
<1>2. CASE \/ CompleteSame(c) \/ CompleteDuplicate(c) \/ Complete(c) \/ Continue(c)
           \/ Unstage(c) \/ RecordFailure(c)
  BY <1>1, <1>2, ClosingKeeps DEF CompleteSame, CompleteDuplicate, Complete, Continue, Unstage,
     RecordFailure
<1>3. CASE \/ WriteMessage(c) \/ Reconcile(c) \/ Notify(c) \/ Store(c)
           \/ AnnounceCreated(c) \/ AnnounceReceived(c) \/ Automate(c)
  BY <1>1, <1>3, OutcomeKeeps DEF WriteMessage, Reconcile, Notify, Store, AnnounceCreated,
     AnnounceReceived, Automate, Emit
<1>4. CASE Register(c) \/ Advance(c)
  <2>1. PICK d \in Deliveries : d = consumer[c].d
    BY <1>1, BusyEvent
  <2>2. EventInv(d)
    BY DEF IInv, SafeInv
  <2>3. UNCHANGED <<raw, outcome>>
    BY <1>4 DEF Register, Advance
  <2>4. CASE event' = event
    BY <1>1, <2>3, <2>4, Unseen DEF Accepted, Copies, Closed, Outside, outcome
  <2>5. CASE Registers(d) /\ Holders(d) \subseteq {d}
    <3>1. event[d].status = "completed" => event[d].registered
      <4>1. event[d].status = "completed" => Holders(d) /= {}
        BY <2>2 DEF EventInv
      <4>2. d \in Holders(d) => event[d].registered
        BY DEF Holders
      <4> QED BY <2>5, <4>1, <4>2
    <3>2. Closed' = Closed
      BY <2>5, <3>1 DEF Registers, Closed
    <3>3. Copies' = Copies
      <4>1. raw \subseteq Deliveries
        BY DEF IInv, TypeInv, TypeOK
      <4>2. \A o \in Deliveries : event'[o].status = event[o].status
        BY <2>5 DEF Registers
      <4> QED BY <2>3, <4>1, <4>2 DEF Copies
    <3> QED BY <1>1, <2>3, <3>2, <3>3, Unseen DEF Accepted, Outside, outcome
  <2>6. CASE Advances(d, consumer[c].index + 1)
    <3>1. \A o \in Deliveries : SameEnd(o)
      BY <2>6 DEF Advances, SameEnd
    <3> QED BY <1>1, <2>3, <3>1, SameEnds, Unseen DEF Accepted, Outside, outcome
  <2> QED BY <1>1, <1>4, <2>1, <2>4, <2>5, <2>6, RegisteringRows, AdvancingRows
<1>5. CASE Fetch(c) \/ InboxMissing(c) \/ Dedupe(c) \/ Lookup(c) \/ ReadCursor(c) \/ Throws(c)
  <2>1. UNCHANGED <<event, raw, smtp, outcome>>
    BY <1>5 DEF Fetch, InboxMissing, Dedupe, Lookup, ReadCursor, Throws
  <2> QED BY <2>1, Unseen DEF Accepted, Copies, Closed, Outside, outcome
<1> QED BY <1>2, <1>3, <1>4, <1>5 DEF Invoke

LEMMA IntakeInit == Init => Intake!Init
<1> SUFFICES ASSUME Init PROVE Intake!Init
  OBVIOUS
<1>1. /\ \A d \in Deliveries : smtp[d] = "new" /\ event[d].status = "absent"
      /\ (ticket.state = "open") = FALSE
  BY DEF Init, NoRow
<1> QED BY <1>1 DEF Init, Intake!Init

LEMMA IntakeStep ==
  ASSUME IInv, EarlyInv, [Next]_vars
  PROVE  [Intake!Next]_(Intake!intakeVars)
<1>1. CASE Elsewhere
  BY <1>1, DeliveryKeeps, SweepKeeps, CloseKeeps DEF Elsewhere
<1>2. CASE UNCHANGED vars
  BY <1>2, Unseen DEF vars, Accepted, Copies, Closed, Outside
<1> QED BY <1>1, <1>2, ClaimKeeps, InvokeKeeps, Steps

\* What the passes, the queues, the Cron, the administrator and the agents do to one
\* mail is what IntakePromise allows, for any number of deliveries, inboxes, overlapping
\* passes, attempts and attachments.
THEOREM TakesInAsPromised == Spec => KeepsIntake
<1>1. Spec => []EarlyInv
  <2>1. TypeInv /\ EarlyInv /\ [Next]_vars => EarlyInv'
    BY EarlyStep
  <2>2. IInv => TypeInv
    BY DEF IInv
  <2> QED BY EarlyInit, Inductive, <2>1, <2>2, PTL DEF Spec
<1>2. IInv /\ EarlyInv /\ [Next]_vars => [Intake!Next]_(Intake!intakeVars)
  BY IntakeStep
<1> QED BY <1>1, <1>2, Inductive, IntakeInit, PTL DEF Spec, KeepsIntake, Intake!Spec

\* What the promise alone implies of the mapping.
Promised ==
  /\ \A d \in Accepted : message \/ \E o \in Copies : InboxOf[o] = InboxOf[d]
  /\ \A d \in Closed : message /\ notices > 0 /\ {d} \X Indices \subseteq stored

LEMMA PromisedInit == Intake!Init => Promised
  BY DEF Intake!Init, Promised, Accepted, Closed

LEMMA PromisedStep == Promised /\ [Intake!Next]_(Intake!intakeVars) => Promised'
<1> SUFFICES ASSUME Promised, [Intake!Next]_(Intake!intakeVars) PROVE Promised'
  OBVIOUS
<1> USE DEF Promised
<1>1. ASSUME NEW d \in Deliveries, Intake!Keep(d) \/ Intake!Accept(d)
      PROVE  Promised'
  BY <1>1 DEF Intake!Keep, Intake!Accept, Accepted, Copies, Closed
<1>2. ASSUME NEW d \in Deliveries, Intake!GiveUp(d)
      PROVE  Promised'
  BY <1>2 DEF Intake!GiveUp, Accepted, Copies, Closed
<1>3. ASSUME NEW d \in Deliveries, Intake!Close(d) \/ Intake!Resume(d)
      PROVE  Promised'
  BY <1>3 DEF Intake!Close, Intake!Resume, Accepted, Copies, Closed
<1>4. ASSUME NEW d \in Deliveries, NEW i \in Indices, Intake!Attach(d, i)
      PROVE  Promised'
  BY <1>4 DEF Intake!Attach, Accepted, Copies, Closed
<1>5. CASE Intake!File \/ Intake!AgentCloses \/ Intake!Tell
  BY <1>5 DEF Intake!File, Intake!AgentCloses, Intake!Tell, Accepted, Copies, Closed
<1>6. CASE \E e \in {"ticket.created", "message.received", "automations"} : Intake!Announce(e)
  BY <1>6 DEF Intake!Announce, Accepted, Copies, Closed
<1>7. CASE UNCHANGED Intake!intakeVars
  BY <1>7 DEF Intake!intakeVars, Accepted, Copies, Closed
<1> QED BY <1>1, <1>2, <1>3, <1>4, <1>5, <1>6, <1>7 DEF Intake!Next

\* The promise is worth keeping: from it alone it follows that no accepted mail is lost,
\* that a delivery is closed with its attachments and its notice, and that a ticket is
\* opened by nothing but the message.
THEOREM PromiseIsEnough ==
  KeepsIntake => /\ [](NothingLost /\ AttachmentsStored /\ NoticedBeforeClosed)
                 /\ [][ticket.state /= "open" /\ ticket'.state = "open" => ~message]_
                        (Intake!intakeVars)
<1>1. Promised => NothingLost /\ AttachmentsStored /\ NoticedBeforeClosed
  <2>1. Promised => NothingLost
    BY DEF Promised, NothingLost, Accepted, Copies
  <2>2. Promised => AttachmentsStored /\ NoticedBeforeClosed
    BY DEF Promised, AttachmentsStored, NoticedBeforeClosed, Closed
  <2> QED BY <2>1, <2>2
<1>2. [Intake!Next]_(Intake!intakeVars) =>
        [ticket.state /= "open" /\ ticket'.state = "open" => ~message]_(Intake!intakeVars)
  BY DEF Intake!Next, Intake!Keep, Intake!Accept, Intake!GiveUp, Intake!Close, Intake!Resume,
     Intake!Attach, Intake!File, Intake!AgentCloses, Intake!Tell, Intake!Announce
<1> QED BY PromisedInit, PromisedStep, <1>1, <1>2, PTL DEF KeepsIntake, Intake!Spec

=============================================================================
