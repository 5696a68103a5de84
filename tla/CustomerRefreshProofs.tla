------------------------ MODULE CustomerRefreshProofs ------------------------
(***************************************************************************)
(* Proofs about CustomerRefresh for every set of tickets and invocations,  *)
(* every page size, number of attempts and number of edits.                *)
(***************************************************************************)
EXTENDS CustomerRefresh, TLAPS

USE RefreshAssumption

(***************************************************************************)
(* Types.  A generation is an edit whose refresh was requested, so there   *)
(* are never more of them than edits.                                      *)
(***************************************************************************)
Counted == task.generation + unrequested <= name

TypeInv == TypeOK /\ Counted

LEMMA IdleType == Idle \in Invocation /\ Idle.pc = "idle" /\ Idle.generation = 0
  BY DEF Idle, Invocation, Generations, Cursors

LEMMA Places == \A k \in Cursors : k \in Nat
  BY DEF Cursors

LEMMA FreshType == Fresh \in Task
  BY DEF Fresh, Task, Generations, Cursors

LEMMA TypeInit == Init => TypeInv
<1> SUFFICES ASSUME Init PROVE TypeInv
  OBVIOUS
<1>1. task \in Task /\ task.generation = 0
  BY FreshType DEF Init, Fresh, Task
<1>2. consumer \in [Consumers -> Invocation]
  BY IdleType DEF Init
<1>3. /\ ticket \in [Tickets -> {"new", "opening", "live", "gone"}]
      /\ text \in [Tickets -> Versions \cup {Never}]
      /\ index \in [Tickets -> Versions \cup {Never}]
      /\ owed \in [Tickets -> Versions \cup {Never}]
  BY DEF Init, Versions
<1>4. name \in Versions /\ unrequested \in 0..MaxEdits /\ dlq \in BOOLEAN
  <2>1. 0 \in 0..MaxEdits
    OBVIOUS
  <2>2. name = 0 /\ unrequested = 0 /\ dlq = FALSE
    BY DEF Init
  <2> QED BY <2>1, <2>2 DEF Versions
<1>5. queue \subseteq Messages
  BY DEF Init, Messages
<1> QED BY <1>1, <1>2, <1>3, <1>4, <1>5 DEF TypeInv, TypeOK, Counted, Init

LEMMA Locals ==
  ASSUME TypeInv, NEW c \in Consumers
  PROVE  /\ consumer[c] \in Invocation
         /\ consumer[c].generation \in Generations
         /\ consumer[c].cursor \in Cursors
         /\ consumer[c].attempts \in 0..MaxAttempts
         /\ consumer[c].page \subseteq Tickets
         /\ consumer[c].full \in BOOLEAN
<1>1. consumer[c] \in Invocation
  BY DEF TypeInv, TypeOK
<1> QED BY <1>1 DEF Invocation

LEMMA Columns ==
  ASSUME TypeInv
  PROVE  /\ task \in Task
         /\ task.generation \in Generations
         /\ task.cursor \in Cursors
         /\ task.attempts \in 0..MaxAttempts
         /\ task.lease \in BOOLEAN
<1>1. task \in Task
  BY DEF TypeInv, TypeOK
<1> QED BY <1>1 DEF Task

\* A step that leaves the generation, the edits and the tickets alone keeps the
\* types if the task and the invocations keep theirs.
LEMMA QuietType ==
  ASSUME TypeInv, task' \in Task, task'.generation = task.generation,
         consumer' \in [Consumers -> Invocation],
         queue' \subseteq Messages, dlq' \in BOOLEAN,
         UNCHANGED <<customer, tickets>>
  PROVE  TypeInv'
  BY DEF TypeInv, TypeOK, Counted, customer, tickets

LEMMA TicketType ==
  ASSUME TypeInv, NEW t \in Tickets,
         ReadCustomer(t) \/ Insert(t) \/ Reindex(t) \/ Remove(t)
  PROVE  TypeInv'
<1> USE DEF TypeInv, TypeOK, Counted
<1>1. CASE ReadCustomer(t)
  BY <1>1 DEF ReadCustomer, customer, carriers
<1>2. CASE Insert(t)
  BY <1>2 DEF Insert, customer, carriers
<1>3. CASE Reindex(t)
  BY <1>3 DEF Reindex, customer, carriers
<1>4. CASE Remove(t)
  BY <1>4 DEF Remove, carriers
<1> QED BY <1>1, <1>2, <1>3, <1>4

LEMMA EditType ==
  ASSUME TypeInv, Save \/ Request \/ EditStops
  PROVE  TypeInv'
<1>1. CASE Save
  <2>1. name' \in Versions /\ unrequested' \in 0..MaxEdits /\ Counted'
    BY <1>1, Columns DEF Save, TypeInv, TypeOK, Counted, Versions, Generations
  <2> QED BY <1>1, <2>1 DEF Save, TypeInv, TypeOK, tickets, carriers
<1>2. CASE Request
  <2>1. unrequested' \in 0..MaxEdits /\ name' = name
    BY <1>2 DEF Request, TypeInv, TypeOK
  <2>2. owed' \in [Tickets -> Versions \cup {Never}]
    BY <1>2 DEF Request, TypeInv, TypeOK
  <2>3. task' \in Task /\ Counted'
    <3>1. CASE task.status = "absent"
      <4>1. task' = Fresh
        BY <1>2, <3>1 DEF Request
      <4>2. Fresh.generation = 0
        BY DEF Fresh
      <4>3. Counted'
        <5>1. name \in Nat /\ unrequested \in Nat /\ task.generation \in Nat
          BY Columns DEF TypeInv, TypeOK, Versions, Generations
        <5>2. task.generation + unrequested <= name /\ unrequested' = unrequested - 1
          BY <1>2 DEF Request, TypeInv, Counted
        <5>3. task'.generation = 0
          BY <4>1, <4>2
        <5>4. 0 + unrequested' <= name'
          BY <2>1, <5>1, <5>2
        <5> QED BY <5>3, <5>4 DEF Counted
      <4> QED BY <4>1, <4>3, FreshType
    <3>2. CASE task.status /= "absent"
      <4> DEFINE g == task.generation + 1
      <4>1. g \in Generations /\ g + unrequested' <= name'
        BY <1>2, <2>1, Columns DEF Request, TypeInv, TypeOK, Counted, Generations, Versions
      <4>2. task' = [Fresh EXCEPT !.generation = g, !.lease = task.lease]
        BY <1>2, <3>2 DEF Request
      <4> HIDE DEF g
      <4>3. task' \in Task /\ task'.generation = g
        BY <4>1, <4>2, FreshType, Columns DEF Task
      <4> QED BY <4>1, <4>3 DEF Counted
    <3> QED BY <3>1, <3>2
  <2> QED BY <1>2, <2>1, <2>2, <2>3 DEF Request, TypeInv, TypeOK, Versions, tickets, carriers
<1>3. CASE EditStops
  <2>1. unrequested' \in 0..MaxEdits /\ Counted'
    BY <1>3, Columns DEF EditStops, TypeInv, TypeOK, Counted, Versions, Generations
  <2> QED BY <1>3, <2>1 DEF EditStops, TypeInv, TypeOK, tickets, carriers
<1> QED BY <1>1, <1>2, <1>3


\* The Cron, the carriers and the clocks touch flags and status of the task only.
LEMMA FlagsType ==
  ASSUME TypeInv,
         \/ \E enqueued \in BOOLEAN : Dispatch(enqueued)
         \/ \E m \in Messages : GiveUp(m)
         \/ \E recorded \in BOOLEAN : DrainLetter(recorded)
         \/ StopSpent \/ LeaseExpires \/ ReservationExpires \/ BackoffEnds
  PROVE  TypeInv' /\ consumer' = consumer
<1> USE Columns
<1>0. consumer \in [Consumers -> Invocation] /\ queue \subseteq Messages /\ dlq \in BOOLEAN
  BY DEF TypeInv, TypeOK
<1>1. ASSUME NEW enqueued \in BOOLEAN, Dispatch(enqueued) PROVE TypeInv' /\ consumer' = consumer
  <2>1. task' \in Task /\ task'.generation = task.generation
    BY <1>1 DEF Dispatch, Task
  <2>2. queue' \subseteq Messages
    BY <1>0, <1>1 DEF Dispatch, Messages
  <2> QED BY <1>0, <1>1, <2>1, <2>2, QuietType DEF Dispatch
<1>2. ASSUME NEW m \in Messages, GiveUp(m) PROVE TypeInv' /\ consumer' = consumer
  BY <1>0, <1>2, QuietType DEF GiveUp
<1>3. ASSUME NEW recorded \in BOOLEAN, DrainLetter(recorded) PROVE TypeInv' /\ consumer' = consumer
  <2>1. task' \in Task /\ task'.generation = task.generation
    BY <1>3 DEF DrainLetter, Task
  <2> QED BY <1>0, <1>3, <2>1, QuietType DEF DrainLetter
<1>4. CASE StopSpent
  <2>1. task' \in Task /\ task'.generation = task.generation
    BY <1>4 DEF StopSpent, Task
  <2> QED BY <1>0, <1>4, <2>1, QuietType DEF StopSpent, carriers
<1>5. CASE LeaseExpires
  <2>1. task' \in Task /\ task'.generation = task.generation
    BY <1>5 DEF LeaseExpires, Task
  <2> QED BY <1>0, <1>5, <2>1, QuietType DEF LeaseExpires, carriers
<1>6. CASE ReservationExpires
  <2>1. task' \in Task /\ task'.generation = task.generation
    BY <1>6 DEF ReservationExpires, Task
  <2> QED BY <1>0, <1>6, <2>1, QuietType DEF ReservationExpires, carriers
<1>7. CASE BackoffEnds
  <2>1. task' \in Task /\ task'.generation = task.generation
    BY <1>7 DEF BackoffEnds, Task
  <2> QED BY <1>0, <1>7, <2>1, QuietType DEF BackoffEnds, carriers
<1> QED BY <1>1, <1>2, <1>3, <1>4, <1>5, <1>6, <1>7

\* Replacing the locals of one invocation by good ones.
LEMMA PutLocals ==
  ASSUME TypeInv, NEW c \in Consumers, NEW r \in Invocation,
         consumer' = [consumer EXCEPT ![c] = r]
  PROVE  consumer' \in [Consumers -> Invocation]
  BY DEF TypeInv, TypeOK

LEMMA ClaimType ==
  ASSUME TypeInv, NEW c \in Consumers, NEW m \in Messages, Claim(c, m)
  PROVE  TypeInv'
<1>0. consumer \in [Consumers -> Invocation] /\ queue' \subseteq Messages /\ dlq' \in BOOLEAN
  BY DEF Claim, TypeInv, TypeOK
<1>1. CASE Claimable(m)
  <2> DEFINE n == task.attempts + 1
             r == [Idle EXCEPT !.pc = "claimed", !.generation = task.generation,
                               !.cursor = task.cursor, !.attempts = n]
  <2>1. n \in 0..MaxAttempts
    BY <1>1, Columns DEF Claimable
  <2>2. task' = [task EXCEPT !.lease = TRUE, !.attempts = n]
    BY <1>1 DEF Claim
  <2>3. consumer' = [consumer EXCEPT ![c] = r]
    BY <1>1 DEF Claim
  <2> HIDE DEF n
  <2>4. task' \in Task /\ task'.generation = task.generation
    BY <2>1, <2>2, Columns DEF Task
  <2>5. r \in Invocation
    BY <2>1, IdleType, Columns DEF Invocation
  <2> HIDE DEF r
  <2>6. consumer' \in [Consumers -> Invocation]
    BY <2>3, <2>5, PutLocals
  <2> QED BY <1>0, <2>4, <2>6, QuietType DEF Claim
<1>2. CASE ~Claimable(m)
  BY <1>0, <1>2, QuietType, Columns DEF Claim
<1> QED BY <1>1, <1>2

LEMMA WorkType ==
  ASSUME TypeInv, NEW c \in Consumers, Work(c) \/ Dies(c)
  PROVE  TypeInv'
<1> USE Columns, Locals
<1>0. /\ consumer \in [Consumers -> Invocation] /\ queue \subseteq Messages /\ dlq \in BOOLEAN
      /\ Idle \in Invocation
  BY IdleType DEF TypeInv, TypeOK
<1>1. CASE SelectPage(c)
  <2>1. PICK page \in SUBSET Tickets : SelectPage(c)!2!(page)
    BY <1>1 DEF SelectPage
  <2> DEFINE full == Cardinality(page) = Page
             r == [consumer[c] EXCEPT !.pc = IF page = {} THEN "finish" ELSE "rewrite",
                                      !.page = page, !.full = full]
  <2>2. full \in BOOLEAN
    OBVIOUS
  <2>3. consumer' = [consumer EXCEPT ![c] = r]
    BY <2>1
  <2> HIDE DEF full
  <2>4. r \in Invocation
    BY <2>2 DEF Invocation
  <2> HIDE DEF r
  <2>5. consumer' \in [Consumers -> Invocation]
    BY <2>3, <2>4, PutLocals
  <2> QED BY <1>0, <1>1, <2>5, QuietType DEF SelectPage, carriers
<1>2. ASSUME NEW t \in Tickets, Rewrite(c, t) PROVE TypeInv'
  <2> DEFINE r == [consumer[c] EXCEPT !.pc = "index"]
  <2>1. r \in Invocation /\ consumer' = [consumer EXCEPT ![c] = r]
    BY <1>2 DEF Rewrite, Invocation
  <2> HIDE DEF r
  <2>2. consumer' \in [Consumers -> Invocation]
    BY <2>1, PutLocals
  <2>3. text' \in [Tickets -> Versions \cup {Never}]
    BY <1>2 DEF Rewrite, TypeInv, TypeOK
  <2> QED BY <1>2, <2>2, <2>3 DEF Rewrite, TypeInv, TypeOK, Counted, customer, carriers
<1>3. ASSUME NEW t \in Tickets, Index(c, t) PROVE TypeInv'
  <2> DEFINE r == [consumer[c] EXCEPT
                     !.pc = IF consumer[c].page = {t} THEN "finish" ELSE "rewrite",
                     !.page = consumer[c].page \ {t}, !.cursor = t]
  <2>1. r \in Invocation
    BY DEF Invocation, Cursors
  <2>2. consumer' = [consumer EXCEPT ![c] = r]
    BY <1>3 DEF Index
  <2> HIDE DEF r
  <2>3. consumer' \in [Consumers -> Invocation]
    BY <2>1, <2>2, PutLocals
  <2>4. index' \in [Tickets -> Versions \cup {Never}]
    BY <1>3 DEF Index, TypeInv, TypeOK
  <2> QED BY <1>3, <2>3, <2>4 DEF Index, TypeInv, TypeOK, Counted, customer, carriers
<1>4. CASE Finish(c)
  <2> DEFINE z == 0
             n == 0
             r == [consumer[c] EXCEPT !.pc = "release", !.cursor = z, !.full = FALSE]
             f == [task EXCEPT !.cursor = consumer[c].cursor,
                     !.status = IF consumer[c].full THEN "pending" ELSE "completed",
                     !.attempts = n, !.lease = FALSE, !.reserved = FALSE, !.backoff = FALSE]
  <2>1. z \in Cursors /\ n \in 0..MaxAttempts
    BY DEF Cursors
  <2>2. consumer' = [consumer EXCEPT ![c] = r]
    BY <1>4 DEF Finish
  <2>3. task' = task \/ task' = f
    BY <1>4 DEF Finish, Finished
  <2> HIDE DEF z, n
  <2>4. r \in Invocation
    BY <2>1 DEF Invocation
  <2>5. f \in Task /\ f.generation = task.generation
    BY <2>1 DEF Task
  <2> HIDE DEF r, f
  <2>6. consumer' \in [Consumers -> Invocation]
    BY <2>2, <2>4, PutLocals
  <2> QED BY <1>0, <1>4, <2>3, <2>5, <2>6, QuietType DEF Finish, carriers
<1>5. CASE Release(c)
  <2>1. task' \in Task /\ task'.generation = task.generation
    BY <1>5 DEF Release, Task
  <2>2. consumer' \in [Consumers -> Invocation]
    BY <1>0, <1>5, PutLocals DEF Release
  <2> QED BY <1>0, <1>5, <2>1, <2>2, QuietType DEF Release, carriers
<1>6. CASE Fails(c)
  <2>1. task' \in Task /\ task'.generation = task.generation
    BY <1>6 DEF Fails, Task
  <2>2. [Idle EXCEPT !.pc = "letter"] \in Invocation
    BY <1>0 DEF Invocation
  <2>3. consumer' \in [Consumers -> Invocation]
    BY <1>0, <1>6, <2>2, PutLocals DEF Fails
  <2> QED BY <1>0, <1>6, <2>1, <2>3, QuietType DEF Fails, carriers
<1>7. CASE SendLetter(c)
  <2>1. consumer' \in [Consumers -> Invocation]
    BY <1>0, <1>7, PutLocals DEF SendLetter
  <2> QED BY <1>0, <1>7, <2>1, QuietType DEF SendLetter
<1>8. CASE Dies(c)
  <2>1. consumer' \in [Consumers -> Invocation]
    BY <1>0, <1>8, PutLocals DEF Dies
  <2> QED BY <1>0, <1>8, <2>1, QuietType DEF Dies, carriers
<1> QED BY <1>1, <1>2, <1>3, <1>4, <1>5, <1>6, <1>7, <1>8 DEF Work

LEMMA TypeStep == TypeInv /\ [Next]_vars => TypeInv'
<1> SUFFICES ASSUME TypeInv, [Next]_vars PROVE TypeInv'
  OBVIOUS
<1>1. CASE UNCHANGED vars
  BY <1>1 DEF vars, TypeInv, TypeOK, Counted
<1> QED BY <1>1, TicketType, EditType, FlagsType, ClaimType, WorkType DEF Next

\* Every column and local variable keeps to the values the code can write, and
\* attempts to their limit, for any number of tickets, edits and invocations.
THEOREM TypeCorrect == Spec => []TypeOK
<1>1. TypeInv => TypeOK
  BY DEF TypeInv
<1> QED BY <1>1, TypeInit, TypeStep, PTL DEF Spec

(***************************************************************************)
(* Safety.  The argument is about the invocation whose generation is the   *)
(* task's: whatever it has behind its cursor is refreshed, and what lies   *)
(* before it is on its page or, if the page was full, past it.  A request  *)
(* raises the generation above every invocation's, so that none of them    *)
(* can complete the task or move its cursor any more.                      *)
(***************************************************************************)
Ordered ==
  \A t \in Tickets :
    /\ index[t] <= text[t] /\ text[t] <= name /\ owed[t] <= name
    /\ ticket[t] /= "live" => owed[t] = Never

NoneAhead == \A c \in Consumers : consumer[c].generation <= task.generation

NoneEarly ==
  task.status = "absent" =>
    task.generation = 0 /\ \A c \in Consumers : consumer[c].pc = "idle"

Built(t) == ticket[t] = "live" => owed[t] <= text[t]

Covered(c, t) ==
  \/ Refreshed(t)
  \/ t \in consumer[c].page
  \/ /\ consumer[c].full
     /\ consumer[c].cursor < t
     /\ \A u \in consumer[c].page : u < t

Serves(c) ==
  /\ consumer[c].pc = "claimed" =>
       \A t \in Tickets : t <= consumer[c].cursor => Refreshed(t)
  /\ consumer[c].pc \in {"rewrite", "index", "finish"} => \A t \in Tickets : Covered(c, t)
  /\ consumer[c].pc = "finish" => consumer[c].page = {}
  /\ consumer[c].pc = "index" => \A t \in Tickets : IsNext(c, t) => Built(t)

CurrentServe ==
  \A c \in Consumers : consumer[c].generation = task.generation => Serves(c)

SafeInv ==
  /\ Ordered /\ NoneAhead /\ NoneEarly /\ CurrentServe
  /\ CompletedMeansRefreshed /\ CursorSkipsNothing

IInv == TypeInv /\ SafeInv

LEMMA SafeInit == Init => SafeInv
<1> SUFFICES ASSUME Init PROVE SafeInv
  OBVIOUS
<1>1. task.status = "absent" /\ task.generation = 0 /\ task.cursor = 0
  BY DEF Init, Fresh
<1>2. \A c \in Consumers : consumer[c] = Idle
  BY DEF Init
<1>3. Ordered
  BY DEF Init, Ordered, Never
<1>4. NoneAhead /\ NoneEarly
  BY <1>1, <1>2, IdleType DEF NoneAhead, NoneEarly
<1>5. CurrentServe
  BY <1>2, IdleType DEF CurrentServe, Serves
<1>6. CompletedMeansRefreshed /\ CursorSkipsNothing
  BY <1>1 DEF CompletedMeansRefreshed, CursorSkipsNothing
<1> QED BY <1>3, <1>4, <1>5, <1>6 DEF SafeInv

(***************************************************************************)
(* What the steps do to the tickets: texts only get newer.                 *)
(***************************************************************************)
LEMMA Values ==
  ASSUME TypeInv, NEW t \in Tickets
  PROVE  /\ name \in Int /\ text[t] \in Int /\ index[t] \in Int /\ owed[t] \in Int
         /\ Never <= text[t] /\ Never <= index[t] /\ Never <= owed[t] /\ Never <= name
         /\ Never \in Int /\ t \in Nat \ {0}
  BY DEF TypeInv, TypeOK, Versions, Never

DataKept ==
  \A t \in Tickets : (Refreshed(t) => Refreshed(t)') /\ (Built(t) => Built(t)')

LEMMA SameData ==
  ASSUME Ordered, UNCHANGED <<customer, tickets>>
  PROVE  Ordered' /\ DataKept
  BY DEF Ordered, DataKept, Refreshed, Built, customer, tickets

LEMMA SaveData ==
  ASSUME TypeInv, Ordered, Save \/ EditStops
  PROVE  Ordered' /\ DataKept
<1>1. UNCHANGED <<owed, ticket, text, index>>
  BY DEF Save, EditStops, tickets
<1>2. DataKept
  BY <1>1 DEF DataKept, Refreshed, Built
<1>3. name' = name \/ name' = name + 1
  BY DEF Save, EditStops
<1>4. \A t \in Tickets : text[t] <= name' /\ owed[t] <= name'
  BY <1>3, Values DEF Ordered
<1> QED BY <1>1, <1>2, <1>4 DEF Ordered

LEMMA TicketData ==
  ASSUME TypeInv, Ordered, NEW t \in Tickets,
         ReadCustomer(t) \/ Insert(t) \/ Reindex(t) \/ Remove(t)
  PROVE  Ordered' /\ DataKept
<1> USE Values
<1>0. /\ ticket \in [Tickets -> {"new", "opening", "live", "gone"}]
      /\ text \in [Tickets -> Versions \cup {Never}]
      /\ index \in [Tickets -> Versions \cup {Never}]
      /\ owed \in [Tickets -> Versions \cup {Never}]
  BY DEF TypeInv, TypeOK
<1>1. CASE ReadCustomer(t)
  BY <1>0, <1>1 DEF ReadCustomer, customer, Ordered, DataKept, Refreshed, Built
<1>2. CASE Insert(t)
  BY <1>0, <1>2 DEF Insert, customer, Ordered, DataKept, Refreshed, Built
<1>3. CASE Reindex(t)
  BY <1>0, <1>3 DEF Reindex, customer, Ordered, DataKept, Refreshed, Built
<1>4. CASE Remove(t)
  BY <1>0, <1>4 DEF Remove, Ordered, DataKept, Refreshed, Built
<1> QED BY <1>1, <1>2, <1>3, <1>4

LEMMA RewriteData ==
  ASSUME TypeInv, Ordered, NEW c \in Consumers, NEW t \in Tickets, Rewrite(c, t)
  PROVE  Ordered' /\ DataKept /\ Built(t)'
<1> USE Values
<1>1. /\ UNCHANGED <<ticket, index, name, owed>>
      /\ \A u \in Tickets : text'[u] = IF u = t /\ ticket[t] = "live" THEN name ELSE text[u]
  BY DEF Rewrite, Live, customer, TypeInv, TypeOK
<1> QED BY <1>1 DEF Ordered, DataKept, Refreshed, Built

LEMMA IndexData ==
  ASSUME TypeInv, Ordered, NEW c \in Consumers, NEW t \in Tickets, Index(c, t)
  PROVE  /\ Ordered' /\ DataKept
         /\ Built(t) => Refreshed(t)'
<1> USE Values
<1>1. /\ UNCHANGED <<ticket, text, name, owed>>
      /\ \A u \in Tickets : index'[u] = IF u = t /\ ticket[t] = "live" THEN text[t] ELSE index[u]
  BY DEF Index, Live, customer, TypeInv, TypeOK
<1> QED BY <1>1 DEF Ordered, DataKept, Refreshed, Built

(***************************************************************************)
(* What the steps do to the task: all but a request, a claim and the end   *)
(* of a pass leave its generation and cursor alone and complete nothing.   *)
(***************************************************************************)
Tame ==
  /\ task'.generation = task.generation /\ task'.cursor = task.cursor
  /\ task'.status = "completed" => task.status = "completed"
  /\ task'.status = "absent" => task.status = "absent"

LEMMA TameTask ==
  ASSUME SafeInv, DataKept, Tame
  PROVE  CompletedMeansRefreshed' /\ CursorSkipsNothing'
  BY DEF SafeInv, DataKept, Tame, CompletedMeansRefreshed, CursorSkipsNothing

\* An invocation that does not move goes on serving.
LEMMA ServesOn ==
  ASSUME NEW c \in Consumers, Serves(c), DataKept, consumer'[c] = consumer[c]
  PROVE  Serves(c)'
<1>1. consumer[c].pc = "claimed" =>
        \A t \in Tickets : t <= consumer[c].cursor => Refreshed(t)'
  BY DEF Serves, DataKept
<1>2. \A t \in Tickets : Covered(c, t) => Covered(c, t)'
  BY DEF Covered, DataKept
<1>3. \A t \in Tickets : IsNext(c, t)' => IsNext(c, t)
  BY DEF IsNext
<1>4. consumer[c].pc = "index" => \A t \in Tickets : IsNext(c, t)' => Built(t)'
  BY <1>3 DEF Serves, DataKept
<1> QED BY <1>1, <1>2, <1>4 DEF Serves

LEMMA TameStep ==
  ASSUME TypeInv, SafeInv, Ordered', DataKept, Tame, consumer' = consumer
  PROVE  SafeInv'
<1>1. NoneAhead' /\ NoneEarly'
  BY DEF SafeInv, NoneAhead, NoneEarly, Tame
<1>2. CurrentServe'
  BY ServesOn DEF SafeInv, CurrentServe, Tame
<1> QED BY <1>1, <1>2, TameTask DEF SafeInv

LEMMA LocalStep ==
  ASSUME TypeInv, SafeInv, Ordered', DataKept, task'.generation = task.generation,
         task'.status = "absent" => task.status = "absent",
         CompletedMeansRefreshed', CursorSkipsNothing',
         NEW c \in Consumers, NEW r \in Invocation,
         consumer' = [consumer EXCEPT ![c] = r],
         r.generation <= task.generation,
         r.pc = "idle" \/ task.status /= "absent",
         r.generation = task.generation => Serves(c)'
  PROVE  SafeInv'
<1>1. consumer'[c] = r /\ \A k \in Consumers : k /= c => consumer'[k] = consumer[k]
  BY DEF TypeInv, TypeOK
<1>2. NoneAhead'
  BY <1>1 DEF SafeInv, NoneAhead
<1>3. NoneEarly'
  BY <1>1 DEF SafeInv, NoneEarly
<1>4. CurrentServe'
  BY <1>1, ServesOn DEF SafeInv, CurrentServe
<1> QED BY <1>2, <1>3, <1>4 DEF SafeInv

(***************************************************************************)
(* One lemma per group of actions.                                         *)
(***************************************************************************)
LEMMA RequestSafe ==
  ASSUME TypeInv, SafeInv, Request
  PROVE  SafeInv'
<1>1. /\ UNCHANGED <<name, ticket, text, index, consumer>>
      /\ \A t \in Tickets : owed'[t] = IF ticket[t] = "live" THEN name ELSE owed[t]
  BY DEF Request, Live, tickets
<1>2. Ordered'
  BY <1>1, Values DEF SafeInv, Ordered
<1>3. task'.status = "pending" /\ task'.cursor = 0
  BY DEF Request, Fresh
<1>4. CompletedMeansRefreshed' /\ CursorSkipsNothing'
  BY <1>3 DEF CompletedMeansRefreshed, CursorSkipsNothing
<1>5. NoneAhead' /\ NoneEarly' /\ CurrentServe'
  <2>1. CASE task.status = "absent"
    <3>1. \A c \in Consumers : consumer[c].pc = "idle"
      BY <2>1 DEF SafeInv, NoneEarly
    <3>2. task.generation = 0 /\ task'.generation = 0
      BY <2>1 DEF SafeInv, NoneEarly, Request, Fresh
    <3>3. NoneAhead'
      BY <1>1, <3>2 DEF SafeInv, NoneAhead
    <3>4. CurrentServe'
      BY <1>1, <3>1 DEF CurrentServe, Serves
    <3> QED BY <1>3, <3>3, <3>4 DEF NoneEarly
  <2>2. CASE task.status /= "absent"
    <3>1. task'.generation = task.generation + 1
      BY <2>2 DEF Request, Fresh
    <3>2. \A c \in Consumers : consumer'[c].generation < task'.generation
      BY <1>1, <3>1, Columns, Locals DEF SafeInv, NoneAhead, Generations
    <3>3. ASSUME NEW c \in Consumers
          PROVE  consumer'[c].generation <= task'.generation
                 /\ consumer'[c].generation /= task'.generation
      <4>1. consumer[c].generation \in Int /\ task.generation \in Int
        BY Columns, Locals DEF Generations
      <4> QED BY <1>1, <3>1, <3>2, <4>1
    <3> QED BY <1>3, <3>3 DEF NoneAhead, CurrentServe, NoneEarly
  <2> QED BY <2>1, <2>2
<1> QED BY <1>2, <1>4, <1>5 DEF SafeInv

LEMMA TicketSafe ==
  ASSUME TypeInv, SafeInv,
         \/ Save \/ EditStops
         \/ \E t \in Tickets : ReadCustomer(t) \/ Insert(t) \/ Reindex(t) \/ Remove(t)
  PROVE  SafeInv'
<1>1. Ordered' /\ DataKept
  BY SaveData, TicketData DEF SafeInv
<1>2. task' = task /\ consumer' = consumer
  BY DEF Save, EditStops, ReadCustomer, Insert, Reindex, Remove
<1> QED BY <1>1, <1>2, TameStep DEF Tame

LEMMA FlagsSafe ==
  ASSUME TypeInv, SafeInv,
         \/ \E enqueued \in BOOLEAN : Dispatch(enqueued)
         \/ \E m \in Messages : GiveUp(m)
         \/ \E recorded \in BOOLEAN : DrainLetter(recorded)
         \/ StopSpent \/ LeaseExpires \/ ReservationExpires \/ BackoffEnds
  PROVE  SafeInv'
<1>1. UNCHANGED <<customer, tickets, consumer>>
  BY DEF Dispatch, GiveUp, DrainLetter, StopSpent, LeaseExpires, ReservationExpires, BackoffEnds
<1>2. Ordered' /\ DataKept
  BY <1>1, SameData DEF SafeInv
<1>3. Tame
  BY Columns DEF Dispatch, GiveUp, DrainLetter, StopSpent, LeaseExpires, ReservationExpires,
     BackoffEnds, Tame, Task
<1> QED BY <1>1, <1>2, <1>3, TameStep

LEMMA ClaimSafe ==
  ASSUME TypeInv, SafeInv, NEW c \in Consumers, NEW m \in Messages, Claim(c, m)
  PROVE  SafeInv'
<1>1. Ordered' /\ DataKept
  BY SameData DEF Claim, SafeInv
<1>2. CASE Claimable(m)
  <2> DEFINE n == task.attempts + 1
             r == [Idle EXCEPT !.pc = "claimed", !.generation = task.generation,
                               !.cursor = task.cursor, !.attempts = n]
  <2>1. task' = [task EXCEPT !.lease = TRUE, !.attempts = n]
    BY <1>2 DEF Claim
  <2>2. consumer' = [consumer EXCEPT ![c] = r]
    BY <1>2 DEF Claim
  <2>3. n \in 0..MaxAttempts
    BY <1>2, Columns DEF Claimable
  <2> HIDE DEF n
  <2>4. Tame
    BY <2>1, Columns DEF Tame, Task
  <2>5. r \in Invocation
    BY <2>3, IdleType, Columns DEF Invocation
  <2>6. r.pc = "claimed" /\ r.generation = task.generation /\ r.cursor = task.cursor
    BY DEF Idle
  <2> HIDE DEF r
  <2>7. consumer'[c] = r
    BY <2>2 DEF TypeInv, TypeOK
  <2>8. CompletedMeansRefreshed' /\ CursorSkipsNothing'
    BY <1>1, <2>4, TameTask
  <2>9. Serves(c)'
    BY <2>4, <2>6, <2>7, <2>8 DEF Serves, CursorSkipsNothing, Tame
  <2>10. task.status /= "absent" /\ r.generation <= task.generation
    BY <1>2, <2>6, Columns DEF Claimable, Generations
  <2> QED BY <1>1, <2>2, <2>4, <2>5, <2>8, <2>9, <2>10, LocalStep DEF Tame
<1>3. CASE ~Claimable(m)
  <2>1. Tame /\ consumer' = consumer
    BY <1>3 DEF Claim, Tame
  <2> QED BY <1>1, <2>1, TameStep
<1> QED BY <1>2, <1>3

LEMMA SelectSafe ==
  ASSUME TypeInv, SafeInv, NEW c \in Consumers, SelectPage(c)
  PROVE  SafeInv'
<1> USE Locals
<1>1. Ordered' /\ DataKept
  BY SameData DEF SelectPage, SafeInv
<1>2. Tame
  BY DEF SelectPage, Tame
<1>3. PICK page \in SUBSET Tickets : SelectPage(c)!2!(page)
  BY DEF SelectPage
<1> DEFINE full == Cardinality(page) = Page
           r == [consumer[c] EXCEPT !.pc = IF page = {} THEN "finish" ELSE "rewrite",
                                    !.page = page, !.full = full]
<1>4. consumer' = [consumer EXCEPT ![c] = r]
  BY <1>3
<1>5. /\ \A t \in page : t > consumer[c].cursor
      /\ \A t \in page, u \in Tickets :
           ticket[u] = "live" /\ u > consumer[c].cursor /\ u < t => u \in page
      /\ ~full => \A u \in Tickets :
           ticket[u] = "live" /\ u > consumer[c].cursor => u \in page
  BY <1>3 DEF Selects, Live
<1>6. full \in BOOLEAN
  OBVIOUS
<1> HIDE DEF full
<1>7. r \in Invocation
  BY <1>6 DEF Invocation
<1>8. /\ r.pc = (IF page = {} THEN "finish" ELSE "rewrite")
      /\ r.generation = consumer[c].generation /\ r.cursor = consumer[c].cursor
      /\ r.page = page /\ r.full = full
  BY DEF Invocation
<1> HIDE DEF r
<1>9. consumer'[c] = r
  BY <1>4 DEF TypeInv, TypeOK
<1>10. ASSUME r.generation = task.generation PROVE Serves(c)'
  <2>1. \A t \in Tickets : t <= consumer[c].cursor => Refreshed(t)'
    BY <1>1, <1>8, <1>10 DEF SafeInv, CurrentServe, Serves, SelectPage, DataKept
  <2>2. ASSUME NEW t \in Tickets PROVE Covered(c, t)'
    <3>1. CASE t <= consumer[c].cursor
      BY <2>1, <3>1 DEF Covered
    <3>2. CASE ticket[t] /= "live"
      BY <3>2 DEF Covered, Refreshed, SelectPage, tickets
    <3>3. CASE t > consumer[c].cursor /\ ticket[t] = "live" /\ ~full
      BY <1>5, <1>8, <1>9, <3>3 DEF Covered
    <3>4. CASE t > consumer[c].cursor /\ ticket[t] = "live" /\ full /\ t \notin page
      <4>1. ASSUME NEW u \in page PROVE u < t
        <5>1. u \in Nat /\ t \in Nat /\ u /= t
          BY <3>4, Values
        <5>2. ~(t < u)
          BY <1>5, <3>4
        <5> QED BY <5>1, <5>2
      <4> QED BY <1>6, <1>8, <1>9, <3>4, <4>1 DEF Covered
    <3>5. CASE t \in page
      BY <1>8, <1>9, <3>5 DEF Covered
    <3>6. consumer[c].cursor \in Int /\ t \in Int
      BY Places, Values
    <3> QED BY <3>1, <3>2, <3>3, <3>4, <3>5, <3>6
  <2> QED BY <1>8, <1>9, <2>2 DEF Serves
<1>11. r.generation <= task.generation /\ task.status /= "absent"
  BY <1>8 DEF SafeInv, NoneAhead, NoneEarly, SelectPage
<1> QED BY <1>1, <1>2, <1>4, <1>7, <1>10, <1>11, LocalStep, TameTask DEF Tame

LEMMA RewriteSafe ==
  ASSUME TypeInv, SafeInv, NEW c \in Consumers, NEW t \in Tickets, Rewrite(c, t)
  PROVE  SafeInv'
<1> USE Locals
<1> DEFINE r == [consumer[c] EXCEPT !.pc = "index"]
<1>1. Ordered' /\ DataKept /\ Built(t)'
  BY RewriteData DEF SafeInv
<1>2. Tame
  BY DEF Rewrite, Tame
<1>3. consumer' = [consumer EXCEPT ![c] = r] /\ r \in Invocation
  BY DEF Rewrite, Invocation
<1>4. /\ r.pc = "index" /\ r.generation = consumer[c].generation
      /\ r.cursor = consumer[c].cursor /\ r.page = consumer[c].page /\ r.full = consumer[c].full
  BY DEF Invocation
<1> HIDE DEF r
<1>5. consumer'[c] = r
  BY <1>3 DEF TypeInv, TypeOK
<1>6. ASSUME r.generation = task.generation PROVE Serves(c)'
  <2>1. \A u \in Tickets : Covered(c, u)
    BY <1>4, <1>6 DEF SafeInv, CurrentServe, Serves, Rewrite
  <2>2. \A u \in Tickets : Covered(c, u)'
    BY <1>1, <1>4, <1>5, <2>1 DEF Covered, DataKept
  <2>3. \A u \in Tickets : IsNext(c, u)' => u = t
    BY <1>4, <1>5, Values DEF IsNext, Rewrite
  <2> QED BY <1>1, <1>4, <1>5, <2>2, <2>3 DEF Serves
<1>7. r.generation <= task.generation /\ task.status /= "absent"
  BY <1>4 DEF SafeInv, NoneAhead, NoneEarly, Rewrite
<1> QED BY <1>1, <1>2, <1>3, <1>6, <1>7, LocalStep, TameTask DEF Tame

LEMMA IndexSafe ==
  ASSUME TypeInv, SafeInv, NEW c \in Consumers, NEW t \in Tickets, Index(c, t)
  PROVE  SafeInv'
<1> USE Locals
<1> DEFINE r == [consumer[c] EXCEPT
                   !.pc = IF consumer[c].page = {t} THEN "finish" ELSE "rewrite",
                   !.page = consumer[c].page \ {t}, !.cursor = t]
<1>1. Ordered' /\ DataKept /\ (Built(t) => Refreshed(t)')
  BY IndexData DEF SafeInv
<1>2. Tame
  BY DEF Index, Tame
<1>3. consumer' = [consumer EXCEPT ![c] = r] /\ r \in Invocation
  <2>1. consumer' = [consumer EXCEPT ![c] = r]
    BY DEF Index
  <2>2. t \in Cursors /\ consumer[c].page \ {t} \in SUBSET Tickets
    BY DEF Cursors
  <2>3. r \in Invocation
    BY <2>2 DEF Invocation
  <2> QED BY <2>1, <2>3
<1>4. /\ r.pc = (IF consumer[c].page = {t} THEN "finish" ELSE "rewrite")
      /\ r.generation = consumer[c].generation
      /\ r.cursor = t /\ r.page = consumer[c].page \ {t} /\ r.full = consumer[c].full
  BY DEF Invocation
<1> HIDE DEF r
<1>5. consumer'[c] = r
  BY <1>3 DEF TypeInv, TypeOK
<1>6. ASSUME r.generation = task.generation PROVE Serves(c)'
  <2>0. Serves(c)
    BY <1>4, <1>6 DEF SafeInv, CurrentServe
  <2>1. Refreshed(t)'
    BY <1>1, <2>0 DEF Serves, Index
  <2>2. ASSUME NEW u \in Tickets PROVE Covered(c, u)'
    <3>1. Covered(c, u)
      BY <2>0 DEF Serves, Index
    <3>2. CASE u = t
      BY <2>1, <3>2 DEF Covered
    <3>3. CASE Refreshed(u)
      BY <1>1, <3>3 DEF Covered, DataKept
    <3>4. CASE u \in consumer[c].page /\ u /= t
      BY <1>4, <1>5, <3>4 DEF Covered
    <3>5. CASE consumer[c].full /\ \A v \in consumer[c].page : v < u
      <4>1. t < u
        BY <3>5 DEF Index, IsNext
      <4> QED BY <1>4, <1>5, <3>5, <4>1 DEF Covered
    <3> QED BY <3>1, <3>2, <3>3, <3>4, <3>5 DEF Covered
  <2> QED BY <1>4, <1>5, <2>2 DEF Serves
<1>7. r.generation <= task.generation /\ task.status /= "absent"
  BY <1>4 DEF SafeInv, NoneAhead, NoneEarly, Index
<1> QED BY <1>1, <1>2, <1>3, <1>6, <1>7, LocalStep, TameTask DEF Tame

LEMMA FinishSafe ==
  ASSUME TypeInv, SafeInv, NEW c \in Consumers, Finish(c)
  PROVE  SafeInv'
<1> USE Locals, Columns
<1> DEFINE z == 0
           n == 0
           r == [consumer[c] EXCEPT !.pc = "release", !.cursor = z, !.full = FALSE]
           f == [task EXCEPT !.cursor = consumer[c].cursor,
                   !.status = IF consumer[c].full THEN "pending" ELSE "completed",
                   !.attempts = n, !.lease = FALSE, !.reserved = FALSE, !.backoff = FALSE]
<1>1. Ordered' /\ DataKept
  BY SameData DEF Finish, SafeInv
<1>2. z \in Cursors
  BY DEF Cursors
<1>3. consumer' = [consumer EXCEPT ![c] = r]
  BY DEF Finish
<1>4. task' = IF task.generation = consumer[c].generation THEN f ELSE task
  BY DEF Finish, Finished
<1> HIDE DEF z, n
<1>5. r \in Invocation /\ r.pc = "release" /\ r.generation = consumer[c].generation
  BY <1>2 DEF Invocation
<1>6. /\ f.generation = task.generation /\ f.cursor = consumer[c].cursor
      /\ f.status = IF consumer[c].full THEN "pending" ELSE "completed"
  BY DEF Task
<1> HIDE DEF r, f
<1>7. consumer'[c] = r
  BY <1>3 DEF TypeInv, TypeOK
<1>8. task'.generation = task.generation /\ (task'.status = "absent" => task.status = "absent")
  BY <1>4, <1>6
<1>9. CompletedMeansRefreshed' /\ CursorSkipsNothing'
  <2>1. CASE task.generation = consumer[c].generation
    <3>1. Serves(c) /\ consumer[c].page = {}
      BY <2>1 DEF SafeInv, CurrentServe, Serves, Finish
    <3>2. \A t \in Tickets : Refreshed(t) \/ (consumer[c].full /\ consumer[c].cursor < t)
      BY <3>1 DEF Serves, Covered, Finish
    <3>3. CompletedMeansRefreshed'
      BY <1>1, <1>4, <1>6, <2>1, <3>2 DEF CompletedMeansRefreshed, DataKept
    <3>4. ASSUME NEW t \in Tickets, t <= consumer[c].cursor PROVE Refreshed(t)'
      <4>1. consumer[c].cursor \in Nat /\ t \in Nat
        BY Places, Values
      <4>2. ~(consumer[c].cursor < t)
        BY <3>4, <4>1
      <4> QED BY <1>1, <3>2, <4>2 DEF DataKept
    <3>5. CursorSkipsNothing'
      BY <1>4, <1>6, <2>1, <3>4 DEF CursorSkipsNothing
    <3> QED BY <3>3, <3>5
  <2>2. CASE task.generation /= consumer[c].generation
    BY <1>1, <1>4, <2>2, TameTask DEF Tame
  <2> QED BY <2>1, <2>2
<1>10. Serves(c)'
  BY <1>5, <1>7 DEF Serves
<1>11. r.generation <= task.generation /\ task.status /= "absent"
  BY <1>5 DEF SafeInv, NoneAhead, NoneEarly, Finish
<1> QED BY <1>1, <1>3, <1>5, <1>8, <1>9, <1>10, <1>11, LocalStep

LEMMA StopSafe ==
  ASSUME TypeInv, SafeInv, NEW c \in Consumers,
         Release(c) \/ Fails(c) \/ SendLetter(c) \/ Dies(c)
  PROVE  SafeInv'
<1> USE Locals, Columns
<1> DEFINE letter == [Idle EXCEPT !.pc = "letter"]
<1>0. /\ Idle \in Invocation /\ Idle.pc = "idle" /\ Idle.generation = 0
      /\ letter \in Invocation /\ letter.pc = "letter" /\ letter.generation = 0
  BY IdleType DEF Idle, Invocation
<1> HIDE DEF letter
<1>1. UNCHANGED <<customer, tickets>>
  BY DEF Release, Fails, SendLetter, Dies
<1>2. Ordered' /\ DataKept
  BY <1>1, SameData DEF SafeInv
<1>3. PICK r \in {Idle, letter} : consumer' = [consumer EXCEPT ![c] = r]
  BY DEF Release, Fails, SendLetter, Dies, letter
<1>4. task.status /= "absent"
  BY DEF SafeInv, NoneEarly, Release, Fails, SendLetter, Dies
<1>5. Tame
  BY DEF Release, Fails, SendLetter, Dies, Tame, Task
<1>6. consumer'[c] = r
  BY <1>3 DEF TypeInv, TypeOK
<1>7. Serves(c)'
  BY <1>0, <1>3, <1>6 DEF Serves
<1>8. r \in Invocation /\ r.generation <= task.generation
  BY <1>0, <1>3 DEF Generations
<1> QED BY <1>2, <1>3, <1>4, <1>5, <1>7, <1>8, LocalStep, TameTask DEF Tame

LEMMA SafeStep == IInv /\ [Next]_vars => SafeInv'
<1> SUFFICES ASSUME TypeInv, SafeInv, [Next]_vars PROVE SafeInv'
  BY DEF IInv
<1>1. CASE UNCHANGED vars
  <2>1. Ordered' /\ DataKept
    BY <1>1, SameData DEF vars, customer, tickets, SafeInv
  <2> QED BY <1>1, <2>1, TameStep DEF vars, Tame
<1>2. ASSUME NEW c \in Consumers, Work(c) \/ Dies(c) PROVE SafeInv'
  BY <1>2, SelectSafe, RewriteSafe, IndexSafe, FinishSafe, StopSafe DEF Work
<1> QED BY <1>1, <1>2, RequestSafe, TicketSafe, FlagsSafe, ClaimSafe DEF Next

LEMMA Inductive == Spec => []IInv
<1>1. Init => IInv
  BY TypeInit, SafeInit DEF IInv
<1>2. IInv /\ [Next]_vars => IInv'
  BY TypeStep, SafeStep DEF IInv
<1> QED BY <1>1, <1>2, PTL DEF Spec

\* A completed search task has left no ticket behind that was there when its
\* refresh was requested, for any number of tickets, edits, invocations and
\* any page size.
THEOREM RefreshComplete == Spec => []CompletedMeansRefreshed
<1>1. IInv => CompletedMeansRefreshed
  BY DEF IInv, SafeInv
<1> QED BY <1>1, Inductive, PTL

\* Nor does the cursor of an unfinished one ever pass a ticket still owed.
THEOREM CursorSound == Spec => []CursorSkipsNothing
<1>1. IInv => CursorSkipsNothing
  BY DEF IInv, SafeInv
<1> QED BY <1>1, Inductive, PTL
=============================================================================
