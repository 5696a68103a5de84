--------------------------- MODULE BusinessHours ---------------------------
(* The arithmetic of sla/policy.ts: adding minutes of working time to an     *)
(* instant and counting them between two.  Instants are integers; a zone     *)
(* changes its offset once; a day is scaled down to DayLength minutes, the   *)
(* 365 days that are scanned at most to MaxDaysScanned.  Each behaviour      *)
(* takes one sample and computes it, and the invariants compare the result   *)
(* with a minute-by-minute definition.                                       *)
EXTENDS Integers, FiniteSets

CONSTANTS
    Zones,          \* [before, after, at]: the offset, and when it changes
    Schedules,      \* [days, holidays]: days maps some weekdays to <<start, end>>
    Starts, Amounts,
    DayLength, WeekLength, MaxDaysScanned

\* A zone's offsets are minutes, and a day's times lie within the day (HH:MM).
ASSUME PolicyAssumption ==
    /\ DayLength \in Nat \ {0} /\ WeekLength \in Nat \ {0} /\ MaxDaysScanned \in Nat
    /\ Zones \subseteq [before : Int, after : Int, at : Int]
    /\ Starts \subseteq Int /\ Amounts \subseteq Int
    /\ \A s \in Schedules : \A d \in DOMAIN s.days :
          s.days[d] \in (0..(DayLength - 1)) \X (0..(DayLength - 1))

VARIABLES zone, hours, start, amount, due

policyVars == <<zone, hours, start, amount, due>>
NotYet == -1000
NonWorking == <<0, 0>>
---------------------------------------------------------------------------
OffsetAt(ms) == IF ms < zone.at THEN zone.before ELSE zone.after
ToLocal(ms) == ms + OffsetAt(ms)

MOnePass(local) == local - OffsetAt(local)

\* two passes: the first guess may be on the wrong side of the change
FromLocal(local) == LET guess == local - OffsetAt(local)
                    IN local - OffsetAt(guess)

DateOf(local) == local \div DayLength
MinuteOf(local) == local % DayLength

\* a day whose end is not after its start is non-working
WindowFor(local) ==
    LET weekday == DateOf(local) % WeekLength
    IN IF DateOf(local) \in hours.holidays \/ weekday \notin DOMAIN hours.days
          \/ hours.days[weekday][2] <= hours.days[weekday][1]
       THEN NonWorking
       ELSE hours.days[weekday]

NextLocalMidnight(local) == FromLocal((DateOf(local) + 1) * DayLength)

LatestRange(a, b) == IF a < b THEN b ELSE a
Earliest(a, b) == IF a < b THEN a ELSE b

AddFrom[scanned \in 0..MaxDaysScanned] == [cursor \in Int |-> [remaining \in Int |->
    LET local == ToLocal(cursor)
        window == WindowFor(local)
        first == LatestRange(MinuteOf(local), window[1])
        later == AddFrom[scanned + 1][NextLocalMidnight(local)]
    IN IF scanned = MaxDaysScanned
       THEN start + amount          \* every scanned day was non-working
       ELSE IF window = NonWorking \/ MinuteOf(local) >= window[2]
       THEN later[remaining]
       ELSE IF window[2] - first >= remaining
       THEN FromLocal(DateOf(local) * DayLength + first + remaining)
       ELSE later[remaining - (window[2] - first)]]]

AddBusinessMinutes ==
    IF DOMAIN hours.days = {} THEN start + amount
    ELSE IF amount <= 0 THEN start
    ELSE AddFrom[0][start][amount]

CountFrom[scanned \in 0..MaxDaysScanned] == [cursor \in Int |-> [to \in Int |->
    LET local == ToLocal(cursor)
        window == WindowFor(local)
        date == DateOf(local) * DayLength
        first == LatestRange(MinuteOf(local), window[1])
        opens == FromLocal(date + first)
        until == Earliest(FromLocal(date + window[2]), to)
        later == CountFrom[scanned + 1][NextLocalMidnight(local)][to]
    IN IF scanned = MaxDaysScanned \/ cursor >= to THEN 0
       ELSE IF window # NonWorking /\ first < window[2] /\ until > opens
       THEN until - opens + later
       ELSE later]]

BusinessMinutesBetween(from, to) ==
    IF to <= from THEN 0
    ELSE IF DOMAIN hours.days = {} THEN to - from
    ELSE Earliest(CountFrom[0][from][to], DayLength * MaxDaysScanned)
---------------------------------------------------------------------------
PolicyInit ==
    /\ zone \in Zones /\ hours \in Schedules
    /\ start \in Starts /\ amount \in Amounts
    /\ due = NotYet

ComputeDue == /\ due = NotYet
              /\ due' = AddBusinessMinutes
              /\ UNCHANGED <<zone, hours, start, amount>>

PolicySpec == PolicyInit /\ [][ComputeDue]_policyVars
---------------------------------------------------------------------------
(* What working time is, minute by minute.                                   *)

Works(ms) == LET window == WindowFor(ToLocal(ms))
             IN \/ DOMAIN hours.days = {}
                \/ window[1] <= MinuteOf(ToLocal(ms)) /\ MinuteOf(ToLocal(ms)) < window[2]
Worked(from, to) == Cardinality({ms \in from..(to - 1) : Works(ms)})

\* local times the change of offset skips or repeats
Skipped == (zone.at + zone.before)..(zone.at + zone.after - 1)
Repeated == (zone.at + zone.after)..(zone.at + zone.before - 1)

\* the clocks change outside working hours and away from midnight, and the
\* days looked at include enough working ones
Calm ==
    /\ \A local \in Skipped \cup Repeated :
          /\ MinuteOf(local) # 0
          /\ WindowFor(local) = NonWorking \/ MinuteOf(local) < WindowFor(local)[1]
                                           \/ MinuteOf(local) > WindowFor(local)[2]
    /\ Worked(start, start + (MaxDaysScanned - 2) * DayLength) >= amount

(* The due date lies behind exactly the promised working minutes and ends a  *)
(* working minute, whatever nights, closed days, holidays and changes of the *)
(* clock outside working hours lie in between.                               *)
DueIsExact == (due # NotYet /\ Calm /\ amount > 0) =>
                  Worked(start, due) = amount /\ Works(due - 1)

(* Counting agrees with the definition for every later instant, and so with  *)
(* the due date: the report says the minutes the policy promised.            *)
CountIsExact == (due # NotYet /\ Calm) =>
    \A to \in start..(start + (MaxDaysScanned - 2) * DayLength) :
        BusinessMinutesBetween(start, to) = Worked(start, to)

(* policy.ts:90-91: a wall-clock time that does not exist (the skipped hour  *)
(* in spring) resolves forward, which is the behaviour a due date wants. It  *)
(* does not hold, and no run checks it: west of Greenwich it resolves back.  *)
SkippedGoesForward == \A local \in Skipped : ToLocal(FromLocal(local)) >= local

(* Due dates and elapsed working time, for calm changes of the clock.        *)
PolicyExact == DueIsExact /\ CountIsExact
=============================================================================
