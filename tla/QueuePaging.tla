---------------------------- MODULE QueuePaging ----------------------------
(* Walking a list page by page while it changes: the ticket queues           *)
(* (tickets/routes.ts and web/hooks/use-tickets.ts), customers, articles and *)
(* the older messages of a conversation all order by (time, id) descending,  *)
(* take one row more than a page and continue below the last row shown.      *)
(* The pages are merged by the client, which keeps the first copy of a row.  *)
EXTENDS Naturals, FiniteSets

CONSTANTS
    Entries,    \* a set of numbers; the id breaks ties of time
    PageLimit,
    LastTick    \* updates carry times up to this one

ASSUME PagingAssumption ==
    /\ Entries \subseteq Nat \ {0} /\ IsFiniteSet(Entries)
    /\ PageLimit \in Nat \ {0} /\ LastTick \in Nat \ {0, 1}

VARIABLES
    stamp,      \* updated_at of an entry, 0 once it is deleted
    listed,     \* entries that match the filter of the queue
    tick,       \* the clock
    walk,       \* "idle", "walking" or "ended"
    cursor,     \* <<time, id>> of the last row of the last page
    shown,      \* entries the client has merged
    steady      \* history: entries unchanged and listed since the walk began

pagingVars == <<stamp, listed, tick, walk, cursor, shown, steady>>
Top == <<LastTick + 1, 0>>

PagingInit ==
    /\ stamp \in [Entries -> 1..2] /\ listed \in SUBSET Entries
    /\ tick = 2 /\ walk = "idle" /\ cursor = Top
    /\ shown = {} /\ steady = {}
---------------------------------------------------------------------------
\* lt(time) or the same time and a smaller id
Below(e, c) == stamp[e] < c[1] \/ (stamp[e] = c[1] /\ e < c[2])

Newer(e, f) == stamp[e] > stamp[f] \/ (stamp[e] = stamp[f] /\ e > f)

Rest == {e \in Entries : stamp[e] # 0 /\ e \in listed /\ Below(e, cursor)}
PageOf(rest) == {e \in rest : Cardinality({f \in rest : Newer(f, e)}) < PageLimit}

StartWalk ==
    /\ walk = "idle"
    /\ walk' = "walking" /\ steady' = {e \in listed : stamp[e] # 0}
    /\ UNCHANGED <<stamp, listed, tick, cursor, shown>>

\* the row beyond the page says whether there is another one
HasMore == Cardinality(Rest) > PageLimit

FetchPage ==
    LET page == PageOf(Rest)
        last == CHOOSE e \in page : \A f \in page : ~Newer(e, f)
    IN /\ walk = "walking"
       /\ shown' = shown \cup page
       /\ IF HasMore
          THEN cursor' = <<stamp[last], last>> /\ UNCHANGED walk
          ELSE walk' = "ended" /\ UNCHANGED cursor
       /\ UNCHANGED <<stamp, listed, tick, steady>>

\* the poll, or a write of this client, starts the pages again
Refetch == /\ walk # "idle"
           /\ walk' = "idle" /\ cursor' = Top /\ shown' = {} /\ steady' = {}
           /\ UNCHANGED <<stamp, listed, tick>>

ClockTicks == /\ tick < LastTick /\ tick' = tick + 1
              /\ UNCHANGED <<stamp, listed, walk, cursor, shown, steady>>

\* an update stamps the entry, and may move it into or out of the queue
Update(e) ==
    /\ stamp[e] # 0
    /\ stamp' = [stamp EXCEPT ![e] = tick]
    /\ listed' \in {listed \cup {e}, listed \ {e}}
    /\ steady' = steady \ {e}
    /\ UNCHANGED <<tick, walk, cursor, shown>>

\* a snooze that ends by itself puts the ticket back at its old place
Reappear(e) == /\ stamp[e] # 0 /\ e \notin listed
               /\ listed' = listed \cup {e}
               /\ UNCHANGED <<stamp, tick, walk, cursor, shown, steady>>

Erase(e) == /\ stamp[e] # 0
            /\ stamp' = [stamp EXCEPT ![e] = 0]
            /\ steady' = steady \ {e}
            /\ UNCHANGED <<listed, tick, walk, cursor, shown>>
---------------------------------------------------------------------------
PagingNext ==
    \/ StartWalk \/ FetchPage \/ Refetch \/ ClockTicks
    \/ \E e \in Entries : Update(e) \/ Reappear(e) \/ Erase(e)

PagingSpec == PagingInit /\ [][PagingNext]_pagingVars
---------------------------------------------------------------------------
(* Rows and cursors have their types.                                        *)
PagingTypeOK ==
    /\ stamp \in [Entries -> 0..tick] /\ tick \in 2..LastTick
    /\ listed \subseteq Entries /\ shown \subseteq Entries /\ steady \subseteq Entries
    /\ (cursor = Top \/ cursor[2] \in Entries)

(* Whatever is updated, deleted or reappears between two pages, and however  *)
(* many rows share a time, every ticket that stayed as it was is on one of   *)
(* the pages above the cursor, and on some page once the walk has ended.     *)
NothingSkipped ==
    /\ walk = "ended" => steady \subseteq shown
    /\ walk = "walking" => \A e \in steady : e \in shown \/ Below(e, cursor)
=============================================================================
