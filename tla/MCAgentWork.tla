------------------------------ MODULE MCAgentWork -----------------------------
(* What agents and customers do with tickets: the row of one ticket, drafts, *)
(* lists and conversations read page by page, rules and tags, working hours, *)
(* and the accounts behind it all.  The parts share no state, so a behavior  *)
(* runs one of them; the others stand at one initial state.                  *)
EXTENDS TicketDesk, Drafts, QueuePaging, BusinessHours, Accounts,
        Conversation, Automations, TLC

CONSTANTS
  Parts, normal, urgent, p1, p2, t1, t2

\* No policy for normal tickets, one minute for urgent ones.
DeskTarget == normal :> None @@ urgent :> 1
DeskAsks == {[NoChange EXCEPT !.status = s] : s \in {"resolved", "closed"}}
              \cup {[NoChange EXCEPT !.priority = p] : p \in {normal, urgent}}

\* One tab moves between two tickets, the other stays at one of them.
TabVisits == p1 :> {t1, t2} @@ p2 :> {t1}

\* No change of the clock, changes forward and back at every minute of a day
\* and between opening hours, and one that leads over midnight.
Unchanged == [before |-> 0, after |-> 0, at |-> 0]
SampleZones ==
  {Unchanged, [before |-> -4, after |-> -2, at |-> 16]}
    \cup [before : {-3}, after : {-2, -4}, at : 12 .. 16]
    \cup [before : {2}, after : {1, 3}, at : {6, 8}]

\* Always open, open on some days with holidays, with a day that never opens,
\* and one minute a week.
AlwaysOpen == [days |-> <<>>, holidays |-> {}]
SampleHours ==
  {AlwaysOpen,
   [days |-> 0 :> <<2, 5>> @@ 1 :> <<3, 5>>, holidays |-> {1, 2}],
   [days |-> 0 :> <<2, 4>> @@ 1 :> <<5, 3>> @@ 2 :> <<4, 5>>, holidays |-> {3}],
   [days |-> 2 :> <<3, 4>>, holidays |-> {}]}

\* A rule for normal tickets that does both, and one for urgent tickets.
SampleRules ==
  {[on |-> normal, does |-> <<[type |-> "priority", value |-> urgent], [type |-> "tag", value |-> "vip"]>>],
   [on |-> urgent, does |-> <<[type |-> "tag", value |-> "vip"]>>]}

VARIABLE part

mcVars == <<deskVars, draftVars, pagingVars, policyVars, accountVars,
           threadVars, ruleVars, part>>

MCInit ==
  /\ part \in Parts
  /\ DeskInit /\ (part /= "desk" => desk = Opened("customer", normal))
  /\ DraftsInit /\ (part /= "drafts" => \A p \in Tabs : tab[p].open = t1)
  /\ PagingInit /\ (part /= "paging" => stamp = [e \in Entries |-> 1] /\ listed = {})
  /\ PolicyInit /\ (part /= "hours" =>
       zone = Unchanged /\ hours = AlwaysOpen /\ start = 0 /\ amount = 0)
  /\ AccountInit /\ (part /= "accounts" => email[Founder] = CHOOSE e \in Emails : TRUE)
  /\ ThreadInit /\ (part /= "thread" => note[1].at = "told")
  /\ RulesInit

MCNext ==
  \/ /\ part = "desk" /\ DeskNext
     /\ UNCHANGED <<draftVars, pagingVars, policyVars, accountVars, threadVars, ruleVars, part>>
  \/ /\ part = "drafts" /\ DraftsNext
     /\ UNCHANGED <<deskVars, pagingVars, policyVars, accountVars, threadVars, ruleVars, part>>
  \/ /\ part = "paging" /\ PagingNext
     /\ UNCHANGED <<deskVars, draftVars, policyVars, accountVars, threadVars, ruleVars, part>>
  \/ /\ part = "hours" /\ ComputeDue
     /\ UNCHANGED <<deskVars, draftVars, pagingVars, accountVars, threadVars, ruleVars, part>>
  \/ /\ part = "accounts" /\ AccountNext
     /\ UNCHANGED <<deskVars, draftVars, pagingVars, policyVars, threadVars, ruleVars, part>>
  \/ /\ part = "thread" /\ ThreadNext
     /\ UNCHANGED <<deskVars, draftVars, pagingVars, policyVars, accountVars, ruleVars, part>>
  \/ /\ part = "rules" /\ RulesNext
     /\ UNCHANGED <<deskVars, draftVars, pagingVars, policyVars, accountVars, threadVars, part>>

MCSpec == MCInit /\ [][MCNext]_mcVars

\* Rows, requests, tabs and walks have their types, a ticket that is resolved or
\* closed has the time it was (EndHasTime).
AgentWorkTypeOK ==
  /\ part = "desk" => DeskTypeOK /\ EndHasTime
  /\ part = "drafts" => DraftsTypeOK
  /\ part = "paging" => PagingTypeOK
  /\ part = "accounts" => AccountTypeOK

\* Lists and conversations that are read page by page while they change skip
\* nothing: NothingSkipped of QueuePaging and NoHoleInThread of Conversation.
WalksComplete == NothingSkipped /\ NoHoleInThread
=============================================================================
