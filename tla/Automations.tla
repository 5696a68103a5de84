------------------------------ MODULE Automations ------------------------------
(***************************************************************************)
(* Automation rules, tags, and the tags of one ticket.  A pass of          *)
(* applyAutomations runs the enabled rules against a ticket for one event, *)
(* which a repeated mail or an overlapping invocation may hand to it       *)
(* again; administrators change rules and delete tags meanwhile, agents    *)
(* tag the ticket, and the search index is rebuilt by some of them.        *)
(***************************************************************************)
EXTENDS Naturals, Sequences, FiniteSets

CONSTANTS
  FirstPriority, \* of the ticket
  Rules,     \* ids, numbers: they break ties of position
  Places,    \* positions a PATCH may give
  Contents,  \* what a rule may say: [on |-> priority, does |-> actions]
  Events,    \* event keys
  Runners,   \* invocations of applyAutomations
  Taggers,   \* requests of agents that tag or untag the ticket
  Names,     \* names of tags
  MaxTags    \* bound: tags made so often

ASSUME RulesAssumption == Rules \subseteq Nat \ {0}

VARIABLES
  rule,     \* automation_rules
  making,   \* the rule a POST is about to insert, with the position it has chosen
  given,    \* ids of rules given so far
  priority, \* tickets.priority
  tagRow,   \* tags by name: the row's id, 0 without one
  lastTag,  \* ids given so far
  linked,   \* names of the tags of the ticket, by ticket_tags
  indexed,  \* names of tags in the ticket's search row
  run,      \* automation_runs by rule and event: "none", or the actions it lists
  runner,     \* invocations under way
  tagging,  \* requests under way
  did,      \* history: per rule and event, passes that took it on and actions done
  known     \* history: tags whose request was answered, and not taken off since

ruleVars == <<rule, making, given, priority, tagRow, lastTag, linked, indexed, run, runner, tagging, did, known>>
tagVars == <<tagRow, lastTag, linked, indexed, tagging, known>>
runVars == <<rule, making, given, priority, run, runner, did>>

NoRule == [place |-> 0, enabled |-> FALSE, says |-> [on |-> "none", does |-> <<>>]]
NotRun == [there |-> FALSE, applied |-> {}]
NoRunner == [at |-> "idle", event |-> "none", priority |-> "none", todo |-> <<>>, rest |-> <<>>,
           tag |-> 0, applied |-> {}]
NoTagging == [at |-> "idle", name |-> "none", tag |-> 0]

RulesInit ==
  /\ rule = [r \in Rules |-> NoRule] /\ making = [id |-> 0, place |-> 0]
  /\ given = {} /\ priority = FirstPriority
  /\ tagRow = [n \in Names |-> 0] /\ lastTag = 0 /\ linked = {} /\ indexed = {}
  /\ run = [x \in Rules \X Events |-> NotRun]
  /\ runner = [c \in Runners |-> NoRunner]
  /\ tagging = [g \in Taggers |-> NoTagging]
  /\ did = [x \in Rules \X Events |-> [taken |-> 0, done |-> {}]]
  /\ known = {}

RulesMade == {r \in Rules : rule[r] /= NoRule}
Highest == IF RulesMade = {} THEN 0 ELSE CHOOSE p \in {rule[r].place : r \in RulesMade} :
                                        \A r \in RulesMade : rule[r].place <= p

(***************************************************************************)
(* Rules.                                                                  *)
(***************************************************************************)
\* POST: the highest position, and one above it; ids are never used again.
ReadPlace(r) ==
  /\ making.id = 0 /\ r \notin given
  /\ making' = [id |-> r, place |-> Highest + 1] /\ given' = given \cup {r}
  /\ UNCHANGED <<rule, priority, run, runner, did, tagVars>>

InsertRule(says) ==
  /\ making.id /= 0
  /\ rule' = [rule EXCEPT ![making.id] = [place |-> making.place, enabled |-> TRUE, says |-> says]]
  /\ making' = [id |-> 0, place |-> 0]
  /\ UNCHANGED <<given, priority, run, runner, did, tagVars>>

PatchRule(r, enabled, place) ==
  /\ r \in RulesMade
  /\ rule' = [rule EXCEPT ![r].enabled = enabled, ![r].place = place]
  /\ UNCHANGED <<making, given, priority, run, runner, did, tagVars>>

\* The runs go with their rule.
DeleteRule(r) ==
  /\ r \in RulesMade
  /\ rule' = [rule EXCEPT ![r] = NoRule]
  /\ run' = [x \in DOMAIN run |-> IF x[1] = r THEN NotRun ELSE run[x]]
  /\ UNCHANGED <<making, given, priority, runner, did, tagVars>>

(***************************************************************************)
(* applyAutomations.                                                       *)
(***************************************************************************)
Earlier(r, s) == rule[r].place < rule[s].place \/ (rule[r].place = rule[s].place /\ r < s)

\* The enabled rules with what they say, by position and id.
Ordered ==
  LET on == {r \in RulesMade : rule[r].enabled}
      Nth(i) == CHOOSE r \in on : Cardinality({s \in on : Earlier(s, r)}) = i - 1
  IN  [i \in 1 .. Cardinality(on) |-> [id |-> Nth(i), says |-> rule[Nth(i)].says]]

ReadTicket(c, e) ==
  /\ runner[c].at = "idle"
  /\ runner' = [runner EXCEPT ![c] = [NoRunner EXCEPT !.at = "rules", !.event = e, !.priority = priority]]
  /\ UNCHANGED <<rule, making, given, priority, run, did, tagVars>>

ReadRules(c) ==
  /\ runner[c].at = "rules"
  /\ runner' = [runner EXCEPT ![c].at = "next", ![c].todo = Ordered]
  /\ UNCHANGED <<rule, making, given, priority, run, did, tagVars>>

Current(c) == <<Head(runner[c].todo).id, runner[c].event>>

\* A rule that does not match the copy is passed over; the pass ends with the last.
NextRule(c) ==
  /\ runner[c].at = "next"
  /\ \/ runner[c].todo = <<>> /\ runner' = [runner EXCEPT ![c] = NoRunner]
     \/ /\ runner[c].todo /= <<>>
        /\ runner' = IF Head(runner[c].todo).says.on = runner[c].priority
                   THEN [runner EXCEPT ![c].at = "claim"] ELSE [runner EXCEPT ![c].todo = Tail(@)]
  /\ UNCHANGED <<rule, making, given, priority, run, did, tagVars>>

\* The run row decides who takes the rule on for the event.  Of a rule deleted
\* meanwhile the row cannot be inserted, and the pass fails.
ClaimRun(c) ==
  /\ runner[c].at = "claim"
  /\ CASE Current(c)[1] \notin RulesMade ->
            runner' = [runner EXCEPT ![c] = NoRunner] /\ UNCHANGED <<run, did>>
       [] Current(c)[1] \in RulesMade /\ run[Current(c)].there ->
            runner' = [runner EXCEPT ![c].at = "next", ![c].todo = Tail(@)] /\ UNCHANGED <<run, did>>
       [] OTHER ->
            /\ run' = [run EXCEPT ![Current(c)].there = TRUE]
            /\ did' = [did EXCEPT ![Current(c)].taken = @ + 1]
            /\ runner' = [runner EXCEPT ![c].at = "act", ![c].rest = Head(runner[c].todo).says.does,
                                    ![c].applied = {}]
  /\ UNCHANGED <<rule, making, given, priority, tagVars>>

Acting(c, type) == runner[c].at = "act" /\ runner[c].rest /= <<>> /\ Head(runner[c].rest).type = type
Action(c) == Head(runner[c].rest)

\* set_priority, and alike set_status and assign_user: decided from the copy.
SetPriority(c) ==
  /\ Acting(c, "priority")
  /\ LET p == Action(c).value
     IN  IF runner[c].priority = p
         THEN /\ runner' = [runner EXCEPT ![c].rest = Tail(@)]
              /\ UNCHANGED <<priority, did>>
         ELSE /\ priority' = p
              /\ did' = [did EXCEPT ![Current(c)].done = @ \cup {Action(c)}]
              /\ runner' = [runner EXCEPT ![c].rest = Tail(@), ![c].priority = p,
                                      ![c].applied = @ \cup {Action(c)}]
  /\ UNCHANGED <<rule, making, given, run, tagVars>>

\* add_tag: the tag is made unless there is one of the name, looked up, and linked.
MakeTag(c) ==
  /\ Acting(c, "tag")
  /\ LET n == Action(c).value
     IN  \/ tagRow[n] /= 0 /\ UNCHANGED <<tagRow, lastTag>>
         \/ /\ tagRow[n] = 0 /\ lastTag < MaxTags
            /\ tagRow' = [tagRow EXCEPT ![n] = lastTag + 1] /\ lastTag' = lastTag + 1
  /\ runner' = [runner EXCEPT ![c].at = "find"]
  /\ UNCHANGED <<rule, making, given, priority, run, did, linked, indexed, tagging, known>>

FindTag(c) ==
  /\ runner[c].at = "find"
  /\ LET id == tagRow[Action(c).value]
     IN  runner' = IF id = 0 THEN [runner EXCEPT ![c].at = "act", ![c].rest = Tail(@)]
                 ELSE [runner EXCEPT ![c].at = "link", ![c].tag = id]
  /\ UNCHANGED <<rule, making, given, priority, run, did, tagVars>>

\* The search row is left as it is.  Of a tag deleted meanwhile the link fails.
LinkTag(c) ==
  /\ runner[c].at = "link"
  /\ LET n == Action(c).value
         next == [runner EXCEPT ![c].at = "act", ![c].tag = 0, ![c].rest = Tail(@)]
     IN  IF tagRow[n] = runner[c].tag
         THEN /\ linked' = linked \cup {n}
              /\ did' = [did EXCEPT ![Current(c)].done = @ \cup {Action(c)}]
              /\ runner' = [next EXCEPT ![c].applied = @ \cup {Action(c)}]
         ELSE runner' = next /\ UNCHANGED <<linked, did>>
  /\ UNCHANGED <<rule, making, given, priority, run, tagRow, lastTag, indexed, tagging, known>>

\* A broken action does not stop the others.
ActionThrows(c) ==
  /\ runner[c].at \in {"act", "find", "link"} /\ runner[c].rest /= <<>>
  /\ runner' = [runner EXCEPT ![c].at = "act", ![c].tag = 0, ![c].rest = Tail(@)]
  /\ UNCHANGED <<rule, making, given, priority, run, did, tagVars>>

\* The list of what was applied; without the row, deleted with its rule, nothing.
WriteApplied(c) ==
  /\ runner[c].at = "act" /\ runner[c].rest = <<>>
  /\ run' = IF run[Current(c)].there THEN [run EXCEPT ![Current(c)].applied = runner[c].applied] ELSE run
  /\ runner' = [runner EXCEPT ![c].at = "next", ![c].todo = Tail(@), ![c].applied = {}]
  /\ UNCHANGED <<rule, making, given, priority, did, tagVars>>

RunnerDies(c) ==
  /\ runner[c].at /= "idle"
  /\ runner' = [runner EXCEPT ![c] = NoRunner]
  /\ UNCHANGED <<rule, making, given, priority, run, did, tagVars>>

(***************************************************************************)
(* Tags.                                                                   *)
(***************************************************************************)
\* POST /tags; a second tag of the name is refused by the unique index.
CreateTag(n) ==
  /\ tagRow[n] = 0 /\ lastTag < MaxTags
  /\ tagRow' = [tagRow EXCEPT ![n] = lastTag + 1] /\ lastTag' = lastTag + 1
  /\ UNCHANGED <<linked, indexed, tagging, known, runVars>>

\* DELETE /tags/:id takes the links along; no search row is rebuilt.
DeleteTag(n) ==
  /\ tagRow[n] /= 0
  /\ tagRow' = [tagRow EXCEPT ![n] = 0]
  /\ linked' = linked \ {n} /\ known' = known \ {n}
  /\ UNCHANGED <<lastTag, indexed, tagging, runVars>>

Tags(g, what) == tagging' = [tagging EXCEPT ![g] = what]

\* POST /tickets/:id/tags: the tag, the link, the search row, the answer.
ReadTag(g, n) ==
  /\ tagging[g].at = "idle" /\ tagRow[n] /= 0
  /\ Tags(g, [at |-> "link", name |-> n, tag |-> tagRow[n]])
  /\ UNCHANGED <<tagRow, lastTag, linked, indexed, known, runVars>>

AddLink(g) ==
  LET n == tagging[g].name
  IN  /\ tagging[g].at = "link"
      /\ IF tagRow[n] = tagging[g].tag
         THEN linked' = linked \cup {n} /\ Tags(g, [tagging[g] EXCEPT !.at = "refresh"])
         ELSE UNCHANGED linked /\ Tags(g, NoTagging)
      /\ UNCHANGED <<tagRow, lastTag, indexed, known, runVars>>

\* DELETE /tickets/:id/tags/:tagId.
RemoveLink(g, n) ==
  /\ tagging[g].at = "idle" /\ tagRow[n] /= 0
  /\ linked' = linked \ {n} /\ known' = known \ {n}
  /\ Tags(g, [at |-> "refresh", name |-> n, tag |-> 0])
  /\ UNCHANGED <<tagRow, lastTag, indexed, runVars>>

MRefreshSearch(g) ==
  /\ tagging[g].at = "refresh"
  /\ known' = IF tagging[g].tag /= 0 THEN known \cup {tagging[g].name} ELSE known
  /\ Tags(g, NoTagging)
  /\ UNCHANGED <<tagRow, lastTag, linked, indexed, runVars>>

\* refreshTicketSearch: the row is made anew from the tables in one batch.
RefreshSearch(g) ==
  LET n == tagging[g].name
  IN  /\ tagging[g].at = "refresh"
      /\ indexed' = linked
      /\ known' = IF tagging[g].tag /= 0 /\ n \in linked THEN known \cup {n} ELSE known
      /\ Tags(g, NoTagging)
      /\ UNCHANGED <<tagRow, lastTag, linked, runVars>>

TaggerDies(g) ==
  /\ tagging[g].at /= "idle"
  /\ Tags(g, NoTagging)
  /\ UNCHANGED <<tagRow, lastTag, linked, indexed, known, runVars>>

RulesNext ==
  \/ \E r \in Rules : \/ ReadPlace(r) \/ DeleteRule(r)
                      \/ \E enabled \in BOOLEAN, place \in Places : PatchRule(r, enabled, place)
  \/ \E says \in Contents : InsertRule(says)
  \/ \E c \in Runners :
       \/ \E e \in Events : ReadTicket(c, e)
       \/ ReadRules(c) \/ NextRule(c) \/ ClaimRun(c) \/ SetPriority(c) \/ MakeTag(c) \/ FindTag(c)
       \/ LinkTag(c) \/ ActionThrows(c) \/ WriteApplied(c) \/ RunnerDies(c)
  \/ \E n \in Names : CreateTag(n) \/ DeleteTag(n)
  \/ \E g \in Taggers : AddLink(g) \/ RefreshSearch(g) \/ TaggerDies(g)
                        \/ \E n \in Names : ReadTag(g, n) \/ RemoveLink(g, n)

RulesSpec == RulesInit /\ [][RulesNext]_ruleVars

(***************************************************************************)
(* Properties.                                                             *)
(***************************************************************************)
\* "A replayed queue message or overlapping request applies each rule at most
\* once per event", also when rules are moved, disabled and deleted meanwhile.
RuleOnce == \A x \in DOMAIN did : did[x].taken <= 1

\* What the list of runs says was applied did take effect: no action is listed
\* that an administrator's deletion or an error made impossible.
RunsHonest == \A x \in DOMAIN run : run[x].applied \subseteq did[x].done

\* A tag an agent was told is on the ticket is found by search until it is taken
\* off, whatever automations and other agents do to the search row meanwhile.
TagsFound == known \subseteq indexed

\* The three together, as the runs check them.
RulesSound == RuleOnce /\ RunsHonest /\ TagsFound

\* What a reader of the search index expects of the tags of automations as well.
\* It does not hold, and no run checks it: add_tag rebuilds no search row.
EveryTagFound == (\A c \in Runners : runner[c] = NoRunner) => linked \subseteq indexed
=============================================================================
