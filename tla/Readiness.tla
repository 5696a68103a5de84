----------------------------- MODULE Readiness -----------------------------
(* The deployment checklist (operations/readiness.ts and the route of        *)
(* operations/routes.ts): one evaluation reads the inboxes, the schema and   *)
(* the DNS records of the mail domain one after another, while the owner     *)
(* repairs or breaks them and the resolver comes and goes; its report is     *)
(* cached for the workspace and served until it is too old.                  *)
CONSTANTS
    Checks,      \* requests for the report
    Dns,        \* what can be missing in the DNS of the mail domain
    NoReport

Faults == {"no_inbox", "no_tables"} \cup Dns    \* a required check fails on each

VARIABLES
    faults,     \* what is wrong with the deployment now
    check,       \* a request, the verdicts it has collected, and what it could see
    cache       \* the settings row, and so what a page can show

readyVars == <<faults, check, cache>>
Verdicts == {"ready", "failed", "unknown"}
Idle == [at |-> "idle"]
\* blockingChecks of a report; and, as history, those of them that were fine
\* from the beginning to the end of the evaluation
Reports == [blocking : SUBSET Faults, unseen : SUBSET Faults]

ReadyInit ==
    /\ faults \in SUBSET Faults
    /\ check = [c \in Checks |-> Idle]
    /\ cache = NoReport
---------------------------------------------------------------------------
\* the owner edits records, inboxes and migrations; a running evaluation may
\* have seen every fault that was there at some moment of it
Change(f) ==
    /\ faults' = IF f \in faults THEN faults \ {f} ELSE faults \cup {f}
    /\ check' = [c \in Checks |-> IF check[c].at \in {"idle", "write"} THEN check[c]
                                ELSE [check[c] EXCEPT !.present = @ \cup {f}]]
    /\ UNCHANGED cache

\* readReadinessCache takes no row older than its ten minutes
CacheExpires == /\ cache # NoReport /\ cache' = NoReport
                /\ UNCHANGED <<faults, check>>

\* GET /readiness; Re-check asks for a fresh report and skips the cache
Ask(c, refresh) ==
    /\ check[c].at = "idle" /\ (refresh \/ cache = NoReport)
    /\ check' = [check EXCEPT ![c] =
         [at |-> "inboxes", verdict |-> <<>>, present |-> faults]]
    /\ UNCHANGED <<faults, cache>>

Verdict(f) == IF f \in faults THEN "failed" ELSE "ready"
Record(c, f, v) == [g \in DOMAIN check[c].verdict \cup {f} |->
                       IF g = f THEN v ELSE check[c].verdict[g]]

\* the inboxes are counted for the configuration checks
ReadInboxes(c) ==
    /\ check[c].at = "inboxes"
    /\ check' = [check EXCEPT ![c].at = "schema",
         ![c].verdict = [f \in {"no_inbox"} |-> Verdict(f)]]
    /\ UNCHANGED <<faults, cache>>

\* a D1 that does not answer is an unknown schema
ReadSchema(c) ==
    /\ check[c].at = "schema"
    /\ \E v \in {"unknown", Verdict("no_tables")} :
         check' = [check EXCEPT ![c].at = "dns", ![c].verdict = Record(c, "no_tables", v)]
    /\ UNCHANGED <<faults, cache>>

\* a resolver that fails or times out gives no answer
Resolver(f) == {"unreachable", IF f \in faults THEN "none" ELSE "found"}

MDnsVerdict(answer) == IF answer = "found" THEN "ready" ELSE "failed"

DnsVerdict(answer) ==
    CASE answer = "unreachable" -> "unknown"
      [] answer = "none" -> "failed"
      [] answer = "found" -> "ready"

\* the records of a domain are asked for in parallel
ResolveRecord(c, f) ==
    /\ check[c].at = "dns" /\ f \notin DOMAIN check[c].verdict
    /\ \E answer \in Resolver(f) :
         check' = [check EXCEPT ![c].verdict = Record(c, f, DnsVerdict(answer))]
    /\ UNCHANGED <<faults, cache>>

\* the report is complete when the records of the domain have answered
Evaluated(c) ==
    /\ check[c].at = "dns" /\ Dns \subseteq DOMAIN check[c].verdict
    /\ LET blocking == {f \in Faults : check[c].verdict[f] = "failed"}
       IN check' = [check EXCEPT ![c] =
             [at |-> "write", report |-> [blocking |-> blocking, unseen |-> blocking \ check[c].present]]]
    /\ UNCHANGED <<faults, cache>>

\* the row is written, over that of a later evaluation too, and answered
WriteCache(c) ==
    /\ check[c].at = "write"
    /\ cache' = check[c].report
    /\ check' = [check EXCEPT ![c] = Idle]
    /\ UNCHANGED faults

\* the database fails in a step that does not catch it
Throws(c) == /\ check[c].at \in {"inboxes", "schema", "write"}
             /\ check' = [check EXCEPT ![c] = Idle]
             /\ UNCHANGED <<faults, cache>>
---------------------------------------------------------------------------
ReadyNext ==
    \/ CacheExpires
    \/ \E f \in Faults : Change(f)
    \/ \E c \in Checks :
          \/ \E refresh \in BOOLEAN : Ask(c, refresh)
          \/ ReadInboxes(c) \/ ReadSchema(c) \/ Evaluated(c) \/ WriteCache(c) \/ Throws(c)
          \/ \E f \in Dns : ResolveRecord(c, f)

ReadySpec == ReadyInit /\ [][ReadyNext]_readyVars
---------------------------------------------------------------------------
(* Reports have their type, and so have the checks.                          *)
ReadyTypeOK ==
    /\ faults \subseteq Faults /\ cache \in Reports \cup {NoReport}
    /\ \A c \in Checks :
          /\ check[c].at \in {"idle", "inboxes", "schema", "dns", "write"}
          /\ check[c].at = "write" => check[c].report \in Reports
          /\ check[c].at \in {"schema", "dns"} => \A f \in DOMAIN check[c].verdict :
                                                  check[c].verdict[f] \in Verdicts

(* Every required check a report shows as not working did fail at some       *)
(* moment of the evaluation behind the report: an unreachable resolver or    *)
(* database, a repair halfway, or two admins checking at once never accuse   *)
(* a record that was fine throughout.                                        *)
AccusedWhenTrue == cache # NoReport => cache.unseen = {}
=============================================================================
