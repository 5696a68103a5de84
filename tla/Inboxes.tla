------------------------------ MODULE Inboxes ------------------------------
(* Which inbox a recipient address belongs to (resolveInbox of               *)
(* mail/queue.ts), while admins add, disable and enable inboxes              *)
(* (organizations/routes.ts) and workspaces sign up with a support address.  *)
(* A spelling stands for the stored case of an address, its mailbox for the  *)
(* address in lower case.                                                    *)
EXTENDS Naturals, FiniteSets

CONSTANTS
    Spellings,  \* email addresses as stored
    Mailbox,    \* the lower-case address of each spelling
    Bare,       \* the mailbox without the plus tag, of each mailbox
    Owners,
    Resolutions,
    NoInbox

ASSUME MailboxAssumption == \A s \in Spellings : Mailbox[s] \in Spellings
ASSUME BareAssumption == \A s \in Spellings : Bare[Mailbox[s]] \in Spellings
InboxRows == [of : Owners, live : BOOLEAN]
ASSUME NoInboxAssumption == NoInbox \notin Spellings \cup Owners \cup InboxRows

VARIABLES
    inbox,      \* one row per stored spelling: its workspace and whether it is live
    support,    \* support_email of a workspace, NoInbox when it has none
    lookup,     \* a call of resolveInbox
    alive      \* history: inboxes for the address of a call, live ever since it began

inboxVars == <<inbox, support, lookup, alive>>

Rows == {s \in Spellings : inbox[s] # NoInbox}
LiveFor(m) == {s \in Rows : Mailbox[s] = m /\ inbox[s].live}
Owner(s) == inbox[s].of
Mailboxes == {Mailbox[s] : s \in Spellings}

\* workspaces older than the inbox table have a support address and no inbox,
\* and rows of the time before addresses were lower-cased keep their spelling
InboxInit ==
    /\ inbox \in [Spellings -> InboxRows \cup {NoInbox}]
    /\ \A s, t \in Spellings : s \in LiveFor(Mailbox[t]) /\ t \in LiveFor(Mailbox[s]) => s = t
    /\ support \in [Owners -> Spellings \cup {NoInbox}]
    /\ lookup = [l \in Resolutions |-> [at |-> "idle"]]
    /\ alive = [l \in Resolutions |-> {}]
---------------------------------------------------------------------------
\* the index on the spelling, and the one on lower(address) of the live rows
Insertable(s) == inbox[s] = NoInbox /\ LiveFor(Mailbox[s]) = {}

\* POST /inboxes stores the address in lower case
AddInbox(w, m) ==
    /\ m \in Mailboxes /\ Insertable(m)
    /\ inbox' = [inbox EXCEPT ![m] = [of |-> w, live |-> TRUE]]
    /\ UNCHANGED <<support, lookup, alive>>

\* a signup with a support address inserts both in one batch
SignUpInbox(w, m) ==
    /\ support[w] = NoInbox /\ \A s \in Rows : Owner(s) # w
    /\ m \in Mailboxes /\ Insertable(m)
    /\ inbox' = [inbox EXCEPT ![m] = [of |-> w, live |-> TRUE]]
    /\ support' = [support EXCEPT ![w] = m]
    /\ UNCHANGED <<lookup, alive>>

\* PATCH /inboxes/:id
Disable(s) ==
    /\ s \in Rows /\ inbox[s].live
    /\ inbox' = [inbox EXCEPT ![s].live = FALSE]
    /\ alive' = [l \in Resolutions |-> alive[l] \ {s}]
    /\ UNCHANGED <<support, lookup>>

\* refused by the index when another live row holds the address
Enable(s) == /\ s \in Rows /\ ~inbox[s].live /\ LiveFor(Mailbox[s]) = {}
             /\ inbox' = [inbox EXCEPT ![s].live = TRUE]
             /\ UNCHANGED <<support, lookup, alive>>
---------------------------------------------------------------------------
Resolve(l, m) ==
    /\ lookup[l].at = "idle" /\ m \in Mailboxes
    /\ lookup' = [lookup EXCEPT ![l] = [at |-> "tagged", to |-> m, claim |-> NoInbox,
                                        answer |-> NoInbox]]
    /\ alive' = [alive EXCEPT ![l] = LiveFor(m) \cup LiveFor(Bare[m])]
    /\ UNCHANGED <<inbox, support>>

Answer(l, s) == lookup' = [lookup EXCEPT ![l].at = "done", ![l].answer = s]

\* the address as delivered, then the bare mailbox
LookTagged(l) ==
    LET found == LiveFor(lookup[l].to)
    IN /\ lookup[l].at = "tagged"
       /\ IF found # {} THEN \E s \in found : Answer(l, s)
          ELSE lookup' = [lookup EXCEPT ![l].at = "bare"]
       /\ UNCHANGED <<inbox, support, alive>>

LookBare(l) ==
    LET found == LiveFor(Bare[lookup[l].to])
    IN /\ lookup[l].at = "bare"
       /\ IF found # {} THEN \E s \in found : Answer(l, s)
          ELSE lookup' = [lookup EXCEPT ![l].at = "claim"]
       /\ UNCHANGED <<inbox, support, alive>>

\* SELECT ... WHERE lower(support_email) = the bare mailbox LIMIT 1
FindClaim(l) ==
    LET claims == {w \in Owners : /\ support[w] # NoInbox
                                      /\ Mailbox[support[w]] = Bare[lookup[l].to]}
    IN /\ lookup[l].at = "claim"
       /\ IF claims = {} THEN Answer(l, NoInbox)
          ELSE \E w \in claims :
                 lookup' = [lookup EXCEPT ![l].at = "insert", ![l].claim = w]
       /\ UNCHANGED <<inbox, support, alive>>

\* INSERT ... ON CONFLICT DO NOTHING RETURNING
Provision(l) ==
    LET m == Bare[lookup[l].to]
    IN /\ lookup[l].at = "insert"
       /\ IF Insertable(m)
          THEN inbox' = [inbox EXCEPT ![m] = [of |-> lookup[l].claim, live |-> TRUE]]
               /\ Answer(l, m)
          ELSE lookup' = [lookup EXCEPT ![l].at = "again"] /\ UNCHANGED inbox
       /\ UNCHANGED <<support, alive>>

MOwnRows(l) == LiveFor(Bare[lookup[l].to])

\* the re-select stays with the claiming workspace
OwnRows(l) == {s \in LiveFor(Bare[lookup[l].to]) : Owner(s) = lookup[l].claim}

LookAgain(l) ==
    /\ lookup[l].at = "again"
    /\ IF OwnRows(l) # {} THEN \E s \in OwnRows(l) : Answer(l, s) ELSE Answer(l, NoInbox)
    /\ UNCHANGED <<inbox, support, alive>>
---------------------------------------------------------------------------
InboxNext ==
    \/ \E w \in Owners, s \in Spellings : AddInbox(w, s) \/ SignUpInbox(w, s)
    \/ \E s \in Spellings : Disable(s) \/ Enable(s)
    \/ \E l \in Resolutions :
          \/ \E m \in Mailboxes : Resolve(l, m)
          \/ LookTagged(l) \/ LookBare(l) \/ FindClaim(l) \/ Provision(l) \/ LookAgain(l)

InboxSpec == InboxInit /\ [][InboxNext]_inboxVars
---------------------------------------------------------------------------
(* Rows and calls have their types; one live inbox per address.              *)
InboxTypeOK ==
    /\ \A s \in Rows : inbox[s] \in InboxRows
    /\ \A m \in Mailboxes : Cardinality(LiveFor(m)) <= 1
    /\ \A l \in Resolutions : lookup[l].at # "idle" =>
          /\ lookup[l].to \in Mailboxes /\ lookup[l].claim \in Owners \cup {NoInbox}
          /\ lookup[l].answer \in Rows \cup {NoInbox}

(* Mail that provisions an inbox for a support address is filed with the     *)
(* workspace that claims the address, even when another workspace took the   *)
(* address between the look-up and the INSERT, or holds it disabled.         *)
ProvisionedIsOwn ==
    \A l \in Resolutions :
        lookup[l].at = "done" =>
            \/ NoInbox \in {lookup[l].claim, lookup[l].answer}
            \/ Owner(lookup[l].answer) = lookup[l].claim

(* An address with an inbox that stays live while it is looked up, tagged or *)
(* bare and in whatever case it is stored, never comes out as unknown.       *)
LiveInboxFound ==
    \A l \in Resolutions :
        lookup[l].at = "done" /\ alive[l] # {} => lookup[l].answer # NoInbox

\* Mail to an address of a workspace ends in an inbox of that workspace.
MailRouted == ProvisionedIsOwn /\ LiveInboxFound
=============================================================================
