------------------------------- MODULE Drafts -------------------------------
(* The unsent reply of an agent: web/hooks/use-draft.ts in each tab, the     *)
(* draft routes of operations/routes.ts on the server, and the sending and   *)
(* switching of pages/inbox.tsx around them.  All tabs belong to one agent,  *)
(* so a ticket has one row.  A request may fail before it reaches the        *)
(* server; one whose answer alone is lost is not modelled.  Which kind a     *)
(* draft has is left out, but not that changing it saves the text again.     *)
EXTENDS Naturals, Sequences, Functions

CONSTANTS
    Tabs, Tickets,
    Visits,     \* Visits[p]: the tickets tab p moves between
    LastEdit,   \* edits are numbered, and a text by the edit that typed it; 0 is the empty one
    NoDraft

ASSUME VisitsAssumption == Visits \in [Tabs -> SUBSET Tickets]

\* what stands for no row is not one
ASSUME DraftsAssumption == LastEdit \in Nat /\ NoDraft \notin [text : Nat, revision : Nat]

VARIABLES
    draft,      \* ticket_drafts: [text, revision] or NoDraft
    tab,        \* what each tab holds in its refs and its state
    edits,      \* the number of edits so far
    sentAway,   \* history: <<ticket, text>> sent, and the draft deleted after it
    toggled,    \* history: texts on a screen while reply and note were switched
    reopened    \* history: texts a screen took from the server

draftVars == <<draft, tab, edits, sentAway, toggled, reopened>>
screens == <<toggled, reopened>>

Texts == 1..LastEdit
NoSend == [ticket |-> NoDraft, text |-> 0]

\* writes: the promise chain, its head being on the wire in phase `put`;
\* clearing: the ticket whose DELETE waits for `ahead` of those writes
FreshTab(t) ==
    [open |-> t, body |-> 0, edited |-> FALSE, hydrated |-> TRUE, got |-> NoDraft,
     load |-> "none", timer |-> FALSE, revision |-> [u \in Tickets |-> 0],
     writes |-> <<>>, put |-> "send", next |-> 0, sending |-> NoSend,
     clearing |-> NoSend, ahead |-> 0]

DraftsInit ==
    /\ draft = [t \in Tickets |-> NoDraft]
    /\ tab \in {h \in [Tabs -> {FreshTab(t) : t \in Tickets}] : \A p \in Tabs : h[p].open \in Visits[p]}
    /\ edits = 0 /\ sentAway = {} /\ toggled = {} /\ reopened = {}

Stored(t) == draft[t] # NoDraft
Head1(p) == Head(tab[p].writes)
---------------------------------------------------------------------------
(* What the agent does.                                                      *)

\* the effect on ticketId; its clean-up and that of the save effect run first
OpenTicket(p, t) ==
    /\ t \in Visits[p] /\ tab[p].open # t
    /\ tab' = [tab EXCEPT ![p] = [@ EXCEPT !.open = t, !.edited = FALSE, !.hydrated = FALSE,
                                           !.timer = FALSE, !.load = "asked"]]
    /\ UNCHANGED <<draft, edits, sentAway, screens>>

\* the save effect: nothing typed and nothing stored is no row worth creating
Saves(p, text) == tab[p].hydrated /\ (text # 0 \/ tab[p].revision[tab[p].open] # 0)

\* setBody with a new text or with none, and the save effect that follows it
Type(p, text) ==
    /\ edits < LastEdit /\ text \in {0, edits + 1} \ {tab[p].body}
    /\ edits' = edits + 1
    /\ tab' = [tab EXCEPT ![p].body = text, ![p].edited = TRUE, ![p].timer = Saves(p, text)]
    /\ UNCHANGED <<draft, sentAway, screens>>

\* setKind: the text on screen, wherever it came from, counts as edited, and the
\* save effect runs again if the kind is another one
SetKind(p, other) ==
    /\ edits < LastEdit
    /\ edits' = edits + 1
    /\ tab' = [tab EXCEPT ![p].edited = TRUE,
                          ![p].timer = IF other THEN Saves(p, tab[p].body) ELSE @]
    /\ toggled' = toggled \cup ({tab[p].body} \ {0})
    /\ UNCHANGED <<draft, sentAway, reopened>>

\* sendMessage posts what is on screen; clear runs when the answer arrives
PressSend(p) ==
    /\ tab[p].body # 0 /\ tab[p].sending = NoSend /\ tab[p].clearing = NoSend
    /\ tab' = [tab EXCEPT ![p].sending = [ticket |-> tab[p].open, text |-> tab[p].body]]
    /\ UNCHANGED <<draft, edits, sentAway, screens>>

SendRefused(p) ==
    /\ tab[p].sending # NoSend
    /\ tab' = [tab EXCEPT ![p].sending = NoSend]
    /\ UNCHANGED <<draft, edits, sentAway, screens>>

MClearAtOnce(p) ==
    /\ tab[p].sending # NoSend
    /\ tab' = [tab EXCEPT ![p] = [@ EXCEPT !.sending = NoSend, !.timer = FALSE, !.edited = FALSE,
                  !.body = 0, !.clearing = tab[p].sending, !.ahead = 0]]
    /\ UNCHANGED <<draft, edits, sentAway, screens>>

\* clear: the ticket it was bound to, but the screen of whatever is open now
Clear(p) ==
    /\ tab[p].sending # NoSend
    /\ tab' = [tab EXCEPT ![p] = [@ EXCEPT !.sending = NoSend, !.timer = FALSE, !.edited = FALSE,
                  !.body = 0, !.clearing = tab[p].sending, !.ahead = Len(tab[p].writes)]]
    /\ UNCHANGED <<draft, edits, sentAway, screens>>

DeleteDraft(p) ==
    LET gone == tab[p].clearing
    IN /\ gone # NoSend /\ tab[p].ahead = 0
       /\ draft' = [draft EXCEPT ![gone.ticket] = NoDraft]
       /\ sentAway' = sentAway \cup {<<gone.ticket, gone.text>>}
       /\ tab' = [tab EXCEPT ![p].clearing = NoSend, ![p].revision[gone.ticket] = 0]
       /\ UNCHANGED <<edits, screens>>

DeleteFails(p) ==
    /\ tab[p].clearing # NoSend /\ tab[p].ahead = 0
    /\ tab' = [tab EXCEPT ![p].revision[tab[p].clearing.ticket] = 0, ![p].clearing = NoSend]
    /\ UNCHANGED <<draft, edits, sentAway, screens>>
---------------------------------------------------------------------------
(* Loading: what was typed while the answer was under way wins over it.      *)

ReadDraft(p) ==
    /\ tab[p].load = "asked"
    /\ tab' = [tab EXCEPT ![p].load = "answered", ![p].got = draft[tab[p].open]]
    /\ UNCHANGED <<draft, edits, sentAway, screens>>

Loaded(p) ==
    LET taken == ~tab[p].edited /\ tab[p].got # NoDraft
    IN /\ tab[p].load = "answered"
       /\ tab' = [tab EXCEPT ![p] = [@ EXCEPT !.load = "none", !.hydrated = TRUE, !.got = NoDraft,
             !.body = IF tab[p].edited THEN tab[p].body ELSE IF taken THEN tab[p].got.text ELSE 0,
             !.revision[tab[p].open] =
                      IF tab[p].edited THEN tab[p].revision[tab[p].open]
                      ELSE IF taken THEN tab[p].got.revision ELSE 0]]
       /\ reopened' = IF taken THEN reopened \cup ({tab[p].got.text} \ {0}) ELSE reopened
       /\ UNCHANGED <<draft, edits, sentAway, toggled>>

LoadFails(p) ==
    /\ tab[p].load = "asked"
    /\ tab' = [tab EXCEPT ![p].load = "none", ![p].hydrated = TRUE]
    /\ UNCHANGED <<draft, edits, sentAway, screens>>
---------------------------------------------------------------------------
(* Saving.                                                                   *)

TimerFires(p) ==
    /\ tab[p].timer
    /\ tab' = [tab EXCEPT ![p].timer = FALSE,
                  ![p].writes = Append(@, [ticket |-> tab[p].open, text |-> tab[p].body])]
    /\ UNCHANGED <<draft, edits, sentAway, screens>>

\* the head of the chain is settled; a clear that waits has one less ahead
Settled(p, row) ==
    [row EXCEPT !.writes = Tail(@), !.put = "send", !.next = 0,
                !.ahead = IF @ > 0 THEN @ - 1 ELSE 0]

\* the server reads the revision, refuses an older one, and writes later,
\* whatever has happened to the row; a second refusal is an error
PutReads(p) ==
    LET t == Head1(p).ticket
        mine == tab[p].revision[t]
        theirs == IF Stored(t) THEN draft[t].revision ELSE 0
    IN /\ tab[p].writes # <<>> /\ tab[p].put \in {"send", "again"}
       /\ tab' = [tab EXCEPT ![p] =
             IF mine >= theirs THEN [@ EXCEPT !.put = "write", !.next = mine + 1]
             ELSE IF @.put = "send" THEN [@ EXCEPT !.put = "conflict"]
             ELSE Settled(p, @)]
       /\ UNCHANGED <<draft, edits, sentAway, screens>>

PutWrites(p) ==
    LET w == Head1(p)
    IN /\ tab[p].writes # <<>> /\ tab[p].put = "write"
       /\ draft' = [draft EXCEPT ![w.ticket] = [text |-> w.text, revision |-> tab[p].next]]
       /\ tab' = [tab EXCEPT ![p] =
             Settled(p, [@ EXCEPT !.revision[w.ticket] = tab[p].next])]
       /\ UNCHANGED <<edits, sentAway, screens>>

PutFails(p) ==
    /\ tab[p].writes # <<>> /\ tab[p].put \in {"send", "again"}
    /\ tab' = [tab EXCEPT ![p] = Settled(p, @)]
    /\ UNCHANGED <<draft, edits, sentAway, screens>>

\* another tab saved: take its revision and put this text on top
TakeRevision(p) ==
    LET t == Head1(p).ticket
    IN /\ tab[p].writes # <<>> /\ tab[p].put = "conflict"
       /\ tab' = [tab EXCEPT ![p].put = "again",
                     ![p].revision[t] = IF Stored(t) THEN draft[t].revision ELSE @]
       /\ UNCHANGED <<draft, edits, sentAway, screens>>
---------------------------------------------------------------------------
DraftsNext ==
    \E p \in Tabs :
       \/ \E t \in Tickets : OpenTicket(p, t)
       \/ \E text \in 0..LastEdit : Type(p, text)
       \/ \E other \in BOOLEAN : SetKind(p, other)
       \/ PressSend(p) \/ SendRefused(p) \/ Clear(p) \/ DeleteDraft(p) \/ DeleteFails(p)
       \/ ReadDraft(p) \/ Loaded(p) \/ LoadFails(p)
       \/ TimerFires(p) \/ PutReads(p) \/ PutWrites(p) \/ PutFails(p) \/ TakeRevision(p)

DraftsSpec == DraftsInit /\ [][DraftsNext]_draftVars
---------------------------------------------------------------------------
(* Rows and tabs have their types, and a tab's chain is in step with itself. *)
DraftsTypeOK ==
    /\ edits \in 0..LastEdit /\ sentAway \subseteq Tickets \X Texts
    /\ toggled \subseteq Texts /\ reopened \subseteq Texts
    /\ \A t \in Tickets : Stored(t) => /\ draft[t].text \in 0..LastEdit
                                       /\ draft[t].revision \in Nat \ {0}
    /\ \A p \in Tabs : /\ tab[p].open \in Tickets /\ tab[p].body \in 0..LastEdit
                       /\ tab[p].put # "send" => tab[p].writes # <<>>
                       /\ tab[p].ahead <= Len(tab[p].writes)

(* A text that was sent, and whose draft was deleted after it, does not come *)
(* back as a stored draft of its ticket, however late its autosaves were     *)
(* (use-draft.ts:133-134: a save on the wire would recreate the row), unless *)
(* both happened to it: a tab took it from the server, and reply and note    *)
(* were switched with it on a screen.  Switching alone saves it again, but   *)
(* the one tab that has it clears what it saved; a second tab with the text  *)
(* on its screen is told nothing, and its switch stores the sent text.       *)
SentStaysAway ==
    \A t \in Tickets : Stored(t) /\ <<t, draft[t].text>> \in sentAway =>
        draft[t].text \in toggled \cap reopened
=============================================================================
