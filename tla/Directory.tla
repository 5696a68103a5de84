----------------------------- MODULE Directory -----------------------------
(* The customers of a workspace and the addresses they write from:           *)
(* customers/routes.ts, customers/identities.ts and customers/merge.ts.      *)
(* Every operation reads who owns an address in one statement and writes in  *)
(* a later one; between the two other requests run.  The tables' unique      *)
(* indexes and foreign keys decide what a late write may still do.  A        *)
(* refused request changes nothing and is a guard here.  Erasure, which also *)
(* removes customers, is in CustomerErasure.                                 *)
EXTENDS FiniteSets

CONSTANTS
    Contacts,   \* customers that exist at the start
    Addresses,
    Calls,      \* requests served; the customer a call creates has its id
    Book,       \* Book[e] = <<customer, primary>> of an address on file
    NoOne

\* every customer on file has one primary address
ASSUME BookAssumption ==
    /\ DOMAIN Book \subseteq Addresses
    /\ \A e \in DOMAIN Book :
          /\ Book[e] \in Contacts \X BOOLEAN
          /\ \E f \in DOMAIN Book : Book[f] = <<Book[e][1], TRUE>>
          /\ \A f \in DOMAIN Book : Book[e][2] /\ Book[f] = Book[e] => e = f

\* the ids of new rows are new
ASSUME IdAssumption == /\ Contacts \cap Calls = {} /\ "seed" \notin Calls
                       /\ NoOne \notin Contacts \cup Calls \cup Addresses \cup {"seed"}

VARIABLES
    mailbox,    \* customers.email, or NoOne when the row does not exist
    identity,   \* the customer_identities row of an address
    call,       \* what a request has read and is about to write
    kept        \* history: addresses on file that nobody asked to remove

directoryVars == <<mailbox, identity, call, kept>>

People == Contacts \cup Calls
NoIdentity == [owner |-> NoOne, primary |-> FALSE, id |-> NoOne]
IdentityRows == [owner : People \cup {NoOne}, primary : BOOLEAN, id : Calls \cup {"seed", NoOne}]

NoCall == [op |-> "idle", who |-> NoOne, address |-> NoOne, row |-> NoOne]
Ended == [NoCall EXCEPT !.op = "done"]

Listed(c) == mailbox[c] # NoOne
OnFile(e) == identity[e].owner # NoOne
Waiting(k, op) == call[k].op = op

DirectoryInit ==
    /\ identity = [e \in Addresses |->
          IF e \in DOMAIN Book
          THEN [owner |-> Book[e][1], primary |-> Book[e][2], id |-> "seed"]
          ELSE NoIdentity]
    /\ mailbox = [c \in People |->
          IF \E e \in DOMAIN Book : Book[e] = <<c, TRUE>>
          THEN CHOOSE e \in DOMAIN Book : Book[e] = <<c, TRUE>>
          ELSE NoOne]
    /\ call = [k \in Calls |-> NoCall]
    /\ kept = DOMAIN Book

Reads(k, op, who, address, row) ==
    /\ Waiting(k, "idle")
    /\ call' = [call EXCEPT ![k] = [op |-> op, who |-> who, address |-> address, row |-> row]]

CallEnds(k) == call' = [call EXCEPT ![k] = Ended]
---------------------------------------------------------------------------
(* What each request reads.                                                  *)

ReadForCreate(k, e) == /\ ~OnFile(e)
                       /\ Reads(k, "create", k, e, NoOne)
                       /\ UNCHANGED <<mailbox, identity, kept>>

ReadForPatch(k, c, e) == /\ Listed(c) /\ mailbox[c] # e
                         /\ identity[e].owner \in {NoOne, c}
                         /\ Reads(k, "patch", c, e, NoOne)
                         /\ UNCHANGED <<mailbox, identity, kept>>

ReadForAdd(k, c, e) == /\ Listed(c) /\ ~OnFile(e)
                       /\ Reads(k, "add", c, e, NoOne)
                       /\ UNCHANGED <<mailbox, identity, kept>>

ReadForRemove(k, e) == /\ OnFile(e) /\ ~identity[e].primary
                       /\ Reads(k, "remove", identity[e].owner, e, identity[e].id)
                       /\ kept' = kept \ {e}
                       /\ UNCHANGED <<mailbox, identity>>

ReadForMerge(k, target, source) == /\ target # source
                                   /\ Listed(target) /\ Listed(source)
                                   /\ Reads(k, "merge", target, NoOne, source)
                                   /\ UNCHANGED <<mailbox, identity, kept>>
---------------------------------------------------------------------------
(* What each request writes, in one batch.                                   *)

NewIdentity(k, c, primary) == [owner |-> c, primary |-> primary, id |-> k]

\* createCustomerWithIdentity: both rows or neither
Create(k) ==
    LET e == call[k].address
        taken == OnFile(e) \/ \E c \in People : mailbox[c] = e
    IN /\ Waiting(k, "create")
       /\ mailbox' = IF taken THEN mailbox ELSE [mailbox EXCEPT ![k] = e]
       /\ identity' = IF taken THEN identity
                      ELSE [identity EXCEPT ![e] = NewIdentity(k, k, TRUE)]
       /\ kept' = IF taken THEN kept ELSE kept \cup {e}
       /\ CallEnds(k)

MForgetsOld(k, c, e) ==
    [f \in Addresses |->
        IF f = e THEN IF OnFile(e) THEN [identity[e] EXCEPT !.primary = TRUE]
                      ELSE NewIdentity(k, c, TRUE)
        ELSE IF identity[f].owner = c /\ identity[f].primary THEN NoIdentity
        ELSE identity[f]]

\* setPrimaryEmail's first two statements: clear the flags of c, then insert
\* the address or, when somebody has it, flag that row
Flagged(k, c, e) ==
    [f \in Addresses |->
        IF f = e THEN IF OnFile(e) THEN [identity[e] EXCEPT !.primary = TRUE]
                      ELSE NewIdentity(k, c, TRUE)
        ELSE IF identity[f].owner = c THEN [identity[f] EXCEPT !.primary = FALSE]
        ELSE identity[f]]

\* the batch fails as a whole on a foreign key or on one of the three indexes
Refused(k, c, e) ==
    \/ ~OnFile(e) /\ ~Listed(c)
    \/ \E f \in Addresses \ {e} : /\ Flagged(k, c, e)[f].primary
                                  /\ identity[f].owner = Flagged(k, c, e)[e].owner
    \/ Listed(c) /\ \E d \in People \ {c} : mailbox[d] = e

SetPrimary(k) ==
    LET c == call[k].who
        e == call[k].address
    IN /\ Waiting(k, "patch")
       /\ IF Refused(k, c, e)
          THEN UNCHANGED <<mailbox, identity, kept>>
          ELSE /\ identity' = Flagged(k, c, e)
               /\ mailbox' = IF Listed(c) THEN [mailbox EXCEPT ![c] = e] ELSE mailbox
               /\ kept' = IF OnFile(e) THEN kept ELSE kept \cup {e}
       /\ CallEnds(k)

Add(k) ==
    LET c == call[k].who
        e == call[k].address
        fits == Listed(c) /\ ~OnFile(e)
    IN /\ Waiting(k, "add")
       /\ identity' = IF fits THEN [identity EXCEPT ![e] = NewIdentity(k, c, FALSE)]
                      ELSE identity
       /\ kept' = IF fits THEN kept \cup {e} ELSE kept
       /\ CallEnds(k) /\ UNCHANGED mailbox

\* DELETE ... WHERE id = ?: the row that was read, whatever became of it
RemoveIdentity(k) ==
    LET e == call[k].address
    IN /\ Waiting(k, "remove")
       /\ identity' = IF identity[e].id = call[k].row
                      THEN [identity EXCEPT ![e] = NoIdentity] ELSE identity
       /\ CallEnds(k) /\ UNCHANGED <<mailbox, kept>>

MMergeKeepsFlags(k) ==
    /\ Waiting(k, "merge")
    /\ identity' = [e \in Addresses |->
           IF identity[e].owner = call[k].row
           THEN [identity[e] EXCEPT !.owner = call[k].who] ELSE identity[e]]
    /\ mailbox' = [mailbox EXCEPT ![call[k].row] = NoOne]
    /\ CallEnds(k) /\ UNCHANGED kept

\* mergeCustomers: the source's addresses move as secondary ones, then its row goes
Merge(k) ==
    LET target == call[k].who
        source == call[k].row
    IN /\ Waiting(k, "merge")
       /\ IF Listed(target)
          THEN /\ identity' = [e \in Addresses |->
                     IF identity[e].owner = source
                     THEN [identity[e] EXCEPT !.owner = target, !.primary = FALSE]
                     ELSE identity[e]]
               /\ mailbox' = [mailbox EXCEPT ![source] = NoOne]
          ELSE UNCHANGED <<mailbox, identity>>
       /\ CallEnds(k) /\ UNCHANGED kept
---------------------------------------------------------------------------
DirectoryNext ==
    \/ \E k \in Calls :
          \/ Create(k) \/ SetPrimary(k) \/ Add(k) \/ RemoveIdentity(k) \/ Merge(k)
          \/ \E e \in Addresses : ReadForCreate(k, e) \/ ReadForRemove(k, e)
          \/ \E c \in People, e \in Addresses : ReadForPatch(k, c, e) \/ ReadForAdd(k, c, e)
          \/ \E c, s \in People : ReadForMerge(k, c, s)

DirectorySpec == DirectoryInit /\ [][DirectoryNext]_directoryVars
---------------------------------------------------------------------------
(* The rows have their columns' types and the keys the schema declares.      *)
DirectoryTypeOK ==
    /\ mailbox \in [People -> Addresses \cup {NoOne}]
    /\ identity \in [Addresses -> IdentityRows]
    /\ kept \subseteq Addresses
    /\ \A e \in Addresses : OnFile(e) => Listed(identity[e].owner)
    /\ \A e, f \in Addresses :
          (e # f /\ identity[e].primary /\ identity[f].primary)
              => identity[e].owner # identity[f].owner

(* Every address ever recorded, and that nobody asked to remove since, still *)
(* names a customer that exists, through merges, changes of primary address  *)
(* and removals of an earlier row of the same address (identities.ts:110-113: *)
(* the previous primary stays so replies to the old address still thread).   *)
AddressesKept == \A e \in kept : OnFile(e) /\ Listed(identity[e].owner)

(* What routes.ts:266-269 answers: the primary address of a customer cannot  *)
(* be removed, so threading always resolves it to the customer.  No run      *)
(* checks it: the removal decides by a row read before the primary changed.  *)
PrimaryStays == \A c \in People : Listed(c) => identity[mailbox[c]].owner = c
=============================================================================
