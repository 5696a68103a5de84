--------------------------- MODULE KnowledgeBase ---------------------------
(* Articles of the help center (knowledge-base/routes.ts and the page        *)
(* web/pages/knowledge-base.tsx): an editor opens an article, and its save   *)
(* or its publish button is a PATCH that reads the row, compares the version *)
(* the editor had on screen and writes under a version guard.                *)
EXTENDS Naturals, FiniteSets

CONSTANTS
    Articles,
    Slugs,
    Edits,      \* one screen of one editor each; the text it saves is its name
    NoArticle,  \* a row that was never inserted
    Deleted     \* a row that is gone; ids are not used again

VARIABLES
    article,    \* the knowledge_base_articles row
    edit,       \* where an editor is, and the version on screen
    overwrote   \* history: the text each written save put its own in place of

kbVars == <<article, edit, overwrote>>

Statuses == {"draft", "published"}
Texts == Edits \cup {NoArticle}
Screen == [at : {"closed", "open", "checked", "saved", "conflict"},
           of : Articles, version : Nat, text : Texts,
           slug : Slugs, status : Statuses, saves : BOOLEAN, dated : BOOLEAN]
ArticleRows == [slug : Slugs, text : Texts, status : Statuses,
                version : Nat \ {0}, dated : BOOLEAN]

\* the two marks of a missing row are told from each other and from rows
ASSUME KbAssumption == NoArticle # Deleted /\ {NoArticle, Deleted} \cap ArticleRows = {}

Live == {a \in Articles : article[a] \notin {NoArticle, Deleted}}
SlugTaken(s, a) == \E b \in Live \ {a} : article[b].slug = s

KbInit ==
    /\ article = [a \in Articles |-> NoArticle]
    /\ edit = [e \in Edits |-> [at |-> "closed"]]
    /\ overwrote = [e \in Edits |-> e]
---------------------------------------------------------------------------
\* POST: the slug is unique in the workspace
CreateArticle(a, s, status) ==
    /\ article[a] = NoArticle /\ ~SlugTaken(s, a)
    /\ article' = [article EXCEPT ![a] =
         [slug |-> s, text |-> NoArticle, status |-> status, version |-> 1,
          dated |-> status = "published"]]
    /\ UNCHANGED <<edit, overwrote>>

\* the form, or the list the publish button belongs to, is on screen; the
\* button sends a status alone, the form all of the fields
OpenArticle(e, a, s, status, saves) ==
    /\ edit[e].at = "closed" /\ a \in Live
    /\ saves \/ (s = article[a].slug /\ status # article[a].status)
    /\ edit' = [edit EXCEPT ![e] =
         [at |-> "open", of |-> a, version |-> article[a].version,
          text |-> article[a].text, slug |-> s, status |-> status,
          saves |-> saves, dated |-> FALSE]]
    /\ UNCHANGED <<article, overwrote>>

\* PATCH reads the row: 404, 409, or on to the write
CheckVersion(e) ==
    LET a == edit[e].of
    IN /\ edit[e].at = "open"
       /\ IF a \in Live /\ article[a].version = edit[e].version
          THEN edit' = [edit EXCEPT ![e].at = "checked", ![e].dated = article[a].dated]
          ELSE edit' = [edit EXCEPT ![e].at = "conflict"]
       /\ UNCHANGED <<article, overwrote>>

MGuard(e) == edit[e].of \in Live

\* the UPDATE names the version that was read
Guard(e) == edit[e].of \in Live /\ article[edit[e].of].version = edit[e].version

\* a UNIQUE failure is a 409; how many rows the UPDATE changed is not looked at
SaveArticle(e) ==
    LET a == edit[e].of
    IN /\ edit[e].at = "checked"
       /\ IF ~Guard(e)
          THEN edit' = [edit EXCEPT ![e].at = "saved"] /\ UNCHANGED <<article, overwrote>>
          ELSE IF SlugTaken(edit[e].slug, a)
          THEN edit' = [edit EXCEPT ![e].at = "conflict"] /\ UNCHANGED <<article, overwrote>>
          ELSE /\ edit' = [edit EXCEPT ![e].at = "saved"]
               /\ article' = [article EXCEPT ![a] =
                    [slug |-> edit[e].slug, status |-> edit[e].status,
                     text |-> IF edit[e].saves THEN e ELSE @.text,
                     version |-> edit[e].version + 1,
                     dated |-> edit[e].dated \/ edit[e].status = "published"]]
               /\ overwrote' = IF edit[e].saves
                               THEN [overwrote EXCEPT ![e] = article[a].text] ELSE overwrote

DeleteArticle(a) == /\ a \in Live
                    /\ article' = [article EXCEPT ![a] = Deleted]
                    /\ UNCHANGED <<edit, overwrote>>
---------------------------------------------------------------------------
KbNext ==
    \/ \E a \in Articles, s \in Slugs, status \in Statuses :
          \/ CreateArticle(a, s, status)
          \/ \E e \in Edits, saves \in BOOLEAN : OpenArticle(e, a, s, status, saves)
    \/ \E e \in Edits : CheckVersion(e) \/ SaveArticle(e)
    \/ \E a \in Articles : DeleteArticle(a)

KbSpec == KbInit /\ [][KbNext]_kbVars
---------------------------------------------------------------------------
(* Rows and screens have their types, two live articles never share a link.  *)
KbTypeOK ==
    /\ \A a \in Live : article[a] \in ArticleRows
    /\ \A e \in Edits : edit[e].at = "closed" \/ edit[e] \in Screen
    /\ \A a, b \in Live : article[a].slug = article[b].slug => a = b

(* A save never writes over a text its editor had not seen: whatever other   *)
(* editors saved between the form, the version check and the write is kept.  *)
SeenBeforeOverwritten ==
    \A e \in Edits : overwrote[e] # e => overwrote[e] = edit[e].text

(* An editor told that the article was saved has had its text stored.  No    *)
(* run checks it: the number of rows the guarded write changed is not read.  *)
SavedIsStored ==
    \A e \in Edits : edit[e].at = "saved" /\ edit[e].saves => overwrote[e] # e
=============================================================================
