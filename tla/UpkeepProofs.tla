---------------------------- MODULE UpkeepProofs ----------------------------
(***************************************************************************)
(* Proofs about what administrators and the scheduler look after, one       *)
(* component after the other: articles, the readiness report, inboxes, the  *)
(* customers' addresses, the export of a workspace and the record of a      *)
(* customer (stored files have a module of their own).  The                 *)
(* components share no variable; each section has its own inductive         *)
(* invariant, and no theorem bounds a constant.  The last section puts them *)
(* together for the specification that the run Upkeep checks.               *)
(***************************************************************************)
EXTENDS MCUpkeep, AttachmentStoreProofs, FiniteSetTheorems, NaturalsInduction,
        WellFoundedInduction, TLAPS

(***************************************************************************)
(* Articles.  A version on screen never outruns the row's, and as long as  *)
(* the two are equal the text on screen is the row's: a save that finds    *)
(* the version it names replaces the text its editor has seen.  An id is   *)
(* not used again, so no screen is older than the row it shows.            *)
(***************************************************************************)
ClosedScreen == [at |-> "closed"]

ArticlesType ==
  /\ article \in [Articles -> ArticleRows \cup {NoArticle, Deleted}]
  /\ edit \in [Edits -> Screen \cup {ClosedScreen}]
  /\ DOMAIN overwrote = Edits

LinksDiffer == \A a, b \in Live : article[a].slug = article[b].slug => a = b

ScreenIsCurrent(e) ==
  edit[e].at /= "closed" =>
    LET a == edit[e].of
    IN  /\ article[a] /= NoArticle
        /\ a \in Live =>
             /\ edit[e].version <= article[a].version
             /\ edit[e].at \in {"open", "checked"} /\ edit[e].version = article[a].version
                  => edit[e].text = article[a].text

OverwroteOnce(e) ==
  overwrote[e] /= e => edit[e].at = "saved" /\ overwrote[e] = edit[e].text

ArticlesInv ==
  /\ ArticlesType /\ LinksDiffer
  /\ \A e \in Edits : ScreenIsCurrent(e) /\ OverwroteOnce(e)

LEMMA LiveRows ==
  ASSUME ArticlesType, NEW a \in Articles
  PROVE  a \in Live <=> article[a] \in ArticleRows
  BY KbAssumption DEF ArticlesType, Live

LEMMA ArticlesInitially == KbInit => ArticlesInv
  BY DEF KbInit, ArticlesInv, ArticlesType, LinksDiffer, Live, ScreenIsCurrent,
     OverwroteOnce, ClosedScreen

LEMMA CreateArticleStep ==
  ASSUME ArticlesInv, NEW a \in Articles, NEW s \in Slugs, NEW status \in Statuses,
         CreateArticle(a, s, status)
  PROVE  ArticlesInv'
<1> DEFINE entry == [slug |-> s, text |-> NoArticle, status |-> status, version |-> 1,
                   dated |-> status = "published"]
<1>1. entry \in ArticleRows
  BY DEF ArticleRows, Texts
<1>2. article' = [article EXCEPT ![a] = entry] /\ entry.slug = s
  BY DEF CreateArticle
<1> HIDE DEF entry
<1>3. ArticlesType'
  BY <1>1, <1>2 DEF CreateArticle, ArticlesInv, ArticlesType
<1>4. Live' = Live \cup {a}
  BY <1>1, <1>2, KbAssumption DEF Live, ArticlesInv, ArticlesType
<1>5. LinksDiffer'
  <2> SUFFICES ASSUME NEW b \in Live', NEW c \in Live', article'[b].slug = article'[c].slug
               PROVE  b = c
    BY DEF LinksDiffer
  <2>1. \A d \in Live \ {a} : article'[d] = article[d] /\ article[d].slug /= s
    BY <1>2 DEF CreateArticle, SlugTaken, ArticlesInv, ArticlesType, Live
  <2>2. article'[a].slug = s
    BY <1>2 DEF ArticlesInv, ArticlesType
  <2> QED BY <1>4, <2>1, <2>2 DEF ArticlesInv, LinksDiffer
<1>6. ASSUME NEW e \in Edits PROVE ScreenIsCurrent(e)' /\ OverwroteOnce(e)'
  <2>1. edit[e].at /= "closed" => edit[e].of \in Articles
    BY DEF ArticlesInv, ArticlesType, Screen, ClosedScreen
  <2>2. edit[e].at /= "closed" => edit[e].of /= a
    BY DEF ArticlesInv, ScreenIsCurrent, CreateArticle
  <2> QED BY <1>2, <1>4, <2>1, <2>2 DEF ArticlesInv, ArticlesType, ScreenIsCurrent,
             OverwroteOnce, CreateArticle
<1> QED BY <1>3, <1>5, <1>6 DEF ArticlesInv

LEMMA OpenArticleStep ==
  ASSUME ArticlesInv, NEW e \in Edits, NEW a \in Articles, NEW s \in Slugs,
         NEW status \in Statuses, NEW saves \in BOOLEAN, OpenArticle(e, a, s, status, saves)
  PROVE  ArticlesInv'
<1> DEFINE screen == [at |-> "open", of |-> a, version |-> article[a].version,
                      text |-> article[a].text, slug |-> s, status |-> status,
                      saves |-> saves, dated |-> FALSE]
<1>1. article[a] \in ArticleRows
  BY LiveRows DEF OpenArticle, ArticlesInv
<1>2. screen \in Screen
  BY <1>1 DEF Screen, ArticleRows
<1>3. edit' = [edit EXCEPT ![e] = screen]
  BY DEF OpenArticle
<1>4. /\ screen.at = "open" /\ screen.of = a
      /\ screen.version = article[a].version /\ screen.text = article[a].text
  OBVIOUS
<1> HIDE DEF screen
<1>5. ArticlesType' /\ LinksDiffer'
  BY <1>2, <1>3 DEF OpenArticle, ArticlesInv, ArticlesType, LinksDiffer, Live
<1>6. ASSUME NEW d \in Edits PROVE ScreenIsCurrent(d)' /\ OverwroteOnce(d)'
  <2>1. CASE d /= e
    BY <1>3, <2>1 DEF OpenArticle, ArticlesInv, ArticlesType, ScreenIsCurrent, OverwroteOnce, Live
  <2>2. CASE d = e
    <3>1. edit'[e] = screen /\ article' = article /\ overwrote'[e] = e
      BY <1>3 DEF OpenArticle, ArticlesInv, ArticlesType, OverwroteOnce
    <3>2. article[a] /= NoArticle /\ article[a].version <= article[a].version
      BY <1>1, KbAssumption DEF ArticleRows
    <3> QED BY <1>4, <2>2, <3>1, <3>2 DEF ScreenIsCurrent, OverwroteOnce
  <2> QED BY <2>1, <2>2
<1> QED BY <1>5, <1>6 DEF ArticlesInv

LEMMA CheckVersionStep ==
  ASSUME ArticlesInv, NEW e \in Edits, CheckVersion(e)
  PROVE  ArticlesInv'
<1>1. edit[e] \in Screen
  BY DEF CheckVersion, ArticlesInv, ArticlesType, ClosedScreen
<1>2. edit[e].of \in Live => article[edit[e].of] \in ArticleRows
  BY LiveRows DEF Live, ArticlesInv
<1>3. PICK screen \in Screen :
        /\ edit' = [edit EXCEPT ![e] = screen]
        /\ screen.at \in {"checked", "conflict"}
        /\ screen.of = edit[e].of /\ screen.version = edit[e].version
        /\ screen.text = edit[e].text
  <2>1. CASE edit' = [edit EXCEPT ![e].at = "conflict"]
    <3>1. [edit[e] EXCEPT !.at = "conflict"] \in Screen
      BY <1>1 DEF Screen
    <3> QED BY <1>1, <2>1, <3>1 DEF Screen
  <2>2. CASE /\ edit[e].of \in Live
             /\ edit' = [edit EXCEPT ![e].at = "checked", ![e].dated = article[edit[e].of].dated]
    <3> DEFINE screen == [edit[e] EXCEPT !.at = "checked", !.dated = article[edit[e].of].dated]
    <3>1. screen \in Screen
      BY <1>1, <1>2, <2>2 DEF Screen, ArticleRows
    <3>2. edit' = [edit EXCEPT ![e] = screen]
      BY <2>2 DEF ArticlesInv, ArticlesType
    <3>3. /\ screen.at = "checked" /\ screen.of = edit[e].of
          /\ screen.version = edit[e].version /\ screen.text = edit[e].text
      BY <1>1 DEF Screen
    <3> HIDE DEF screen
    <3> QED BY <3>1, <3>2, <3>3
  <2> QED BY <2>1, <2>2 DEF CheckVersion
<1>4. ArticlesType' /\ LinksDiffer'
  BY <1>3 DEF CheckVersion, ArticlesInv, ArticlesType, LinksDiffer, Live
<1>5. ASSUME NEW d \in Edits PROVE ScreenIsCurrent(d)' /\ OverwroteOnce(d)'
  BY <1>3 DEF CheckVersion, ArticlesInv, ArticlesType, ScreenIsCurrent, OverwroteOnce, Live
<1> QED BY <1>4, <1>5 DEF ArticlesInv

\* The write under the guard: the row's version passes every other screen.
LEMMA SaveArticleStep ==
  ASSUME ArticlesInv, NEW e \in Edits, SaveArticle(e)
  PROVE  ArticlesInv'
<1> DEFINE a == edit[e].of
<1>1. edit[e] \in Screen
  BY DEF SaveArticle, ArticlesInv, ArticlesType, ClosedScreen
<1>2. PICK screen \in Screen :
        /\ edit' = [edit EXCEPT ![e] = screen]
        /\ screen.at \in {"saved", "conflict"}
        /\ screen.of = a /\ screen.version = edit[e].version
        /\ screen.text = edit[e].text
        /\ overwrote' /= overwrote => screen.at = "saved"
  <2>1. \A v \in {"saved", "conflict"} : [edit[e] EXCEPT !.at = v] \in Screen
    BY <1>1 DEF Screen
  <2> QED BY <1>1, <2>1 DEF SaveArticle, Screen
<1>3. overwrote[e] = e
  BY DEF SaveArticle, ArticlesInv, OverwroteOnce
<1>4. CASE UNCHANGED <<article, overwrote>>
  <2>1. ArticlesType' /\ LinksDiffer'
    BY <1>2, <1>4 DEF ArticlesInv, ArticlesType, LinksDiffer, Live
  <2>2. ASSUME NEW d \in Edits PROVE ScreenIsCurrent(d)' /\ OverwroteOnce(d)'
    <3>1. edit' = [edit EXCEPT ![e] = screen] /\ article' = article /\ overwrote' = overwrote
          /\ Live' = Live
      BY <1>2, <1>4 DEF Live
    <3>2. CASE d = e
      <4>1. edit'[e] = screen
        BY <3>1 DEF ArticlesInv, ArticlesType
      <4>2. ScreenIsCurrent(e) /\ edit[e].at /= "closed"
        BY <1>1 DEF SaveArticle, ArticlesInv
      <4> QED BY <1>2, <1>3, <3>1, <3>2, <4>1, <4>2 DEF ScreenIsCurrent, OverwroteOnce
    <3>3. CASE d /= e
      <4>1. edit'[d] = edit[d]
        BY <3>1, <3>3 DEF ArticlesInv, ArticlesType
      <4> QED BY <3>1, <4>1 DEF ArticlesInv, ScreenIsCurrent, OverwroteOnce
    <3> QED BY <3>2, <3>3
  <2> QED BY <2>1, <2>2 DEF ArticlesInv
<1>5. CASE Guard(e) /\ ~SlugTaken(edit[e].slug, a)
  <2> DEFINE entry == [slug |-> edit[e].slug, status |-> edit[e].status,
                     text |-> IF edit[e].saves THEN e ELSE article[a].text,
                     version |-> edit[e].version + 1,
                     dated |-> edit[e].dated \/ edit[e].status = "published"]
  <2>1. a \in Articles /\ article[a] \in ArticleRows /\ article[a].version = edit[e].version
    BY <1>1, <1>5, LiveRows DEF Guard, Live, ArticlesInv
  <2>2. entry \in ArticleRows
    BY <1>1, <2>1 DEF ArticleRows, Screen, Texts
  <2>3. article' = [article EXCEPT ![a] = entry]
    BY <1>5, <2>1 DEF SaveArticle, ArticlesInv, ArticlesType
  <2>4. entry.slug = edit[e].slug /\ entry.version = edit[e].version + 1
    OBVIOUS
  <2> HIDE DEF entry
  <2>5. Live' = Live
    BY <2>1, <2>2, <2>3, KbAssumption DEF Live, ArticlesInv, ArticlesType
  <2>6. ArticlesType'
    BY <1>2, <1>5, <2>1, <2>2, <2>3 DEF SaveArticle, ArticlesInv, ArticlesType
  <2>7. LinksDiffer'
    <3> SUFFICES ASSUME NEW b \in Live, NEW c \in Live, article'[b].slug = article'[c].slug
                 PROVE  b = c
      BY <2>5 DEF LinksDiffer
    <3>1. \A d \in Live \ {a} : article'[d] = article[d] /\ article[d].slug /= edit[e].slug
      BY <1>5, <2>3 DEF SlugTaken, ArticlesInv, ArticlesType, Live
    <3>2. article'[a].slug = edit[e].slug
      BY <2>1, <2>3, <2>4 DEF ArticlesInv, ArticlesType
    <3> QED BY <3>1, <3>2 DEF ArticlesInv, LinksDiffer
  <2>8. ASSUME NEW d \in Edits PROVE ScreenIsCurrent(d)' /\ OverwroteOnce(d)'
    <3>1. article'[a] = entry /\ entry.version \in Nat /\ edit[e].version \in Nat
      BY <1>1, <2>1, <2>2, <2>3 DEF ArticlesInv, ArticlesType, ArticleRows, Screen
    <3>2. entry /= NoArticle
      BY <2>2, KbAssumption
    <3>3. CASE d = e
      <4>1. edit'[e] = screen
        BY <1>2 DEF ArticlesInv, ArticlesType
      <4>2. ScreenIsCurrent(e)'
        BY <1>2, <2>4, <3>1, <3>2, <4>1 DEF ScreenIsCurrent
      <4>3. overwrote'[e] \in {e, article[a].text}
        BY <1>3, <1>5 DEF SaveArticle, ArticlesInv, ArticlesType
      <4>4. article[a].text = edit[e].text
        BY <1>5, <2>1 DEF SaveArticle, Guard, ArticlesInv, ScreenIsCurrent
      <4>5. OverwroteOnce(e)'
        BY <1>2, <1>3, <4>1, <4>3, <4>4 DEF OverwroteOnce
      <4> QED BY <3>3, <4>2, <4>5
    <3>4. CASE d /= e
      <4>1. edit'[d] = edit[d] /\ overwrote'[d] = overwrote[d]
        BY <1>2, <1>5, <3>4 DEF SaveArticle, ArticlesInv, ArticlesType
      <4>2. edit[d].at /= "closed" => edit[d].of \in Articles /\ edit[d].version \in Nat
        BY DEF ArticlesInv, ArticlesType, Screen, ClosedScreen
      <4>3. edit[d].at /= "closed" /\ edit[d].of /= a => article'[edit[d].of] = article[edit[d].of]
        BY <2>3, <4>2 DEF ArticlesInv, ArticlesType
      <4>4. edit[d].at /= "closed" /\ edit[d].of = a => edit[d].version <= edit[e].version
        BY <1>5, <2>1 DEF Guard, ArticlesInv, ScreenIsCurrent
      <4>5. ScreenIsCurrent(d)'
        <5>1. CASE edit[d].at /= "closed" /\ edit[d].of = a
          BY <2>4, <3>1, <3>2, <4>1, <4>2, <4>4, <5>1 DEF ScreenIsCurrent
        <5>2. CASE edit[d].at /= "closed" /\ edit[d].of /= a
          BY <2>5, <4>1, <4>3, <5>2 DEF ScreenIsCurrent, ArticlesInv
        <5> QED BY <4>1, <5>1, <5>2 DEF ScreenIsCurrent
      <4> QED BY <4>1, <4>5 DEF OverwroteOnce, ArticlesInv
    <3> QED BY <3>3, <3>4
  <2> QED BY <2>6, <2>7, <2>8 DEF ArticlesInv
<1> QED BY <1>4, <1>5 DEF SaveArticle

LEMMA DeleteArticleStep ==
  ASSUME ArticlesInv, NEW a \in Articles, DeleteArticle(a)
  PROVE  ArticlesInv'
<1>1. Live' = Live \ {a} /\ ArticlesType'
  BY DEF DeleteArticle, Live, ArticlesInv, ArticlesType
<1>2. LinksDiffer'
  BY <1>1 DEF DeleteArticle, ArticlesInv, ArticlesType, LinksDiffer, Live
<1>3. ASSUME NEW e \in Edits PROVE ScreenIsCurrent(e)' /\ OverwroteOnce(e)'
  <2>1. edit[e].at /= "closed" => edit[e].of \in Articles
    BY DEF ArticlesInv, ArticlesType, Screen, ClosedScreen
  <2> QED BY <1>1, <2>1, KbAssumption DEF DeleteArticle, ArticlesInv, ArticlesType,
             ScreenIsCurrent, OverwroteOnce
<1> QED BY <1>1, <1>2, <1>3 DEF ArticlesInv

LEMMA ArticlesStep == ArticlesInv /\ [KbNext]_kbVars => ArticlesInv'
<1>1. ArticlesInv /\ UNCHANGED kbVars => ArticlesInv'
  BY DEF kbVars, ArticlesInv, ArticlesType, LinksDiffer, ScreenIsCurrent, OverwroteOnce, Live
<1> QED
  BY <1>1, CreateArticleStep, OpenArticleStep, CheckVersionStep, SaveArticleStep,
     DeleteArticleStep DEF KbNext

LEMMA ArticlesInvTypes == ArticlesInv => KbTypeOK
<1> SUFFICES ASSUME ArticlesInv PROVE KbTypeOK
  OBVIOUS
<1>1. \A a \in Live : article[a] \in ArticleRows
  BY LiveRows DEF Live, ArticlesInv
<1>2. \A e \in Edits : edit[e].at = "closed" \/ edit[e] \in Screen
  BY DEF ArticlesInv, ArticlesType, ClosedScreen
<1> QED BY <1>1, <1>2 DEF KbTypeOK, ArticlesInv, LinksDiffer

\* Rows and screens have their types, and two live articles never share a link,
\* however creations, saves and deletions come between the reads of a PATCH.
THEOREM ArticlesTyped == KbSpec => []KbTypeOK
  BY ArticlesInvTypes, ArticlesInitially, ArticlesStep, PTL DEF KbSpec

\* A save writes over no text its editor had not seen, for any number of
\* editors and articles and whatever happens between form, check and write.
THEOREM NoUnseenOverwrite == KbSpec => []SeenBeforeOverwritten
<1>1. ArticlesInv => SeenBeforeOverwritten
  BY DEF ArticlesInv, OverwroteOnce, SeenBeforeOverwritten
<1> QED BY <1>1, ArticlesInitially, ArticlesStep, PTL DEF KbSpec
---------------------------------------------------------------------------
(***************************************************************************)
(* The readiness report.  What an evaluation may have seen holds all that  *)
(* is wrong now, so each failure it records is one it may have seen.       *)
(***************************************************************************)
Evaluating == {"inboxes", "schema", "dns"}

PartialVerdicts == {<<>>} \cup UNION {[made -> Verdicts] : made \in SUBSET Faults}
Evaluations == [at : Evaluating, verdict : PartialVerdicts, present : SUBSET Faults]

\* The verdicts so far, and the checks that have theirs at each point.
SoundVerdicts(at, v, present) ==
  /\ v \in PartialVerdicts
  /\ DOMAIN v \subseteq Faults
  /\ \A f \in DOMAIN v : v[f] \in Verdicts /\ (v[f] = "failed" => f \in present)
  /\ "no_inbox" \in DOMAIN v
  /\ at = "dns" => "no_tables" \in DOMAIN v

Evaluation(r) ==
  /\ r \in Evaluations
  /\ faults \subseteq r.present
  /\ r.at /= "inboxes" => SoundVerdicts(r.at, r.verdict, r.present)

TrueReports == [blocking : SUBSET Faults, unseen : {{}}]

CheckSound(r) == r = Idle \/ Evaluation(r) \/ r \in [at : {"write"}, report : TrueReports]

ReadyInv ==
  /\ faults \subseteq Faults
  /\ cache \in TrueReports \cup {NoReport}
  /\ DOMAIN check = Checks
  /\ \A c \in Checks : CheckSound(check[c])

LEMMA ReadyInitially == ReadyInit => ReadyInv
  BY DEF ReadyInit, ReadyInv, CheckSound

\* One request moves on while the deployment stays as it is.
LEMMA OneCheckMoves ==
  ASSUME ReadyInv, NEW c \in Checks, NEW r, CheckSound(r), UNCHANGED faults,
         check' = [check EXCEPT ![c] = r], cache' \in TrueReports \cup {NoReport}
  PROVE  ReadyInv'
<1>1. ASSUME NEW d \in Checks PROVE CheckSound(check'[d])
  BY DEF ReadyInv
<1>2. \A q : CheckSound(q)' <=> CheckSound(q)
  BY DEF CheckSound, Evaluation
<1> QED BY <1>1, <1>2 DEF ReadyInv

\* Recording a verdict that says "failed" of a present fault only.
LEMMA RecordSound ==
  ASSUME NEW c \in Checks, NEW f \in Faults, NEW v \in Verdicts, NEW present,
         NEW at, SoundVerdicts("schema", check[c].verdict, present),
         at = "dns" => f = "no_tables" \/ "no_tables" \in DOMAIN check[c].verdict,
         v = "failed" => f \in present
  PROVE  SoundVerdicts(at, Record(c, f, v), present)
<1> DEFINE old == check[c].verdict
           new == [g \in DOMAIN old \cup {f} |-> IF g = f THEN v ELSE old[g]]
<1>1. DOMAIN new = DOMAIN old \cup {f} /\ DOMAIN new \subseteq Faults
  BY DEF SoundVerdicts
<1>2. \A g \in DOMAIN new : new[g] = IF g = f THEN v ELSE old[g]
  OBVIOUS
<1>3. new \in [DOMAIN new -> Verdicts]
  BY <1>1, <1>2 DEF SoundVerdicts
<1> HIDE DEF new
<1>4. new \in PartialVerdicts
  BY <1>1, <1>3 DEF PartialVerdicts
<1>5. SoundVerdicts(at, new, present)
  BY <1>1, <1>2, <1>4 DEF SoundVerdicts
<1> QED BY <1>5 DEF Record, new

LEMMA ReadyStep == ReadyInv /\ [ReadyNext]_readyVars => ReadyInv'
<1> SUFFICES ASSUME ReadyInv, [ReadyNext]_readyVars PROVE ReadyInv'
  OBVIOUS
<1>1. CASE CacheExpires
  BY <1>1 DEF CacheExpires, ReadyInv, CheckSound, Evaluation
<1>2. ASSUME NEW f \in Faults, Change(f) PROVE ReadyInv'
  <2>1. faults' \subseteq Faults /\ faults' \subseteq faults \cup {f}
    BY <1>2 DEF Change, ReadyInv
  <2>2. ASSUME NEW c \in Checks PROVE CheckSound(check[c])'
    <3>1. CASE check[c].at \in {"idle", "write"}
      <4>1. check'[c] = check[c]
        BY <1>2, <3>1 DEF Change
      <4>2. ~Evaluation(check[c])
        BY <3>1 DEF Evaluation, Evaluations, Evaluating
      <4>3. check[c] = Idle \/ check[c] \in [at : {"write"}, report : TrueReports]
        BY <4>2 DEF ReadyInv, CheckSound
      <4> QED BY <4>1, <4>3 DEF CheckSound
    <3>2. CASE check[c].at \notin {"idle", "write"}
      <4>1. Evaluation(check[c])
        BY <3>2 DEF ReadyInv, CheckSound, Idle
      <4> DEFINE present == check[c].present \cup {f}
      <4>2. check'[c] = [check[c] EXCEPT !.present = present]
        BY <1>2, <3>2 DEF Change
      <4>3. /\ check'[c] \in Evaluations /\ check'[c].present = present
            /\ check'[c].at = check[c].at /\ check'[c].verdict = check[c].verdict
        BY <4>1, <4>2 DEF Evaluation, Evaluations
      <4>4. check[c].at /= "inboxes" => SoundVerdicts(check[c].at, check[c].verdict, present)
        BY <4>1 DEF Evaluation, SoundVerdicts
      <4>5. faults' \subseteq present
        BY <2>1, <4>1 DEF Evaluation
      <4> QED BY <4>3, <4>4, <4>5 DEF CheckSound, Evaluation
    <3> QED BY <3>1, <3>2
  <2> QED BY <1>2, <2>1, <2>2 DEF Change, ReadyInv
<1>3. ASSUME NEW c \in Checks, NEW refresh \in BOOLEAN, Ask(c, refresh) PROVE ReadyInv'
  <2>1. CheckSound([at |-> "inboxes", verdict |-> <<>>, present |-> faults])
    BY DEF CheckSound, Evaluation, Evaluations, PartialVerdicts, Evaluating, ReadyInv
  <2> QED BY <1>3, <2>1, OneCheckMoves DEF Ask, ReadyInv
<1>4. ASSUME NEW c \in Checks, check[c].at \in Evaluating
      PROVE  /\ check[c] \in Evaluations
             /\ faults \subseteq check[c].present /\ check[c].present \subseteq Faults
             /\ check[c].at /= "inboxes"
                  => SoundVerdicts(check[c].at, check[c].verdict, check[c].present)
  BY <1>4 DEF ReadyInv, CheckSound, Idle, Evaluating, Evaluation, Evaluations
\* An evaluation moves on with the verdicts w.
<1>5. ASSUME NEW c \in Checks, check[c].at \in Evaluating, NEW at \in Evaluating, NEW w,
             SoundVerdicts(at, w, check[c].present)
      PROVE  /\ CheckSound([check[c] EXCEPT !.at = at, !.verdict = w])
             /\ check[c].at = at => CheckSound([check[c] EXCEPT !.verdict = w])
  <2>1. w \in PartialVerdicts
    BY <1>5 DEF SoundVerdicts
  <2>2. Evaluation([check[c] EXCEPT !.at = at, !.verdict = w])
    BY <1>4, <1>5, <2>1 DEF Evaluation, Evaluations
  <2>3. check[c].at = at => Evaluation([check[c] EXCEPT !.verdict = w])
    BY <1>4, <1>5, <2>1 DEF Evaluation, Evaluations
  <2> QED BY <2>2, <2>3 DEF CheckSound
<1>6. ASSUME NEW c \in Checks, ReadInboxes(c) PROVE ReadyInv'
  <2> DEFINE w == [f \in {"no_inbox"} |-> Verdict(f)]
             r == [check[c] EXCEPT !.at = "schema", !.verdict = w]
  <2>1. check[c].at = "inboxes"
    BY <1>6 DEF ReadInboxes
  <2>2. SoundVerdicts("schema", w, check[c].present)
    <3>1. DOMAIN w = {"no_inbox"} /\ "no_inbox" \in Faults /\ w["no_inbox"] = Verdict("no_inbox")
      BY DEF Faults
    <3>2. w \in [DOMAIN w -> Verdicts] /\ DOMAIN w \subseteq Faults
      BY <3>1 DEF Verdict, Verdicts
    <3> HIDE DEF w
    <3>3. w \in PartialVerdicts
      BY <3>2 DEF PartialVerdicts
    <3>4. w["no_inbox"] = "failed" => "no_inbox" \in check[c].present
      BY <1>4, <2>1, <3>1 DEF Verdict, Evaluating
    <3> QED BY <3>1, <3>2, <3>3, <3>4 DEF SoundVerdicts
  <2>3. check' = [check EXCEPT ![c] = r]
    BY <1>6 DEF ReadInboxes, ReadyInv
  <2>4. CheckSound(r)
    BY <1>5, <2>1, <2>2 DEF Evaluating
  <2> QED BY <1>6, <2>3, <2>4, OneCheckMoves DEF ReadInboxes, ReadyInv
<1>7. ASSUME NEW c \in Checks, ReadSchema(c) PROVE ReadyInv'
  <2>1. check[c].at = "schema" /\ check[c].at \in Evaluating
    BY <1>7 DEF ReadSchema, Evaluating
  <2>2. PICK v \in {"unknown", Verdict("no_tables")} :
          check' = [check EXCEPT ![c].at = "dns", ![c].verdict = Record(c, "no_tables", v)]
    BY <1>7 DEF ReadSchema
  <2> DEFINE w == Record(c, "no_tables", v)
             r == [check[c] EXCEPT !.at = "dns", !.verdict = w]
  <2>3. /\ v \in Verdicts /\ (v = "failed" => "no_tables" \in check[c].present)
        /\ "no_tables" \in Faults
    BY <1>4, <2>1 DEF Verdict, Verdicts, Faults
  <2>4. SoundVerdicts("dns", w, check[c].present)
    BY <1>4, <2>1, <2>3, RecordSound
  <2>5. check' = [check EXCEPT ![c] = r]
    BY <2>2 DEF ReadyInv
  <2>6. CheckSound(r)
    BY <1>5, <2>1, <2>4 DEF Evaluating
  <2> QED BY <1>7, <2>5, <2>6, OneCheckMoves DEF ReadSchema, ReadyInv
<1>8. ASSUME NEW c \in Checks, NEW f \in Dns, ResolveRecord(c, f) PROVE ReadyInv'
  <2>1. check[c].at = "dns" /\ check[c].at \in Evaluating
    BY <1>8 DEF ResolveRecord, Evaluating
  <2>2. PICK answer \in Resolver(f) :
          check' = [check EXCEPT ![c].verdict = Record(c, f, DnsVerdict(answer))]
    BY <1>8 DEF ResolveRecord
  <2> DEFINE v == DnsVerdict(answer)
             w == Record(c, f, v)
             r == [check[c] EXCEPT !.verdict = w]
  <2>3. v \in Verdicts /\ (v = "failed" => f \in check[c].present) /\ f \in Faults
    BY <1>4, <2>1 DEF Resolver, DnsVerdict, Verdicts, Faults
  <2>4. SoundVerdicts("dns", w, check[c].present)
    <3>1. /\ SoundVerdicts("schema", check[c].verdict, check[c].present)
          /\ "no_tables" \in DOMAIN check[c].verdict
      BY <1>4, <2>1 DEF SoundVerdicts
    <3> QED BY <2>3, <3>1, RecordSound
  <2>5. check' = [check EXCEPT ![c] = r]
    BY <2>2 DEF ReadyInv
  <2>6. CheckSound(r)
    BY <1>5, <2>1, <2>4
  <2> QED BY <1>8, <2>5, <2>6, OneCheckMoves DEF ResolveRecord, ReadyInv
<1>9. ASSUME NEW c \in Checks, Evaluated(c) PROVE ReadyInv'
  <2> DEFINE blocking == {f \in Faults : check[c].verdict[f] = "failed"}
             r == [at |-> "write",
                   report |-> [blocking |-> blocking, unseen |-> blocking \ check[c].present]]
  <2>1. SoundVerdicts("dns", check[c].verdict, check[c].present)
    BY <1>4, <1>9 DEF Evaluated, Evaluating
  <2>2. Faults \subseteq DOMAIN check[c].verdict
    BY <1>9, <2>1 DEF Evaluated, SoundVerdicts, Faults
  <2>3. blocking \ check[c].present = {}
    BY <2>1, <2>2 DEF SoundVerdicts
  <2>4. CheckSound(r)
    BY <2>3 DEF CheckSound, TrueReports
  <2>5. check' = [check EXCEPT ![c] = r]
    BY <1>9 DEF Evaluated
  <2> QED BY <1>9, <2>4, <2>5, OneCheckMoves DEF Evaluated, ReadyInv
<1>10. ASSUME NEW c \in Checks, WriteCache(c) \/ Throws(c) PROVE ReadyInv'
  <2>1. CheckSound(Idle)
    BY DEF CheckSound
  <2>2. check[c].at = "write" => check[c].report \in TrueReports
    BY DEF ReadyInv, CheckSound, Idle, Evaluation, Evaluations, Evaluating
  <2> QED BY <1>10, <2>1, <2>2, OneCheckMoves DEF WriteCache, Throws, ReadyInv
<1>11. CASE UNCHANGED readyVars
  BY <1>11 DEF readyVars, ReadyInv, CheckSound, Evaluation
<1> QED
  BY <1>1, <1>2, <1>3, <1>6, <1>7, <1>8, <1>9, <1>10, <1>11 DEF ReadyNext

LEMMA ReadyInvTypes == ReadyInv => ReadyTypeOK
<1> SUFFICES ASSUME ReadyInv PROVE ReadyTypeOK
  OBVIOUS
<1>1. TrueReports \subseteq Reports
  BY DEF TrueReports, Reports
<1>2. ASSUME NEW c \in Checks
      PROVE  /\ check[c].at \in {"idle", "inboxes", "schema", "dns", "write"}
             /\ check[c].at = "write" => check[c].report \in Reports
             /\ check[c].at \in {"schema", "dns"} => \A f \in DOMAIN check[c].verdict :
                                                      check[c].verdict[f] \in Verdicts
  BY <1>1 DEF ReadyInv, CheckSound, Idle, Evaluation, Evaluations, Evaluating, SoundVerdicts
<1> QED BY <1>1, <1>2 DEF ReadyTypeOK, ReadyInv

\* Checks and reports have their types, whatever fails or changes meanwhile.
THEOREM ReadinessTyped == ReadySpec => []ReadyTypeOK
  BY ReadyInvTypes, ReadyInitially, ReadyStep, PTL DEF ReadySpec

\* No report accuses a check that was fine throughout its evaluation, with any
\* number of requests at once and any DNS records the domain should have.
THEOREM NoFalseAccusation == ReadySpec => []AccusedWhenTrue
<1>1. ReadyInv => AccusedWhenTrue
  BY DEF ReadyInv, TrueReports, AccusedWhenTrue
<1> QED BY <1>1, ReadyInitially, ReadyStep, PTL DEF ReadySpec
---------------------------------------------------------------------------
(***************************************************************************)
(* Inboxes.  The rows noted as live ever since a call began are those the  *)
(* call can still come upon: both look-ups before the first, the bare      *)
(* mailbox's before the second, none after it.  A claim names a workspace  *)
(* from the moment it is found, and rows keep their workspace.             *)
(***************************************************************************)
Points == {"tagged", "bare", "claim", "insert", "again", "done"}
LookUps == [at : Points, to : Mailboxes, claim : Owners \cup {NoInbox},
            answer : Spellings \cup {NoInbox}]
NoLookUp == [at |-> "idle"]

InboxesType ==
  /\ inbox \in [Spellings -> InboxRows \cup {NoInbox}]
  /\ support \in [Owners -> Spellings \cup {NoInbox}]
  /\ lookup \in [Resolutions -> LookUps \cup {NoLookUp}]
  /\ alive \in [Resolutions -> SUBSET Spellings]

OneLiveRow ==
  \A s, t \in Rows : inbox[s].live /\ inbox[t].live /\ Mailbox[s] = Mailbox[t] => s = t

\* What a call at r has noted and answered, with its rows still alive in S.
LookUpSound(r, S) ==
  /\ r.at = "tagged" => S \subseteq LiveFor(r.to) \cup LiveFor(Bare[r.to])
  /\ r.at = "bare" => S \subseteq LiveFor(Bare[r.to])
  /\ r.at \in {"claim", "insert", "again"} => S = {}
  /\ r.at \in {"tagged", "bare", "claim"} => r.claim = NoInbox
  /\ r.at \in {"insert", "again"} => r.claim \in Owners
  /\ r.at \in Points => r.answer \in Rows \cup {NoInbox}
  /\ r.at = "done" =>
       /\ r.answer = NoInbox => S = {}
       /\ NoInbox \in {r.claim, r.answer} \/ Owner(r.answer) = r.claim

InboxesInv ==
  /\ InboxesType /\ OneLiveRow
  /\ \A l \in Resolutions : LookUpSound(lookup[l], alive[l])

LEMMA RowsAreTyped ==
  ASSUME InboxesType, NEW s \in Spellings
  PROVE  /\ s \in Rows <=> inbox[s] \in InboxRows
         /\ \A m : LiveFor(m) \subseteq Rows
  BY NoInboxAssumption DEF InboxesType, Rows, LiveFor

LEMMA InboxesInitially == InboxInit => InboxesInv
<1> SUFFICES ASSUME InboxInit PROVE InboxesInv
  OBVIOUS
<1>1. InboxesType
  BY DEF InboxInit, InboxesType, NoLookUp
<1>2. OneLiveRow
  BY DEF InboxInit, OneLiveRow, LiveFor, Rows
<1>3. \A l \in Resolutions : LookUpSound(lookup[l], alive[l])
  BY DEF InboxInit, LookUpSound, Points
<1> QED BY <1>1, <1>2, <1>3 DEF InboxesInv

\* Rows that are written keep or gain their owner and their liveness, so the
\* calls that do not move keep what they have noted.
LEMMA OthersStaySound ==
  ASSUME NEW l \in Resolutions, LookUpSound(lookup[l], alive[l]),
         lookup'[l] = lookup[l], alive'[l] \subseteq alive[l],
         \A s \in Rows : s \in Rows' /\ Owner(s)' = Owner(s),
         \A s \in alive'[l] : s \in Rows /\ inbox[s].live => inbox'[s].live
  PROVE  LookUpSound(lookup[l], alive[l])'
<1>1. \A m : alive'[l] \cap LiveFor(m) \subseteq LiveFor(m)'
  BY DEF LiveFor
<1> QED BY <1>1 DEF LookUpSound, Points, Owner

\* An inbox is inserted for an address without a row of its own or a live one.
LEMMA InsertStep ==
  ASSUME InboxesInv, NEW w \in Owners, NEW m \in Spellings, Insertable(m),
         inbox' = [inbox EXCEPT ![m] = [of |-> w, live |-> TRUE]]
  PROVE  /\ inbox' \in [Spellings -> InboxRows \cup {NoInbox}] /\ OneLiveRow'
         /\ m \in Rows' /\ Owner(m)' = w
         /\ \A s \in Rows : s \in Rows' /\ inbox'[s] = inbox[s] /\ Owner(s)' = Owner(s)
<1> DEFINE entry == [of |-> w, live |-> TRUE]
<1>1. entry \in InboxRows /\ entry /= NoInbox /\ entry.of = w
  <2>1. entry \in InboxRows /\ entry.of = w
    BY DEF InboxRows
  <2> QED BY <2>1, NoInboxAssumption
<1> HIDE DEF entry
<1>2. inbox' = [inbox EXCEPT ![m] = entry] /\ inbox' \in [Spellings -> InboxRows \cup {NoInbox}]
  <2>1. inbox' = [inbox EXCEPT ![m] = entry]
    BY DEF entry
  <2> QED BY <1>1, <2>1 DEF InboxesInv, InboxesType
<1>3. m \in Rows' /\ Owner(m)' = w
  BY <1>1, <1>2 DEF Rows, Owner, InboxesInv, InboxesType
<1>4. \A s \in Rows : s \in Rows' /\ s /= m /\ inbox'[s] = inbox[s]
  BY <1>1, <1>2 DEF Rows, Insertable, InboxesInv, InboxesType
<1>5. OneLiveRow'
  <2> SUFFICES ASSUME NEW s \in Rows', NEW t \in Rows', inbox'[s].live, inbox'[t].live,
                      Mailbox[s] = Mailbox[t]
               PROVE  s = t
    BY DEF OneLiveRow
  <2>1. \A v \in Rows' \ {m} : v \in Rows /\ inbox'[v] = inbox[v]
    BY <1>2 DEF Rows, InboxesInv, InboxesType
  <2>2. \A v \in Rows' \ {m} : inbox'[v].live => Mailbox[v] /= Mailbox[m]
    BY <2>1 DEF Insertable, LiveFor
  <2> QED BY <2>1, <2>2 DEF InboxesInv, OneLiveRow
<1> QED BY <1>2, <1>3, <1>4, <1>5 DEF Owner

\* One call moves while rows and history stay, or one row is inserted for it.
LEMMA LookUpMoves ==
  ASSUME InboxesInv, NEW l \in Resolutions, NEW r \in LookUps, LookUpSound(r, alive[l]),
         UNCHANGED <<inbox, support, alive>>, lookup' = [lookup EXCEPT ![l] = r]
  PROVE  InboxesInv'
<1>1. \A q, S : LookUpSound(q, S)' <=> LookUpSound(q, S)
  BY DEF LookUpSound, LiveFor, Rows, Owner
<1>2. InboxesType' /\ OneLiveRow'
  BY DEF InboxesInv, InboxesType, OneLiveRow, Rows
<1>3. ASSUME NEW j \in Resolutions PROVE LookUpSound(lookup'[j], alive'[j])
  BY DEF InboxesInv, InboxesType
<1> QED BY <1>1, <1>2, <1>3 DEF InboxesInv

LEMMA AddInboxStep ==
  ASSUME InboxesInv, NEW w \in Owners, NEW s \in Spellings, AddInbox(w, s) \/ SignUpInbox(w, s)
  PROVE  InboxesInv'
<1>1. /\ Insertable(s) /\ inbox' = [inbox EXCEPT ![s] = [of |-> w, live |-> TRUE]]
      /\ UNCHANGED <<lookup, alive>> /\ support' \in [Owners -> Spellings \cup {NoInbox}]
  BY DEF AddInbox, SignUpInbox, InboxesInv, InboxesType
<1>2. InboxesType' /\ OneLiveRow'
  BY <1>1, InsertStep DEF InboxesInv, InboxesType
<1>3. ASSUME NEW l \in Resolutions PROVE LookUpSound(lookup[l], alive[l])'
  <2>1. \A t \in Rows : t \in Rows' /\ inbox'[t] = inbox[t] /\ Owner(t)' = Owner(t)
    BY <1>1, InsertStep
  <2> QED BY <1>1, <2>1, OthersStaySound DEF InboxesInv
<1> QED BY <1>2, <1>3 DEF InboxesInv

LEMMA SwitchInboxStep ==
  ASSUME InboxesInv, NEW s \in Spellings, Disable(s) \/ Enable(s)
  PROVE  InboxesInv'
<1>1. inbox[s] \in InboxRows
  BY RowsAreTyped DEF Disable, Enable, Rows, InboxesInv
<1>2. PICK b \in BOOLEAN : inbox' = [inbox EXCEPT ![s] = [of |-> inbox[s].of, live |-> b]]
                           /\ (b <=> Enable(s))
  <2>1. \A b \in BOOLEAN : [inbox[s] EXCEPT !.live = b] = [of |-> inbox[s].of, live |-> b]
    BY <1>1 DEF InboxRows
  <2> QED BY <1>1, <2>1 DEF Disable, Enable, InboxRows
<1> DEFINE entry == [of |-> inbox[s].of, live |-> b]
<1>3. entry \in InboxRows /\ entry /= NoInbox /\ entry.of = inbox[s].of /\ entry.live = b
  BY <1>1, NoInboxAssumption DEF InboxRows
<1> HIDE DEF entry
<1>4. Rows' = Rows /\ inbox'[s] = entry /\ \A t \in Spellings \ {s} : inbox'[t] = inbox[t]
  BY <1>2, <1>3 DEF entry, Rows, Disable, Enable, InboxesInv, InboxesType
<1>5. \A t \in Rows : Owner(t)' = Owner(t)
  BY <1>3, <1>4 DEF Owner, Rows
<1>6. alive' \in [Resolutions -> SUBSET Spellings]
  BY DEF Disable, Enable, InboxesInv, InboxesType
<1>7. InboxesType'
  BY <1>2, <1>3, <1>6 DEF entry, Disable, Enable, InboxesInv, InboxesType
<1>8. OneLiveRow'
  <2> SUFFICES ASSUME NEW t \in Rows, NEW v \in Rows, inbox'[t].live, inbox'[v].live,
                      Mailbox[t] = Mailbox[v]
               PROVE  t = v
    BY <1>4 DEF OneLiveRow
  <2>1. b => LiveFor(Mailbox[s]) = {}
    BY <1>2 DEF Enable
  <2>2. \A u \in Rows \ {s} : inbox'[u] = inbox[u]
    BY <1>4 DEF Rows
  <2>3. inbox'[s].live <=> b
    BY <1>3, <1>4
  <2> QED BY <2>1, <2>2, <2>3 DEF LiveFor, InboxesInv, OneLiveRow
<1>9. ASSUME NEW l \in Resolutions PROVE LookUpSound(lookup[l], alive[l])'
  <2>1. alive'[l] \subseteq alive[l]
    BY DEF Disable, Enable, InboxesInv, InboxesType
  <2>2. \A t \in alive'[l] : t \in Rows /\ inbox[t].live => inbox'[t].live
    BY <1>2, <1>3, <1>4 DEF Disable, Rows, InboxesInv, InboxesType
  <2>3. lookup' = lookup /\ LookUpSound(lookup[l], alive[l])
    BY DEF Disable, Enable, InboxesInv
  <2> QED BY <1>4, <1>5, <2>1, <2>2, <2>3, OthersStaySound
<1> QED BY <1>7, <1>8, <1>9 DEF InboxesInv

\* The two look-ups, the claim, the INSERT and the second look.
LEMMA LookUpStep ==
  ASSUME InboxesInv, NEW l \in Resolutions,
         LookTagged(l) \/ LookBare(l) \/ FindClaim(l) \/ Provision(l) \/ LookAgain(l)
  PROVE  InboxesInv'
<1> DEFINE c == lookup[l]
           Moved(at) == [c EXCEPT !.at = at]
           Answered(s) == [c EXCEPT !.at = "done", !.answer = s]
<1>1. c \in LookUps /\ LookUpSound(c, alive[l])
  BY DEF LookTagged, LookBare, FindClaim, Provision, LookAgain, InboxesInv, InboxesType, NoLookUp
<1>2. ASSUME NEW at \in Points
      PROVE  /\ Moved(at) \in LookUps /\ Moved(at).at = at /\ Moved(at).to = c.to
             /\ Moved(at).claim = c.claim /\ Moved(at).answer = c.answer
  BY <1>1 DEF LookUps
<1>3. ASSUME NEW s \in Spellings \cup {NoInbox}
      PROVE  /\ Answered(s) \in LookUps /\ Answered(s).at = "done"
             /\ Answered(s).claim = c.claim /\ Answered(s).answer = s
  BY <1>1 DEF LookUps, Points
<1>4. ASSUME NEW s \in Spellings \cup {NoInbox}, Answer(l, s)
      PROVE  lookup' = [lookup EXCEPT ![l] = Answered(s)]
  BY <1>4 DEF Answer, InboxesInv, InboxesType
<1>5. ASSUME NEW s \in Rows \cup {NoInbox}, Answer(l, s), UNCHANGED <<inbox, support, alive>>,
             s = NoInbox => alive[l] = {},
             s = NoInbox \/ c.claim = NoInbox \/ Owner(s) = c.claim
      PROVE  InboxesInv'
  <2>1. s \in Spellings \cup {NoInbox}
    BY DEF Rows
  <2>2. LookUpSound(Answered(s), alive[l])
    BY <1>3, <1>5, <2>1 DEF LookUpSound, Points
  <2> QED BY <1>3, <1>4, <1>5, <2>1, <2>2, LookUpMoves
<1>6. ASSUME NEW at \in Points, LookUpSound(Moved(at), alive[l]),
             lookup' = [lookup EXCEPT ![l].at = at], UNCHANGED <<inbox, support, alive>>
      PROVE  InboxesInv'
  <2>1. lookup' = [lookup EXCEPT ![l] = Moved(at)]
    BY <1>6 DEF InboxesInv, InboxesType
  <2> QED BY <1>2, <1>6, <2>1, LookUpMoves
<1>7. \A m : LiveFor(m) \subseteq Rows /\ Rows \subseteq Spellings
  BY DEF LiveFor, Rows
<1> HIDE DEF Moved, Answered
<1>8. CASE LookTagged(l)
  <2>1. CASE LiveFor(c.to) = {}
    <3>1. LookUpSound(Moved("bare"), alive[l])
      BY <1>1, <1>2, <1>8, <2>1 DEF LookUpSound, LookTagged, Points
    <3> QED BY <1>6, <1>8, <2>1, <3>1 DEF LookTagged, Points
  <2>2. CASE LiveFor(c.to) /= {}
    <3>1. PICK s \in LiveFor(c.to) : Answer(l, s)
      BY <1>8, <2>2 DEF LookTagged
    <3>2. s \in Rows /\ s /= NoInbox /\ c.claim = NoInbox
      BY <1>1, <1>7, <1>8, NoInboxAssumption DEF LookTagged, LookUpSound
    <3> QED BY <1>5, <1>8, <3>1, <3>2 DEF LookTagged
  <2> QED BY <2>1, <2>2
<1>9. CASE LookBare(l)
  <2>1. CASE LiveFor(Bare[c.to]) = {}
    <3>1. LookUpSound(Moved("claim"), alive[l])
      BY <1>1, <1>2, <1>9, <2>1 DEF LookUpSound, LookBare, Points
    <3> QED BY <1>6, <1>9, <2>1, <3>1 DEF LookBare, Points
  <2>2. CASE LiveFor(Bare[c.to]) /= {}
    <3>1. PICK s \in LiveFor(Bare[c.to]) : Answer(l, s)
      BY <1>9, <2>2 DEF LookBare
    <3>2. s \in Rows /\ s /= NoInbox /\ c.claim = NoInbox
      BY <1>1, <1>7, <1>9, NoInboxAssumption DEF LookBare, LookUpSound
    <3> QED BY <1>5, <1>9, <3>1, <3>2 DEF LookBare
  <2> QED BY <2>1, <2>2
<1>10. CASE FindClaim(l)
  <2> DEFINE claims == {w \in Owners : support[w] # NoInbox /\ Mailbox[support[w]] = Bare[c.to]}
  <2>1. c.at = "claim" /\ alive[l] = {} /\ UNCHANGED <<inbox, support, alive>>
    BY <1>1, <1>10 DEF FindClaim, LookUpSound
  <2>2. CASE Answer(l, NoInbox)
    BY <1>5, <2>1, <2>2
  <2>3. ASSUME NEW w \in Owners, lookup' = [lookup EXCEPT ![l].at = "insert", ![l].claim = w]
        PROVE  InboxesInv'
    <3> DEFINE r == [c EXCEPT !.at = "insert", !.claim = w]
    <3>1. lookup' = [lookup EXCEPT ![l] = r]
      BY <2>3 DEF InboxesInv, InboxesType
    <3>2. r \in LookUps /\ r.at = "insert" /\ r.claim = w /\ r.answer = c.answer
      BY <1>1 DEF LookUps, Points
    <3>3. LookUpSound(r, alive[l])
      BY <1>1, <2>1, <3>2 DEF LookUpSound, Points
    <3> QED BY <2>1, <3>1, <3>2, <3>3, LookUpMoves
  <2> QED BY <1>10, <2>2, <2>3 DEF FindClaim
<1>11. CASE Provision(l)
  <2> PICK m : m = Bare[c.to]
    OBVIOUS
  <2>1. c.at = "insert" /\ alive[l] = {} /\ c.claim \in Owners /\ UNCHANGED <<support, alive>>
    BY <1>1, <1>11 DEF Provision, LookUpSound
  <2>2. CASE Insertable(m)
    <3>1. m \in Spellings
      BY <1>1, BareAssumption DEF LookUps, Mailboxes
    <3>2. inbox' = [inbox EXCEPT ![m] = [of |-> c.claim, live |-> TRUE]] /\ Answer(l, m)
      BY <1>11, <2>2 DEF Provision
    <3>3. /\ inbox' \in [Spellings -> InboxRows \cup {NoInbox}] /\ OneLiveRow'
          /\ m \in Rows' /\ Owner(m)' = c.claim
          /\ \A s \in Rows : s \in Rows' /\ inbox'[s] = inbox[s] /\ Owner(s)' = Owner(s)
      BY <2>1, <2>2, <3>1, <3>2, InsertStep
    <3>4. lookup' = [lookup EXCEPT ![l] = Answered(m)]
      BY <1>4, <3>1, <3>2
    <3>5. InboxesType'
      BY <1>3, <2>1, <3>1, <3>3, <3>4 DEF InboxesInv, InboxesType
    <3>6. ASSUME NEW j \in Resolutions PROVE LookUpSound(lookup[j], alive[j])'
      <4>1. CASE j = l
        <5>1. lookup'[l] = Answered(m)
          BY <3>4 DEF InboxesInv, InboxesType
        <5> QED BY <1>3, <2>1, <3>1, <3>3, <4>1, <5>1, NoInboxAssumption DEF LookUpSound, Points, Owner
      <4>2. CASE j /= l
        <5>1. lookup'[j] = lookup[j] /\ alive'[j] = alive[j]
          BY <2>1, <3>4, <4>2 DEF InboxesInv, InboxesType
        <5> QED BY <3>3, <5>1, OthersStaySound DEF InboxesInv
      <4> QED BY <4>1, <4>2
    <3> QED BY <3>3, <3>5, <3>6 DEF InboxesInv
  <2>3. CASE ~Insertable(m)
    <3>1. LookUpSound(Moved("again"), alive[l])
      BY <1>1, <1>2, <2>1 DEF LookUpSound, Points
    <3> QED BY <1>6, <1>11, <2>3, <3>1 DEF Provision, Points
  <2> QED BY <2>2, <2>3
<1>12. CASE LookAgain(l)
  <2>1. alive[l] = {} /\ UNCHANGED <<inbox, support, alive>>
    BY <1>1, <1>12 DEF LookAgain, LookUpSound
  <2>2. CASE Answer(l, NoInbox)
    BY <1>5, <2>1, <2>2
  <2>3. ASSUME NEW s \in OwnRows(l), Answer(l, s) PROVE InboxesInv'
    BY <1>5, <1>7, <2>1, <2>3 DEF OwnRows
  <2> QED BY <1>12, <2>2, <2>3 DEF LookAgain
<1> QED BY <1>8, <1>9, <1>10, <1>11, <1>12

LEMMA InboxesStep == InboxesInv /\ [InboxNext]_inboxVars => InboxesInv'
<1> SUFFICES ASSUME InboxesInv, [InboxNext]_inboxVars PROVE InboxesInv'
  OBVIOUS
<1>1. ASSUME NEW l \in Resolutions, NEW m \in Mailboxes, Resolve(l, m) PROVE InboxesInv'
  <2> DEFINE r == [at |-> "tagged", to |-> m, claim |-> NoInbox, answer |-> NoInbox]
  <2>1. r \in LookUps
    BY DEF LookUps, Points
  <2>2. /\ r.at = "tagged" /\ r.to = m /\ r.claim = NoInbox /\ r.answer = NoInbox
        /\ lookup' = [lookup EXCEPT ![l] = r]
    BY <1>1 DEF Resolve
  <2> HIDE DEF r
  <2>3. LookUpSound(r, LiveFor(m) \cup LiveFor(Bare[m]))
    BY <2>2 DEF LookUpSound
  <2>4. InboxesType' /\ OneLiveRow'
    BY <1>1, <2>1, <2>2 DEF Resolve, InboxesInv, InboxesType, OneLiveRow, LiveFor, Rows
  <2>5. \A q, S : LookUpSound(q, S)' <=> LookUpSound(q, S)
    BY <1>1 DEF Resolve, LookUpSound, LiveFor, Rows, Owner
  <2>6. ASSUME NEW j \in Resolutions PROVE LookUpSound(lookup'[j], alive'[j])
    BY <1>1, <2>2, <2>3 DEF Resolve, InboxesInv, InboxesType
  <2> QED BY <2>4, <2>5, <2>6 DEF InboxesInv
<1>2. CASE UNCHANGED inboxVars
  <2>1. \A q, S : LookUpSound(q, S)' <=> LookUpSound(q, S)
    BY <1>2 DEF inboxVars, LookUpSound, LiveFor, Rows, Owner
  <2> QED BY <1>2, <2>1 DEF inboxVars, InboxesInv, InboxesType, OneLiveRow, Rows
<1> QED BY <1>1, <1>2, AddInboxStep, SwitchInboxStep, LookUpStep DEF InboxNext

LEMMA InboxesInvTypes == InboxesInv => InboxTypeOK
<1> SUFFICES ASSUME InboxesInv PROVE InboxTypeOK
  OBVIOUS
<1>1. \A s \in Rows : inbox[s] \in InboxRows
  BY RowsAreTyped DEF Rows, InboxesInv
<1>2. ASSUME NEW m PROVE Cardinality(LiveFor(m)) <= 1
  <2>1. \A s, t \in LiveFor(m) : s = t
    BY DEF InboxesInv, OneLiveRow, LiveFor
  <2>2. LiveFor(m) = {} \/ \E s : LiveFor(m) = {s}
    BY <2>1
  <2>3. CASE LiveFor(m) = {}
    BY <2>3, FS_EmptySet
  <2>4. ASSUME NEW s, LiveFor(m) = {s} PROVE Cardinality(LiveFor(m)) <= 1
    <3>1. Cardinality({s}) = 1
      BY FS_Singleton
    <3> QED BY <2>4, <3>1
  <2> QED BY <2>2, <2>3, <2>4
<1>3. ASSUME NEW l \in Resolutions, lookup[l].at # "idle"
      PROVE  /\ lookup[l].to \in Mailboxes /\ lookup[l].claim \in Owners \cup {NoInbox}
             /\ lookup[l].answer \in Rows \cup {NoInbox}
  BY <1>3 DEF InboxesInv, InboxesType, NoLookUp, LookUps, LookUpSound
<1> QED BY <1>1, <1>2, <1>3 DEF InboxTypeOK

\* Rows and calls have their types, and no address has two live inboxes.
THEOREM InboxesTyped == InboxSpec => []InboxTypeOK
  BY InboxesInvTypes, InboxesInitially, InboxesStep, PTL DEF InboxSpec

\* Provisioned mail is filed with the claiming workspace and a live inbox is
\* never overlooked, for any addresses, workspaces and calls at once.
THEOREM MailIsRouted == InboxSpec => []MailRouted
<1>1. InboxesInv => MailRouted
  BY DEF InboxesInv, LookUpSound, MailRouted, ProvisionedIsOwn, LiveInboxFound
<1> QED BY <1>1, InboxesInitially, InboxesStep, PTL DEF InboxSpec
---------------------------------------------------------------------------
(***************************************************************************)
(* The customers' addresses.  A removal deletes the row it has read and no *)
(* other: the row of an address that was put on file anew has the id of a  *)
(* call that had not written when the removal read.  A merge takes every   *)
(* address of the customer it removes along.                               *)
(***************************************************************************)
Ops == {"idle", "create", "patch", "add", "remove", "merge", "done"}
CallRows == [op : Ops, who : People \cup {NoOne}, address : Addresses \cup {NoOne},
             row : People \cup {"seed", NoOne}]

DirectoryRows ==
  /\ mailbox \in [People -> Addresses \cup {NoOne}]
  /\ identity \in [Addresses -> IdentityRows]
  /\ call \in [Calls -> CallRows]
  /\ kept \subseteq Addresses

\* The foreign key, and the index on the primary address of a customer.
OwnersExist == \A e \in Addresses : OnFile(e) => Listed(identity[e].owner)
OnePrimary ==
  \A e, f \in Addresses :
    e # f /\ identity[e].primary /\ identity[f].primary => identity[e].owner # identity[f].owner

\* What a call holds between its two statements; it has made no customer yet.
CallSound(k) ==
  LET r == call[k]
  IN  /\ r.op \in {"create", "patch", "add"} => r.who \in People /\ r.address \in Addresses
      /\ r.op = "create" => r.who = k
      /\ r.op = "remove" => r.address \in Addresses /\ r.row \in Calls \cup {"seed"}
      /\ r.op = "merge" => r.who \in People /\ r.row \in People /\ r.who # r.row
      /\ r.op # "done" => ~Listed(k)

\* A row has the id of a call that is over, or of none; a row without an owner
\* has no id.
IdsSpent ==
  \A e \in Addresses :
    /\ identity[e].id \in Calls => call[identity[e].id].op = "done"
    /\ OnFile(e) => identity[e].id # NoOne

RemovalSound(k) ==
  call[k].op = "remove" =>
    /\ call[k].row \in Calls => call[call[k].row].op = "done"
    /\ call[k].address \in kept => identity[call[k].address].id # call[k].row

DirectoryInv ==
  /\ DirectoryRows /\ OwnersExist /\ OnePrimary /\ IdsSpent
  /\ \A e \in kept : OnFile(e)
  /\ \A k \in Calls : CallSound(k) /\ RemovalSound(k)

LEMMA NoOneIsNobody == NoOne \notin People /\ NoOne \notin Addresses /\ NoOne /= "seed"
  BY IdAssumption DEF People

LEMMA EndedType == Ended \in CallRows /\ Ended.op = "done" /\ NoCall \in CallRows /\ NoCall.op = "idle"
  BY DEF Ended, NoCall, CallRows, Ops

LEMMA DirectoryInitially == DirectoryInit => DirectoryInv
<1> SUFFICES ASSUME DirectoryInit PROVE DirectoryInv
  OBVIOUS
<1> DEFINE on == DOMAIN Book
<1>1. \A e \in on : e \in Addresses /\ Book[e] \in Contacts \X BOOLEAN
  BY BookAssumption
<1>2. ASSUME NEW e \in Addresses, e \notin on PROVE identity[e] = NoIdentity
  BY <1>2, Zenon DEF DirectoryInit
<1>3. ASSUME NEW e \in on
      PROVE  \E c \in Contacts, p \in BOOLEAN :
               /\ Book[e] = <<c, p>> /\ identity[e] = [owner |-> c, primary |-> p, id |-> "seed"]
  <2>1. PICK c \in Contacts, p \in BOOLEAN : Book[e] = <<c, p>> /\ c = Book[e][1] /\ p = Book[e][2]
    <3>1. Book[e] \in Contacts \X BOOLEAN
      BY BookAssumption
    <3>2. \A b \in Contacts \X BOOLEAN : \E c \in Contacts, p \in BOOLEAN :
            b = <<c, p>> /\ c = b[1] /\ p = b[2]
      OBVIOUS
    <3> QED BY <3>1, <3>2, Zenon
  <2>2. identity[e] = [owner |-> Book[e][1], primary |-> Book[e][2], id |-> "seed"]
    BY <1>1, Zenon DEF DirectoryInit
  <2>3. identity[e] = [owner |-> c, primary |-> p, id |-> "seed"]
    BY <2>1, <2>2, Zenon
  <2> QED BY <2>1, <2>3
<1>3a. ASSUME NEW e \in Addresses
       PROVE  identity[e] \in IdentityRows /\ (OnFile(e) <=> e \in on)
  <2>1. CASE e \in on
    <3>1. PICK c \in Contacts, p \in BOOLEAN : identity[e] = [owner |-> c, primary |-> p, id |-> "seed"]
      BY <1>3, <2>1
    <3> QED BY <2>1, <3>1, NoOneIsNobody DEF OnFile, IdentityRows, People
  <2>2. CASE e \notin on
    <3>1. identity[e] = NoIdentity
      BY <1>2, <2>2
    <3> QED BY <2>2, <3>1 DEF OnFile, NoIdentity, IdentityRows
  <2> QED BY <2>1, <2>2
<1>4. ASSUME NEW c \in People
      PROVE  /\ mailbox[c] \in Addresses \cup {NoOne}
             /\ (\E e \in on : Book[e] = <<c, TRUE>>) => Listed(c)
             /\ Listed(c) => c \in Contacts
  <2>1. CASE \E e \in on : Book[e] = <<c, TRUE>>
    <3>1. mailbox[c] = CHOOSE e \in on : Book[e] = <<c, TRUE>>
      BY <2>1 DEF DirectoryInit
    <3>2. mailbox[c] \in on
      BY <2>1, <3>1
    <3>3. c \in Contacts
      BY <2>1, <1>1
    <3>4. mailbox[c] \in Addresses /\ mailbox[c] /= NoOne
      BY <1>1, <3>2, NoOneIsNobody
    <3> QED BY <3>3, <3>4 DEF Listed
  <2>2. CASE ~\E e \in on : Book[e] = <<c, TRUE>>
    <3>1. mailbox[c] = NoOne
      BY <2>2 DEF DirectoryInit
    <3> QED BY <2>2, <3>1 DEF Listed
  <2> QED BY <2>1, <2>2
<1>5. DirectoryRows
  <2>1. DOMAIN identity = Addresses /\ identity \in [Addresses -> IdentityRows]
    <3>1. identity = [e \in Addresses |-> identity[e]]
      BY DEF DirectoryInit
    <3> QED BY <1>3a, <3>1
  <2>2. mailbox \in [People -> Addresses \cup {NoOne}]
    <3>1. mailbox = [c \in People |-> mailbox[c]]
      BY DEF DirectoryInit
    <3> QED BY <1>4, <3>1
  <2> QED BY <1>1, <2>1, <2>2, EndedType DEF DirectoryInit, DirectoryRows
<1>6. OwnersExist
  <2> SUFFICES ASSUME NEW e \in on PROVE Listed(identity[e].owner)
    BY <1>3a DEF OwnersExist
  <2>1. PICK c \in Contacts, p \in BOOLEAN :
          Book[e] = <<c, p>> /\ identity[e] = [owner |-> c, primary |-> p, id |-> "seed"]
    BY <1>3
  <2>2. \E f \in on : Book[f] = <<c, TRUE>>
    <3>1. <<c, p>>[1] = c
      OBVIOUS
    <3> QED BY <2>1, <3>1, BookAssumption, Zenon
  <2>3. Listed(c)
    BY <1>4, <2>2, Zenon DEF People
  <2> QED BY <2>1, <2>3
<1>7. OnePrimary
  <2> SUFFICES ASSUME NEW e \in Addresses, NEW f \in Addresses, e # f,
                      identity[e].primary, identity[f].primary,
                      identity[e].owner = identity[f].owner
               PROVE  FALSE
    BY DEF OnePrimary
  <2>1. e \in on /\ f \in on
    <3>1. ~NoIdentity.primary
      BY DEF NoIdentity
    <3> QED BY <1>2, <3>1
  <2>2. PICK c \in Contacts, p \in BOOLEAN :
          Book[e] = <<c, p>> /\ identity[e] = [owner |-> c, primary |-> p, id |-> "seed"]
    BY <1>3, <2>1
  <2>3. PICK d \in Contacts, q \in BOOLEAN :
          Book[f] = <<d, q>> /\ identity[f] = [owner |-> d, primary |-> q, id |-> "seed"]
    BY <1>3, <2>1
  <2>4. c = d /\ p /\ q
    BY <2>2, <2>3
  <2>5. p = TRUE /\ q = TRUE
    BY <2>4
  <2>6. Book[e] = Book[f]
    BY <2>2, <2>3, <2>4, <2>5, Zenon
  <2>7. Book[e][2]
    <3>1. <<c, TRUE>>[2]
      OBVIOUS
    <3> QED BY <2>2, <2>5, <3>1, Zenon
  <2> QED BY <2>1, <2>6, <2>7, BookAssumption, Zenon
<1>8. IdsSpent
  <2>1. \A e \in Addresses : identity[e].id \notin Calls /\ (OnFile(e) => identity[e].id = "seed")
    <3> SUFFICES ASSUME NEW e \in Addresses
                 PROVE  identity[e].id \notin Calls /\ (OnFile(e) => identity[e].id = "seed")
      OBVIOUS
    <3>1. CASE e \in on
      <4>1. PICK c \in Contacts, p \in BOOLEAN : identity[e] = [owner |-> c, primary |-> p, id |-> "seed"]
        BY <1>3, <3>1
      <4> QED BY <4>1, IdAssumption
    <3>2. CASE e \notin on
      <4>1. identity[e] = NoIdentity /\ ~OnFile(e)
        BY <1>2, <1>3a, <3>2
      <4> QED BY <4>1, NoOneIsNobody DEF NoIdentity, People
    <3> QED BY <3>1, <3>2
  <2> QED BY <2>1, NoOneIsNobody DEF IdsSpent
<1>9. \A e \in kept : OnFile(e)
  BY <1>1, <1>3a DEF DirectoryInit
<1>10. \A k \in Calls : CallSound(k) /\ RemovalSound(k)
  BY <1>4, IdAssumption DEF DirectoryInit, CallSound, RemovalSound, NoCall, People
<1> QED BY <1>5, <1>6, <1>7, <1>8, <1>9, <1>10 DEF DirectoryInv

\* A call reads and leaves the rows alone; a removal takes its address from kept.
LEMMA ReadStep ==
  ASSUME DirectoryInv, NEW k \in Calls, NEW e \in Addresses, NEW c \in People, NEW s \in People,
         \/ ReadForCreate(k, e) \/ ReadForRemove(k, e)
         \/ ReadForPatch(k, c, e) \/ ReadForAdd(k, c, e) \/ ReadForMerge(k, c, s)
  PROVE  DirectoryInv'
<1>1. /\ UNCHANGED <<mailbox, identity>> /\ kept' \subseteq kept
      /\ call[k].op = "idle"
  BY DEF ReadForCreate, ReadForRemove, ReadForPatch, ReadForAdd, ReadForMerge, Reads, Waiting
<1>2. PICK r \in CallRows :
        /\ call' = [call EXCEPT ![k] = r]
        /\ r.op \in {"create", "patch", "add", "remove", "merge"}
        /\ r.op \in {"create", "patch", "add"} => r.who \in People /\ r.address \in Addresses
        /\ r.op = "create" => r.who = k
        /\ r.op = "merge" => r.who \in People /\ r.row \in People /\ r.who # r.row
        /\ r.op = "remove" => /\ r.address \in Addresses /\ OnFile(r.address)
                              /\ r.row = identity[r.address].id /\ r.address \notin kept'
  <2> DEFINE Row(op, who, address, entry) == [op |-> op, who |-> who, address |-> address, row |-> entry]
  <2>1. CASE ReadForCreate(k, e)
    <3>1. Row("create", k, e, NoOne) \in CallRows
      BY DEF CallRows, Ops, People
    <3> QED BY <2>1, <3>1 DEF ReadForCreate, Reads, People
  <2>2. CASE ReadForPatch(k, c, e)
    <3>1. Row("patch", c, e, NoOne) \in CallRows
      BY DEF CallRows, Ops
    <3> QED BY <2>2, <3>1 DEF ReadForPatch, Reads
  <2>3. CASE ReadForAdd(k, c, e)
    <3>1. Row("add", c, e, NoOne) \in CallRows
      BY DEF CallRows, Ops
    <3> QED BY <2>3, <3>1 DEF ReadForAdd, Reads
  <2>4. CASE ReadForMerge(k, c, s)
    <3>1. Row("merge", c, NoOne, s) \in CallRows
      BY DEF CallRows, Ops
    <3> QED BY <2>4, <3>1 DEF ReadForMerge, Reads
  <2>5. CASE ReadForRemove(k, e)
    <3>1. Row("remove", identity[e].owner, e, identity[e].id) \in CallRows
      BY DEF CallRows, Ops, DirectoryInv, DirectoryRows, IdentityRows, People
    <3> QED BY <2>5, <3>1 DEF ReadForRemove, Reads
  <2> QED BY <2>1, <2>2, <2>3, <2>4, <2>5
<1>3. /\ call'[k] = r /\ \A j \in Calls \ {k} : call'[j] = call[j]
  BY <1>2 DEF DirectoryInv, DirectoryRows
<1>4. \A j \in Calls : call[j].op = "done" => call'[j] = call[j]
  BY <1>1, <1>3
<1>5. DirectoryRows'
  BY <1>1, <1>2 DEF DirectoryInv, DirectoryRows
<1>6. OwnersExist' /\ OnePrimary' /\ \A f \in kept' : OnFile(f)'
  BY <1>1 DEF DirectoryInv, OwnersExist, OnePrimary, OnFile, Listed
<1>7. IdsSpent'
  BY <1>1, <1>4 DEF DirectoryInv, IdsSpent, OnFile
<1>8. ASSUME NEW j \in Calls PROVE CallSound(j)' /\ RemovalSound(j)'
  <2>1. CASE j = k
    <3>1. r.op = "remove" => r.row \in Calls \cup {"seed"} /\ (r.row \in Calls => call[r.row].op = "done")
      BY <1>2 DEF DirectoryInv, DirectoryRows, IdentityRows, IdsSpent
    <3>2. ~Listed(k)
      BY <1>1 DEF DirectoryInv, CallSound
    <3> QED BY <1>1, <1>2, <1>3, <1>4, <2>1, <3>1, <3>2 DEF CallSound, RemovalSound, Listed
  <2>2. CASE j /= k
    <3>1. call'[j] = call[j] /\ CallSound(j) /\ RemovalSound(j)
      BY <1>3, <2>2 DEF DirectoryInv
    <3> QED BY <1>1, <1>4, <3>1 DEF CallSound, RemovalSound, Listed
  <2> QED BY <2>1, <2>2
<1> QED BY <1>5, <1>6, <1>7, <1>8 DEF DirectoryInv

\* What a call may write: rows of its own id where there was none, the ids of
\* the others unchanged, no new customer but its own.
LEMMA WriteStep ==
  ASSUME DirectoryInv, NEW k \in Calls, call[k].op \notin {"idle", "done"}, CallEnds(k),
         identity' \in [Addresses -> IdentityRows],
         mailbox' \in [People -> Addresses \cup {NoOne}],
         kept' \subseteq Addresses,
         \A c \in People \ {k} : Listed(c)' => Listed(c),
         OwnersExist', OnePrimary',
         \A e \in kept' : OnFile(e)',
         \A e \in Addresses :
            \/ identity'[e].id = identity[e].id /\ (OnFile(e)' => OnFile(e)) /\ (e \in kept' => e \in kept)
            \/ identity'[e].id = k
            \/ identity'[e] = NoIdentity
  PROVE  DirectoryInv'
<1>1. call' = [call EXCEPT ![k] = Ended] /\ call'[k].op = "done"
  BY EndedType DEF CallEnds, DirectoryInv, DirectoryRows
<1>2. \A j \in Calls \ {k} : call'[j] = call[j]
  BY <1>1 DEF DirectoryInv, DirectoryRows
<1>3. \A j \in Calls : call[j].op = "done" => call'[j].op = "done"
  BY <1>1, <1>2
<1>4. DirectoryRows'
  BY <1>1, EndedType DEF DirectoryInv, DirectoryRows
<1>5. IdsSpent'
  <2> SUFFICES ASSUME NEW e \in Addresses
               PROVE  /\ identity'[e].id \in Calls => call'[identity'[e].id].op = "done"
                      /\ OnFile(e)' => identity'[e].id # NoOne
    BY DEF IdsSpent
  <2>1. CASE identity'[e].id = identity[e].id /\ (OnFile(e)' => OnFile(e))
    BY <1>3, <2>1 DEF DirectoryInv, IdsSpent
  <2>2. CASE identity'[e].id = k
    BY <1>1, <2>2, NoOneIsNobody DEF People
  <2>3. CASE identity'[e] = NoIdentity
    BY <2>3, NoOneIsNobody DEF NoIdentity, OnFile, People
  <2> QED BY <2>1, <2>2, <2>3
<1>6. ASSUME NEW j \in Calls PROVE CallSound(j)'
  <2>1. CASE j = k
    BY <1>1, <2>1 DEF CallSound
  <2>2. CASE j /= k
    <3>1. CallSound(j) /\ call'[j] = call[j] /\ (Listed(j)' => Listed(j))
      BY <1>2, <2>2 DEF DirectoryInv, People
    <3> QED BY <3>1 DEF CallSound
  <2> QED BY <2>1, <2>2
<1>7. ASSUME NEW j \in Calls PROVE RemovalSound(j)'
  <2> SUFFICES ASSUME call'[j].op = "remove" PROVE RemovalSound(j)'
    BY DEF RemovalSound
  <2> DEFINE e == call[j].address
  <2>1. j /= k /\ call'[j] = call[j]
    BY <1>1, <1>2
  <2>2. RemovalSound(j) /\ e \in Addresses /\ call[j].row \in Calls \cup {"seed"}
    BY <2>1 DEF DirectoryInv, CallSound
  <2>3. call[j].row /= k
    BY <2>1, <2>2 DEF RemovalSound
  <2>4. e \in kept' => identity'[e].id # call[j].row
    <3>1. CASE identity'[e].id = identity[e].id /\ (e \in kept' => e \in kept)
      BY <2>1, <2>2, <3>1 DEF RemovalSound
    <3>2. CASE identity'[e].id = k
      BY <2>3, <3>2
    <3>3. CASE identity'[e] = NoIdentity
      BY <2>2, <3>3, NoOneIsNobody DEF NoIdentity, People
    <3> QED BY <2>2, <3>1, <3>2, <3>3
  <2> QED BY <1>3, <2>1, <2>2, <2>4 DEF RemovalSound
<1> QED BY <1>4, <1>5, <1>6, <1>7 DEF DirectoryInv

LEMMA NewIdentityType ==
  ASSUME NEW k \in Calls, NEW c \in People, NEW primary \in BOOLEAN
  PROVE  /\ NewIdentity(k, c, primary) \in IdentityRows
         /\ NewIdentity(k, c, primary).owner = c /\ NewIdentity(k, c, primary).id = k
         /\ NewIdentity(k, c, primary).primary = primary
  BY DEF NewIdentity, IdentityRows

LEMMA CreateStep ==
  ASSUME DirectoryInv, NEW k \in Calls, Create(k)
  PROVE  DirectoryInv'
<1> DEFINE e == call[k].address
           taken == OnFile(e) \/ \E c \in People : mailbox[c] = e
           entry == NewIdentity(k, k, TRUE)
<1>1. k \in People /\ e \in Addresses /\ ~Listed(k) /\ call[k].op = "create"
  BY DEF Create, Waiting, DirectoryInv, CallSound, People
<1>2. entry \in IdentityRows /\ entry.owner = k /\ entry.id = k
  BY <1>1, NewIdentityType
<1> HIDE DEF entry
<1>3. CASE taken
  <2>1. UNCHANGED <<mailbox, identity, kept>>
    BY <1>3 DEF Create
  <2> QED BY <1>1, <2>1, WriteStep DEF Create, DirectoryInv, DirectoryRows, OwnersExist, OnePrimary, OnFile, Listed
<1>4. CASE ~taken
  <2>1. /\ mailbox' = [mailbox EXCEPT ![k] = e] /\ identity' = [identity EXCEPT ![e] = entry]
        /\ kept' = kept \cup {e}
    BY <1>4 DEF Create, entry
  <2>2. /\ mailbox' \in [People -> Addresses \cup {NoOne}] /\ kept' \subseteq Addresses
        /\ identity' \in [Addresses -> IdentityRows]
    BY <1>1, <1>2, <2>1 DEF DirectoryInv, DirectoryRows
  <2>3. /\ \A c \in People : Listed(c)' <=> Listed(c) \/ c = k
        /\ \A f \in Addresses \ {e} : identity'[f] = identity[f]
        /\ identity'[e] = entry
    BY <1>1, <2>1, NoOneIsNobody DEF DirectoryInv, DirectoryRows, Listed
  <2>4. \A f \in Addresses : OnFile(f)' <=> OnFile(f) \/ f = e
    BY <1>1, <1>2, <2>3, NoOneIsNobody DEF OnFile
  <2>5. OwnersExist'
    BY <1>1, <1>2, <2>3, <2>4 DEF OwnersExist, OnFile, DirectoryInv, DirectoryRows, IdentityRows
  <2>6. \A f \in Addresses : identity[f].owner /= k
    BY <1>1, NoOneIsNobody DEF DirectoryInv, OwnersExist, OnFile
  <2>7. OnePrimary'
    BY <1>2, <2>3, <2>6 DEF OnePrimary, DirectoryInv
  <2> QED BY <1>1, <1>2, <2>1, <2>2, <2>3, <2>4, <2>5, <2>7, WriteStep DEF Create, DirectoryInv, DirectoryRows
<1> QED BY <1>3, <1>4

\* The three statements of setPrimaryEmail, or none of them.
LEMMA SetPrimaryStep ==
  ASSUME DirectoryInv, NEW k \in Calls, SetPrimary(k)
  PROVE  DirectoryInv'
<1>1. PICK c \in People, e \in Addresses :
        c = call[k].who /\ e = call[k].address /\ call[k].op = "patch"
  BY DEF SetPrimary, Waiting, DirectoryInv, CallSound
<1> DEFINE entry == IF OnFile(e) THEN [identity[e] EXCEPT !.primary = TRUE] ELSE NewIdentity(k, c, TRUE)
<1>2. CASE Refused(k, c, e)
  <2>1. UNCHANGED <<mailbox, identity, kept>>
    BY <1>1, <1>2 DEF SetPrimary
  <2> QED BY <1>1, <2>1, WriteStep DEF SetPrimary, DirectoryInv, DirectoryRows, OwnersExist, OnePrimary, OnFile, Listed
<1>3. CASE ~Refused(k, c, e)
  <2>1. /\ identity' = Flagged(k, c, e)
        /\ mailbox' = IF Listed(c) THEN [mailbox EXCEPT ![c] = e] ELSE mailbox
        /\ kept' = IF OnFile(e) THEN kept ELSE kept \cup {e}
    BY <1>1, <1>3 DEF SetPrimary
  <2>2. /\ entry \in IdentityRows
        /\ OnFile(e) => (entry.owner = identity[e].owner /\ entry.id = identity[e].id)
        /\ ~OnFile(e) => (entry.owner = c /\ entry.id = k /\ Listed(c))
    <3>1. CASE OnFile(e)
      <4>1. entry = [identity[e] EXCEPT !.primary = TRUE]
        BY <3>1
      <4> HIDE DEF entry
      <4> QED BY <1>1, <3>1, <4>1 DEF DirectoryInv, DirectoryRows, IdentityRows
    <3>2. CASE ~OnFile(e)
      <4>1. entry = NewIdentity(k, c, TRUE) /\ Listed(c)
        BY <1>3, <3>2 DEF Refused
      <4> HIDE DEF entry
      <4> QED BY <1>1, <3>2, <4>1, NewIdentityType
    <3> QED BY <3>1, <3>2
  <2>3. \A f \in Addresses : [identity[f] EXCEPT !.primary = FALSE] \in IdentityRows
    BY DEF DirectoryInv, DirectoryRows, IdentityRows
  <2>4. /\ identity'[e] = entry
        /\ \A f \in Addresses \ {e} :
             identity'[f] = IF identity[f].owner = c
                            THEN [identity[f] EXCEPT !.primary = FALSE] ELSE identity[f]
    BY <1>1, <2>1 DEF Flagged
  <2>5. identity' \in [Addresses -> IdentityRows]
    <3>1. \A f \in Addresses : identity'[f] \in IdentityRows
      BY <2>2, <2>3, <2>4 DEF DirectoryInv, DirectoryRows
    <3>2. identity' = [f \in Addresses |-> identity'[f]]
      BY <2>1 DEF Flagged
    <3> QED BY <3>1, <3>2
  <2> HIDE DEF entry
  <2>6. ASSUME NEW f \in Addresses \ {e}
        PROVE  /\ identity'[f].owner = identity[f].owner
               /\ identity'[f].id = identity[f].id
               /\ identity'[f].primary => identity[f].primary
    <3>1. identity[f] \in IdentityRows
      BY DEF DirectoryInv, DirectoryRows
    <3>2. identity'[f] \in {identity[f], [identity[f] EXCEPT !.primary = FALSE]}
      BY <2>4
    <3> QED BY <3>1, <3>2 DEF IdentityRows
  <2>7. /\ mailbox' \in [People -> Addresses \cup {NoOne}] /\ kept' \subseteq Addresses
        /\ \A d \in People : Listed(d)' <=> Listed(d)
    BY <1>1, <2>1, NoOneIsNobody DEF DirectoryInv, DirectoryRows, Listed
  <2>8. \A f \in Addresses : OnFile(f)' <=> OnFile(f) \/ f = e
    <3>1. entry.owner /= NoOne
      BY <1>1, <2>2, NoOneIsNobody DEF OnFile
    <3>2. OnFile(e)'
      BY <2>4, <3>1 DEF OnFile
    <3>3. \A f \in Addresses \ {e} : OnFile(f)' <=> OnFile(f)
      BY <2>6 DEF OnFile
    <3> QED BY <3>2, <3>3
  <2>9. OwnersExist'
    <3> SUFFICES ASSUME NEW f \in Addresses, OnFile(f)' PROVE Listed(identity[f].owner)'
      BY DEF OwnersExist
    <3>1. identity'[f].owner \in People
      BY <2>5 DEF OnFile, IdentityRows
    <3>2. Listed(identity'[f].owner)
      BY <2>2, <2>4, <2>6, <2>8 DEF DirectoryInv, OwnersExist
    <3> QED BY <2>7, <3>1, <3>2 DEF Listed
  <2>10. OnePrimary'
    <3>1. \A f \in Addresses \ {e} : identity'[f].primary => identity[f].owner /= entry.owner
      BY <1>3, <2>1, <2>4 DEF Refused
    <3> QED BY <2>4, <2>6, <3>1 DEF OnePrimary, DirectoryInv
  <2>11. \A f \in kept' : OnFile(f)'
    BY <2>1, <2>8, <1>1 DEF DirectoryInv, DirectoryRows
  <2>12. ASSUME NEW f \in Addresses
         PROVE  \/ identity'[f].id = identity[f].id /\ (OnFile(f)' => OnFile(f)) /\ (f \in kept' => f \in kept)
                \/ identity'[f].id = k
    BY <2>1, <2>2, <2>4, <2>6, <2>8
  <2> QED BY <1>1, <2>5, <2>7, <2>9, <2>10, <2>11, <2>12, WriteStep DEF SetPrimary
<1> QED BY <1>2, <1>3

LEMMA AddStep ==
  ASSUME DirectoryInv, NEW k \in Calls, Add(k)
  PROVE  DirectoryInv'
<1> DEFINE c == call[k].who
           e == call[k].address
           entry == NewIdentity(k, c, FALSE)
<1>1. c \in People /\ e \in Addresses /\ call[k].op = "add"
  BY DEF Add, Waiting, DirectoryInv, CallSound
<1>2. entry \in IdentityRows /\ entry.owner = c /\ entry.id = k /\ ~entry.primary
  BY <1>1, NewIdentityType
<1> HIDE DEF entry
<1>3. CASE ~(Listed(c) /\ ~OnFile(e))
  <2>1. UNCHANGED <<mailbox, identity, kept>>
    BY <1>3 DEF Add
  <2> QED BY <1>1, <2>1, WriteStep DEF Add, DirectoryInv, DirectoryRows, OwnersExist, OnePrimary, OnFile, Listed
<1>4. CASE Listed(c) /\ ~OnFile(e)
  <2>1. /\ mailbox' = mailbox /\ identity' = [identity EXCEPT ![e] = entry]
        /\ kept' = kept \cup {e}
    BY <1>4 DEF Add, entry
  <2>2. kept' \subseteq Addresses /\ identity' \in [Addresses -> IdentityRows]
    BY <1>1, <1>2, <2>1 DEF DirectoryInv, DirectoryRows
  <2>3. /\ \A d : Listed(d)' <=> Listed(d)
        /\ \A f \in Addresses \ {e} : identity'[f] = identity[f]
        /\ identity'[e] = entry
    BY <1>1, <2>1 DEF DirectoryInv, DirectoryRows, Listed
  <2>4. \A f \in Addresses : OnFile(f)' <=> OnFile(f) \/ f = e
    BY <1>1, <1>2, <2>3, NoOneIsNobody DEF OnFile
  <2>5. OwnersExist'
    <3>1. \A f \in Addresses : OnFile(f)' => Listed(identity'[f].owner)
      BY <1>2, <1>4, <2>3, <2>4 DEF OwnersExist, DirectoryInv
    <3> QED BY <2>1, <3>1 DEF OwnersExist, Listed
  <2>6. OnePrimary'
    BY <1>2, <2>3 DEF OnePrimary, DirectoryInv
  <2> QED BY <1>1, <1>2, <2>1, <2>2, <2>3, <2>4, <2>5, <2>6, WriteStep DEF Add, DirectoryInv, DirectoryRows
<1> QED BY <1>3, <1>4

\* A row with the id that was read is one nobody put on file since.
LEMMA RemoveStep ==
  ASSUME DirectoryInv, NEW k \in Calls, RemoveIdentity(k)
  PROVE  DirectoryInv'
<1> DEFINE e == call[k].address
<1>1. e \in Addresses /\ call[k].op = "remove" /\ UNCHANGED <<mailbox, kept>> /\ CallEnds(k)
  BY DEF RemoveIdentity, Waiting, DirectoryInv, CallSound
<1>2. CASE identity' = identity
  BY <1>1, <1>2, WriteStep DEF DirectoryInv, DirectoryRows, OwnersExist, OnePrimary, OnFile, Listed
<1>3. CASE identity[e].id = call[k].row
  <2>1. e \notin kept
    BY <1>1, <1>3 DEF DirectoryInv, RemovalSound
  <2>2. identity' = [identity EXCEPT ![e] = NoIdentity]
    BY <1>3 DEF RemoveIdentity
  <2>3. NoIdentity \in IdentityRows /\ NoIdentity.owner = NoOne /\ ~NoIdentity.primary
    BY DEF NoIdentity, IdentityRows
  <2>4. /\ identity' \in [Addresses -> IdentityRows] /\ identity'[e] = NoIdentity
        /\ \A f \in Addresses \ {e} : identity'[f] = identity[f]
    BY <1>1, <2>2, <2>3 DEF DirectoryInv, DirectoryRows
  <2>5. OwnersExist' /\ OnePrimary' /\ (\A f \in kept' : OnFile(f)')
    BY <1>1, <2>1, <2>3, <2>4 DEF DirectoryInv, DirectoryRows, OwnersExist, OnePrimary, OnFile, Listed
  <2> QED BY <1>1, <2>4, <2>5, WriteStep DEF DirectoryInv, DirectoryRows, OnFile, Listed
<1> QED BY <1>2, <1>3 DEF RemoveIdentity

LEMMA MergeStep ==
  ASSUME DirectoryInv, NEW k \in Calls, Merge(k)
  PROVE  DirectoryInv'
<1> DEFINE target == call[k].who
           source == call[k].row
<1>1. /\ target \in People /\ source \in People /\ target # source
      /\ call[k].op = "merge" /\ UNCHANGED kept /\ CallEnds(k)
  BY DEF Merge, Waiting, DirectoryInv, CallSound
<1>2. CASE ~Listed(target)
  <2>1. UNCHANGED <<mailbox, identity>>
    BY <1>2 DEF Merge
  <2> QED BY <1>1, <2>1, WriteStep DEF DirectoryInv, DirectoryRows, OwnersExist, OnePrimary, OnFile, Listed
<1>3. CASE Listed(target)
  <2>1. /\ identity' = [e \in Addresses |->
              IF identity[e].owner = source
              THEN [identity[e] EXCEPT !.owner = target, !.primary = FALSE] ELSE identity[e]]
        /\ mailbox' = [mailbox EXCEPT ![source] = NoOne]
    BY <1>3 DEF Merge
  <2>2. ASSUME NEW e \in Addresses
        PROVE  /\ identity'[e] \in IdentityRows
               /\ identity'[e].id = identity[e].id
               /\ identity'[e].primary => identity[e].primary /\ identity'[e].owner = identity[e].owner
               /\ identity'[e].owner = IF identity[e].owner = source THEN target ELSE identity[e].owner
    BY <1>1, <2>1 DEF DirectoryInv, DirectoryRows, IdentityRows
  <2>3. identity' \in [Addresses -> IdentityRows]
    BY <2>1, <2>2
  <2>4. /\ mailbox' \in [People -> Addresses \cup {NoOne}]
        /\ \A c \in People : Listed(c)' <=> Listed(c) /\ c /= source
    BY <1>1, <2>1 DEF DirectoryInv, DirectoryRows, Listed
  <2>5. \A e \in Addresses : OnFile(e)' <=> OnFile(e)
    BY <1>1, <2>2, NoOneIsNobody DEF OnFile
  <2>6. OwnersExist'
    <3> SUFFICES ASSUME NEW e \in Addresses, OnFile(e)' PROVE Listed(identity[e].owner)'
      BY DEF OwnersExist
    <3>1. identity'[e].owner \in People /\ identity'[e].owner /= source
      BY <1>1, <2>2 DEF OnFile, IdentityRows
    <3>2. Listed(identity'[e].owner)
      BY <1>3, <2>2, <2>5 DEF DirectoryInv, OwnersExist
    <3> QED BY <2>4, <3>1, <3>2 DEF Listed
  <2>7. OnePrimary'
    BY <2>2 DEF OnePrimary, DirectoryInv
  <2> QED BY <1>1, <2>2, <2>3, <2>4, <2>5, <2>6, <2>7, WriteStep DEF DirectoryInv, DirectoryRows
<1> QED BY <1>2, <1>3

LEMMA DirectoryStep == DirectoryInv /\ [DirectoryNext]_directoryVars => DirectoryInv'
<1>1. DirectoryInv /\ UNCHANGED directoryVars => DirectoryInv'
  BY DEF directoryVars, DirectoryInv, DirectoryRows, OwnersExist, OnePrimary, IdsSpent,
     CallSound, RemovalSound, OnFile, Listed
<1>2. ASSUME DirectoryInv, NEW k \in Calls, NEW e \in Addresses,
             ReadForCreate(k, e) \/ ReadForRemove(k, e)
      PROVE  DirectoryInv'
  BY <1>2, ReadStep DEF People
<1>3. ASSUME DirectoryInv, NEW k \in Calls, NEW c \in People, NEW e \in Addresses,
             ReadForPatch(k, c, e) \/ ReadForAdd(k, c, e)
      PROVE  DirectoryInv'
  BY <1>3, ReadStep
<1>4. ASSUME DirectoryInv, NEW k \in Calls, NEW c \in People, NEW s \in People, ReadForMerge(k, c, s)
      PROVE  DirectoryInv'
  <2>1. mailbox[c] \in Addresses
    BY <1>4 DEF ReadForMerge, Listed, DirectoryInv, DirectoryRows
  <2> QED BY <1>4, <2>1, ReadStep
<1> QED
  BY <1>1, <1>2, <1>3, <1>4, CreateStep, SetPrimaryStep, AddStep, RemoveStep, MergeStep
     DEF DirectoryNext

LEMMA DirectoryInvTypes == DirectoryInv => DirectoryTypeOK
  BY DEF DirectoryInv, DirectoryRows, OwnersExist, OnePrimary, DirectoryTypeOK

\* The rows have their types, the owner of every address on file exists, and
\* no customer has two primary addresses, whatever a request finds at its write.
THEOREM DirectoryTyped == DirectorySpec => []DirectoryTypeOK
  BY DirectoryInvTypes, DirectoryInitially, DirectoryStep, PTL DEF DirectorySpec

\* An address on file that nobody asked to remove names a customer that
\* exists, for any customers, addresses and requests.
THEOREM AddressesAreKept == DirectorySpec => []AddressesKept
<1>1. DirectoryInv => AddressesKept
  BY DEF DirectoryInv, DirectoryRows, OwnersExist, AddressesKept
<1> QED BY <1>1, DirectoryInitially, DirectoryStep, PTL DEF DirectorySpec

(***************************************************************************)
(* The export of a workspace.  An export's stored cursor and a run's own    *)
(* cursor both say how far the rows have been copied; a run writes only at  *)
(* or after the stored one, so what that one vouches for is never           *)
(* overwritten.  An export that has been advanced while another waited stands *)
(* behind that one until it is advanced itself, so no run picks it again.    *)
(***************************************************************************)
Cursors == [table : Tables, row : Nat, seq : Nat, size : 1 .. ChunkRows]
Exports == [status : {"none", "running", "completed", "failed", "expired"},
            cursor : Cursors, age : {"today", "old"}]
Walks == [pc : {"idle", "page", "put", "completed", "failed"}, backup : Backups \cup {None},
          cursor : Cursors, page : SUBSET Nat, queries : Nat]

ExportType ==
  /\ rows \in [Workspaces -> [Tables -> SUBSET Nat]]
  /\ \A u \in Workspaces, t \in Tables : rows[u][t] \subseteq 1 .. MaxRow[u][t]
  /\ backup \in [Backups -> Exports]
  /\ asked \in [Backups -> {"no", "alone", "first"}]
  /\ ahead \in [Backups -> SUBSET Backups]
  /\ walk \in Walks
  /\ walk.pc = "put" <=> walk.page /= {}
  /\ \E n \in Nat : walk.page \subseteq 1 .. n
  /\ steady \in [Backups -> [Tables -> SUBSET Nat]]
  /\ overtaken \in [Backups -> [Backups -> Nat]]
  /\ deleting \in SUBSET Backups /\ deleted \in SUBSET Backups

\* Whom the order and the counts name, and that who was passed stands in front.
Counts ==
  /\ \A b \in Backups : backup[b].status = "none" =>
       backup[b] = NoBackup /\ \A other \in Backups : overtaken[other][b] = 0
  /\ \A b \in Backups \ Running : overtaken[b] = NotOvertaken
  /\ \A b, other \in Running : b /= other /\ overtaken[b][other] = 1 => b \in ahead[other]
  /\ FairTurns

QueueInv ==
  /\ \A b \in Backups : asked[b] /= "no" => backup[b].status = "none"
  /\ \A b \in Backups : ahead[b] \subseteq Timed \ {b} /\ (b \notin Timed => ahead[b] = {})
  /\ Counts

\* No export has waited while this one was advanced.
Unpassed(b) == \A other \in Backups \ {b} : overtaken[other][b] = 0

\* Every steady row up to a cursor is in a chunk that is not written again from there.
Reached(b, c) ==
  \A t \in Tables : \A r \in steady[b][t] :
    (t < c.table \/ (t = c.table /\ r <= c.row)) =>
      \E s \in Nat : /\ t = c.table => s < c.seq
                     /\ <<b, t, s>> \in DOMAIN chunks
                     /\ r \in chunks[<<b, t, s>>]
Copied(b) ==
  \A t \in Tables : \A r \in steady[b][t] :
    \E s \in Nat : <<b, t, s>> \in DOMAIN chunks /\ r \in chunks[<<b, t, s>>]
AtOrAfter(c, d) == d.table < c.table \/ (d.table = c.table /\ d.seq <= c.seq)
Gone == deleting \cup deleted

WalkInv ==
  walk.pc /= "idle" =>
    /\ walk.backup \in Backups /\ backup[walk.backup].status /= "none"
    /\ Unpassed(walk.backup)
    /\ walk.backup \notin Gone =>
         /\ walk.backup \in Running
         /\ Reached(walk.backup, walk.cursor)
         /\ AtOrAfter(walk.cursor, backup[walk.backup].cursor)
         /\ walk.pc = "put" =>
              \A r \in steady[walk.backup][walk.cursor.table] :
                walk.cursor.row < r /\ r <= Max(walk.page) => r \in walk.page
         /\ walk.pc = "completed" => Copied(walk.backup)

CopyInv ==
  \A b \in Backups \ Gone :
    /\ b \in Running => /\ Reached(b, backup[b].cursor)
                        /\ \A t \in Tables : steady[b][t] \subseteq rows[OwnerOf[b]][t]
    /\ backup[b].status = "completed" => Copied(b)

ExportInv == ExportType /\ QueueInv /\ WalkInv /\ CopyInv

LEMMA LeastNumber ==
  ASSUME NEW T \in SUBSET Nat, T /= {}
  PROVE  \E m \in T : \A n \in T : m <= n
<1>1. IsWellFoundedOn(OpToRel(<, Nat), Nat)
  BY NatLessThanWellFounded, Zenon
<1>2. PICK m \in T : \A n \in T : ~ (<<n, m>> \in OpToRel(<, Nat))
  BY <1>1, WFMin, Zenon
<1>3. \A n \in T : ~(n < m)
  BY <1>2 DEF OpToRel
<1> QED BY <1>3

\* A bounded set of numbers has a greatest one, and Max finds it.
LEMMA GreatestNumber ==
  ASSUME NEW S \in SUBSET Nat, S /= {}, NEW n \in Nat, \A x \in S : x <= n
  PROVE  Max(S) \in S /\ \A x \in S : x <= Max(S)
<1> DEFINE T == {k \in Nat : \A x \in S : x <= k}
<1>1. n \in T
  OBVIOUS
<1>2. PICK m \in T : \A k \in T : m <= k
  BY <1>1, LeastNumber
<1>3. m \in S
  <2> SUFFICES ASSUME m \notin S PROVE FALSE
    OBVIOUS
  <2>1. PICK x \in S : TRUE
    OBVIOUS
  <2>2. x < m /\ x \in Nat /\ m \in Nat
    BY <1>2, <2>1
  <2>3. m - 1 \in Nat /\ \A y \in S : y <= m - 1
    BY <1>2, <2>2
  <2> QED BY <1>2, <2>2, <2>3
<1>4. \A x \in S : m >= x
  BY <1>2
<1>5. Max(S) \in S /\ \A x \in S : Max(S) >= x
  BY <1>3, <1>4, Zenon DEF Max
<1> QED BY <1>5

\* A page is the rows next to the cursor; only an empty table tail has none.
LEMMA PageIsNext ==
  ASSUME ExportType, NEW u \in Workspaces, NEW c \in Cursors
  PROVE  /\ Page(u, c) \in SUBSET rows[u][c.table]
         /\ Page(u, c) \subseteq 1 .. MaxRow[u][c.table] /\ MaxRow[u][c.table] \in Nat
         /\ \A r \in Page(u, c) : r > c.row
         /\ \A m \in Page(u, c), r \in rows[u][c.table] : c.row < r /\ r <= m => r \in Page(u, c)
         /\ Page(u, c) = {} => \A r \in rows[u][c.table] : r <= c.row
<1> DEFINE rest == {r \in rows[u][c.table] : r > c.row}
           Upto(r) == {s \in rest : s <= r}
<1>1. c.table \in Tables /\ c.row \in Nat /\ c.size \in Nat \ {0}
  BY ExportAssumption DEF Cursors
<1>2. MaxRow[u][c.table] \in Nat /\ rows[u][c.table] \in SUBSET Nat
      /\ rows[u][c.table] \subseteq 1 .. MaxRow[u][c.table]
  BY <1>1, ExportAssumption DEF ExportType, Tables
<1>3. rest \in SUBSET Nat /\ IsFiniteSet(rest)
  <2>1. IsFiniteSet(1 .. MaxRow[u][c.table])
    BY <1>2, FS_Interval
  <2>2. rest \in SUBSET (1 .. MaxRow[u][c.table])
    BY <1>2
  <2> QED BY <2>1, <2>2, <1>2, FS_Subset
<1>4. Page(u, c) = {r \in rest : Cardinality(Upto(r)) <= c.size}
  BY DEF Page
<1>5. ASSUME NEW m \in Page(u, c), NEW r \in rows[u][c.table], c.row < r, r <= m
      PROVE  r \in Page(u, c)
  <2>1. r \in rest /\ m \in rest /\ Cardinality(Upto(m)) <= c.size
    BY <1>4, <1>5, <1>2
  <2>2. Upto(r) \in SUBSET Upto(m) /\ Upto(m) \in SUBSET rest
    BY <1>3, <1>5, <2>1
  <2>3. IsFiniteSet(Upto(m)) /\ IsFiniteSet(Upto(r))
    BY <1>3, <2>2, FS_Subset
  <2>4. Cardinality(Upto(r)) <= Cardinality(Upto(m))
    BY <2>2, <2>3, FS_Subset
  <2>5. Cardinality(Upto(r)) \in Nat /\ Cardinality(Upto(m)) \in Nat
    BY <2>3, FS_CardinalityType
  <2>6. Cardinality(Upto(r)) <= c.size
    BY <2>1, <2>4, <2>5, <1>1
  <2> QED BY <1>4, <2>1, <2>6
<1>6. ASSUME rest /= {} PROVE Page(u, c) /= {}
  <2>1. PICK least \in rest : \A n \in rest : least <= n
    BY <1>3, <1>6, LeastNumber
  <2>2. Upto(least) = {least}
    BY <1>3, <2>1
  <2>3. Cardinality(Upto(least)) = 1
    BY <2>2, FS_Singleton
  <2> QED BY <1>1, <1>4, <2>1, <2>3
<1>7. \A r \in rows[u][c.table] : r \in rest \/ r <= c.row
  BY <1>1, <1>2
<1> HIDE DEF rest
<1> QED
  <2>1. Page(u, c) \in SUBSET rest
    BY <1>4
  <2>2. rest \in SUBSET rows[u][c.table] /\ \A r \in rest : r > c.row
    BY DEF rest
  <2>3. Page(u, c) = {} => \A r \in rows[u][c.table] : r <= c.row
    BY <1>6, <1>7
  <2> QED BY <1>2, <1>5, <2>1, <2>2, <2>3

LEMMA ExportInitially == ExportInit => ExportInv
<1> SUFFICES ASSUME ExportInit PROVE ExportInv
  OBVIOUS
<1>1. FirstCursor \in Cursors
  BY ExportAssumption DEF FirstCursor, Cursors, Tables
<1>2. NoBackup \in Exports /\ NoWalk \in Walks
  BY <1>1 DEF NoBackup, Exports, NoWalk, Walks
<1>3. \A u \in Workspaces, t \in Tables : MaxRow[u][t] \in Nat
  BY ExportAssumption DEF Tables
<1>4. ExportType
  <2>1. \E n \in Nat : walk.page \subseteq 1 .. n
    BY DEF ExportInit, NoWalk
  <2>2. rows \in [Workspaces -> [Tables -> SUBSET Nat]]
    <3>1. \A u \in Workspaces, t \in Tables : 1 .. MaxRow[u][t] \in SUBSET Nat
      BY <1>3
    <3> QED BY <3>1 DEF ExportInit
  <2> QED BY <1>2, <2>1, <2>2 DEF ExportInit, ExportType, NoWalk, NotOvertaken
<1>5. QueueInv
  <2>1. Running = {}
    BY DEF ExportInit, NoBackup, Running
  <2> QED BY <2>1 DEF ExportInit, QueueInv, Counts, FairTurns, NoBackup, NotOvertaken
<1>6. WalkInv /\ CopyInv
  BY DEF ExportInit, WalkInv, CopyInv, NoWalk, NoBackup, Running
<1> QED BY <1>4, <1>5, <1>6 DEF ExportInv

LEMMA QueueFrame == QueueInv /\ UNCHANGED <<backup, asked, ahead, overtaken>> => QueueInv'
  BY DEF QueueInv, Counts, Running, Timed, FairTurns

\* The copied part of the exports depends on neither the run nor the queue.
LEMMA CopyFrame == CopyInv /\ UNCHANGED <<rows, backup, chunks, steady, deleting, deleted>> => CopyInv'
  BY DEF CopyInv, Running, Gone, Reached, Copied

LEMMA WalkFrame ==
  WalkInv /\ UNCHANGED <<walk, backup, chunks, steady, overtaken, deleting, deleted>> => WalkInv'
  BY DEF WalkInv, Unpassed, Running, Gone, Reached, Copied, AtOrAfter

\* A start that has found no running export stands behind all others.
LEMMA CheckRunningStep ==
  ASSUME ExportInv, NEW b \in Backups, CheckRunning(b) PROVE ExportInv'
<1> USE DEF ExportInv
<1>1. /\ backup[b].status = "none" /\ asked[b] = "no" /\ ahead' = MovedLast(b)
      /\ asked' = [asked EXCEPT ![b] = "alone"]
      /\ UNCHANGED <<rows, backup, chunks, walk, steady, overtaken, deleting, deleted>>
  BY DEF CheckRunning
<1>2. Timed \in SUBSET Backups /\ b \notin Timed /\ Running' = Running /\ Timed' = Timed \cup {b}
      /\ b \notin Running
  BY <1>1 DEF Timed, Running, ExportType
<1>3. /\ ahead'[b] = Timed
      /\ \A c \in Backups \ {b} : ahead'[c] = ahead[c] \ {b}
      /\ ahead' \in [Backups -> SUBSET Backups]
  BY <1>1, <1>2 DEF MovedLast, ExportType
<1>4. ExportType'
  BY <1>1, <1>3 DEF ExportType
<1>5. \A c \in Backups : ahead'[c] \subseteq Timed' \ {c} /\ (c \notin Timed' => ahead'[c] = {})
  <2> TAKE c \in Backups
  <2>1. ahead[c] \subseteq Timed \ {c} /\ (c \notin Timed => ahead[c] = {})
    BY DEF QueueInv
  <2> QED BY <2>1, <1>2, <1>3
<1>6. \A c \in Backups : asked'[c] /= "no" => backup'[c].status = "none"
  BY <1>1 DEF QueueInv, ExportType
<1>7. Counts'
  <2>1. Counts
    BY DEF QueueInv
  <2>2. \A c, d \in Running : c /= d /\ overtaken[c][d] = 1 => c \in ahead'[d]
    BY <2>1, <1>2, <1>3 DEF Counts, Running
  <2> QED BY <2>1, <2>2, <1>1, <1>2 DEF Counts, FairTurns
<1>8. WalkInv' /\ CopyInv'
  BY <1>1, WalkFrame, CopyFrame
<1> QED BY <1>4, <1>5, <1>6, <1>7, <1>8 DEF QueueInv

LEMMA CheckRecentStep ==
  ASSUME ExportInv, NEW b \in Backups, CheckRecent(b) PROVE ExportInv'
<1> USE DEF ExportInv
<1> DEFINE to == IF \E other \in OfWorkspace(OwnerOf[b]) : backup[other].age = "today" THEN "no" ELSE "first"
<1>1. /\ asked[b] = "alone" /\ asked' = [asked EXCEPT ![b] = to]
      /\ ahead' = IF to = "no" THEN NotTimed(b) ELSE ahead
      /\ UNCHANGED <<rows, backup, chunks, walk, steady, overtaken, deleting, deleted>>
  BY DEF CheckRecent
<1>2. to \in {"no", "first"}
  OBVIOUS
<1> HIDE DEF to
<1>3. asked' \in [Backups -> {"no", "alone", "first"}] /\ asked'[b] = to
      /\ \A c \in Backups \ {b} : asked'[c] = asked[c]
  BY <1>1, <1>2 DEF ExportType
<1>4. backup[b].status = "none" /\ b \in Timed /\ b \notin Running /\ Running' = Running
      /\ Timed' = IF to = "no" THEN Timed \ {b} ELSE Timed
  <2>1. backup[b].status = "none"
    BY <1>1 DEF QueueInv
  <2>2. Running' = Running /\ b \notin Running
    BY <1>1, <2>1 DEF Running
  <2> QED BY <2>1, <2>2, <1>1, <1>2, <1>3 DEF Timed
<1>5. /\ \A c \in Backups : ahead'[c] \subseteq ahead[c]
      /\ \A c, d \in Backups : c \in ahead[d] /\ c /= b /\ d /= b => c \in ahead'[d]
      /\ ahead' \in [Backups -> SUBSET Backups]
      /\ to = "no" => ahead'[b] = {} /\ \A c \in Backups : b \notin ahead'[c]
  BY <1>1 DEF NotTimed, ExportType
<1>6. ExportType'
  BY <1>1, <1>3, <1>5 DEF ExportType
<1>7. \A c \in Backups : ahead'[c] \subseteq Timed' \ {c} /\ (c \notin Timed' => ahead'[c] = {})
  <2> TAKE c \in Backups
  <2>1. ahead[c] \subseteq Timed \ {c} /\ (c \notin Timed => ahead[c] = {})
    BY DEF QueueInv
  <2> QED BY <2>1, <1>4, <1>5
<1>8. \A c \in Backups : asked'[c] /= "no" => backup'[c].status = "none"
  BY <1>1, <1>3, <1>4 DEF QueueInv
<1>9. Counts'
  <2>1. Counts
    BY DEF QueueInv
  <2>2. \A c, d \in Running : c /= d /\ overtaken[c][d] = 1 => c \in ahead'[d]
    BY <2>1, <1>4, <1>5 DEF Counts, Running
  <2> QED BY <2>1, <2>2, <1>1, <1>4 DEF Counts, FairTurns
<1>10. WalkInv' /\ CopyInv'
  BY <1>1, WalkFrame, CopyFrame
<1> QED BY <1>6, <1>7, <1>8, <1>9, <1>10 DEF QueueInv

\* The row comes into being where its start has been put.
LEMMA InsertBackupStep ==
  ASSUME ExportInv, NEW b \in Backups, InsertBackup(b) PROVE ExportInv'
<1> USE DEF ExportInv
<1>0. asked[b] = "first" /\ asked' = [asked EXCEPT ![b] = "no"]
  BY DEF InsertBackup
<1>1. /\ backup[b].status = "none" /\ backup[b] = NoBackup /\ b \notin Running
      /\ \A c \in Backups : overtaken[c][b] = 0
      /\ overtaken[b] = NotOvertaken
  BY <1>0 DEF QueueInv, Counts, Running
<1>2. backup' = [backup EXCEPT ![b].status = "running"] /\ backup \in [Backups -> Exports]
  BY DEF InsertBackup, ExportType
<1>3. backup' \in [Backups -> Exports] /\ Running' = Running \cup {b}
      /\ backup'[b].cursor = FirstCursor /\ backup'[b].status = "running"
      /\ \A c \in Backups \ {b} : backup'[c] = backup[c]
  BY <1>1, <1>2 DEF Running, Exports, NoBackup
<1>4. OwnerOf[b] \in Workspaces /\ rows[OwnerOf[b]] \in [Tables -> SUBSET Nat]
      /\ \A t \in Tables : MaxRow[OwnerOf[b]][t] \in Nat
                           /\ rows[OwnerOf[b]][t] \subseteq 1 .. MaxRow[OwnerOf[b]][t]
  BY ExportAssumption DEF ExportType, Tables
<1>5. steady' \in [Backups -> [Tables -> SUBSET Nat]] /\ steady'[b] = rows[OwnerOf[b]]
      /\ \A c \in Backups \ {b} : steady'[c] = steady[c]
  BY <1>4 DEF InsertBackup, ExportType
<1>6. /\ asked' \in [Backups -> {"no", "alone", "first"}] /\ asked'[b] = "no"
      /\ \A c \in Backups \ {b} : asked'[c] = asked[c]
      /\ Timed' = Timed
  <2>1. /\ asked' \in [Backups -> {"no", "alone", "first"}] /\ asked'[b] = "no"
        /\ \A c \in Backups \ {b} : asked'[c] = asked[c]
    BY <1>0 DEF ExportType
  <2> QED BY <2>1, <1>0, <1>3 DEF Timed
<1>8. UNCHANGED <<rows, ahead, chunks, walk, overtaken, deleting, deleted>>
  BY DEF InsertBackup
<1>9. ExportType'
  BY <1>3, <1>5, <1>6, <1>8 DEF ExportType
<1>10. QueueInv'
  <2>1. \A c \in Backups : asked'[c] /= "no" => backup'[c].status = "none"
    BY <1>3, <1>6 DEF QueueInv
  <2>2. \A c, d \in Running' : c /= d /\ overtaken'[c][d] = 1 => c \in ahead'[d]
    <3> SUFFICES ASSUME NEW c \in Running', NEW d \in Running', c /= d, overtaken[c][d] = 1
                 PROVE  c \in ahead[d]
      BY <1>8
    <3>1. d \in Backups /\ c /= b /\ d /= b
      BY <1>1 DEF NotOvertaken, Running
    <3> QED BY <3>1, <1>3 DEF QueueInv, Counts
  <2>3. Counts'
    BY <2>2, <1>1, <1>3, <1>8 DEF QueueInv, Counts, FairTurns, NotOvertaken
  <2> QED BY <2>1, <2>3, <1>6, <1>8 DEF QueueInv
<1>11. WalkInv'
  <2> SUFFICES ASSUME walk.pc /= "idle" PROVE WalkInv'
    BY <1>8 DEF WalkInv
  <2>1. walk.backup \in Backups \ {b}
    BY <1>1 DEF WalkInv
  <2>2. steady'[walk.backup] = steady[walk.backup] /\ backup'[walk.backup] = backup[walk.backup]
    BY <2>1, <1>3, <1>5
  <2>3. walk.backup \in Running' <=> walk.backup \in Running
    BY <2>1, <1>3
  <2> QED BY <2>1, <2>2, <2>3, <1>8 DEF WalkInv, Unpassed, Reached, Copied, AtOrAfter, Gone
<1>12. CopyInv'
  <2> SUFFICES ASSUME NEW c \in Backups, c \notin Gone'
               PROVE  /\ c \in Running' => /\ Reached(c, backup[c].cursor)'
                                           /\ \A t \in Tables : steady'[c][t] \subseteq rows'[OwnerOf[c]][t]
                      /\ backup'[c].status = "completed" => Copied(c)'
    BY DEF CopyInv
  <2>1. CASE c = b
    <3>1. Reached(b, backup[b].cursor)'
      BY <1>3, <1>4, <1>5 DEF Reached, FirstCursor, Tables
    <3> QED BY <2>1, <3>1, <1>3, <1>5, <1>8
  <2>2. CASE c /= b
    <3>1. c \in Running' <=> c \in Running
      BY <2>2, <1>3
    <3>2. steady'[c] = steady[c] /\ backup'[c] = backup[c]
      BY <2>2, <1>3, <1>5
    <3>3. Reached(c, backup[c].cursor) => Reached(c, backup[c].cursor)'
      BY <3>2, <1>8 DEF Reached
    <3>4. Copied(c) => Copied(c)'
      BY <3>2, <1>8 DEF Copied
    <3>5. c \notin Gone
      BY <1>8 DEF Gone
    <3> QED BY <3>1, <3>2, <3>3, <3>4, <3>5, <1>8 DEF CopyInv
  <2> QED BY <2>1, <2>2
<1> QED BY <1>9, <1>10, <1>11, <1>12

\* What has been copied of an export stays so while its chunks stay and its steady
\* rows only become fewer.
KeepsChunks(c) ==
  \A t \in Tables :
    /\ steady'[c][t] \subseteq steady[c][t]
    /\ \A s \in Nat : <<c, t, s>> \in DOMAIN chunks =>
         <<c, t, s>> \in DOMAIN chunks' /\ chunks'[<<c, t, s>>] = chunks[<<c, t, s>>]

LEMMA StaysCopied ==
  ASSUME NEW c, KeepsChunks(c)
  PROVE  /\ \A d : Reached(c, d) => Reached(c, d)'
         /\ Copied(c) => Copied(c)'
<1>1. ASSUME NEW d, Reached(c, d) PROVE Reached(c, d)'
  BY <1>1 DEF Reached, KeepsChunks
<1>2. ASSUME Copied(c) PROVE Copied(c)'
  BY <1>2 DEF Copied, KeepsChunks
<1> QED BY <1>1, <1>2

\* The objects of one export are deleted: the chunks of the others stay.
LEMMA OthersChunks ==
  ASSUME NEW b, NEW c, c /= b, chunks' = WithoutObjects(b), UNCHANGED steady
  PROVE  KeepsChunks(c)
  BY DEF WithoutObjects, KeepsChunks

\* An export ends: it is in nobody's way any more, and waits for nobody.
LEMMA LeaveQueue ==
  ASSUME ExportInv, NEW b \in Backups, backup[b].status /= "none",
         ahead' = NotTimed(b), asked' = asked,
         overtaken' = [overtaken EXCEPT ![b] = NotOvertaken],
         backup' \in [Backups -> Exports], backup'[b].status \notin {"none", "running"},
         \A c \in Backups \ {b} : backup'[c] = backup[c]
  PROVE  /\ ahead' \in [Backups -> SUBSET Backups] /\ overtaken' \in [Backups -> [Backups -> Nat]]
         /\ Running' = Running \ {b} /\ QueueInv'
         /\ \A c \in Backups : Unpassed(c) => Unpassed(c)'
<1> USE DEF ExportInv
<1>1. Running' = Running \ {b} /\ Running \in SUBSET Backups
  BY DEF Running
<1>2. asked[b] = "no" /\ Timed' = Timed \ {b} /\ Timed \in SUBSET Backups
  <2>1. asked[b] = "no"
    BY DEF QueueInv
  <2> QED BY <2>1, <1>1 DEF Timed
<1>3. /\ ahead' \in [Backups -> SUBSET Backups] /\ ahead'[b] = {}
      /\ \A c \in Backups \ {b} : ahead'[c] = ahead[c] \ {b}
  BY DEF NotTimed, ExportType
<1>4. NotOvertaken \in [Backups -> Nat] /\ \A c \in Backups : NotOvertaken[c] = 0
  BY DEF NotOvertaken
<1>5. /\ overtaken' \in [Backups -> [Backups -> Nat]] /\ overtaken'[b] = NotOvertaken
      /\ \A c \in Backups \ {b} : overtaken'[c] = overtaken[c]
  BY <1>4 DEF ExportType
<1>6. \A c \in Backups : asked'[c] /= "no" => backup'[c].status = "none"
  BY <1>2 DEF QueueInv
<1>7. \A c \in Backups : ahead'[c] \subseteq Timed' \ {c} /\ (c \notin Timed' => ahead'[c] = {})
  <2> TAKE c \in Backups
  <2>1. ahead[c] \subseteq Timed \ {c} /\ (c \notin Timed => ahead[c] = {})
    BY DEF QueueInv
  <2> QED BY <2>1, <1>2, <1>3
<1>8. Counts'
  <2>1. \A c \in Backups : backup'[c].status = "none" =>
          backup'[c] = NoBackup /\ \A d \in Backups : overtaken'[d][c] = 0
    <3> SUFFICES ASSUME NEW c \in Backups, backup'[c].status = "none"
                 PROVE  backup'[c] = NoBackup /\ \A d \in Backups : overtaken'[d][c] = 0
      OBVIOUS
    <3>1. c /= b /\ backup'[c] = backup[c]
      OBVIOUS
    <3>2. backup[c] = NoBackup /\ \A d \in Backups : overtaken[d][c] = 0
      BY <3>1 DEF QueueInv, Counts
    <3> QED BY <3>1, <3>2, <1>4, <1>5
  <2>2. \A c \in Backups \ Running' : overtaken'[c] = NotOvertaken
    BY <1>1, <1>5 DEF QueueInv, Counts
  <2>3. \A c, d \in Running' : c /= d /\ overtaken'[c][d] = 1 => c \in ahead'[d]
    BY <1>1, <1>3, <1>5 DEF QueueInv, Counts
  <2>4. FairTurns'
    BY <1>4, <1>5 DEF QueueInv, Counts, FairTurns
  <2> QED BY <2>1, <2>2, <2>3, <2>4 DEF Counts
<1>9. \A c \in Backups : Unpassed(c) => Unpassed(c)'
  BY <1>4, <1>5 DEF Unpassed
<1> QED BY <1>1, <1>3, <1>5, <1>6, <1>7, <1>8, <1>9 DEF QueueInv

LEMMA DeleteObjectsStep ==
  ASSUME ExportInv, NEW b \in Backups, DeleteObjects(b) PROVE ExportInv'
<1> USE DEF ExportInv
<1>1. chunks' = WithoutObjects(b) /\ deleting' = deleting \cup {b}
      /\ UNCHANGED <<rows, backup, asked, ahead, walk, steady, overtaken, deleted>>
  BY DEF DeleteObjects
<1>2. ExportType' /\ QueueInv'
  <2>1. ExportType'
    BY <1>1 DEF ExportType
  <2> QED BY <2>1, <1>1, QueueFrame
<1>3. Gone' = Gone \cup {b} /\ Running' = Running
  BY <1>1 DEF Gone, Running
<1>4. \A c \in Backups \ Gone' : KeepsChunks(c)
  BY <1>1, <1>3, OthersChunks
<1>5. WalkInv'
  <2> SUFFICES ASSUME walk.pc /= "idle" PROVE WalkInv'
    BY <1>1 DEF WalkInv
  <2> PICK a, c : a = walk.backup /\ c = walk.cursor
    OBVIOUS
  <2>1. a \notin Gone' => (Reached(a, c) => Reached(a, c)') /\ (Copied(a) => Copied(a)')
    BY <1>4, StaysCopied DEF WalkInv
  <2>2. a \notin Gone' => a \notin Gone
    BY <1>3
  <2>3. walk'.backup = a /\ walk'.cursor = c
    BY <1>1
  <2> QED BY <2>1, <2>2, <2>3, <1>1, <1>3 DEF WalkInv, Unpassed, AtOrAfter
<1>6. CopyInv'
  <2> SUFFICES ASSUME NEW c \in Backups, c \notin Gone'
               PROVE  /\ c \in Running' => /\ Reached(c, backup[c].cursor)'
                                           /\ \A t \in Tables : steady'[c][t] \subseteq rows'[OwnerOf[c]][t]
                      /\ backup'[c].status = "completed" => Copied(c)'
    BY DEF CopyInv
  <2> PICK d : d = backup[c].cursor
    OBVIOUS
  <2>1. (Reached(c, d) => Reached(c, d)') /\ (Copied(c) => Copied(c)') /\ c \notin Gone
    BY <1>3, <1>4, StaysCopied
  <2>2. backup'[c].cursor = d
    BY <1>1
  <2> QED BY <2>1, <2>2, <1>1, <1>3 DEF CopyInv
<1> QED BY <1>2, <1>5, <1>6

\* What a step must leave alone for a run to stay sound under it.
LEMMA WalkStays ==
  ASSUME WalkInv, walk.cursor \in Cursors, UNCHANGED walk, Gone \subseteq Gone',
         \A c \in Backups : backup[c].status /= "none" =>
           /\ backup'[c].status /= "none"
           /\ Unpassed(c) => Unpassed(c)'
           /\ c \in Running' => c \in Running
           /\ c \notin Gone' => /\ KeepsChunks(c) /\ backup'[c].cursor = backup[c].cursor
                                /\ c \in Running => c \in Running'
  PROVE  WalkInv'
<1> SUFFICES ASSUME walk.pc /= "idle" PROVE WalkInv'
  BY DEF WalkInv
<1> PICK a, c : a = walk.backup /\ c = walk.cursor
  OBVIOUS
<1>1. walk'.backup = a /\ walk'.cursor = c /\ a \in Backups /\ backup[a].status /= "none"
  BY DEF WalkInv
<1>2. backup'[a].status /= "none" /\ Unpassed(a)'
  BY <1>1 DEF WalkInv
<1>3. ASSUME a \notin Gone' PROVE
         /\ a \in Running' /\ Reached(a, c)' /\ AtOrAfter(c, backup'[a].cursor)
         /\ walk.pc = "put" =>
              \A r \in steady'[a][c.table] : c.row < r /\ r <= Max(walk.page) => r \in walk.page
         /\ walk.pc = "completed" => Copied(a)'
  <2>1. a \notin Gone /\ KeepsChunks(a) /\ a \in Running' /\ backup'[a].cursor = backup[a].cursor
    BY <1>1, <1>3 DEF WalkInv
  <2>2. Reached(a, c) => Reached(a, c)'
    BY <2>1, StaysCopied
  <2>3. Copied(a) => Copied(a)'
    BY <2>1, StaysCopied
  <2>4. steady'[a][c.table] \subseteq steady[a][c.table]
    BY <2>1 DEF KeepsChunks, Cursors
  <2>5. Reached(a, c) /\ AtOrAfter(c, backup[a].cursor) /\ (walk.pc = "completed" => Copied(a))
    BY <2>1 DEF WalkInv
  <2>6. ASSUME walk.pc = "put", NEW r \in steady'[a][c.table], c.row < r, r <= Max(walk.page)
        PROVE  r \in walk.page
    <3>1. r \in steady[a][c.table]
      BY <2>4, <2>6
    <3>2. \A q \in steady[a][c.table] : c.row < q /\ q <= Max(walk.page) => q \in walk.page
      BY <2>1, <2>6 DEF WalkInv
    <3> QED BY <2>6, <3>1, <3>2
  <2> QED BY <2>1, <2>2, <2>3, <2>5, <2>6
<1> QED BY <1>1, <1>2, <1>3 DEF WalkInv, AtOrAfter

LEMMA CopyStays ==
  ASSUME CopyInv, Gone \subseteq Gone',
         \A c \in Backups \ Gone' :
           /\ KeepsChunks(c)
           /\ c \in Running' =>
                /\ c \in Running /\ backup'[c].cursor = backup[c].cursor
                /\ \A t \in Tables : steady'[c][t] \subseteq rows'[OwnerOf[c]][t]
           /\ backup'[c].status = "completed" => backup[c].status = "completed"
  PROVE  CopyInv'
<1> SUFFICES ASSUME NEW c \in Backups, c \notin Gone'
             PROVE  /\ c \in Running' => /\ Reached(c, backup[c].cursor)'
                                         /\ \A t \in Tables : steady'[c][t] \subseteq rows'[OwnerOf[c]][t]
                    /\ backup'[c].status = "completed" => Copied(c)'
  BY DEF CopyInv
<1> PICK d : d = backup[c].cursor
  OBVIOUS
<1>1. (Reached(c, d) => Reached(c, d)') /\ (Copied(c) => Copied(c)') /\ c \notin Gone
  BY StaysCopied
<1>2. c \in Running' => backup'[c].cursor = d
  OBVIOUS
<1>3. c \in Running' => Reached(c, d)
  BY <1>1 DEF CopyInv
<1>4. backup'[c].status = "completed" => Copied(c)
  BY <1>1 DEF CopyInv
<1> QED BY <1>1, <1>2, <1>3, <1>4

\* Only a row that is there is being deleted, and no row goes.
DeletingMade == \A b \in deleting : backup[b].status /= "none"

LEMMA MarkDeletedStep ==
  ASSUME ExportInv, DeletingMade, NEW b \in Backups, MarkDeleted(b) PROVE ExportInv'
<1> USE DEF ExportInv
<1>1. /\ backup' = [backup EXCEPT ![b].status = "expired", ![b].cursor = FirstCursor]
      /\ ahead' = NotTimed(b) /\ deleting' = deleting \ {b} /\ deleted' = deleted \cup {b}
      /\ b \in deleting /\ overtaken' = [overtaken EXCEPT ![b] = NotOvertaken]
      /\ UNCHANGED <<rows, asked, chunks, walk, steady>>
  BY DEF MarkDeleted
<1>0. backup[b].status /= "none"
  BY <1>1 DEF DeletingMade
<1>2. FirstCursor \in Cursors
  BY ExportAssumption DEF FirstCursor, Cursors, Tables
<1>3. /\ backup' \in [Backups -> Exports] /\ backup'[b].status = "expired"
      /\ \A c \in Backups \ {b} : backup'[c] = backup[c]
  <2>1. backup \in [Backups -> Exports]
    BY DEF ExportType
  <2> DEFINE r == [backup[b] EXCEPT !.status = "expired", !.cursor = FirstCursor]
  <2>2. r \in Exports /\ r.status = "expired"
    BY <2>1, <1>2 DEF Exports
  <2>3. backup' = [backup EXCEPT ![b] = r]
    BY <1>1
  <2> HIDE DEF r
  <2> QED BY <2>1, <2>2, <2>3
<1>4. /\ ahead' \in [Backups -> SUBSET Backups] /\ overtaken' \in [Backups -> [Backups -> Nat]]
      /\ Running' = Running \ {b} /\ QueueInv'
      /\ \A c \in Backups : Unpassed(c) => Unpassed(c)'
  BY <1>0, <1>1, <1>3, LeaveQueue
<1>5. ExportType'
  BY <1>1, <1>3, <1>4 DEF ExportType
<1>6. Gone' = Gone /\ b \in Gone
  BY <1>1 DEF Gone
<1>7. \A c \in Backups : KeepsChunks(c)
  BY <1>1 DEF KeepsChunks
<1>9. WalkInv'
  <2>1. walk.cursor \in Cursors
    BY DEF ExportType, Walks
  <2> QED BY <2>1, <1>1, <1>3, <1>4, <1>6, <1>7, WalkStays
<1>10. CopyInv'
  <2>1. \A c \in Backups \ Gone' : c \in Running' =>
          \A t \in Tables : steady'[c][t] \subseteq rows'[OwnerOf[c]][t]
    BY <1>1, <1>4, <1>6 DEF CopyInv
  <2> QED BY <2>1, <1>3, <1>4, <1>6, <1>7, CopyStays
<1> QED BY <1>4, <1>5, <1>9, <1>10

LEMMA SweepStep ==
  ASSUME ExportInv, NEW b \in Backups, SweepBackup(b) PROVE ExportInv'
<1> USE DEF ExportInv
<1>1. /\ backup' = [backup EXCEPT ![b].status = "expired", ![b].cursor = FirstCursor]
      /\ ahead' = NotTimed(b) /\ chunks' = WithoutObjects(b) /\ walk.pc = "idle"
      /\ overtaken' = [overtaken EXCEPT ![b] = NotOvertaken] /\ backup[b].status /= "none"
      /\ UNCHANGED <<rows, asked, walk, steady, deleting, deleted>>
  BY DEF SweepBackup
<1>2. FirstCursor \in Cursors
  BY ExportAssumption DEF FirstCursor, Cursors, Tables
<1>3. /\ backup' \in [Backups -> Exports] /\ backup'[b].status = "expired"
      /\ \A c \in Backups \ {b} : backup'[c] = backup[c]
  <2>1. backup \in [Backups -> Exports]
    BY DEF ExportType
  <2> DEFINE r == [backup[b] EXCEPT !.status = "expired", !.cursor = FirstCursor]
  <2>2. r \in Exports /\ r.status = "expired"
    BY <2>1, <1>2 DEF Exports
  <2>3. backup' = [backup EXCEPT ![b] = r]
    BY <1>1
  <2> HIDE DEF r
  <2> QED BY <2>1, <2>2, <2>3
<1>4. /\ ahead' \in [Backups -> SUBSET Backups] /\ overtaken' \in [Backups -> [Backups -> Nat]]
      /\ Running' = Running \ {b} /\ QueueInv'
  BY <1>1, <1>3, LeaveQueue
<1>5. ExportType'
  BY <1>1, <1>3, <1>4 DEF ExportType
<1>6. WalkInv'
  BY <1>1 DEF WalkInv
<1>7. CopyInv'
  <2> SUFFICES ASSUME NEW c \in Backups, c \notin Gone'
               PROVE  /\ c \in Running' => /\ Reached(c, backup[c].cursor)'
                                           /\ \A t \in Tables : steady'[c][t] \subseteq rows'[OwnerOf[c]][t]
                      /\ backup'[c].status = "completed" => Copied(c)'
    BY DEF CopyInv
  <2>1. c \notin Gone
    BY <1>1 DEF Gone
  <2>2. CASE c = b
    BY <2>2, <1>3, <1>4
  <2>3. CASE c /= b
    <3> PICK d : d = backup[c].cursor
      OBVIOUS
    <3>1. KeepsChunks(c)
      BY <2>3, <1>1, OthersChunks
    <3>2. (Reached(c, d) => Reached(c, d)') /\ (Copied(c) => Copied(c)')
      BY <3>1, StaysCopied
    <3>3. backup'[c] = backup[c] /\ (c \in Running' <=> c \in Running)
      BY <2>3, <1>3, <1>4
    <3> QED BY <2>1, <3>2, <3>3, <1>1 DEF CopyInv
  <2> QED BY <2>2, <2>3
<1> QED BY <1>4, <1>5, <1>6, <1>7

LEMMA DayStep ==
  ASSUME ExportInv, NEW b \in Backups, DayPasses(b) PROVE ExportInv'
<1> USE DEF ExportInv
<1>1. /\ backup' = [backup EXCEPT ![b].age = "old"] /\ walk.pc = "idle" /\ backup[b].status /= "none"
      /\ UNCHANGED <<rows, asked, ahead, chunks, walk, steady, overtaken, deleting, deleted>>
  BY DEF DayPasses
<1>2. /\ backup' \in [Backups -> Exports]
      /\ \A c \in Backups : backup'[c].status = backup[c].status /\ backup'[c].cursor = backup[c].cursor
      /\ \A c \in Backups \ {b} : backup'[c] = backup[c]
  <2>1. backup \in [Backups -> Exports]
    BY DEF ExportType
  <2> DEFINE r == [backup[b] EXCEPT !.age = "old"]
  <2>2. r \in Exports /\ r.status = backup[b].status /\ r.cursor = backup[b].cursor
    BY <2>1 DEF Exports
  <2>3. backup' = [backup EXCEPT ![b] = r]
    BY <1>1
  <2> HIDE DEF r
  <2> QED BY <2>1, <2>2, <2>3
<1>3. Running' = Running
  BY <1>2 DEF Running
<1>4. ExportType'
  BY <1>1, <1>2 DEF ExportType
<1>5. QueueInv'
  BY <1>1, <1>2, <1>3 DEF QueueInv, Counts, Timed, FairTurns
<1>6. WalkInv'
  BY <1>1 DEF WalkInv
<1>7. CopyInv'
  <2>1. \A c \in Backups : KeepsChunks(c)
    BY <1>1 DEF KeepsChunks
  <2>2. Gone' = Gone
    BY <1>1 DEF Gone
  <2>3. \A c \in Backups \ Gone' : c \in Running' =>
          \A t \in Tables : steady'[c][t] \subseteq rows'[OwnerOf[c]][t]
    BY <1>1, <1>3, <2>2 DEF CopyInv
  <2> QED BY <2>1, <2>2, <2>3, <1>2, <1>3, CopyStays
<1> QED BY <1>4, <1>5, <1>6, <1>7

LEMMA PickStep ==
  ASSUME ExportInv, PickBackup PROVE ExportInv'
<1> USE DEF ExportInv
<1>1. PICK b \in Running : /\ ahead[b] \cap Running = {}
                           /\ walk' = [NoWalk EXCEPT !.pc = "page", !.backup = b, !.cursor = backup[b].cursor]
  BY DEF PickBackup
<1>2. UNCHANGED <<rows, backup, asked, ahead, chunks, steady, overtaken, deleting, deleted>>
  BY DEF PickBackup
<1>3. b \in Backups /\ backup[b].status = "running" /\ backup[b].cursor \in Cursors
  BY DEF Running, ExportType, Exports
<1>4. /\ walk' \in Walks /\ walk'.pc = "page" /\ walk'.page = {} /\ walk'.backup = b
      /\ walk'.cursor = backup[b].cursor
  BY <1>1, <1>3 DEF NoWalk, Walks
<1>5. ExportType'
  BY <1>2, <1>4 DEF ExportType
<1>6. QueueInv' /\ CopyInv'
  BY <1>2, QueueFrame, CopyFrame
<1>7. WalkInv'
  <2> PICK d : d = backup[b].cursor
    OBVIOUS
  <2>1. b \notin Gone => Reached(b, d)
    BY <1>3 DEF CopyInv
  <2>2. Reached(b, d) => Reached(b, d)'
    BY <1>2 DEF Reached
  <2>3. AtOrAfter(d, d)
    BY <1>3 DEF AtOrAfter, Cursors
  <2>4. Gone' = Gone /\ Running' = Running /\ backup' = backup
    BY <1>2 DEF Gone, Running
  <2>5. Unpassed(b)'
    <3> SUFFICES ASSUME NEW c \in Backups \ {b} PROVE overtaken[c][b] = 0
      BY <1>2 DEF Unpassed
    <3>1. CASE c \in Running
      <4>1. overtaken[c][b] /= 1 /\ overtaken[c][b] <= 1
        BY <3>1, <1>1, <1>3 DEF QueueInv, Counts, FairTurns
      <4>2. overtaken[c][b] \in Nat
        BY <1>3 DEF ExportType
      <4> QED BY <4>1, <4>2
    <3>2. CASE c \notin Running
      BY <3>2, <1>3 DEF QueueInv, Counts, NotOvertaken
    <3> QED BY <3>1, <3>2
  <2> QED BY <1>1, <1>3, <1>4, <2>1, <2>2, <2>3, <2>4, <2>5 DEF WalkInv, AtOrAfter
<1> QED BY <1>5, <1>6, <1>7

LEMMA ReadPageStep ==
  ASSUME ExportInv, ReadPage PROVE ExportInv'
<1> USE DEF ExportInv
<1> PICK a, c, page : a = walk.backup /\ c = walk.cursor /\ page = Page(OwnerOf[walk.backup], walk.cursor)
  OBVIOUS
<1>1. /\ walk.pc = "page" /\ a \in Backups /\ c \in Cursors /\ walk.page = {} /\ walk \in Walks
      /\ walk.queries \in Nat
  BY DEF ReadPage, WalkInv, ExportType, Walks
<1>2. UNCHANGED <<rows, backup, asked, ahead, chunks, steady, overtaken, deleting, deleted>>
  BY DEF ReadPage
<1>3. walk' = IF page /= {} THEN [walk EXCEPT !.pc = "put", !.page = page, !.queries = @ + 1]
              ELSE IF c.table = LastTable THEN [walk EXCEPT !.pc = "completed"]
              ELSE [walk EXCEPT !.queries = @ + 1,
                                !.cursor = [FirstCursor EXCEPT !.table = c.table + 1]]
  BY DEF ReadPage
<1>4. OwnerOf[a] \in Workspaces /\ c.table \in Tables /\ c.row \in Nat /\ c.seq \in Nat
  BY <1>1, ExportAssumption DEF Cursors
<1>5. QueueInv' /\ CopyInv'
  BY <1>2, QueueFrame, CopyFrame
<1>6. Gone' = Gone /\ Running' = Running
  BY <1>2 DEF Gone, Running
<1>7. \A e : (Reached(a, e) => Reached(a, e)') /\ (Copied(a) => Copied(a)')
  BY <1>2 DEF Reached, Copied
<1>8. backup[a].status /= "none" /\ Unpassed(a)'
  BY <1>1, <1>2 DEF WalkInv, Unpassed
<1>9. a \notin Gone => /\ a \in Running /\ Reached(a, c) /\ AtOrAfter(c, backup[a].cursor)
                       /\ \A t \in Tables : steady[a][t] \subseteq rows[OwnerOf[a]][t]
  BY <1>1 DEF WalkInv, CopyInv, AtOrAfter
<1>10. /\ page \in SUBSET rows[OwnerOf[a]][c.table]
       /\ page \subseteq 1 .. MaxRow[OwnerOf[a]][c.table] /\ MaxRow[OwnerOf[a]][c.table] \in Nat
       /\ \A m \in page, r \in rows[OwnerOf[a]][c.table] : c.row < r /\ r <= m => r \in page
       /\ page = {} => \A r \in rows[OwnerOf[a]][c.table] : r <= c.row
  BY <1>1, <1>4, PageIsNext
<1>11. /\ steady[a] \in [Tables -> SUBSET Nat]
       /\ \A t \in Tables : rows[OwnerOf[a]][t] \in SUBSET Nat
       /\ \A t \in Tables : \A r \in rows[OwnerOf[a]][t] : r > 0
  <2>1. \A t \in Tables : /\ MaxRow[OwnerOf[a]][t] \in Nat
                          /\ rows[OwnerOf[a]][t] \subseteq 1 .. MaxRow[OwnerOf[a]][t]
    BY <1>4, ExportAssumption DEF Tables, ExportType
  <2> QED BY <2>1, <1>1, <1>4 DEF ExportType
<1>12. CASE page /= {}
  <2>1. walk' = [walk EXCEPT !.pc = "put", !.page = page, !.queries = @ + 1]
    BY <1>3, <1>12
  <2>2. page \in SUBSET Nat
    BY <1>10
  <2>3. /\ walk' \in Walks /\ walk'.pc = "put" /\ walk'.page = page /\ walk'.backup = a
        /\ walk'.cursor = c
    <3>1. walk.queries + 1 \in Nat
      BY <1>1
    <3>2. walk' = [pc |-> "put", backup |-> a, cursor |-> c, page |-> page, queries |-> walk.queries + 1]
      BY <2>1, <1>1 DEF Walks
    <3> QED BY <2>2, <3>1, <3>2, <1>1 DEF Walks
  <2>4. ExportType'
    BY <2>3, <1>2, <1>10, <1>12 DEF ExportType
  <2>5. Max(page) \in page
    BY <2>2, <1>10, <1>12, GreatestNumber
  <2>6. a \notin Gone => \A r \in steady[a][c.table] : c.row < r /\ r <= Max(page) => r \in page
    BY <2>5, <1>4, <1>9, <1>10
  <2>7. WalkInv'
    BY <2>3, <2>6, <1>1, <1>2, <1>6, <1>7, <1>8, <1>9 DEF WalkInv, AtOrAfter
  <2> QED BY <2>4, <2>7, <1>5
<1>13. CASE page = {} /\ c.table = LastTable
  <2>1. walk' = [walk EXCEPT !.pc = "completed"]
    BY <1>3, <1>13
  <2>2. /\ walk' \in Walks /\ walk'.pc = "completed" /\ walk'.page = {} /\ walk'.backup = a
        /\ walk'.cursor = c
    BY <2>1, <1>1 DEF Walks
  <2>3. ExportType'
    BY <2>2, <1>2 DEF ExportType
  <2>4. a \notin Gone => Copied(a)
    <3> SUFFICES ASSUME a \notin Gone, NEW t \in Tables, NEW r \in steady[a][t]
                 PROVE  \E s \in Nat : <<a, t, s>> \in DOMAIN chunks /\ r \in chunks[<<a, t, s>>]
      BY DEF Copied
    <3>1. t < c.table \/ (t = c.table /\ r <= c.row)
      <4>1. t < c.table \/ t = c.table
        BY <1>13, ExportAssumption DEF Tables
      <4>2. t = c.table => r <= c.row
        BY <1>9, <1>10, <1>13
      <4> QED BY <4>1, <4>2
    <3> QED BY <3>1, <1>9 DEF Reached
  <2>5. WalkInv'
    BY <2>2, <2>4, <1>1, <1>2, <1>6, <1>7, <1>8, <1>9 DEF WalkInv, AtOrAfter
  <2> QED BY <2>3, <2>5, <1>5
<1>14. CASE page = {} /\ c.table /= LastTable
  <2> PICK e : e = [FirstCursor EXCEPT !.table = c.table + 1]
    OBVIOUS
  <2>1. walk' = [walk EXCEPT !.queries = @ + 1, !.cursor = e]
    BY <1>3, <1>14
  <2>2. e \in Cursors /\ e.table = c.table + 1 /\ e.row = 0 /\ e.seq = 0
    BY <1>4, <1>14, ExportAssumption DEF FirstCursor, Cursors, Tables
  <2>3. /\ walk' \in Walks /\ walk'.pc = "page" /\ walk'.page = {} /\ walk'.backup = a
        /\ walk'.cursor = e
    <3>1. walk.queries + 1 \in Nat
      BY <1>1
    <3>2. walk' = [pc |-> "page", backup |-> a, cursor |-> e, page |-> {}, queries |-> walk.queries + 1]
      BY <2>1, <1>1 DEF Walks
    <3> QED BY <2>2, <3>1, <3>2, <1>1 DEF Walks
  <2>4. ExportType'
    BY <2>3, <1>2 DEF ExportType
  <2>5. a \notin Gone => Reached(a, e)
    <3> SUFFICES ASSUME a \notin Gone, NEW t \in Tables, NEW r \in steady[a][t],
                        t < e.table \/ (t = e.table /\ r <= e.row)
                 PROVE  \E s \in Nat : /\ t = e.table => s < e.seq
                                       /\ <<a, t, s>> \in DOMAIN chunks
                                       /\ r \in chunks[<<a, t, s>>]
      BY DEF Reached
    <3>1. r \in rows[OwnerOf[a]][t] /\ r > 0 /\ r \in Nat
      BY <1>9, <1>11
    <3>2. t < e.table /\ t \in Int /\ c.table \in Int
      BY <3>1, <2>2, <1>4 DEF Tables
    <3>3. t < c.table \/ t = c.table
      BY <3>2, <2>2
    <3>4. t = c.table => r <= c.row
      BY <3>1, <1>10, <1>14
    <3>5. PICK s \in Nat : <<a, t, s>> \in DOMAIN chunks /\ r \in chunks[<<a, t, s>>]
      BY <3>3, <3>4, <1>9 DEF Reached
    <3>6. t /= e.table
      BY <3>2, <2>2
    <3> QED BY <3>5, <3>6
  <2>6. a \notin Gone => AtOrAfter(e, backup[a].cursor)
    <3>1. backup[a].cursor \in Cursors
      BY <1>1 DEF ExportType, Exports
    <3> QED BY <3>1, <2>2, <1>4, <1>9 DEF AtOrAfter, Cursors, Tables
  <2>7. WalkInv'
    BY <2>3, <2>5, <2>6, <1>1, <1>2, <1>6, <1>7, <1>8, <1>9 DEF WalkInv, AtOrAfter
  <2> QED BY <2>4, <2>7, <1>5
<1> QED BY <1>12, <1>13, <1>14

LEMMA PutChunkStep ==
  ASSUME ExportInv, NEW size \in 1 .. ChunkRows, PutChunk(size) PROVE ExportInv'
<1> USE DEF ExportInv
<1> PICK a, c, page, place : /\ a = walk.backup /\ c = walk.cursor /\ page = walk.page
                           /\ place = <<a, c.table, c.seq>>
  OBVIOUS
<1> PICK e : e = [c EXCEPT !.row = Max(page), !.seq = c.seq + 1, !.size = size]
  OBVIOUS
<1>1. /\ walk.pc = "put" /\ a \in Backups /\ c \in Cursors /\ walk \in Walks
      /\ page \in SUBSET Nat /\ page /= {} /\ walk.queries \in Nat
  BY DEF PutChunk, WalkInv, ExportType, Walks
<1>2. UNCHANGED <<rows, backup, asked, ahead, steady, overtaken, deleting, deleted>>
  BY DEF PutChunk
<1>3. chunks' = [k \in DOMAIN chunks \cup {place} |-> IF k = place THEN page ELSE chunks[k]]
  BY DEF PutChunk
<1>4. walk' = [walk EXCEPT !.pc = "page", !.page = {}, !.cursor = e]
  BY DEF PutChunk
<1>5. Max(page) \in page /\ \A r \in page : r <= Max(page)
  <2>1. PICK n \in Nat : page \subseteq 1 .. n
    BY DEF ExportType
  <2> QED BY <2>1, <1>1, GreatestNumber
<1>6. /\ e \in Cursors /\ e.table = c.table /\ e.row = Max(page) /\ e.seq = c.seq + 1
      /\ c.table \in Tables /\ c.row \in Nat /\ c.seq \in Nat /\ Max(page) \in Nat
  <2>1. c.table \in Tables /\ c.row \in Nat /\ c.seq \in Nat /\ Max(page) \in Nat
    BY <1>1, <1>5 DEF Cursors
  <2>2. e = [table |-> c.table, row |-> Max(page), seq |-> c.seq + 1, size |-> size]
    BY <1>1 DEF Cursors
  <2> PICK last, seq : last = Max(page) /\ seq = c.seq + 1
    OBVIOUS
  <2>3. last \in Nat /\ seq \in Nat
    BY <2>1
  <2>4. e = [table |-> c.table, row |-> last, seq |-> seq, size |-> size]
    BY <2>2
  <2>5. e \in Cursors /\ e.table = c.table /\ e.row = last /\ e.seq = seq
    BY <2>1, <2>3, <2>4 DEF Cursors
  <2> QED BY <2>1, <2>5
<1>7. walk' \in Walks /\ walk'.pc = "page" /\ walk'.page = {} /\ walk'.backup = a /\ walk'.cursor = e
  <2>1. walk' = [pc |-> "page", backup |-> a, cursor |-> e, page |-> {}, queries |-> walk.queries]
    BY <1>1, <1>4 DEF Walks
  <2> QED BY <2>1, <1>1, <1>6 DEF Walks
<1>8. ExportType'
  BY <1>2, <1>7 DEF ExportType
<1>9. QueueInv' /\ Gone' = Gone /\ Running' = Running
  BY <1>2, QueueFrame DEF Gone, Running
<1>10. \A b \in Backups, t \in Tables : \A s \in Nat :
         <<b, t, s>> /= place => (<<b, t, s>> \in DOMAIN chunks =>
           <<b, t, s>> \in DOMAIN chunks' /\ chunks'[<<b, t, s>>] = chunks[<<b, t, s>>])
  BY <1>3
<1>11. place \in DOMAIN chunks' /\ chunks'[place] = page
  BY <1>3
<1>12. \A b \in Backups \ {a} : KeepsChunks(b)
  BY <1>2, <1>10 DEF KeepsChunks
<1>13. backup[a].status /= "none" /\ Unpassed(a)'
  BY <1>1, <1>2 DEF WalkInv, Unpassed
<1>14. a \notin Gone => /\ a \in Running /\ Reached(a, c) /\ AtOrAfter(c, backup[a].cursor)
                        /\ \A r \in steady[a][c.table] : c.row < r /\ r <= Max(page) => r \in page
  BY <1>1 DEF WalkInv, AtOrAfter
<1>15. backup[a].cursor \in Cursors /\ steady[a] \in [Tables -> SUBSET Nat]
  BY <1>1 DEF ExportType, Exports
<1>16. ASSUME a \notin Gone PROVE Reached(a, e)'
  <2> SUFFICES ASSUME NEW t \in Tables, NEW r \in steady[a][t],
                      t < e.table \/ (t = e.table /\ r <= e.row)
               PROVE  \E s \in Nat : /\ t = e.table => s < e.seq
                                     /\ <<a, t, s>> \in DOMAIN chunks'
                                     /\ r \in chunks'[<<a, t, s>>]
    BY <1>2 DEF Reached
  <2>1. CASE t < c.table \/ (t = c.table /\ r <= c.row)
    <3>1. PICK s \in Nat : /\ t = c.table => s < c.seq
                           /\ <<a, t, s>> \in DOMAIN chunks /\ r \in chunks[<<a, t, s>>]
      BY <2>1, <1>14, <1>16 DEF Reached
    <3>2. <<a, t, s>> /= place /\ (t = e.table => s < e.seq)
      BY <3>1, <1>6
    <3> QED BY <3>1, <3>2, <1>1, <1>10
  <2>2. CASE t = c.table /\ ~(r <= c.row)
    <3>1. r \in Nat /\ r \in steady[a][c.table]
      BY <2>2, <1>15
    <3>2. c.row < r /\ r <= Max(page)
      BY <3>1, <2>2, <1>6 DEF Tables
    <3>3. r \in page
      BY <3>1, <3>2, <1>14, <1>16
    <3>4. <<a, t, c.seq>> = place /\ c.seq < e.seq
      BY <2>2, <1>6
    <3> QED BY <3>3, <3>4, <1>6, <1>11
  <2> QED BY <2>1, <2>2, <1>6
<1>17. ASSUME a \notin Gone PROVE Reached(a, backup[a].cursor)' /\ AtOrAfter(e, backup[a].cursor)
  <2> PICK d : d = backup[a].cursor
    OBVIOUS
  <2>1. d \in Cursors /\ d.table \in Tables /\ d.seq \in Nat /\ Tables \subseteq Int /\ AtOrAfter(c, d)
    BY <1>14, <1>15, <1>17 DEF Cursors, Tables
  <2>2. Reached(a, d)
    BY <1>1, <1>14, <1>17 DEF CopyInv
  <2>3. ASSUME NEW t \in Tables, NEW r \in steady[a][t], t < d.table \/ (t = d.table /\ r <= d.row)
        PROVE  \E s \in Nat : /\ t = d.table => s < d.seq
                              /\ <<a, t, s>> \in DOMAIN chunks'
                              /\ r \in chunks'[<<a, t, s>>]
    <3>1. PICK s \in Nat : /\ t = d.table => s < d.seq
                           /\ <<a, t, s>> \in DOMAIN chunks /\ r \in chunks[<<a, t, s>>]
      BY <2>2, <2>3 DEF Reached
    <3>2. t /= c.table \/ s /= c.seq
      BY <3>1, <2>1, <2>3, <1>6 DEF AtOrAfter
    <3>3. <<a, t, s>> /= place
      BY <3>2
    <3> QED BY <3>1, <3>3, <1>1, <1>10
  <2>4. Reached(a, d)'
    BY <2>3, <1>2 DEF Reached
  <2>5. AtOrAfter(e, d)
    BY <2>1, <1>6 DEF AtOrAfter
  <2> QED BY <2>4, <2>5, <1>2
<1>18. WalkInv'
  BY <1>1, <1>2, <1>7, <1>9, <1>13, <1>14, <1>16, <1>17 DEF WalkInv, AtOrAfter
<1>19. CopyInv'
  <2> SUFFICES ASSUME NEW b \in Backups, b \notin Gone'
               PROVE  /\ b \in Running' => /\ Reached(b, backup[b].cursor)'
                                           /\ \A t \in Tables : steady'[b][t] \subseteq rows'[OwnerOf[b]][t]
                      /\ backup'[b].status = "completed" => Copied(b)'
    BY DEF CopyInv
  <2>1. CASE b = a
    <3>1. a \in Running /\ backup[a].status = "running" /\ a \notin Gone
      BY <2>1, <1>9, <1>14 DEF Running
    <3>2. \A t \in Tables : steady[a][t] \subseteq rows[OwnerOf[a]][t]
      BY <1>1, <3>1 DEF CopyInv
    <3> QED BY <2>1, <3>1, <3>2, <1>2, <1>17
  <2>2. CASE b /= a
    <3> PICK d : d = backup[b].cursor
      OBVIOUS
    <3>1. (Reached(b, d) => Reached(b, d)') /\ (Copied(b) => Copied(b)')
      BY <2>2, <1>12, StaysCopied
    <3>2. b \notin Gone /\ backup' = backup
      BY <1>2, <1>9
    <3> QED BY <3>1, <3>2, <1>2, <1>9 DEF CopyInv
  <2> QED BY <2>1, <2>2
<1> QED BY <1>8, <1>9, <1>18, <1>19

\* A run that fails or ends where it stands.
LEMMA HaltStep ==
  ASSUME ExportInv, PutFails \/ WalkDies PROVE ExportInv'
<1> USE DEF ExportInv
<1>1. UNCHANGED <<rows, backup, asked, ahead, chunks, steady, overtaken, deleting, deleted>>
  BY DEF PutFails, WalkDies
<1>2. QueueInv' /\ CopyInv'
  BY <1>1, QueueFrame, CopyFrame
<1>3. CASE PutFails
  <2>1. walk.pc = "put" /\ walk' = [walk EXCEPT !.pc = "failed", !.page = {}] /\ walk \in Walks
    BY <1>3 DEF PutFails, ExportType
  <2>2. /\ walk' \in Walks /\ walk'.pc = "failed" /\ walk'.page = {}
        /\ walk'.backup = walk.backup /\ walk'.cursor = walk.cursor
    BY <2>1 DEF Walks
  <2>3. ExportType'
    BY <2>2, <1>1 DEF ExportType
  <2>4. WalkInv'
    BY <2>1, <2>2, <1>1 DEF WalkInv, AtOrAfter, Unpassed, Reached, Gone, Running
  <2> QED BY <2>3, <2>4, <1>2
<1>4. CASE WalkDies
  <2>1. walk' = NoWalk /\ NoWalk \in Walks /\ NoWalk.pc = "idle" /\ NoWalk.page = {}
    BY <1>4, ExportAssumption DEF WalkDies, NoWalk, Walks, FirstCursor, Cursors, Tables
  <2> QED BY <2>1, <1>1, <1>2 DEF ExportType, WalkInv
<1> QED BY <1>3, <1>4

\* An advance of an export that is running: every other one that runs has been
\* passed by it once, and stands in front of it from then on.
LEMMA AdvanceQueue ==
  ASSUME ExportInv, NEW a \in Running, Unpassed(a), asked' = asked,
         backup' \in [Backups -> Exports], backup'[a].status /= "none",
         \A c \in Backups \ {a} : backup'[c] = backup[c],
         ahead' = IF backup'[a].status = "running" THEN MovedLast(a) ELSE NotTimed(a),
         overtaken' = [c \in Backups |->
                         IF c = a THEN NotOvertaken
                         ELSE IF c \in Running THEN [overtaken[c] EXCEPT ![a] = @ + 1]
                         ELSE overtaken[c]]
  PROVE  /\ ahead' \in [Backups -> SUBSET Backups] /\ overtaken' \in [Backups -> [Backups -> Nat]]
         /\ QueueInv'
<1> USE DEF ExportInv
<1>1. /\ a \in Backups /\ Running \in SUBSET Backups /\ backup[a].status = "running"
      /\ Running' = IF backup'[a].status = "running" THEN Running ELSE Running \ {a}
  BY DEF Running
<1>2. /\ Timed \in SUBSET Backups /\ Running \subseteq Timed /\ a \in Timed
      /\ Timed' = IF backup'[a].status = "running" THEN Timed ELSE Timed \ {a}
  <2>1. asked[a] = "no"
    BY <1>1 DEF QueueInv
  <2> QED BY <2>1, <1>1 DEF Timed
<1>3. /\ \A c \in Backups \ {a} : ahead'[c] = ahead[c] \ {a}
      /\ ahead'[a] = IF backup'[a].status = "running" THEN Timed \ {a} ELSE {}
      /\ ahead' \in [Backups -> SUBSET Backups]
  BY <1>1, <1>2 DEF MovedLast, NotTimed, ExportType
<1>4. NotOvertaken \in [Backups -> Nat] /\ \A c \in Backups : NotOvertaken[c] = 0
  BY DEF NotOvertaken
<1>5. /\ overtaken'[a] = NotOvertaken
      /\ \A c \in Backups : overtaken[c] \in [Backups -> Nat]
      /\ \A c \in Running \ {a} : overtaken'[c] = [overtaken[c] EXCEPT ![a] = 1]
      /\ \A c \in Backups \ Running : overtaken'[c] = overtaken[c]
  <2>1. \A c \in Backups : overtaken[c] \in [Backups -> Nat]
    BY DEF ExportType
  <2>2. \A c \in Running \ {a} : overtaken[c][a] = 0
    BY <1>1 DEF Unpassed
  <2>3. overtaken'[a] = NotOvertaken /\ \A c \in Backups \ Running : overtaken'[c] = overtaken[c]
    BY <1>1
  <2>4. ASSUME NEW c \in Running \ {a} PROVE overtaken'[c] = [overtaken[c] EXCEPT ![a] = 1]
    <3>1. overtaken'[c] = [overtaken[c] EXCEPT ![a] = overtaken[c][a] + 1]
      BY <1>1
    <3>2. overtaken[c][a] + 1 = 1
      BY <2>2
    <3> QED BY <3>1, <3>2
  <2> QED BY <2>1, <2>3, <2>4
<1>6. /\ \A c, d \in Backups : overtaken'[c][d] = IF c = a THEN 0 ELSE IF c \in Running /\ d = a THEN 1
                                                 ELSE overtaken[c][d]
      /\ overtaken' \in [Backups -> [Backups -> Nat]]
  <2>1. ASSUME NEW c \in Backups
        PROVE  /\ overtaken'[c] \in [Backups -> Nat]
               /\ \A d \in Backups : overtaken'[c][d] = IF c = a THEN 0 ELSE IF c \in Running /\ d = a THEN 1
                                                         ELSE overtaken[c][d]
    <3>1. CASE c = a
      BY <3>1, <1>4, <1>5
    <3>2. CASE c \in Running \ {a}
      <4> PICK f : f = overtaken[c]
        OBVIOUS
      <4>1. overtaken'[c] = [f EXCEPT ![a] = 1] /\ f \in [Backups -> Nat]
        BY <3>2, <1>5
      <4>2. \A d \in Backups : [f EXCEPT ![a] = 1][d] = IF d = a THEN 1 ELSE f[d]
        BY <4>1
      <4>3. [f EXCEPT ![a] = 1] \in [Backups -> Nat]
        BY <4>1
      <4> QED BY <4>1, <4>2, <4>3, <3>2
    <3>3. CASE c \notin Running
      BY <3>3, <1>5, <1>1
    <3> QED BY <3>1, <3>2, <3>3
  <2>2. overtaken' = [c \in Backups |-> overtaken'[c]]
    OBVIOUS
  <2> QED BY <2>1, <2>2
<1>7. \A c \in Backups : asked'[c] /= "no" => backup'[c].status = "none"
  BY <1>1 DEF QueueInv
<1>8. \A c \in Backups : ahead'[c] \subseteq Timed' \ {c} /\ (c \notin Timed' => ahead'[c] = {})
  <2> TAKE c \in Backups
  <2>1. ahead[c] \subseteq Timed \ {c} /\ (c \notin Timed => ahead[c] = {})
    BY DEF QueueInv
  <2> QED BY <2>1, <1>2, <1>3
<1>9. Counts'
  <2>0. Counts
    BY DEF QueueInv
  <2>1. \A c \in Backups : backup'[c].status = "none" =>
          backup'[c] = NoBackup /\ \A d \in Backups : overtaken'[d][c] = 0
    <3> SUFFICES ASSUME NEW c \in Backups, backup'[c].status = "none", NEW d \in Backups
                 PROVE  backup'[c] = NoBackup /\ overtaken'[d][c] = 0
      OBVIOUS
    <3>1. c /= a /\ backup'[c] = backup[c]
      OBVIOUS
    <3>2. backup[c] = NoBackup /\ overtaken[d][c] = 0
      BY <2>0, <3>1 DEF Counts
    <3> QED BY <3>1, <3>2, <1>6
  <2>2. \A c \in Backups \ Running' : overtaken'[c] = NotOvertaken
    BY <2>0, <1>1, <1>5 DEF Counts
  <2>3. \A c, d \in Running' : c /= d /\ overtaken'[c][d] = 1 => c \in ahead'[d]
    <3> SUFFICES ASSUME NEW c \in Running', NEW d \in Running', c /= d, overtaken'[c][d] = 1
                 PROVE  c \in ahead'[d]
      OBVIOUS
    <3>1. c \in Running /\ d \in Running /\ c \in Backups /\ d \in Backups
      BY <1>1
    <3>2. c /= a
      BY <3>1, <1>6
    <3>3. CASE d = a
      BY <3>1, <3>2, <3>3, <1>1, <1>2, <1>3
    <3>4. CASE d /= a
      <4>1. overtaken[c][d] = 1
        BY <3>1, <3>2, <3>4, <1>6
      <4> QED BY <2>0, <3>1, <3>2, <3>4, <4>1, <1>3 DEF Counts
    <3> QED BY <3>3, <3>4
  <2>4. FairTurns'
    <3> SUFFICES ASSUME NEW c \in Backups, NEW d \in Backups PROVE overtaken'[c][d] <= 1
      BY DEF FairTurns
    <3> QED BY <2>0, <1>6 DEF Counts, FairTurns
  <2> QED BY <2>1, <2>2, <2>3, <2>4 DEF Counts
<1> QED BY <1>3, <1>6, <1>7, <1>8, <1>9 DEF QueueInv

LEMMA PersistStep ==
  ASSUME ExportInv, walk.pc /= "idle", NEW a, a = walk.backup,
         NEW status \in {"running", "completed", "failed", "expired"}, NEW cursor \in Cursors,
         Persist(a, status, cursor),
         status = "running" => backup[a].status = "running" /\ cursor = walk.cursor,
         a \notin Gone /\ status = "completed" => Copied(a)
  PROVE  ExportInv'
<1> USE DEF ExportInv
<1>1. /\ backup' = [backup EXCEPT ![a] = [@ EXCEPT !.status = status, !.cursor = cursor]]
      /\ ahead' = IF status = "running" THEN MovedLast(a) ELSE NotTimed(a)
      /\ overtaken' = IF a \notin Running THEN overtaken
                      ELSE [c \in Backups |->
                              IF c = a THEN NotOvertaken
                              ELSE IF c \in Running THEN [overtaken[c] EXCEPT ![a] = @ + 1]
                              ELSE overtaken[c]]
      /\ walk' = NoWalk /\ UNCHANGED <<rows, asked, chunks, steady, deleting, deleted>>
  BY DEF Persist
<1>2. a \in Backups /\ backup[a].status /= "none" /\ Unpassed(a)
  BY DEF WalkInv
<1>3. /\ backup' \in [Backups -> Exports] /\ backup'[a].status = status /\ backup'[a].cursor = cursor
      /\ \A c \in Backups \ {a} : backup'[c] = backup[c]
  <2>1. backup \in [Backups -> Exports]
    BY DEF ExportType
  <2> DEFINE r == [backup[a] EXCEPT !.status = status, !.cursor = cursor]
  <2>2. r \in Exports /\ r.status = status /\ r.cursor = cursor
    BY <2>1, <1>2 DEF Exports
  <2>3. backup' = [backup EXCEPT ![a] = r]
    BY <1>1
  <2> HIDE DEF r
  <2> QED BY <2>1, <2>2, <2>3, <1>2
<1>4. /\ ahead' \in [Backups -> SUBSET Backups] /\ overtaken' \in [Backups -> [Backups -> Nat]]
      /\ QueueInv'
  <2>1. CASE a \in Running
    <3>1. ahead' = IF backup'[a].status = "running" THEN MovedLast(a) ELSE NotTimed(a)
      BY <1>1, <1>3
    <3> QED BY <2>1, <3>1, <1>1, <1>2, <1>3, AdvanceQueue
  <2>2. CASE a \notin Running
    <3>1. status /= "running"
      BY <2>2, <1>2 DEF Running
    <3>2. ahead' = NotTimed(a) /\ overtaken' = overtaken
      BY <2>2, <3>1, <1>1
    <3>3. overtaken = [overtaken EXCEPT ![a] = NotOvertaken]
      <4>1. overtaken[a] = NotOvertaken /\ overtaken \in [Backups -> [Backups -> Nat]]
        BY <2>2, <1>2 DEF QueueInv, Counts, ExportType
      <4> QED BY <4>1
    <3> QED BY <3>1, <3>2, <3>3, <1>1, <1>2, <1>3, LeaveQueue
  <2> QED BY <2>1, <2>2
<1>5. NoWalk \in Walks /\ NoWalk.pc = "idle" /\ NoWalk.page = {}
  BY ExportAssumption DEF NoWalk, Walks, FirstCursor, Cursors, Tables
<1>6. ExportType' /\ WalkInv'
  BY <1>1, <1>3, <1>4, <1>5 DEF ExportType, WalkInv
<1>7. CopyInv'
  <2> SUFFICES ASSUME NEW c \in Backups, c \notin Gone'
               PROVE  /\ c \in Running' => /\ Reached(c, backup[c].cursor)'
                                           /\ \A t \in Tables : steady'[c][t] \subseteq rows'[OwnerOf[c]][t]
                      /\ backup'[c].status = "completed" => Copied(c)'
    BY DEF CopyInv
  <2> PICK d : d = backup'[c].cursor
    OBVIOUS
  <2>1. c \notin Gone /\ (Reached(c, d) => Reached(c, d)') /\ (Copied(c) => Copied(c)')
    BY <1>1 DEF Gone, Reached, Copied
  <2>2. CASE c = a
    <3>1. c \in Running' => /\ d = walk.cursor /\ a \in Running
      BY <2>2, <1>2, <1>3 DEF Running
    <3>2. Reached(a, walk.cursor)
      BY <2>1, <2>2 DEF WalkInv
    <3>3. c \in Running' => Reached(c, d)
      BY <2>2, <3>1, <3>2
    <3>4. a \in Running => \A t \in Tables : steady[a][t] \subseteq rows[OwnerOf[a]][t]
      BY <2>1, <2>2 DEF CopyInv
    <3> QED BY <2>1, <2>2, <3>1, <3>3, <3>4, <1>1, <1>3
  <2>3. CASE c /= a
    <3>1. backup'[c] = backup[c] /\ (c \in Running' <=> c \in Running)
      BY <2>3, <1>3 DEF Running
    <3> QED BY <2>1, <3>1, <1>1 DEF CopyInv
  <2> QED BY <2>2, <2>3
<1> QED BY <1>4, <1>6, <1>7

LEMMA FinishStep ==
  ASSUME ExportInv, Finish PROVE ExportInv'
<1> USE DEF ExportInv
<1> PICK a : a = walk.backup
  OBVIOUS
<1>1. FirstCursor \in Cursors /\ walk.cursor \in Cursors
  BY ExportAssumption DEF FirstCursor, Cursors, Tables, ExportType, Walks
<1>2. CASE walk.pc = "completed" /\ Persist(a, "completed", FirstCursor)
  BY <1>1, <1>2, PersistStep DEF WalkInv
<1>3. CASE walk.pc = "failed" /\ Persist(a, "failed", walk.cursor)
  BY <1>1, <1>3, PersistStep
<1>4. CASE walk.pc = "page" /\ Persist(a, backup[a].status, walk.cursor)
  <2>1. a \in Backups /\ backup[a].status /= "none"
        /\ (a \notin Gone => backup[a].status = "running")
    BY <1>4 DEF WalkInv, Running
  <2>2. backup[a].status \in {"running", "completed", "failed", "expired"}
    BY <2>1 DEF ExportType, Exports
  <2>3. a \notin Gone => backup[a].status /= "completed"
    BY <2>1
  <2> QED BY <1>1, <1>4, <2>2, <2>3, PersistStep
<1> QED BY <1>2, <1>3, <1>4 DEF Finish

LEMMA AddRowStep ==
  ASSUME ExportInv, NEW u \in Workspaces, NEW t \in Tables, AddRow(u, t) PROVE ExportInv'
<1> USE DEF ExportInv
<1> PICK r : r = IF rows[u][t] = {} THEN 1 ELSE Max(rows[u][t]) + 1
  OBVIOUS
<1>1. /\ r <= MaxRow[u][t] /\ rows' = [rows EXCEPT ![u][t] = @ \cup {r}]
      /\ UNCHANGED <<backup, asked, ahead, chunks, walk, steady, overtaken, deleting, deleted>>
  BY DEF AddRow
<1>2. /\ rows \in [Workspaces -> [Tables -> SUBSET Nat]] /\ MaxRow[u][t] \in Nat
      /\ rows[u][t] \subseteq 1 .. MaxRow[u][t]
  <2>1. MaxRow \in [Workspaces -> [Tables -> Nat]]
    BY ExportAssumption DEF Tables
  <2> QED BY <2>1 DEF ExportType
<1>3. r \in 1 .. MaxRow[u][t]
  <2>1. CASE rows[u][t] = {}
    BY <2>1, <1>1, <1>2
  <2>2. CASE rows[u][t] /= {}
    <3>1. Max(rows[u][t]) \in rows[u][t]
      <4> PICK S, n : S = rows[u][t] /\ n = MaxRow[u][t]
        OBVIOUS
      <4>1. S \in SUBSET Nat /\ S /= {} /\ n \in Nat /\ \A x \in S : x <= n
        BY <2>2, <1>2
      <4> QED BY <4>1, GreatestNumber
    <3> QED BY <2>2, <3>1, <1>1, <1>2
  <2> QED BY <2>1, <2>2
<1>4. /\ rows' \in [Workspaces -> [Tables -> SUBSET Nat]]
      /\ \A x \in Workspaces, y \in Tables :
           /\ rows[x][y] \subseteq rows'[x][y]
           /\ rows'[x][y] \subseteq rows[x][y] \/ (x = u /\ y = t /\ rows'[x][y] = rows[u][t] \cup {r})
  BY <1>1, <1>2, <1>3
<1>5. \A x \in Workspaces, y \in Tables : rows'[x][y] \subseteq 1 .. MaxRow[x][y]
  <2> TAKE x \in Workspaces, y \in Tables
  <2>1. rows[x][y] \subseteq 1 .. MaxRow[x][y]
    BY DEF ExportType
  <2>2. CASE rows'[x][y] \subseteq rows[x][y]
    BY <2>1, <2>2
  <2>3. CASE x = u /\ y = t /\ rows'[x][y] = rows[u][t] \cup {r}
    BY <2>1, <2>3, <1>3
  <2> QED BY <2>2, <2>3, <1>4
<1>6. ExportType'
  BY <1>1, <1>4, <1>5 DEF ExportType
<1>7. QueueInv'
  BY <1>1, QueueFrame
<1>8. Gone' = Gone /\ Running' = Running /\ \A c \in Backups : KeepsChunks(c)
  BY <1>1 DEF Gone, Running, KeepsChunks
<1>9. walk.cursor \in Cursors
  BY DEF ExportType, Walks
<1>10. WalkInv'
  BY <1>1, <1>8, <1>9, WalkStays DEF Unpassed
<1>11. CopyInv'
  <2>1. \A c \in Backups \ Gone' : c \in Running' =>
          \A y \in Tables : steady'[c][y] \subseteq rows'[OwnerOf[c]][y]
    <3> SUFFICES ASSUME NEW c \in Backups, c \notin Gone, c \in Running, NEW y \in Tables
                 PROVE  steady[c][y] \subseteq rows'[OwnerOf[c]][y]
      BY <1>1, <1>8
    <3>1. steady[c][y] \subseteq rows[OwnerOf[c]][y] /\ OwnerOf[c] \in Workspaces
      BY ExportAssumption DEF CopyInv
    <3> QED BY <3>1, <1>4
  <2> QED BY <2>1, <1>1, <1>8, CopyStays
<1> QED BY <1>6, <1>7, <1>10, <1>11

LEMMA DropRowStep ==
  ASSUME ExportInv, NEW u \in Workspaces, NEW t \in Tables, NEW r, DropRow(u, t, r) PROVE ExportInv'
<1> USE DEF ExportInv
<1>1. /\ rows' = [rows EXCEPT ![u][t] = @ \ {r}]
      /\ steady' = [b \in Backups |-> IF OwnerOf[b] = u THEN [steady[b] EXCEPT ![t] = @ \ {r}] ELSE steady[b]]
      /\ UNCHANGED <<backup, asked, ahead, chunks, walk, overtaken, deleting, deleted>>
  BY DEF DropRow
<1>2. rows \in [Workspaces -> [Tables -> SUBSET Nat]] /\ steady \in [Backups -> [Tables -> SUBSET Nat]]
  BY DEF ExportType
<1>3. /\ rows' \in [Workspaces -> [Tables -> SUBSET Nat]]
      /\ \A x \in Workspaces, y \in Tables :
           rows'[x][y] = IF x = u /\ y = t THEN rows[x][y] \ {r} ELSE rows[x][y]
  BY <1>1, <1>2
<1>4. /\ steady' \in [Backups -> [Tables -> SUBSET Nat]]
      /\ \A b \in Backups, y \in Tables :
           steady'[b][y] = IF OwnerOf[b] = u /\ y = t THEN steady[b][y] \ {r} ELSE steady[b][y]
  BY <1>1, <1>2
<1>5. ExportType'
  <2>1. \A x \in Workspaces, y \in Tables : rows'[x][y] \subseteq 1 .. MaxRow[x][y]
    BY <1>3 DEF ExportType
  <2> QED BY <2>1, <1>1, <1>3, <1>4 DEF ExportType
<1>6. QueueInv'
  BY <1>1, QueueFrame
<1>7. Gone' = Gone /\ Running' = Running
  BY <1>1 DEF Gone, Running
<1>8. \A c \in Backups : KeepsChunks(c)
  BY <1>1, <1>4 DEF KeepsChunks
<1>9. walk.cursor \in Cursors
  BY DEF ExportType, Walks
<1>10. WalkInv'
  BY <1>1, <1>7, <1>8, <1>9, WalkStays DEF Unpassed
<1>11. CopyInv'
  <2>1. \A c \in Backups \ Gone' : c \in Running' =>
          \A y \in Tables : steady'[c][y] \subseteq rows'[OwnerOf[c]][y]
    <3> SUFFICES ASSUME NEW c \in Backups, c \notin Gone, c \in Running, NEW y \in Tables
                 PROVE  steady'[c][y] \subseteq rows'[OwnerOf[c]][y]
      BY <1>7
    <3>1. steady[c][y] \subseteq rows[OwnerOf[c]][y] /\ OwnerOf[c] \in Workspaces
      BY ExportAssumption DEF CopyInv
    <3> QED BY <3>1, <1>3, <1>4
  <2> QED BY <2>1, <1>1, <1>7, <1>8, CopyStays
<1> QED BY <1>5, <1>6, <1>10, <1>11

LEMMA RowsStayMade ==
  ASSUME ExportInv, DeletingMade, ExportNext PROVE DeletingMade'
<1>1. backup \in [Backups -> Exports] /\ deleting \in SUBSET Backups
  BY DEF ExportInv, ExportType
<1>2. ASSUME UNCHANGED <<backup, deleting>> PROVE DeletingMade'
  BY <1>2 DEF DeletingMade
<1>3. ASSUME NEW b \in Backups, DeleteObjects(b) PROVE DeletingMade'
  BY <1>3 DEF DeleteObjects, DeletingMade
<1>4. ASSUME NEW b \in Backups, deleting' \subseteq deleting,
             NEW r, r.status = "none" => backup[b].status = "none", backup' = [backup EXCEPT ![b] = r]
      PROVE  DeletingMade'
  BY <1>1, <1>4 DEF DeletingMade
<1>5. ASSUME NEW b \in Backups, InsertBackup(b) \/ MarkDeleted(b) \/ SweepBackup(b) \/ DayPasses(b)
      PROVE  DeletingMade'
  <2>1. \E status \in {"running", "expired", backup[b].status} : \E cursor, age :
          backup' = [backup EXCEPT ![b] = [status |-> status, cursor |-> cursor, age |-> age]]
    <3>1. backup[b] = [status |-> backup[b].status, cursor |-> backup[b].cursor, age |-> backup[b].age]
      BY <1>1 DEF Exports
    <3> QED BY <1>5, <3>1 DEF InsertBackup, MarkDeleted, SweepBackup, DayPasses
  <2>2. deleting' \subseteq deleting
    BY <1>5 DEF InsertBackup, MarkDeleted, SweepBackup, DayPasses
  <2> QED BY <1>4, <2>1, <2>2
<1>6. ASSUME Finish PROVE DeletingMade'
  <2> PICK a : a = walk.backup
    OBVIOUS
  <2>1. a \in Backups /\ backup[a].status /= "none"
    BY <1>6 DEF Finish, ExportInv, WalkInv
  <2>2. PICK status \in {"completed", "failed", backup[a].status}, cursor \in {FirstCursor, walk.cursor} : Persist(a, status, cursor)
    BY <1>6 DEF Finish
  <2> DEFINE r == [backup[a] EXCEPT !.status = status, !.cursor = cursor]
  <2>3. backup' = [backup EXCEPT ![a] = r] /\ deleting' = deleting
    BY <2>2 DEF Persist
  <2>4. r.status = status
    BY <1>1, <2>1 DEF Exports
  <2> HIDE DEF r
  <2> QED BY <1>4, <2>1, <2>3, <2>4
<1> QED BY <1>2, <1>3, <1>5, <1>6 DEF ExportNext, CheckRunning, CheckRecent, PickBackup, ReadPage,
     PutFails, WalkDies, PutChunk, AddRow, DropRow

ExportSound == ExportInv /\ DeletingMade

LEMMA ExportSoundInit == ExportInit => ExportSound
  BY ExportInitially DEF ExportSound, DeletingMade, ExportInit

LEMMA ExportStep == ExportSound /\ [ExportNext]_exportVars => ExportSound'
<1> SUFFICES ASSUME ExportSound, [ExportNext]_exportVars PROVE ExportSound'
  OBVIOUS
<1>1. CASE UNCHANGED exportVars
  <2>1. UNCHANGED <<rows, backup, asked, ahead, chunks, walk, steady, overtaken, deleting, deleted>>
    BY <1>1 DEF exportVars
  <2>2. ExportType'
    BY <2>1 DEF ExportSound, ExportInv, ExportType
  <2>3. QueueInv' /\ CopyInv' /\ WalkInv'
    BY <2>1, QueueFrame, CopyFrame, WalkFrame DEF ExportSound, ExportInv
  <2> QED BY <2>1, <2>2, <2>3 DEF ExportSound, ExportInv, DeletingMade
<1>2. CASE ExportNext
  <2>1. ExportInv /\ DeletingMade
    BY DEF ExportSound
  <2>2. DeletingMade'
    BY <1>2, <2>1, RowsStayMade
  <2>3. ExportInv'
    BY <1>2, <2>1, CheckRunningStep, CheckRecentStep, InsertBackupStep, DeleteObjectsStep,
       MarkDeletedStep, SweepStep, DayStep, PickStep, ReadPageStep, PutChunkStep, HaltStep,
       FinishStep, AddRowStep, DropRowStep DEF ExportNext
  <2> QED BY <2>2, <2>3 DEF ExportSound
<1> QED BY <1>1, <1>2

LEMMA CopiedIsDownloaded ==
  ASSUME NEW b, Copied(b), NEW t \in Tables PROVE steady[b][t] \subseteq Downloaded(b, t)
<1> SUFFICES ASSUME NEW r \in steady[b][t] PROVE r \in Downloaded(b, t)
  OBVIOUS
<1>1. PICK s \in Nat : <<b, t, s>> \in DOMAIN chunks /\ r \in chunks[<<b, t, s>>]
  BY DEF Copied
<1>2. <<b, t, s>>[1] = b /\ <<b, t, s>>[2] = t
  OBVIOUS
<1> QED BY <1>1, <1>2 DEF Downloaded

LEMMA ExportInvTypes == ExportSound => ExportTypeOK
<1> SUFFICES ASSUME ExportSound PROVE ExportTypeOK
  OBVIOUS
<1>1. ASSUME NEW b \in Backups
      PROVE  /\ backup[b].status \in {"none", "running", "completed", "failed", "expired"}
             /\ backup[b].cursor.table \in Tables /\ backup[b].cursor.row \in Nat
             /\ backup[b].cursor.size \in 1 .. ChunkRows
  BY <1>1 DEF ExportSound, ExportInv, ExportType, Exports, Cursors
<1>2. \A b \in Backups : /\ asked[b] \in {"no", "alone", "first"}
                         /\ asked[b] /= "no" => backup[b].status = "none"
                         /\ ahead[b] \subseteq Timed \ {b} /\ (b \notin Timed => ahead[b] = {})
  BY DEF ExportSound, ExportInv, ExportType, QueueInv
<1> QED BY <1>1, <1>2 DEF ExportTypeOK, ExportSound, ExportInv, ExportType

\* Backups rows, the order of the running ones and the run's page have their types.
THEOREM ExportTyped == ExportSpec => []ExportTypeOK
  BY ExportInvTypes, ExportSoundInit, ExportStep, PTL DEF ExportSpec

LEMMA ExportInvCompletes == ExportSound => ExportComplete
  BY CopiedIsDownloaded DEF ExportSound, ExportInv, CopyInv, ExportComplete, Gone

\* A completed export has every row that was in its workspace from its start to its
\* end, however its runs end and repeat pages, whatever is added and dropped beside it
\* and however many tables, rows and pages there are.
THEOREM ExportsAreComplete == ExportSpec => []ExportComplete
  BY ExportInvCompletes, ExportSoundInit, ExportStep, PTL DEF ExportSpec

LEMMA ExportInvTakesTurns == ExportSound => FairTurns
  BY DEF ExportSound, ExportInv, QueueInv, Counts

\* While a running export waits, no other export is advanced twice, of whichever
\* workspace and however many a workspace has running: starts that overlap leave two,
\* and the row of a slow start comes into being in front of what was advanced
\* meanwhile.
THEOREM TurnsAreFair == ExportSpec => []FairTurns
  BY ExportInvTakesTurns, ExportSoundInit, ExportStep, PTL DEF ExportSpec

(***************************************************************************)
(* The record of one customer.  A row that has been the customer's since    *)
(* the export began stands in a table already read and is copied, or in one *)
(* still to be read; its ticket was the customer's when the tickets were    *)
(* read.                                                                    *)
(***************************************************************************)
FiledRows == Threads \X RecordTableSet
Copies == [at : {"idle", "tickets", "rows", "answered"}, next : 1 .. 4,
           threads : SUBSET Threads, rows : SUBSET FiledRows]

RecordType ==
  /\ home \in [Threads -> Customers \cup {Nowhere}]
  /\ filed \in SUBSET FiledRows /\ lasting \in SUBSET filed
  /\ copy \in Copies /\ record \in SUBSET FiledRows /\ owned \in SUBSET Threads

RecordInv ==
  /\ RecordType
  /\ \A x \in lasting : home[x[1]] = Subject
  /\ copy.at /= "idle" => HomeOf(Subject) \subseteq owned
  /\ copy.at = "tickets" => copy.next = 1 /\ copy.rows = {}
  /\ copy.at = "rows" =>
       /\ \A x \in lasting : x[1] \in copy.threads
       /\ \A x \in lasting, i \in 1 .. 3 : i < copy.next /\ x[2] = RecordTables[i] => x \in copy.rows
       /\ copy.threads \subseteq owned
       /\ \A x \in copy.rows : x[1] \in owned
  /\ RecordWhole

\* What the workspace does beside an export.
LEMMA MeanwhileStep ==
  ASSUME RecordInv, NEW home1 \in [Threads -> Customers \cup {Nowhere}],
         NEW filed1 \in SUBSET FiledRows, Meanwhile(home1, filed1)
  PROVE  RecordInv'
<1>1. /\ home' = home1 /\ filed' = filed1
      /\ lasting' = {x \in lasting : home1[x[1]] = Subject /\ x \in filed1}
      /\ owned' = owned \cup {t \in Threads : home1[t] = Subject}
      /\ copy' = copy /\ record' = record
  BY DEF Meanwhile
<1>2. RecordType'
  BY <1>1 DEF RecordInv, RecordType
<1>3. lasting' \subseteq lasting /\ owned \subseteq owned' /\ HomeOf(Subject)' \subseteq owned'
  BY <1>1 DEF HomeOf
<1>4. RecordWhole'
  BY <1>1, <1>3 DEF RecordInv, RecordWhole
<1> QED BY <1>1, <1>2, <1>3, <1>4 DEF RecordInv

LEMMA RecordStep == RecordInv /\ [RecordNext]_recordVars => RecordInv'
<1> SUFFICES ASSUME RecordInv, [RecordNext]_recordVars PROVE RecordInv'
  OBVIOUS
<1>1. RecordType /\ copy \in Copies
  BY DEF RecordInv, RecordType
<1>2. ASSUME NEW t \in Threads, EraseThread(t) PROVE RecordInv'
  <2>1. [home EXCEPT ![t] = Nowhere] \in [Threads -> Customers \cup {Nowhere}]
        /\ {x \in filed : x[1] /= t} \in SUBSET FiledRows
    BY <1>1 DEF RecordType
  <2> QED BY <2>1, <1>2, MeanwhileStep DEF EraseThread
<1>3. ASSUME NEW t \in Threads, NEW p \in Customers, OpenThread(t, p) PROVE RecordInv'
  <2>1. [home EXCEPT ![t] = p] \in [Threads -> Customers \cup {Nowhere}] /\ filed \in SUBSET FiledRows
    BY <1>1 DEF RecordType
  <2> QED BY <2>1, <1>3, MeanwhileStep DEF OpenThread
<1>4. ASSUME NEW t \in Threads, NEW table \in RecordTableSet, FileRow(t, table) PROVE RecordInv'
  <2>1. home \in [Threads -> Customers \cup {Nowhere}] /\ filed \cup {<<t, table>>} \in SUBSET FiledRows
    BY <1>1 DEF RecordType, FiledRows
  <2> QED BY <2>1, <1>4, MeanwhileStep DEF FileRow
<1>5. ASSUME NEW p \in Customers, NEW q \in Customers, MergePeople(p, q) PROVE RecordInv'
  <2>1. [t \in Threads |-> IF home[t] = p THEN q ELSE home[t]] \in [Threads -> Customers \cup {Nowhere}]
        /\ filed \in SUBSET FiledRows
    BY <1>1 DEF RecordType
  <2> QED BY <2>1, <1>5, MeanwhileStep DEF MergePeople
<1>6. CASE BeginExport
  <2>1. copy' = [at |-> "tickets", next |-> 1, threads |-> {}, rows |-> {}]
    BY <1>6 DEF BeginExport, NoCopy
  <2>2. /\ lasting' = {x \in filed : home[x[1]] = Subject} /\ owned' = HomeOf(Subject)
        /\ UNCHANGED <<home, filed, record>>
    BY <1>6 DEF BeginExport
  <2> QED BY <2>1, <2>2, <1>1 DEF RecordInv, RecordType, Copies, RecordWhole, HomeOf
<1>7. CASE ReadThreads
  <2>1. /\ copy.at = "tickets" /\ copy' = [copy EXCEPT !.at = "rows", !.threads = HomeOf(Subject)]
        /\ UNCHANGED <<home, filed, record, lasting, owned>>
    BY <1>7 DEF ReadThreads
  <2>2. HomeOf(Subject) \in SUBSET Threads
    BY DEF HomeOf
  <2>3. /\ copy' \in Copies /\ copy'.at = "rows" /\ copy'.threads = HomeOf(Subject)
        /\ copy'.next = copy.next /\ copy'.rows = copy.rows
    BY <2>1, <2>2, <1>1 DEF Copies
  <2>4. copy.next = 1 /\ copy.rows = {}
    BY <2>1 DEF RecordInv
  <2> QED BY <2>1, <2>2, <2>3, <2>4, <1>1 DEF RecordInv, RecordType, RecordWhole, HomeOf, FiledRows
<1>8. CASE ReadTable
  <2> PICK i, new : /\ i = copy.next
                    /\ new = {x \in filed : x[1] \in copy.threads /\ x[2] = RecordTables[copy.next]}
    OBVIOUS
  <2>1. /\ copy.at = "rows" /\ i \in 1 .. 3 /\ copy.threads \subseteq owned
        /\ copy' = [copy EXCEPT !.next = i + 1, !.rows = @ \cup new]
        /\ UNCHANGED <<home, filed, record, lasting, owned>>
    BY <1>8, <1>1 DEF ReadTable, RecordInv, Copies
  <2>2. new \in SUBSET FiledRows
    BY <1>1 DEF RecordType
  <2>3. /\ copy' \in Copies /\ copy'.at = "rows" /\ copy'.threads = copy.threads
        /\ copy'.next = i + 1 /\ copy'.rows = copy.rows \cup new
    <3>1. i + 1 \in 1 .. 4 /\ copy.rows \cup new \in SUBSET FiledRows
      BY <2>1, <2>2, <1>1 DEF Copies
    <3>2. copy' = [at |-> "rows", next |-> i + 1, threads |-> copy.threads, rows |-> copy.rows \cup new]
      BY <2>1, <1>1 DEF Copies
    <3> QED BY <3>1, <3>2, <1>1 DEF Copies
  <2>4. RecordType' /\ RecordWhole'
    BY <2>1, <2>3, <1>1 DEF RecordType, RecordWhole
  <2>5. ASSUME NEW x \in lasting, NEW j \in 1 .. 3, j < i + 1, x[2] = RecordTables[j]
        PROVE  x \in copy'.rows
    <3>1. x \in filed /\ x[1] \in copy.threads
      BY <2>1, <1>1 DEF RecordInv, RecordType
    <3>2. CASE j = i
      BY <3>1, <3>2, <2>3, <2>5
    <3>3. CASE j /= i
      BY <3>3, <2>1, <2>3, <2>5 DEF RecordInv
    <3> QED BY <3>2, <3>3
  <2>6. \A x \in copy'.rows : x[1] \in owned
    BY <2>1, <2>3 DEF RecordInv
  <2> QED BY <2>1, <2>3, <2>4, <2>5, <2>6 DEF RecordInv, HomeOf
<1>9. CASE AnswerExport
  <2>1. /\ copy.at = "rows" /\ copy.next > 3 /\ record' = copy.rows
        /\ copy' = [at |-> "answered", next |-> 1, threads |-> {}, rows |-> {}]
        /\ UNCHANGED <<home, filed, lasting, owned>>
    BY <1>9 DEF AnswerExport, NoCopy
  <2>2. ASSUME NEW x \in lasting PROVE x \in copy.rows
    <3>1. x \in Threads \X RecordTableSet
      BY <1>1 DEF RecordType, FiledRows
    <3>2. PICK j \in 1 .. 3 : x[2] = RecordTables[j]
      BY <3>1 DEF RecordTableSet
    <3>3. j < copy.next
      BY <2>1, <1>1 DEF Copies
    <3> QED BY <2>1, <3>2, <3>3 DEF RecordInv
  <2>3. RecordWhole'
    BY <2>1, <2>2 DEF RecordInv, RecordWhole
  <2>4. RecordType'
    BY <2>1, <1>1 DEF RecordType, Copies
  <2> QED BY <2>1, <2>3, <2>4 DEF RecordInv, HomeOf
<1>10. CASE ExportEnds
  BY <1>10, <1>1 DEF ExportEnds, NoCopy, RecordInv, RecordType, Copies, RecordWhole
<1>11. CASE UNCHANGED recordVars
  BY <1>11 DEF recordVars, RecordInv, RecordType, RecordWhole, HomeOf
<1> QED BY <1>2, <1>3, <1>4, <1>5, <1>6, <1>7, <1>8, <1>9, <1>10, <1>11 DEF RecordNext

LEMMA RecordInitially == RecordInit => RecordInv
  BY DEF RecordInit, RecordInv, RecordType, NoCopy, Copies, RecordWhole, FiledRows

\* The record of a customer holds every row that was the customer's from the beginning
\* of the export to its end, and none of a ticket that never was.
THEOREM RecordsAreWhole == RecordSpec => []RecordWhole
<1>1. RecordInv => RecordWhole
  BY DEF RecordInv
<1> QED BY <1>1, RecordInitially, RecordStep, PTL DEF RecordSpec

(***************************************************************************)
(* All of them, each of whose variables only its own steps change.          *)
(***************************************************************************)
UpkeepInv == StoreInv /\ ExportSound /\ InboxesInv /\ ArticlesInv /\ ReadyInv /\ DirectoryInv /\ RecordInv

LEMMA UpkeepInitially == MCInit => UpkeepInv
  BY StoreInvInit, ExportSoundInit, InboxesInitially, ArticlesInitially, ReadyInitially,
     DirectoryInitially, RecordInitially DEF MCInit, UpkeepInv

LEMMA PartsStep ==
  [MCNext]_mcVars =>
    /\ [StoreNext]_storeVars /\ [ExportNext]_exportVars /\ [InboxNext]_inboxVars /\ [KbNext]_kbVars
    /\ [ReadyNext]_readyVars /\ [DirectoryNext]_directoryVars /\ [RecordNext]_recordVars
  BY DEF MCNext, mcVars

LEMMA UpkeepStep == UpkeepInv /\ [MCNext]_mcVars => UpkeepInv'
  BY PartsStep, StoreInvStep, ExportStep, InboxesStep, ArticlesStep, ReadyStep, DirectoryStep,
     RecordStep DEF UpkeepInv

\* Rows, requests, passes and calls of every part have their types.
THEOREM UpkeepTyped == MCSpec => []UpkeepTypeOK
<1>1. UpkeepInv => UpkeepTypeOK
  BY ExportInvTypes, InboxesInvTypes, ArticlesInvTypes, ReadyInvTypes, DirectoryInvTypes
     DEF UpkeepInv, UpkeepTypeOK, StoreInv
<1> QED BY <1>1, UpkeepInitially, UpkeepStep, PTL DEF MCSpec

\* Exports leave nothing out and take turns.
THEOREM ExportsAreWhole == MCSpec => []ExportsWhole
<1>1. UpkeepInv => ExportsWhole
  BY ExportInvCompletes, ExportInvTakesTurns DEF UpkeepInv, ExportsWhole, RecordInv
<1> QED BY <1>1, UpkeepInitially, UpkeepStep, PTL DEF MCSpec
=============================================================================
