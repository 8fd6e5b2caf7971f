------------------------------ MODULE AdminForm ------------------------------
(***************************************************************************)
(* Editing an article in the admin's HTML form, beside API clients that    *)
(* write the same article.  The form shows sources and relations as lines  *)
(* of text and reads them back when it is saved; a refused save returns    *)
(* the form.  There is one slug, and so at most one article at a time; the *)
(* related articles are others.  Writing an article is one step here, as   *)
(* ArticleStore shows of the repository's transactions.                    *)
(***************************************************************************)
EXTENDS AdminAccess, FiniteSets, SequencesExt

CONSTANTS
  Categories,   \* slugs of the existing categories
  Numbers,      \* the texts that are numbers
  Others,       \* those that are ids of the other articles
  Words,        \* what a relation may be called (valueRE)
  UrlParts,     \* first parts of valid source URLs
  Typed,        \* what the editor may fill a form with
  ApiInputs,    \* content.ArticleInput of API requests
  MaxArticles,  \* bound on the number of articles ever created
  MaxEdits      \* bound on the editor's changes to controls of forms

\* A text is the sequence of its parts between "|", as in AdminAccess; spaces around the
\* parts, which both directions put there and trim, are left out.  `body` stands for the
\* slug, the title and the Markdown, which must not be empty, `status` for the type and
\* the credibility too, which have a default and a list of the same kind.  An empty
\* publishing date stands for NULL too, which is shown alike.
Text     == Seq(STRING) \ {<<>>}
Empty    == <<"">>
Source   == [url : Text, title : Text, publisher : Text, publishedAt : Text, type : Text]
Relation == [id : STRING, relation : Text]
Statuses == {"", "published", "draft", "reviewed"}   \* "reviewed": any other value

\* content.ArticleInput; an article has the same columns.
Input == [body : STRING, status : Statuses, cats : SUBSET STRING,
          sources : Seq(Source), relations : Seq(Relation)]

\* What the form's controls hold.
Fields == [body : STRING, status : Statuses, cats : SUBSET STRING,
           sourcesText : Seq(Text), relationsText : Seq(Text)]

Controls == {"body", "status", "cats", "sourcesText", "relationsText"}

\* A row of the table; `born` counts the articles created up to it.
Row == [id : Nat, born : Nat, content : Input]

\* The open form: what it was rendered for, `shown` being the article's content then,
\* what its controls hold, and what happened to it since.  `exposed`: when it was rendered,
\* another request sent without CSRF cookie was not answered yet, or the browser has lost
\* its cookie since.
Form == [id : Nat, born : Nat, shown : Input \cup {None}, fields : Fields,
         touched : SUBSET Controls, blanked : BOOLEAN, exposed : BOOLEAN, token : Tokens]

ASSUME RowAssumption == None \notin Row
ASSUME FormAssumption == None \notin Form
ASSUME StringAssumption == "" \in STRING   \* the provers know no member of STRING
ASSUME BoundsAssumption == MaxArticles \in Nat /\ MaxEdits \in Nat
ASSUME TypedAssumption == Typed \subseteq Fields
ASSUME OthersAssumption == Others \subseteq Numbers
ASSUME ApiAssumption == ApiInputs \subseteq Input

VARIABLES
  article,   \* the article with the slug, its id included, or None
  created,   \* the number of articles created so far
  edits,     \* the number of changes to controls so far
  form,      \* the form in the browser, or None
  last       \* the request the last step answered: its way, its password or key, and the answer

formVars == <<article, created, edits, form, last>>
vars     == <<accessVars, formVars>>

TypeOK ==
  /\ AccessTypeOK
  /\ created \in 0..MaxArticles /\ edits \in 0..MaxEdits
  /\ article # None => /\ article \in Row /\ {article.id, article.born} \subseteq 1..created
                       /\ article.content.status # ""
  /\ form # None => form \in Form /\ {form.id, form.born} \subseteq 0..created
  /\ last.via \in {"nobody", "browser", "api"} /\ last.key \in Keys \cup {None}
  /\ last.code \in {0, 200, 201, 204, 303, 401, 403, 404, 409, 422, 502}

-----------------------------------------------------------------------------
(* The conversions.                                                        *)

\* The fields joined by "|".
SourceLine(s) == s.url \o s.title \o s.publisher \o s.publishedAt \o s.type

SourcesText(sources) == [i \in DOMAIN sources |-> SourceLine(sources[i])]
RelationsText(relations) == [i \in DOMAIN relations |-> <<relations[i].id>> \o relations[i].relation]

\* Part i of a line, Empty when there are fewer.
Part(line, i) == IF i \in DOMAIN line THEN <<line[i]>> ELSE Empty

\* strings.SplitN(line, "|", 5): the fifth field keeps any further "|".
ParseSource(line) ==
  [url |-> Part(line, 1), title |-> Part(line, 2), publisher |-> Part(line, 3),
   publishedAt |-> Part(line, 4),
   type |-> IF Len(line) > 4 THEN SubSeq(line, 5, Len(line)) ELSE Empty]

IsRelationLine(line) == Len(line) >= 2 /\ line[1] \in Numbers
ParseRelation(line) == [id |-> line[1], relation |-> Tail(line)]

\* The lines that are not empty.
Lines(text) ==
  LET kept[n \in 0..Len(text)] ==
        IF n = 0 THEN <<>>
        ELSE IF text[n] = Empty THEN kept[n - 1] ELSE Append(kept[n - 1], text[n])
  IN  kept[Len(text)]

\* Otherwise the form is refused before anything is written.
ReadableRelations(f) == \A i \in DOMAIN Lines(f.relationsText) : IsRelationLine(Lines(f.relationsText)[i])

ParseForm(f) ==
  [body |-> f.body, status |-> f.status, cats |-> f.cats,
   sources |-> [i \in DOMAIN Lines(f.sourcesText) |-> ParseSource(Lines(f.sourcesText)[i])],
   relations |-> [i \in DOMAIN Lines(f.relationsText) |-> ParseRelation(Lines(f.relationsText)[i])]]

\* Variant: a status that is not in the list is shown as the list's first.
ShownStatus_Known(status) == IF status \in {"published", "draft"} THEN status ELSE "published"

\* The template adds an option for a status that is not in its list (knownStatus).
ShownStatus(status) == status

\* inputFromArticle, sourcesText, relationsText and the template.
FieldsOf(in) ==
  [body |-> in.body, status |-> ShownStatus(in.status), cats |-> in.cats,
   sourcesText |-> SourcesText(in.sources), relationsText |-> RelationsText(in.relations)]

NewFields == FieldsOf([body |-> "", status |-> "published", cats |-> {}, sources |-> <<>>, relations |-> <<>>])

\* Variant: without a valid token everything is lost.
Blanked_All(f) == [f EXCEPT !.body = "", !.status = ShownStatus(""), !.cats = {},
                            !.sourcesText = <<>>, !.relationsText = <<>>]

\* Without a valid token, parseAdminForm returns an empty input and the two texts.
Blanked(f) == [f EXCEPT !.body = "", !.status = ShownStatus(""), !.cats = {}]

-----------------------------------------------------------------------------
(* The repository.                                                         *)

\* Variant: the defaults are not filled in.
Normalize_Not(in) == in

Normalize(in) == IF in.status = "" THEN [in EXCEPT !.status = "published"] ELSE in

\* ValidateArticle.  The other columns of a source are not looked at.
Valid(in) ==
  /\ in.body # ""
  /\ \A i \in DOMAIN in.sources : in.sources[i].url[1] \in UrlParts
  /\ IsInjective([i \in DOMAIN in.sources |-> in.sources[i].url])
  /\ \A i \in DOMAIN in.relations : Len(in.relations[i].relation) = 1 /\ in.relations[i].relation[1] \in Words
  /\ IsInjective(in.relations)

\* replaceLinks finds the categories and the articles (see Catalog's Acceptable).
Linkable(in) == in.cats \subseteq Categories /\ \A r \in ToSet(in.relations) : r.id \in Others

\* Variant: the id of a deleted article is given again.
NewId_Reused == 1

\* AUTOINCREMENT.
NewId == created + 1

\* Why a write of article id (0: a new one) is refused, in the order of the code; 0: it is not.
Refusal(id, in) ==
  LET content == Normalize(in)
      found   == article # None /\ article.id = id IN
  CASE ~Valid(content)        -> 422
    [] id = 0 /\ article # None -> 409
    [] id # 0 /\ ~found       -> 404
    [] OTHER                  -> IF Linkable(content) THEN 0 ELSE 422

\* Create and Update.
Store(id, in) ==
  /\ Refusal(id, in) = 0
  /\ IF id = 0 THEN /\ created' = created + 1
                    /\ article' = [id |-> NewId, born |-> created', content |-> Normalize(in)]
     ELSE article' = [article EXCEPT !.content = Normalize(in)] /\ UNCHANGED created

-----------------------------------------------------------------------------
(* The admin pages.  `key` is the Basic password a request brings, if any. *)

\* The tokens in the open pages.
Held == {loginPage} \cup (IF form = None THEN {} ELSE {form.token})

NoRequest == [via |-> "nobody", key |-> None, code |-> 0]
Answer(via, key, code) == last' = [via |-> via, key |-> key, code |-> code]
AnswerPage(key, code)  == Answer("browser", IF ValidEditorSession(session) THEN None ELSE key, code)

\* requireAdminSession sends everyone else to the login page.
TurnedAway(key) ==
  /\ ~Admitted(key)
  /\ AnswerPage(key, 303)
  /\ UNCHANGED <<handledVars, article, created, form>>

\* A form is rendered with these fields.
RenderForm(c, f) == \E t \in Tokens :
  /\ EnsureCSRFToken(c, t, Held)
  /\ csrf' = t
  /\ form' = [f EXCEPT !.token = t, !.exposed = bare' # 0]
  /\ UNCHANGED <<config, now, session, loginPage, login, article, created>>

Page(id, shown, fields) ==
  [id |-> id, born |-> IF id = 0 THEN 0 ELSE article.born, shown |-> shown, fields |-> fields,
   touched |-> {}, blanked |-> FALSE, exposed |-> FALSE, token |-> None]

\* The list of articles shows a token too; the page itself is not kept.
AdminArticles(key, c) ==
  /\ Admitted(key)
  /\ \E t \in Tokens : EnsureCSRFToken(c, t, Held) /\ csrf' = t
  /\ AnswerPage(key, 200)
  /\ UNCHANGED <<config, now, session, loginPage, login, article, created, form>>

AdminNew(key, c) == /\ Admitted(key)
                    /\ RenderForm(c, Page(0, None, NewFields))
                    /\ AnswerPage(key, 200)

AdminEdit(key, c, id) ==
  /\ Admitted(key)
  /\ IF article # None /\ article.id = id
     THEN RenderForm(c, Page(id, article.content, FieldsOf(article.content))) /\ AnswerPage(key, 200)
     ELSE AnswerPage(key, 404) /\ UNCHANGED <<handledVars, article, created, form>>

\* The editor changes one control of the form.
TypeInto == \E f \in Typed, control \in Controls :
  /\ form # None
  /\ form.fields[control] # f[control]
  /\ edits < MaxEdits /\ edits' = edits + 1
  /\ form' = [form EXCEPT !.fields[control] = f[control], !.touched = @ \cup {control}]
  /\ last' = NoRequest
  /\ UNCHANGED <<accessVars, article, created>>

Refuse(key, c, fields, blanked) ==
  /\ RenderForm(c, [form EXCEPT !.fields = [fields EXCEPT !.status = ShownStatus(@)],
                                !.blanked = @ \/ blanked])
  /\ AnswerPage(key, 422)

\* adminCreate and adminUpdate.
AdminSave(key, c) ==
  /\ form # None /\ (form.id = 0 => created < MaxArticles)
  /\ Admitted(key)
  /\ \/ ~ValidCSRF(c, form.token) /\ Refuse(key, c, Blanked(form.fields), TRUE)
     \/ /\ ValidCSRF(c, form.token)
        /\ \/ ~ReadableRelations(form.fields)
           \/ Refusal(form.id, ParseForm(form.fields)) # 0
        /\ Refuse(key, c, form.fields, FALSE)
     \/ /\ ValidCSRF(c, form.token)
        /\ ReadableRelations(form.fields)
        /\ Store(form.id, ParseForm(form.fields))
        /\ form' = None
        /\ AnswerPage(key, 303)
        /\ UNCHANGED handledVars

\* The article leaves the database also when its objects cannot be deleted (502).
Drop == article' = None /\ UNCHANGED <<handledVars, created>>

AdminDelete(key, c) ==
  /\ form # None /\ form.id # 0
  /\ Admitted(key)
  /\ IF ValidCSRF(c, form.token) /\ article # None /\ article.id = form.id
     THEN /\ Drop
          /\ form' = None
          /\ \E code \in {303, 502} : AnswerPage(key, code)
     ELSE /\ AnswerPage(key, IF ValidCSRF(c, form.token) THEN 404 ELSE 403)
          /\ UNCHANGED <<handledVars, article, created, form>>

-----------------------------------------------------------------------------
(* The API.                                                                *)

ApiWrite(key, id, in) ==
  /\ id = 0 => created < MaxArticles
  /\ LET role == RoleAnswer(FALSE, key) IN
     \/ role # 200 /\ Answer("api", key, role) /\ UNCHANGED <<article, created>>
     \/ role = 200 /\ Refusal(id, in) # 0 /\ Answer("api", key, Refusal(id, in)) /\ UNCHANGED <<article, created>>
     \/ role = 200 /\ Store(id, in) /\ Answer("api", key, IF id = 0 THEN 201 ELSE 200)
  /\ UNCHANGED <<handledVars, form>>

ApiDelete(key, id) ==
  LET role == RoleAnswer(TRUE, key) IN
  IF role = 200 /\ article # None /\ article.id = id
  THEN Drop /\ UNCHANGED form /\ \E code \in {204, 502} : Answer("api", key, code)
  ELSE Answer("api", key, IF role # 200 THEN role ELSE 404) /\ UNCHANGED <<handledVars, article, created, form>>

-----------------------------------------------------------------------------
Init ==
  /\ AccessInit
  /\ article = None
  /\ created = 0
  /\ edits = 0
  /\ form = None
  /\ last = NoRequest

\* The ways the browser's user gets in and out.
LoginPages(c) ==
  \/ RenderLogin(c, Held) /\ Answer("browser", None, 200)
  \/ \E password \in Keys :
       AdminLogin(c, password, Held) /\ Answer("browser", password, LoginAnswer(c, password))

Logout(key, c) ==
  /\ form # None
  /\ Admitted(key)
  /\ IF ValidCSRF(c, form.token)
     THEN AdminLogout(c, form.token) /\ AnswerPage(key, 303)
     ELSE UNCHANGED handledVars /\ AnswerPage(key, 403)

Surroundings ==
  /\ \/ (Tick \/ Restart \/ LoseSession \/ SendBare \/ ForgetBare) /\ UNCHANGED form
     \/ LoseCSRF /\ form' = IF form = None THEN None ELSE [form EXCEPT !.exposed = TRUE]
  /\ last' = NoRequest
  /\ UNCHANGED <<article, created>>

Browser(key, c) ==
  \/ TurnedAway(key)
  \/ AdminArticles(key, c)
  \/ AdminNew(key, c)
  \/ \E id \in 1..created : AdminEdit(key, c, id)
  \/ AdminSave(key, c)
  \/ AdminDelete(key, c)

Api == \E key \in Keys :
  \/ \E id \in 0..created, in \in ApiInputs : ApiWrite(key, id, in)
  \/ \E id \in 1..created : ApiDelete(key, id)

Request ==
  \/ \E c \in {csrf, None} :
       /\ Brings(c)
       /\ \/ LoginPages(c) /\ UNCHANGED <<article, created, form>>
          \/ \E key \in Keys \cup {None} : Logout(key, c) /\ UNCHANGED <<article, created, form>>
          \/ \E key \in Keys \cup {None} : Browser(key, c)
  \/ Api /\ UNCHANGED bare

Next == \/ TypeInto
        \/ (Surroundings \/ Request) /\ UNCHANGED edits

Spec == Init /\ [][Next]_vars

\* All but `last`, which no step reads: for TLC to tell states apart.
View == <<accessVars, article, created, edits, form>>

-----------------------------------------------------------------------------
(* Properties.                                                             *)

\* An open form carries the token of the browser's cookie, unless the browser has lost
\* the cookie since, or then waited for another answer to a request without the cookie:
\* logging in again, other pages, refused saves and requests that were answered or given
\* up before do not make a form unusable (ensureCSRFToken, admin.go:48).
FormsCarryTheToken == form # None /\ ~form.exposed => form.token = csrf

SavesForm == form # None /\ form' = None /\ article' # None

Plain(s) == \A part \in {s.url, s.title, s.publisher, s.publishedAt} : Len(part) = 1

\* What the form still shows of a part as it was when it was opened.
Kept(f, control) == /\ control \notin f.touched
                    /\ f.blanked => control \in {"sourcesText", "relationsText"}

SaveKeepsUntouched ==
  SavesForm /\ form.id # 0 =>
    LET new == article'.content IN
    /\ \A control \in {"body", "status", "cats"} : Kept(form, control) => new[control] = form.shown[control]
    /\ Kept(form, "relationsText") => new.relations = form.shown.relations
    /\ Kept(form, "sourcesText") =>
         /\ Len(new.sources) = Len(form.shown.sources)
         /\ \A i \in DOMAIN new.sources : Plain(form.shown.sources[i]) => new.sources[i] = form.shown.sources[i]

\* A part of the form the editor did not touch is stored as it was when the form was
\* opened, through any number of refusals, except that a refusal for the token empties
\* all but the two texts, and that a source with "|" before its last field may change
\* (TestAdminPreservesSourceMetadata, admin_test.go:192).
UntouchedPartsAreKept == [][SaveKeepsUntouched]_vars

HitsItsArticle ==
  form # None /\ form' = None /\ form.id # 0 => article # None /\ article.born = form.born

\* An edit form writes or deletes the article it was opened for, and no later one with
\* the same slug or, were ids given twice, the same id.
FormsHitTheirArticle == [][HitsItsArticle]_vars

ChangeIsAuthorised ==
  article' # article =>
    \/ last'.via = "browser" /\ last'.key = config.adminKey
    \/ last'.via = "browser" /\ login # None /\ login.secret = config.sessionSecret /\ now < login.at + TTL
    \/ last'.via = "api" /\ last'.key = config.adminKey
    \/ last'.via = "api" /\ last'.key = config.hermesKey /\ article' # None

\* The article changes only through a log-in with the running configuration's secret
\* that is not older than the TTL, the administrator's password, or an API key, and it
\* is deleted through the API with the administrator's key only.
ChangesAreAuthorised == [][ChangeIsAuthorised]_vars

NothingOpenedToTheAgent ==
  /\ article # None /\ article' = None => last'.key # config.hermesKey
  /\ login' # None /\ login' # login => login'.with # config.hermesKey

\* The key given to the publishing agent opens neither deletion nor the editor's pages
\* (docs/hermes.md; config.go refuses equal keys).
AgentsOnlyWrite == [][NothingOpenedToTheAgent]_vars

RefusedFormComesBack ==
  last'.via = "browser" /\ last'.code = 422 /\ form' # form =>
    /\ form'.fields.sourcesText = form.fields.sourcesText
    /\ form'.fields.relationsText = form.fields.relationsText
    /\ form.token = csrf /\ UNCHANGED bare => form'.fields = form.fields
    /\ form'.token = csrf'

\* A refused save returns the form: sources and relations as typed whatever was refused,
\* the rest too if the save brought the cookie of the form's token; and the form returned
\* has the token of the cookie that its answer leaves.
RefusedFormsComeBack == [][RefusedFormComesBack]_vars
=============================================================================
