----------------------------- MODULE AdminProofs -----------------------------
(***************************************************************************)
(* Proofs about AdminForm: who can change articles, for any configurations,*)
(* keys, passwords, tokens, inputs, lifetimes and numbers of articles.     *)
(***************************************************************************)
EXTENDS AdminForm, TLAPS

\* The session cookie says what its log-in was, under a name without "|".
AccessInv ==
  /\ config \in Configs /\ Validate(config)
  /\ now \in Nat
  /\ session # None =>
       /\ login \in LogIn /\ Len(login.user) = 1
       /\ session = [payload |-> login.user \o <<login.at + TTL>>, secret |-> login.secret]

\* The article is a row of the table, whose content does not matter here.
RowInv ==
  /\ created \in Nat
  /\ article # None => /\ article = [id |-> article.id, born |-> article.born, content |-> article.content]
                       /\ article.id \in Nat /\ article.born \in Nat

\* A form has its token from the cookie; the cookie is never empty while it is kept, and
\* then no request without it is sent, or still to be answered.
FormInv ==
  form # None =>
    /\ {"token", "exposed"} \subseteq DOMAIN form
    /\ form.token \in Tokens
    /\ ~form.exposed => form.token = csrf /\ bare = 0

PagesInv == FormInv /\ csrf \in Tokens \cup {None} /\ bare \in 0..MaxBare

-----------------------------------------------------------------------------
(* Sessions.                                                               *)

\* Logging in gives a session cookie that says so; a refused log-in changes nothing of the session.
LEMMA LoginMakesASession ==
  ASSUME AccessInv, NEW c, NEW password, NEW held, AdminLogin(c, password, held)
  PROVE  AccessInv'
<1>1. config.user \in Seq(STRING) /\ Len(config.user) = 1 /\ config.editorPassword \in Keys
      /\ config.sessionSecret \in Secrets
  BY ConfigsAssumption DEF AccessInv, Validate, Config
<1>2. CASE LoginAnswer(c, password) = 303
  <2>1. login' = [at |-> now, with |-> password, user |-> config.user, secret |-> config.sessionSecret]
        /\ session' = [payload |-> config.user \o <<now + TTL>>, secret |-> config.sessionSecret]
        /\ UNCHANGED <<config, now>>
    BY <1>2 DEF AdminLogin, MakeEditorSession
  <2> QED
    <3>1. password \in Keys /\ now \in Nat
      BY <1>1, <1>2 DEF LoginAnswer, SecureEqual, AccessInv
    <3>2. login' \in LogIn
      BY <1>1, <2>1, <3>1 DEF LogIn
    <3> QED
      BY <1>1, <2>1, <3>2 DEF AccessInv, Validate
<1>3. CASE LoginAnswer(c, password) # 303
  BY <1>3 DEF AdminLogin, RenderLogin, AccessInv, Validate
<1> QED
  BY <1>2, <1>3

\* What a page, a request of the API and the surroundings do to the cookies.
LEMMA AccessInvNext == AccessInv /\ [Next]_vars => AccessInv'
<1> SUFFICES ASSUME AccessInv, [Next]_vars
             PROVE  AccessInv'
  OBVIOUS
<1>1. CASE UNCHANGED <<config, now, session, login>>
  BY <1>1 DEF AccessInv, Validate
<1>2. CASE Tick \/ Restart \/ LoseSession
  <2>1. CASE Tick
    <3>1. now' \in Nat /\ UNCHANGED <<config, session, login>>
      BY <2>1 DEF Tick, AccessInv
    <3> QED
      BY <3>1 DEF AccessInv, Validate
  <2>2. CASE Restart
    <3>1. config' \in Configs /\ Validate(config') /\ UNCHANGED <<now, session, login>>
      BY <2>2 DEF Restart
    <3> QED
      BY <3>1 DEF AccessInv, Validate
  <2>3. CASE LoseSession
    BY <2>3 DEF LoseSession, AccessInv, Validate
  <2> QED
    BY <1>2, <2>1, <2>2, <2>3
<1>3. ASSUME NEW c, NEW token, AdminLogout(c, token)
      PROVE  AccessInv'
  BY <1>3 DEF AdminLogout, AccessInv, Validate
<1>4. ASSUME NEW c, LoginPages(c)
      PROVE  AccessInv'
  BY <1>1, <1>4, LoginMakesASession DEF LoginPages, RenderLogin
<1>5. ASSUME NEW key, NEW c, Logout(key, c)
      PROVE  AccessInv'
  BY <1>1, <1>3, <1>5 DEF Logout, handledVars
<1>6. ASSUME NEW key, NEW c, Browser(key, c)
      PROVE  AccessInv'
  <2>1. CASE TurnedAway(key) \/ AdminArticles(key, c) \/ AdminNew(key, c) \/ \E id \in 1..created : AdminEdit(key, c, id)
    BY <1>1, <2>1 DEF TurnedAway, AdminArticles, AdminNew, AdminEdit, RenderForm, handledVars
  <2>2. CASE AdminSave(key, c) \/ AdminDelete(key, c)
    BY <1>1, <2>2 DEF AdminSave, Refuse, AdminDelete, Drop, RenderForm, handledVars
  <2> QED
    BY <1>6, <2>1, <2>2 DEF Browser
<1>7. CASE Api \/ TypeInto \/ UNCHANGED vars
  <2>1. ASSUME NEW key, NEW id, NEW in, ApiWrite(key, id, in) \/ ApiDelete(key, id)
        PROVE  UNCHANGED <<config, now, session, login>>
    BY <2>1 DEF ApiWrite, ApiDelete, Drop, handledVars
  <2> QED
    BY <1>1, <1>7, <2>1 DEF Api, TypeInto, vars, accessVars, handledVars
<1>8. CASE Surroundings
  BY <1>1, <1>2, <1>8 DEF Surroundings, LoseCSRF, SendBare, ForgetBare, handledVars
<1> QED
  BY <1>4, <1>5, <1>6, <1>7, <1>8 DEF Next, Request

\* The session cookie says what its log-in was, in every reachable state.
THEOREM AccessInvariant == Spec => []AccessInv
<1>1. Init => AccessInv
  BY DEF Init, AccessInit, AccessInv
<1> QED
  BY <1>1, AccessInvNext, PTL DEF Spec

\* Read so, the cookie counts as long as the log-in does.
LEMMA AccessInvUse == AccessInv => SessionsAsLoggedIn
<1> SUFFICES ASSUME AccessInv, session # None
             PROVE  ValidEditorSession(session) <=> /\ login.user = config.user
                                                    /\ login.secret = config.sessionSecret
                                                    /\ now < login.at + TTL
  BY DEF SessionsAsLoggedIn
<1> DEFINE Item == STRING \cup Nat
           until == login.at + TTL
<1>1. /\ login.user \in Seq(STRING) /\ Len(login.user) = 1
      /\ config.user \in Seq(STRING) /\ Len(config.user) = 1
      /\ until \in Nat
  <2>1. login \in LogIn /\ Len(login.user) = 1
    BY DEF AccessInv
  <2>2. config \in Config /\ Len(config.user) = 1
    BY ConfigsAssumption DEF AccessInv, Validate
  <2>3. login.at \in Nat /\ login.user \in Seq(STRING)
    BY <2>1 DEF LogIn
  <2>4. until \in Nat
    BY <2>3, TimeAssumption
  <2> QED
    BY <2>1, <2>2, <2>3, <2>4 DEF Config
<1>2. session.payload = login.user \o <<until>> /\ session.secret = login.secret
  BY DEF AccessInv
<1>3. login.user \in Seq(Item) /\ <<until>> \in Seq(Item)
  BY <1>1
<1> HIDE DEF until, Item
<1>4. Len(session.payload) = 2 /\ session.payload[1] = login.user[1] /\ session.payload[2] = until
  BY <1>1, <1>2, <1>3
<1>5. <<login.user[1]>> = config.user <=> login.user = config.user
  BY <1>1
<1> QED
  BY <1>2, <1>4, <1>5 DEF ValidEditorSession, until

\* A session cookie counts exactly as its log-in does: through restarts with other
\* names and secrets, expiry and new log-ins.
THEOREM SessionsStayAsLoggedIn == Spec => []SessionsAsLoggedIn
  BY AccessInvariant, AccessInvUse, PTL

-----------------------------------------------------------------------------
(* Rows.                                                                   *)

\* Storing keeps the article a row.
LEMMA StoreKeepsRows ==
  ASSUME RowInv, NEW id, NEW in, Store(id, in)
  PROVE  RowInv'
<1>1. CASE id = 0
  BY <1>1 DEF Store, RowInv, NewId
<1>2. CASE id # 0
  <2>1. article # None
    BY <1>2 DEF Store, Refusal
  <2> QED
    BY <1>2, <2>1 DEF Store, RowInv
<1> QED
  BY <1>1, <1>2

\* The handlers of the browser leave the article alone, store what the form says, or drop it.
LEMMA BrowserWrites ==
  ASSUME NEW key, NEW c, Browser(key, c)
  PROVE  \/ UNCHANGED <<article, created>>
         \/ /\ Admitted(key) /\ UNCHANGED handledVars
            /\ \E code : AnswerPage(key, code)
            /\ Store(form.id, ParseForm(form.fields)) \/ Drop
<1>1. CASE TurnedAway(key) \/ AdminArticles(key, c) \/ AdminNew(key, c) \/ \E id \in 1..created : AdminEdit(key, c, id)
  BY <1>1 DEF TurnedAway, AdminArticles, AdminNew, AdminEdit, RenderForm
<1>2. CASE AdminSave(key, c)
  BY <1>2 DEF AdminSave, Refuse, RenderForm
<1>3. CASE AdminDelete(key, c)
  BY <1>3 DEF AdminDelete, Drop
<1> QED
  BY <1>1, <1>2, <1>3 DEF Browser

\* Every step does.
LEMMA RowInvNext == RowInv /\ [Next]_vars => RowInv'
<1> SUFFICES ASSUME RowInv, [Next]_vars
             PROVE  RowInv'
  OBVIOUS
<1>1. CASE UNCHANGED <<article, created>>
  BY <1>1 DEF RowInv
<1>2. CASE Drop
  BY <1>2 DEF Drop, RowInv
<1>3. ASSUME NEW key, NEW c, Browser(key, c)
      PROVE  RowInv'
  BY <1>1, <1>2, <1>3, BrowserWrites, StoreKeepsRows
<1>4. CASE Api
  BY <1>1, <1>2, <1>4, StoreKeepsRows DEF Api, ApiWrite, ApiDelete
<1>5. CASE TypeInto \/ Surroundings \/ UNCHANGED vars
  BY <1>1, <1>5 DEF TypeInto, Surroundings, vars, formVars
<1> QED
  BY <1>1, <1>3, <1>4, <1>5 DEF Next, Request

\* The article is a row in every reachable state.
THEOREM RowInvariant == Spec => []RowInv
<1>1. Init => RowInv
  BY DEF Init, RowInv
<1> QED
  BY <1>1, RowInvNext, PTL DEF Spec

-----------------------------------------------------------------------------
(* Changes.                                                                *)

\* An admin page admits a log-in that counts, or the admin key.
LEMMA PagesAreAuthorised ==
  ASSUME AccessInv, NEW key \in Keys \cup {None}, NEW code, Admitted(key), AnswerPage(key, code)
  PROVE  /\ last'.via = "browser"
         /\ \/ last'.key = config.adminKey
            \/ /\ last'.key = None
               /\ login # None /\ login.secret = config.sessionSecret /\ now < login.at + TTL
<1>1. CASE ValidEditorSession(session)
  <2>1. session # None
    BY <1>1 DEF ValidEditorSession
  <2> QED
    BY <1>1, <2>1, AccessInvUse, LogInAssumption DEF AccessInv, SessionsAsLoggedIn, AnswerPage, Answer
<1>2. CASE ~ValidEditorSession(session)
  BY <1>2 DEF Admitted, SecureEqual, AnswerPage, Answer
<1> QED
  BY <1>1, <1>2

\* What the API writes is a row, so that a write is never taken for a deletion.
LEMMA ApiStoresRows ==
  ASSUME RowInv, NEW id, NEW in \in ApiInputs, Store(id, in)
  PROVE  article' # None
<1>1. Normalize(in) \in Input
  BY ApiAssumption DEF Normalize, Input, Statuses
<1>2. article' \in Row
  <2>1. CASE id = 0
    BY <1>1, <2>1 DEF Store, NewId, RowInv, Row
  <2>2. CASE id # 0
    <3>1. article # None
      BY <2>2 DEF Store, Refusal
    <3> QED
      BY <1>1, <2>2, <3>1 DEF Store, RowInv, Row
  <2> QED
    BY <2>1, <2>2
<1> QED
  BY <1>2, RowAssumption

\* The keys of the API, and what they open.
LEMMA ApiIsAuthorised ==
  ASSUME AccessInv, RowInv, Api
  PROVE  /\ ChangeIsAuthorised
         /\ article # None /\ article' = None => last'.key = config.adminKey
<1>1. ASSUME NEW key, NEW id \in 0..created, NEW in \in ApiInputs, ApiWrite(key, id, in), article' # article
      PROVE  /\ last'.via = "api" /\ last'.key = key /\ article' # None
             /\ key = config.adminKey \/ key = config.hermesKey
  <2>1. RoleAnswer(FALSE, key) = 200 /\ Store(id, in)
    BY <1>1 DEF ApiWrite
  <2>2. \E code : Answer("api", key, code)
    <3>1. CASE Answer("api", key, RoleAnswer(FALSE, key))
      BY <3>1
    <3>2. CASE Answer("api", key, Refusal(id, in))
      BY <3>2
    <3>3. CASE Answer("api", key, IF id = 0 THEN 201 ELSE 200)
      BY <3>3
    <3> QED
      BY <1>1, <3>1, <3>2, <3>3 DEF ApiWrite
  <2>3. last'.via = "api" /\ last'.key = key
    BY <2>2 DEF Answer
  <2>4. Writer(key)
    BY <2>1 DEF RoleAnswer
  <2> QED
    BY <2>1, <2>3, <2>4, ApiStoresRows DEF Writer, SecureEqual
<1>2. ASSUME NEW key, NEW id \in 1..created, ApiDelete(key, id), article' # article
      PROVE  last'.via = "api" /\ last'.key = key /\ key = config.adminKey
  <2>1. RoleAnswer(TRUE, key) = 200 /\ \E code \in {204, 502} : Answer("api", key, code)
    BY <1>2 DEF ApiDelete
  <2>2. Admin(key)
    BY <2>1 DEF RoleAnswer
  <2> QED
    BY <2>1, <2>2 DEF Admin, SecureEqual, Answer
<1> QED
  BY <1>1, <1>2 DEF Api, ChangeIsAuthorised

\* Every step that changes the article is authorised.
LEMMA ChangesAuthorisedNext == AccessInv /\ RowInv /\ [Next]_vars => ChangeIsAuthorised
<1> SUFFICES ASSUME AccessInv, RowInv, [Next]_vars, article' # article
             PROVE  ChangeIsAuthorised
  BY DEF ChangeIsAuthorised
<1>1. (\E key \in Keys \cup {None}, c \in {csrf, None} : Browser(key, c)) \/ Api
  BY DEF Next, Request, TypeInto, Surroundings, vars, formVars
<1>2. ASSUME NEW key \in Keys \cup {None}, NEW c, Browser(key, c)
      PROVE  ChangeIsAuthorised
  BY <1>2, BrowserWrites, PagesAreAuthorised DEF ChangeIsAuthorised
<1> QED
  BY <1>1, <1>2, ApiIsAuthorised

\* Whatever the configuration is, a change comes from a log-in that counts or from a key.
THEOREM ChangesAlwaysAuthorised == Spec => ChangesAreAuthorised
  BY AccessInvariant, RowInvariant, ChangesAuthorisedNext, PTL DEF Spec, ChangesAreAuthorised

\* Who logs in knows the editor's password.
LEMMA LoginsTakeThePassword ==
  ASSUME [Next]_vars, login' # None, login' # login
  PROVE  login'.with = config.editorPassword
<1>1. ASSUME NEW c, NEW password \in Keys, AdminLogin(c, password, Held)
      PROVE  login'.with = config.editorPassword
  BY <1>1 DEF AdminLogin, LoginAnswer, SecureEqual, RenderLogin
<1>2. ASSUME NEW key, NEW c, Logout(key, c)
      PROVE  FALSE
  BY <1>2 DEF Logout, AdminLogout, handledVars
<1>3. ASSUME NEW key, NEW c, Browser(key, c)
      PROVE  FALSE
  <2>1. CASE TurnedAway(key) \/ AdminArticles(key, c) \/ AdminNew(key, c) \/ \E id \in 1..created : AdminEdit(key, c, id)
    BY <2>1 DEF TurnedAway, AdminArticles, AdminNew, AdminEdit, RenderForm, handledVars
  <2>2. CASE AdminSave(key, c) \/ AdminDelete(key, c)
    BY <2>2 DEF AdminSave, Refuse, AdminDelete, Drop, RenderForm, handledVars
  <2> QED
    BY <1>3, <2>1, <2>2 DEF Browser
<1>4. CASE Api \/ TypeInto \/ Surroundings \/ UNCHANGED vars
  BY <1>4 DEF Api, ApiWrite, ApiDelete, Drop, TypeInto, Surroundings, Tick, Restart, LoseSession, LoseCSRF,
              SendBare, ForgetBare, vars, accessVars, handledVars
<1> QED
  BY <1>1, <1>2, <1>3, <1>4 DEF Next, Request, LoginPages, RenderLogin

\* No step does for the agent what is not its to do.
LEMMA NothingOpenedNext == AccessInv /\ RowInv /\ [Next]_vars => NothingOpenedToTheAgent
<1> SUFFICES ASSUME AccessInv, RowInv, [Next]_vars
             PROVE  NothingOpenedToTheAgent
  OBVIOUS
<1>1. config.hermesKey # None /\ config.hermesKey # config.adminKey /\ config.hermesKey # config.editorPassword
  BY DEF AccessInv, Validate
<1>2. ASSUME article # None, article' = None
      PROVE  last'.key # config.hermesKey
  <2>1. (\E key \in Keys \cup {None}, c \in {csrf, None} : Browser(key, c)) \/ Api
    BY <1>2 DEF Next, Request, TypeInto, Surroundings, vars, formVars
  <2>2. ASSUME NEW key \in Keys \cup {None}, NEW c, Browser(key, c)
        PROVE  last'.key # config.hermesKey
    BY <1>1, <1>2, <2>2, BrowserWrites, PagesAreAuthorised
  <2> QED
    BY <1>1, <1>2, <2>1, <2>2, ApiIsAuthorised
<1> QED
  BY <1>1, <1>2, LoginsTakeThePassword DEF NothingOpenedToTheAgent

\* The publishing agent's key neither deletes nor logs in, for any accepted configuration.
THEOREM AgentsNeverDoMore == Spec => AgentsOnlyWrite
  BY AccessInvariant, RowInvariant, NothingOpenedNext, PTL DEF Spec, AgentsOnlyWrite

-----------------------------------------------------------------------------
(* Forms.                                                                  *)

\* RenderForm gives any page the cookie's token.
LEMMA RenderFormTokens ==
  ASSUME NEW c, NEW f, {"token", "exposed"} \subseteq DOMAIN f, RenderForm(c, f)
  PROVE  FormInv'
<1> PICK t \in Tokens : csrf' = t /\ form' = [f EXCEPT !.token = t, !.exposed = bare' # 0]
  BY DEF RenderForm
<1> QED
  BY DEF FormInv

\* A request that brings no cookie when the browser has one is answered late.
LEMMA Brought ==
  ASSUME PagesInv, NEW c \in {csrf, None}, Brings(c)
  PROVE  /\ bare' \in 0..MaxBare
         /\ c = csrf \/ bare # 0
         /\ bare = 0 => bare' = 0
BY BareAssumption DEF PagesInv, Brings

\* An answer that leaves the form, and the cookie as it is or as the request without
\* cookie finds it, keeps form and cookie together.
LEMMA FormStays ==
  ASSUME PagesInv, NEW c \in {csrf, None}, Brings(c), UNCHANGED form,
         UNCHANGED csrf \/ \E held : \E t \in Tokens : EnsureCSRFToken(c, t, held) /\ csrf' = t
  PROVE  PagesInv'
<1>1. CASE UNCHANGED csrf
  BY <1>1, Brought DEF PagesInv, FormInv
<1>2. ASSUME NEW t \in Tokens, NEW held, EnsureCSRFToken(c, t, held) /\ csrf' = t
      PROVE  PagesInv'
  <2>1. csrf' \in Tokens /\ (c # None => csrf' = c)
    BY <1>2 DEF EnsureCSRFToken
  <2> QED
    BY <2>1, Brought, NoneAssumption DEF PagesInv, FormInv
<1> QED
  BY <1>1, <1>2

\* What the surroundings do to the cookie.
LEMMA SurroundingsKeepPages ==
  ASSUME PagesInv, Surroundings
  PROVE  PagesInv'
<1>1. CASE (Tick \/ Restart \/ LoseSession) /\ UNCHANGED form
  BY <1>1 DEF Tick, Restart, LoseSession, PagesInv, FormInv
<1>2. CASE (SendBare \/ ForgetBare) /\ UNCHANGED form
  BY <1>2, BareAssumption, NoneAssumption DEF SendBare, ForgetBare, handledVars, PagesInv, FormInv
<1>3. CASE LoseCSRF /\ form' = IF form = None THEN None ELSE [form EXCEPT !.exposed = TRUE]
  BY <1>3 DEF LoseCSRF, PagesInv, FormInv
<1> QED
  BY <1>1, <1>2, <1>3 DEF Surroundings

\* Every step keeps the form's token and the cookie together.
LEMMA PagesInvNext == PagesInv /\ [Next]_vars => PagesInv'
<1> SUFFICES ASSUME PagesInv, [Next]_vars
             PROVE  PagesInv'
  OBVIOUS
<1>1. CASE UNCHANGED <<form, csrf, bare>>
  BY <1>1 DEF PagesInv, FormInv
<1>2. ASSUME NEW c \in {csrf, None}, Brings(c), LoginPages(c), UNCHANGED form
      PROVE  PagesInv'
  <2>1. UNCHANGED csrf \/ \E held : RenderLogin(c, held)
    BY <1>2 DEF LoginPages, AdminLogin
  <2>2. UNCHANGED csrf \/ \E held : \E t \in Tokens : EnsureCSRFToken(c, t, held) /\ csrf' = t
    BY <2>1 DEF RenderLogin
  <2> QED
    BY <1>2, <2>2, FormStays
<1>3. ASSUME NEW c \in {csrf, None}, Brings(c), NEW key, Logout(key, c), UNCHANGED form
      PROVE  PagesInv'
  BY <1>3, FormStays DEF Logout, AdminLogout, handledVars
<1>4. CASE Surroundings
  BY <1>4, SurroundingsKeepPages
<1>5. CASE TypeInto
  BY <1>5 DEF TypeInto, PagesInv, FormInv, accessVars, handledVars
<1>6. ASSUME NEW c \in {csrf, None}, Brings(c), NEW key, Browser(key, c)
      PROVE  PagesInv'
  <2>1. CASE UNCHANGED <<form, csrf>>
    BY <1>6, <2>1, FormStays
  <2>2. CASE form' = None /\ UNCHANGED csrf
    BY <1>6, <2>2, Brought DEF PagesInv, FormInv
  <2>3. ASSUME NEW f, RenderForm(c, f), {"token", "exposed"} \subseteq DOMAIN f
        PROVE  PagesInv'
    <3>1. csrf' \in Tokens
      BY <2>3 DEF RenderForm
    <3> QED
      BY <1>6, <2>3, <3>1, RenderFormTokens, Brought DEF PagesInv
  <2>4. ASSUME NEW id, NEW shown, NEW fields, RenderForm(c, Page(id, shown, fields))
        PROVE  PagesInv'
    BY <2>3, <2>4 DEF Page
  <2>5. ASSUME form # None, NEW fields, NEW blanked, Refuse(key, c, fields, blanked)
        PROVE  PagesInv'
    <3> DEFINE g == [fields EXCEPT !.status = ShownStatus(@)]
               b == form.blanked \/ blanked
               f == [form EXCEPT !.fields = g, !.blanked = b]
    <3>1. RenderForm(c, f)
      BY <2>5 DEF Refuse
    <3>2. DOMAIN f = DOMAIN form
      OBVIOUS
    <3>3. {"token", "exposed"} \subseteq DOMAIN f
      BY <2>5, <3>2 DEF PagesInv, FormInv
    <3> HIDE DEF f
    <3> QED
      BY <2>3, <3>1, <3>3
  <2>6. CASE TurnedAway(key) \/ AdminNew(key, c) \/ \E id \in 1..created : AdminEdit(key, c, id)
    BY <2>6, <2>1, <2>4 DEF TurnedAway, AdminNew, AdminEdit, handledVars
  <2>7. CASE AdminSave(key, c)
    BY <2>7, <2>2, <2>5 DEF AdminSave, handledVars
  <2>8. CASE AdminDelete(key, c)
    BY <2>8, <2>1, <2>2 DEF AdminDelete, Drop, handledVars
  <2>9. CASE AdminArticles(key, c)
    <3>1. UNCHANGED form /\ \E t \in Tokens : EnsureCSRFToken(c, t, Held) /\ csrf' = t
      BY <2>9 DEF AdminArticles
    <3> QED
      BY <1>6, <3>1, FormStays
  <2> QED
    BY <1>6, <2>6, <2>7, <2>8, <2>9 DEF Browser
<1>7. CASE (Api /\ UNCHANGED bare) \/ UNCHANGED vars
  BY <1>1, <1>7 DEF Api, ApiWrite, ApiDelete, Drop, vars, accessVars, handledVars, formVars
<1> QED
  BY <1>2, <1>3, <1>4, <1>5, <1>6, <1>7 DEF Next, Request

\* A form stays usable as long as the browser keeps the cookie it was rendered with, if no
\* request sent without the cookie was still to be answered when it was rendered.
THEOREM FormsStayUsable == Spec => []FormsCarryTheToken
<1>1. Init => PagesInv
  BY BareAssumption DEF Init, AccessInit, FormInv, PagesInv
<1>2. PagesInv => FormsCarryTheToken
  BY DEF FormInv, PagesInv, FormsCarryTheToken
<1> QED
  BY <1>1, <1>2, PagesInvNext, PTL DEF Spec
=============================================================================
