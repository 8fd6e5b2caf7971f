----------------------------- MODULE AdminAccess -----------------------------
(***************************************************************************)
(* Who may do what: the configuration the process accepts at its start,    *)
(* the editor's session cookie and CSRF cookie, and the API keys.  The     *)
(* browser keeps the cookies: it may lose them at any time, and it need    *)
(* not drop one when its MaxAge passes (its clock is not the server's).    *)
(* A handler shares no memory with another, but all share the browser's    *)
(* cookies: a request brings the CSRF cookie of when it was sent, and a    *)
(* new one is set when its answer arrives.  A request sent with the cookie *)
(* sets none, so it is one step, as of when it was sent.  One sent without *)
(* may be answered later (`bare`), when another answer has set the cookie. *)
(***************************************************************************)
EXTENDS Naturals, Sequences

CONSTANTS
  Configs,    \* configurations the process may be started with
  Short,      \* the secrets that are too short for a password or session secret
  Keys,       \* what a client may send as password or key
  Secrets,    \* what cookies may be signed with
  Tokens,     \* CSRF tokens; rand.Read never draws one that a page or the cookie still holds
  TTL,        \* editorSessionTTL
  MaxTime,    \* bound on the clock
  MaxBare,    \* bound on the requests sent without CSRF cookie and not answered yet
  None        \* no cookie, no page; the empty key

\* A text is the sequence of its parts between "|": a user name <<"x", "y">> is "x|y".
Config == [user : Seq(STRING), editorPassword : Keys, sessionSecret : Secrets,
           adminKey : Keys \cup {None}, hermesKey : Keys \cup {None}]

\* What is known of a log-in.
LogIn == [at : Nat, with : Keys, user : Seq(STRING), secret : Secrets]

ASSUME ConfigsAssumption == Configs \subseteq Config
ASSUME NoneAssumption == None \notin Keys \cup Tokens
\* A session cookie.
Session == [payload : Seq(STRING \cup Nat), secret : Secrets]

ASSUME LogInAssumption == None \notin LogIn \cup Session
ASSUME TimeAssumption == TTL \in Nat \ {0} /\ MaxTime \in Nat
ASSUME BareAssumption == MaxBare \in Nat

VARIABLES
  config,     \* the configuration of the running process
  now,        \* the server's clock
  csrf,       \* the browser's CSRF cookie
  bare,       \* the number of requests it has sent without one and waits for
  session,    \* its session cookie
  loginPage,  \* the CSRF token in the login page it shows
  login       \* the log-in its session cookie comes from

handledVars == <<config, now, csrf, session, loginPage, login>>   \* what a handler may change
accessVars  == <<handledVars, bare>>

AccessTypeOK ==
  /\ config \in Configs
  /\ now \in 0..MaxTime
  /\ csrf \in Tokens \cup {None}
  /\ bare \in 0..MaxBare
  /\ loginPage \in Tokens \cup {None}
  /\ session # None => session.secret \in Secrets /\ Len(session.payload) >= 2
  /\ (session = None) <=> (login = None)
  /\ login # None => login.at \in 0..MaxTime /\ login.with \in Keys

-----------------------------------------------------------------------------
(* Configuration and keys.                                                 *)

\* Variant: the two API keys may be equal.
Validate_EqualKeys(cfg) ==
  /\ None \notin {cfg.adminKey, cfg.hermesKey}
  /\ cfg.editorPassword \notin Short \cup {cfg.adminKey, cfg.hermesKey}
  /\ cfg.sessionSecret \notin Short \cup {cfg.editorPassword, cfg.adminKey, cfg.hermesKey}
  /\ Len(cfg.user) = 1 /\ cfg.user # <<"">>

\* Variant: the editor's name may contain "|".
Validate_AnyUser(cfg) ==
  /\ None \notin {cfg.adminKey, cfg.hermesKey}
  /\ cfg.adminKey # cfg.hermesKey
  /\ cfg.editorPassword \notin Short \cup {cfg.adminKey, cfg.hermesKey}
  /\ cfg.sessionSecret \notin Short \cup {cfg.editorPassword, cfg.adminKey, cfg.hermesKey}
  /\ cfg.user # <<"">>

\* The process refuses to start with any other configuration.
Validate(cfg) ==
  /\ None \notin {cfg.adminKey, cfg.hermesKey}
  /\ cfg.adminKey # cfg.hermesKey
  /\ cfg.editorPassword \notin Short \cup {cfg.adminKey, cfg.hermesKey}
  /\ cfg.sessionSecret \notin Short \cup {cfg.editorPassword, cfg.adminKey, cfg.hermesKey}
  /\ Len(cfg.user) = 1 /\ cfg.user # <<"">>

\* The second argument is the configured one; an empty one equals nothing.
SecureEqual(a, b) == b # None /\ a = b

Writer(key) == SecureEqual(key, config.adminKey) \/ SecureEqual(key, config.hermesKey)
Admin(key)  == SecureEqual(key, config.adminKey)

\* requireRole's answer to a bearer token; 200: the handler runs.
RoleAnswer(adminOnly, key) ==
  CASE adminOnly /\ ~Admin(key) /\ Writer(key) -> 403
    [] ~Writer(key)                            -> 401
    [] OTHER                                   -> 200

-----------------------------------------------------------------------------
(* Sessions.                                                               *)

MakeEditorSession == [payload |-> config.user \o <<now + TTL>>, secret |-> config.sessionSecret]

\* Variant: the expiry in the cookie is not looked at.
ValidEditorSession_Forever(s) ==
  /\ s # None
  /\ s.secret = config.sessionSecret
  /\ Len(s.payload) = 2
  /\ <<s.payload[1]>> = config.user

\* The signature is this process's, and before the first "|" of the payload is the
\* editor's name, after it a number that has not come yet.
ValidEditorSession(s) ==
  /\ s # None
  /\ s.secret = config.sessionSecret
  /\ Len(s.payload) = 2
  /\ <<s.payload[1]>> = config.user
  /\ now < s.payload[2]

\* requireAdminSession lets a request through that brings the cookie, or the
\* administrator's key as its Basic password.
Admitted(key) == ValidEditorSession(session) \/ SecureEqual(key, config.adminKey)

\* A request of the browser brings cookie c: it is sent now, or answered only now.
Brings(c) == \/ c = csrf /\ UNCHANGED bare
             \/ c = None /\ bare > 0 /\ bare' = bare - 1

\* Variant: a new token for every page.
EnsureCSRFToken_Always(c, t, held) == t \in Tokens \ (held \cup {csrf})

\* ensureCSRFToken: the token of the request's cookie, or a fresh one, which the answer
\* makes the browser's cookie.
EnsureCSRFToken(c, t, held) == IF c # None THEN t = c ELSE t \in Tokens \ (held \cup {csrf})

ValidCSRF(c, token) == SecureEqual(token, c)

-----------------------------------------------------------------------------
AccessInit ==
  /\ config \in Configs /\ Validate(config)
  /\ now = 0
  /\ csrf = None
  /\ bare = 0
  /\ session = None
  /\ loginPage = None
  /\ login = None

Tick == /\ now < MaxTime
        /\ now' = now + 1
        /\ UNCHANGED <<config, csrf, bare, session, loginPage, login>>

\* The process is started again; cookies of its predecessor are still in the browser.
Restart == \E cfg \in Configs \ {config} :
  /\ Validate(cfg)
  /\ config' = cfg
  /\ UNCHANGED <<now, csrf, bare, session, loginPage, login>>

LoseSession == /\ session # None
               /\ session' = None /\ login' = None
               /\ UNCHANGED <<config, now, csrf, bare, loginPage>>

LoseCSRF == /\ csrf # None
            /\ csrf' = None
            /\ UNCHANGED <<config, now, bare, session, loginPage, login>>

\* A request is sent without CSRF cookie, to be answered later.
SendBare == /\ csrf = None
            /\ bare < MaxBare /\ bare' = bare + 1
            /\ UNCHANGED handledVars

\* The browser gives up such a request, or its answer sets no cookie.
ForgetBare == /\ bare > 0
              /\ bare' = bare - 1
              /\ UNCHANGED handledVars

\* A login page is rendered, with a token that no other page `held` shows.
RenderLogin(c, held) == \E t \in Tokens :
  /\ EnsureCSRFToken(c, t, held)
  /\ csrf' = t /\ loginPage' = t
  /\ UNCHANGED <<config, now, session, login>>

\* A wrong name is answered like a wrong password.
LoginAnswer(c, password) ==
  CASE ~ValidCSRF(c, loginPage)                   -> 403
    [] ~SecureEqual(password, config.editorPassword) -> 401
    [] OTHER                                       -> 303

AdminLogin(c, password, held) ==
  /\ loginPage # None
  /\ IF LoginAnswer(c, password) = 303
     THEN /\ session' = MakeEditorSession
          /\ login' = [at |-> now, with |-> password, user |-> config.user, secret |-> config.sessionSecret]
          /\ loginPage' = None
          /\ UNCHANGED <<config, now, csrf>>
     ELSE RenderLogin(c, held \cup {loginPage})

AdminLogout(c, token) ==
  /\ ValidCSRF(c, token)
  /\ session' = None /\ login' = None
  /\ UNCHANGED <<config, now, csrf, loginPage>>

-----------------------------------------------------------------------------
(* Properties.                                                             *)

\* A session cookie is accepted exactly as long as its log-in counts: under the name
\* and the secret the editor logged in with, and for TTL; so whoever just logged in is
\* let in (main.go, config.go and session.go together: a name with "|" could log in
\* and never be recognised).
SessionsAsLoggedIn ==
  session # None =>
    (ValidEditorSession(session) <=> /\ login.user = config.user
                                     /\ login.secret = config.sessionSecret
                                     /\ now < login.at + TTL)
=============================================================================
