------------------------------- MODULE Session -------------------------------
(***************************************************************************)
(* Sessions, the CSRF check and the login of one browser                   *)
(* (src/internal/http/session.go, server.go, the auth handlers, and        *)
(* src/internal/auth/auth.go).  The tabs share the cookies; the server     *)
(* keeps nothing.  A login is the random state it started with, a session  *)
(* the signed cookie and its CSRF token: all are drawn afresh, so they are *)
(* numbered in the order they are made, and 0 is the empty string.         *)
(***************************************************************************)
EXTENDS Naturals, Sequences

CONSTANTS
  Tabs,
  Users,      \* names UAA puts in user_name
  NoUser,     \* an empty user_name; the user of a session that does not decode
  MaxLogins   \* bound: logins started

ASSUME NoUserAssumption == NoUser \notin Users
ASSUME MaxLoginsAssumption == MaxLogins \in Nat

VARIABLES
  latest,    \* the logins started are 1 .. latest
  state,     \* the OAuth state cookie, 0 once its 300 seconds are over
  code,      \* code[l]: the account UAA issued a code for in login l
  spent,     \* the logins whose code UAA no longer accepts
  owner,     \* owner[s]: the Username of the s-th session made
  dead,      \* sessions 1 .. dead are expired, or signed with a former key
  jar,       \* the session cookie, 0 for none
  pc,        \* what tab t waits for: "idle" is nothing
  login,     \* the login of tab t
  cookie,    \* the session cookie of the tab's request, or of the reply to it
  page,      \* the form tab t has: whom it was drawn for and its csrf_token
  acts       \* history: whom the accepted posts acted as, and the form's user

browser == <<state, jar>>
logins  == <<latest, code, spent>>
vars == <<browser, logins, owner, dead, pc, login, cookie, page, acts>>

NoForm   == [user |-> NoUser, csrf |-> 0]
Accounts == Users \cup {NoUser}
NoCode   == [given |-> FALSE, user |-> NoUser]
Logins   == 1 .. MaxLogins
Phases   == {"idle", "uaa", "callback", "exchange", "welcome", "get", "render", "post", "act"}

TypeOK ==
  /\ latest \in 0 .. MaxLogins /\ state \in 0 .. latest
  /\ code \in [Logins -> [given : BOOLEAN, user : Accounts]]
  /\ spent \in SUBSET Logins
  /\ owner \in Seq(Users) /\ dead \in 0 .. Len(owner) /\ jar \in 0 .. Len(owner)
  /\ pc \in [Tabs -> Phases]
  /\ login \in [Tabs -> 0 .. latest]
  /\ cookie \in [Tabs -> 0 .. Len(owner)]
  /\ page \in [Tabs -> [user : Accounts, csrf : 0 .. Len(owner)]]
  /\ acts \in SUBSET [user : Accounts, form : Accounts]

Init ==
  /\ latest = 0 /\ state = 0
  /\ code = [l \in Logins |-> NoCode] /\ spent = {}
  /\ owner = <<>> /\ dead = 0 /\ jar = 0
  /\ pc = [t \in Tabs |-> "idle"]
  /\ login = [t \in Tabs |-> 0] /\ cookie = [t \in Tabs |-> 0]
  /\ page = [t \in Tabs |-> NoForm]
  /\ acts = {}

-----------------------------------------------------------------------------
\* decodeSession: the signature and the expiry date.
Valid(s) == s # 0 /\ s > dead

\* readSession with its error ignored, as every handler behind requireAuth does.
ReadSession(s) == IF Valid(s) THEN [user |-> owner[s], csrf |-> s] ELSE NoForm

\* Mutant: an empty token is compared like any other.
CompareTokens(got, sess) == got = sess.csrf

VerifyCSRF(got, sess) == got # 0 /\ sess.csrf # 0 /\ got = sess.csrf

Moves(t, from, to) == pc[t] = from /\ pc' = [pc EXCEPT ![t] = to]

\* handleLogin: a fresh state in the cookie and in the redirect to UAA.
Login(t) ==
  /\ latest < MaxLogins
  /\ Moves(t, "idle", "uaa")
  /\ latest' = latest + 1 /\ state' = latest'
  /\ login' = [login EXCEPT ![t] = latest']
  /\ UNCHANGED <<jar, code, spent, owner, dead, cookie, page, acts>>

\* UAA signs someone in and redirects with a code.
Approve(t, account) ==
  /\ Moves(t, "uaa", "callback")
  /\ code' = [code EXCEPT ![login[t]] = [given |-> TRUE, user |-> account]]
  /\ UNCHANGED <<browser, latest, spent, owner, dead, login, cookie, page, acts>>

\* UAA redirects with an error instead of a code.
Deny(t) ==
  /\ Moves(t, "uaa", "callback")
  /\ UNCHANGED <<browser, logins, owner, dead, login, cookie, page, acts>>

\* The visitor loads the callback's address again.
Reload(t) ==
  /\ login[t] # 0
  /\ Moves(t, "idle", "callback")
  /\ UNCHANGED <<browser, logins, owner, dead, login, cookie, page, acts>>

\* handleCallback up to the exchange: "invalid state", "missing code".
CallbackOK(t) == state # 0 /\ state = login[t] /\ code[login[t]].given

Callback(t) ==
  /\ Moves(t, "callback", IF CallbackOK(t) THEN "exchange" ELSE "idle")
  /\ UNCHANGED <<browser, logins, owner, dead, login, cookie, page, acts>>

\* Mutant: the name is taken as it comes.
ExchangedUnnamed(t) ==
  LET user == code[login[t]].user
  IN  /\ Moves(t, "exchange", "welcome")
      /\ login[t] \notin spent
      /\ spent' = spent \cup {login[t]}
      /\ owner' = Append(owner, user)
      /\ cookie' = [cookie EXCEPT ![t] = Len(owner')]
      /\ UNCHANGED <<browser, latest, code, dead, login, page, acts>>

\* Exchange gives a named user, and the reply carries a new session.
Exchanged(t) ==
  LET user == code[login[t]].user
  IN  /\ Moves(t, "exchange", "welcome")
      /\ login[t] \notin spent /\ user # NoUser
      /\ spent' = spent \cup {login[t]}
      /\ owner' = Append(owner, user)
      /\ cookie' = [cookie EXCEPT ![t] = Len(owner')]
      /\ UNCHANGED <<browser, latest, code, dead, login, page, acts>>

\* The code is refused, or accepted and the user information fails.
ExchangeFails(t) ==
  /\ Moves(t, "exchange", "idle")
  /\ spent' \in {spent, spent \cup {login[t]}}
  /\ UNCHANGED <<browser, latest, code, owner, dead, login, cookie, page, acts>>

\* The browser takes the cookie of the reply, which may come after another's.
Welcome(t) ==
  /\ Moves(t, "welcome", "idle")
  /\ jar' = cookie[t]
  /\ UNCHANGED <<state, logins, owner, dead, login, cookie, page, acts>>

\* The reply is lost, or the tab is closed.
Lost(t) ==
  /\ pc[t] # "idle" /\ Moves(t, pc[t], "idle")
  /\ UNCHANGED <<browser, logins, owner, dead, login, cookie, page, acts>>

\* handleLogout clears the browser's cookie and nothing else.
Logout(t) ==
  /\ pc[t] = "idle"
  /\ jar' = 0
  /\ UNCHANGED <<state, logins, owner, dead, pc, login, cookie, page, acts>>

\* The tab asks for a page of a form, or sends the form it has.
Open(t) ==
  /\ Moves(t, "idle", "get")
  /\ cookie' = [cookie EXCEPT ![t] = jar]
  /\ UNCHANGED <<browser, logins, owner, dead, login, page, acts>>

Submit(t) ==
  /\ Moves(t, "idle", "post")
  /\ cookie' = [cookie EXCEPT ![t] = jar]
  /\ UNCHANGED <<browser, logins, owner, dead, login, page, acts>>

\* requireAuth: without a session a redirect to the login.
RequireAuth(t, from, to) ==
  /\ Moves(t, from, IF Valid(cookie[t]) THEN to ELSE "idle")
  /\ UNCHANGED <<browser, logins, owner, dead, login, cookie, page, acts>>

\* The handler's GET.  It reads the session again.
Render(t) ==
  /\ Moves(t, "render", "idle")
  /\ page' = [page EXCEPT ![t] = ReadSession(cookie[t])]
  /\ UNCHANGED <<browser, logins, owner, dead, login, cookie, acts>>

\* The handler's POST, up to where module Portal's begins.  The form stays
\* within reach of the browser's back button.
Act(t) ==
  LET sess == ReadSession(cookie[t])
  IN  /\ Moves(t, "act", "idle")
      /\ acts' = IF VerifyCSRF(page[t].csrf, sess)
                   THEN acts \cup {[user |-> sess.user, form |-> page[t].user]} ELSE acts
      /\ UNCHANGED <<browser, logins, owner, dead, login, cookie, page>>

-----------------------------------------------------------------------------
\* Eight hours are over for the oldest session.
Expire ==
  /\ dead < Len(owner)
  /\ dead' = dead + 1
  /\ UNCHANGED <<browser, logins, owner, pc, login, cookie, page, acts>>

StateGone ==
  /\ state # 0
  /\ state' = 0
  /\ UNCHANGED <<jar, logins, owner, dead, pc, login, cookie, page, acts>>

\* The server restarts; with another key no former session decodes.
Restart(newKey) ==
  /\ pc' = [t \in Tabs |-> IF pc[t] \in {"uaa", "callback"} THEN pc[t] ELSE "idle"]
  /\ dead' = IF newKey THEN Len(owner) ELSE dead
  /\ UNCHANGED <<browser, logins, owner, login, cookie, page, acts>>

Next ==
  \/ \E t \in Tabs :
       \/ Login(t) \/ (\E a \in Accounts : Approve(t, a)) \/ Deny(t) \/ Reload(t)
       \/ Callback(t) \/ Exchanged(t) \/ ExchangeFails(t) \/ Welcome(t) \/ Lost(t)
       \/ Logout(t) \/ Open(t) \/ Submit(t)
       \/ RequireAuth(t, "get", "render") \/ RequireAuth(t, "post", "act")
       \/ Render(t) \/ Act(t)
  \/ Expire \/ StateGone
  \/ \E newKey \in BOOLEAN : Restart(newKey)

Spec == Init /\ [][Next]_vars

-----------------------------------------------------------------------------
(* A post that is accepted acts as a named user, and as the one its form   *)
(* was drawn for, although the cookie is read when the post is made, twice *)
(* on each request, and other tabs sign in, sign out and switch users, and *)
(* sessions expire, in between.                                            *)
ActsAsShown == \A a \in acts : a.user = a.form /\ a.user # NoUser
=============================================================================
