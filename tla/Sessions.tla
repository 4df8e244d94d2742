------------------------------ MODULE Sessions ------------------------------
(***************************************************************************)
(* Signing in to the dashboard from one browser: the cookies set and       *)
(* cleared by routers/auth.py, the tokens in them (core/security.py), and  *)
(* the tabs that find out who is signed in (lib/session.ts of the web app, *)
(* behind the page guard of its proxy.ts).                                 *)
(*                                                                         *)
(* Tokens are not stored by the API and are not revoked.  A call leaves    *)
(* with the cookies of the moment, is handled later, and its Set-Cookie    *)
(* takes effect when its answer arrives.  The API and the pages are on     *)
(* one site.                                                               *)
(***************************************************************************)
EXTENDS Accounts, Naturals

CONSTANTS
  Tab,
  AccessTtl, RefreshTtl,   \* access_token_ttl_minutes, refresh_token_ttl_days
  MaxTime                  \* bound on the clock

ASSUME SessionsAssumption == {AccessTtl, RefreshTtl, MaxTime} \subseteq Nat \ {0}

VARIABLES
  clock,
  domain,     \* whether COOKIE_DOMAIN is set
  jar,        \* the cookies in the browser
  tab,        \* page, session hook and call of each tab
  out,        \* auxiliary: nobody has signed in since the last logout
  overtaken,  \* auxiliary: tabs whose refresh was on its way when a logout took effect
  excused     \* auxiliary: tabs whose search for a session had no live refresh token to
              \* send, met a failure, or lost a token that died on the way

sessionVars == <<clock, domain, jar, tab, out, overtaken, excused>>

Kind == {"access", "refresh"}
NoCookie == [user |-> NoUser, at |-> 0, until |-> 0]
EmptyJar == [k \in Kind |-> NoCookie]
NoAnswer == [status |-> "none", user |-> NoUser, at |-> 0]

LoginPage == [route |-> "login", user |-> NoUser, pc |-> "idle", sent |-> NoCookie,
              answer |-> NoAnswer, leaving |-> FALSE]

SessionInit ==
  /\ clock = 1 /\ domain \in BOOLEAN /\ jar = EmptyJar
  /\ tab = [t \in Tab |-> LoginPage] /\ out = TRUE /\ overtaken = {} /\ excused = {}

\* The hook looks for a session: resolveSession.
Resolving(t) == tab[t].pc \in {"me", "refresh", "meAgain"}

Calling(state, pc, cookie) == [state EXCEPT !.pc = pc, !.sent = cookie, !.answer = NoAnswer]
Answered(t, pc) == tab[t].pc = pc /\ tab[t].answer.status # "none"
Ok(t) == tab[t].answer.status = "ok"

-----------------------------------------------------------------------------
(* The visitor.                                                             *)

\* A page is loaded, which drops the call of the page before.  proxy.ts lets
\* the dashboard through if there is an access cookie; the page of an invitation is
\* not guarded.
Visit(t, page) ==
  /\ tab' = [tab EXCEPT ![t] =
               IF page = "dashboard" /\ jar["access"] = NoCookie THEN LoginPage
               ELSE Calling([LoginPage EXCEPT !.route = page], "me", jar["access"])]
  /\ excused' = excused \ {t} /\ overtaken' = overtaken \ {t}
  /\ UNCHANGED <<clock, domain, jar, out>>

\* /auth/login, or /auth/signup, with a user's credentials.
Login(t, u) ==
  /\ tab[t].route = "login" /\ tab[t].pc = "idle"
  /\ tab' = [tab EXCEPT ![t] = Calling(@, "login", [NoCookie EXCEPT !.user = u])]
  /\ UNCHANGED <<clock, domain, jar, out, overtaken, excused>>

Logout(t) ==
  /\ tab[t].route = "dashboard" /\ tab[t].user # NoUser /\ tab[t].pc = "idle"
  /\ tab' = [tab EXCEPT ![t] = Calling(@, "logout", NoCookie)]
  /\ UNCHANGED <<clock, domain, jar, out, overtaken, excused>>

-----------------------------------------------------------------------------
(* The API.                                                                 *)

\* Fault: both tokens live as long as an access token.
LifetimeOfAccess(kind) == AccessTtl

\* exp of create_access_token and create_refresh_token.
Lifetime(kind) == IF kind = "access" THEN AccessTtl ELSE RefreshTtl

\* decode_token.
Accepts(token, kind) == token # NoCookie /\ clock < token.at + Lifetime(kind)

\* Fault: only the access cookie is deleted.
ClearedAccess == IF domain THEN jar ELSE [jar EXCEPT !["access"] = NoCookie]

\* _clear_auth_cookies names no domain, and a browser keeps the cookies of a domain
\* apart from those of a host.
Cleared == IF domain THEN jar ELSE EmptyJar

Says(t, status, user) ==
  tab' = [tab EXCEPT ![t].answer = [status |-> status, user |-> user, at |-> clock]]

\* me_endpoint, refresh_endpoint, login_endpoint with the wrong or the right
\* password, logout_endpoint; any of them may fail.
Handle(t) ==
  LET pc == tab[t].pc
      token == tab[t].sent
      kind == IF pc = "refresh" THEN "refresh" ELSE "access" IN
  /\ pc # "idle" /\ tab[t].answer.status = "none"
  /\ \/ Resolving(t) /\ Accepts(token, kind) /\ Says(t, "ok", token.user)
     \/ Resolving(t) /\ ~Accepts(token, kind) /\ Says(t, "401", NoUser)
     \/ pc = "login" /\ (Says(t, "ok", token.user) \/ Says(t, "401", NoUser))
     \/ pc = "logout" /\ Says(t, "ok", NoUser)
     \/ Says(t, "error", NoUser)
  /\ UNCHANGED <<clock, domain, jar, out, overtaken, excused>>

-----------------------------------------------------------------------------
(* The answers.                                                             *)

\* _set_auth_cookies: max_age counts from now, the tokens' lifetime from when
\* they were made.
Stored(answer) ==
  [k \in Kind |-> [user |-> answer.user, at |-> answer.at,
                   until |-> clock + IF k = "access" THEN AccessTtl ELSE RefreshTtl]]

\* The hook has its result.  Without a user the dashboard's layout goes to the
\* login page; after a logout it goes there anyway.
Settle(t, u) ==
  tab' = [tab EXCEPT ![t] =
            IF @.leaving \/ (u = NoUser /\ @.route = "dashboard") THEN LoginPage
            ELSE [LoginPage EXCEPT !.route = tab[t].route, !.user = u]]

Failed(t) == IF tab[t].answer.status = "error" THEN {t} ELSE {}
Alive(cookie) == cookie # NoCookie /\ clock < cookie.at + RefreshTtl

ReceiveMe(t) ==
  /\ Answered(t, "me") \/ Answered(t, "meAgain")
  /\ IF tab[t].pc = "me" /\ tab[t].answer.status = "401"
     THEN /\ tab' = [tab EXCEPT ![t] = Calling(@, "refresh", jar["refresh"])]
          /\ excused' = excused \cup IF Alive(jar["refresh"]) THEN {} ELSE {t}
     ELSE /\ Settle(t, tab[t].answer.user)
          /\ excused' = excused \cup Failed(t)
  /\ UNCHANGED <<clock, domain, jar, out, overtaken>>

ReceiveRefresh(t) ==
  /\ Answered(t, "refresh") /\ overtaken' = overtaken \ {t}
  /\ IF Ok(t)
     THEN /\ jar' = Stored(tab[t].answer)
          /\ tab' = [tab EXCEPT ![t] = Calling(@, "meAgain", jar'["access"])]
          /\ out' = (out /\ t \notin overtaken)
          /\ UNCHANGED excused
     ELSE Settle(t, NoUser) /\ excused' = excused \cup Failed(t) /\ UNCHANGED <<jar, out>>
  /\ UNCHANGED <<clock, domain>>

ReceiveLogin(t) ==
  /\ Answered(t, "login")
  /\ IF Ok(t)
     THEN /\ jar' = Stored(tab[t].answer)
          /\ tab' = [tab EXCEPT ![t] =
                       Calling([LoginPage EXCEPT !.route = "dashboard"], "me", jar'["access"])]
          /\ out' = FALSE
          /\ excused' = excused \ {t}
     ELSE tab' = [tab EXCEPT ![t] = LoginPage] /\ UNCHANGED <<jar, out, excused>>
  /\ UNCHANGED <<clock, domain, overtaken>>

ReceiveLogout(t) ==
  /\ Answered(t, "logout")
  /\ IF Ok(t)
     THEN /\ jar' = Cleared /\ out' = TRUE
          /\ tab' = [tab EXCEPT ![t] = Calling([@ EXCEPT !.leaving = TRUE], "me", jar'["access"])]
          /\ overtaken' = overtaken \cup {s \in Tab : tab[s].pc = "refresh"}
          /\ excused' = excused \ {t}
     ELSE tab' = [tab EXCEPT ![t] = Calling(@, "idle", NoCookie)]
          /\ UNCHANGED <<jar, out, overtaken, excused>>
  /\ UNCHANGED <<clock, domain>>

-----------------------------------------------------------------------------
\* What time does to a search: a token dies on its way to the API or back.
DiesOnTheWay(t) ==
  LET s == tab[t] IN
  \/ s.pc = "refresh" /\ s.answer.status = "none" /\ clock + 1 = s.sent.at + RefreshTtl
  \/ s.pc = "refresh" /\ Ok(t) /\ clock + 1 = s.answer.at + AccessTtl
  \/ s.pc = "meAgain" /\ s.answer.status = "none" /\ clock + 1 = s.sent.at + AccessTtl

\* The browser drops the cookies whose max_age is over.
Tick ==
  /\ clock < MaxTime /\ clock' = clock + 1
  /\ jar' = [k \in Kind |-> IF jar[k].until > clock + 1 THEN jar[k] ELSE NoCookie]
  /\ excused' = excused \cup {t \in Tab : DiesOnTheWay(t)}
  /\ UNCHANGED <<domain, tab, out, overtaken>>

SessionNext ==
  \/ \E t \in Tab :
       \/ \E page \in {"dashboard", "invite"} : Visit(t, page)
       \/ \E u \in User : Login(t, u)
       \/ Logout(t) \/ Handle(t)
       \/ ReceiveMe(t) \/ ReceiveRefresh(t) \/ ReceiveLogin(t) \/ ReceiveLogout(t)
  \/ Tick

SessionSpec == SessionInit /\ [][SessionNext]_sessionVars

-----------------------------------------------------------------------------
(* Correctness.                                                             *)

Time == 0..(MaxTime + AccessTtl + RefreshTtl)
Cookie == [user : User \cup {NoUser}, at : Time, until : Time]
Answer == [status : {"none", "ok", "401", "error"}, user : User \cup {NoUser}, at : Time]
TabState == [route : {"login", "dashboard", "invite"}, user : User \cup {NoUser},
             pc : {"idle", "me", "refresh", "meAgain", "login", "logout"},
             sent : Cookie, leaving : BOOLEAN, answer : Answer]

SessionTypeOK ==
  /\ clock \in 1..MaxTime /\ domain \in BOOLEAN /\ jar \in [Kind -> Cookie] /\ out \in BOOLEAN
  /\ tab \in [Tab -> TabState]
  /\ overtaken \subseteq Tab /\ excused \subseteq Tab

\* A logout lasts until somebody signs in: whatever the other tabs are doing, they
\* do not refresh a session that has been ended, except by a refresh that was on
\* its way already.  This is for cookies of one host (see domain).
LogoutLasts == out /\ ~domain => jar = EmptyJar

\* A tab gives up on a session only if it had no live refresh token to send, a call
\* failed, or a token died on the way: not because its access token has expired, nor
\* because another tab refreshes too, signs out, or gets its answers late.
GivesUp(t) ==
  (ReceiveMe(t) \/ ReceiveRefresh(t)) /\ tab'[t].pc = "idle" /\ tab[t].answer.user = NoUser
RefreshKeepsSession == [][\A t \in Tab : GivesUp(t) => t \in excused']_sessionVars
=============================================================================
