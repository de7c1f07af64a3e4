------------------------------ MODULE Profiles ------------------------------
(***************************************************************************)
(* One person who has logged in gives herself her profiles: the form of    *)
(* the web client, the API, and what the browser knows of her roles.       *)
(*                                                                         *)
(* The roles a page shows are those of the database (GET auth/me); those   *)
(* the API admits are in the access token, which is a cookie of the whole  *)
(* browser.  A create commits first, then a token with the roles of that   *)
(* moment is signed, and the answer that carries it may be lost or         *)
(* overtaken by another.                                                   *)
(***************************************************************************)
CONSTANTS
  Roles,   \* FAMILY_EMPLOYER, WORKER; each is given by a profile
  Tabs,    \* tabs of the browser
  Nobody    \* no role, no cookie, nobody

VARIABLES
  granted,      \* roles with a profile, in the database
  cookie,       \* the roles of the access token, or Nobody
  step,         \* of each tab's request: "idle", "sent", "created", "signed"
  request,      \* what it is for, who asked, and the token signed for it
  me,           \* of each tab, the roles it shows, or Nobody
  loading,      \* its GET auth/me: [at: "no", "asked" or "served", roles]
  unanswered,   \* roles given by a create whose answer has not come
  crossed       \* two answers with a token were on their way at once

profileVars == <<granted, cookie, step, request, me, loading, unanswered, crossed>>

NotLoading == [at |-> "no", roles |-> Nobody]
Asked == [at |-> "asked", roles |-> Nobody]
NoRequest == [role |-> Nobody, admitted |-> {}, token |-> {}]

ProfilesInit ==
  /\ granted = {}
  /\ cookie = Nobody
  /\ step = [t \in Tabs |-> "idle"]
  /\ request = [t \in Tabs |-> NoRequest]
  /\ me = [t \in Tabs |-> Nobody]
  /\ loading = [t \in Tabs |-> NotLoading]
  /\ unanswered = {} /\ crossed = FALSE

Quiet(t) == step[t] = "idle" /\ loading[t] = NotLoading

Ask(t, s, r) ==
  /\ step' = [step EXCEPT ![t] = s]
  /\ request' = [request EXCEPT ![t] = r]

----------------------------------------------------------------------------
(* What the tab asks *)

\* enviar, with both boxes ticked
Submit(t, role) ==
  /\ Quiet(t)
  /\ cookie # Nobody
  /\ Ask(t, "sent", [NoRequest EXCEPT !.role = role, !.admitted = cookie])
  /\ UNCHANGED <<granted, cookie, me, loading, unanswered, crossed>>

\* verificarCodigo: the token of a new session
LogIn(t) ==
  /\ Quiet(t)
  /\ Ask(t, "signed", [NoRequest EXCEPT !.token = granted])
  /\ UNCHANGED <<granted, cookie, me, loading, unanswered, crossed>>

----------------------------------------------------------------------------
(* The API *)

\* The transaction of create gives the profile and its role, once.
CreateProfile(t) ==
  LET role == request[t].role IN
  /\ step[t] = "sent"
  /\ role \notin granted
  /\ granted' = granted \union {role}
  /\ unanswered' = unanswered \union {role}
  /\ Ask(t, "created", request[t])
  /\ UNCHANGED <<cookie, me, loading, crossed>>

\* issueAccessTokenFor reads the roles again; the token the request came with
\* has those it was admitted with.
AsAdmitted(t) == request[t].admitted
TokenRoles(t) == granted

SignToken(t) ==
  /\ step[t] = "created"
  /\ Ask(t, "signed", [request[t] EXCEPT !.token = TokenRoles(t)])
  /\ UNCHANGED <<granted, cookie, me, loading, unanswered, crossed>>

\* GET auth/me, behind the guard
ServeMe(t) ==
  /\ loading[t] = Asked
  /\ loading' = [loading EXCEPT ![t] =
       [at |-> "served", roles |-> IF cookie = Nobody THEN Nobody ELSE granted]]
  /\ UNCHANGED <<granted, cookie, step, request, me, unanswered, crossed>>

----------------------------------------------------------------------------
(* What comes back *)

\* The cookie is replaced, and the tab loads who it is (recargar).
Answer(t) ==
  /\ step[t] = "signed"
  /\ cookie' = request[t].token
  /\ unanswered' = unanswered \ request[t].token
  /\ crossed' = (crossed \/ \E u \in Tabs \ {t} : step[u] = "signed")
  /\ Ask(t, "idle", NoRequest)
  /\ loading' = [loading EXCEPT ![t] = Asked]
  /\ UNCHANGED <<granted, me>>

\* A refusal, a failure at any step, or an answer lost: the form shows an error,
\* loads nothing, and the cookie stays.
Refused(t) ==
  /\ step[t] # "idle"
  /\ Ask(t, "idle", NoRequest)
  /\ UNCHANGED <<granted, cookie, me, loading, unanswered, crossed>>

\* Any failure of auth/me shows nobody.
ShowMe(t) ==
  /\ loading[t] # NotLoading
  /\ \/ loading[t] # Asked /\ me' = [me EXCEPT ![t] = loading[t].roles]
     \/ me' = [me EXCEPT ![t] = Nobody]
  /\ loading' = [loading EXCEPT ![t] = NotLoading]
  /\ UNCHANGED <<granted, cookie, step, request, unanswered, crossed>>

\* A page is opened, or loaded again.
OpenPage(t) ==
  /\ Quiet(t)
  /\ me' = [me EXCEPT ![t] = Nobody]
  /\ loading' = [loading EXCEPT ![t] = Asked]
  /\ UNCHANGED <<granted, cookie, step, request, unanswered, crossed>>

\* The token lasts as long as its cookie, which the client never refreshes and a
\* log-out clears.
ExpireToken ==
  /\ cookie # Nobody
  /\ cookie' = Nobody
  /\ UNCHANGED <<granted, step, request, me, loading, unanswered, crossed>>

\* All but the create
OtherStep ==
  \/ \E t \in Tabs :
       \/ \E role \in Roles : Submit(t, role)
       \/ LogIn(t) \/ SignToken(t) \/ ServeMe(t)
       \/ Answer(t) \/ Refused(t) \/ ShowMe(t) \/ OpenPage(t)
  \/ ExpireToken

ProfilesNext == OtherStep \/ \E t \in Tabs : CreateProfile(t)

ProfilesSpec == ProfilesInit /\ [][ProfilesNext]_profileVars

----------------------------------------------------------------------------
(* Properties *)

\* What a page shows works: the API admits every role it shows, unless the
\* token has expired, the create that gave the role was never answered, or two
\* answers crossed and the older token is the one that stayed.
ShownRolesWork ==
  \A t \in Tabs :
    me[t] # Nobody /\ cookie # Nobody /\ ~crossed => me[t] \subseteq cookie \union unanswered
=============================================================================
