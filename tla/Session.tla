------------------------------ MODULE Session ------------------------------
(***************************************************************************)
(* The signed-in session of one browser tab: the auth store (user and      *)
(* access token), the requests of lib/api.ts with their shared refresh of  *)
(* an expired token, and the refresh cookie that auth.controller.ts sets   *)
(* and clears.  Between the sending of a request and its answer any other  *)
(* request may be sent or answered.                                        *)
(*                                                                         *)
(* A token is the user it was minted for: whether it has expired when the  *)
(* server looks at it is the server's choice, so a request with a token    *)
(* may be accepted or refused at any time.  The cookie travels as it was   *)
(* when the request was sent and changes when the answer arrives.          *)
(***************************************************************************)
EXTENDS FiniteSets

CONSTANTS
    Users,    \* everybody who may sign in on this tab
    Guests,   \* the users without an e-mail address
    NoOne,    \* null, as a user, a token or a cookie
    Calls     \* the requests that can be in flight together

VARIABLES
    user,     \* the auth store's user
    token,    \* the auth store's accessToken
    cookie,   \* the refresh_token cookie of the browser
    refresh,  \* refreshInFlight: the cookie it was sent with, or Idle
    calls,    \* the requests in flight
    out       \* history: a logout has ended the session and no sign-in began

session == <<user, token, cookie, refresh, calls, out>>

Idle == "idle"

\* Nobody is not a user, and a cookie can be told from no refresh at all.
ASSUME SessionAssumption ==
    Guests \subseteq Users /\ NoOne \notin Users /\ Idle \notin Users \cup {NoOne}

None == [kind |-> "none", who |-> NoOne, stage |-> "none"]
Kinds == {"get", "login", "upgrade", "logout", "me"}
InFlight(kinds) == {c \in Calls : calls[c].kind \in kinds}
Waiting == {c \in Calls : calls[c].stage = "waiting"}

\* hydrate: the page load takes the stored session and asks who it belongs to.
SessionInit ==
    /\ user \in Users \cup {NoOne}
    /\ token = user
    /\ cookie \in {user, NoOne}
    /\ refresh = Idle
    /\ \E c \in Calls :
          calls = [d \in Calls |-> IF d = c /\ token # NoOne
                                   THEN [kind |-> "me", who |-> token, stage |-> "first"]
                                   ELSE None]
    /\ out = FALSE

-----------------------------------------------------------------------------
\* What the pages allow: a form to sign in for nobody, for a guest or before
\* the page knows the user; the rest for the user who is shown.
Allowed(kind) ==
    CASE kind = "login" -> user \in Guests \cup {NoOne} \/ InFlight({"me"}) # {}
      [] kind = "upgrade" -> user \in Guests /\ InFlight({"me", "upgrade"}) = {}
      [] kind = "logout" -> user # NoOne /\ InFlight({"me"}) = {}
      [] kind = "get" -> user # NoOne

\* request: the token is read from the store, except by a sign-in, which
\* names the account instead.
Send(c, kind, who) ==
    /\ calls[c] = None
    /\ Allowed(kind)
    /\ kind = "login" => InFlight({"login"}) = {}
    /\ IF kind = "login" THEN who # NoOne ELSE who = token
    /\ calls' = [calls EXCEPT ![c] = [kind |-> kind, who |-> who, stage |-> "first"]]
    /\ out' = (out /\ kind # "login")
    /\ UNCHANGED <<user, token, cookie, refresh>>

SetSession(u) == user' = u /\ token' = u

\* Deviation: the server forgets to clear the cookie.
LogoutKeepsCookie(c) ==
    /\ SetSession(NoOne)
    /\ out' = (refresh = Idle /\ InFlight({"login", "upgrade", "me"}) = {})
    /\ UNCHANGED cookie

\* logout, when its answer has come
Logout(c) ==
    /\ SetSession(NoOne)
    /\ out' = (refresh = Idle /\ InFlight({"login", "upgrade", "me"}) = {})
    /\ cookie' = NoOne

\* What a request does with a good answer.
Succeed(c) ==
    CASE calls[c].kind \in {"login", "upgrade"} ->
            SetSession(calls[c].who) /\ cookie' = calls[c].who /\ UNCHANGED out
      [] calls[c].kind = "logout" -> Logout(c)
      [] calls[c].kind = "me" -> user' = calls[c].who /\ UNCHANGED <<token, cookie, out>>
      [] calls[c].kind = "get" -> UNCHANGED <<user, token, cookie, out>>

\* What requests do that end with an error: a logout signs out all the same,
\* and a page load that cannot confirm the stored session drops it.
Fail(ended) ==
    IF \E c \in ended : calls[c].kind \in {"logout", "me"}
    THEN SetSession(NoOne)
    ELSE UNCHANGED <<user, token>>

Answered(c) == calls[c].stage \in {"first", "retry"}

Accept(c) ==
    /\ Answered(c)
    /\ calls[c].kind \in {"get", "upgrade", "me"} => calls[c].who # NoOne
    /\ Succeed(c)
    /\ calls' = [calls EXCEPT ![c] = None]
    /\ UNCHANGED refresh

\* A 401 joins the refresh in flight or starts one, once for a request.
Refuse(c) ==
    /\ calls[c].stage = "first"
    /\ calls[c].kind \in {"get", "upgrade", "me"}
    /\ calls' = [calls EXCEPT ![c].stage = "waiting"]
    /\ refresh' = IF refresh = Idle THEN cookie ELSE refresh
    /\ UNCHANGED <<user, token, cookie, out>>

\* Any other error: wrong credentials, a lost connection, a second 401.
Lose(c) ==
    /\ Answered(c)
    /\ Fail({c})
    /\ calls' = [calls EXCEPT ![c] = None]
    /\ UNCHANGED <<cookie, refresh, out>>

\* doRefresh with a good answer: the waiting requests are sent again.
Refreshed ==
    /\ refresh \in Users
    /\ SetSession(refresh)
    /\ cookie' = refresh
    /\ calls' = [c \in Calls |-> IF c \in Waiting
                                 THEN [calls[c] EXCEPT !.who = refresh, !.stage = "retry"]
                                 ELSE calls[c]]
    /\ refresh' = Idle
    /\ UNCHANGED out

EndWaiting == calls' = [c \in Calls |-> IF c \in Waiting THEN None ELSE calls[c]]

\* doRefresh refused by the server: the session is over.
RefreshRefused ==
    /\ refresh # Idle
    /\ SetSession(NoOne)
    /\ EndWaiting
    /\ refresh' = Idle
    /\ UNCHANGED <<cookie, out>>

\* doRefresh without an answer: the session is kept; but a socket that waited
\* for the refresh and finds no token takes the session for expired.
RefreshLost(socketWaits) ==
    /\ refresh # Idle
    /\ IF socketWaits /\ token = NoOne THEN SetSession(NoOne) ELSE Fail(Waiting)
    /\ EndWaiting
    /\ refresh' = Idle
    /\ UNCHANGED <<cookie, out>>

SessionNext ==
    \/ \E c \in Calls, kind \in Kinds \ {"me"}, who \in Users \cup {NoOne} : Send(c, kind, who)
    \/ \E c \in Calls : Accept(c)
    \/ \E c \in Calls : Refuse(c)
    \/ \E c \in Calls : Lose(c)
    \/ Refreshed
    \/ RefreshRefused
    \/ RefreshLost(FALSE)

SessionSpec == SessionInit /\ [][SessionNext]_session

-----------------------------------------------------------------------------
\* Once a logout has been answered, with no refresh and no sign-in under way,
\* nobody is signed in until somebody signs in again, whatever requests of the
\* old session are still to be refused and refreshed (auth-store.ts, logout;
\* api.ts, request; auth.controller.ts, logout).
SignedOutStaysOut == out => user = NoOne /\ token = NoOne

\* A request that was refused waits for a refresh that is under way, so that no
\* request is lost when several share one (api.ts, refreshAccessToken).
RefreshServesAll == Waiting # {} => refresh # Idle

SessionRight == SignedOutStaysOut /\ RefreshServesAll
=============================================================================
