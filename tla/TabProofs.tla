------------------------------ MODULE TabProofs ------------------------------
(***************************************************************************)
(* The invariants of one browser tab, for any users, requests, rooms and   *)
(* filters: the session that a logout ends stays ended, the list of rooms  *)
(* is fetched again or says why not, a panel that was left holds no voice, *)
(* and a session has one connection, which is in the room that is shown.   *)
(***************************************************************************)
EXTENDS Tab, SequenceTheorems, TLAPS

-----------------------------------------------------------------------------
CallSet == {None} \cup
    [kind : Kinds, who : Users \cup {NoOne}, stage : {"first", "waiting", "retry"}]

SessionTyped ==
    /\ user \in Users \cup {NoOne} /\ token \in Users \cup {NoOne}
    /\ cookie \in Users \cup {NoOne}
    /\ refresh \in Users \cup {NoOne, Idle}
    /\ calls \in [Calls -> CallSet]
    /\ out \in BOOLEAN

\* What keeps a session ended: neither the cookie nor a refresh under way is
\* anybody's, and no request that could bring a user back is in flight.
EndedForGood ==
    out => /\ user = NoOne /\ token = NoOne /\ cookie = NoOne
           /\ refresh \in {NoOne, Idle}
           /\ \A c \in Calls : calls[c].kind \notin {"login", "upgrade", "me"}

RefreshShared == \A c \in Calls : calls[c].stage = "waiting" => refresh # Idle

SessionInv == SessionTyped /\ EndedForGood /\ RefreshShared


\* The requests, as a request or the refresh changes them.
LEMMA SetCall ==
    ASSUME SessionTyped, NEW c \in Calls, NEW k \in CallSet,
           calls' = [calls EXCEPT ![c] = k]
    PROVE  /\ calls' \in [Calls -> CallSet]
           /\ calls'[c] = k
           /\ \A d \in Calls : d # c => calls'[d] = calls[d]
BY Zenon DEF SessionTyped

LEMMA NoneIsCall == None \in CallSet
BY DEF None, CallSet

LEMMA SendStep ==
    ASSUME SessionInv, NEW c \in Calls, NEW kind \in Kinds \ {"me"},
           NEW who \in Users \cup {NoOne}, Send(c, kind, who)
    PROVE  SessionInv'
<1> DEFINE k == [kind |-> kind, who |-> who, stage |-> "first"]
<1>1. k \in CallSet
    BY DEF CallSet, Kinds
<1>2. calls' = [calls EXCEPT ![c] = k] /\ UNCHANGED <<user, token, cookie, refresh>>
      /\ out' = (out /\ kind # "login") /\ Allowed(kind)
    BY DEF Send
<1>3. k.kind = kind /\ k.stage = "first"
    OBVIOUS
<1> HIDE DEF k
<1>4. /\ calls' \in [Calls -> CallSet]
      /\ calls'[c] = k
      /\ \A d \in Calls : d # c => calls'[d] = calls[d]
    BY <1>1, <1>2, SetCall DEF SessionInv
<1>5. SessionTyped'
    BY <1>2, <1>4 DEF SessionInv, SessionTyped
<1>6. EndedForGood'
  <2> SUFFICES ASSUME out'
               PROVE  EndedForGood'
      BY DEF EndedForGood
  <2>1. out /\ kind # "login" /\ user = NoOne
      BY <1>2 DEF SessionInv, EndedForGood
  <2>2. kind # "upgrade"
      BY <1>2, <2>1, SessionAssumption DEF Allowed
  <2> QED
      BY <1>2, <1>3, <1>4, <2>1, <2>2 DEF SessionInv, EndedForGood
<1>7. RefreshShared'
    BY <1>2, <1>3, <1>4 DEF SessionInv, RefreshShared
<1> QED
    BY <1>5, <1>6, <1>7 DEF SessionInv

\* What an accepted request may do to the session.
LEMMA AcceptStep ==
    ASSUME SessionInv, NEW c \in Calls, Accept(c)
    PROVE  SessionInv'
<1>1. /\ calls' = [calls EXCEPT ![c] = None] /\ UNCHANGED refresh
      /\ Answered(c) /\ Succeed(c)
    BY DEF Accept
<1>2. /\ calls' \in [Calls -> CallSet]
      /\ calls'[c] = None
      /\ \A d \in Calls : d # c => calls'[d] = calls[d]
    BY <1>1, NoneIsCall, SetCall DEF SessionInv
<1>3. calls[c] \in CallSet
    BY DEF SessionInv, SessionTyped
<1>5. None.kind = "none" /\ None.stage = "none"
    BY DEF None
<1>4. calls[c].kind \in Kinds /\ calls[c].who \in Users \cup {NoOne}
    BY <1>1, <1>3, <1>5 DEF CallSet, Answered
<1>6. RefreshShared'
    BY <1>1, <1>2, <1>5 DEF SessionInv, RefreshShared
<1>7. CASE calls[c].kind \in {"login", "upgrade"}
  <2>1. user' = calls[c].who /\ token' = calls[c].who /\ cookie' = calls[c].who /\ UNCHANGED out
      BY <1>1, <1>7, Zenon DEF Succeed, SetSession
  <2>2. ~out
      BY <1>7 DEF SessionInv, EndedForGood
  <2>3. SessionTyped' /\ EndedForGood'
      BY <1>1, <1>2, <1>4, <2>1, <2>2 DEF SessionInv, SessionTyped, EndedForGood
  <2> QED
      BY <1>6, <2>3 DEF SessionInv
<1>8. CASE calls[c].kind = "logout"
  <2>1. user' = NoOne /\ token' = NoOne /\ cookie' = NoOne
        /\ out' = (refresh = Idle /\ InFlight({"login", "upgrade", "me"}) = {})
      BY <1>1, <1>8 DEF Succeed, Logout, SetSession
  <2>2. SessionTyped'
      BY <1>1, <1>2, <2>1 DEF SessionInv, SessionTyped
  <2>3. EndedForGood'
      BY <1>1, <1>2, <1>5, <2>1 DEF EndedForGood, InFlight
  <2> QED
      BY <1>6, <2>2, <2>3 DEF SessionInv
<1>9. CASE calls[c].kind = "me"
  <2>1. user' = calls[c].who /\ UNCHANGED <<token, cookie, out>>
      BY <1>1, <1>9 DEF Succeed
  <2>2. ~out
      BY <1>9 DEF SessionInv, EndedForGood
  <2>3. SessionTyped' /\ EndedForGood'
      BY <1>1, <1>2, <1>4, <2>1, <2>2 DEF SessionInv, SessionTyped, EndedForGood
  <2> QED
      BY <1>6, <2>3 DEF SessionInv
<1>10. CASE calls[c].kind = "get"
  <2>1. UNCHANGED <<user, token, cookie, out>>
      BY <1>1, <1>10 DEF Succeed
  <2>2. SessionTyped' /\ EndedForGood'
      BY <1>1, <1>2, <1>5, <2>1 DEF SessionInv, SessionTyped, EndedForGood
  <2> QED
      BY <1>6, <2>2 DEF SessionInv
<1> QED
    BY <1>4, <1>7, <1>8, <1>9, <1>10 DEF Kinds

LEMMA RefuseStep ==
    ASSUME SessionInv, NEW c \in Calls, Refuse(c)
    PROVE  SessionInv'
<1>1. /\ calls[c].stage = "first" /\ calls[c].kind \in {"get", "upgrade", "me"}
      /\ calls' = [calls EXCEPT ![c].stage = "waiting"]
      /\ refresh' = IF refresh = Idle THEN cookie ELSE refresh
      /\ UNCHANGED <<user, token, cookie, out>>
    BY DEF Refuse
<1>2. calls[c] \in [kind : Kinds, who : Users \cup {NoOne}, stage : {"first", "waiting", "retry"}]
    BY <1>1 DEF SessionInv, SessionTyped, CallSet, None
<1>3. PICK k : k = [calls[c] EXCEPT !.stage = "waiting"]
    OBVIOUS
<1>4. k \in CallSet /\ k.kind = calls[c].kind /\ k.stage = "waiting"
    BY <1>2, <1>3 DEF CallSet
<1>5. calls' = [calls EXCEPT ![c] = k]
    BY <1>1, <1>3, Zenon DEF SessionInv, SessionTyped
<1>6. /\ calls' \in [Calls -> CallSet]
      /\ calls'[c] = k
      /\ \A d \in Calls : d # c => calls'[d] = calls[d]
    BY <1>4, <1>5, SetCall DEF SessionInv
<1>7. refresh' # Idle /\ refresh' \in {cookie, refresh}
    BY <1>1, SessionAssumption DEF SessionInv, SessionTyped
<1>8. SessionTyped' /\ RefreshShared'
    BY <1>1, <1>6, <1>7 DEF SessionInv, SessionTyped, RefreshShared
<1>9. EndedForGood'
    BY <1>1, <1>4, <1>6, <1>7 DEF SessionInv, EndedForGood
<1> QED
    BY <1>8, <1>9 DEF SessionInv

LEMMA LoseStep ==
    ASSUME SessionInv, NEW c \in Calls, Lose(c)
    PROVE  SessionInv'
<1>1. calls' = [calls EXCEPT ![c] = None] /\ UNCHANGED <<cookie, refresh, out>>
      /\ Fail({c})
    BY DEF Lose
<1>2. /\ calls' \in [Calls -> CallSet]
      /\ calls'[c] = None
      /\ \A d \in Calls : d # c => calls'[d] = calls[d]
    BY <1>1, NoneIsCall, SetCall DEF SessionInv
<1>3. (user' = NoOne /\ token' = NoOne) \/ UNCHANGED <<user, token>>
    BY <1>1 DEF Fail, SetSession
<1>4. None.kind = "none" /\ None.stage = "none"
    BY DEF None
<1>5. SessionTyped' /\ RefreshShared'
    BY <1>1, <1>2, <1>3, <1>4 DEF SessionInv, SessionTyped, RefreshShared
<1>6. EndedForGood'
    BY <1>1, <1>2, <1>3, <1>4 DEF SessionInv, EndedForGood
<1> QED
    BY <1>5, <1>6 DEF SessionInv

LEMMA RefreshedStep ==
    ASSUME SessionInv, Refreshed
    PROVE  SessionInv'
<1>1. /\ refresh \in Users /\ user' = refresh /\ token' = refresh /\ cookie' = refresh
      /\ refresh' = Idle /\ UNCHANGED out
    BY DEF Refreshed, SetSession
<1>2. ~out
    BY <1>1, SessionAssumption DEF SessionInv, EndedForGood
<1>3. ASSUME NEW c \in Calls
      PROVE  calls'[c] \in CallSet /\ calls'[c].stage # "waiting"
  <2>1. calls'[c] = IF c \in Waiting THEN [calls[c] EXCEPT !.who = refresh, !.stage = "retry"]
                    ELSE calls[c]
      BY DEF Refreshed
  <2>2. CASE c \in Waiting
    <3>1. calls[c] \in [kind : Kinds, who : Users \cup {NoOne}, stage : {"first", "waiting", "retry"}]
        BY <2>2 DEF Waiting, SessionInv, SessionTyped, CallSet, None
    <3>2. calls'[c] = [calls[c] EXCEPT !.who = refresh, !.stage = "retry"]
        BY <2>1, <2>2
    <3> QED
        BY <3>1, <3>2, <1>1 DEF CallSet
  <2>3. CASE c \notin Waiting
      BY <2>1, <2>3 DEF Waiting, SessionInv, SessionTyped
  <2> QED
      BY <2>2, <2>3
<1>4. calls' \in [Calls -> CallSet]
  <2>1. calls' = [c \in Calls |-> calls'[c]]
      BY Zenon DEF Refreshed
  <2> QED
      BY <1>3, <2>1
<1>5. SessionTyped'
    BY <1>1, <1>4, <1>2 DEF SessionInv, SessionTyped
<1>6. EndedForGood' /\ RefreshShared'
    BY <1>1, <1>2, <1>3 DEF EndedForGood, RefreshShared
<1> QED
    BY <1>5, <1>6 DEF SessionInv

\* A refresh that failed: the requests that waited for it are over.
LEMMA RefreshOverStep ==
    ASSUME SessionInv, EndWaiting, refresh' = Idle, UNCHANGED <<cookie, out>>,
           (user' = NoOne /\ token' = NoOne) \/ UNCHANGED <<user, token>>
    PROVE  SessionInv'
<1>1. ASSUME NEW c \in Calls
      PROVE  calls'[c] \in {calls[c], None} /\ calls'[c].stage # "waiting"
    BY DEF EndWaiting, Waiting, None
<1>2. calls' \in [Calls -> CallSet]
  <2>1. calls' = [c \in Calls |-> calls'[c]]
      BY Zenon DEF EndWaiting
  <2>2. \A c \in Calls : calls'[c] \in CallSet
      BY <1>1, NoneIsCall DEF SessionInv, SessionTyped
  <2> QED
      BY <2>1, <2>2
<1>3. None.kind = "none"
    BY DEF None
<1>4. SessionTyped'
    BY <1>2 DEF SessionInv, SessionTyped
<1>5. EndedForGood' /\ RefreshShared'
    BY <1>1, <1>3 DEF SessionInv, EndedForGood, RefreshShared
<1> QED
    BY <1>4, <1>5 DEF SessionInv

LEMMA RefreshRefusedStep == SessionInv /\ RefreshRefused => SessionInv'
BY RefreshOverStep DEF RefreshRefused, SetSession

LEMMA RefreshLostStep ==
    ASSUME SessionInv, NEW waits \in BOOLEAN, RefreshLost(waits)
    PROVE  SessionInv'
BY RefreshOverStep DEF RefreshLost, SetSession, Fail

\* A socket whose handshake was refused joins the refresh too.
LEMMA AwaitRefreshStep ==
    ASSUME SessionInv, NEW s, AwaitRefresh(s)
    PROVE  SessionInv'
<1>1. refresh' # Idle /\ refresh' \in {cookie, refresh} /\ UNCHANGED <<user, token, cookie, calls, out>>
    BY SessionAssumption DEF AwaitRefresh, SessionInv, SessionTyped
<1> QED
    BY <1>1, Zenon DEF SessionInv, SessionTyped, EndedForGood, RefreshShared

LEMMA SessionIdle == SessionInv /\ UNCHANGED session => SessionInv'
BY DEF session, SessionInv, SessionTyped, EndedForGood, RefreshShared

LEMMA SessionStart == SessionInit => SessionInv
<1> SUFFICES ASSUME SessionInit
             PROVE  SessionInv
    OBVIOUS
<1>1. PICK c \in Calls :
          calls = [d \in Calls |-> IF d = c /\ token # NoOne
                                   THEN [kind |-> "me", who |-> token, stage |-> "first"]
                                   ELSE None]
    BY DEF SessionInit
<1>2. SessionTyped
    BY <1>1 DEF SessionInit, SessionTyped, CallSet, Kinds
<1>3. RefreshShared
    BY <1>1 DEF RefreshShared, None
<1> QED
    BY <1>2, <1>3 DEF SessionInit, SessionInv, EndedForGood

LEMMA SessionStep == SessionInv /\ [SessionNext]_session => SessionInv'
<1> SUFFICES ASSUME SessionInv, [SessionNext]_session
             PROVE  SessionInv'
    OBVIOUS
<1>1. CASE \E c \in Calls, kind \in Kinds \ {"me"}, who \in Users \cup {NoOne} : Send(c, kind, who)
    BY <1>1, SendStep
<1>2. CASE \E c \in Calls : Accept(c)
    BY <1>2, AcceptStep
<1>3. CASE \E c \in Calls : Refuse(c)
    BY <1>3, RefuseStep
<1>4. CASE \E c \in Calls : Lose(c)
    BY <1>4, LoseStep
<1>5. CASE Refreshed
    BY <1>5, RefreshedStep
<1>6. CASE RefreshRefused
    BY <1>6, RefreshRefusedStep
<1>7. CASE RefreshLost(FALSE)
    BY <1>7, RefreshLostStep
<1>8. CASE UNCHANGED session
    BY <1>8, SessionIdle
<1> QED
    BY <1>1, <1>2, <1>3, <1>4, <1>5, <1>6, <1>7, <1>8 DEF SessionNext

LEMMA SessionInvRight == SessionInv => SessionRight
BY DEF SessionInv, EndedForGood, RefreshShared, SessionRight, SignedOutStaysOut, RefreshServesAll,
       Waiting

\* The room leaves the session alone, or takes one of its steps.
LEMMA RoomKeepsSession == SessionInv /\ [Next]_vars => SessionInv'
<1> SUFFICES ASSUME SessionInv, [Next]_vars
             PROVE  SessionInv'
    OBVIOUS
<1>1. ASSUME NEW r \in Rooms, Open(r)
      PROVE  UNCHANGED session
    BY <1>1 DEF Open
<1>2. ASSUME Join \/ NotResolved \/ Leave \/ RouteAway
      PROVE  UNCHANGED session
    BY <1>2, Zenon DEF Join, NotResolved, Leave, RouteAway
<1>3. ASSUME NEW s \in Sockets, Connect(s) \/ LoseConnection(s) \/ Receive(s)
      PROVE  UNCHANGED session
    BY <1>3, Zenon DEF Connect, LoseConnection, Receive
<1>4. ASSUME NEW s \in Sockets, Refused(s)
      PROVE  SessionInv'
    BY <1>4, AwaitRefreshStep DEF Refused
<1>5. ASSUME NEW a \in asks, Enter(a) \/ Answer(a) \/ Deny(a) \/ LetGo(a)
      PROVE  UNCHANGED session
    BY <1>5, Zenon DEF Enter, Answer, Deny, LetGo
<1>6. ASSUME NEW s \in Sockets, NEW r \in joined[s], Push(s, r) \/ Kick(s, r)
      PROVE  UNCHANGED session
    BY <1>6, Zenon DEF Push, Kick
<1>7. CASE Quiet
  <2>1. \/ \E c \in PageCalls, kind \in {"login", "logout"}, who \in PageUsers \cup {NoOne} :
              Send(c, kind, who)
        \/ \E c \in Calls : Refuse(c)
        \/ \E c \in Calls : Lose(c)
      BY <1>7 DEF Quiet
  <2>2. ASSUME NEW c \in PageCalls, NEW kind \in {"login", "logout"},
               NEW who \in PageUsers \cup {NoOne}, Send(c, kind, who)
        PROVE  SessionInv'
    <3>1. c \in Calls /\ kind \in Kinds \ {"me"} /\ who \in Users \cup {NoOne}
        BY PageAssumption DEF Kinds
    <3> QED
        BY <2>2, <3>1, SendStep
  <2> QED
      BY <2>1, <2>2, RefuseStep, LoseStep
<1>8. CASE SetsUser
    BY <1>8, AcceptStep, LoseStep DEF SetsUser
<1>9. CASE RefreshSucceeds
    BY <1>9, RefreshedStep DEF RefreshSucceeds
<1>10. CASE RefreshFails
  <2>1. RefreshRefused \/ \E waits \in BOOLEAN : RefreshLost(waits)
      BY <1>10, Zenon DEF RefreshFails
  <2> QED
      BY <2>1, RefreshRefusedStep, RefreshLostStep
<1>11. CASE UNCHANGED vars
    BY <1>11, SessionIdle DEF vars
<1> QED
    BY <1>1, <1>2, <1>3, <1>4, <1>5, <1>6, <1>7, <1>8, <1>9, <1>10, <1>11, SessionIdle DEF Next

\* A logout that was answered ends the session and every refused request waits
\* for a refresh under way, for any users and any requests in flight (api.ts,
\* auth-store.ts, auth.controller.ts).
THEOREM SessionRightCorrect == SessionSpec => []SessionRight
BY SessionStart, SessionStep, SessionInvRight, PTL DEF SessionSpec

\* ... and so while the tab is in a room, whose socket asks for a refresh when
\* its handshake is refused (room-store.ts, handleConnectError).
THEOREM RoomKeepsSessionRight == Spec => []SessionRight
<1>1. Init => SessionInv
    BY SessionStart DEF Init
<1> QED
    BY <1>1, RoomKeepsSession, SessionInvRight, PTL DEF Spec

-----------------------------------------------------------------------------
\* More than ListIsCurrent says: the page polls, cannot be seen, or shows an
\* error, whatever is in flight and whatever list is shown.
Asked == polling \/ hidden \/ error \/ healed

BrowserInv == Asked /\ polling \in BOOLEAN /\ hidden \in BOOLEAN /\ error \in BOOLEAN

LEMMA BrowserStart == BrowserInit => BrowserInv
BY DEF BrowserInit, BrowserInv, Asked

LEMMA BrowserStep == BrowserInv /\ [BrowserNext]_browser => BrowserInv'
<1> SUFFICES ASSUME BrowserInv, [BrowserNext]_browser
             PROVE  BrowserInv'
    OBVIOUS
<1> USE DEF BrowserInv, Asked
<1>1. ASSUME NEW f \in Filters, Pick(f)
      PROVE  BrowserInv'
    BY <1>1, Zenon DEF Pick
<1>2. CASE Poll
    BY <1>2, Zenon DEF Poll
<1>3. ASSUME NEW f \in Filters, RoomsCome(f)
      PROVE  BrowserInv'
    BY <1>3, Zenon DEF RoomsCome
<1>4. ASSUME NEW f \in Filters, RoomsFail(f)
      PROVE  BrowserInv'
    BY <1>4, Zenon DEF RoomsFail
<1>5. CASE Hide
    BY <1>5, Zenon DEF Hide
<1>6. CASE Show
    BY <1>6, Zenon DEF Show
<1>7. CASE Retry
    BY <1>7, Zenon DEF Retry
<1>8. CASE UNCHANGED browser
    BY <1>8 DEF browser
<1> QED
    BY <1>1, <1>2, <1>3, <1>4, <1>5, <1>6, <1>7, <1>8 DEF BrowserNext

LEMMA BrowserInvRight == BrowserInv => ListIsCurrent
BY DEF BrowserInv, Asked, ListIsCurrent

\* A visible page polls or shows an error, whatever answers come late, for any
\* number of filters, failures and requests in flight (room-browser.tsx).
THEOREM ListIsCurrentCorrect == BrowserSpec => []ListIsCurrent
BY BrowserInvRight, BrowserStart, BrowserStep, PTL DEF BrowserSpec

-----------------------------------------------------------------------------
RunSet == [at : {"token", "connect", "mic", "over"}, cancelled : BOOLEAN,
           link : {"none", "opening", "open", "closed"}, mic : BOOLEAN]
AskSet == [on : BOOLEAN, own : BOOLEAN]

VoiceTyped ==
    /\ runs \in Seq(RunSet) /\ micAsks \in Seq(Seq(AskSet))
    /\ Len(micAsks) = Len(runs)
    /\ roomRef \in 0 .. Len(runs)
    /\ mounted \in BOOLEAN /\ connected \in BOOLEAN /\ muted \in BOOLEAN /\ tangled \in BOOLEAN

\* One run is not cancelled, the last one while the panel is mounted.
LastRuns == \A r \in 1 .. Len(runs) : ~runs[r].cancelled <=> mounted /\ r = Len(runs)

\* The Room of the panel is the last run's, and nobody else's is open.
OneRoom ==
    /\ roomRef # 0 => mounted /\ roomRef = Len(runs)
    /\ \A r \in 1 .. Len(runs) :
          runs[r].link = "open" \/ (runs[r].at = "connect" /\ ~runs[r].cancelled) => roomRef = r

\* Until the last run asks for the microphone nothing was asked and nobody hears.
Unasked ==
    \A r \in 1 .. Len(runs) :
        ~runs[r].cancelled /\ runs[r].at \in {"token", "connect"} =>
            micAsks[r] = <<>> /\ muted /\ ~runs[r].mic /\ ~connected /\ runs[r].link # "open"

\* While the effect's own request is out it is the only one; later the requests
\* alternate from what others hear to what the button shows.
Alternates(q, mic, off) ==
    /\ \A i \in 1 .. Len(q) : ~q[i].own
    /\ Len(q) = 0 => (mic <=> ~off)
    /\ Len(q) > 0 => (q[1].on <=> ~mic) /\ (q[Len(q)].on <=> ~off)
    /\ \A i \in 1 .. Len(q) : i < Len(q) => (q[i + 1].on <=> ~q[i].on)

InStep ==
    ~tangled => \A r \in 1 .. Len(runs) :
        /\ runs[r].link = "open" /\ runs[r].at = "mic" =>
              /\ Len(micAsks[r]) = 1 /\ micAsks[r][1].on /\ micAsks[r][1].own
              /\ muted /\ ~runs[r].mic
        /\ runs[r].link = "open" /\ runs[r].at = "over" => Alternates(micAsks[r], runs[r].mic, muted)

VoiceInv == VoiceTyped /\ LastRuns /\ OneRoom /\ Unasked /\ InStep

Span == 1 .. Len(runs)

\* A run changed and the requests of a run changed, the others left alone.
LEMMA SetRun ==
    ASSUME VoiceTyped, NEW r \in Span, NEW k \in RunSet, runs' = [runs EXCEPT ![r] = k]
    PROVE  /\ runs' \in Seq(RunSet) /\ Len(runs') = Len(runs)
           /\ runs'[r] = k
           /\ \A i \in Span : i # r => runs'[i] = runs[i]
BY DEF VoiceTyped, Span

LEMMA SetAsks ==
    ASSUME VoiceTyped, NEW r \in Span, NEW q \in Seq(AskSet), micAsks' = [micAsks EXCEPT ![r] = q]
    PROVE  /\ micAsks' \in Seq(Seq(AskSet)) /\ Len(micAsks') = Len(micAsks)
           /\ micAsks'[r] = q
           /\ \A i \in Span : i # r => micAsks'[i] = micAsks[i]
BY DEF VoiceTyped, Span

LEMMA RunsTyped ==
    ASSUME VoiceTyped, NEW r \in Span
    PROVE  runs[r] \in RunSet /\ micAsks[r] \in Seq(AskSet)
BY DEF VoiceTyped, Span

LEMMA AlternatesAppend ==
    ASSUME NEW q \in Seq(AskSet), NEW mic \in BOOLEAN, NEW off \in BOOLEAN,
           Alternates(q, mic, off), NEW a \in AskSet, a.on <=> off, ~a.own
    PROVE  Alternates(Append(q, a), mic, ~off)
<1>1. PICK p : p = Append(q, a)
    OBVIOUS
<1>2. /\ Len(q) \in Nat /\ Len(p) = Len(q) + 1 /\ p[Len(q) + 1] = a
      /\ \A i \in 1 .. Len(q) : p[i] = q[i]
    BY <1>1, LenProperties, AppendProperties
<1>3. \A i \in 1 .. Len(p) : ~p[i].own
    BY <1>2 DEF Alternates
<1>4. p[1].on <=> ~mic
    BY <1>2 DEF Alternates
<1>5. \A i \in 1 .. Len(p) : i < Len(p) => (p[i + 1].on <=> ~p[i].on)
    BY <1>2 DEF Alternates
<1> QED
    BY <1>1, <1>2, <1>3, <1>4, <1>5 DEF Alternates

LEMMA AlternatesTail ==
    ASSUME NEW q \in Seq(AskSet), NEW mic \in BOOLEAN, NEW off \in BOOLEAN,
           Alternates(q, mic, off), q # <<>>
    PROVE  Alternates(Tail(q), Head(q).on, off) /\ Tail(q) \in Seq(AskSet)
<1>1. PICK p : p = Tail(q)
    OBVIOUS
<1>2. /\ Len(q) \in Nat /\ Len(q) > 0 /\ p \in Seq(AskSet) /\ Len(p) = Len(q) - 1
      /\ \A i \in 1 .. Len(p) : p[i] = q[i + 1]
      /\ Head(q) = q[1]
    BY <1>1, LenProperties, EmptySeq, HeadTailProperties
<1>3. ASSUME NEW i \in 1 .. Len(p)
      PROVE  ~p[i].own
  <2>1. i + 1 \in 1 .. Len(q) /\ p[i] = q[i + 1]
      BY <1>2
  <2> QED
      BY <2>1 DEF Alternates
<1>4. ASSUME Len(p) = 0
      PROVE  q[1].on <=> ~off
  <2>1. Len(q) = 1
      BY <1>2, <1>4
  <2> QED
      BY <2>1 DEF Alternates
<1>5. Len(p) > 0 => (p[1].on <=> ~q[1].on) /\ (p[Len(p)].on <=> ~off)
    BY <1>2 DEF Alternates
<1>6. \A i \in 1 .. Len(p) : i < Len(p) => (p[i + 1].on <=> ~p[i].on)
    BY <1>2 DEF Alternates
<1> QED
    BY <1>1, <1>2, <1>3, <1>4, <1>5, <1>6 DEF Alternates

LEMMA VoiceStart == VoiceInit => VoiceInv
<1> SUFFICES ASSUME VoiceInit
             PROVE  VoiceInv
    OBVIOUS
<1>1. Len(runs) = 0 /\ Len(micAsks) = 0 /\ runs \in Seq(RunSet) /\ micAsks \in Seq(Seq(AskSet))
    BY EmptySeq DEF VoiceInit
<1>2. VoiceTyped
  <2>1. roomRef = 0 /\ mounted \in BOOLEAN /\ connected \in BOOLEAN /\ muted \in BOOLEAN
        /\ tangled \in BOOLEAN
      BY Zenon DEF VoiceInit
  <2>2. roomRef \in 0 .. Len(runs) /\ Len(micAsks) = Len(runs)
      BY <1>1, <2>1
  <2> QED
      BY <1>1, <2>1, <2>2, Zenon DEF VoiceTyped
<1>3. LastRuns /\ OneRoom /\ Unasked /\ InStep
  <2>1. 1 .. Len(runs) = {}
      BY <1>1
  <2> QED
      BY <2>1 DEF VoiceInit, LastRuns, OneRoom, Unasked, InStep
<1> QED
    BY <1>2, <1>3 DEF VoiceInv

LEMMA VoiceIdle == VoiceInv /\ UNCHANGED voice => VoiceInv'
BY DEF voice, VoiceInv, VoiceTyped, LastRuns, OneRoom, Unasked, InStep, Alternates

LEMMA MountStep == VoiceInv /\ Mount => VoiceInv'
<1> SUFFICES ASSUME VoiceInv, Mount
             PROVE  VoiceInv'
    OBVIOUS
<1>1. Run \in RunSet /\ Run.at = "token" /\ ~Run.cancelled /\ Run.link = "none" /\ ~Run.mic
    BY DEF Run, RunSet
<1>2. /\ runs' = Append(runs, Run) /\ micAsks' = Append(micAsks, <<>>)
      /\ ~mounted /\ mounted' /\ ~connected' /\ muted' /\ ~tangled'
      /\ mounted' \in BOOLEAN /\ connected' \in BOOLEAN /\ muted' \in BOOLEAN
      /\ tangled' \in BOOLEAN /\ roomRef' = roomRef
    BY DEF Mount
<1>3. PICK n : n = Len(runs)
    OBVIOUS
<1>4. n \in Nat /\ Len(micAsks) = n /\ roomRef \in 0 .. n /\ roomRef = 0
    BY <1>2, <1>3 DEF VoiceInv, VoiceTyped, OneRoom
<1>5. /\ runs' \in Seq(RunSet) /\ Len(runs') = n + 1 /\ runs'[n + 1] = Run
      /\ \A i \in 1 .. n : runs'[i] = runs[i]
    BY <1>1, <1>2, <1>3, AppendProperties DEF VoiceInv, VoiceTyped
<1>6. /\ micAsks' \in Seq(Seq(AskSet)) /\ Len(micAsks') = n + 1 /\ micAsks'[n + 1] = <<>>
      /\ \A i \in 1 .. n : micAsks'[i] = micAsks[i]
  <2>1. <<>> \in Seq(AskSet)
      BY EmptySeq
  <2> QED
      BY <1>2, <1>4, <2>1, AppendProperties DEF VoiceInv, VoiceTyped
<1>7. VoiceTyped'
    BY <1>2, <1>4, <1>5, <1>6 DEF VoiceTyped
<1>8. \A i \in 1 .. n : runs[i].cancelled /\ runs[i].link # "open"
    BY <1>2, <1>3, <1>4 DEF VoiceInv, LastRuns, OneRoom
<1>9. LastRuns'
    BY <1>1, <1>2, <1>4, <1>5, <1>8 DEF LastRuns
<1>10. OneRoom'
    BY <1>1, <1>2, <1>4, <1>5, <1>8 DEF OneRoom
<1>11. Unasked'
    BY <1>1, <1>2, <1>4, <1>5, <1>6, <1>8 DEF Unasked
<1>12. InStep'
    BY <1>1, <1>4, <1>5, <1>8 DEF InStep
<1> QED
    BY <1>7, <1>9, <1>10, <1>11, <1>12 DEF VoiceInv

\* The cleanup closes the last run's Room and cancels it.
LEMMA UnmountStep == VoiceInv /\ Unmount => VoiceInv'
<1> SUFFICES ASSUME VoiceInv, Unmount
             PROVE  VoiceInv'
    OBVIOUS
<1>1. /\ mounted /\ ~mounted' /\ mounted' \in BOOLEAN /\ ~connected' /\ connected' \in BOOLEAN
      /\ roomRef' = 0 /\ UNCHANGED <<muted, micAsks, tangled>>
      /\ runs' = IF roomRef = 0 THEN Cancelled ELSE Closed(Cancelled, roomRef)
    BY DEF Unmount
<1>2. PICK n : n = Len(runs)
    OBVIOUS
<1>3. n \in Nat /\ roomRef \in 0 .. n /\ (roomRef # 0 => roomRef = n) /\ Runs = 1 .. n
    BY <1>1, <1>2, LenProperties DEF VoiceInv, VoiceTyped, OneRoom, Runs
<1>4. PICK rs : rs = Cancelled
    OBVIOUS
<1>5. /\ rs \in Seq(RunSet) /\ Len(rs) = n
      /\ \A i \in 1 .. n : rs[i] \in RunSet /\ rs[i].cancelled /\ rs[i].link = runs[i].link
  <2>1. ASSUME NEW i \in 1 .. n
        PROVE  rs[i] \in RunSet /\ rs[i].cancelled /\ rs[i].link = runs[i].link
    <3>1. runs[i] \in RunSet
        BY <1>2, RunsTyped DEF VoiceInv, Span
    <3>2. rs[i] = IF i = n THEN [runs[i] EXCEPT !.cancelled = TRUE] ELSE runs[i]
        BY <1>2, <1>3, <1>4, Zenon DEF Cancelled
    <3>3. i # n => runs[i].cancelled
        BY <1>2 DEF VoiceInv, LastRuns
    <3> QED
        BY <3>1, <3>2, <3>3 DEF RunSet
  <2>2. rs = [i \in 1 .. n |-> rs[i]]
      BY <1>3, <1>4, Zenon DEF Cancelled, Runs
  <2> QED
      BY <1>3, <2>1, <2>2
<1>6. /\ runs' \in Seq(RunSet) /\ Len(runs') = n
      /\ \A i \in 1 .. n : runs'[i].cancelled /\ runs'[i].link # "open"
  <2>1. CASE roomRef = 0
    <3>1. runs' = rs
        BY <1>1, <1>4, <2>1
    <3>2. \A i \in 1 .. n : runs[i].link # "open"
        BY <1>2, <2>1 DEF VoiceInv, OneRoom
    <3> QED
        BY <1>5, <3>1, <3>2
  <2>2. CASE roomRef # 0
    <3>1. PICK k : k = [rs[n] EXCEPT !.link = "closed", !.mic = FALSE]
        OBVIOUS
    <3>5. n \in 1 .. n /\ rs[n] \in RunSet /\ rs[n].cancelled
        BY <1>3, <1>5, <2>2
    <3>2. k \in RunSet /\ k.cancelled /\ k.link = "closed"
      <4>1. rs[n].at \in {"token", "connect", "mic", "over"} /\ rs[n].cancelled \in BOOLEAN
          BY <3>5, Zenon DEF RunSet
      <4>2. rs[n] = [at |-> rs[n].at, cancelled |-> rs[n].cancelled, link |-> rs[n].link, mic |-> rs[n].mic]
          BY <3>5 DEF RunSet
      <4>3. k = [at |-> rs[n].at, cancelled |-> rs[n].cancelled, link |-> "closed", mic |-> FALSE]
          BY <3>1, <4>2
      <4> QED
          BY <3>5, <4>1, <4>3, Zenon DEF RunSet
    <3>3. runs' = [rs EXCEPT ![n] = k]
      <4>1. runs' = [rs EXCEPT ![n].link = "closed", ![n].mic = FALSE]
          BY <1>1, <1>3, <1>4, <2>2 DEF Closed
      <4> QED
          BY <4>1, <3>1, <1>3, <1>5, <2>2
    <3>4. \A i \in 1 .. n : i # n => runs[i].link # "open"
        BY <1>2, <1>3, <2>2 DEF VoiceInv, OneRoom
    <3>6. /\ runs' \in Seq(RunSet) /\ Len(runs') = n /\ runs'[n] = k
          /\ \A i \in 1 .. n : i # n => runs'[i] = rs[i]
        BY <1>3, <1>5, <3>2, <3>3, <3>5
    <3> QED
        BY <1>5, <3>2, <3>4, <3>6
  <2> QED
      BY <2>1, <2>2
<1>7. VoiceTyped'
    BY <1>1, <1>2, <1>3, <1>6 DEF VoiceInv, VoiceTyped
<1>8. LastRuns' /\ OneRoom' /\ Unasked'
    BY <1>1, <1>6 DEF LastRuns, OneRoom, Unasked
<1>9. InStep'
    BY <1>6 DEF InStep
<1> QED
    BY <1>7, <1>8, <1>9 DEF VoiceInv

\* A run that goes on, and does not come nearer to the microphone than it was.
LEMMA RunGoesOn ==
    ASSUME VoiceInv, NEW r \in Span, NEW k \in RunSet, runs' = [runs EXCEPT ![r] = k],
           k.cancelled <=> runs[r].cancelled, k.link # "open", k.at # "token",
           k.at = "connect" => ~k.mic /\ ~k.cancelled /\ runs[r].at = "token" /\ roomRef' = r,
           roomRef' = roomRef \/ (roomRef' = r /\ ~runs[r].cancelled),
           UNCHANGED <<mounted, muted, micAsks, tangled>>,
           connected' \in BOOLEAN, connected' => connected
    PROVE  VoiceInv'
<1>1. /\ runs' \in Seq(RunSet) /\ Len(runs') = Len(runs) /\ runs'[r] = k
      /\ \A i \in Span : i # r => runs'[i] = runs[i]
    BY SetRun DEF VoiceInv
<1>2. runs[r] \in RunSet /\ Len(runs) \in Nat /\ r \in 1 .. Len(runs)
    BY RunsTyped DEF VoiceInv, Span, VoiceTyped
<1>3. VoiceTyped'
    BY <1>1, <1>2 DEF VoiceInv, VoiceTyped
<1>4. LastRuns'
    BY <1>1, <1>2, ZenonT(60) DEF VoiceInv, LastRuns, Span
<1>5. OneRoom'
  <2>1. roomRef' # 0 => mounted' /\ roomRef' = Len(runs')
      BY <1>1, <1>2 DEF VoiceInv, LastRuns, OneRoom
  <2>2. ASSUME NEW i \in Span, runs'[i].link = "open" \/ (runs'[i].at = "connect" /\ ~runs'[i].cancelled)
        PROVE  roomRef' = i
    <3>1. CASE i = r
        BY <1>1, <2>2, <3>1
    <3>2. CASE i # r
      <4>1. roomRef = i
          BY <1>1, <2>2, <3>2 DEF VoiceInv, OneRoom, Span
      <4>2. i # 0 /\ i = Len(runs)
          BY <1>2, <4>1 DEF VoiceInv, OneRoom, Span
      <4>3. runs[r].cancelled
          BY <1>2, <3>2, <4>2 DEF VoiceInv, LastRuns
      <4> QED
          BY <4>1, <4>3
    <3> QED
        BY <3>1, <3>2
  <2> QED
      BY <1>1, <2>1, <2>2 DEF OneRoom, Span
<1>6. Unasked'
    BY <1>1, <1>2 DEF VoiceInv, Unasked, Span
<1>7. InStep'
    BY <1>1, <1>2 DEF VoiceInv, InStep, Span, Alternates
<1> QED
    BY <1>3, <1>4, <1>5, <1>6, <1>7 DEF VoiceInv

\* What the effect and LiveKit make of a run.
LEMMA Ends ==
    ASSUME NEW k \in RunSet
    PROVE  \E m \in RunSet :
              /\ m = [k EXCEPT !.at = "over"]
              /\ m.at = "over" /\ (m.cancelled <=> k.cancelled) /\ m.link = k.link /\ (m.mic <=> k.mic)
<1>1. PICK m : m = [k EXCEPT !.at = "over"]
    OBVIOUS
<1>2. m \in RunSet
    BY <1>1 DEF RunSet
<1>3. m.at = "over"
    BY <1>1 DEF RunSet
<1>4. m.cancelled <=> k.cancelled
    BY <1>1 DEF RunSet
<1>5. m.link = k.link
    BY <1>1 DEF RunSet
<1>6. m.mic <=> k.mic
    BY <1>1 DEF RunSet
<1> QED
    BY <1>1, <1>2, <1>3, <1>4, <1>5, <1>6, Zenon

LEMMA Opens ==
    ASSUME NEW k \in RunSet, NEW a \in {"connect", "mic"}, NEW l \in {"opening", "open"}
    PROVE  \E m \in RunSet :
              /\ m = [k EXCEPT !.at = a, !.link = l]
              /\ m.at = a /\ (m.cancelled <=> k.cancelled) /\ m.link = l /\ (m.mic <=> k.mic)
<1>1. PICK m : m = [k EXCEPT !.at = a, !.link = l]
    OBVIOUS
<1>2. m \in RunSet
    BY <1>1 DEF RunSet
<1>3. m.at = a
    BY <1>1 DEF RunSet
<1>4. m.cancelled <=> k.cancelled
    BY <1>1 DEF RunSet
<1>5. m.link = l
    BY <1>1 DEF RunSet
<1>6. m.mic <=> k.mic
    BY <1>1 DEF RunSet
<1> QED
    BY <1>1, <1>2, <1>3, <1>4, <1>5, <1>6, Zenon

LEMMA Closes ==
    ASSUME NEW k \in RunSet
    PROVE  \E m \in RunSet :
              /\ m = [k EXCEPT !.link = "closed", !.mic = FALSE]
              /\ m.at = k.at /\ (m.cancelled <=> k.cancelled) /\ m.link = "closed" /\ ~m.mic
<1>1. PICK m : m = [k EXCEPT !.link = "closed", !.mic = FALSE]
    OBVIOUS
<1>2. m \in RunSet
    BY <1>1 DEF RunSet
<1>3. m.at = k.at
    BY <1>1 DEF RunSet
<1>4. m.cancelled <=> k.cancelled
    BY <1>1 DEF RunSet
<1>5. m.link = "closed"
    BY <1>1 DEF RunSet
<1>6. ~m.mic
    BY <1>1 DEF RunSet
<1> QED
    BY <1>1, <1>2, <1>3, <1>4, <1>5, <1>6, Zenon

LEMMA Hears ==
    ASSUME NEW k \in RunSet, NEW on \in BOOLEAN
    PROVE  \E m \in RunSet :
              /\ m = [k EXCEPT !.mic = on, !.at = "over"]
              /\ m.at = "over" /\ (m.cancelled <=> k.cancelled) /\ m.link = k.link /\ (m.mic <=> on)
<1>1. PICK m : m = [k EXCEPT !.mic = on, !.at = "over"]
    OBVIOUS
<1>2. m \in RunSet
    BY <1>1 DEF RunSet
<1>3. m.at = "over"
    BY <1>1 DEF RunSet
<1>4. m.cancelled <=> k.cancelled
    BY <1>1 DEF RunSet
<1>5. m.link = k.link
    BY <1>1 DEF RunSet
<1>6. m.mic <=> on
    BY <1>1 DEF RunSet
<1> QED
    BY <1>1, <1>2, <1>3, <1>4, <1>5, <1>6, Zenon

LEMMA TokenStep ==
    ASSUME VoiceInv, NEW r \in Span, Token(r)
    PROVE  VoiceInv'
<1>1. runs[r] \in RunSet /\ VoiceTyped
    BY RunsTyped DEF VoiceInv
<1>2. /\ runs[r].at = "token" /\ UNCHANGED <<mounted, connected, muted, micAsks, tangled>>
      /\ connected' \in BOOLEAN
    BY <1>1 DEF Token, VoiceTyped
<1>3. ASSUME Returns(r), UNCHANGED roomRef, runs[r].link # "open"
      PROVE  VoiceInv'
  <2>1. PICK m \in RunSet :
            /\ m = [runs[r] EXCEPT !.at = "over"] /\ m.at = "over"
            /\ (m.cancelled <=> runs[r].cancelled) /\ m.link = runs[r].link /\ (m.mic <=> runs[r].mic)
      BY <1>1, Ends
  <2>2. runs' = [runs EXCEPT ![r] = m]
      BY <1>3, <2>1, Zenon DEF Returns
  <2> QED
      BY <1>2, <1>3, <2>1, <2>2, RunGoesOn
<1>4. runs[r].link # "open"
  <2>1. runs[r].link = "open" => roomRef = r /\ mounted /\ r = Len(runs)
      BY DEF VoiceInv, OneRoom, Span
  <2>2. runs[r].link = "open" => ~runs[r].cancelled
      BY <2>1 DEF VoiceInv, LastRuns, Span
  <2> QED
      BY <1>2, <2>2 DEF VoiceInv, Unasked, Span
<1>5. ASSUME ~runs[r].cancelled, roomRef' = r,
             runs' = [runs EXCEPT ![r].at = "connect", ![r].link = "opening"]
      PROVE  VoiceInv'
  <2>1. PICK m \in RunSet :
            /\ m = [runs[r] EXCEPT !.at = "connect", !.link = "opening"] /\ m.at = "connect"
            /\ (m.cancelled <=> runs[r].cancelled) /\ m.link = "opening" /\ (m.mic <=> runs[r].mic)
      BY <1>1, Opens
  <2>2. runs' = [runs EXCEPT ![r] = m]
      BY <1>5, <2>1, Zenon
  <2>3. ~runs[r].mic
      BY <1>2, <1>5 DEF VoiceInv, Unasked, Span
  <2> QED
      BY <1>2, <1>5, <2>1, <2>2, <2>3, RunGoesOn
<1> QED
    BY <1>3, <1>4, <1>5, Zenon DEF Token

\* What may be closed at any time: a Room that no longer speaks.
LEMMA CloseStep ==
    ASSUME VoiceInv, NEW r \in Span, NEW m \in RunSet, runs' = [runs EXCEPT ![r] = m],
           m.cancelled <=> runs[r].cancelled, m.link = "closed",
           m.at = "over" \/ (m.at = runs[r].at /\ m.at \notin {"token", "connect"}),
           UNCHANGED <<mounted, roomRef, muted, micAsks, tangled>>,
           connected' \in BOOLEAN, connected' => connected
    PROVE  VoiceInv'
BY RunGoesOn

LEMMA ClosedAndOver ==
    ASSUME VoiceInv, NEW r \in Span, runs' = [Closed(runs, r) EXCEPT ![r].at = "over"],
           UNCHANGED <<mounted, roomRef, connected, muted, micAsks, tangled>>
    PROVE  VoiceInv'
<1>1. runs[r] \in RunSet /\ VoiceTyped
    BY RunsTyped DEF VoiceInv
<1>2. PICK k \in RunSet :
          /\ k = [runs[r] EXCEPT !.link = "closed", !.mic = FALSE] /\ k.at = runs[r].at
          /\ (k.cancelled <=> runs[r].cancelled) /\ k.link = "closed" /\ ~k.mic
    BY <1>1, Closes
<1>3. PICK m \in RunSet :
          /\ m = [k EXCEPT !.at = "over"] /\ m.at = "over"
          /\ (m.cancelled <=> k.cancelled) /\ m.link = k.link /\ (m.mic <=> k.mic)
    BY Ends
<1>4. Closed(runs, r) = [runs EXCEPT ![r] = k]
    BY <1>2, Zenon DEF Closed
<1>5. runs' = [runs EXCEPT ![r] = m]
    BY <1>1, <1>3, <1>4 DEF VoiceTyped, Span
<1>6. connected' \in BOOLEAN /\ (connected' => connected)
    BY <1>1 DEF VoiceTyped
<1>7. (m.cancelled <=> runs[r].cancelled) /\ m.link = "closed" /\ m.at = "over"
    BY <1>2, <1>3, Zenon
<1>8. UNCHANGED <<mounted, roomRef, muted, micAsks, tangled>>
    OBVIOUS
<1> QED
    BY <1>5, <1>6, <1>7, <1>8, CloseStep

LEMMA ConnectFailsStep ==
    ASSUME VoiceInv, NEW r \in Span, ConnectFails(r)
    PROVE  VoiceInv'
BY ClosedAndOver DEF ConnectFails

LEMMA DisconnectedStep == VoiceInv /\ Disconnected => VoiceInv'
<1> SUFFICES ASSUME VoiceInv, Disconnected
             PROVE  VoiceInv'
    OBVIOUS
<1>1. /\ connected /\ roomRef # 0 /\ ~connected' /\ connected' \in BOOLEAN
      /\ runs' = Closed(runs, roomRef)
      /\ UNCHANGED <<mounted, roomRef, status, muted, micAsks, tangled>>
    BY DEF Disconnected
<1>2. PICK r : r = roomRef
    OBVIOUS
<1>3. r \in Span /\ VoiceTyped
    BY <1>1, <1>2 DEF VoiceInv, VoiceTyped, Span
<1>4. runs[r] \in RunSet
    BY <1>3, RunsTyped
<1>5. PICK k \in RunSet :
          /\ k = [runs[r] EXCEPT !.link = "closed", !.mic = FALSE] /\ k.at = runs[r].at
          /\ (k.cancelled <=> runs[r].cancelled) /\ k.link = "closed" /\ ~k.mic
    BY <1>4, Closes
<1>6. runs' = [runs EXCEPT ![r] = k]
    BY <1>1, <1>2, <1>5, Zenon DEF Closed
<1>7. runs[r].at \notin {"token", "connect"}
  <2>1. ~runs[r].cancelled
      BY <1>1, <1>2, <1>3 DEF VoiceInv, OneRoom, LastRuns, Span
  <2> QED
      BY <1>1, <1>3, <2>1 DEF VoiceInv, Unasked, Span
<1> QED
    BY <1>1, <1>3, <1>5, <1>6, <1>7, CloseStep

LEMMA BlinkStep == VoiceInv /\ ConnectionStateChanged => VoiceInv'
<1> SUFFICES ASSUME VoiceInv, ConnectionStateChanged
             PROVE  VoiceInv'
    OBVIOUS
<1>1. /\ roomRef # 0 /\ runs[roomRef].link = "open"
      /\ connected' \in BOOLEAN
      /\ UNCHANGED <<runs, mounted, roomRef, muted, micAsks, tangled>>
    BY DEF ConnectionStateChanged, VoiceInv, VoiceTyped
<1>2. VoiceTyped' /\ LastRuns' /\ OneRoom' /\ InStep'
    BY <1>1 DEF VoiceInv, VoiceTyped, LastRuns, OneRoom, InStep, Alternates
<1>3. Unasked'
  <2>1. ASSUME NEW r \in Span, ~runs[r].cancelled, runs[r].at \in {"token", "connect"}
        PROVE  FALSE
    <3>1. r = roomRef
        BY <1>1, <2>1 DEF VoiceInv, LastRuns, OneRoom, Span
    <3> QED
        BY <1>1, <2>1, <3>1 DEF VoiceInv, Unasked, Span
  <2> QED
      BY <1>1, <2>1 DEF Unasked, Span
<1> QED
    BY <1>2, <1>3 DEF VoiceInv

\* The run that connects is the panel's, and asks for the microphone.
LEMMA ConnectsStep ==
    ASSUME VoiceInv, NEW r \in Span, Connects(r)
    PROVE  VoiceInv'
<1>1. runs[r] \in RunSet /\ VoiceTyped /\ runs[r].at = "connect"
      /\ UNCHANGED <<mounted, roomRef, muted, tangled>>
    BY RunsTyped DEF VoiceInv, Connects
<1>2. CASE runs[r].cancelled
  <2>1. runs' = [Closed(runs, r) EXCEPT ![r].at = "over"] /\ UNCHANGED <<connected, micAsks>>
      BY <1>2, Zenon DEF Connects
  <2> QED
      BY <1>1, <2>1, ClosedAndOver
<1>3. CASE ~runs[r].cancelled
  <2>1. /\ runs' = [runs EXCEPT ![r].at = "mic", ![r].link = "open"]
        /\ connected' = TRUE
        /\ micAsks' = [micAsks EXCEPT ![r] = Append(micAsks[r], [on |-> TRUE, own |-> TRUE])]
      BY <1>3, Zenon DEF Connects
  <2>2. PICK m \in RunSet :
            /\ m = [runs[r] EXCEPT !.at = "mic", !.link = "open"] /\ m.at = "mic"
            /\ (m.cancelled <=> runs[r].cancelled) /\ m.link = "open" /\ (m.mic <=> runs[r].mic)
      BY <1>1, Opens, ZenonT(60)
  <2>3. runs' = [runs EXCEPT ![r] = m]
      BY <2>1, <2>2, Zenon
  <2>4. /\ runs' \in Seq(RunSet) /\ Len(runs') = Len(runs)
        /\ runs'[r] = m
        /\ \A i \in Span : i # r => runs'[i] = runs[i]
      BY <1>1, <2>3, SetRun
  <2>5. micAsks[r] = <<>> /\ muted /\ ~runs[r].mic /\ roomRef = r
      BY <1>1, <1>3 DEF VoiceInv, Unasked, OneRoom, Span
  <2>6. PICK a : a = [on |-> TRUE, own |-> TRUE]
      OBVIOUS
  <2>7. a \in AskSet /\ a.on /\ a.own
      BY <2>6 DEF AskSet
  <2>8. PICK q : q = Append(micAsks[r], a)
      OBVIOUS
  <2>9. q \in Seq(AskSet) /\ Len(q) = 1 /\ q[1] = a
      BY <2>5, <2>7, <2>8, EmptySeq, AppendProperties
  <2>10. /\ micAsks' \in Seq(Seq(AskSet)) /\ Len(micAsks') = Len(micAsks)
         /\ micAsks'[r] = q
         /\ \A i \in Span : i # r => micAsks'[i] = micAsks[i]
    <3>1. micAsks' = [micAsks EXCEPT ![r] = q]
        BY <2>1, <2>6, <2>8, Zenon
    <3> QED
        BY <1>1, <2>9, <3>1, SetAsks
  <2>11. Len(runs) \in Nat /\ r \in 1 .. Len(runs) /\ mounted /\ r = Len(runs)
      BY <1>1, <1>3, LenProperties DEF VoiceTyped, Span, VoiceInv, LastRuns
  <2>12. VoiceTyped'
      BY <1>1, <2>1, <2>4, <2>10 DEF VoiceTyped
  <2>13. LastRuns'
      BY <1>1, <1>3, <2>2, <2>4, ZenonT(60) DEF VoiceInv, LastRuns, Span
  <2>14. OneRoom'
      BY <1>1, <2>4, <2>5, <2>11 DEF VoiceInv, OneRoom, Span
  <2>15. \A i \in Span : i # r => runs[i].cancelled /\ runs[i].link # "open"
      BY <2>5, <2>11 DEF VoiceInv, LastRuns, OneRoom, Span
  <2>16. Unasked'
      BY <2>2, <2>4, <2>15 DEF Unasked, Span
  <2>17. InStep'
      BY <1>1, <2>2, <2>4, <2>5, <2>7, <2>9, <2>10, <2>15, ZenonT(60) DEF InStep, Span
  <2> QED
      BY <2>12, <2>13, <2>14, <2>16, <2>17 DEF VoiceInv
<1> QED
    BY <1>2, <1>3

\* The button asks for what it then shows, behind what was asked before.
LEMMA ToggleStep == VoiceInv /\ ToggleMute => VoiceInv'
<1> SUFFICES ASSUME VoiceInv, ToggleMute
             PROVE  VoiceInv'
    OBVIOUS
<1>1. /\ connected /\ roomRef # 0
      /\ muted' = ~muted
      /\ micAsks' = [micAsks EXCEPT ![roomRef] = Append(micAsks[roomRef], [on |-> muted, own |-> FALSE])]
      /\ tangled' = (tangled \/ runs[roomRef].at = "mic")
      /\ UNCHANGED <<runs, mounted, roomRef, connected>>
    BY Zenon DEF ToggleMute
<1>2. VoiceTyped /\ muted \in BOOLEAN
    BY DEF VoiceInv, VoiceTyped
<1>3. PICK r : r = roomRef
    OBVIOUS
<1>4. r \in Span /\ mounted /\ r = Len(runs)
    BY <1>1, <1>2, <1>3 DEF VoiceInv, VoiceTyped, OneRoom, Span
<1>5. runs[r] \in RunSet /\ micAsks[r] \in Seq(AskSet)
    BY <1>2, <1>4, RunsTyped
<1>6. PICK a : a = [on |-> muted, own |-> FALSE]
    OBVIOUS
<1>7. a \in AskSet /\ (a.on <=> muted) /\ ~a.own
    BY <1>2, <1>6 DEF AskSet
<1>8. PICK q : q = Append(micAsks[r], a)
    OBVIOUS
<1>9. /\ q \in Seq(AskSet) /\ Len(q) = Len(micAsks[r]) + 1 /\ q[Len(micAsks[r]) + 1] = a
      /\ \A i \in 1 .. Len(micAsks[r]) : q[i] = micAsks[r][i]
    BY <1>5, <1>7, <1>8, AppendProperties
<1>10. /\ micAsks' \in Seq(Seq(AskSet)) /\ Len(micAsks') = Len(micAsks)
       /\ micAsks'[r] = q
       /\ \A i \in Span : i # r => micAsks'[i] = micAsks[i]
  <2>1. micAsks' = [micAsks EXCEPT ![r] = q]
      BY <1>1, <1>3, <1>6, <1>8, Zenon
  <2> QED
      BY <1>2, <1>4, <1>9, <2>1, SetAsks
<1>11. VoiceTyped'
  <2>1. muted' \in BOOLEAN /\ tangled' \in BOOLEAN
      BY <1>1, <1>2 DEF VoiceTyped
  <2> QED
      BY <1>1, <1>2, <1>10, <2>1 DEF VoiceTyped
<1>12. LastRuns' /\ OneRoom'
    BY <1>1 DEF VoiceInv, LastRuns, OneRoom
<1>13. ~runs[r].cancelled /\ runs[r].at \notin {"token", "connect"}
    BY <1>1, <1>4 DEF VoiceInv, LastRuns, Unasked, Span
<1>14. \A i \in Span : i # r => runs[i].cancelled /\ runs[i].link # "open"
    BY <1>1, <1>3, <1>4 DEF VoiceInv, LastRuns, OneRoom, Span
<1>15. Unasked'
    BY <1>1, <1>13, <1>14 DEF Unasked, Span
<1>16. InStep'
  <2>1. ASSUME ~tangled', runs[r].link = "open"
        PROVE  runs[r].at = "over" /\ Alternates(q, runs[r].mic, ~muted)
    <3>1. ~tangled /\ runs[r].at = "over"
        BY <1>1, <1>3, <1>5, <1>13, <2>1 DEF RunSet
    <3>2. Alternates(micAsks[r], runs[r].mic, muted)
        BY <1>4, <2>1, <3>1 DEF VoiceInv, InStep, Span
    <3>3. runs[r].mic \in BOOLEAN
        BY <1>5 DEF RunSet
    <3> QED
        BY <1>2, <1>5, <1>7, <1>8, <3>1, <3>2, <3>3, AlternatesAppend
  <2> QED
      BY <1>1, <1>4, <1>10, <1>14, <2>1 DEF InStep, Span
<1> QED
    BY <1>11, <1>12, <1>15, <1>16 DEF VoiceInv

LEMMA TailOfOne ==
    ASSUME NEW q \in Seq(AskSet), q # <<>>
    PROVE  /\ Tail(q) \in Seq(AskSet) /\ Head(q) = q[1] /\ q[1] \in AskSet
           /\ Len(q) \in Nat /\ Len(q) > 0
           /\ Len(q) <= 1 => Len(Tail(q)) = 0
<1>1. Len(q) \in Nat /\ Len(q) > 0
    BY LenProperties, EmptySeq
<1>2. Tail(q) \in Seq(AskSet) /\ Len(Tail(q)) = Len(q) - 1 /\ Head(q) = q[1]
    BY <1>1, HeadTailProperties
<1>3. q[1] \in AskSet
    BY <1>1, ElementOfSeq
<1> QED
    BY <1>1, <1>2, <1>3

\* What an answer to a microphone request does to all but the last request.
LEMMA AnswerStep ==
    ASSUME VoiceInv, NEW r \in Span, NEW m \in RunSet, runs' = [runs EXCEPT ![r] = m],
           m.cancelled <=> runs[r].cancelled, m.link = runs[r].link, m.at = "over",
           micAsks[r] # <<>>, MicAnswered(r),
           UNCHANGED <<mounted, roomRef, connected>>,
           muted' \in BOOLEAN, tangled' \in BOOLEAN, tangled => tangled',
           runs[r].cancelled => muted' = muted,
           ~tangled' /\ m.link = "open" => Alternates(Tail(micAsks[r]), m.mic, muted')
    PROVE  VoiceInv'
<1>1. VoiceTyped /\ Len(runs) \in Nat /\ r \in 1 .. Len(runs)
    BY LenProperties DEF VoiceInv, VoiceTyped, Span
<1>2. /\ runs' \in Seq(RunSet) /\ Len(runs') = Len(runs)
      /\ runs'[r] = m
      /\ \A i \in Span : i # r => runs'[i] = runs[i]
    BY <1>1, SetRun
<1>3. runs[r] \in RunSet /\ micAsks[r] \in Seq(AskSet)
    BY <1>1, RunsTyped
<1>4. PICK q : q = Tail(micAsks[r])
    OBVIOUS
<1>5. q \in Seq(AskSet)
    BY <1>3, <1>4, TailOfOne
<1>6. /\ micAsks' \in Seq(Seq(AskSet)) /\ Len(micAsks') = Len(micAsks)
      /\ micAsks'[r] = q
      /\ \A i \in Span : i # r => micAsks'[i] = micAsks[i]
  <2>1. micAsks' = [micAsks EXCEPT ![r] = q]
      BY <1>4, Zenon DEF MicAnswered
  <2> QED
      BY <1>1, <1>5, <2>1, SetAsks
<1>7. VoiceTyped'
    BY <1>1, <1>2, <1>6 DEF VoiceTyped
<1>8. LastRuns'
    BY <1>2 DEF VoiceInv, LastRuns, Span
<1>9. OneRoom'
    BY <1>2 DEF VoiceInv, OneRoom, Span
<1>10. ASSUME NEW i \in Span, i # r, ~runs[i].cancelled
       PROVE  muted' = muted
  <2>1. runs[r].cancelled
      BY <1>1, <1>10 DEF VoiceInv, LastRuns, Span
  <2> QED
      BY <2>1
<1>11. Unasked'
    BY <1>2, <1>6, <1>10 DEF VoiceInv, Unasked, Span
<1>12. ASSUME NEW i \in Span, i # r, runs[i].link = "open"
       PROVE  ~runs[i].cancelled
    BY <1>1, <1>12 DEF VoiceInv, LastRuns, OneRoom, Span
<1>13. InStep'
  <2> SUFFICES ASSUME ~tangled'
               PROVE  InStep'
      BY DEF InStep
  <2>1. ~tangled
      OBVIOUS
  <2>2. ASSUME NEW i \in Span, i # r, runs[i].link = "open"
        PROVE  /\ runs[i].at = "mic" =>
                    /\ Len(micAsks[i]) = 1 /\ micAsks[i][1].on /\ micAsks[i][1].own
                    /\ muted' /\ ~runs[i].mic
               /\ runs[i].at = "over" => Alternates(micAsks[i], runs[i].mic, muted')
      BY <1>10, <1>12, <2>1, <2>2 DEF VoiceInv, InStep, Span
  <2>3. m.link = "open" => Alternates(q, m.mic, muted')
      BY <1>4
  <2> QED
      BY <1>2, <1>6, <2>2, <2>3 DEF InStep, Span
<1> QED
    BY <1>7, <1>8, <1>9, <1>11, <1>13 DEF VoiceInv

\* A request that speaks to a Room that is open is the panel's.
LEMMA OpenRun ==
    ASSUME VoiceInv, NEW r \in Span, micAsks[r] # <<>>, runs[r].link = "open" \/ ~runs[r].cancelled
    PROVE  ~runs[r].cancelled /\ runs[r].at \in {"mic", "over"}
<1>1. runs[r] \in RunSet
    BY RunsTyped DEF VoiceInv
<1>2. ~runs[r].cancelled
    BY DEF VoiceInv, VoiceTyped, LastRuns, OneRoom, Span
<1>3. runs[r].at \notin {"token", "connect"}
    BY <1>2 DEF VoiceInv, Unasked, Span
<1> QED
    BY <1>1, <1>2, <1>3 DEF RunSet

LEMMA MicSetStep ==
    ASSUME VoiceInv, NEW r \in Span, MicSet(r)
    PROVE  VoiceInv'
<1>1. /\ micAsks[r] # <<>> /\ runs[r].link = "open" /\ MicAnswered(r)
      /\ UNCHANGED <<mounted, roomRef, connected, tangled>>
    BY DEF MicSet
<1>2. VoiceTyped /\ runs[r] \in RunSet /\ micAsks[r] \in Seq(AskSet)
    BY RunsTyped DEF VoiceInv
<1>3. PICK a : a = Head(micAsks[r])
    OBVIOUS
<1>4. a \in AskSet /\ a = micAsks[r][1] /\ Len(micAsks[r]) > 0 /\ Len(micAsks[r]) \in Nat
    BY <1>1, <1>2, <1>3, TailOfOne
<1>5. a.on \in BOOLEAN /\ a.own \in BOOLEAN
    BY <1>4 DEF AskSet
<1>6. PICK m \in RunSet :
          /\ m = [runs[r] EXCEPT !.mic = a.on, !.at = "over"]
          /\ m.at = "over" /\ (m.cancelled <=> runs[r].cancelled) /\ m.link = runs[r].link
          /\ (m.mic <=> a.on)
    BY <1>2, <1>5, Hears
<1>7. runs' = [runs EXCEPT ![r] = m]
    BY <1>3, <1>6, Zenon DEF MicSet
<1>8. (a.own => muted' = FALSE) /\ (~a.own => muted' = muted)
    BY <1>3, Zenon DEF MicSet
<1>9. ~runs[r].cancelled /\ runs[r].at \in {"mic", "over"}
    BY <1>1, OpenRun
<1>10. ASSUME ~tangled
       PROVE  Alternates(Tail(micAsks[r]), m.mic, muted')
  <2>1. CASE runs[r].at = "mic"
    <3>1. Len(micAsks[r]) = 1 /\ a.on /\ a.own
        BY <1>1, <1>4, <1>10, <2>1 DEF VoiceInv, InStep, Span
    <3>2. Len(Tail(micAsks[r])) = 0
        BY <1>1, <1>2, <3>1, TailOfOne
    <3>3. m.mic /\ ~muted'
        BY <1>6, <1>8, <3>1
    <3> QED
        BY <3>2, <3>3 DEF Alternates
  <2>2. CASE runs[r].at = "over"
    <3>1. Alternates(micAsks[r], runs[r].mic, muted)
        BY <1>1, <1>10, <2>2 DEF VoiceInv, InStep, Span
    <3>2. runs[r].mic \in BOOLEAN /\ muted \in BOOLEAN
        BY <1>2 DEF VoiceTyped, RunSet
    <3>3. ~a.own
        BY <1>4, <3>1 DEF Alternates
    <3>4. Alternates(Tail(micAsks[r]), a.on, muted)
        BY <1>1, <1>2, <1>3, <3>1, <3>2, AlternatesTail
    <3>5. muted' = muted
        BY <1>8, <3>3
    <3> QED
        BY <1>6, <3>4, <3>5 DEF Alternates
  <2> QED
      BY <1>9, <2>1, <2>2
<1>11. muted' \in BOOLEAN /\ tangled' \in BOOLEAN /\ tangled' = tangled
    BY <1>1, <1>2, <1>5, <1>8 DEF VoiceTyped
<1>12. /\ (m.cancelled <=> runs[r].cancelled) /\ m.link = runs[r].link /\ m.at = "over"
       /\ ~runs[r].cancelled
    BY <1>6, <1>9, Zenon
<1>13. /\ tangled => tangled'
       /\ runs[r].cancelled => muted' = muted
       /\ ~tangled' /\ m.link = "open" => Alternates(Tail(micAsks[r]), m.mic, muted')
    BY <1>10, <1>11, <1>12, Zenon
<1> QED
    BY <1>1, <1>7, <1>11, <1>12, <1>13, AnswerStep

LEMMA MicFailsStep ==
    ASSUME VoiceInv, NEW r \in Span, MicFails(r)
    PROVE  VoiceInv'
<1>1. /\ micAsks[r] # <<>> /\ Returns(r) /\ MicAnswered(r)
      /\ tangled' = (tangled \/ Len(micAsks[r]) > 1)
      /\ UNCHANGED <<mounted, roomRef, connected>>
    BY Zenon DEF MicFails
<1>2. VoiceTyped /\ runs[r] \in RunSet /\ micAsks[r] \in Seq(AskSet)
    BY RunsTyped DEF VoiceInv
<1>3. PICK a : a = Head(micAsks[r])
    OBVIOUS
<1>4. a \in AskSet /\ a = micAsks[r][1] /\ Len(micAsks[r]) > 0 /\ Len(micAsks[r]) \in Nat
    BY <1>1, <1>2, <1>3, TailOfOne
<1>5. a.on \in BOOLEAN /\ a.own \in BOOLEAN /\ muted \in BOOLEAN /\ tangled \in BOOLEAN
      /\ runs[r].mic \in BOOLEAN /\ runs[r].cancelled \in BOOLEAN
    BY <1>2, <1>4 DEF AskSet, RunSet, VoiceTyped
<1>6. PICK m \in RunSet :
          /\ m = [runs[r] EXCEPT !.at = "over"]
          /\ m.at = "over" /\ (m.cancelled <=> runs[r].cancelled) /\ m.link = runs[r].link
          /\ (m.mic <=> runs[r].mic)
    BY <1>2, Ends
<1>7. runs' = [runs EXCEPT ![r] = m]
    BY <1>1, <1>6, Zenon DEF Returns
<1>8. /\ runs[r].cancelled => muted' = muted
      /\ ~runs[r].cancelled /\ a.own => muted' = TRUE
      /\ ~runs[r].cancelled /\ ~a.own => muted' = IF muted = ~a.on THEN a.on ELSE muted
    BY <1>3, <1>5, Zenon DEF MicFails
<1>9. muted' \in BOOLEAN /\ tangled' \in BOOLEAN /\ (tangled => tangled')
    BY <1>1, <1>5, <1>8, Zenon
<1>13. tangled' <=> (tangled \/ Len(micAsks[r]) > 1)
    BY <1>1, Zenon
<1>10. ASSUME ~tangled', m.link = "open"
       PROVE  Alternates(Tail(micAsks[r]), m.mic, muted')
  <2>1. ~tangled
      BY <1>10, <1>13, Zenon
  <2>7. Len(micAsks[r]) = 1
    <3>1. ~(Len(micAsks[r]) > 1)
        BY <1>10, <1>13, Zenon
    <3>2. PICK n : n = Len(micAsks[r])
        OBVIOUS
    <3>3. n \in Nat /\ n > 0 /\ ~(n > 1)
        BY <1>4, <3>1, <3>2, Zenon
    <3>4. n = 1
        BY <3>3
    <3> QED
        BY <3>2, <3>4, Zenon
  <2>2. Len(Tail(micAsks[r])) = 0
      BY <1>1, <1>2, <2>7, TailOfOne
  <2>3. runs[r].link = "open"
      BY <1>6, <1>10, Zenon
  <2>4. ~runs[r].cancelled /\ runs[r].at \in {"mic", "over"}
      BY <1>1, <2>3, OpenRun
  <2>5. runs[r].mic <=> ~muted'
    <3>1. CASE runs[r].at = "mic"
      <4>1. a.own /\ ~runs[r].mic
          BY <1>4, <2>1, <2>7, <2>3, <3>1 DEF VoiceInv, InStep, Span
      <4> QED
          BY <1>8, <2>4, <4>1
    <3>2. CASE runs[r].at = "over"
      <4>1. Alternates(micAsks[r], runs[r].mic, muted)
          BY <2>1, <2>3, <3>2 DEF VoiceInv, InStep, Span
      <4>2. ~a.own /\ (a.on <=> ~runs[r].mic) /\ (a.on <=> ~muted)
          BY <1>4, <2>7, <4>1 DEF Alternates
      <4>3. muted = ~a.on
          BY <1>5, <4>2
      <4>4. muted' = a.on
          BY <1>8, <2>4, <4>2, <4>3, Zenon
      <4> QED
          BY <4>2, <4>4
    <3> QED
        BY <2>4, <3>1, <3>2
  <2>6. m.mic <=> ~muted'
      BY <1>6, <2>5, Zenon
  <2> QED
      BY <2>2, <2>6 DEF Alternates
<1>11. (m.cancelled <=> runs[r].cancelled) /\ m.link = runs[r].link /\ m.at = "over"
    BY <1>6, Zenon
<1>12. runs[r].cancelled => muted' = muted
    BY <1>8
<1> QED
    BY <1>1, <1>7, <1>9, <1>10, <1>11, <1>12, AnswerStep

LEMMA VoiceStep == VoiceInv /\ [VoiceNext]_voice => VoiceInv'
<1> SUFFICES ASSUME VoiceInv, [VoiceNext]_voice
             PROVE  VoiceInv'
    OBVIOUS
<1>1. Runs = Span
    BY LenProperties DEF VoiceInv, VoiceTyped, Runs, Span
<1>2. ASSUME NEW r \in Span, Token(r) \/ ConnectFails(r) \/ Connects(r) \/ MicSet(r) \/ MicFails(r)
      PROVE  VoiceInv'
    BY <1>2, TokenStep, ConnectFailsStep, ConnectsStep, MicSetStep, MicFailsStep
<1>3. CASE Disconnected \/ ConnectionStateChanged \/ ToggleMute \/ Mount \/ Unmount
    BY <1>3, DisconnectedStep, BlinkStep, ToggleStep, MountStep, UnmountStep
<1>4. CASE UNCHANGED voice
    BY <1>4, VoiceIdle
<1> QED
    BY <1>1, <1>2, <1>3, <1>4 DEF VoiceNext

LEMMA VoiceInvRight == VoiceInv => VoiceRight
<1> SUFFICES ASSUME VoiceInv
             PROVE  VoiceRight
    OBVIOUS
<1>1. Runs = Span /\ VoiceTyped
    BY LenProperties DEF VoiceInv, VoiceTyped, Runs, Span
<1>2. NoGhostVoice
    BY <1>1 DEF VoiceInv, VoiceTyped, OneRoom, NoGhostVoice, Span
<1>3. ButtonTellsTruth
  <2>1. ASSUME ~tangled, roomRef # 0, runs[roomRef].link = "open", micAsks[roomRef] = <<>>
        PROVE  runs[roomRef].mic = ~muted
    <3>1. PICK r \in Span : r = roomRef
        BY <1>1, <2>1 DEF VoiceTyped, Span
    <3>2. ~runs[r].cancelled
        BY <2>1, <3>1 DEF VoiceInv, OneRoom, LastRuns, Span
    <3>3. runs[r] \in RunSet /\ runs[r].mic \in BOOLEAN /\ muted \in BOOLEAN
        BY <1>1, RunsTyped DEF RunSet, VoiceTyped
    <3>4. runs[r].at = "over"
        BY <2>1, <3>1, <3>2, <3>3, EmptySeq DEF VoiceInv, Unasked, InStep, Span, RunSet
    <3>5. Alternates(micAsks[r], runs[r].mic, muted)
        BY <2>1, <3>1, <3>4 DEF VoiceInv, InStep, Span
    <3>6. runs[r].mic <=> ~muted
        BY <2>1, <3>1, <3>5, EmptySeq DEF Alternates
    <3> QED
        BY <3>1, <3>3, <3>6
  <2> QED
      BY <2>1 DEF ButtonTellsTruth
<1> QED
    BY <1>2, <1>3 DEF VoiceRight

\* A panel that was left keeps no voice connection, no two runs are connected,
\* and the mute button tells what others hear, for any number of mounts and of
\* microphone requests that wait (use-voice.ts).
THEOREM VoiceRightCorrect == VoiceSpec => []VoiceRight
BY VoiceStart, VoiceStep, VoiceInvRight, PTL DEF VoiceSpec

-----------------------------------------------------------------------------
States == {"opening", "up", "refused", "off", "stranded"}
ConnSet == [state : States, who : Users \cup {NoOne}, retry : BOOLEAN]
MessageSet == [op : {"join", "rejoin", "leave", "state", "kicked"}, room : Rooms \cup {NoRoom}, ok : BOOLEAN]
RequestSet == [on : Nat, op : {"join", "rejoin", "leave"}, room : Rooms \cup {NoRoom},
               at : {"buffered", "sent", "inside", "answered"}]

ClientTyped ==
    /\ page \in Rooms \cup {NoRoom} /\ room \in Rooms \cup {NoRoom}
    /\ conn \in Seq(ConnSet) /\ inbox \in Seq(Seq(MessageSet))
    /\ joined \in Seq(SUBSET (Rooms \cup {NoRoom}))
    /\ Len(inbox) = Len(conn) /\ Len(joined) = Len(conn)
    /\ socket \in 0 .. Len(conn)
    /\ asks \subseteq RequestSet
    /\ \A a \in asks : a.on \in 1 .. Len(conn)
    /\ stray \in BOOLEAN

\* No socket but the store's is retried.
OneRetried == \A s \in 1 .. Len(conn) : s # socket => ~conn[s].retry

\* Without a connection nothing is on its way and the server knows of no room.
DownIsEmpty ==
    \A s \in 1 .. Len(conn) : conn[s].state # "up" =>
        /\ inbox[s] = <<>> /\ joined[s] = {}
        /\ \A a \in asks : a.on = s => a.at = "buffered"

\* The page's requests are those of the store's socket, and only those that
\* enter a room are answered in two steps.
OwnAsks == \A a \in asks : (a.op # "rejoin" => a.on = socket) /\ (a.at = "inside" => a.op # "leave")

\* A message that tells of the end: the store will be cut off, or know that it
\* shows a room the server keeps from it.
Dooms(m) == m.op = "kicked" \/ (m.op = "rejoin" /\ ~m.ok)
Doomed(q) == \E i \in 1 .. Len(q) : Dooms(q[i])

SetsRoom(m) == m.op = "state" \/ (m.op \in {"join", "rejoin", "leave"} /\ m.ok)
RoomOf(m) == IF m.op = "leave" THEN NoRoom ELSE m.room

\* Where the messages of q lead a store that shows r: the last one that sets the
\* room sets it to one of rs.
LastSets(q, i) == SetsRoom(q[i]) /\ \A j \in 1 .. Len(q) : j > i => ~SetsRoom(q[j])
LandsIn(q, r, rs) ==
    /\ \A i \in 1 .. Len(q) : LastSets(q, i) => RoomOf(q[i]) \in rs
    /\ (\A i \in 1 .. Len(q) : ~SetsRoom(q[i])) => r \in rs

\* The rooms the store may show: the socket is in them, or asked to be again.
Rejoining(s) == {a \in asks : a.on = s /\ a.op = "rejoin" /\ a.at = "sent"}
MayShow(s) == {NoRoom} \cup joined[s] \cup {a.room : a \in Rejoining(s)}

Lands ==
    ~stray /\ socket # 0 /\ conn[socket].state = "up" /\ ~Doomed(inbox[socket]) =>
        /\ LandsIn(inbox[socket], room, MayShow(socket))
        /\ \A a \in asks : a.on = socket /\ a.at = "inside" => a.room \in joined[socket]

ClientInv == ClientTyped /\ OneRetried /\ DownIsEmpty /\ OwnAsks /\ Lands

LEMMA LandsEmpty ==
    ASSUME NEW r, NEW rs, r \in rs
    PROVE  LandsIn(<<>>, r, rs)
<1>1. Len(<<>>) = 0
    OBVIOUS
<1> QED
    BY <1>1 DEF LandsIn

LEMMA LandsMore ==
    ASSUME NEW q, NEW r, NEW rs, NEW more, LandsIn(q, r, rs), \A x \in rs : x \in more
    PROVE  LandsIn(q, r, more)
BY Zenon DEF LandsIn

LEMMA LandsAppend ==
    ASSUME NEW q \in Seq(MessageSet), NEW r, NEW rs, NEW m \in MessageSet,
           SetsRoom(m) => RoomOf(m) \in rs,
           SetsRoom(m) \/ LandsIn(q, r, rs)
    PROVE  LandsIn(Append(q, m), r, rs)
<1>1. PICK p : p = Append(q, m)
    OBVIOUS
<1>2. PICK n \in Nat : n = Len(q)
    BY LenProperties
<1>3. Len(p) = n + 1 /\ p[n + 1] = m /\ \A i \in 1 .. n : p[i] = q[i]
    BY <1>1, <1>2, AppendProperties
<1>4. ASSUME NEW i \in 1 .. Len(p), LastSets(p, i)
      PROVE  RoomOf(p[i]) \in rs
  <2>1. CASE i = n + 1
      BY <1>3, <1>4, <2>1 DEF LastSets
  <2>2. CASE i # n + 1
    <3>1. i \in 1 .. n /\ n + 1 \in 1 .. Len(p) /\ n + 1 > i
        BY <1>3, <2>2
    <3>2. ~SetsRoom(m)
        BY <1>3, <1>4, <3>1 DEF LastSets
    <3>3. LastSets(q, i)
        BY <1>2, <1>3, <1>4, <3>1 DEF LastSets
    <3> QED
        BY <1>2, <1>3, <3>1, <3>2, <3>3 DEF LandsIn
  <2> QED
      BY <2>1, <2>2
<1>5. ASSUME \A i \in 1 .. Len(p) : ~SetsRoom(p[i])
      PROVE  r \in rs
  <2>1. n + 1 \in 1 .. Len(p)
      BY <1>3
  <2>2. ~SetsRoom(m)
      BY <1>3, <1>5, <2>1
  <2>3. \A i \in 1 .. Len(q) : ~SetsRoom(q[i])
      BY <1>2, <1>3, <1>5
  <2> QED
      BY <2>2, <2>3 DEF LandsIn
<1> QED
    BY <1>1, <1>4, <1>5 DEF LandsIn

LEMMA LandsTail ==
    ASSUME NEW q \in Seq(MessageSet), NEW r, NEW rs, q # <<>>, LandsIn(q, r, rs)
    PROVE  LandsIn(Tail(q), IF SetsRoom(Head(q)) THEN RoomOf(Head(q)) ELSE r, rs)
<1>1. PICK p : p = Tail(q)
    OBVIOUS
<1>2. PICK n \in Nat : n = Len(q)
    BY LenProperties
<1>3. n > 0 /\ Len(p) = n - 1 /\ (\A i \in 1 .. Len(p) : p[i] = q[i + 1]) /\ Head(q) = q[1]
    BY <1>1, <1>2, EmptySeq, HeadTailProperties
<1>4. ASSUME NEW i \in 1 .. Len(p), LastSets(p, i)
      PROVE  RoomOf(p[i]) \in rs
  <2>1. i + 1 \in 1 .. Len(q) /\ p[i] = q[i + 1]
      BY <1>2, <1>3
  <2>2. ASSUME NEW j \in 1 .. Len(q), j > i + 1
        PROVE  ~SetsRoom(q[j])
    <3>1. j - 1 \in 1 .. Len(p) /\ j - 1 > i /\ p[j - 1] = q[j]
        BY <1>2, <1>3, <2>2
    <3> QED
        BY <1>4, <3>1 DEF LastSets
  <2>3. LastSets(q, i + 1)
      BY <1>4, <2>1, <2>2 DEF LastSets
  <2> QED
      BY <2>1, <2>3 DEF LandsIn
<1>5. ASSUME \A i \in 1 .. Len(p) : ~SetsRoom(p[i])
      PROVE  (IF SetsRoom(q[1]) THEN RoomOf(q[1]) ELSE r) \in rs
  <2>1. ASSUME NEW j \in 1 .. Len(q), j > 1
        PROVE  ~SetsRoom(q[j])
    <3>1. j - 1 \in 1 .. Len(p) /\ p[j - 1] = q[j]
        BY <1>2, <1>3, <2>1
    <3> QED
        BY <1>5, <3>1
  <2>2. 1 \in 1 .. Len(q)
      BY <1>2, <1>3
  <2>3. CASE SetsRoom(q[1])
    <3>1. LastSets(q, 1)
        BY <2>1, <2>3 DEF LastSets
    <3> QED
        BY <2>2, <2>3, <3>1 DEF LandsIn
  <2>4. CASE ~SetsRoom(q[1])
    <3>1. \A j \in 1 .. Len(q) : ~SetsRoom(q[j])
        BY <2>1, <2>4
    <3> QED
        BY <2>4, <3>1 DEF LandsIn
  <2> QED
      BY <2>3, <2>4
<1> QED
    BY <1>1, <1>3, <1>4, <1>5 DEF LandsIn

LEMMA DoomedAppend ==
    ASSUME NEW q \in Seq(MessageSet), NEW m \in MessageSet, ~Doomed(Append(q, m))
    PROVE  ~Doomed(q) /\ ~Dooms(m)
<1>1. PICK p : p = Append(q, m)
    OBVIOUS
<1>2. PICK n \in Nat : n = Len(q)
    BY LenProperties
<1>3. Len(p) = n + 1 /\ p[n + 1] = m /\ \A i \in 1 .. n : p[i] = q[i]
    BY <1>1, <1>2, AppendProperties
<1>4. \A i \in 1 .. n + 1 : ~Dooms(p[i])
    BY <1>1, <1>3 DEF Doomed
<1>5. n + 1 \in 1 .. n + 1 /\ \A i \in 1 .. n : i \in 1 .. n + 1
    OBVIOUS
<1> QED
    BY <1>2, <1>3, <1>4, <1>5 DEF Doomed

LEMMA DoomedTail ==
    ASSUME NEW q \in Seq(MessageSet), q # <<>>, ~Doomed(Tail(q)), ~Dooms(Head(q))
    PROVE  ~Doomed(q)
<1>1. PICK p : p = Tail(q)
    OBVIOUS
<1>2. PICK n \in Nat : n = Len(q)
    BY LenProperties
<1>3. n > 0 /\ Len(p) = n - 1 /\ (\A i \in 1 .. Len(p) : p[i] = q[i + 1]) /\ Head(q) = q[1]
    BY <1>1, <1>2, EmptySeq, HeadTailProperties
<1>4. ASSUME NEW i \in 1 .. Len(q)
      PROVE  ~Dooms(q[i])
  <2>1. CASE i = 1
      BY <1>3, <2>1
  <2>2. CASE i # 1
    <3>1. i - 1 \in 1 .. Len(p) /\ p[i - 1] = q[i]
        BY <1>2, <1>3, <2>2
    <3> QED
        BY <1>1, <3>1 DEF Doomed
  <2> QED
      BY <2>1, <2>2
<1> QED
    BY <1>4 DEF Doomed

-----------------------------------------------------------------------------
Ports == 1 .. Len(conn)

LEMMA PortFacts ==
    ASSUME ClientTyped
    PROVE  /\ Sockets = Ports /\ Len(conn) \in Nat
           /\ \A s \in Ports : /\ conn[s] \in ConnSet
                               /\ inbox[s] \in Seq(MessageSet)
                               /\ joined[s] \in SUBSET (Rooms \cup {NoRoom})
BY LenProperties DEF ClientTyped, Sockets, Ports

LEMMA SetConn ==
    ASSUME ClientTyped, NEW s \in Ports, NEW k \in ConnSet, conn' = [conn EXCEPT ![s] = k]
    PROVE  /\ conn' \in Seq(ConnSet) /\ Len(conn') = Len(conn) /\ conn'[s] = k
           /\ \A i \in Ports : i # s => conn'[i] = conn[i]
BY DEF ClientTyped, Ports

LEMMA SetInbox ==
    ASSUME ClientTyped, NEW s \in Ports, NEW q \in Seq(MessageSet), inbox' = [inbox EXCEPT ![s] = q]
    PROVE  /\ inbox' \in Seq(Seq(MessageSet)) /\ Len(inbox') = Len(conn) /\ inbox'[s] = q
           /\ \A i \in Ports : i # s => inbox'[i] = inbox[i]
BY DEF ClientTyped, Ports

LEMMA SetJoined ==
    ASSUME ClientTyped, NEW s \in Ports, NEW rs \in SUBSET (Rooms \cup {NoRoom}),
           joined' = [joined EXCEPT ![s] = rs]
    PROVE  /\ joined' \in Seq(SUBSET (Rooms \cup {NoRoom})) /\ Len(joined') = Len(conn)
           /\ joined'[s] = rs
           /\ \A i \in Ports : i # s => joined'[i] = joined[i]
BY DEF ClientTyped, Ports

LEMMA ConnGoes ==
    ASSUME NEW k \in ConnSet, NEW state \in States, NEW who \in Users \cup {NoOne}
    PROVE  \E m \in ConnSet : /\ m = [k EXCEPT !.state = state, !.who = who]
                              /\ m.state = state /\ (m.retry <=> k.retry)
<1>1. PICK m : m = [k EXCEPT !.state = state, !.who = who]
    OBVIOUS
<1>2. m \in ConnSet
    BY <1>1 DEF ConnSet
<1>3. m.state = state
    BY <1>1 DEF ConnSet
<1>4. m.retry <=> k.retry
    BY <1>1 DEF ConnSet
<1> QED
    BY <1>1, <1>2, <1>3, <1>4, Zenon

LEMMA ConnState ==
    ASSUME NEW k \in ConnSet, NEW state \in States
    PROVE  \E m \in ConnSet : /\ m = [k EXCEPT !.state = state]
                              /\ m.state = state /\ (m.retry <=> k.retry)
<1>1. PICK m : m = [k EXCEPT !.state = state]
    OBVIOUS
<1>2. m \in ConnSet
    BY <1>1 DEF ConnSet
<1>3. m.state = state
    BY <1>1 DEF ConnSet
<1>4. m.retry <=> k.retry
    BY <1>1 DEF ConnSet
<1> QED
    BY <1>1, <1>2, <1>3, <1>4, Zenon

LEMMA CutFacts ==
    ASSUME ClientTyped, NEW s \in Ports, NEW state \in States, Cut(s, state)
    PROVE  /\ conn' \in Seq(ConnSet) /\ Len(conn') = Len(conn)
           /\ conn'[s].state = state /\ (conn'[s].retry <=> conn[s].retry)
           /\ \A i \in Ports : i # s => conn'[i] = conn[i]
           /\ inbox' \in Seq(Seq(MessageSet)) /\ Len(inbox') = Len(conn) /\ inbox'[s] = <<>>
           /\ \A i \in Ports : i # s => inbox'[i] = inbox[i]
           /\ joined' \in Seq(SUBSET (Rooms \cup {NoRoom})) /\ Len(joined') = Len(conn)
           /\ joined'[s] = {}
           /\ \A i \in Ports : i # s => joined'[i] = joined[i]
           /\ asks' = {a \in asks : a.on # s \/ a.at = "buffered"}
<1>1. conn[s] \in ConnSet
    BY PortFacts
<1>2. PICK k \in ConnSet : /\ k = [conn[s] EXCEPT !.state = state]
                           /\ k.state = state /\ (k.retry <=> conn[s].retry)
    BY <1>1, ConnState
<1>3. conn' = [conn EXCEPT ![s] = k]
    BY <1>2, Zenon DEF Cut
<1>4. /\ conn' \in Seq(ConnSet) /\ Len(conn') = Len(conn) /\ conn'[s] = k
      /\ \A i \in Ports : i # s => conn'[i] = conn[i]
    BY <1>3, SetConn
<1>5. conn'[s].state = state /\ (conn'[s].retry <=> conn[s].retry)
    BY <1>2, <1>4, Zenon
<1>6. <<>> \in Seq(MessageSet) /\ {} \in SUBSET (Rooms \cup {NoRoom})
    BY EmptySeq
<1>7. /\ inbox' \in Seq(Seq(MessageSet)) /\ Len(inbox') = Len(conn) /\ inbox'[s] = <<>>
      /\ \A i \in Ports : i # s => inbox'[i] = inbox[i]
    BY <1>6, SetInbox DEF Cut
<1>8. /\ joined' \in Seq(SUBSET (Rooms \cup {NoRoom})) /\ Len(joined') = Len(conn)
      /\ joined'[s] = {}
      /\ \A i \in Ports : i # s => joined'[i] = joined[i]
    BY <1>6, SetJoined DEF Cut
<1>9. asks' = {a \in asks : a.on # s \/ a.at = "buffered"}
    BY DEF Cut
<1> QED
    BY <1>4, <1>5, <1>7, <1>8, <1>9

\* The end of a connection, whoever's it is.
LEMMA CutStep ==
    ASSUME ClientInv, NEW s \in Ports, NEW state \in States \ {"up"}, Cut(s, state),
           UNCHANGED <<page, room, socket>>, stray' \in BOOLEAN, stray => stray'
    PROVE  ClientInv'
<1>1. ClientTyped /\ state \in States
    BY DEF ClientInv
<1>2. /\ conn' \in Seq(ConnSet) /\ Len(conn') = Len(conn)
      /\ conn'[s].state = state /\ (conn'[s].retry <=> conn[s].retry)
      /\ \A i \in Ports : i # s => conn'[i] = conn[i]
      /\ inbox' \in Seq(Seq(MessageSet)) /\ Len(inbox') = Len(conn) /\ inbox'[s] = <<>>
      /\ \A i \in Ports : i # s => inbox'[i] = inbox[i]
      /\ joined' \in Seq(SUBSET (Rooms \cup {NoRoom})) /\ Len(joined') = Len(conn)
      /\ joined'[s] = {}
      /\ \A i \in Ports : i # s => joined'[i] = joined[i]
      /\ asks' = {a \in asks : a.on # s \/ a.at = "buffered"}
    BY <1>1, CutFacts
<1>3. ClientTyped'
    BY <1>1, <1>2 DEF ClientTyped
<1>4. OneRetried'
    BY <1>2 DEF ClientInv, OneRetried, Ports
<1>5. DownIsEmpty'
  <2>1. ASSUME NEW i \in Ports, conn'[i].state # "up"
        PROVE  /\ inbox'[i] = <<>> /\ joined'[i] = {}
               /\ \A a \in asks' : a.on = i => a.at = "buffered"
    <3>1. CASE i = s
        BY <1>2, <3>1
    <3>2. CASE i # s
      <4>1. conn[i].state # "up" /\ inbox'[i] = inbox[i] /\ joined'[i] = joined[i]
          BY <1>2, <2>1, <3>2
      <4> QED
          BY <1>2, <4>1 DEF ClientInv, DownIsEmpty, Ports
    <3> QED
        BY <3>1, <3>2
  <2> QED
      BY <1>2, <2>1 DEF DownIsEmpty, Ports
<1>6. OwnAsks'
    BY <1>2 DEF ClientInv, OwnAsks
<1>7. Lands'
  <2> SUFFICES ASSUME ~stray', socket' # 0, conn'[socket'].state = "up", ~Doomed(inbox'[socket'])
               PROVE  /\ LandsIn(inbox'[socket'], room', MayShow(socket)')
                      /\ \A a \in asks' : a.on = socket' /\ a.at = "inside" => a.room \in joined'[socket']
      BY Zenon DEF Lands
  <2>5. ~stray /\ socket # 0
      BY Zenon
  <2>1. socket \in Ports /\ socket # s
    <3>1. socket \in Ports
        BY <1>1, <2>5 DEF ClientTyped, Ports
    <3> QED
        BY <1>2, <3>1
  <2>2. conn'[socket] = conn[socket] /\ inbox'[socket] = inbox[socket] /\ joined'[socket] = joined[socket]
      BY <1>2, <2>1
  <2>3. /\ LandsIn(inbox[socket], room, MayShow(socket))
        /\ \A a \in asks : a.on = socket /\ a.at = "inside" => a.room \in joined[socket]
      BY <2>1, <2>2, <2>5, Zenon DEF ClientInv, Lands
  <2>4. MayShow(socket)' = MayShow(socket)
    <3>1. Rejoining(socket)' = Rejoining(socket)
        BY <1>2, <2>1 DEF Rejoining
    <3> QED
        BY <2>2, <3>1 DEF MayShow
  <2> QED
      BY <1>2, <2>2, <2>3, <2>4
<1> QED
    BY <1>3, <1>4, <1>5, <1>6, <1>7 DEF ClientInv

\* Steps of the page that ask for nothing.
LEMMA PageStep ==
    ASSUME ClientInv, UNCHANGED <<wire, room, stray>>, page' \in Rooms \cup {NoRoom}
    PROVE  ClientInv'
BY DEF wire, ClientInv, ClientTyped, OneRetried, DownIsEmpty, OwnAsks, Lands, MayShow, Rejoining

\* What leads the store to the room stays as it is: the messages for its socket,
\* the rooms this is in, and the requests to be let in again.
LEMMA LandsSame ==
    ASSUME Lands, NEW t, t = socket, socket' = t, room' = room, ~stray' => ~stray,
           t # 0 /\ conn'[t].state = "up" =>
               /\ conn[t].state = "up" /\ inbox'[t] = inbox[t] /\ joined'[t] = joined[t]
               /\ \A a \in asks : a.on = t /\ a.at = "sent" => a \in asks'
               /\ \A a \in asks' : a.on = t /\ a.at = "inside" => a \in asks
    PROVE  Lands'
<1> SUFFICES ASSUME ~stray', t # 0, conn'[t].state = "up", ~Doomed(inbox'[t])
             PROVE  /\ LandsIn(inbox'[t], room', MayShow(t)')
                    /\ \A a \in asks' : a.on = t /\ a.at = "inside" => a.room \in joined'[t]
    BY Zenon DEF Lands
<1>1. /\ conn[t].state = "up" /\ inbox'[t] = inbox[t] /\ joined'[t] = joined[t]
      /\ \A a \in asks : a.on = t /\ a.at = "sent" => a \in asks'
      /\ \A a \in asks' : a.on = t /\ a.at = "inside" => a \in asks
    OBVIOUS
<1>2. /\ LandsIn(inbox[t], room, MayShow(t))
      /\ \A a \in asks : a.on = t /\ a.at = "inside" => a.room \in joined[t]
    BY <1>1, Zenon DEF Lands
<1>3. \A x \in MayShow(t) : x \in MayShow(t)'
    BY <1>1 DEF MayShow, Rejoining
<1>4. LandsIn(inbox[t], room, MayShow(t)')
    BY <1>2, <1>3, LandsMore
<1> QED
    BY <1>1, <1>2, <1>4, Zenon

\* A request of the page, on the socket it has or on its first one.
LEMMA AskStep ==
    ASSUME ClientInv, EnsureSocket, NEW op \in {"join", "leave"}, NEW r \in Rooms \cup {NoRoom},
           asks' = Ask(socket', op, r, asks), UNCHANGED <<page, room, stray>>
    PROVE  ClientInv'
<1>1. ClientTyped /\ Len(conn) \in Nat /\ asks \subseteq RequestSet
    BY PortFacts DEF ClientInv, ClientTyped
<1>2. PICK x : x = [on |-> socket', op |-> op, room |-> r,
                    at |-> IF conn'[socket'].state = "up" THEN "sent" ELSE "buffered"]
    OBVIOUS
<1>3. /\ x.on = socket' /\ x.op = op /\ x.room = r /\ x.at \in {"sent", "buffered"}
      /\ conn'[socket'].state # "up" => x.at = "buffered"
    BY <1>2
<1>4. asks' = asks \cup {x}
    BY <1>2, Zenon DEF Ask
<1>5. socket' \in Nat => x \in RequestSet
    BY <1>2 DEF RequestSet
<1>6. CASE socket # 0
  <2>1. UNCHANGED <<socket, conn, inbox, joined>>
      BY <1>6 DEF EnsureSocket
  <2>2. socket \in 1 .. Len(conn) /\ x \in RequestSet
      BY <1>1, <1>5, <1>6, <2>1 DEF ClientTyped
  <2>3. ClientTyped'
      BY <1>1, <1>3, <1>4, <2>1, <2>2 DEF ClientTyped
  <2>4. OneRetried' /\ DownIsEmpty'
      BY <1>3, <1>4, <2>1 DEF ClientInv, OneRetried, DownIsEmpty
  <2>5. OwnAsks'
      BY <1>3, <1>4, <2>1 DEF ClientInv, OwnAsks
  <2>6. Lands'
    <3>1. PICK t : t = socket
        OBVIOUS
    <3>2. t # 0 /\ conn'[t].state = "up" =>
               /\ conn[t].state = "up" /\ inbox'[t] = inbox[t] /\ joined'[t] = joined[t]
               /\ \A a \in asks : a.on = t /\ a.at = "sent" => a \in asks'
               /\ \A a \in asks' : a.on = t /\ a.at = "inside" => a \in asks
        BY <1>3, <1>4, <2>1
    <3>3. Lands /\ socket' = t /\ room' = room /\ (~stray' => ~stray)
        BY <2>1, <3>1 DEF ClientInv
    <3> QED
        BY <3>1, <3>2, <3>3, LandsSame
  <2> QED
      BY <2>3, <2>4, <2>5, <2>6 DEF ClientInv
<1>7. CASE socket = 0
  <2>1. PICK n \in Nat : n = Len(conn)
      BY <1>1
  <2>2. PICK k : k = [state |-> "opening", who |-> NoOne, retry |-> TRUE]
      OBVIOUS
  <2>3. k \in ConnSet /\ k.state = "opening"
      BY <2>2 DEF ConnSet, States
  <2>4. /\ socket' = n + 1 /\ conn' = Append(conn, k)
        /\ inbox' = Append(inbox, << >>) /\ joined' = Append(joined, {})
      BY <1>7, <2>1, <2>2, Zenon DEF EnsureSocket
  <2>5. /\ conn' \in Seq(ConnSet) /\ Len(conn') = n + 1 /\ conn'[n + 1] = k
        /\ \A i \in 1 .. n : conn'[i] = conn[i]
      BY <1>1, <2>1, <2>3, <2>4, AppendProperties DEF ClientTyped
  <2>6. /\ inbox' \in Seq(Seq(MessageSet)) /\ Len(inbox') = n + 1 /\ inbox'[n + 1] = <<>>
        /\ \A i \in 1 .. n : inbox'[i] = inbox[i]
    <3>1. <<>> \in Seq(MessageSet) /\ inbox \in Seq(Seq(MessageSet)) /\ Len(inbox) = n
        BY <1>1, <2>1, EmptySeq DEF ClientTyped
    <3> QED
        BY <2>4, <3>1, AppendProperties
  <2>7. /\ joined' \in Seq(SUBSET (Rooms \cup {NoRoom})) /\ Len(joined') = n + 1 /\ joined'[n + 1] = {}
        /\ \A i \in 1 .. n : joined'[i] = joined[i]
    <3>1. /\ {} \in SUBSET (Rooms \cup {NoRoom}) /\ joined \in Seq(SUBSET (Rooms \cup {NoRoom}))
          /\ Len(joined) = n
        BY <1>1, <2>1 DEF ClientTyped
    <3> QED
        BY <2>4, <3>1, AppendProperties
  <2>8. ClientTyped'
    <3>1. asks' \subseteq RequestSet /\ \A a \in asks' : a.on \in 1 .. n + 1
        BY <1>1, <1>3, <1>4, <1>5, <2>1, <2>4 DEF ClientTyped
    <3>2. socket' \in 0 .. n + 1
        BY <2>4
    <3> QED
        BY <1>1, <2>5, <2>6, <2>7, <3>1, <3>2 DEF ClientTyped
  <2>9. OneRetried'
      BY <1>7, <2>1, <2>4, <2>5 DEF ClientInv, OneRetried
  <2>10. DownIsEmpty'
    <3>1. ASSUME NEW i \in 1 .. n + 1, conn'[i].state # "up"
          PROVE  /\ inbox'[i] = <<>> /\ joined'[i] = {}
                 /\ \A a \in asks' : a.on = i => a.at = "buffered"
      <4>1. CASE i = n + 1
        <5>1. \A a \in asks : a.on # n + 1
            BY <1>1, <2>1 DEF ClientTyped
        <5>2. x.at = "buffered"
            BY <1>3, <2>3, <2>4, <2>5
        <5> QED
            BY <1>4, <2>6, <2>7, <4>1, <5>1, <5>2
      <4>2. CASE i # n + 1
        <5>1. i \in 1 .. n /\ x.on # i
            BY <1>3, <2>4, <4>2
        <5>2. conn[i].state # "up" /\ inbox'[i] = inbox[i] /\ joined'[i] = joined[i]
            BY <2>5, <2>6, <2>7, <3>1, <5>1
        <5> QED
            BY <1>4, <2>1, <5>1, <5>2 DEF ClientInv, DownIsEmpty
      <4> QED
          BY <4>1, <4>2
    <3> QED
        BY <2>5, <3>1 DEF DownIsEmpty
  <2>11. OwnAsks'
    <3>1. \A a \in asks : a.op = "rejoin"
        BY <1>1, <1>7 DEF ClientInv, ClientTyped, OwnAsks
    <3> QED
        BY <1>3, <1>4, <3>1 DEF ClientInv, OwnAsks
  <2>12. Lands'
      BY <2>3, <2>4, <2>5 DEF Lands
  <2> QED
      BY <2>8, <2>9, <2>10, <2>11, <2>12 DEF ClientInv
<1> QED
    BY <1>6, <1>7

LEMMA RequestGoes ==
    ASSUME NEW a \in RequestSet, NEW at \in {"buffered", "sent", "inside", "answered"}
    PROVE  \E b \in RequestSet : /\ b = [a EXCEPT !.at = at] /\ b.at = at
                                 /\ b.on = a.on /\ b.op = a.op /\ b.room = a.room
                                 /\ at = a.at => b = a
<1>1. PICK b : b = [a EXCEPT !.at = at]
    OBVIOUS
<1>2. b \in RequestSet /\ b.at = at /\ b.on = a.on /\ b.op = a.op /\ b.room = a.room
    BY <1>1 DEF RequestSet
<1>3. at = a.at => b = a
    BY <1>1 DEF RequestSet
<1> QED
    BY <1>1, <1>2, <1>3, Zenon

\* The handshake is accepted: the store asks for the room it shows.
LEMMA ConnectStep ==
    ASSUME SessionInv, ClientInv, NEW s \in Ports, Connect(s)
    PROVE  ClientInv'
<1>1. ClientTyped /\ token \in Users \cup {NoOne} /\ "up" \in States
    BY DEF ClientInv, SessionInv, SessionTyped, States
<1>2. /\ conn[s].state = "opening"
      /\ conn' = [conn EXCEPT ![s].state = "up", ![s].who = token]
      /\ UNCHANGED <<page, room, socket, inbox, joined, stray>>
    BY DEF Connect, view
<1>3. conn[s] \in ConnSet
    BY <1>1, PortFacts
<1>4. PICK k \in ConnSet : /\ k = [conn[s] EXCEPT !.state = "up", !.who = token]
                           /\ k.state = "up" /\ (k.retry <=> conn[s].retry)
  <2>1. PICK w \in Users \cup {NoOne} : w = token
      BY <1>1
  <2>2. PICK c \in ConnSet : c = conn[s]
      BY <1>3
  <2>3. \E m \in ConnSet : /\ m = [c EXCEPT !.state = "up", !.who = w]
                            /\ m.state = "up" /\ (m.retry <=> c.retry)
      BY <1>1, ConnGoes
  <2> QED
      BY <2>1, <2>2, <2>3, Zenon
<1>5. conn' = [conn EXCEPT ![s] = k]
    BY <1>2, <1>4, Zenon
<1>6. /\ conn' \in Seq(ConnSet) /\ Len(conn') = Len(conn) /\ conn'[s] = k
      /\ \A i \in Ports : i # s => conn'[i] = conn[i]
    BY <1>1, <1>5, SetConn
<1>7. conn'[s].state = "up" /\ (conn'[s].retry <=> conn[s].retry)
    BY <1>4, <1>6, Zenon
<1>8. PICK sent : sent = {[a EXCEPT !.at = IF a.on = s THEN "sent" ELSE @] : a \in asks}
    OBVIOUS
<1>9. ASSUME NEW a \in asks
      PROVE  \E b \in sent : /\ b \in RequestSet /\ b.on = a.on /\ b.op = a.op /\ b.room = a.room
                             /\ b.at = (IF a.on = s THEN "sent" ELSE a.at)
                             /\ a.on # s => b = a
                             /\ b = [a EXCEPT !.at = IF a.on = s THEN "sent" ELSE @]
    BY <1>1, <1>8 DEF ClientTyped, RequestSet
<1>10. ASSUME NEW b \in sent
       PROVE  \E a \in asks : /\ b \in RequestSet /\ b.on = a.on /\ b.op = a.op /\ b.room = a.room
                              /\ b.at = (IF a.on = s THEN "sent" ELSE a.at)
                              /\ a.on # s => b = a
  <2>1. PICK a \in asks : b = [a EXCEPT !.at = IF a.on = s THEN "sent" ELSE @]
      BY <1>8
  <2> QED
      BY <1>9, <2>1
<1>11. asks' = IF room = NoRoom THEN sent ELSE Ask(s, "rejoin", room, sent)
    BY <1>8, Zenon DEF Connect
<1>12. PICK x : x = [on |-> s, op |-> "rejoin", room |-> room, at |-> "sent"]
    OBVIOUS
<1>13. /\ x \in RequestSet /\ x.on = s /\ x.op = "rejoin" /\ x.room = room /\ x.at = "sent"
    BY <1>1, <1>12 DEF ClientTyped, RequestSet, Ports
<1>14. asks' = IF room = NoRoom THEN sent ELSE sent \cup {x}
    BY <1>7, <1>11, <1>12 DEF Ask
<1>15. ClientTyped'
  <2>1. asks' \subseteq RequestSet /\ \A a \in asks' : a.on \in 1 .. Len(conn')
      BY <1>1, <1>6, <1>10, <1>13, <1>14 DEF ClientTyped, Ports
  <2> QED
      BY <1>1, <1>2, <1>6, <2>1 DEF ClientTyped
<1>16. OneRetried'
    BY <1>2, <1>6, <1>7 DEF ClientInv, OneRetried, Ports
<1>17. DownIsEmpty'
  <2>1. ASSUME NEW i \in Ports, conn'[i].state # "up"
        PROVE  /\ inbox'[i] = <<>> /\ joined'[i] = {}
               /\ \A a \in asks' : a.on = i => a.at = "buffered"
    <3>1. i # s /\ conn[i].state # "up"
        BY <1>6, <1>7, <2>1
    <3> QED
        BY <1>2, <1>10, <1>13, <1>14, <3>1 DEF ClientInv, DownIsEmpty, Ports
  <2> QED
      BY <1>6, <2>1 DEF DownIsEmpty, Ports
<1>18. OwnAsks'
    BY <1>2, <1>10, <1>13, <1>14 DEF ClientInv, OwnAsks
<1>19. Lands'
  <2>1. PICK t : t = socket
      OBVIOUS
  <2>2. CASE t # s
    <3>1. t # 0 /\ conn'[t].state = "up" =>
               /\ conn[t].state = "up" /\ inbox'[t] = inbox[t] /\ joined'[t] = joined[t]
               /\ \A a \in asks : a.on = t /\ a.at = "sent" => a \in asks'
               /\ \A a \in asks' : a.on = t /\ a.at = "inside" => a \in asks
      <4>1. t # 0 => t \in Ports
          BY <1>1, <2>1 DEF ClientTyped, Ports
      <4>2. \A a \in asks : a.on = t => a \in asks'
          BY <1>9, <1>14, <2>2
      <4>3. \A a \in asks' : a.on = t => a \in asks
          BY <1>10, <1>13, <1>14, <2>2
      <4> QED
          BY <1>2, <1>6, <2>2, <4>1, <4>2, <4>3
    <3>2. Lands /\ socket' = t /\ room' = room /\ (~stray' => ~stray)
        BY <1>2, <2>1 DEF ClientInv
    <3> QED
        BY <2>1, <3>1, <3>2, LandsSame
  <2>3. CASE t = s
    <3>1. inbox'[t] = <<>> /\ socket' = t /\ room' = room
        BY <1>2, <2>1, <2>3 DEF ClientInv, DownIsEmpty, Ports
    <3>2. \A a \in asks' : a.on = t => a.at = "sent"
        BY <1>10, <1>13, <1>14, <2>3
    <3>3. room \in MayShow(t)'
      <4>1. CASE room = NoRoom
          BY <4>1 DEF MayShow
      <4>2. CASE room # NoRoom
        <5>1. x \in asks'
            BY <1>14, <4>2
        <5>2. x \in Rejoining(t)'
            BY <1>13, <2>3, <5>1 DEF Rejoining
        <5> QED
            BY <1>13, <5>2 DEF MayShow
      <4> QED
          BY <4>1, <4>2
    <3>4. LandsIn(<<>>, room, MayShow(t)')
        BY <3>3, LandsEmpty
    <3>5. LandsIn(inbox'[t], room', MayShow(t)')
        BY <3>1, <3>4
    <3>6. \A a \in asks' : ~(a.on = t /\ a.at = "inside")
        BY <3>2
    <3> QED
        BY <3>1, <3>5, <3>6, Zenon DEF Lands
  <2> QED
      BY <2>2, <2>3
<1> QED
    BY <1>15, <1>16, <1>17, <1>18, <1>19 DEF ClientInv

-----------------------------------------------------------------------------
\* What the server does on a connection: it may add to what is on its way there.
ServerKeeps(s) ==
    /\ UNCHANGED <<page, room, socket, conn>>
    /\ conn[s].state = "up"
    /\ stray' \in BOOLEAN /\ (~stray' => ~stray)
    /\ inbox' \in Seq(Seq(MessageSet)) /\ Len(inbox') = Len(conn)
    /\ joined' \in Seq(SUBSET (Rooms \cup {NoRoom})) /\ Len(joined') = Len(conn)
    /\ \A i \in Ports : /\ i # s => inbox'[i] = inbox[i]
                        /\ joined[i] = {} => i = s \/ joined'[i] = {}

\* The answer to a request, or the step towards it.
LEMMA AnsweredFacts ==
    ASSUME ClientInv, NEW a \in asks, NEW at \in {"inside", "answered"}, a.at # "buffered",
           asks' = (asks \ {a}) \cup {[a EXCEPT !.at = at]}
    PROVE  \E b \in RequestSet :
              /\ asks' = (asks \ {a}) \cup {b} /\ b.at = at
              /\ b.on = a.on /\ b.op = a.op /\ b.room = a.room
              /\ a.on \in Ports /\ conn[a.on].state = "up"
<1>1. a \in RequestSet /\ a.on \in Ports
    BY DEF ClientInv, ClientTyped, Ports
<1>2. conn[a.on].state = "up"
    BY <1>1 DEF ClientInv, DownIsEmpty, Ports
<1>3. PICK b \in RequestSet : /\ b = [a EXCEPT !.at = at] /\ b.at = at
                               /\ b.on = a.on /\ b.op = a.op /\ b.room = a.room
  <2>1. at \in {"buffered", "sent", "inside", "answered"}
      OBVIOUS
  <2>2. \E b \in RequestSet : /\ b = [a EXCEPT !.at = at] /\ b.at = at
                              /\ b.on = a.on /\ b.op = a.op /\ b.room = a.room
                              /\ at = a.at => b = a
      BY <1>1, <2>1, RequestGoes, Zenon
  <2> QED
      BY <2>2, Zenon
<1>4. asks' = (asks \ {a}) \cup {b}
    BY <1>3, Zenon
<1> QED
    BY <1>1, <1>2, <1>3, <1>4, Zenon

LEMMA ServerStep ==
    ASSUME ClientInv, NEW s \in Ports, ServerKeeps(s),
           asks' \subseteq RequestSet, \A a \in asks' : a.on \in Ports,
           \A b \in asks' : b \in asks \/
               (b.on = s /\ (b.op # "rejoin" => b.on = socket) /\ (b.at = "inside" => b.op # "leave")),
           Lands'
    PROVE  ClientInv'
<1>1. ClientTyped'
    BY DEF ServerKeeps, ClientInv, ClientTyped, Ports
<1>2. OneRetried' /\ OwnAsks'
    BY DEF ServerKeeps, ClientInv, OneRetried, OwnAsks
<1>3. DownIsEmpty'
  <2>1. ASSUME NEW i \in Ports, conn[i].state # "up"
        PROVE  /\ inbox'[i] = <<>> /\ joined'[i] = {}
               /\ \A a \in asks' : a.on = i => a.at = "buffered"
    <3>1. i # s
        BY <2>1 DEF ServerKeeps
    <3>2. /\ inbox[i] = <<>> /\ joined[i] = {}
          /\ \A a \in asks : a.on = i => a.at = "buffered"
        BY <2>1 DEF ClientInv, DownIsEmpty, Ports
    <3> QED
        BY <3>1, <3>2 DEF ServerKeeps
  <2> QED
      BY <2>1 DEF DownIsEmpty, ServerKeeps, Ports
<1> QED
    BY <1>1, <1>2, <1>3 DEF ClientInv

\* A message put on its way to s.
LEMMA Sends ==
    ASSUME ClientInv, NEW s \in Ports, NEW m \in MessageSet,
           inbox' = [inbox EXCEPT ![s] = Append(@, m)]
    PROVE  /\ inbox' \in Seq(Seq(MessageSet)) /\ Len(inbox') = Len(conn)
           /\ inbox'[s] = Append(inbox[s], m)
           /\ \A i \in Ports : i # s => inbox'[i] = inbox[i]
<1>1. ClientTyped /\ inbox[s] \in Seq(MessageSet)
    BY PortFacts DEF ClientInv
<1>2. PICK q : q = Append(inbox[s], m)
    OBVIOUS
<1>3. q \in Seq(MessageSet)
    BY <1>1, <1>2, AppendProperties
<1>4. inbox' = [inbox EXCEPT ![s] = q]
    BY <1>2, Zenon
<1> QED
    BY <1>1, <1>2, <1>3, <1>4, SetInbox

LEMMA EnterStep ==
    ASSUME ClientInv, NEW a \in asks, Enter(a)
    PROVE  ClientInv'
<1>1. /\ a.op \in {"join", "rejoin"} /\ a.at = "sent"
      /\ joined' = [joined EXCEPT ![a.on] = joined[a.on] \cup {a.room}]
      /\ UNCHANGED <<page, room, socket, conn, inbox, stray>>
    BY DEF Enter, view
<1>2. PICK b \in RequestSet :
              /\ asks' = (asks \ {a}) \cup {b} /\ b.at = "inside"
              /\ b.on = a.on /\ b.op = a.op /\ b.room = a.room
              /\ a.on \in Ports /\ conn[a.on].state = "up"
    BY <1>1, AnsweredFacts DEF Enter
<1>3. PICK s \in Ports : s = a.on
    BY <1>2
<1>4. ClientTyped /\ joined[s] \cup {a.room} \in SUBSET (Rooms \cup {NoRoom})
    BY PortFacts DEF ClientInv, ClientTyped, RequestSet
<1>5. /\ joined' \in Seq(SUBSET (Rooms \cup {NoRoom})) /\ Len(joined') = Len(conn)
      /\ joined'[s] = joined[s] \cup {a.room}
      /\ \A i \in Ports : i # s => joined'[i] = joined[i]
  <2>1. joined' = [joined EXCEPT ![s] = joined[s] \cup {a.room}]
      BY <1>1, <1>3, Zenon
  <2> QED
      BY <1>4, <2>1, SetJoined
<1>6. ServerKeeps(s)
    BY <1>1, <1>2, <1>3, <1>4, <1>5 DEF ServerKeeps, ClientTyped
<1>7. Lands'
  <2> SUFFICES ASSUME NEW t, t = socket, ~stray, t # 0, conn[t].state = "up", ~Doomed(inbox[t])
               PROVE  /\ LandsIn(inbox[t], room, MayShow(t)')
                      /\ \A c \in asks' : c.on = t /\ c.at = "inside" => c.room \in joined'[t]
      BY <1>1 DEF Lands
  <2>1. /\ LandsIn(inbox[t], room, MayShow(t))
        /\ \A c \in asks : c.on = t /\ c.at = "inside" => c.room \in joined[t]
      BY Zenon DEF ClientInv, Lands
  <2>2. t \in Ports
      BY <1>4 DEF ClientTyped, Ports
  <2>3. \A x \in joined[t] : x \in joined'[t]
      BY <1>5, <2>2
  <2>4. \A x \in MayShow(t) : x \in MayShow(t)'
    <3>1. ASSUME NEW c \in Rejoining(t)
          PROVE  c.room \in joined'[t] \/ c \in Rejoining(t)'
        BY <1>2, <1>3, <1>5 DEF Rejoining
    <3> QED
        BY <2>3, <3>1 DEF MayShow
  <2>5. LandsIn(inbox[t], room, MayShow(t)')
      BY <2>1, <2>4, LandsMore
  <2>6. ASSUME NEW c \in asks', c.on = t, c.at = "inside"
        PROVE  c.room \in joined'[t]
      BY <1>2, <1>3, <1>5, <2>1, <2>3, <2>6
  <2> QED
      BY <2>5, <2>6
<1>8. a.op # "rejoin" => a.on = socket
    BY DEF ClientInv, OwnAsks
<1> QED
    BY <1>1, <1>2, <1>3, <1>4, <1>6, <1>7, <1>8, ServerStep DEF ClientTyped, Ports

\* The store is not misled yet.
Safe(s) == ~stray /\ s = socket /\ conn[s].state = "up" /\ ~Doomed(inbox[s])

LEMMA SafeFacts ==
    ASSUME ClientInv, NEW s \in Ports, Safe(s)
    PROVE  /\ LandsIn(inbox[s], room, MayShow(s))
           /\ \A c \in asks : c.on = s /\ c.at = "inside" => c.room \in joined[s]
<1>1. s # 0
    BY DEF Ports
<1> QED
    BY <1>1, Zenon DEF ClientInv, Lands, Safe

\* A message to s, of one of three kinds: it dooms, it leads where s may be, or
\* it leaves the room alone and so does all else.
LEMMA MessageLands ==
    ASSUME ClientInv, NEW s \in Ports, NEW m \in MessageSet,
           UNCHANGED <<room, socket, conn>>, ~stray' => ~stray,
           inbox'[s] = Append(inbox[s], m), \A i \in Ports : i # s => inbox'[i] = inbox[i],
           s # socket /\ socket # 0 => joined'[socket] = joined[socket],
           \A c \in asks : c.on # s => c \in asks',
           \A c \in asks' : c.at = "inside" => c \in asks,
           ~stray' /\ Safe(s) /\ ~Dooms(m) =>
               /\ SetsRoom(m) => RoomOf(m) \in MayShow(s)'
               /\ SetsRoom(m) \/ \A x \in MayShow(s) : x \in MayShow(s)'
               /\ \A c \in asks' : c.on = s /\ c.at = "inside" => c.room \in joined'[s]
    PROVE  Lands'
<1>1. ClientTyped /\ Lands
    BY DEF ClientInv
<1>2. CASE s # socket
  <2>1. PICK t : t = socket
      OBVIOUS
  <2>2. t # 0 => t \in Ports /\ t # s
      BY <1>1, <1>2, <2>1 DEF ClientTyped, Ports
  <2>3. t # 0 /\ conn'[t].state = "up" =>
               /\ conn[t].state = "up" /\ inbox'[t] = inbox[t] /\ joined'[t] = joined[t]
               /\ \A a \in asks : a.on = t /\ a.at = "sent" => a \in asks'
               /\ \A a \in asks' : a.on = t /\ a.at = "inside" => a \in asks
      BY <1>2, <2>1, <2>2
  <2> QED
      BY <1>1, <2>1, <2>3, LandsSame
<1>3. CASE s = socket
  <2> SUFFICES ASSUME ~stray', conn[s].state = "up", ~Doomed(inbox'[s])
               PROVE  /\ LandsIn(inbox'[s], room, MayShow(s)')
                      /\ \A c \in asks' : c.on = s /\ c.at = "inside" => c.room \in joined'[s]
      BY <1>3 DEF Lands
  <2>1. inbox[s] \in Seq(MessageSet)
      BY <1>1, PortFacts
  <2>2. ~Doomed(inbox[s]) /\ ~Dooms(m)
      BY <2>1, DoomedAppend
  <2>3. Safe(s)
      BY <1>3, <2>2, Zenon DEF Safe
  <2>4. LandsIn(inbox[s], room, MayShow(s))
      BY <2>3, SafeFacts
  <2>5. /\ SetsRoom(m) => RoomOf(m) \in MayShow(s)'
        /\ SetsRoom(m) \/ \A x \in MayShow(s) : x \in MayShow(s)'
        /\ \A c \in asks' : c.on = s /\ c.at = "inside" => c.room \in joined'[s]
      BY <2>2, <2>3, Zenon
  <2>6. SetsRoom(m) \/ LandsIn(inbox[s], room, MayShow(s)')
      BY <2>4, <2>5, LandsMore
  <2>7. LandsIn(inbox'[s], room, MayShow(s)')
      BY <2>1, <2>5, <2>6, LandsAppend
  <2> QED
      BY <2>5, <2>7
<1> QED
    BY <1>2, <1>3

LEMMA MessageFacts ==
    ASSUME ClientInv, NEW a \in asks, NEW ok \in BOOLEAN
    PROVE  /\ Message(a, ok) \in MessageSet /\ Message(a, ok).op = a.op
           /\ Message(a, ok).room = a.room /\ (Message(a, ok).ok <=> ok)
<1>1. a.op \in {"join", "rejoin", "leave"} /\ a.room \in Rooms \cup {NoRoom}
    BY DEF ClientInv, ClientTyped, RequestSet
<1>2. Message(a, ok) \in MessageSet
    BY <1>1 DEF Message, MessageSet
<1> QED
    BY <1>2, Zenon DEF Message

LEMMA AnswerRequestStep ==
    ASSUME ClientInv, NEW a \in asks, Answer(a)
    PROVE  ClientInv'
<1>1. /\ a.at = "inside" /\ UNCHANGED <<page, room, socket, conn, joined, stray>>
      /\ inbox' = [inbox EXCEPT ![a.on] = Append(@, Message(a, TRUE))]
    BY DEF Answer, view
<1>2. PICK b \in RequestSet :
              /\ asks' = (asks \ {a}) \cup {b} /\ b.at = "answered"
              /\ b.on = a.on /\ b.op = a.op /\ b.room = a.room
              /\ a.on \in Ports /\ conn[a.on].state = "up"
    BY <1>1, AnsweredFacts DEF Answer
<1>3. PICK s \in Ports : s = a.on
    BY <1>2
<1>4. PICK m \in MessageSet : m = Message(a, TRUE) /\ m.op = a.op /\ m.room = a.room /\ m.ok
    BY MessageFacts
<1>5. inbox' = [inbox EXCEPT ![s] = Append(@, m)]
    BY <1>1, <1>3, <1>4, Zenon
<1>6. /\ inbox' \in Seq(Seq(MessageSet)) /\ Len(inbox') = Len(conn)
      /\ inbox'[s] = Append(inbox[s], m)
      /\ \A i \in Ports : i # s => inbox'[i] = inbox[i]
    BY <1>5, Sends
<1>7. ServerKeeps(s) /\ a.op # "leave" /\ (a.op # "rejoin" => a.on = socket)
    BY <1>1, <1>2, <1>3, <1>6 DEF ServerKeeps, ClientInv, ClientTyped, OwnAsks
<1>8. ASSUME Safe(s)
      PROVE  /\ RoomOf(m) \in MayShow(s)'
             /\ \A c \in asks' : c.on = s /\ c.at = "inside" => c.room \in joined'[s]
  <2>1. \A c \in asks : c.on = s /\ c.at = "inside" => c.room \in joined[s]
      BY <1>8, SafeFacts
  <2>2. RoomOf(m) = a.room /\ a.room \in joined'[s]
      BY <1>1, <1>3, <1>4, <1>7, <2>1 DEF RoomOf
  <2>3. RoomOf(m) \in MayShow(s)'
      BY <2>2 DEF MayShow
  <2>4. \A c \in asks' : c.on = s /\ c.at = "inside" => c.room \in joined'[s]
      BY <1>1, <1>2, <2>1
  <2> QED
      BY <2>3, <2>4
<1>9. SetsRoom(m)
  <2>1. m.op \in {"join", "rejoin", "leave"}
      BY <1>4 DEF ClientInv, ClientTyped, RequestSet
  <2>2. m.ok
      BY <1>4, Zenon
  <2> QED
      BY <2>1, <2>2, Zenon DEF SetsRoom
<1>10. Lands'
  <2>1. /\ s # socket /\ socket # 0 => joined'[socket] = joined[socket]
        /\ \A c \in asks : c.on # s => c \in asks'
      BY <1>1, <1>2, <1>3
  <2>2. UNCHANGED <<room, socket, conn>> /\ (~stray' => ~stray)
      BY <1>1
  <2>3. \A c \in asks' : c.at = "inside" => c \in asks
      BY <1>2
  <2> QED
      BY <2>1, <2>2, <2>3, <1>6, <1>8, <1>9, MessageLands
<1> QED
    BY <1>1, <1>2, <1>3, <1>7, <1>10, ServerStep DEF ClientInv, ClientTyped, Ports

LEMMA DenyStep ==
    ASSUME ClientInv, NEW a \in asks, Deny(a)
    PROVE  ClientInv'
<1>1. /\ a.at = "sent" /\ UNCHANGED <<page, room, socket, conn, joined, stray>>
      /\ inbox' = [inbox EXCEPT ![a.on] = Append(@, Message(a, FALSE))]
    BY DEF Deny, view
<1>2. PICK b \in RequestSet :
              /\ asks' = (asks \ {a}) \cup {b} /\ b.at = "answered"
              /\ b.on = a.on /\ b.op = a.op /\ b.room = a.room
              /\ a.on \in Ports /\ conn[a.on].state = "up"
    BY <1>1, AnsweredFacts DEF Deny
<1>3. PICK s \in Ports : s = a.on
    BY <1>2
<1>4. PICK m \in MessageSet : m = Message(a, FALSE) /\ m.op = a.op /\ m.room = a.room /\ ~m.ok
    BY MessageFacts
<1>5. inbox' = [inbox EXCEPT ![s] = Append(@, m)]
    BY <1>1, <1>3, <1>4, Zenon
<1>6. /\ inbox' \in Seq(Seq(MessageSet)) /\ Len(inbox') = Len(conn)
      /\ inbox'[s] = Append(inbox[s], m)
      /\ \A i \in Ports : i # s => inbox'[i] = inbox[i]
    BY <1>5, Sends
<1>7. ServerKeeps(s) /\ (a.op # "rejoin" => a.on = socket)
    BY <1>1, <1>2, <1>3, <1>6 DEF ServerKeeps, ClientInv, ClientTyped, OwnAsks
<1>8. ASSUME Safe(s), ~Dooms(m)
      PROVE  /\ ~SetsRoom(m)
             /\ \A x \in MayShow(s) : x \in MayShow(s)'
             /\ \A c \in asks' : c.on = s /\ c.at = "inside" => c.room \in joined'[s]
  <2>1. \A c \in asks : c.on = s /\ c.at = "inside" => c.room \in joined[s]
      BY <1>8, SafeFacts
  <2>2. a.op # "rejoin" /\ a.op \in {"join", "leave", "rejoin"}
      BY <1>4, <1>8 DEF Dooms, ClientInv, ClientTyped, RequestSet
  <2>3. ~SetsRoom(m)
      BY <1>4, <2>2 DEF SetsRoom
  <2>4. \A x \in MayShow(s) : x \in MayShow(s)'
      BY <1>1, <1>2, <2>2 DEF MayShow, Rejoining
  <2> QED
      BY <1>1, <1>2, <2>1, <2>3, <2>4
<1>9. Lands'
    BY <1>1, <1>2, <1>3, <1>6, <1>8, MessageLands
<1> QED
    BY <1>1, <1>2, <1>3, <1>7, <1>9, ServerStep DEF ClientInv, ClientTyped, Ports

\* Whoever asks to leave is the page, and the room it asked to leave is gone
\* unless something of it was still under way.
LEMMA LetGoStep ==
    ASSUME ClientInv, NEW a \in asks, LetGo(a)
    PROVE  ClientInv'
<1>1. /\ a.op = "leave" /\ a.at = "sent" /\ UNCHANGED <<page, room, socket, conn>>
      /\ inbox' = [inbox EXCEPT ![a.on] = Append(@, Message(a, TRUE))]
      /\ joined' = [s \in Sockets |-> IF conn[s].who = conn[a.on].who
                                      THEN joined[s] \ {a.room} ELSE joined[s]]
      /\ stray' = (stray \/ \E b \in asks : b.op # "leave" /\ b.room = a.room /\ b.at # "buffered")
    BY DEF LetGo, view
<1>2. PICK b \in RequestSet :
              /\ asks' = (asks \ {a}) \cup {b} /\ b.at = "answered"
              /\ b.on = a.on /\ b.op = a.op /\ b.room = a.room
              /\ a.on \in Ports /\ conn[a.on].state = "up"
    BY <1>1, AnsweredFacts DEF LetGo
<1>3. PICK s \in Ports : s = a.on
    BY <1>2
<1>4. PICK m \in MessageSet : m = Message(a, TRUE) /\ m.op = a.op /\ m.room = a.room /\ m.ok
    BY MessageFacts
<1>5. inbox' = [inbox EXCEPT ![s] = Append(@, m)]
    BY <1>1, <1>3, <1>4, Zenon
<1>6. /\ inbox' \in Seq(Seq(MessageSet)) /\ Len(inbox') = Len(conn)
      /\ inbox'[s] = Append(inbox[s], m)
      /\ \A i \in Ports : i # s => inbox'[i] = inbox[i]
    BY <1>5, Sends
<1>7. ClientTyped /\ s = socket
    BY <1>1, <1>3 DEF ClientInv, OwnAsks
<1>8. /\ joined' \in Seq(SUBSET (Rooms \cup {NoRoom})) /\ Len(joined') = Len(conn)
      /\ joined'[s] = joined[s] \ {a.room}
      /\ \A i \in Ports : joined[i] = {} => joined'[i] = {}
  <2>1. Sockets = Ports /\ Len(conn) \in Nat /\ \A i \in Ports : joined[i] \in SUBSET (Rooms \cup {NoRoom})
      BY <1>7, PortFacts
  <2>2. \A i \in Ports : joined'[i] \in {joined[i], joined[i] \ {a.room}}
      BY <1>1, <2>1
  <2>3. joined' = [i \in 1 .. Len(conn) |-> joined'[i]]
      BY <1>1, <2>1, Zenon DEF Ports
  <2>4. joined'[s] = joined[s] \ {a.room}
      BY <1>1, <1>3, <2>1
  <2>5. \A i \in 1 .. Len(conn) : joined'[i] \in SUBSET (Rooms \cup {NoRoom})
      BY <2>1, <2>2 DEF Ports
  <2>6. joined' \in Seq(SUBSET (Rooms \cup {NoRoom})) /\ Len(joined') = Len(conn)
      BY <2>1, <2>3, <2>5
  <2> QED
      BY <2>2, <2>4, <2>6
<1>9. /\ stray' \in BOOLEAN
      /\ ~stray' => ~stray /\ \A c \in asks : c.op # "leave" /\ c.at # "buffered" => c.room # a.room
    BY <1>1, Zenon
<1>10. ServerKeeps(s)
    BY <1>1, <1>2, <1>3, <1>6, <1>8, <1>9 DEF ServerKeeps
<1>11. ASSUME ~stray', Safe(s)
       PROVE  /\ RoomOf(m) \in MayShow(s)'
              /\ \A c \in asks' : c.on = s /\ c.at = "inside" => c.room \in joined'[s]
  <2>1. \A c \in asks : c.on = s /\ c.at = "inside" => c.room \in joined[s]
      BY <1>11, SafeFacts
  <2>2. \A c \in asks : c.at = "inside" => c.op # "leave"
      BY DEF ClientInv, OwnAsks
  <2>3. RoomOf(m) = NoRoom
      BY <1>1, <1>4 DEF RoomOf
  <2>4. \A c \in asks' : c.on = s /\ c.at = "inside" => c.room \in joined'[s]
      BY <1>2, <1>8, <1>9, <1>11, <2>1, <2>2
  <2> QED
      BY <2>3, <2>4 DEF MayShow
<1>12. SetsRoom(m)
    BY <1>1, <1>4 DEF SetsRoom
<1>13. Lands'
  <2>1. UNCHANGED <<room, socket, conn>> /\ (~stray' => ~stray)
      BY <1>1, <1>9, Zenon
  <2>2. \A c \in asks : c.on # s => c \in asks'
      BY <1>2, <1>3
  <2>3. \A c \in asks' : c.at = "inside" => c \in asks
      BY <1>2
  <2> QED
      BY <2>1, <2>2, <2>3, <1>6, <1>7, <1>11, <1>12, MessageLands
<1> QED
    BY <1>1, <1>2, <1>3, <1>7, <1>10, <1>13, ServerStep DEF ClientTyped, Ports

LEMMA PushStep ==
    ASSUME ClientInv, NEW s \in Ports, NEW r \in joined[s], Push(s, r)
    PROVE  ClientInv'
<1>1. /\ UNCHANGED <<page, room, socket, conn, asks, joined, stray>>
      /\ inbox' = [inbox EXCEPT ![s] = Append(@, [op |-> "state", room |-> r, ok |-> TRUE])]
    BY DEF Push, view
<1>2. ClientTyped /\ r \in Rooms \cup {NoRoom} /\ conn[s].state = "up"
    BY PortFacts DEF ClientInv, DownIsEmpty, Ports
<1>3. PICK m : m = [op |-> "state", room |-> r, ok |-> TRUE]
    OBVIOUS
<1>4. m \in MessageSet /\ m.op = "state" /\ m.room = r
    BY <1>2, <1>3 DEF MessageSet
<1>5. inbox' = [inbox EXCEPT ![s] = Append(@, m)]
    BY <1>1, <1>3, Zenon
<1>6. /\ inbox' \in Seq(Seq(MessageSet)) /\ Len(inbox') = Len(conn)
      /\ inbox'[s] = Append(inbox[s], m)
      /\ \A i \in Ports : i # s => inbox'[i] = inbox[i]
    BY <1>4, <1>5, Sends
<1>7. ServerKeeps(s)
    BY <1>1, <1>2, <1>6 DEF ServerKeeps, ClientTyped
<1>8. SetsRoom(m) /\ RoomOf(m) \in MayShow(s)'
    BY <1>1, <1>4 DEF SetsRoom, RoomOf, MayShow
<1>9. ASSUME Safe(s)
      PROVE  \A c \in asks' : c.on = s /\ c.at = "inside" => c.room \in joined'[s]
    BY <1>1, <1>9, SafeFacts
<1>10. Lands'
    BY <1>1, <1>4, <1>6, <1>8, <1>9, MessageLands
<1> QED
    BY <1>1, <1>2, <1>7, <1>10, ServerStep DEF ClientTyped, Ports

LEMMA KickStep ==
    ASSUME ClientInv, NEW s \in Ports, NEW r \in joined[s], Kick(s, r)
    PROVE  ClientInv'
<1>1. /\ UNCHANGED <<page, room, socket, conn, asks, stray>>
      /\ joined' = [joined EXCEPT ![s] = {}]
      /\ inbox' = [inbox EXCEPT ![s] = Append(@, [op |-> "kicked", room |-> r, ok |-> TRUE])]
    BY DEF Kick, view
<1>2. ClientTyped /\ r \in Rooms \cup {NoRoom} /\ conn[s].state = "up"
    BY PortFacts DEF ClientInv, DownIsEmpty, Ports
<1>3. PICK m : m = [op |-> "kicked", room |-> r, ok |-> TRUE]
    OBVIOUS
<1>4. m \in MessageSet /\ Dooms(m)
    BY <1>2, <1>3 DEF MessageSet, Dooms
<1>5. inbox' = [inbox EXCEPT ![s] = Append(@, m)]
    BY <1>1, <1>3, Zenon
<1>6. /\ inbox' \in Seq(Seq(MessageSet)) /\ Len(inbox') = Len(conn)
      /\ inbox'[s] = Append(inbox[s], m)
      /\ \A i \in Ports : i # s => inbox'[i] = inbox[i]
    BY <1>4, <1>5, Sends
<1>7. /\ joined' \in Seq(SUBSET (Rooms \cup {NoRoom})) /\ Len(joined') = Len(conn)
      /\ joined'[s] = {}
      /\ \A i \in Ports : i # s => joined'[i] = joined[i]
  <2>1. {} \in SUBSET (Rooms \cup {NoRoom})
      OBVIOUS
  <2> QED
      BY <1>1, <1>2, <2>1, SetJoined
<1>8. ServerKeeps(s)
    BY <1>1, <1>2, <1>6, <1>7 DEF ServerKeeps, ClientTyped
<1>9. s # socket /\ socket # 0 => joined'[socket] = joined[socket]
    BY <1>2, <1>7 DEF ClientTyped, Ports
<1>10. Lands'
    BY <1>1, <1>4, <1>6, <1>9, MessageLands
<1> QED
    BY <1>1, <1>2, <1>8, <1>10, ServerStep DEF ClientTyped, Ports

-----------------------------------------------------------------------------
\* What the store does with any message but the one that it was kicked.
LEMMA TakeFacts ==
    ASSUME ClientInv, NEW s \in Ports, Receive(s), Head(inbox[s]).op # "kicked"
    PROVE  /\ UNCHANGED <<socket, conn, joined>>
           /\ page' \in {page, NoRoom}
           /\ room' = IF SetsRoom(Head(inbox[s])) THEN RoomOf(Head(inbox[s])) ELSE room
           /\ inbox' = [inbox EXCEPT ![s] = Tail(inbox[s])]
           /\ \A a \in asks' : a \in asks
           /\ \A a \in asks : a.at # "answered" => a \in asks'
<1>1. PICK m : m = Head(inbox[s])
    OBVIOUS
<1>2. m \in MessageSet
    BY <1>1, PortFacts, HeadTailProperties DEF ClientInv, Receive
<1>3. m.op \in {"join", "rejoin", "leave", "state", "kicked"}
    BY <1>2 DEF MessageSet
<1>4. PICK done : done = {a \in asks : ~(a.on = s /\ a.at = "answered" /\ a.op = m.op /\ a.room = m.room)}
    OBVIOUS
<1>5. /\ inbox' = [inbox EXCEPT ![s] = Tail(inbox[s])] /\ asks' = done
      /\ UNCHANGED <<socket, conn, joined>>
    BY <1>1, <1>4, Zenon DEF Receive
<1>6. page' \in {page, NoRoom}
    BY <1>1, Zenon DEF Receive, view
<1>7. room' = IF SetsRoom(m) THEN RoomOf(m) ELSE room
  <2>1. CASE m.op = "join" /\ m.ok
    <3>1. room' = m.room
        BY <1>1, <2>1 DEF Receive
    <3> QED
        BY <2>1, <3>1 DEF SetsRoom, RoomOf
  <2>2. CASE m.op = "join" /\ ~m.ok
    <3>1. room' = room
        BY <1>1, <2>2 DEF Receive
    <3> QED
        BY <2>2, <3>1 DEF SetsRoom, RoomOf
  <2>3. CASE m.op = "rejoin"
    <3>1. room' = IF m.ok THEN m.room ELSE room
        BY <1>1, <2>3 DEF Receive
    <3> QED
        BY <2>3, <3>1 DEF SetsRoom, RoomOf
  <2>4. CASE m.op = "leave" /\ m.ok
    <3>1. room' = NoRoom
        BY <1>1, <2>4 DEF Receive
    <3> QED
        BY <2>4, <3>1 DEF SetsRoom, RoomOf
  <2>5. CASE m.op = "leave" /\ ~m.ok
    <3>1. room' = room
        BY <1>1, <2>5 DEF Receive, view
    <3> QED
        BY <2>5, <3>1 DEF SetsRoom, RoomOf
  <2>6. CASE m.op = "state"
    <3>1. room' = m.room
        BY <1>1, <2>6 DEF Receive
    <3> QED
        BY <2>6, <3>1 DEF SetsRoom, RoomOf
  <2> QED
      BY <1>1, <1>3, <2>1, <2>2, <2>3, <2>4, <2>5, <2>6
<1> QED
    BY <1>1, <1>4, <1>5, <1>6, <1>7

LEMMA TakeStep ==
    ASSUME ClientInv, NEW s \in Ports, Receive(s), Head(inbox[s]).op # "kicked"
    PROVE  ClientInv'
<1>1. PICK q \in Seq(MessageSet) : q = inbox[s]
    BY PortFacts DEF ClientInv
<1>2. PICK m \in MessageSet : m = Head(q)
    BY <1>1, HeadTailProperties DEF Receive
<1>3. /\ conn[s].state = "up" /\ q # <<>> /\ m.op # "kicked"
      /\ stray' = (stray \/ s # socket \/ (m.op = "rejoin" /\ ~m.ok))
    BY <1>1, <1>2 DEF Receive
<1>4. /\ UNCHANGED <<socket, conn, joined>>
      /\ page' \in {page, NoRoom}
      /\ room' = IF SetsRoom(m) THEN RoomOf(m) ELSE room
      /\ inbox' = [inbox EXCEPT ![s] = Tail(q)]
      /\ \A a \in asks' : a \in asks
      /\ \A a \in asks : a.at # "answered" => a \in asks'
    BY <1>1, <1>2, <1>3, TakeFacts
<1>5. ClientTyped /\ Tail(q) \in Seq(MessageSet) /\ m = q[1]
    BY <1>2, <1>3, HeadTailProperties DEF ClientInv
<1>6. /\ inbox' \in Seq(Seq(MessageSet)) /\ Len(inbox') = Len(conn) /\ inbox'[s] = Tail(q)
      /\ \A i \in Ports : i # s => inbox'[i] = inbox[i]
    BY <1>4, <1>5, SetInbox
<1>7. /\ stray' \in BOOLEAN
      /\ ~stray' => ~stray /\ s = socket /\ ~Dooms(m)
    BY <1>3, Zenon DEF Dooms
<1>8. room' \in Rooms \cup {NoRoom} /\ page' \in Rooms \cup {NoRoom}
  <2>1. RoomOf(m) \in Rooms \cup {NoRoom}
      BY DEF RoomOf, MessageSet
  <2> QED
      BY <1>4, <1>5, <2>1 DEF ClientTyped
<1>9. ClientTyped'
    BY <1>4, <1>5, <1>6, <1>7, <1>8 DEF ClientTyped
<1>10. OneRetried' /\ OwnAsks'
    BY <1>4 DEF ClientInv, OneRetried, OwnAsks
<1>11. DownIsEmpty'
    BY <1>3, <1>4, <1>6 DEF ClientInv, DownIsEmpty, Ports
<1>12. Lands'
  <2> SUFFICES ASSUME ~stray', ~Doomed(inbox'[s]), s = socket
               PROVE  /\ LandsIn(inbox'[s], room', MayShow(s)')
                      /\ \A a \in asks' : a.on = s /\ a.at = "inside" => a.room \in joined'[s]
      BY <1>4, <1>7 DEF Lands
  <2>1. ~stray /\ ~Dooms(m) /\ ~Doomed(q)
      BY <1>2, <1>3, <1>6, <1>7, DoomedTail
  <2>2. Safe(s)
      BY <1>1, <1>3, <2>1, Zenon DEF Safe
  <2>3. /\ LandsIn(q, room, MayShow(s))
        /\ \A a \in asks : a.on = s /\ a.at = "inside" => a.room \in joined[s]
      BY <1>1, <2>2, SafeFacts
  <2>4. LandsIn(Tail(q), room', MayShow(s))
      BY <1>2, <1>3, <1>4, <2>3, LandsTail
  <2>5. \A x \in MayShow(s) : x \in MayShow(s)'
      BY <1>4 DEF MayShow, Rejoining
  <2>6. LandsIn(Tail(q), room', MayShow(s)')
      BY <2>4, <2>5, LandsMore
  <2> QED
      BY <1>4, <1>6, <2>3, <2>6
<1> QED
    BY <1>9, <1>10, <1>11, <1>12 DEF ClientInv

LEMMA ReceiveStep ==
    ASSUME ClientInv, NEW s \in Ports, Receive(s)
    PROVE  ClientInv'
<1>1. CASE Head(inbox[s]).op = "kicked"
  <2>1. Cut(s, "off") /\ UNCHANGED <<page, room, socket>>
      BY <1>1 DEF Receive
  <2>2. stray' \in BOOLEAN /\ (stray => stray')
    <3>1. stray' = (stray \/ s # socket \/ (Head(inbox[s]).op = "rejoin" /\ ~Head(inbox[s]).ok))
        BY DEF Receive
    <3> QED
        BY <3>1, Zenon
  <2>3. "off" \in States \ {"up"}
      BY DEF States
  <2> QED
      BY <2>1, <2>2, <2>3, CutStep
<1> QED
    BY <1>1, TakeStep

-----------------------------------------------------------------------------
\* disconnect() on the sockets of ended; of the others some may be stranded.
LEMMA ShutConn ==
    ASSUME ClientTyped, NEW ended, NEW left, Shut(ended, left), NEW s \in Ports
    PROVE  /\ conn'[s] \in ConnSet
           /\ s \in ended => conn'[s].state = "off" /\ ~conn'[s].retry
           /\ s \notin ended => /\ conn'[s].retry <=> conn[s].retry
                                /\ conn'[s].state = "up" <=> conn[s].state = "up"
<1>1. PICK k \in ConnSet : k = conn[s]
    BY PortFacts
<1>2. conn'[s] = IF s \in ended THEN [k EXCEPT !.state = "off", !.retry = FALSE]
                 ELSE IF s \in left /\ k.state = "refused" THEN [k EXCEPT !.state = "stranded"] ELSE k
    BY <1>1, PortFacts DEF Shut
<1>3. CASE s \in ended
  <2>1. PICK m : m = [k EXCEPT !.state = "off", !.retry = FALSE]
      OBVIOUS
  <2>2. m \in ConnSet /\ m.state = "off" /\ ~m.retry
      BY <2>1 DEF ConnSet, States
  <2>3. conn'[s] = m
      BY <1>2, <1>3, <2>1, Zenon
  <2> QED
      BY <1>3, <2>2, <2>3, Zenon
<1>4. CASE s \notin ended /\ s \in left /\ k.state = "refused"
  <2>1. "stranded" \in States
      BY DEF States
  <2>2. PICK m \in ConnSet : /\ m = [k EXCEPT !.state = "stranded"]
                             /\ m.state = "stranded" /\ (m.retry <=> k.retry)
      BY <2>1, ConnState
  <2>3. conn'[s] = m
      BY <1>2, <1>4, <2>2, Zenon
  <2>4. conn'[s].state # "up" /\ conn[s].state # "up"
      BY <1>1, <1>4, <2>2, <2>3
  <2> QED
      BY <1>1, <1>4, <2>2, <2>3, <2>4, Zenon
<1>5. CASE s \notin ended /\ ~(s \in left /\ k.state = "refused")
  <2>1. conn'[s] = k
      BY <1>2, <1>5, Zenon
  <2> QED
      BY <1>1, <1>5, <2>1, Zenon
<1> QED
    BY <1>3, <1>4, <1>5

LEMMA ShutFacts ==
    ASSUME ClientTyped, NEW ended, NEW left, Shut(ended, left)
    PROVE  /\ conn' \in Seq(ConnSet) /\ Len(conn') = Len(conn)
           /\ inbox' \in Seq(Seq(MessageSet)) /\ Len(inbox') = Len(conn)
           /\ joined' \in Seq(SUBSET (Rooms \cup {NoRoom})) /\ Len(joined') = Len(conn)
           /\ \A s \in Ports : s \in ended => inbox'[s] = <<>> /\ joined'[s] = {}
           /\ \A s \in Ports : s \notin ended => inbox'[s] = inbox[s] /\ joined'[s] = joined[s]
           /\ asks' = {a \in asks : a.on \notin ended}
<1>1. /\ Sockets = 1 .. Len(conn) /\ Len(conn) \in Nat
      /\ \A s \in 1 .. Len(conn) : /\ inbox[s] \in Seq(MessageSet)
                                   /\ joined[s] \in SUBSET (Rooms \cup {NoRoom})
    BY PortFacts DEF Ports
<1>2. conn' \in Seq(ConnSet) /\ Len(conn') = Len(conn)
  <2>1. \A s \in 1 .. Len(conn) : conn'[s] \in ConnSet
      BY ShutConn DEF Ports
  <2>2. conn' = [s \in 1 .. Len(conn) |-> conn'[s]]
      BY <1>1, Zenon DEF Shut
  <2> QED
      BY <1>1, <2>1, <2>2
<1>3. inbox' = [s \in 1 .. Len(conn) |-> IF s \in ended THEN << >> ELSE inbox[s]]
    BY <1>1 DEF Shut
<1>4. inbox' \in Seq(Seq(MessageSet)) /\ Len(inbox') = Len(conn)
    BY <1>1, <1>3, EmptySeq
<1>5. joined' = [s \in 1 .. Len(conn) |-> IF s \in ended THEN {} ELSE joined[s]]
    BY <1>1 DEF Shut
<1>6. joined' \in Seq(SUBSET (Rooms \cup {NoRoom})) /\ Len(joined') = Len(conn)
  <2>1. \A s \in 1 .. Len(conn) : joined'[s] \in SUBSET (Rooms \cup {NoRoom})
      BY <1>1, <1>5
  <2>2. joined' = [s \in 1 .. Len(conn) |-> joined'[s]]
      BY <1>5, Zenon
  <2> QED
      BY <1>1, <2>1, <2>2
<1>7. \A s \in Ports : s \in ended => inbox'[s] = <<>> /\ joined'[s] = {}
    BY <1>3, <1>5 DEF Ports
<1>8. \A s \in Ports : s \notin ended => inbox'[s] = inbox[s] /\ joined'[s] = joined[s]
    BY <1>3, <1>5 DEF Ports
<1>9. asks' = {a \in asks : a.on \notin ended}
    BY DEF Shut
<1> QED
    BY <1>2, <1>4, <1>6, <1>7, <1>8, <1>9

\* The store keeps its socket, or it has none any more and its own is closed.
LEMMA ShutStep ==
    ASSUME ClientInv, NEW ended, NEW left, Shut(ended, left), UNCHANGED <<page, stray>>,
           \/ socket' = socket /\ room' = room
           \/ socket' = 0 /\ room' = NoRoom /\ (socket # 0 => socket \in ended)
    PROVE  ClientInv'
<1>1. ClientTyped /\ \A a \in asks : a.on \in Ports
    BY DEF ClientInv, ClientTyped, Ports
<1>2. /\ conn' \in Seq(ConnSet) /\ Len(conn') = Len(conn)
      /\ inbox' \in Seq(Seq(MessageSet)) /\ Len(inbox') = Len(conn)
      /\ joined' \in Seq(SUBSET (Rooms \cup {NoRoom})) /\ Len(joined') = Len(conn)
      /\ \A s \in Ports : s \in ended => inbox'[s] = <<>> /\ joined'[s] = {}
      /\ \A s \in Ports : s \notin ended => inbox'[s] = inbox[s] /\ joined'[s] = joined[s]
      /\ asks' = {a \in asks : a.on \notin ended}
    BY <1>1, ShutFacts
<1>3. ASSUME NEW s \in Ports
      PROVE  /\ s \in ended => conn'[s].state = "off" /\ ~conn'[s].retry
             /\ s \notin ended => /\ conn'[s].retry <=> conn[s].retry
                                  /\ conn'[s].state = "up" <=> conn[s].state = "up"
    BY <1>1, ShutConn
<1>4. ClientTyped'
    BY <1>1, <1>2 DEF ClientTyped
<1>5. OneRetried'
  <2>1. ASSUME NEW s \in Ports, s # socket'
        PROVE  ~conn'[s].retry
    <3>1. s \in ended \/ s # socket
        BY <2>1 DEF Ports
    <3>2. CASE s \in ended
        BY <1>3, <3>2
    <3>3. CASE s \notin ended
      <4>1. ~conn[s].retry
          BY <3>1, <3>3 DEF ClientInv, OneRetried, Ports
      <4> QED
          BY <1>3, <3>3, <4>1
    <3> QED
        BY <3>2, <3>3
  <2> QED
      BY <1>2, <2>1 DEF OneRetried, Ports
<1>6. DownIsEmpty'
  <2>1. ASSUME NEW s \in Ports, conn'[s].state # "up"
        PROVE  /\ inbox'[s] = <<>> /\ joined'[s] = {}
               /\ \A a \in asks' : a.on = s => a.at = "buffered"
    <3>1. CASE s \in ended
        BY <1>2, <3>1
    <3>2. CASE s \notin ended
      <4>1. conn[s].state # "up"
          BY <1>3, <2>1, <3>2
      <4> QED
          BY <1>2, <3>2, <4>1 DEF ClientInv, DownIsEmpty, Ports
    <3> QED
        BY <3>1, <3>2
  <2> QED
      BY <1>2, <2>1 DEF DownIsEmpty, Ports
<1>7. OwnAsks'
  <2>1. ASSUME NEW a \in asks'
        PROVE  (a.op # "rejoin" => a.on = socket') /\ (a.at = "inside" => a.op # "leave")
    <3>1. a \in asks /\ a.on \notin ended /\ a.on # 0
        BY <1>1, <1>2, <2>1 DEF Ports
    <3> QED
        BY <3>1 DEF ClientInv, OwnAsks
  <2> QED
      BY <2>1 DEF OwnAsks
<1>8. Lands'
  <2>1. CASE socket' = socket /\ room' = room
    <3>1. PICK t : t = socket
        OBVIOUS
    <3>2. ASSUME t # 0, conn'[t].state = "up"
          PROVE  /\ conn[t].state = "up" /\ inbox'[t] = inbox[t] /\ joined'[t] = joined[t]
                 /\ \A a \in asks : a.on = t /\ a.at = "sent" => a \in asks'
                 /\ \A a \in asks' : a.on = t /\ a.at = "inside" => a \in asks
      <4>1. t \in Ports
          BY <1>1, <3>1, <3>2 DEF ClientTyped, Ports
      <4>2. t \notin ended /\ conn[t].state = "up"
          BY <1>3, <3>2, <4>1
      <4> QED
          BY <1>2, <4>1, <4>2
    <3>3. Lands /\ socket' = t /\ (~stray' => ~stray)
        BY <2>1, <3>1 DEF ClientInv
    <3> QED
        BY <2>1, <3>1, <3>2, <3>3, LandsSame
  <2>2. CASE socket' = 0
      BY <2>2 DEF Lands
  <2> QED
      BY <2>1, <2>2
<1> QED
    BY <1>4, <1>5, <1>6, <1>7, <1>8 DEF ClientInv

LEMMA ClosesStep ==
    ClientInv /\ UNCHANGED <<page, stray>> /\ (\E others, left : Close(others, left)) => ClientInv'
<1> SUFFICES ASSUME ClientInv, NEW others, NEW left, Close(others, left),
                    UNCHANGED <<page, stray>>
             PROVE  ClientInv'
    OBVIOUS
<1>1. PICK ended : ended = others \cup ({socket} \ {0})
    OBVIOUS
<1>2. socket # 0 => socket \in ended
    BY <1>1
<1>3. \/ socket' = 0 /\ room' = NoRoom /\ Shut(ended, left)
      \/ socket' = socket /\ room' = room /\ Shut(others, left)
    BY <1>1, Zenon DEF Close
<1>4. CASE socket' = 0 /\ room' = NoRoom /\ Shut(ended, left)
    BY <1>2, <1>4, ShutStep
<1>5. CASE socket' = socket /\ room' = room /\ Shut(others, left)
    BY <1>5, ShutStep
<1> QED
    BY <1>3, <1>4, <1>5

\* Every socket that waited for the token connects again.
LEMMA ReviveStep ==
    ASSUME ClientInv, RefreshSucceeds
    PROVE  ClientInv'
<1>1. /\ UNCHANGED <<page, room, socket, asks, inbox, joined, stray>>
      /\ conn' = [s \in Sockets |-> IF s \in handlers /\ conn[s].state # "up"
                                    THEN [conn[s] EXCEPT !.state = "opening"] ELSE conn[s]]
    BY DEF RefreshSucceeds, Revive
<1>2. ClientTyped /\ Sockets = Ports /\ Len(conn) \in Nat
    BY PortFacts DEF ClientInv
<1>3. ASSUME NEW s \in Ports
      PROVE  /\ conn'[s] \in ConnSet /\ (conn'[s].retry <=> conn[s].retry)
             /\ conn'[s].state = "up" <=> conn[s].state = "up"
  <2>1. PICK k \in ConnSet : k = conn[s]
      BY <1>2, PortFacts
  <2>2. conn'[s] = IF s \in handlers /\ k.state # "up" THEN [k EXCEPT !.state = "opening"] ELSE k
      BY <1>1, <1>2, <2>1
  <2>3. CASE s \in handlers /\ k.state # "up"
    <3>1. "opening" \in States
        BY DEF States
    <3>2. PICK m \in ConnSet : /\ m = [k EXCEPT !.state = "opening"]
                               /\ m.state = "opening" /\ (m.retry <=> k.retry)
        BY <3>1, ConnState
    <3>3. conn'[s] = m
        BY <2>2, <2>3, <3>2, Zenon
    <3>4. conn'[s].state # "up" /\ conn[s].state # "up"
        BY <2>1, <2>3, <3>2, <3>3
    <3> QED
        BY <2>1, <3>2, <3>3, <3>4, Zenon
  <2>4. CASE ~(s \in handlers /\ k.state # "up")
    <3>1. conn'[s] = k
        BY <2>2, <2>4, Zenon
    <3> QED
        BY <2>1, <3>1, Zenon
  <2> QED
      BY <2>3, <2>4
<1>4. conn' \in Seq(ConnSet) /\ Len(conn') = Len(conn)
  <2>1. \A s \in 1 .. Len(conn) : conn'[s] \in ConnSet
      BY <1>3 DEF Ports
  <2>2. conn' = [s \in 1 .. Len(conn) |-> conn'[s]]
      BY <1>1, <1>2, Zenon DEF Ports
  <2> QED
      BY <1>2, <2>1, <2>2
<1>5. ClientTyped'
    BY <1>1, <1>2, <1>4 DEF ClientTyped
<1>6. OneRetried'
    BY <1>1, <1>3, <1>4 DEF ClientInv, OneRetried, Ports
<1>7. DownIsEmpty'
    BY <1>1, <1>3, <1>4 DEF ClientInv, DownIsEmpty, Ports
<1>8. OwnAsks'
    BY <1>1 DEF ClientInv, OwnAsks
<1>9. Lands'
  <2>1. PICK t : t = socket
      OBVIOUS
  <2>2. t # 0 => t \in Ports
      BY <1>2, <2>1 DEF ClientTyped, Ports
  <2>3. t # 0 /\ conn'[t].state = "up" =>
               /\ conn[t].state = "up" /\ inbox'[t] = inbox[t] /\ joined'[t] = joined[t]
               /\ \A a \in asks : a.on = t /\ a.at = "sent" => a \in asks'
               /\ \A a \in asks' : a.on = t /\ a.at = "inside" => a \in asks
      BY <1>1, <1>3, <2>2
  <2>4. Lands /\ socket' = t /\ room' = room /\ (~stray' => ~stray)
      BY <1>1, <2>1 DEF ClientInv
  <2> QED
      BY <2>1, <2>3, <2>4, LandsSame
<1> QED
    BY <1>5, <1>6, <1>7, <1>8, <1>9 DEF ClientInv

-----------------------------------------------------------------------------
LEMMA ClientStart == ClientInit => ClientInv
<1> SUFFICES ASSUME ClientInit
             PROVE  ClientInv
    OBVIOUS
<1>1. Len(<<>>) = 0
    OBVIOUS
<1>2. ClientTyped
  <2>1. /\ <<>> \in Seq(ConnSet) /\ <<>> \in Seq(Seq(MessageSet))
        /\ <<>> \in Seq(SUBSET (Rooms \cup {NoRoom}))
      BY EmptySeq
  <2>2. /\ page = NoRoom /\ room = NoRoom /\ socket = 0 /\ asks = {} /\ ~stray
        /\ conn = <<>> /\ inbox = <<>> /\ joined = <<>>
      BY DEF ClientInit
  <2>3. conn \in Seq(ConnSet) /\ inbox \in Seq(Seq(MessageSet)) /\ joined \in Seq(SUBSET (Rooms \cup {NoRoom}))
      BY <2>1, <2>2, Zenon
  <2>4. Len(conn) = 0 /\ Len(inbox) = 0 /\ Len(joined) = 0
      BY <1>1, <2>2, Zenon
  <2>5. stray \in BOOLEAN
      BY DEF ClientInit
  <2> QED
      BY <2>2, <2>3, <2>4, <2>5 DEF ClientTyped
<1>3. OneRetried /\ DownIsEmpty /\ OwnAsks /\ Lands
    BY <1>1 DEF ClientInit, OneRetried, DownIsEmpty, OwnAsks, Lands
<1> QED
    BY <1>2, <1>3 DEF ClientInv

LEMMA ClientIdle == ClientInv /\ UNCHANGED client => ClientInv'
<1> SUFFICES ASSUME ClientInv, UNCHANGED client
             PROVE  ClientInv'
    OBVIOUS
<1>1. UNCHANGED <<wire, room, stray>> /\ page' \in Rooms \cup {NoRoom}
    BY DEF client, view, ClientInv, ClientTyped
<1> QED
    BY <1>1, PageStep

LEMMA ClientStep ==
    ASSUME SessionInv, ClientInv, Next
    PROVE  ClientInv'
<1>1. Sockets = Ports /\ ClientTyped
    BY PortFacts DEF ClientInv
<1>2. page \in Rooms \cup {NoRoom} /\ room \in Rooms \cup {NoRoom} /\ stray \in BOOLEAN
    BY <1>1 DEF ClientTyped
<1>3. CASE \E r \in Rooms : Open(r)
  <2>1. UNCHANGED <<wire, room, stray>> /\ page' \in Rooms \cup {NoRoom}
      BY <1>3 DEF Open
  <2> QED
      BY <2>1, PageStep
<1>4. CASE Join
  <2>1. CASE UNCHANGED wire
    <3>1. UNCHANGED <<wire, room, stray>> /\ page' \in Rooms \cup {NoRoom}
        BY <1>2, <1>4, <2>1 DEF Join
    <3> QED
        BY <3>1, PageStep
  <2>2. CASE ~UNCHANGED wire
    <3>1. EnsureSocket /\ asks' = Ask(socket', "join", page, asks) /\ UNCHANGED <<page, room, stray>>
        BY <1>4, <2>2, Zenon DEF Join, Fails
    <3>2. PICK r \in Rooms \cup {NoRoom} : r = page
        BY <1>2
    <3> QED
        BY <3>1, <3>2, AskStep
  <2> QED
      BY <2>1, <2>2
<1>5. CASE NotResolved
  <2>1. UNCHANGED <<wire, room, stray>> /\ page' \in Rooms \cup {NoRoom}
      BY <1>2, <1>5 DEF NotResolved, Fails
  <2> QED
      BY <2>1, PageStep
<1>6. CASE Leave
  <2>1. CASE UNCHANGED wire
    <3>1. UNCHANGED <<wire, room, stray>> /\ page' \in Rooms \cup {NoRoom}
        BY <1>2, <1>6, <2>1 DEF Leave
    <3> QED
        BY <3>1, PageStep
  <2>2. CASE ~UNCHANGED wire
    <3>1. EnsureSocket /\ asks' = Ask(socket', "leave", room, asks) /\ UNCHANGED <<page, room, stray>>
        BY <1>6, <2>2, Zenon DEF Leave
    <3>2. PICK r \in Rooms \cup {NoRoom} : r = room
        BY <1>2
    <3> QED
        BY <3>1, <3>2, AskStep
  <2> QED
      BY <2>1, <2>2
<1>7. CASE RouteAway
  <2>1. UNCHANGED <<wire, room, stray>> /\ page' \in Rooms \cup {NoRoom}
      BY <1>7 DEF RouteAway
  <2> QED
      BY <2>1, PageStep
<1>8. CASE \E s \in Sockets : Connect(s)
    BY <1>1, <1>8, ConnectStep
<1>9. CASE \E s \in Sockets : Refused(s)
  <2>1. PICK s \in Ports : Refused(s)
      BY <1>1, <1>9
  <2>2. PICK state \in {"refused", "opening", "off"} : Cut(s, state)
      BY <2>1 DEF Refused
  <2>3. UNCHANGED <<page, room, socket, stray>>
      BY <2>1 DEF Refused, view
  <2> QED
      BY <1>2, <2>2, <2>3, CutStep DEF States
<1>10. CASE \E s \in Sockets : LoseConnection(s)
  <2>1. PICK s \in Ports : LoseConnection(s)
      BY <1>1, <1>10
  <2>2. PICK state \in {"opening", "off"} : Cut(s, state)
      BY <2>1 DEF LoseConnection
  <2>3. UNCHANGED <<page, room, socket, stray>>
      BY <2>1 DEF LoseConnection, view
  <2> QED
      BY <1>2, <2>2, <2>3, CutStep DEF States
<1>11. CASE \E a \in asks : Enter(a)
    BY <1>11, EnterStep
<1>12. CASE \E a \in asks : Answer(a)
    BY <1>12, AnswerRequestStep
<1>13. CASE \E a \in asks : Deny(a)
    BY <1>13, DenyStep
<1>14. CASE \E a \in asks : LetGo(a)
    BY <1>14, LetGoStep
<1>15. CASE \E s \in Sockets : \E r \in joined[s] : Push(s, r)
    BY <1>1, <1>15, PushStep
<1>16. CASE \E s \in Sockets : \E r \in joined[s] : Kick(s, r)
    BY <1>1, <1>16, KickStep
<1>17. CASE \E s \in Sockets : Receive(s)
    BY <1>1, <1>17, ReceiveStep
<1>18. CASE Quiet
    BY <1>18, ClientIdle DEF Quiet
<1>19. CASE SetsUser
  <2>1. UNCHANGED <<page, stray>> /\ \E others, left : Close(others, left)
      BY <1>19, Zenon DEF SetsUser
  <2> QED
      BY <2>1, ClosesStep
<1>20. CASE RefreshSucceeds
    BY <1>20, ReviveStep
<1>21. CASE RefreshFails
  <2>1. UNCHANGED <<page, stray>> /\ \E others, left : Close(others, left)
      BY <1>21, Zenon DEF RefreshFails
  <2> QED
      BY <2>1, ClosesStep
<1> QED
    BY <1>3, <1>4, <1>5, <1>6, <1>7, <1>8, <1>9, <1>10, <1>11, <1>12, <1>13, <1>14, <1>15,
       <1>16, <1>17, <1>18, <1>19, <1>20, <1>21 DEF Next

\* The invariant gives what is checked: nothing but the store's socket is
\* retried, and a store that has heard everything shows a room it is in.
LEMMA ClientInvRight == ClientInv => ConnectionRight
<1> SUFFICES ASSUME ClientInv
             PROVE  ConnectionRight
    OBVIOUS
<1>1. Sockets = Ports /\ ClientTyped
    BY PortFacts DEF ClientInv
<1>2. OneLiveSocket
    BY <1>1 DEF ClientInv, OneRetried, OneLiveSocket, Live, Ports
<1>3. NoGhostRoom
  <2> SUFFICES ASSUME socket # 0, Still(socket), room # NoRoom, ~stray
               PROVE  room \in joined[socket]
      BY DEF NoGhostRoom
  <2>1. conn[socket].state = "up" /\ On(socket) = {} /\ inbox[socket] = << >>
      BY DEF Still
  <2>2. Len(inbox[socket]) = 0
      BY <2>1
  <2>3. ~Doomed(inbox[socket])
      BY <2>2 DEF Doomed
  <2>4. LandsIn(inbox[socket], room, MayShow(socket))
      BY <2>1, <2>3, Zenon DEF ClientInv, Lands
  <2>5. room \in MayShow(socket)
      BY <2>2, <2>4 DEF LandsIn
  <2>6. Rejoining(socket) = {}
      BY <2>1 DEF Rejoining, On
  <2> QED
      BY <2>5, <2>6 DEF MayShow
<1> QED
    BY <1>2, <1>3 DEF ConnectionRight

\* A session has one connection that is retried, and the room that is shown is
\* one this connection is in once nothing is under way, for any number of rooms,
\* sockets, requests and troubles (the room store, ensureSocket, join, leave).
THEOREM ConnectionRightCorrect == Spec => []ConnectionRight
<1>1. Init => SessionInv /\ ClientInv
    BY SessionStart, ClientStart DEF Init
<1>2. SessionInv /\ ClientInv /\ [Next]_vars => SessionInv' /\ ClientInv'
  <2>1. UNCHANGED vars => UNCHANGED client
      BY DEF vars
  <2> QED
      BY <2>1, RoomKeepsSession, ClientStep, ClientIdle
<1> QED
    BY <1>1, <1>2, ClientInvRight, PTL DEF Spec

-----------------------------------------------------------------------------
TabInv == SessionInv /\ ClientInv /\ BrowserInv /\ VoiceInv

LEMMA TabStart == TabInit => TabInv
BY SessionStart, ClientStart, BrowserStart, VoiceStart DEF TabInit, Init, TabInv

LEMMA TabStep == TabInv /\ [TabNext]_tab => TabInv'
<1> SUFFICES ASSUME TabInv, [TabNext]_tab
             PROVE  TabInv'
    OBVIOUS
<1>1. SessionInv /\ ClientInv /\ BrowserInv /\ VoiceInv
    BY DEF TabInv
<1>2. UNCHANGED vars => SessionInv' /\ ClientInv'
  <2>1. UNCHANGED vars => UNCHANGED session /\ UNCHANGED client
      BY DEF vars
  <2> QED
      BY <1>1, <2>1, SessionIdle, ClientIdle
<1>3. CASE UNCHANGED client /\ UNCHANGED <<browser, voice>> /\ SessionNext
    BY <1>1, <1>3, SessionStep, ClientIdle, BrowserStep, VoiceIdle DEF TabInv
<1>4. CASE UNCHANGED <<browser, voice>> /\ Next
    BY <1>1, <1>4, RoomKeepsSession, ClientStep, BrowserStep, VoiceIdle DEF TabInv
<1>5. CASE UNCHANGED <<vars, voice>> /\ BrowserNext
    BY <1>1, <1>2, <1>5, BrowserStep, VoiceIdle DEF TabInv
<1>6. CASE UNCHANGED <<vars, browser>> /\ VoiceNext
    BY <1>1, <1>2, <1>6, BrowserStep, VoiceStep DEF TabInv
<1>7. CASE UNCHANGED tab
    BY <1>1, <1>2, <1>7, BrowserStep, VoiceIdle DEF TabInv, tab
<1> QED
    BY <1>3, <1>4, <1>5, <1>6, <1>7, Zenon DEF TabNext, RoomStep

\* Whatever the tab is followed at: what a logout ended stays ended, the list is
\* fetched or says why not, a panel that was left holds no voice, and the room
\* shown is one the session's one connection is in.
THEOREM TabCorrect ==
    TabSpec => [](SessionRight /\ ConnectionRight /\ ListIsCurrent /\ VoiceRight)
<1>1. TabInv => SessionRight /\ ConnectionRight /\ ListIsCurrent /\ VoiceRight
    BY SessionInvRight, ClientInvRight, BrowserInvRight, VoiceInvRight DEF TabInv
<1> QED
    BY <1>1, TabStart, TabStep, PTL DEF TabSpec
=============================================================================
