------------------------- MODULE RoomRuntimeProofs -------------------------
(***************************************************************************)
(* Theorems about RoomRuntime, for any users, any number of calls in       *)
(* flight and any bounds on sessions and actions.  One inductive invariant *)
(* says at which step of the call that holds the lock the status, the keys *)
(* and the rows may disagree, and that at most one return to the lobby is  *)
(* under way although it takes no lock.                                    *)
(***************************************************************************)
EXTENDS RoomRuntime, FiniteSetTheorems, TLAPS

\* The steps of a call that holds the lock, and those among them with a
\* session that goes on.
LockSteps == {"created", "stored", "loaded", "persisted", "finish", "written", "shown",
              "forgotten", "abandoned"}
Works == {"loaded", "persisted", "finish", "written"}

\* Who holds the lock, and what each call works with: the holder works on the
\* youngest session.
Calling ==
    /\ DOMAIN op = Calls
    /\ \A c \in Calls :
          /\ pc[c] \in LockSteps <=> lock = c
          /\ pc[c] = "act" => op[c].kind = "act"
          /\ pc[c] = "timer" => op[c].kind = "timer" /\ op[c].session \in Sessions
          /\ pc[c] \in {"created", "stored"} => created \in Sessions
          /\ pc[c] \in Works \cup {"shown", "forgotten", "abandoned"} =>
                op[c].session = created /\ created \in Sessions
          /\ pc[c] = "loaded" => op[c].count \in 0..MaxActions
          /\ pc[c] = "clearing" => op[c].session \in Sessions

\* A room is closed once nobody is in it, and stays so.
Emptied ==
    /\ closed <=> members = {}
    /\ \A c \in Calls : pc[c] \in {"emptied", "clearing"} => closed

\* Only the youngest session has a state, and the room's key finds it.
OneSession ==
    /\ \A s \in Sessions : snapshot[s] # Gone => s = created
    /\ sessionKey # None => sessionKey = created /\ snapshot[created] # Gone

NoneLeft == \A s \in Sessions : snapshot[s] = Gone

\* The status at each step of the holder, also in a closed room
StatusByStep ==
    /\ Unlocked /\ status # "in_game" => NoneLeft
    /\ \A c \in Calls :
          /\ pc[c] \in {"created", "stored"} => status = "lobby"
          /\ pc[c] \in Works \cup {"abandoned"} => status = "in_game"
          /\ pc[c] \in {"shown", "forgotten"} => status = "results"
          /\ pc[c] \in {"created", "forgotten", "abandoned"} => NoneLeft

\* A return to the lobby is due or under way at most once, and only while the
\* room shows its results.
OneReturn ==
    /\ lobbyReturn => status = "results"
    /\ \A c \in Calls :
          /\ pc[c] = "return" => status = "results" /\ ~lobbyReturn
          /\ pc[c] \in {"shown", "forgotten"} => ~lobbyReturn
          /\ \A d \in Calls :
                pc[c] = "return" /\ pc[d] \in {"return", "shown", "forgotten"} => c = d

\* In an open room, also between the holder's steps: which sessions have
\* ended, whose timers may be armed, and who may be missed.
Rows ==
    /\ \A s \in ended : s <= created
    /\ \A s \in Sessions : s < created => s \in ended
    /\ Unlocked /\ status = "in_game" => sessionKey # None /\ created \notin ended
    /\ Unlocked /\ status # "in_game" /\ created # 0 => created \in ended
    /\ \A c \in Calls :
          /\ pc[c] \in Works \cup {"stored", "shown"} => sessionKey # None
          /\ pc[c] \in Works \cup {"created", "stored"} => created \notin ended
          /\ pc[c] \in {"shown", "forgotten"} => created \in ended
Present ==
    sessionKey # None \/ (\E c \in Calls : pc[c] = "created") =>
        players[created] \subseteq members \cup Leaving \cup silent
OpenRoom == ~closed => Rows /\ Present /\ timers \subseteq {sessionKey}

\* Results are written for the youngest session alone, and not again: who has
\* the lock has not let it go before the state of the session is gone.
Once ==
    /\ rows \in [Sessions -> Nat]
    /\ \A s \in Sessions : s > created => rows[s] = 0
    /\ \A s \in Sessions :
          snapshot[s] # Gone /\ rows[s] # 0 => \E c \in Calls : pc[c] \in {"written", "shown"}
    /\ \A c \in Calls :
          pc[c] \in {"created", "stored", "loaded", "persisted", "finish"} => rows[created] = 0

Base == Typed /\ Calling /\ Emptied /\ OneSession /\ StatusByStep /\ OneReturn /\ OpenRoom

IInv == Base /\ Once

-----------------------------------------------------------------------------
\* Type correctness: a session is counted while it is within MAX_ACTIONS.
LEMMA TypeStep == Base /\ [Next]_vars => Typed'
<1> SUFFICES ASSUME Base, [Next]_vars PROVE Typed'
  OBVIOUS
<1>a. Typed
  BY DEF Base
<1>b. \A c \in Calls :
        /\ pc[c] \in {"persisted", "written", "shown", "forgotten", "abandoned", "clearing"} =>
              op[c].session \in Sessions
        /\ pc[c] = "loaded" => op[c].count \in 0..MaxActions
  BY DEF Base, Calling, Works
<1> USE <1>a, RuntimeAssumption, CallAssumption DEF Typed, Steps, Sessions, Gone,
    None, Arrives, Goes, Ends, Locks, Unlocks, Forget, Removes, room, sessions,
    keys, calls
<1>1. ASSUME NEW c \in Calls, CallStart(c) PROVE Typed'
  BY <1>1 DEF CallStart
<1>2. ASSUME NEW c \in Calls, RefuseStart(c) PROVE Typed'
  BY <1>2 DEF RefuseStart
<1>3. ASSUME NEW c \in Calls, CreateSession(c) PROVE Typed'
  BY <1>3 DEF CreateSession, MayStart
<1>4. ASSUME NEW c \in Calls, StoreSession(c) PROVE Typed'
  <2>1. snapshot' = [snapshot EXCEPT ![created] = 0] /\ sessionKey' = created
    BY <1>4 DEF StoreSession
  <2>3. snapshot' \in [Sessions -> 0..MaxActions \cup {Gone}]
    <3>1. 0 \in 0..MaxActions \cup {Gone}
      BY RuntimeAssumption
    <3>2. snapshot \in [Sessions -> 0..MaxActions \cup {Gone}]
      BY <1>a DEF Typed
    <3> QED
      BY <2>1, <3>1, <3>2, Zenon
  <2>4. pc' \in [Calls -> Steps]
    BY <1>4 DEF StoreSession
  <2>2. created \in Sessions
    BY <1>4 DEF StoreSession, Base, Calling
  <2> QED
    BY <1>4, <2>1, <2>2, <2>3, <2>4 DEF StoreSession
<1>5. ASSUME NEW c \in Calls, EnterGame(c) PROVE Typed'
  BY <1>5 DEF EnterGame
<1>6. ASSUME NEW c \in Calls, CallAct(c) PROVE Typed'
  BY <1>6 DEF CallAct
<1>7. ASSUME NEW c \in Calls, CallTimer(c) PROVE Typed'
  BY <1>7 DEF CallTimer
<1>8. ASSUME NEW c \in Calls, NoGame(c) PROVE Typed'
  BY <1>8 DEF NoGame, Target, Finds
<1>9. ASSUME NEW c \in Calls, Load(c) PROVE Typed'
  BY <1>9 DEF Load, Target, Finds
<1>10. ASSUME NEW c \in Calls, LimitReached(c) PROVE Typed'
  BY <1>10 DEF LimitReached
<1>11. ASSUME NEW c \in Calls, Reject(c) PROVE Typed'
  BY <1>11 DEF Reject
<1>12. ASSUME NEW c \in Calls, Persist(c) PROVE Typed'
  <2> DEFINE count == op[c].count + (IF op[c].kind = "act" THEN 1 ELSE 0)
  <2>1. op[c].count \in 0..MaxActions /\ (op[c].kind = "timer" \/ op[c].count < MaxActions)
    BY <1>12, <1>b DEF Persist
  <2>2. count \in 0..MaxActions
    BY <2>1
  <2>3. snapshot' = [snapshot EXCEPT ![op[c].session] = count]
    BY <1>12 DEF Persist
  <2> HIDE DEF count
  <2>4. snapshot' \in [Sessions -> 0..MaxActions \cup {Gone}]
    BY <2>2, <2>3
  <2> QED
    BY <1>12, <2>4 DEF Persist
<1>13. ASSUME NEW c \in Calls, ApplyEffect(c) PROVE Typed'
  BY <1>13, <1>b DEF ApplyEffect
<1>14. ASSUME NEW c \in Calls, FinishFails(c) PROVE Typed'
  BY <1>14 DEF FinishFails
<1>15. ASSUME NEW c \in Calls, WriteResults(c) PROVE Typed'
  BY <1>15 DEF WriteResults
<1>16. ASSUME NEW c \in Calls, ShowResults(c) PROVE Typed'
  BY <1>16, <1>b DEF ShowResults
<1>17. ASSUME NEW c \in Calls, ForgetSession(c) PROVE Typed'
  BY <1>17, <1>b DEF ForgetSession
<1>18. ASSUME NEW c \in Calls, ScheduleReturn(c) PROVE Typed'
  BY <1>18, <1>b DEF ScheduleReturn
<1>19. ASSUME NEW c \in Calls, Returns(c) PROVE Typed'
  BY <1>19 DEF Returns, CallReturn, ReturnToLobby, ForgetStandings
<1>20. ASSUME NEW c \in Calls, CallRemove(c) PROVE Typed'
  BY <1>20 DEF CallRemove
<1>21. ASSUME NEW c \in Calls, SomebodyLeft(c) PROVE Typed'
  BY <1>21 DEF SomebodyLeft
<1>22. ASSUME NEW c \in Calls, RoomEmptied(c) PROVE Typed'
  BY <1>22 DEF RoomEmptied
<1>23. ASSUME NEW c \in Calls, NothingToClear(c) PROVE Typed'
  BY <1>23 DEF NothingToClear
<1>24. ASSUME NEW c \in Calls, FindSession(c) PROVE Typed'
  BY <1>24 DEF FindSession
<1>25. ASSUME NEW c \in Calls, ClearSession(c) PROVE Typed'
  BY <1>25, <1>b DEF ClearSession
<1>26. ASSUME NEW c \in Calls, NotConcerned(c) PROVE Typed'
  BY <1>26 DEF NotConcerned, Active
<1>27. ASSUME NEW c \in Calls, Abandon(c) PROVE Typed'
  BY <1>27, <1>b DEF Abandon, Active
<1>28. ASSUME NEW c \in Calls, BackToLobby(c) PROVE Typed'
  BY <1>28, <1>b DEF BackToLobby
<1>29. ASSUME Join PROVE Typed'
  BY <1>29 DEF Join
<1>30. ASSUME RestLeave PROVE Typed'
  BY <1>30 DEF RestLeave
<1>31. ASSUME UNCHANGED vars PROVE Typed'
  BY <1>31 DEF vars
<1> QED
  BY <1>1, <1>2, <1>3, <1>4, <1>5, <1>6, <1>7, <1>8, <1>9, <1>10,
    <1>11, <1>12, <1>13, <1>14, <1>15, <1>16, <1>17, <1>18, <1>19,
    <1>20, <1>21, <1>22, <1>23, <1>24, <1>25, <1>26, <1>27, <1>28,
    <1>29, <1>30, <1>31 DEF Next, Starts, Plays, Finishes, Leaves

\* One call at a time is at a step of the lock.
LEMMA CallingStep == Base /\ [Next]_vars => Calling'
<1> SUFFICES ASSUME Base, [Next]_vars PROVE Calling'
  OBVIOUS
<1> USE RuntimeAssumption, CallAssumption DEF Base, Calling, LockSteps, Works,
    Typed, OneSession, StatusByStep, Sessions, Arrives, Goes, Ends, Locks,
    Unlocks, Forget, Removes, room, sessions, keys, calls
<1>1. ASSUME NEW c \in Calls, Starts(c) PROVE Calling'
  BY <1>1 DEF Starts, CallStart, RefuseStart, CreateSession, StoreSession,
    EnterGame, MayStart
<1>2. ASSUME NEW c \in Calls, Plays(c) PROVE Calling'
  <2>1. CASE CallAct(c) \/ CallTimer(c) \/ NoGame(c)
    BY <2>1 DEF CallAct, CallTimer, NoGame
  <2>2. CASE Load(c)
    BY <2>2 DEF Load, Target, Finds
  <2>3. CASE LimitReached(c) \/ Reject(c)
    BY <2>3 DEF LimitReached, Reject
  <2>4. CASE Persist(c) \/ ApplyEffect(c)
    BY <2>4 DEF Persist, ApplyEffect
  <2> QED
    BY <1>2, <2>1, <2>2, <2>3, <2>4 DEF Plays
<1>3. ASSUME NEW c \in Calls, Finishes(c) PROVE Calling'
  BY <1>3 DEF Finishes, FinishFails, WriteResults, ShowResults, ForgetSession,
    ScheduleReturn
<1>4. ASSUME NEW c \in Calls, Returns(c) PROVE Calling'
  BY <1>4 DEF Returns, CallReturn, ReturnToLobby, ForgetStandings
<1>5. ASSUME NEW c \in Calls, Leaves(c) PROVE Calling'
  BY <1>5 DEF Leaves, CallRemove, SomebodyLeft, RoomEmptied, NothingToClear,
    FindSession, ClearSession, NotConcerned, Abandon, BackToLobby, Active
<1>6. ASSUME Join PROVE Calling'
  BY <1>6 DEF Join
<1>7. ASSUME RestLeave PROVE Calling'
  BY <1>7 DEF RestLeave
<1>8. ASSUME UNCHANGED vars PROVE Calling'
  BY <1>8 DEF vars
<1> QED
  BY <1>1, <1>2, <1>3, <1>4, <1>5, <1>6, <1>7, <1>8 DEF Next

\* Nobody joins a closed room, and only an empty one is cleared.
LEMMA EmptiedStep == Base /\ [Next]_vars => Emptied'
<1> SUFFICES ASSUME Base, [Next]_vars PROVE Emptied'
  OBVIOUS
<1> USE RuntimeAssumption, CallAssumption DEF Base, Calling, LockSteps, Works,
    Typed, Emptied, Arrives, Goes, Ends, Locks, Unlocks, Forget, Removes,
    room, sessions, keys, calls
<1>1. ASSUME NEW c \in Calls, Starts(c) PROVE Emptied'
  BY <1>1 DEF Starts, CallStart, RefuseStart, CreateSession, StoreSession,
    EnterGame, MayStart
<1>2. ASSUME NEW c \in Calls, Plays(c) PROVE Emptied'
  BY <1>2 DEF Plays, CallAct, CallTimer, NoGame, Load, LimitReached, Reject,
    Persist, ApplyEffect, Target, Finds
<1>3. ASSUME NEW c \in Calls, Finishes(c) PROVE Emptied'
  BY <1>3 DEF Finishes, FinishFails, WriteResults, ShowResults, ForgetSession,
    ScheduleReturn
<1>4. ASSUME NEW c \in Calls, Returns(c) PROVE Emptied'
  BY <1>4 DEF Returns, CallReturn, ReturnToLobby, ForgetStandings
<1>5. ASSUME NEW c \in Calls, Leaves(c) PROVE Emptied'
  <2>1. CASE CallRemove(c)
    BY <2>1 DEF CallRemove
  <2>2. CASE SomebodyLeft(c) \/ RoomEmptied(c)
    BY <2>2 DEF SomebodyLeft, RoomEmptied
  <2>3. CASE NothingToClear(c) \/ FindSession(c) \/ ClearSession(c)
    BY <2>3 DEF NothingToClear, FindSession, ClearSession
  <2>4. CASE NotConcerned(c) \/ Abandon(c) \/ BackToLobby(c)
    BY <2>4 DEF NotConcerned, Abandon, BackToLobby
  <2> QED
    BY <1>5, <2>1, <2>2, <2>3, <2>4 DEF Leaves
<1>6. ASSUME Join PROVE Emptied'
  BY <1>6 DEF Join
<1>7. ASSUME RestLeave PROVE Emptied'
  BY <1>7 DEF RestLeave
<1>8. ASSUME UNCHANGED vars PROVE Emptied'
  BY <1>8 DEF vars
<1> QED
  BY <1>1, <1>2, <1>3, <1>4, <1>5, <1>6, <1>7, <1>8 DEF Next

\* A session is stored once, by doStart, and found by the key until both go.
LEMMA OneSessionStep == Base /\ [Next]_vars => OneSession'
<1> SUFFICES ASSUME Base, [Next]_vars PROVE OneSession'
  OBVIOUS
<1> USE RuntimeAssumption, CallAssumption DEF Base, Calling, LockSteps, Works,
    Typed, OneSession, StatusByStep, NoneLeft, Unlocked, Gone, None,
    Sessions, Arrives, Goes, Ends, Locks, Unlocks, Forget, Removes, room,
    sessions, keys, calls
<1>1. ASSUME NEW c \in Calls, Starts(c) PROVE OneSession'
  BY <1>1 DEF Starts, CallStart, RefuseStart, CreateSession, StoreSession,
    EnterGame, MayStart
<1>2. ASSUME NEW c \in Calls, Plays(c) PROVE OneSession'
  BY <1>2 DEF Plays, CallAct, CallTimer, NoGame, Load, LimitReached, Reject,
    Persist, ApplyEffect, Target, Finds
<1>3. ASSUME NEW c \in Calls, Finishes(c) PROVE OneSession'
  BY <1>3 DEF Finishes, FinishFails, WriteResults, ShowResults, ForgetSession,
    ScheduleReturn
<1>4. ASSUME NEW c \in Calls, Returns(c) PROVE OneSession'
  BY <1>4 DEF Returns, CallReturn, ReturnToLobby, ForgetStandings
<1>5. ASSUME NEW c \in Calls, Leaves(c) PROVE OneSession'
  BY <1>5 DEF Leaves, CallRemove, SomebodyLeft, RoomEmptied, NothingToClear,
    FindSession, ClearSession, NotConcerned, Abandon, BackToLobby, Active
<1>6. ASSUME Join PROVE OneSession'
  BY <1>6 DEF Join
<1>7. ASSUME RestLeave PROVE OneSession'
  BY <1>7 DEF RestLeave
<1>8. ASSUME UNCHANGED vars PROVE OneSession'
  BY <1>8 DEF vars
<1> QED
  BY <1>1, <1>2, <1>3, <1>4, <1>5, <1>6, <1>7, <1>8 DEF Next

\* The steps that write the status have the lock, or are the only return to
\* the lobby.
LEMMA StatusStep == Base /\ [Next]_vars => StatusByStep'
<1> SUFFICES ASSUME Base, [Next]_vars PROVE StatusByStep'
  OBVIOUS
<1> USE RuntimeAssumption, CallAssumption DEF Base, Calling, LockSteps, Works,
    Typed, OneSession, StatusByStep, OneReturn, NoneLeft, Unlocked, Gone,
    None, Arrives, Goes, Ends, Locks, Unlocks, Forget, Removes, room,
    sessions, keys, calls
<1>1. ASSUME NEW c \in Calls, Starts(c) PROVE StatusByStep'
  BY <1>1 DEF Starts, CallStart, RefuseStart, CreateSession, StoreSession,
    EnterGame, MayStart
<1>2. ASSUME NEW c \in Calls, Plays(c) PROVE StatusByStep'
  BY <1>2 DEF Plays, CallAct, CallTimer, NoGame, Load, LimitReached, Reject,
    Persist, ApplyEffect, Target, Finds
<1>3. ASSUME NEW c \in Calls, Finishes(c) PROVE StatusByStep'
  BY <1>3 DEF Finishes, FinishFails, WriteResults, ShowResults, ForgetSession,
    ScheduleReturn
<1>4. ASSUME NEW c \in Calls, Returns(c) PROVE StatusByStep'
  BY <1>4 DEF Returns, CallReturn, ReturnToLobby, ForgetStandings
<1>5. ASSUME NEW c \in Calls, Leaves(c) PROVE StatusByStep'
  BY <1>5 DEF Leaves, CallRemove, SomebodyLeft, RoomEmptied, NothingToClear,
    FindSession, ClearSession, NotConcerned, Abandon, BackToLobby, Active
<1>6. ASSUME Join PROVE StatusByStep'
  BY <1>6 DEF Join
<1>7. ASSUME RestLeave PROVE StatusByStep'
  BY <1>7 DEF RestLeave
<1>8. ASSUME UNCHANGED vars PROVE StatusByStep'
  BY <1>8 DEF vars
<1> QED
  BY <1>1, <1>2, <1>3, <1>4, <1>5, <1>6, <1>7, <1>8 DEF Next

\* A return is scheduled by a finish alone, which no other return precedes.
LEMMA ReturnStep == Base /\ [Next]_vars => OneReturn'
<1> SUFFICES ASSUME Base, [Next]_vars PROVE OneReturn'
  OBVIOUS
<1> USE RuntimeAssumption, CallAssumption DEF Base, Calling, LockSteps, Works,
    Typed, StatusByStep, OneReturn, Arrives, Goes, Ends, Locks, Unlocks,
    Forget, Removes, room, sessions, keys, calls
<1>1. ASSUME NEW c \in Calls, Starts(c) PROVE OneReturn'
  BY <1>1 DEF Starts, CallStart, RefuseStart, CreateSession, StoreSession,
    EnterGame, MayStart
<1>2. ASSUME NEW c \in Calls, Plays(c) PROVE OneReturn'
  BY <1>2 DEF Plays, CallAct, CallTimer, NoGame, Load, LimitReached, Reject,
    Persist, ApplyEffect, Target, Finds
<1>3. ASSUME NEW c \in Calls, Finishes(c) PROVE OneReturn'
  BY <1>3 DEF Finishes, FinishFails, WriteResults, ShowResults, ForgetSession,
    ScheduleReturn
<1>4. ASSUME NEW c \in Calls, Returns(c) PROVE OneReturn'
  BY <1>4 DEF Returns, CallReturn, ReturnToLobby, ForgetStandings
<1>5. ASSUME NEW c \in Calls, Leaves(c) PROVE OneReturn'
  BY <1>5 DEF Leaves, CallRemove, SomebodyLeft, RoomEmptied, NothingToClear,
    FindSession, ClearSession, NotConcerned, Abandon, BackToLobby, Active
<1>6. ASSUME Join PROVE OneReturn'
  BY <1>6 DEF Join
<1>7. ASSUME RestLeave PROVE OneReturn'
  BY <1>7 DEF RestLeave
<1>8. ASSUME UNCHANGED vars PROVE OneReturn'
  BY <1>8 DEF vars
<1> QED
  BY <1>1, <1>2, <1>3, <1>4, <1>5, <1>6, <1>7, <1>8 DEF Next

\* Results are written under the lock, which is held until the state is gone.
NotYet == {"created", "stored", "loaded", "persisted", "finish"}
Written == {"written", "shown"}

\* What a step that writes no results and creates no session has to keep
LEMMA OnceStays ==
    ASSUME IInv, UNCHANGED <<created, rows>>,
           \A s \in Sessions : snapshot'[s] # Gone => snapshot[s] # Gone \/ rows[s] = 0,
           \A d \in Calls : pc'[d] \in NotYet => pc[d] \in NotYet \/ rows[created] = 0,
           \A d \in Calls : pc[d] \in Written =>
              pc'[d] \in Written \/ \A s \in Sessions : snapshot'[s] = Gone
    PROVE  Once'
BY DEF IInv, Once, NotYet, Written

LEMMA OnceStep == IInv /\ [Next]_vars => Once'
<1> SUFFICES ASSUME IInv, [Next]_vars PROVE Once'
  OBVIOUS
<1>1. /\ created \in 0..MaxSessions /\ MaxSessions \in Nat
      /\ pc \in [Calls -> Steps] /\ snapshot \in [Sessions -> 0..MaxActions \cup {Gone}]
      /\ rows \in [Sessions -> Nat]
  BY RuntimeAssumption DEF IInv, Base, Typed, Once
<1>2. \A c \in Calls : /\ pc[c] \in LockSteps <=> lock = c
                       /\ pc[c] \in {"created", "stored"} => created \in Sessions
                       /\ pc[c] \in Works \cup {"shown", "forgotten", "abandoned"} =>
                             op[c].session = created /\ created \in Sessions
  BY DEF IInv, Base, Calling
<1>3. NoCall \notin Calls
  BY CallAssumption
<1>4. /\ \A s \in Sessions : s > created => rows[s] = 0
      /\ \A s \in Sessions : snapshot[s] # Gone /\ rows[s] # 0 => \E c \in Calls : pc[c] \in Written
      /\ \A c \in Calls : pc[c] \in NotYet => rows[created] = 0
  BY DEF IInv, Once, NotYet, Written
<1>5. \A s \in Sessions : snapshot[s] # Gone => s = created
  BY DEF IInv, Base, OneSession
<1>6. ASSUME NEW c \in Calls, Starts(c) PROVE Once'
  <2>1. ASSUME CreateSession(c) PROVE Once'
    <3>1. /\ created' = created + 1 /\ created' \in Sessions /\ lock = NoCall
          /\ UNCHANGED <<rows, snapshot>> /\ pc' = [pc EXCEPT ![c] = "created"]
      BY <1>1, <2>1 DEF CreateSession, Locks, Goes, keys, Sessions
    <3>2. \A d \in Calls : pc[d] \notin LockSteps
      BY <1>2, <1>3, <3>1
    <3>3. rows[created'] = 0 /\ \A s \in Sessions : s > created' => rows[s] = 0
      BY <1>1, <1>4, <3>1 DEF Sessions
    <3>4. \A s \in Sessions : snapshot[s] # Gone => rows[s] = 0
      BY <1>4, <3>2 DEF Written, LockSteps
    <3> QED
      BY <1>1, <3>1, <3>3, <3>4 DEF Once
  <2>2. ASSUME StoreSession(c) PROVE Once'
    <3>1. /\ pc[c] = "created" /\ pc' = [pc EXCEPT ![c] = "stored"]
          /\ snapshot' = [snapshot EXCEPT ![created] = 0] /\ UNCHANGED <<created, rows>>
      BY <2>2 DEF StoreSession, Goes, sessions
    <3>2. rows[created] = 0 /\ \A d \in Calls : pc[d] \notin Written
      BY <1>2, <1>4, <3>1 DEF NotYet, Written, LockSteps
    <3>3. \A s \in Sessions : snapshot'[s] # Gone => snapshot[s] # Gone \/ rows[s] = 0
      BY <1>1, <3>1, <3>2
    <3>4. \A d \in Calls : pc'[d] \in NotYet => pc[d] \in NotYet \/ rows[created] = 0
      BY <3>2
    <3> QED
      BY <3>1, <3>2, <3>3, <3>4, OnceStays
  <2>3. ASSUME CallStart(c) \/ RefuseStart(c) \/ EnterGame(c) PROVE Once'
    <3>1. /\ UNCHANGED <<created, rows, snapshot>> /\ pc[c] \notin Written
          /\ pc' = [pc EXCEPT ![c] = "start"] \/ pc' = [pc EXCEPT ![c] = "free"]
      BY <2>3 DEF CallStart, RefuseStart, EnterGame, Arrives, Ends, sessions, keys, Written
    <3> QED
      BY <1>1, <3>1, OnceStays DEF NotYet, Written
  <2> QED
    BY <1>6, <2>1, <2>2, <2>3 DEF Starts
<1>7. ASSUME NEW c \in Calls, Plays(c) PROVE Once'
  <2>1. ASSUME Load(c) PROVE Once'
    <3>1. /\ snapshot[Target(c)] # Gone /\ lock = NoCall /\ pc[c] \in {"act", "timer"}
          /\ UNCHANGED <<created, rows, snapshot>> /\ pc' = [pc EXCEPT ![c] = "loaded"]
      BY <2>1 DEF Load, Finds, Locks, sessions, keys
    <3>2. Target(c) \in Sessions
      BY <2>1 DEF Load, Finds, Target, IInv, Base, Typed, Calling
    <3>3. rows[created] = 0 /\ \A d \in Calls : pc[d] \notin Written
      BY <1>2, <1>3, <1>4, <1>5, <3>1, <3>2 DEF Written, LockSteps
    <3> QED
      BY <1>1, <3>1, <3>3, OnceStays
  <2>2. ASSUME Persist(c) PROVE Once'
    <3>1. /\ pc[c] = "loaded" /\ pc' = [pc EXCEPT ![c] = "persisted"]
          /\ \A s \in Sessions : s # op[c].session => snapshot'[s] = snapshot[s]
          /\ UNCHANGED <<created, rows>>
      BY <1>1, <2>2 DEF Persist, Goes, sessions
    <3>2. /\ rows[created] = 0 /\ op[c].session = created
          /\ \A d \in Calls : pc[d] \notin Written
      BY <1>2, <1>4, <3>1 DEF NotYet, Written, Works, LockSteps
    <3>3. \A s \in Sessions : snapshot'[s] # Gone => snapshot[s] # Gone \/ rows[s] = 0
      BY <3>1, <3>2
    <3>4. \A d \in Calls : pc'[d] \in NotYet => pc[d] \in NotYet \/ rows[created] = 0
      BY <3>2
    <3> QED
      BY <3>1, <3>2, <3>3, <3>4, OnceStays
  <2>3. ASSUME CallAct(c) \/ CallTimer(c) \/ NoGame(c) \/ LimitReached(c) \/ Reject(c) \/ ApplyEffect(c)
        PROVE  Once'
    <3>1. /\ UNCHANGED <<created, rows, snapshot>> /\ pc[c] \notin Written
          /\ \/ pc' = [pc EXCEPT ![c] = "act"] \/ pc' = [pc EXCEPT ![c] = "timer"]
             \/ pc' = [pc EXCEPT ![c] = "free"]
             \/ pc' = [pc EXCEPT ![c] = "finish"] /\ pc[c] \in NotYet
      BY <2>3 DEF CallAct, CallTimer, NoGame, LimitReached, Reject, ApplyEffect, Arrives, Goes,
        Ends, sessions, keys, NotYet, Written
    <3> QED
      BY <1>1, <3>1, OnceStays DEF NotYet, Written
  <2> QED
    BY <1>7, <2>1, <2>2, <2>3 DEF Plays
<1>8. ASSUME NEW c \in Calls, Finishes(c) PROVE Once'
  <2>1. ASSUME WriteResults(c) PROVE Once'
    <3>1. /\ pc[c] = "finish" /\ pc' = [pc EXCEPT ![c] = "written"]
          /\ rows' = [rows EXCEPT ![op[c].session] = @ + 1] /\ UNCHANGED <<created, snapshot>>
      BY <2>1 DEF WriteResults, Goes, keys
    <3>2. op[c].session = created /\ created \in Sessions /\ created \in Nat
      BY <1>1, <1>2, <3>1 DEF Works
    <3>3. rows' \in [Sessions -> Nat] /\ \A s \in Sessions : s # created => rows'[s] = rows[s]
      BY <1>1, <3>1, <3>2
    <3>4. pc'[c] = "written" /\ \A d \in Calls : pc'[d] \notin NotYet
      BY <1>1, <1>2, <3>1 DEF NotYet, LockSteps
    <3>5. \A s \in Sessions : s > created => rows'[s] = 0
      BY <1>1, <1>4, <3>2, <3>3 DEF Sessions
    <3> QED
      BY <3>1, <3>3, <3>4, <3>5 DEF Once, NotYet
  <2>2. ASSUME ForgetSession(c) PROVE Once'
    <3>1. /\ pc[c] = "shown" /\ pc' = [pc EXCEPT ![c] = "forgotten"]
          /\ snapshot' = [snapshot EXCEPT ![op[c].session] = Gone]
          /\ UNCHANGED <<created, rows>>
      BY <2>2 DEF ForgetSession, Forget, Goes, sessions
    <3>2. \A s \in Sessions : snapshot'[s] = Gone
      BY <1>1, <1>2, <1>5, <3>1
    <3> QED
      BY <1>1, <3>1, <3>2, OnceStays DEF NotYet
  <2>3. ASSUME FinishFails(c) \/ ShowResults(c) \/ ScheduleReturn(c) PROVE Once'
    <3>1. /\ UNCHANGED <<created, rows, snapshot>>
          /\ \/ pc[c] \notin Written /\ pc' = [pc EXCEPT ![c] = "free"]
             \/ pc' = [pc EXCEPT ![c] = "shown"]
      BY <2>3 DEF FinishFails, ShowResults, ScheduleReturn, Goes, Ends, sessions, keys, Written
    <3> QED
      BY <1>1, <3>1, OnceStays DEF NotYet, Written
  <2> QED
    BY <1>8, <2>1, <2>2, <2>3 DEF Finishes
<1>9. ASSUME NEW c \in Calls, Returns(c) PROVE Once'
  <2>1. /\ UNCHANGED <<created, rows, snapshot>> /\ pc[c] \notin Written
        /\ \E to \in {"return", "returned", "free"} : pc' = [pc EXCEPT ![c] = to]
    BY <1>9 DEF Returns, CallReturn, ReturnToLobby, ForgetStandings, Arrives, Goes, Ends,
      sessions, keys, Written
  <2> QED
    BY <1>1, <2>1, OnceStays DEF NotYet, Written
<1>10. ASSUME NEW c \in Calls, Leaves(c) PROVE Once'
  <2>1. /\ UNCHANGED <<created, rows>> /\ pc[c] \notin Written
        /\ snapshot' = snapshot \/ \E s : snapshot' = [snapshot EXCEPT ![s] = Gone]
    BY <1>10 DEF Leaves, CallRemove, SomebodyLeft, RoomEmptied, NothingToClear, FindSession,
      ClearSession, NotConcerned, Abandon, BackToLobby, Arrives, Goes, Ends, Forget, sessions,
      keys, Written
  <2>2. \E to \in {"removed", "abandon", "emptied", "clearing", "abandoned", "free"} :
           pc' = [pc EXCEPT ![c] = to]
    BY <1>10 DEF Leaves, CallRemove, SomebodyLeft, RoomEmptied, NothingToClear, FindSession,
      ClearSession, NotConcerned, Abandon, BackToLobby, Arrives, Goes, Ends
  <2>3. \A s \in Sessions : snapshot'[s] # Gone => snapshot[s] # Gone
    BY <1>1, <2>1
  <2> QED
    BY <1>1, <2>1, <2>2, <2>3, OnceStays DEF NotYet, Written
<1>11. ASSUME Join \/ RestLeave \/ UNCHANGED vars PROVE Once'
  <2>1. UNCHANGED <<created, rows, snapshot, pc>>
    BY <1>11 DEF Join, RestLeave, vars, sessions, keys, calls
  <2> QED
    BY <2>1, OnceStays
<1> QED
  BY <1>6, <1>7, <1>8, <1>9, <1>10, <1>11 DEF Next

\* In an open room only the lock's holder ends sessions.
LEMMA RowsStep == Base /\ [Next]_vars => (~closed => Rows)'
<1> SUFFICES ASSUME Base, [Next]_vars PROVE (~closed => Rows)'
  OBVIOUS
<1> USE RuntimeAssumption, CallAssumption DEF Base, Calling, LockSteps, Works,
    Typed, Emptied, OneSession, StatusByStep, OneReturn, NoneLeft, OpenRoom,
    Unlocked, Gone, None, Sessions, Rows, Arrives, Goes, Ends, Locks, Unlocks,
    Forget, Removes, room, sessions, keys, calls
<1>1. ASSUME NEW c \in Calls, CallStart(c) PROVE (~closed => Rows)'
  BY <1>1 DEF CallStart
<1>2. ASSUME NEW c \in Calls, RefuseStart(c) PROVE (~closed => Rows)'
  BY <1>2 DEF RefuseStart
<1>3. ASSUME NEW c \in Calls, CreateSession(c) PROVE (~closed => Rows)'
  BY <1>3 DEF CreateSession, MayStart
<1>4. ASSUME NEW c \in Calls, StoreSession(c) PROVE (~closed => Rows)'
  BY <1>4 DEF StoreSession
<1>5. ASSUME NEW c \in Calls, EnterGame(c) PROVE (~closed => Rows)'
  BY <1>5 DEF EnterGame
<1>6. ASSUME NEW c \in Calls, CallAct(c) PROVE (~closed => Rows)'
  BY <1>6 DEF CallAct
<1>7. ASSUME NEW c \in Calls, CallTimer(c) PROVE (~closed => Rows)'
  BY <1>7 DEF CallTimer
<1>8. ASSUME NEW c \in Calls, NoGame(c) PROVE (~closed => Rows)'
  BY <1>8 DEF NoGame, Target, Finds
<1>9. ASSUME NEW c \in Calls, Load(c) PROVE (~closed => Rows)'
  BY <1>9 DEF Load, Target, Finds
<1>10. ASSUME NEW c \in Calls, LimitReached(c) PROVE (~closed => Rows)'
  BY <1>10 DEF LimitReached
<1>11. ASSUME NEW c \in Calls, Reject(c) PROVE (~closed => Rows)'
  BY <1>11 DEF Reject
<1>12. ASSUME NEW c \in Calls, Persist(c) PROVE (~closed => Rows)'
  BY <1>12 DEF Persist
<1>13. ASSUME NEW c \in Calls, ApplyEffect(c) PROVE (~closed => Rows)'
  BY <1>13 DEF ApplyEffect
<1>14. ASSUME NEW c \in Calls, FinishFails(c) PROVE (~closed => Rows)'
  BY <1>14 DEF FinishFails
<1>15. ASSUME NEW c \in Calls, WriteResults(c) PROVE (~closed => Rows)'
  BY <1>15 DEF WriteResults
<1>16. ASSUME NEW c \in Calls, ShowResults(c) PROVE (~closed => Rows)'
  BY <1>16 DEF ShowResults
<1>17. ASSUME NEW c \in Calls, ForgetSession(c) PROVE (~closed => Rows)'
  BY <1>17 DEF ForgetSession
<1>18. ASSUME NEW c \in Calls, ScheduleReturn(c) PROVE (~closed => Rows)'
  BY <1>18 DEF ScheduleReturn
<1>19. ASSUME NEW c \in Calls, CallReturn(c) PROVE (~closed => Rows)'
  BY <1>19 DEF CallReturn
<1>20. ASSUME NEW c \in Calls, ReturnToLobby(c) PROVE (~closed => Rows)'
  BY <1>20 DEF ReturnToLobby
<1>21. ASSUME NEW c \in Calls, ForgetStandings(c) PROVE (~closed => Rows)'
  BY <1>21 DEF ForgetStandings
<1>22. ASSUME NEW c \in Calls, CallRemove(c) PROVE (~closed => Rows)'
  BY <1>22 DEF CallRemove
<1>23. ASSUME NEW c \in Calls, SomebodyLeft(c) PROVE (~closed => Rows)'
  BY <1>23 DEF SomebodyLeft
<1>24. ASSUME NEW c \in Calls, RoomEmptied(c) PROVE (~closed => Rows)'
  BY <1>24 DEF RoomEmptied
<1>25. ASSUME NEW c \in Calls, NothingToClear(c) PROVE (~closed => Rows)'
  BY <1>25 DEF NothingToClear
<1>26. ASSUME NEW c \in Calls, FindSession(c) PROVE (~closed => Rows)'
  BY <1>26 DEF FindSession
<1>27. ASSUME NEW c \in Calls, ClearSession(c) PROVE (~closed => Rows)'
  BY <1>27 DEF ClearSession
<1>28. ASSUME NEW c \in Calls, NotConcerned(c) PROVE (~closed => Rows)'
  BY <1>28 DEF NotConcerned, Active
<1>29. ASSUME NEW c \in Calls, Abandon(c) PROVE (~closed => Rows)'
  BY <1>29 DEF Abandon, Active
<1>30. ASSUME NEW c \in Calls, BackToLobby(c) PROVE (~closed => Rows)'
  BY <1>30 DEF BackToLobby
<1>31. ASSUME Join PROVE (~closed => Rows)'
  BY <1>31 DEF Join
<1>32. ASSUME RestLeave PROVE (~closed => Rows)'
  BY <1>32 DEF RestLeave
<1>33. ASSUME UNCHANGED vars PROVE (~closed => Rows)'
  BY <1>33 DEF vars
<1> HIDE DEF Base, Calling, Typed, Emptied, OneSession, StatusByStep, OneReturn, OpenRoom, Rows
<1> QED
  BY <1>1, <1>2, <1>3, <1>4, <1>5, <1>6, <1>7, <1>8, <1>9, <1>10,
    <1>11, <1>12, <1>13, <1>14, <1>15, <1>16, <1>17, <1>18, <1>19,
    <1>20, <1>21, <1>22, <1>23, <1>24, <1>25, <1>26, <1>27, <1>28,
    <1>29, <1>30, <1>31, <1>32, <1>33 DEF Next, Starts, Plays, Finishes, Returns, Leaves

\* Every step that ends a session clears its timers.
LEMMA TimersStep == Base /\ [Next]_vars => (~closed => timers \subseteq {sessionKey})'
<1> SUFFICES ASSUME Base, [Next]_vars PROVE (~closed => timers \subseteq {sessionKey})'
  OBVIOUS
<1> USE RuntimeAssumption, CallAssumption DEF Base, Calling, LockSteps, Works,
    Typed, Emptied, OneSession, StatusByStep, OneReturn, NoneLeft, OpenRoom,
    Unlocked, Gone, None, Sessions, Rows, Arrives, Goes, Ends, Locks, Unlocks,
    Forget, Removes, room, sessions, keys, calls
<1>1. ASSUME NEW c \in Calls, CallStart(c) PROVE (~closed => timers \subseteq {sessionKey})'
  BY <1>1 DEF CallStart
<1>2. ASSUME NEW c \in Calls, RefuseStart(c) PROVE (~closed => timers \subseteq {sessionKey})'
  BY <1>2 DEF RefuseStart
<1>3. ASSUME NEW c \in Calls, CreateSession(c) PROVE (~closed => timers \subseteq {sessionKey})'
  BY <1>3 DEF CreateSession, MayStart
<1>4. ASSUME NEW c \in Calls, StoreSession(c) PROVE (~closed => timers \subseteq {sessionKey})'
  BY <1>4 DEF StoreSession
<1>5. ASSUME NEW c \in Calls, EnterGame(c) PROVE (~closed => timers \subseteq {sessionKey})'
  BY <1>5 DEF EnterGame
<1>6. ASSUME NEW c \in Calls, Plays(c) PROVE (~closed => timers \subseteq {sessionKey})'
  BY <1>6 DEF Plays, CallAct, CallTimer, NoGame, Load, LimitReached, Reject,
    Persist, ApplyEffect, Target, Finds
<1>7. ASSUME NEW c \in Calls, Finishes(c) PROVE (~closed => timers \subseteq {sessionKey})'
  <2>1. CASE ForgetSession(c)
    <3>1. op[c].session = created /\ (sessionKey # None => sessionKey = created)
      BY <2>1 DEF ForgetSession
    <3>2. timers' = timers \ {created} /\ closed' = closed
      BY <2>1, <3>1 DEF ForgetSession
    <3>3. closed \/ \A s \in timers : s = sessionKey /\ s # None
      OBVIOUS
    <3>4. closed \/ \A s \in timers : s = created
      BY <3>1, <3>3
    <3>5. closed' \/ timers' = {}
      BY <3>2, <3>4
    <3> QED
      BY <3>5
  <2>2. CASE FinishFails(c) \/ WriteResults(c) \/ ShowResults(c) \/ ScheduleReturn(c)
    BY <2>2 DEF FinishFails, WriteResults, ShowResults, ScheduleReturn
  <2> QED
    BY <1>7, <2>1, <2>2 DEF Finishes
<1>8. ASSUME NEW c \in Calls, Returns(c) PROVE (~closed => timers \subseteq {sessionKey})'
  BY <1>8 DEF Returns, CallReturn, ReturnToLobby, ForgetStandings
<1>9. ASSUME NEW c \in Calls, Leaves(c) PROVE (~closed => timers \subseteq {sessionKey})'
  BY <1>9 DEF Leaves, CallRemove, SomebodyLeft, RoomEmptied, NothingToClear,
    FindSession, ClearSession, NotConcerned, Abandon, BackToLobby, Active
<1>10. ASSUME Join PROVE (~closed => timers \subseteq {sessionKey})'
  BY <1>10 DEF Join
<1>11. ASSUME RestLeave PROVE (~closed => timers \subseteq {sessionKey})'
  BY <1>11 DEF RestLeave
<1>12. ASSUME UNCHANGED vars PROVE (~closed => timers \subseteq {sessionKey})'
  BY <1>12 DEF vars
<1> QED
  BY <1>1, <1>2, <1>3, <1>4, <1>5, <1>6, <1>7, <1>8, <1>9, <1>10,
    <1>11, <1>12 DEF Next, Starts

\* A call that neither begins a session nor removes anybody leaves things so.
LEMMA StaysPresent ==
    ASSUME NEW c \in Calls, ~closed => Present,
           UNCHANGED <<closed, members, silent, created, players>>,
           sessionKey' \in {sessionKey, None},
           \A d \in Calls : d # c => pc'[d] = pc[d] /\ op'[d] = op[d],
           pc[c] \notin {"created", "removed", "abandon"},
           pc'[c] \notin {"created", "removed", "abandon"}
    PROVE  (~closed => Present)'
<1>1. At({"removed", "abandon"})' = At({"removed", "abandon"})
  BY DEF At
<1>2. \A d \in At({"removed", "abandon"}) : op'[d] = op[d]
  BY DEF At
<1>3. Leaving' = Leaving
  BY <1>1, <1>2 DEF Leaving
<1>4. (\E d \in Calls : pc'[d] = "created") <=> (\E d \in Calls : pc[d] = "created")
  OBVIOUS
<1>5. sessionKey' # None => sessionKey # None
  OBVIOUS
<1> QED
  BY <1>3, <1>4, <1>5 DEF Present

\* Whoever goes is being cleaned up after, until the session is aborted.
LEMMA PresentStep == Base /\ [Next]_vars => (~closed => Present)'
<1> SUFFICES ASSUME Base, [Next]_vars PROVE (~closed => Present)'
  OBVIOUS
<1>a. ~closed => Present
  BY DEF Base, OpenRoom
<1> USE RuntimeAssumption, CallAssumption DEF Arrives, Goes, Ends, room, sessions, keys, calls
<1>1. ASSUME NEW c \in Calls,
             \/ CallStart(c) \/ RefuseStart(c) \/ EnterGame(c)
             \/ CallAct(c) \/ CallTimer(c) \/ NoGame(c) \/ Load(c)
             \/ LimitReached(c) \/ Reject(c) \/ Persist(c) \/ ApplyEffect(c)
             \/ Finishes(c) \/ Returns(c)
             \/ NothingToClear(c) \/ FindSession(c) \/ ClearSession(c)
      PROVE  (~closed => Present)'
  <2> DEFINE Others == {"free", "start", "stored", "act", "timer", "loaded", "persisted",
                        "finish", "written", "shown", "forgotten", "return", "returned",
                        "emptied", "clearing"}
  <2> USE DEF CallStart, RefuseStart, EnterGame, CallAct, CallTimer, NoGame, Load, LimitReached,
        Reject, Persist, ApplyEffect, Finishes, FinishFails, WriteResults, ShowResults,
        ForgetSession, ScheduleReturn, Returns, CallReturn, ReturnToLobby, ForgetStandings,
        NothingToClear, FindSession, ClearSession
  <2>1. UNCHANGED <<closed, members, silent, created, players>>
    BY <1>1
  <2>2. sessionKey' \in {sessionKey, None}
    BY <1>1 DEF Forget
  <2>3. pc[c] \in Others /\ \E step \in Others : pc' = [pc EXCEPT ![c] = step]
    BY <1>1
  <2>4. op' = op \/ \E o : op' = [op EXCEPT ![c] = o]
    BY <1>1
  <2>5. pc \in [Calls -> Steps] /\ DOMAIN op = Calls
    BY DEF Base, Typed, Calling
  <2> HIDE DEF CallStart, RefuseStart, EnterGame, CallAct, CallTimer, NoGame, Load, LimitReached,
        Reject, Persist, ApplyEffect, Finishes, FinishFails, WriteResults, ShowResults,
        ForgetSession, ScheduleReturn, Returns, CallReturn, ReturnToLobby, ForgetStandings,
        NothingToClear, FindSession, ClearSession
  <2>6. \A d \in Calls : d # c => pc'[d] = pc[d] /\ op'[d] = op[d]
    BY <2>3, <2>4, <2>5
  <2>7. pc[c] \notin {"created", "removed", "abandon"} /\ pc'[c] \notin {"created", "removed", "abandon"}
    BY <2>3, <2>5
  <2> QED
    BY <1>a, <2>1, <2>2, <2>6, <2>7, StaysPresent
<1> USE <1>a DEF Present, At, Leaving
<1>2. ASSUME NEW c \in Calls, CreateSession(c) PROVE (~closed => Present)'
  BY <1>2 DEF CreateSession, Base, Typed, Sessions
<1>3. ASSUME NEW c \in Calls, StoreSession(c) PROVE (~closed => Present)'
  BY <1>3 DEF StoreSession, Base, Typed
<1> USE DEF Base, Calling, LockSteps, Works, Typed, Emptied, OneSession, Unlocked, Gone, None,
    Sessions, Locks, Unlocks, Forget, Removes
<1>4. ASSUME NEW c \in Calls, CallRemove(c) PROVE (~closed => Present)'
  <2>1. PICK u \in Users :
           /\ IF u \in members THEN Removes(u) ELSE UNCHANGED <<members, host, closed>>
           /\ Arrives(c, "removed", [kind |-> "remove", user |-> u])
           /\ UNCHANGED <<sessionKey, created, players, silent>>
    BY <1>4 DEF CallRemove
  <2>2. (~closed' => ~closed) /\ members \subseteq members' \cup {u}
    BY <2>1
  <2>3. \A d \in Calls : d # c => pc'[d] = pc[d] /\ op'[d] = op[d]
    BY <2>1
  <2>4. pc[c] = "free" /\ pc'[c] = "removed" /\ op'[c].user = u
    BY <2>1
  <2>5. Leaving \subseteq Leaving' /\ u \in Leaving'
    BY <2>3, <2>4
  <2>6. (\E d \in Calls : pc'[d] = "created") => \E d \in Calls : pc[d] = "created"
    BY <2>3, <2>4
  <2> HIDE DEF Leaving
  <2> QED
    BY <1>a, <2>1, <2>2, <2>5, <2>6
<1>5. ASSUME NEW c \in Calls, SomebodyLeft(c) PROVE (~closed => Present)'
  BY <1>5 DEF SomebodyLeft
<1>6. ASSUME NEW c \in Calls, RoomEmptied(c) PROVE (~closed => Present)'
  BY <1>6 DEF RoomEmptied
<1>7. ASSUME NEW c \in Calls, NotConcerned(c) PROVE (~closed => Present)'
  BY <1>7 DEF NotConcerned, Active
<1>8. ASSUME NEW c \in Calls, Abandon(c) PROVE (~closed => Present)'
  BY <1>8 DEF Abandon, Active
<1>9. ASSUME NEW c \in Calls, BackToLobby(c) PROVE (~closed => Present)'
  BY <1>9 DEF BackToLobby
<1>10. ASSUME Join PROVE (~closed => Present)'
  BY <1>10 DEF Join
<1>11. ASSUME RestLeave PROVE (~closed => Present)'
  BY <1>11 DEF RestLeave
<1>12. ASSUME UNCHANGED vars PROVE (~closed => Present)'
  BY <1>12 DEF vars
<1> HIDE DEF Base, Calling, Typed, Emptied, OneSession, Present
<1> QED
  BY <1>1, <1>2, <1>3, <1>4, <1>5, <1>6, <1>7, <1>8, <1>9, <1>10, <1>11, <1>12
     DEF Next, Starts, Plays, Leaves

LEMMA Inductive == Spec => []IInv
<1>1. Init => IInv
  <2> SUFFICES ASSUME Init PROVE IInv
    OBVIOUS
  <2>1. Typed
    <3>1. players \in [Sessions -> SUBSET Users] /\ snapshot \in [Sessions -> 0..MaxActions \cup {Gone}]
      BY DEF Init
    <3>2. pc \in [Calls -> Steps] /\ lock \in Calls \cup {NoCall}
      BY DEF Init, Steps
    <3>3. created \in 0..MaxSessions /\ sessionKey = None /\ standings = None
      BY RuntimeAssumption DEF Init
    <3>4. members \subseteq Users /\ host \in Users
      BY DEF Init
    <3>5. /\ status \in {"lobby", "in_game", "results"} /\ closed \in BOOLEAN
          /\ lobbyReturn \in BOOLEAN
          /\ ended \subseteq Sessions /\ timers \subseteq Sessions
          /\ silent \subseteq Users
      BY DEF Init
    <3> QED
      BY <3>1, <3>2, <3>3, <3>4, <3>5 DEF Typed
  <2>2. Calling /\ Emptied /\ OneReturn
    BY CallAssumption DEF Init, Calling, LockSteps, Works, Emptied, OneReturn
  <2>3. OneSession /\ StatusByStep /\ OpenRoom
    BY DEF Init, OneSession, StatusByStep, NoneLeft, LockSteps, Works, OpenRoom, Rows,
           Present, Unlocked, Sessions, None, Gone
  <2>4. Once
    BY CallAssumption DEF Init, Once, Gone
  <2> QED
    BY <2>1, <2>2, <2>3, <2>4 DEF IInv, Base
<1>2. IInv /\ [Next]_vars => IInv'
  <2> SUFFICES ASSUME IInv, [Next]_vars PROVE IInv'
    OBVIOUS
  <2>1. /\ Typed' /\ Calling' /\ Emptied' /\ OneSession' /\ StatusByStep' /\ OneReturn'
        /\ Once'
    BY TypeStep, CallingStep, EmptiedStep, OneSessionStep, StatusStep, ReturnStep, OnceStep
       DEF IInv
  <2>2. OpenRoom'
    BY RowsStep, TimersStep, PresentStep DEF IInv, OpenRoom
  <2> QED
    BY <2>1, <2>2 DEF IInv, Base
<1> QED
  BY <1>1, <1>2, PTL DEF Spec

-----------------------------------------------------------------------------
\* Every variable stays within its type: no more sessions than the bound, and
\* no more actions than MAX_ACTIONS_PER_SESSION in any of them.
THEOREM TypeCorrect == Spec => []TypeOK
<1>1. IInv => TypeOK
  BY DEF IInv, Base, Once, TypeOK
<1> QED
  BY <1>1, Inductive, PTL

\* Whenever the lock is free, an open room is in_game exactly while a session
\* can be loaded, and nothing is left of the sessions before it, although the
\* removal of the last member and the return to the lobby take no lock.
THEOREM StatusFitsSessionCorrect == Spec => []StatusFitsSession
<1>1. IInv => StatusFitsSession
  <2> SUFFICES ASSUME IInv, Unlocked, ~closed
               PROVE  /\ status = "in_game" <=> Active
                      /\ \A s \in Sessions \ {sessionKey} :
                            (s <= created => s \in ended) /\ snapshot[s] = Gone /\ s \notin timers
    BY DEF StatusFitsSession, InGameMeansSession, OldSessionsAreGone
  <2>1. sessionKey # None => sessionKey = created /\ sessionKey \in Sessions /\ Active
    BY DEF IInv, Base, Typed, OneSession, Active
  <2>2. status = "in_game" => sessionKey # None
    BY DEF IInv, Base, OpenRoom, Rows
  <2>3. status # "in_game" => NoneLeft
    BY DEF IInv, Base, StatusByStep
  <2>4. status = "in_game" <=> Active
    BY <2>1, <2>2, <2>3 DEF Active, NoneLeft
  <2>5. ASSUME NEW s \in Sessions, s # sessionKey
        PROVE  (s <= created => s \in ended) /\ snapshot[s] = Gone /\ s \notin timers
    <3>1. snapshot[s] = Gone
      BY <2>1, <2>2, <2>3, <2>5 DEF IInv, Base, OneSession, NoneLeft
    <3>2. s \notin timers
      BY <2>5 DEF IInv, Base, OpenRoom
    <3>3. s = created => status # "in_game"
      BY <2>1, <2>2, <2>5
    <3>4. s = created => s \in ended
      BY <3>3 DEF IInv, Base, OpenRoom, Rows, Sessions
    <3>5. s < created => s \in ended
      BY DEF IInv, Base, OpenRoom, Rows
    <3>6. s <= created => s = created \/ s < created
      BY DEF IInv, Base, Typed, Sessions
    <3> QED
      BY <3>1, <3>2, <3>4, <3>5, <3>6
  <2> QED
    BY <2>4, <2>5
<1> QED
  BY <1>1, Inductive, PTL

\* No session of an open room waits for a player who is gone, except one who
\* left by REST or whose removal is still being cleaned up after.
THEOREM NobodyIsMissedCorrect == Spec => []NobodyIsMissed
<1>1. IInv => NobodyIsMissed
  BY DEF IInv, Base, OpenRoom, Present, OneSession, Active, NobodyIsMissed
<1> QED
  BY <1>1, Inductive, PTL

\* No session gets its results twice, whether or not its room was emptied
\* meanwhile, and in an open room none gets them after it has ended.
THEOREM NoLateResultsCorrect == Spec => NoLateResults
<1>1. IInv /\ [Next]_vars =>
        \A s \in Sessions : rows'[s] # rows[s] => rows[s] = 0 /\ (s \in ended => closed)
  <2> SUFFICES ASSUME IInv, [Next]_vars, NEW s \in Sessions, rows'[s] # rows[s]
               PROVE  rows[s] = 0 /\ (s \in ended => closed)
    OBVIOUS
  <2>1. ASSUME NEW c \in Calls, WriteResults(c)
        PROVE  s = op[c].session /\ rows[s] = 0 /\ (s \in ended => closed)
    BY <2>1 DEF WriteResults, Goes, IInv, Base, Typed, Calling, Works, OpenRoom, Rows, Once
  <2>2. rows' # rows => \E c \in Calls : WriteResults(c)
    BY DEF Next, Join, RestLeave, Starts, CallStart, RefuseStart, CreateSession, StoreSession,
      EnterGame, Plays, CallAct, CallTimer, NoGame, Load, LimitReached, Reject, Persist,
      ApplyEffect, Finishes, FinishFails, ShowResults, ForgetSession, ScheduleReturn,
      Returns, CallReturn, ReturnToLobby, ForgetStandings, Leaves, CallRemove, SomebodyLeft,
      RoomEmptied, NothingToClear, FindSession, ClearSession, NotConcerned, Abandon,
      BackToLobby, sessions, vars
  <2> QED
    BY <2>1, <2>2
<1> QED
  BY <1>1, Inductive, PTL DEF Spec, NoLateResults

-----------------------------------------------------------------------------
\* A session its members do not see yet: its call is between the row and the
\* status.
Beginning(c) == pc[c] \in {"created", "stored"}

BegunCount ==
    /\ \A c \in Calls : Beginning(c) => Begun = created - 1
    /\ (\A c \in Calls : ~Beginning(c)) => Begun = created

LEMMA BegunCounts == IInv => BegunCount
<1> SUFFICES ASSUME IInv PROVE BegunCount
  OBVIOUS
<1>1. ASSUME NEW c \in Calls, Beginning(c)
      PROVE  Begun = created - 1
  <2>1. At({"created", "stored"}) = {c}
    BY <1>1 DEF At, Beginning, IInv, Base, Calling, LockSteps
  <2> QED
    BY <2>1, FS_Singleton DEF Begun
<1>2. ASSUME \A c \in Calls : ~Beginning(c)
      PROVE  Begun = created
  <2>1. At({"created", "stored"}) = {}
    BY <1>2 DEF At, Beginning
  <2>2. created - 0 = created
    BY DEF IInv, Base, Typed
  <2> QED
    BY <2>1, <2>2, FS_EmptySet DEF Begun
<1> QED
  BY <1>1, <1>2 DEF BegunCount

\* However its calls interleave, a room goes lobby, in_game, results, lobby,
\* and an aborted session goes straight back to the lobby.
THEOREM LifecycleImplemented == Spec => ImplementsLifecycle
<1>1. Init => Life!Init
  <2> SUFFICES ASSUME Init PROVE Life!Init
    OBVIOUS
  <2>1. At({"created", "stored"}) = {}
    BY DEF Init, At
  <2>2. Begun = 0 - 0
    BY <2>1, FS_EmptySet DEF Init, Begun
  <2> QED
    BY <2>2 DEF Init, Life!Init
<1>2. IInv /\ IInv' /\ [Next]_vars => [Life!Next]_Life!vars
  <2> SUFFICES ASSUME IInv, IInv', [Next]_vars PROVE [Life!Next]_Life!vars
    OBVIOUS
  <2>0. BegunCount /\ BegunCount'
    BY BegunCounts, PTL
  <2> USE DEF Arrives, Goes, Ends, Locks, Unlocks, Life!Next, Life!vars
  <2>1. ASSUME created' = created, \A d \in Calls : Beginning(d) <=> Beginning(d)'
        PROVE  Begun' = Begun
    BY <2>1 DEF Begun, At, Beginning
  <2>2. ASSUME NEW c \in Calls, CreateSession(c)
        PROVE  UNCHANGED Life!vars
    <3>1. \A d \in Calls : ~Beginning(d)
      BY <2>2, CallAssumption DEF CreateSession, Beginning, IInv, Base, Calling, LockSteps
    <3>2. Beginning(c)'
      BY <2>2 DEF CreateSession, Beginning, IInv, Base, Typed
    <3>3. Begun = created /\ Begun' = created' - 1
      BY <3>1, <3>2, <2>0 DEF BegunCount
    <3> QED
      BY <2>2, <3>3 DEF CreateSession, IInv, Base, Typed
  <2>3. ASSUME NEW c \in Calls, EnterGame(c)
        PROVE  Life!Begin
    <3>1. Beginning(c) /\ \A d \in Calls : ~Beginning(d)'
      BY <2>3 DEF EnterGame, Beginning, IInv, Base, Typed, Calling, LockSteps
    <3>2. Begun = created - 1 /\ Begun' = created'
      BY <3>1, <2>0 DEF BegunCount
    <3>3. status = "lobby" /\ status' = "in_game" /\ created' = created
      BY <2>3 DEF EnterGame, IInv, Base, StatusByStep, sessions
    <3> QED
      BY <3>2, <3>3 DEF Life!Begin, IInv, Base, Typed
  <2>4. ASSUME NEW c \in Calls, ShowResults(c)
        PROVE  Life!Finish
    BY <2>1, <2>4
    DEF ShowResults, Beginning, Life!Finish, IInv, Base, Typed, Calling, StatusByStep, Works
  <2>5. ASSUME NEW c \in Calls, BackToLobby(c)
        PROVE  Life!Abort
    BY <2>1, <2>5
    DEF BackToLobby, Beginning, Life!Abort, IInv, Base, Typed, Calling, StatusByStep, Works
  <2>6. ASSUME NEW c \in Calls, ReturnToLobby(c)
        PROVE  Life!Return
    BY <2>1, <2>6
    DEF ReturnToLobby, sessions, Beginning, Life!Return, IInv, Base, Typed, Calling, OneReturn
  <2>7. ASSUME NEW c \in Calls,
               CallStart(c) \/ RefuseStart(c) \/ StoreSession(c) \/ Plays(c)
        PROVE  UNCHANGED Life!vars
    BY <2>1, <2>7
    DEF CallStart, RefuseStart, StoreSession, Plays, CallAct, CallTimer, NoGame, Load,
      LimitReached, Reject, Persist, ApplyEffect, Beginning, sessions, IInv, Base, Typed, Calling
  <2>8. ASSUME NEW c \in Calls,
               \/ FinishFails(c) \/ WriteResults(c) \/ ForgetSession(c) \/ ScheduleReturn(c)
               \/ CallReturn(c) \/ ForgetStandings(c)
        PROVE  UNCHANGED Life!vars
    BY <2>1, <2>8
    DEF FinishFails, WriteResults, ForgetSession, ScheduleReturn, CallReturn,
      ForgetStandings, Beginning, sessions, IInv, Base, Typed, Calling
  <2>9. ASSUME NEW c \in Calls,
               \/ CallRemove(c) \/ SomebodyLeft(c) \/ RoomEmptied(c) \/ NothingToClear(c)
               \/ FindSession(c) \/ ClearSession(c) \/ NotConcerned(c) \/ Abandon(c)
        PROVE  UNCHANGED Life!vars
    BY <2>1, <2>9
    DEF CallRemove, SomebodyLeft, RoomEmptied, NothingToClear, FindSession, ClearSession,
      NotConcerned, Abandon, Beginning, sessions, IInv, Base, Typed, Calling
  <2>10. ASSUME Join \/ RestLeave \/ UNCHANGED vars
         PROVE  UNCHANGED Life!vars
    BY <2>1, <2>10 DEF Join, RestLeave, vars, sessions, calls, Beginning
  <2> QED
    BY <2>2, <2>3, <2>4, <2>5, <2>6, <2>7, <2>8, <2>9, <2>10
    DEF Next, Starts, Finishes, Returns, Leaves
<1> QED
  BY <1>1, <1>2, Inductive, PTL DEF Spec, ImplementsLifecycle, Life!Spec
=============================================================================
