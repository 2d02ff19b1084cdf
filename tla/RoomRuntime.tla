---------------------------- MODULE RoomRuntime ----------------------------
(***************************************************************************)
(* GameRuntimeService over the life of one room: game:start, game actions, *)
(* session timers, the finish, the removal of members with the abort or    *)
(* clean-up that follows, and the return to the lobby.  Every operation is *)
(* a call that advances between its awaits; most of it runs under the lock *)
(* room:<id>, but handleRoomEmptied and returnToLobby do not take it.      *)
(*                                                                         *)
(* A session's state is abstracted to its action count: any action may be  *)
(* rejected, may set or clear timers and may finish the game.  The lock    *)
(* works (RedisLock) and no await fails.  Whoever is left may become host. *)
(***************************************************************************)
EXTENDS Integers, FiniteSets

CONSTANTS
    Users,
    MinPlayers,   \* of the selected game's catalogue entry
    MaxActions,   \* MAX_ACTIONS_PER_SESSION
    MaxSessions,  \* bound: how many sessions the room may begin
    Calls,        \* bound: how many calls are in flight together
    Removals      \* bound: the calls among them that only remove members

ASSUME RuntimeAssumption ==
    /\ MinPlayers \in Nat \ {0}
    /\ MaxActions \in Nat
    /\ MaxSessions \in Nat
    /\ Removals \subseteq Calls

VARIABLES
    status, members, host, closed,  \* the rooms and room_members rows
    created,      \* how many game_sessions rows there are
    players,      \* the playerIds of each session
    ended,        \* the sessions whose endedAt is set
    rows,         \* how often game_results rows were written for each session
    silent,       \* history: who left by REST and has not come back
    sessionKey,   \* room:{id}:session in Redis, or None
    snapshot,     \* session:{id}:state in Redis: its action count, or Gone
    standings,    \* room:{id}:standings in Redis, or None
    timers,       \* the sessions with a timer armed
    lobbyReturn,  \* the room has an entry in lobbyReturnTimers
    lock,         \* the call that holds room:<id>, or NoCall
    pc, op        \* how far each call came, and what it works with

room == <<members, host, closed, silent>>
sessions == <<created, players, ended, rows>>
keys == <<sessionKey, snapshot, standings>>
calls == <<lock, pc, op>>
vars == <<status, room, sessions, keys, timers, lobbyReturn, calls>>

None == 0
Gone == -1
NoCall == "none"

ASSUME CallAssumption == NoCall \notin Calls

Sessions == 1..MaxSessions
NoOp == [kind |-> "none"]

Init ==
    /\ status = "lobby"
    /\ members \in SUBSET Users \ {{}}
    /\ host \in members
    /\ closed = FALSE
    /\ created = 0
    /\ players = [s \in Sessions |-> {}]
    /\ ended = {}
    /\ rows = [s \in Sessions |-> 0]
    /\ silent = {}
    /\ sessionKey = None
    /\ snapshot = [s \in Sessions |-> Gone]
    /\ standings = None
    /\ timers = {}
    /\ lobbyReturn = FALSE
    /\ lock = NoCall
    /\ pc = [c \in Calls |-> "free"]
    /\ op = [c \in Calls |-> NoOp]

-----------------------------------------------------------------------------
\* A call arrives, goes on holding the lock, or ends and lets it go.
Arrives(c, step, operation) ==
    /\ pc[c] = "free"
    /\ pc' = [pc EXCEPT ![c] = step]
    /\ op' = [op EXCEPT ![c] = operation]

Goes(c, from, to) ==
    /\ pc[c] = from
    /\ pc' = [pc EXCEPT ![c] = to]
    /\ UNCHANGED op

Ends(c, from) ==
    /\ pc[c] = from
    /\ pc' = [pc EXCEPT ![c] = "free"]
    /\ op' = [op EXCEPT ![c] = NoOp]

Locks(c) == lock = NoCall /\ lock' = c
Unlocks(c) == lock' = NoCall

\* tryLoadActiveGame finds a session.
Active == sessionKey # None /\ snapshot[sessionKey] # Gone

\* Deviation: only the room's key is deleted.
ForgetRoomKey(s) == sessionKey' = None /\ UNCHANGED <<timers, snapshot>>

\* clearAll and the deletion of both keys
Forget(s) ==
    /\ timers' = timers \ {s}
    /\ snapshot' = [snapshot EXCEPT ![s] = Gone]
    /\ sessionKey' = None

-----------------------------------------------------------------------------
\* game:start
CallStart(c) ==
    /\ \E u \in members : Arrives(c, "start", [kind |-> "start", user |-> u])
    /\ UNCHANGED <<status, room, sessions, keys, timers, lobbyReturn, lock>>

\* Deviation: the status is not checked.
MayStartAnyTime(u) == host = u /\ Cardinality(members) >= MinPlayers

MayStart(u) ==
    /\ host = u
    /\ status = "lobby"
    /\ Cardinality(members) >= MinPlayers

RefuseStart(c) ==
    /\ lock = NoCall
    /\ pc[c] = "start" /\ ~(MayStart(op[c].user) /\ created < MaxSessions)
    /\ Ends(c, "start")
    /\ UNCHANGED <<status, room, sessions, keys, timers, lobbyReturn, lock>>

\* doStart: the checks and the game_sessions row
CreateSession(c) ==
    /\ pc[c] = "start" /\ MayStart(op[c].user)
    /\ created < MaxSessions
    /\ Locks(c)
    /\ Goes(c, "start", "created")
    /\ created' = created + 1
    /\ players' = [players EXCEPT ![created'] = members]
    /\ UNCHANGED <<status, room, ended, rows, keys, timers, lobbyReturn>>

StoreSession(c) ==
    /\ Goes(c, "created", "stored")
    /\ snapshot' = [snapshot EXCEPT ![created] = 0]
    /\ sessionKey' = created
    /\ UNCHANGED <<status, room, sessions, standings, timers, lobbyReturn, lock>>

EnterGame(c) ==
    /\ Ends(c, "stored")
    /\ Unlocks(c)
    /\ status' = "in_game"
    /\ UNCHANGED <<room, sessions, keys, timers, lobbyReturn>>

-----------------------------------------------------------------------------
\* game:action; the sender may have lost its membership since
CallAct(c) ==
    /\ Arrives(c, "act", [kind |-> "act"])
    /\ UNCHANGED <<status, room, sessions, keys, timers, lobbyReturn, lock>>

\* A session timer fires.
CallTimer(c) ==
    /\ \E s \in timers :
          /\ Arrives(c, "timer", [kind |-> "timer", session |-> s])
          /\ timers' = timers \ {s}
    /\ UNCHANGED <<status, room, sessions, keys, lobbyReturn, lock>>

\* The session a call is about: the room's for an action, the timer's own.
Target(c) == IF op[c].kind = "timer" THEN op[c].session ELSE sessionKey
Finds(c) == Target(c) # None /\ snapshot[Target(c)] # Gone

NoGame(c) ==
    /\ lock = NoCall
    /\ pc[c] \in {"act", "timer"} /\ ~Finds(c)
    /\ Ends(c, pc[c])
    /\ UNCHANGED <<status, room, sessions, keys, timers, lobbyReturn, lock>>

Load(c) ==
    /\ pc[c] \in {"act", "timer"} /\ Finds(c)
    /\ Locks(c)
    /\ pc' = [pc EXCEPT ![c] = "loaded"]
    /\ op' = [op EXCEPT ![c] = [kind |-> @.kind, session |-> Target(c),
                                count |-> snapshot[Target(c)]]]
    /\ UNCHANGED <<status, room, sessions, keys, timers, lobbyReturn>>

\* An action beyond the limit ends the session whatever its state.
LimitReached(c) ==
    /\ Goes(c, "loaded", "finish")
    /\ op[c].kind = "act" /\ op[c].count >= MaxActions
    /\ UNCHANGED <<status, room, sessions, keys, timers, lobbyReturn, lock>>

\* InvalidActionError
Reject(c) ==
    /\ Ends(c, "loaded")
    /\ op[c].kind = "act" /\ op[c].count < MaxActions
    /\ Unlocks(c)
    /\ UNCHANGED <<status, room, sessions, keys, timers, lobbyReturn>>

\* persistState writes the key whether or not it is still there.
Persist(c) ==
    /\ Goes(c, "loaded", "persisted")
    /\ op[c].kind = "timer" \/ op[c].count < MaxActions
    /\ snapshot' = [snapshot EXCEPT ![op[c].session] =
                       op[c].count + (IF op[c].kind = "act" THEN 1 ELSE 0)]
    /\ UNCHANGED <<status, room, sessions, sessionKey, standings,
                   timers, lobbyReturn, lock>>

\* applyTimers; then the game is finished, or the call is done
ApplyEffect(c) ==
    /\ \/ Goes(c, "persisted", "finish") /\ UNCHANGED lock
       \/ Ends(c, "persisted") /\ Unlocks(c)
    /\ timers' \in {timers, timers \cup {op[c].session}, timers \ {op[c].session}}
    /\ UNCHANGED <<status, room, sessions, keys, lobbyReturn>>

\* doFinish.  It loads the state again, and throws when it is gone.
FinishFails(c) ==
    /\ pc[c] = "finish" /\ snapshot[op[c].session] = Gone
    /\ Ends(c, "finish")
    /\ Unlocks(c)
    /\ UNCHANGED <<status, room, sessions, keys, timers, lobbyReturn>>

WriteResults(c) ==
    /\ pc[c] = "finish" /\ snapshot[op[c].session] # Gone
    /\ Goes(c, "finish", "written")
    /\ rows' = [rows EXCEPT ![op[c].session] = @ + 1]
    /\ UNCHANGED <<status, room, created, players, ended, keys, timers, lobbyReturn, lock>>

ShowResults(c) ==
    /\ Goes(c, "written", "shown")
    /\ ended' = ended \cup {op[c].session}
    /\ status' = "results"
    /\ UNCHANGED <<room, created, players, rows, keys, timers, lobbyReturn, lock>>

ForgetSession(c) ==
    /\ Goes(c, "shown", "forgotten")
    /\ Forget(op[c].session)
    /\ UNCHANGED <<status, room, sessions, standings, lobbyReturn, lock>>

\* Deviation: nothing is scheduled.
ScheduleNothing(c) ==
    /\ Ends(c, "forgotten")
    /\ Unlocks(c)
    /\ standings' = op[c].session
    /\ UNCHANGED <<status, room, sessions, sessionKey, snapshot, timers, lobbyReturn>>

\* The standings for late joiners, and scheduleReturnToLobby last of all
ScheduleReturn(c) ==
    /\ Ends(c, "forgotten")
    /\ Unlocks(c)
    /\ standings' = op[c].session
    /\ lobbyReturn' = TRUE
    /\ UNCHANGED <<status, room, sessions, sessionKey, snapshot, timers>>

-----------------------------------------------------------------------------
\* returnToLobby, without the lock
CallReturn(c) ==
    /\ lobbyReturn
    /\ lobbyReturn' = FALSE
    /\ Arrives(c, "return", [kind |-> "return"])
    /\ UNCHANGED <<status, room, sessions, keys, timers, lock>>

ReturnToLobby(c) ==
    /\ Goes(c, "return", "returned")
    /\ status' = "lobby"
    /\ UNCHANGED <<room, sessions, keys, timers, lobbyReturn, lock>>

ForgetStandings(c) ==
    /\ Ends(c, "returned")
    /\ standings' = None
    /\ UNCHANGED <<status, room, sessions, sessionKey, snapshot,
                   timers, lobbyReturn, lock>>

-----------------------------------------------------------------------------
\* RoomsService.join and removeActiveMember
Join ==
    /\ lock = NoCall
    /\ ~closed
    /\ \E u \in Users \ members : members' = members \cup {u} /\ silent' = silent \ {u}
    /\ UNCHANGED <<status, host, closed, sessions, keys, timers, lobbyReturn, calls>>

Removes(u) ==
    /\ u \in members
    /\ members' = members \ {u}
    /\ closed' = (members' = {})
    /\ host' \in IF host = u /\ members' # {} THEN members' ELSE {host}

\* room:leave, room:kick, room:ban or an eviction: the part under the lock.
\* Whoever is no member any more is not removed again, but cleaned up after.
CallRemove(c) ==
    /\ lock = NoCall
    /\ \E u \in Users :
          /\ IF u \in members THEN Removes(u) ELSE UNCHANGED <<members, host, closed>>
          /\ Arrives(c, "removed", [kind |-> "remove", user |-> u])
    /\ UNCHANGED <<status, silent, sessions, keys, timers, lobbyReturn, lock>>

\* POST /rooms/:id/leave: neither a lock nor handleMemberRemoved
RestLeave ==
    /\ \E u \in members : Removes(u) /\ silent' = silent \cup {u}
    /\ UNCHANGED <<status, sessions, keys, timers, lobbyReturn, calls>>

\* Deviation: a session goes on without the member.
SessionGoesOn(c) ==
    /\ members # {}
    /\ Ends(c, "removed")
    /\ UNCHANGED <<status, room, sessions, keys, timers, lobbyReturn, lock>>

\* handleMemberRemoved: who is left decides.  handleRoomEmptied starts by
\* cancelling the return to the lobby and dropping the standings.
SomebodyLeft(c) ==
    /\ members # {}
    /\ Goes(c, "removed", "abandon")
    /\ UNCHANGED <<status, room, sessions, keys, timers, lobbyReturn, lock>>

RoomEmptied(c) ==
    /\ members = {}
    /\ Goes(c, "removed", "emptied")
    /\ lobbyReturn' = FALSE
    /\ standings' = None
    /\ UNCHANGED <<status, room, sessions, sessionKey, snapshot, timers, lock>>

\* The rest of handleRoomEmptied, without the lock
NothingToClear(c) ==
    /\ sessionKey = None
    /\ Ends(c, "emptied")
    /\ UNCHANGED <<status, room, sessions, keys, timers, lobbyReturn, lock>>

FindSession(c) ==
    /\ sessionKey # None
    /\ pc[c] = "emptied"
    /\ pc' = [pc EXCEPT ![c] = "clearing"]
    /\ op' = [op EXCEPT ![c] = [kind |-> "remove", session |-> sessionKey]]
    /\ UNCHANGED <<status, room, sessions, keys, timers, lobbyReturn, lock>>

ClearSession(c) ==
    /\ Ends(c, "clearing")
    /\ Forget(op[c].session)
    /\ ended' = ended \cup {op[c].session}
    /\ UNCHANGED <<status, room, created, players, rows, standings, lobbyReturn, lock>>

\* abandonIfPlayerLeft, under the lock
NotConcerned(c) ==
    /\ lock = NoCall
    /\ pc[c] = "abandon" /\ ~(Active /\ op[c].user \in players[sessionKey])
    /\ Ends(c, "abandon")
    /\ UNCHANGED <<status, room, sessions, keys, timers, lobbyReturn, lock>>

Abandon(c) ==
    /\ pc[c] = "abandon" /\ Active /\ op[c].user \in players[sessionKey]
    /\ Locks(c)
    /\ pc' = [pc EXCEPT ![c] = "abandoned"]
    /\ op' = [op EXCEPT ![c] = [kind |-> "remove", session |-> sessionKey]]
    /\ Forget(sessionKey)
    /\ UNCHANGED <<status, room, sessions, standings, lobbyReturn>>

\* Deviation: the status is left alone.
AbortsQuietly(c) ==
    /\ Ends(c, "abandoned")
    /\ Unlocks(c)
    /\ ended' = ended \cup {op[c].session}
    /\ UNCHANGED <<status, room, created, players, rows, keys, timers, lobbyReturn>>

BackToLobby(c) ==
    /\ Ends(c, "abandoned")
    /\ Unlocks(c)
    /\ ended' = ended \cup {op[c].session}
    /\ status' = "lobby"
    /\ UNCHANGED <<room, created, players, rows, keys, timers, lobbyReturn>>

-----------------------------------------------------------------------------
Starts(c) == CallStart(c) \/ RefuseStart(c) \/ CreateSession(c) \/ StoreSession(c) \/ EnterGame(c)
Plays(c) ==
    \/ CallAct(c) \/ CallTimer(c) \/ NoGame(c) \/ Load(c)
    \/ LimitReached(c) \/ Reject(c) \/ Persist(c) \/ ApplyEffect(c)
Finishes(c) ==
    \/ FinishFails(c) \/ WriteResults(c) \/ ShowResults(c) \/ ForgetSession(c) \/ ScheduleReturn(c)
Returns(c) == CallReturn(c) \/ ReturnToLobby(c) \/ ForgetStandings(c)
Leaves(c) ==
    \/ CallRemove(c) \/ SomebodyLeft(c) \/ RoomEmptied(c) \/ NothingToClear(c) \/ FindSession(c)
    \/ ClearSession(c) \/ NotConcerned(c) \/ Abandon(c) \/ BackToLobby(c)

Next ==
    \/ Join
    \/ RestLeave
    \/ \E c \in Calls \ Removals : Starts(c) \/ Plays(c) \/ Finishes(c) \/ Returns(c)
    \/ \E c \in Calls : Leaves(c)

Spec == Init /\ [][Next]_vars

\* The steps that take the lock, or find under it that nothing is to be done,
\* and the other steps of a call that has arrived
Acquires(c) ==
    \/ RefuseStart(c) \/ CreateSession(c) \/ NoGame(c) \/ Load(c) \/ NotConcerned(c) \/ Abandon(c)
Proceeds(c) ==
    \/ StoreSession(c) \/ EnterGame(c)
    \/ LimitReached(c) \/ Reject(c) \/ Persist(c) \/ ApplyEffect(c) \/ Finishes(c)
    \/ ReturnToLobby(c) \/ ForgetStandings(c)
    \/ SomebodyLeft(c) \/ RoomEmptied(c) \/ NothingToClear(c) \/ FindSession(c)
    \/ ClearSession(c) \/ BackToLobby(c)

\* Awaits resolve, a waiter gets the lock in the end (RedisLock), and the timer
\* of the lobby fires; the bound on calls and the lock may hold them up, hence SF.
Fairness ==
    /\ SF_vars(\E c \in Calls \ Removals : CallReturn(c))
    /\ SF_vars(\E c \in Calls \ Removals : Acquires(c))
    /\ WF_vars(\E c \in Calls \ Removals : Proceeds(c))
    /\ WF_vars(\E c \in Calls \ Removals : ReturnToLobby(c))

FairSpec == Spec /\ Fairness

-----------------------------------------------------------------------------
Steps == {"free", "start", "created", "stored", "act", "timer", "loaded", "finish", "persisted",
          "written", "shown", "forgotten", "return", "returned", "removed", "abandon",
          "abandoned", "emptied", "clearing"}

Typed ==
    /\ status \in {"lobby", "in_game", "results"}
    /\ members \subseteq Users /\ host \in Users /\ closed \in BOOLEAN /\ silent \subseteq Users
    /\ created \in 0..MaxSessions
    /\ players \in [Sessions -> SUBSET Users]
    /\ ended \subseteq Sessions /\ timers \subseteq Sessions
    /\ sessionKey \in Sessions \cup {None}
    /\ snapshot \in [Sessions -> 0..MaxActions \cup {Gone}]
    /\ standings \in Sessions \cup {None}
    /\ lobbyReturn \in BOOLEAN
    /\ lock \in Calls \cup {NoCall}
    /\ pc \in [Calls -> Steps]

\* Every variable stays within its type.
TypeOK == Typed /\ rows \in [Sessions -> Nat]

Unlocked == lock = NoCall
At(steps) == {c \in Calls : pc[c] \in steps}

\* Whenever the lock is free, an open room is in_game exactly while a session
\* can be loaded: no room is stuck in_game without one, and no session runs on
\* in a room that shows its lobby (doStart, doFinish and doAbandonIfPlayerLeft
\* each write the status, two keys and a row in several steps).
InGameMeansSession == Unlocked /\ ~closed => (status = "in_game" <=> Active)

\* Whenever the lock is free, a session of an open room that is not the one
\* that runs has ended, and nothing of it is left: no state, no timer.
OldSessionsAreGone ==
    Unlocked /\ ~closed =>
        \A s \in Sessions \ {sessionKey} :
            /\ s <= created => s \in ended
            /\ snapshot[s] = Gone
            /\ s \notin timers

\* The users whose removal is still to be cleaned up after
Leaving == {op[c].user : c \in At({"removed", "abandon"})}

\* The status of a room and its session agree, and nothing but the running
\* session is left of the sessions it has had.
StatusFitsSession == InGameMeansSession /\ OldSessionsAreGone

\* No session waits for a player who is gone (abandonIfPlayerLeft: "left that
\* session waiting forever on someone who could never act again"), except one
\* whose player left by REST.
NobodyIsMissed ==
    Unlocked /\ Active /\ ~closed =>
        players[sessionKey] \subseteq members \cup Leaving \cup silent

\* The results of a session are written once at most, even in a room that was
\* emptied while an action on it was in flight; and in an open room not after
\* the session has ended, so that what was aborted stays without a winner
\* (doFinish, doAbandonIfPlayerLeft; game_results has no unique index).
NoLateResults ==
    [][\A s \in Sessions :
          rows'[s] # rows[s] => rows[s] = 0 /\ (s \in ended => closed)]_vars

\* How many sessions have begun as far as the members can see
Begun == created - Cardinality(At({"created", "stored"}))

Life == INSTANCE RoomLifecycle WITH session <- Begun

\* However its calls interleave, a room goes lobby, in_game, results, lobby.
ImplementsLifecycle == Life!Spec

\* An open room does not show its results for ever.
ResultsEnd == status = "results" ~> status = "lobby" \/ closed

-----------------------------------------------------------------------------
\* A departing player, "evicted ..., kicked, banned, or a plain self-leave",
\* leaves no session "waiting forever on someone who could never act again"
\* (the doc of abandonIfPlayerLeft): with no call in flight, every player of
\* the running session of an open room is a member.
NobodyIsMissedAtAll ==
    At(Steps \ {"free"}) = {} /\ Active /\ ~closed => players[sessionKey] \subseteq members
=============================================================================
