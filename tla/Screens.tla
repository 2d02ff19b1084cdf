------------------------------ MODULE Screens ------------------------------
(***************************************************************************)
(* What the room page of each player shows, and how it comes to show it:   *)
(* the status of the room and its session (game-runtime.service.ts), the   *)
(* pushes and broadcasts that tell of them (realtime.gateway.ts), the      *)
(* players' stores that listen (room-store.ts), and the choice the page    *)
(* makes of a screen (app/room/[code]/page.tsx).                           *)
(*                                                                         *)
(* A call under the room lock is one value, call, that goes on step by     *)
(* step; the jobs outside it interleave where they await.  A message       *)
(* reaches the stores in the step that sends it, on the connections there  *)
(* are then; what a dead connection was sent is lost.  Every player seated *)
(* when a game starts is one of its players, and the game needs them all;  *)
(* its rules and who may ask for what are in other modules.                *)
(***************************************************************************)
EXTENDS Integers, FiniteSets

CONSTANTS
    Players,
    Movers,          \* bound: who loses connections, reloads and is evicted
    MaxGames,        \* bound: sessions
    MaxActions,      \* bound: actions in a session
    MaxConnections,  \* bound: connections
    MaxJobs          \* bound: jobs in progress

ASSUME MoversAssumption == Movers \subseteq Players

VARIABLES
    status,     \* the room's status
    edition,    \* how often the status has been set
    session,    \* the session of the room's key and snapshot, 0 for none
    version,    \* the actions its snapshot counts
    standings,  \* standings:{roomId}: the session that they are of, 0 for none
    returning,  \* the return to the lobby is scheduled
    seated,     \* the players who are members of the room
    call,       \* what goes on under the room lock
    jobs,       \* what goes on outside it
    conn,       \* each player's connection, 0 for none
    inRoom,     \* whose connection is in the Socket.IO room
    store,      \* each player's room store
    games,      \* sessions created
    spent,      \* connections so far
    sent,       \* history: the latest edition that was broadcast
    begun,      \* history: the latest session whose game:started was pushed
    ended,      \* history: the latest session that finished
    late        \* history: one of the races below has happened

server == <<status, edition, session, version, standings, returning, games>>
links == <<conn, inRoom, spent>>
past == <<sent, begun, ended, late>>
screens == <<server, seated, call, jobs, links, store, past>>

Free == [at |-> "free", read |-> [status |-> "none", edition |-> 0], ends |-> FALSE]
NoView == <<0, 0>>
Fresh == [room |-> "none", view |-> NoView, standings |-> 0]

\* Everybody has joined and sees the lobby.
ScreensInit ==
    /\ status = "lobby" /\ edition = 0 /\ session = 0 /\ version = 0
    /\ standings = 0 /\ returning = FALSE /\ games = 0
    /\ seated = Players
    /\ call = Free /\ jobs = {}
    /\ conn = [p \in Players |-> 1] /\ inRoom = Players /\ spent = 1
    /\ store = [p \in Players |-> [Fresh EXCEPT !.room = "lobby"]]
    /\ sent = 0 /\ begun = 0 /\ ended = 0 /\ late = FALSE

-----------------------------------------------------------------------------
Unlocked == call = Free
OnTo(at) == call' = [call EXCEPT !.at = at]

Job(kind, p, c, at) ==
    [kind |-> kind, by |-> p, conn |-> c, at |-> at, read |-> Free.read, last |-> 0]
Adds(j) == Cardinality(jobs) < MaxJobs /\ jobs' = jobs \cup {j}
GoesTo(j, at) == jobs' = (jobs \ {j}) \cup {[j EXCEPT !.at = at]}
Done(j) == jobs' = jobs \ {j}

SetStatus(s) == status' = s /\ edition' = edition + 1
Row == [status |-> status, edition |-> edition]

\* emitToUser reaches a player's connection, in the room or not; a broadcast
\* reaches those in the room; an answer its own connection.
Connected == {p \in Players : conn[p] # 0}
Listening(j) == {p \in {j.by} : conn[p] = j.conn}
Tells(players, field, value) ==
    [p \in Players |-> IF p \in players THEN [store[p] EXCEPT ![field] = value] ELSE store[p]]

\* game:state
ShowView(players) == store' = Tells(players, "view", <<session, version>>)

\* The races that ScreenRight excuses.  A room:state or an acknowledgement read
\* before a newer one was sent replaces it in the stores; a game:ended sent to
\* one who joined, after the next game has started, takes its view away; the
\* end of a return to the lobby, when the next game has ended already, deletes
\* its standings.  A behaviour is followed up to the first of them (a bound).
Outdated(read) == read.edition < sent

-----------------------------------------------------------------------------
\* doStart, up to setStatus
StartGame ==
    /\ Unlocked
    /\ status = "lobby" /\ seated = Players
    /\ games < MaxGames
    /\ games' = games + 1 /\ session' = games' /\ version' = 0
    /\ SetStatus("in_game")
    /\ OnTo("started")
    /\ UNCHANGED <<standings, returning, seated, jobs, links, store, past>>

\* doStart: game:started and the first game:state, to every player
PushStart ==
    /\ call.at = "started"
    /\ store' = [p \in Players |-> IF p \in Connected
                    THEN [store[p] EXCEPT !.view = <<session, version>>, !.standings = 0]
                    ELSE store[p]]
    /\ begun' = session
    /\ OnTo("state")
    /\ UNCHANGED <<server, seated, jobs, links, sent, ended, late>>

\* applyEffect, up to persistState: an action of a player or a timer's
Act ==
    /\ Unlocked
    /\ session # 0 /\ version < MaxActions
    /\ version' = version + 1
    /\ OnTo("acted")
    /\ UNCHANGED <<status, edition, session, standings, returning, games>>
    /\ UNCHANGED <<seated, jobs, links, store, past>>

\* applyEffect: game:state to every player, and the game goes on or is over
Push ==
    /\ call.at = "acted"
    /\ ShowView(Connected)
    /\ call' \in {Free, [call EXCEPT !.at = "finished", !.ends = TRUE]}
    /\ UNCHANGED <<server, seated, jobs, links, past>>

\* doFinish, up to setStatus
Finish ==
    /\ call.at = "finished"
    /\ SetStatus("results")
    /\ OnTo("end")
    /\ UNCHANGED <<session, version, standings, returning, games>>
    /\ UNCHANGED <<seated, jobs, links, store, past>>

\* doFinish: the keys go, the standings are kept for those who join, and every
\* player is sent game:ended with them.
End ==
    /\ call.at = "end"
    /\ session' = 0 /\ version' = 0 /\ standings' = session /\ ended' = session
    /\ store' = [p \in Players |-> IF p \in Connected
                    THEN [store[p] EXCEPT !.view = NoView, !.standings = session]
                    ELSE store[p]]
    /\ OnTo("state")
    /\ UNCHANGED <<status, edition, returning, games>>
    /\ UNCHANGED <<seated, jobs, links, sent, begun, late>>

\* broadcastRoomState under the lock: toDto, then room:state to the room
ReadUnderLock ==
    /\ call.at = "state"
    /\ call' = [call EXCEPT !.at = "send", !.read = Row]
    /\ UNCHANGED <<server, seated, jobs, links, store, past>>

Broadcast(read) ==
    /\ store' = Tells(inRoom, "room", read.status)
    /\ sent' = IF Outdated(read) THEN sent ELSE read.edition
    /\ late' = Outdated(read)

\* The call ends; a finished game schedules the return to the lobby.
SendUnderLock ==
    /\ call.at = "send"
    /\ Broadcast(call.read)
    /\ returning' = (returning \/ call.ends)
    /\ call' = Free
    /\ UNCHANGED <<status, edition, session, version, standings, games>>
    /\ UNCHANGED <<seated, jobs, links, begun, ended>>

-----------------------------------------------------------------------------
\* returnToLobby takes no lock.
Return ==
    /\ returning
    /\ returning' = FALSE
    /\ SetStatus("lobby")
    /\ Adds(Job("return", "server", 0, "clean"))
    /\ UNCHANGED <<session, version, standings, games, seated, call, links, store, past>>

Clean(j) ==
    /\ j.at = "clean"
    /\ standings' = 0
    /\ late' = (status = "results")
    /\ GoesTo(j, "state")
    /\ UNCHANGED <<status, edition, session, version, returning, games>>
    /\ UNCHANGED <<seated, call, links, store, sent, begun, ended>>

\* broadcastRoomState outside the lock
ReadState(j) ==
    /\ j.at = "state"
    /\ jobs' = (jobs \ {j}) \cup {[j EXCEPT !.at = "send", !.read = Row]}
    /\ UNCHANGED <<server, seated, call, links, store, past>>

SendState(j) ==
    /\ j.at = "send"
    /\ Broadcast(j.read)
    /\ IF j.kind = "join" THEN GoesTo(j, "catch up") ELSE Done(j)
    /\ UNCHANGED <<server, seated, call, links, begun, ended>>

-----------------------------------------------------------------------------
\* A connection is made, and room:join sent on it: by the page as it opens, by
\* the store's connect handler when it already shows a room.
PageConnects(p) ==
    /\ conn[p] = 0
    /\ spent < MaxConnections
    /\ spent' = spent + 1
    /\ conn' = [conn EXCEPT ![p] = spent']
    /\ Adds(Job("join", p, spent', "asked"))
    /\ UNCHANGED <<server, seated, call, inRoom, store, past>>

\* The connection is lost and the store is kept.
PageDrops(p) ==
    /\ conn[p] # 0
    /\ conn' = [conn EXCEPT ![p] = 0]
    /\ inRoom' = inRoom \ {p}
    /\ UNCHANGED <<server, seated, call, jobs, spent, store, past>>

\* The page is reloaded: both are lost.
PageReloads(p) ==
    /\ conn[p] # 0
    /\ conn' = [conn EXCEPT ![p] = 0]
    /\ inRoom' = inRoom \ {p}
    /\ store' = [store EXCEPT ![p] = Fresh]
    /\ UNCHANGED <<server, seated, call, jobs, spent, past>>

\* onRoomJoin: RoomsService.join, under the lock
LetIn(j) ==
    /\ j.at = "asked" /\ Unlocked
    /\ seated' = seated \cup {j.by}
    /\ GoesTo(j, "admitted")
    /\ UNCHANGED <<server, call, links, store, past>>

\* onRoomJoin: socket.join, on a connection that may be lost by now
IntoRoom(j) ==
    /\ j.at = "admitted"
    /\ inRoom' = inRoom \cup Listening(j)
    /\ GoesTo(j, "entered")
    /\ UNCHANGED <<server, seated, call, conn, spent, store, past>>

\* Deviation: a view is pushed only when the player's return changes the game.
ResumeSilently(j) ==
    /\ j.at = "entered" /\ Unlocked
    /\ GoesTo(j, "state")
    /\ UNCHANGED <<server, seated, call, links, store, past>>

\* resumeAfterReconnect, under the lock: the player's view of a running game,
\* whether or not the game goes on because of them
Resume(j) ==
    /\ j.at = "entered" /\ Unlocked
    /\ IF session # 0 THEN ShowView(Connected \cap {j.by}) ELSE UNCHANGED store
    /\ GoesTo(j, "state")
    /\ UNCHANGED <<server, seated, call, links, past>>

\* onRoomJoin: getLastStandings, when the room that was read shows results
CatchUp(j) ==
    /\ j.at = "catch up"
    /\ IF j.read.status = "results" /\ standings # 0
       THEN jobs' = (jobs \ {j}) \cup {[j EXCEPT !.at = "standings", !.last = standings]}
       ELSE GoesTo(j, "answer")
    /\ UNCHANGED <<server, seated, call, links, store, past>>

\* onRoomJoin: game:ended, to the connection that joined
SendStandings(j) ==
    /\ j.at = "standings"
    /\ store' = [p \in Players |-> IF p \in Listening(j)
                    THEN [store[p] EXCEPT !.view = NoView, !.standings = j.last]
                    ELSE store[p]]
    /\ late' = (Listening(j) # {} /\ begun > j.last)
    /\ GoesTo(j, "answer")
    /\ UNCHANGED <<server, seated, call, links, sent, begun, ended>>

\* The acknowledgement carries the room that was broadcast; the client sets it.
Answer(j) ==
    /\ j.at = "answer"
    /\ store' = Tells(Listening(j), "room", j.read.status)
    /\ late' = (Listening(j) # {} /\ Outdated(j.read))
    /\ Done(j)
    /\ UNCHANGED <<server, seated, call, links, sent, begun, ended>>

-----------------------------------------------------------------------------
\* The eviction of a player who stayed away, while others are left.
Evicts(p) ==
    /\ conn[p] = 0 /\ p \in seated /\ seated # {p}
    /\ Unlocked
    /\ \A j \in jobs : j.by # p
    /\ seated' = seated \ {p}
    /\ Adds(Job("leave", p, 0, "removed"))
    /\ UNCHANGED <<server, call, links, store, past>>

\* abandonIfPlayerLeft, under the lock: the running game is given up.
Abandon(j) ==
    /\ j.at = "removed" /\ Unlocked
    /\ IF session # 0
       THEN session' = 0 /\ version' = 0 /\ SetStatus("lobby")
       ELSE UNCHANGED <<session, version, status, edition>>
    /\ GoesTo(j, "state")
    /\ UNCHANGED <<standings, returning, games, seated, call, links, store, past>>

UnderLock ==
    \/ PushStart \/ Push \/ Finish \/ End
    \/ ReadUnderLock \/ SendUnderLock

JobStep(j) ==
    \/ Clean(j) \/ ReadState(j) \/ SendState(j)
    \/ LetIn(j) \/ IntoRoom(j) \/ Resume(j)
    \/ CatchUp(j) \/ SendStandings(j) \/ Answer(j)
    \/ Abandon(j)

ScreensNext ==
    /\ ~late
    /\ \/ StartGame \/ Act \/ UnderLock
       \/ Return
       \/ \E p \in Movers : PageConnects(p) \/ PageDrops(p) \/ PageReloads(p) \/ Evicts(p)
       \/ \E j \in jobs : JobStep(j)

-----------------------------------------------------------------------------
\* A game without a view yet has a placeholder.
GameArea(s) == IF s.view = NoView THEN <<"placeholder">> ELSE <<"game", s.view>>

\* The list of the standings, empty while there are none.
ResultsArea(s) == <<"results", s.standings>>

\* The page's choice; nothing is shown before the first room:state.
Screen(p) ==
    LET s == store[p]
    IN  CASE s.room = "none"    -> <<"loading">>
          [] s.room = "lobby"   -> <<"lobby">>
          [] s.room = "in_game" -> GameArea(s)
          [] s.room = "results" -> ResultsArea(s)

WhatTheRoomDoes ==
    CASE status = "lobby"   -> <<"lobby">>
      [] status = "in_game" -> <<"game", <<session, version>> >>
      [] status = "results" -> <<"results", ended>>

\* When nothing is in progress, everybody who is in the room sees what the room
\* does: the lobby, the game that runs as it stands after its last action, or
\* the standings of the game that ended; however often and whenever they lost
\* their connection, reloaded the page or were evicted and came back
\* (broadcastStateToPlayers, doResumeAfterReconnect, getLastStandings; "must
\* never bleed into the next one", room-store.ts).
ScreenRight ==
    Unlocked /\ jobs = {} /\ ~late =>
        \A p \in inRoom : Screen(p) = WhatTheRoomDoes
=============================================================================
