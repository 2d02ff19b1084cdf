------------------------------ MODULE Presence ------------------------------
(***************************************************************************)
(* Who is in a room: its members, their sockets, the presence entries with *)
(* their countdowns to an eviction, the votes for a game, and what the     *)
(* room is told of all this (realtime.gateway.ts, presence.service.ts and  *)
(* the eviction handler of realtime.module.ts).                            *)
(*                                                                         *)
(* A handler is a task that goes on where it awaits, and any two tasks     *)
(* interleave there.  What it does to the rows under the room lock is one  *)
(* step: the lock serialises these steps and keeps no order (RedisLock),   *)
(* and modules Rooms and RoomRuntime look into them.  The game's part of a *)
(* handler is in RoomRuntime and WordSession; the start of a game is here   *)
(* for the votes it clears and for what it tells.                          *)
(***************************************************************************)
EXTENDS Integers, FiniteSets

CONSTANTS
    Users,
    Creator,     \* who created the room: its first host
    MaxSockets,  \* bound: sockets that connect
    MaxTasks,    \* bound: handlers in progress
    MaxAsks,     \* bound: leaves, kicks, votes and starts
    MaxEvents    \* bound: sockets and asks together

ASSUME CreatorAssumption == Creator \in Users

VARIABLES
    members,  \* the room_members rows whose leftAt is null
    host,     \* the room's hostId
    opened,   \* how many sockets have connected
    alive,    \* the sockets that are connected: a user and a number
    inside,   \* the sockets in the Socket.IO room
    entry,    \* PresenceService.entries: state and, when disconnected, a timer
    votes,    \* votes:{roomId}: who has voted
    told,     \* what the room was last sent: members, who of them is away, votes
    tasks,
    asked,
    roomRev,  \* history: how often the members have changed,
    voteRev,  \* the votes,
    wiped,    \* and which of these changes a game's start made last
    raced     \* history: one of the races below has happened

rows == <<members, host, roomRev>>
sockets == <<opened, alive, inside>>
ballot == <<votes, voteRev, wiped>>
vars == <<rows, sockets, entry, ballot, told, tasks, asked, raced>>

User(s) == s[1]
Here(u) == {s \in inside : User(s) = u}
Closed == members = {}
Away == {u \in Users : entry[u] = "disconnected"}

\* The races that the properties excuse.  A behaviour is followed up to its
\* first (a bound): fetchSockets answered before a socket of the user came or
\* went; a join was served when its socket was gone, or let the socket in after
\* its user was removed; an eviction or a clean-up reached a user who had joined
\* again; a vote was let through before its user was removed and stored after; a
\* broadcast sent what it had read before another that was sent already.
Note(race) == raced' = race

Init ==
    /\ members = {Creator} /\ host = Creator
    /\ opened = 0 /\ alive = {} /\ inside = {}
    /\ entry = [u \in Users |-> "none"]
    /\ votes = {}
    /\ roomRev = 0 /\ voteRev = 0 /\ wiped = 0
    /\ told = [members |-> members, away |-> {}, roomRev |-> 0, votes |-> {}, voteRev |-> 0]
    /\ tasks = {} /\ asked = 0 /\ raced = FALSE

-----------------------------------------------------------------------------
Task(kind, u, s, at) ==
    [kind |-> kind, user |-> u, sock |-> s, at |-> at, read |-> {}, seen |-> {}, rev |-> 0]
HasRoom == Cardinality(tasks) < MaxTasks
Begins(t) == t \notin tasks /\ HasRoom /\ tasks' = tasks \cup {t}
Moves(t, at) == tasks' = (tasks \ {t}) \cup {[t EXCEPT !.at = at]}
Keeps(t, at, read) == tasks' = (tasks \ {t}) \cup {[t EXCEPT !.at = at, !.read = read]}
Sees(t, at, seen, rev) ==
    tasks' = (tasks \ {t}) \cup {[t EXCEPT !.at = at, !.seen = seen, !.rev = rev]}
Ends(t) == tasks' = tasks \ {t}
Is(t, kind, at) == t.kind = kind /\ t.at = at

\* What a handler does under the lock is one step, but a start holds it until it
\* has told the room.
Unheld == \A t \in tasks : t.kind = "start" => t.at = "asked"

Revised(rev, old, new) == IF new = old THEN rev ELSE rev + 1
BecomeMembers(S) == members' = S /\ roomRev' = Revised(roomRev, members, S)
BecomeVotes(S) == votes' = S /\ voteRev' = Revised(voteRev, votes, S)

\* RoomsService.leave and kick
Remove(u) ==
    /\ BecomeMembers(members \ {u})
    /\ host' = IF host = u /\ members' # {} THEN CHOOSE v \in members' : TRUE ELSE host

-----------------------------------------------------------------------------
\* handleConnection, and the room:join that the client sends as it connects.  The
\* socket has the first number of its user's that nothing refers to any more.
Unused(s) == s \notin alive /\ \A t \in tasks : s # t.sock /\ s \notin t.read

Connect(u) ==
    /\ opened < MaxSockets /\ opened + asked < MaxEvents
    /\ opened' = opened + 1
    /\ \E n \in 1..opened' :
          /\ Unused(<<u, n>>) /\ \A m \in 1..(n - 1) : ~Unused(<<u, m>>)
          /\ alive' = alive \cup {<<u, n>>}
          /\ Begins(Task("join", u, <<u, n>>, "asked"))
    /\ UNCHANGED <<rows, inside, entry, ballot, told, asked, raced>>

\* onRoomJoin, under the lock: a closed room lets nobody in.
Admit(t) ==
    /\ Is(t, "join", "asked")
    /\ Unheld
    /\ IF Closed THEN Ends(t) /\ UNCHANGED <<members, roomRev>>
       ELSE Moves(t, "admitted") /\ BecomeMembers(members \cup {t.user})
    /\ UNCHANGED <<host, sockets, entry, ballot, told, asked, raced>>

\* Deviation: markOnline leaves the countdown running.
EnterCountedDown(t) ==
    /\ Is(t, "join", "admitted")
    /\ inside' = inside \cup ({t.sock} \cap alive)
    /\ entry' = [entry EXCEPT ![t.user] = IF @ = "disconnected" THEN @ ELSE "online"]
    /\ Note(t.sock \notin alive \/ t.user \notin members)
    /\ Moves(t, "state")
    /\ UNCHANGED <<rows, opened, alive, ballot, told, asked>>

\* onRoomJoin: socket.join and markOnline, whatever has become of the socket and
\* of the membership.
Enter(t) ==
    /\ Is(t, "join", "admitted")
    /\ inside' = inside \cup ({t.sock} \cap alive)
    /\ entry' = [entry EXCEPT ![t.user] = "online"]
    /\ Note(t.sock \notin alive \/ t.user \notin members)
    /\ Moves(t, "state")
    /\ UNCHANGED <<rows, opened, alive, ballot, told, asked>>

-----------------------------------------------------------------------------
\* handleDisconnecting: a socket that was in the room starts a check.
Drop(s) ==
    /\ s \in alive
    /\ alive' = alive \ {s}
    /\ inside' = inside \ {s}
    /\ IF s \in inside THEN Begins(Task("drop", User(s), s, "gone")) ELSE UNCHANGED tasks
    /\ UNCHANGED <<rows, opened, entry, ballot, told, asked, raced>>

\* Deviation: the departing socket is not left out of the picture.
FetchAll(t) ==
    /\ Is(t, "drop", "gone")
    /\ Keeps(t, "fetched", Here(t.user) \cup {t.sock})
    /\ UNCHANGED <<rows, sockets, entry, ballot, told, asked, raced>>

\* markDisconnectedIfLastSocket: fetchSockets, without the socket that goes
Fetch(t) ==
    /\ Is(t, "drop", "gone")
    /\ Keeps(t, "fetched", Here(t.user))
    /\ UNCHANGED <<rows, sockets, entry, ballot, told, asked, raced>>

\* markDisconnected, when the picture shows no other socket of the user
Mark(t) ==
    /\ Is(t, "drop", "fetched")
    /\ Note((t.read \ {t.sock} = {}) # (Here(t.user) = {}))
    /\ IF t.read = {}
       THEN entry' = [entry EXCEPT ![t.user] = "disconnected"] /\ Keeps(t, "state", {})
       ELSE Ends(t) /\ UNCHANGED entry
    /\ UNCHANGED <<rows, sockets, ballot, told, asked>>

\* The countdown ends: the entry goes and the eviction handler is called.
TimerFires(u) ==
    /\ entry[u] = "disconnected"
    /\ entry' = [entry EXCEPT ![u] = "none"]
    /\ Begins(Task("evict", u, <<u, 0>>, "asked"))
    /\ UNCHANGED <<rows, sockets, ballot, told, asked, raced>>

\* The eviction handler's leave, under the lock
Evict(t) ==
    /\ Is(t, "evict", "asked")
    /\ Unheld
    /\ Remove(t.user)
    /\ Note(\E j \in tasks : Is(j, "join", "admitted") /\ j.user = t.user)
    /\ Moves(t, "removed")
    /\ UNCHANGED <<sockets, entry, ballot, told, asked>>

-----------------------------------------------------------------------------
\* A socket may act on a room it is in (assertMember).
Asks(s, t) ==
    /\ s \in inside
    /\ asked < MaxAsks /\ opened + asked < MaxEvents
    /\ asked' = asked + 1
    /\ Begins(t)
    /\ UNCHANGED <<rows, sockets, entry, ballot, told, raced>>

AskToLeave(s) == Asks(s, Task("leave", User(s), s, "asked"))
AskToVote(s) == Asks(s, Task("vote", User(s), s, "asked"))
AskToKick(s, u) == u # User(s) /\ Asks(s, Task("kick", u, s, "asked"))
AskToStart(s) == Asks(s, Task("start", User(s), s, "asked"))

\* onRoomLeave, under the lock
Leave(t) ==
    /\ Is(t, "leave", "asked")
    /\ Unheld
    /\ Remove(t.user)
    /\ Moves(t, "left")
    /\ UNCHANGED <<sockets, entry, ballot, told, asked, raced>>

\* leaveAllSocketsForUser
TakeOut(t) ==
    /\ Is(t, "leave", "left")
    /\ inside' = inside \ Here(t.user)
    /\ Note(t.user \in members)
    /\ Moves(t, "removed")
    /\ UNCHANGED <<rows, opened, alive, entry, ballot, told, asked>>

\* onKick and onBan, under the lock: only the host may, and not themself
Kick(t) ==
    /\ Is(t, "kick", "asked")
    /\ Unheld
    /\ IF User(t.sock) = host THEN Remove(t.user) /\ Moves(t, "kicked")
       ELSE Ends(t) /\ UNCHANGED rows
    /\ UNCHANGED <<sockets, entry, ballot, told, asked, raced>>

\* expelSockets: each of them is disconnected, which starts its check.
Expel(t) ==
    /\ Is(t, "kick", "kicked")
    /\ alive' = alive \ Here(t.user)
    /\ inside' = inside \ Here(t.user)
    /\ tasks' = (tasks \ {t}) \cup {[t EXCEPT !.at = "removed"]}
                  \cup {Task("drop", t.user, s, "gone") : s \in Here(t.user)}
    /\ Note(t.user \in members)
    /\ UNCHANGED <<rows, opened, entry, ballot, told, asked>>

\* handleMemberRemoved: cancelEviction
Cancel(t) ==
    /\ t.at = "removed"
    /\ entry' = [entry EXCEPT ![t.user] = "none"]
    /\ Note(t.user \in members \/ Here(t.user) # {})
    /\ Moves(t, "unvote")
    /\ UNCHANGED <<rows, sockets, ballot, told, asked>>

\* Deviation: the vote stays.
KeepVote(t) ==
    /\ t.at = "unvote"
    /\ Moves(t, "state")
    /\ UNCHANGED <<rows, sockets, entry, ballot, told, asked, raced>>

\* handleMemberRemoved: removeVote
RemoveVote(t) ==
    /\ t.at = "unvote"
    /\ BecomeVotes(votes \ {t.user})
    /\ Moves(t, "state")
    /\ UNCHANGED <<rows, sockets, entry, wiped, told, asked, raced>>

\* onVoteGame: recordVote
Vote(t) ==
    /\ Is(t, "vote", "asked")
    /\ BecomeVotes(votes \cup {t.user})
    /\ Note(t.user \notin members)
    /\ Moves(t, "votes")
    /\ UNCHANGED <<rows, sockets, entry, wiped, told, asked>>

\* doStart, under the lock: refused, or it clears the votes and tells nobody so.
Start(t) ==
    /\ Is(t, "start", "asked")
    /\ Unheld
    /\ \/ Ends(t) /\ UNCHANGED ballot
       \/ /\ t.user = host /\ Cardinality(members) > 1
          /\ BecomeVotes({})
          /\ wiped' = IF votes = {} THEN wiped ELSE voteRev'
          /\ Moves(t, "state")
    /\ UNCHANGED <<rows, sockets, entry, told, asked, raced>>

-----------------------------------------------------------------------------
\* broadcastRoomState, which awaits the members before it sends them, and with
\* them who is away by then.  handleMemberRemoved goes on to the votes, all of
\* which it clears when the members it read are none.
ReadMembers(t) ==
    /\ t.at = "state"
    /\ Sees(t, "picture", members, roomRev)
    /\ UNCHANGED <<rows, sockets, entry, ballot, told, asked, raced>>

TellState(t) ==
    /\ t.at = "picture"
    /\ told' = [told EXCEPT !.members = t.seen, !.away = Away \cap t.seen, !.roomRev = t.rev]
    /\ Note(t.rev < told.roomRev)
    /\ IF t.kind \in {"join", "drop", "start"} THEN Ends(t)
       ELSE Sees(t, IF t.seen = {} THEN "clear votes" ELSE "votes", {}, 0)
    /\ UNCHANGED <<rows, sockets, entry, ballot, asked>>

ClearVotes(t) ==
    /\ t.at = "clear votes"
    /\ BecomeVotes({})
    /\ Moves(t, "votes")
    /\ UNCHANGED <<rows, sockets, entry, wiped, told, asked, raced>>

\* getVotes is awaited too.
ReadVotes(t) ==
    /\ t.at = "votes"
    /\ Sees(t, "tally", votes, voteRev)
    /\ UNCHANGED <<rows, sockets, entry, ballot, told, asked, raced>>

TellVotes(t) ==
    /\ t.at = "tally"
    /\ told' = [told EXCEPT !.votes = t.seen, !.voteRev = t.rev]
    /\ Note(t.rev < told.voteRev)
    /\ Ends(t)
    /\ UNCHANGED <<rows, sockets, entry, ballot, asked>>

Step(t) ==
    \/ Admit(t) \/ Enter(t)
    \/ Fetch(t) \/ Mark(t)
    \/ Evict(t)
    \/ Leave(t) \/ TakeOut(t)
    \/ Kick(t) \/ Expel(t)
    \/ Cancel(t) \/ RemoveVote(t) \/ ClearVotes(t) \/ Vote(t) \/ Start(t)
    \/ ReadMembers(t) \/ TellState(t)
    \/ ReadVotes(t) \/ TellVotes(t)

Next ==
    /\ ~raced
    /\ \/ \E u \in Users : Connect(u)
       \/ \E s \in alive : Drop(s)
       \/ \E u \in Users : TimerFires(u)
       \/ \E s \in inside : AskToLeave(s)
       \/ \E s \in inside : AskToVote(s) \/ AskToStart(s)
       \/ \E s \in inside, u \in Users : AskToKick(s, u)
       \/ \E t \in tasks : Step(t)

\* Handlers go on and the countdowns end.
Spec ==
    /\ Init /\ [][Next]_vars
    /\ WF_vars(~raced /\ \E t \in tasks : Step(t))
    /\ WF_vars(~raced /\ \E u \in Users : TimerFires(u))

-----------------------------------------------------------------------------
Quiet == tasks = {}

\* Nobody who has a socket in the room is counted down to an eviction, and every
\* member who came by a socket and has none left there is, in whatever order
\* several tabs come and go (markDisconnectedIfLastSocket, markOnline,
\* cancelEviction).
CountdownMeansAway ==
    ~raced =>
        /\ \A u \in Away : Here(u) = {}
        /\ Quiet => \A u \in members :
              entry[u] # "none" /\ Here(u) = {} => u \in Away

\* Who has no socket in the room for good is removed from it, so that an
\* abandoned room empties and closes (markDisconnected, the eviction handler).
AwayAreEvicted ==
    \A u \in Users :
        u \in members /\ entry[u] # "none" /\ Here(u) = {}
            ~> u \notin members \/ Here(u) # {} \/ raced

\* When nothing is in progress, the room was last told who its members are and
\* who of them is away, the votes are those of members, and the room was told
\* them too, except when the last change was a game's start, which clears them
\* and tells nobody (handleMemberRemoved, onVoteGame, broadcastRoomState,
\* doStart).
RoomIsTold ==
    Quiet /\ ~raced =>
        /\ told.members = members /\ told.away = Away \cap members
        /\ votes \subseteq members
        /\ told.votes = votes \/ (wiped = voteRev /\ votes = {})
=============================================================================
