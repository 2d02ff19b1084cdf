----------------------------- MODULE RoomClient -----------------------------
(***************************************************************************)
(* One tab's way into a room: the room page, the room store with its one   *)
(* socket, and Socket.IO underneath, over the session of module Session.   *)
(* The page resolves a code and joins; the store joins again on every      *)
(* connect, refreshes the token when a handshake is refused, and closes    *)
(* the socket when the session ends.  The server answers a join in two     *)
(* steps, as its handler awaits in between, and pushes the room's state.   *)
(*                                                                         *)
(* Socket.IO is external: what is emitted without a connection is buffered *)
(* and sent on connect; what was sent on a connection that is lost is      *)
(* never answered; a lost connection is retried, one that the server or    *)
(* disconnect() ended, or whose handshake was refused, is not.             *)
(***************************************************************************)
EXTENDS Session, Integers, Sequences

CONSTANTS
    Rooms,       \* the rooms the tab may open
    NoRoom,      \* null, as a room
    PageCalls,   \* bound: the requests of Session followed beside the room
    PageUsers,   \* bound: who signs in beside the room
    MaxSockets,  \* bound: sockets created
    MaxTroubles, \* bound: connections lost and handshakes that fail
    MaxPushes    \* bound: messages on their way on one connection

ASSUME PageAssumption == PageCalls \subseteq Calls /\ PageUsers \subseteq Users

VARIABLES
    page,     \* the room whose page is shown
    stage,    \* what the page's join effect is at: idle, resolving or joining
    room,     \* the store's room
    kicked,   \* the store's kickedReason
    pending,  \* pendingJoin's room
    socket,   \* the module's socket, 0 for null
    conn,     \* the sockets created so far and the state of their connections
    handlers, \* the sockets whose handleConnectError awaits the refresh
    asks,     \* requests with an acknowledgement that have none yet
    inbox,    \* per socket, what the server has sent on its connection
    joined,   \* per socket, the Socket.IO rooms it is in on the server
    stray,    \* history: the room shown may be one the server has taken us out of
    troubles

view == <<page, stage, room, kicked, pending>>
wire == <<socket, conn, asks, inbox, joined>>
client == <<view, wire, handlers, stray, troubles>>
vars == <<session, client>>

Sockets == DOMAIN conn
Live == {s \in Sockets : conn[s].state \in {"opening", "up"}}
On(s) == {a \in asks : a.on = s}

ClientInit ==
    /\ page = NoRoom /\ stage = "idle" /\ room = NoRoom /\ kicked = FALSE /\ pending = NoRoom
    /\ socket = 0 /\ conn = << >> /\ asks = {} /\ inbox = << >> /\ joined = << >>
    /\ handlers = {} /\ stray = FALSE /\ troubles = 0

Init ==
    /\ SessionInit /\ ClientInit
    /\ InFlight(Kinds) \subseteq PageCalls

-----------------------------------------------------------------------------
\* The page's effect runs again whenever its room or the user object changes;
\* what the run before it awaited no longer matters to it.
EffectStage ==
    IF page' # NoRoom /\ user' # NoOne /\ \A c \in Calls : calls'[c].kind # "me"
    THEN "resolving" ELSE "idle"

Open(r) ==
    /\ page # r
    /\ page' = r
    /\ UNCHANGED <<session, room, kicked, pending, wire, handlers, stray, troubles>>
    /\ stage' = EffectStage

Fails == stage' = "idle" /\ UNCHANGED <<pending, wire>>

\* emitWithAck: sent at once on a connection, else kept for the next one.
Ask(s, op, r, onto) ==
    onto \cup {[on |-> s, op |-> op, room |-> r,
                at |-> IF conn'[s].state = "up" THEN "sent" ELSE "buffered"]}

\* ensureSocket: the one socket, created on first use.
EnsureSocket ==
    IF socket # 0
    THEN UNCHANGED <<socket, conn, inbox, joined>>
    ELSE /\ Len(conn) < MaxSockets
         /\ socket' = Len(conn) + 1
         /\ conn' = Append(conn, [state |-> "opening", who |-> NoOne, retry |-> TRUE])
         /\ inbox' = Append(inbox, << >>)
         /\ joined' = Append(joined, {})

\* join, once the code is resolved: a join of the same room under way is
\* shared.
Join ==
    /\ stage = "resolving"
    /\ \/ pending = page /\ stage' = "joining" /\ UNCHANGED <<pending, wire>>
       \/ /\ pending # page
          /\ IF socket = 0 /\ token = NoOne
             THEN Fails
             ELSE /\ EnsureSocket
                  /\ asks' = Ask(socket', "join", page, asks)
                  /\ pending' = page
                  /\ stage' = "joining"
    /\ UNCHANGED <<session, page, room, kicked, handlers, stray, troubles>>

\* The code is unknown, or the request fails.
NotResolved ==
    /\ stage = "resolving"
    /\ Fails
    /\ UNCHANGED <<session, page, room, kicked, handlers, stray, troubles>>

\* leave: a store without a room has nothing to leave.
Leave ==
    /\ page # NoRoom
    /\ \A a \in asks : a.op # "leave"
    /\ IF room = NoRoom
       THEN page' = NoRoom /\ stage' = "idle" /\ UNCHANGED wire
       ELSE /\ socket # 0 \/ token # NoOne
            /\ EnsureSocket
            /\ asks' = Ask(socket', "leave", room, asks)
            /\ UNCHANGED <<page, stage>>
    /\ UNCHANGED <<session, room, kicked, pending, handlers, stray, troubles>>

\* The page's effect on room:kicked.
RouteAway ==
    /\ kicked
    /\ page # NoRoom
    /\ kicked' = FALSE
    /\ page' = NoRoom
    /\ stage' = "idle"
    /\ UNCHANGED <<session, room, pending, wire, handlers, stray, troubles>>

-----------------------------------------------------------------------------
\* What the end of a connection takes along: all that was on its way.
Cut(s, state) ==
    /\ conn' = [conn EXCEPT ![s].state = state]
    /\ asks' = {a \in asks : a.on # s \/ a.at = "buffered"}
    /\ inbox' = [inbox EXCEPT ![s] = << >>]
    /\ joined' = [joined EXCEPT ![s] = {}]

\* The handshake is accepted: what was buffered is sent, and the room that is
\* shown is joined again.
Connect(s) ==
    /\ conn[s].state = "opening"
    /\ token # NoOne
    /\ conn' = [conn EXCEPT ![s].state = "up", ![s].who = token]
    /\ LET sent == {[a EXCEPT !.at = IF a.on = s THEN "sent" ELSE @] : a \in asks}
       IN  asks' = IF room = NoRoom THEN sent ELSE Ask(s, "rejoin", room, sent)
    /\ UNCHANGED <<session, view, socket, inbox, joined, handlers, stray, troubles>>

Trouble == troubles < MaxTroubles /\ troubles' = troubles + 1

\* handleConnectError, up to its await
AwaitRefresh(s) ==
    /\ handlers' = handlers \cup {s}
    /\ refresh' = IF refresh = Idle THEN cookie ELSE refresh
    /\ UNCHANGED <<user, token, cookie, calls, out>>

\* A handshake fails: refused by the server, or the network is away.
Refused(s) ==
    /\ conn[s].state = "opening"
    /\ Trouble
    /\ \/ Cut(s, "refused")
       \/ Cut(s, IF conn[s].retry THEN "opening" ELSE "off")
    /\ AwaitRefresh(s)
    /\ UNCHANGED <<view, socket, stray>>

LoseConnection(s) ==
    /\ conn[s].state = "up"
    /\ Trouble
    /\ Cut(s, IF conn[s].retry THEN "opening" ELSE "off")
    /\ UNCHANGED <<session, view, socket, handlers, stray>>

-----------------------------------------------------------------------------
\* The server lets a user in: the socket is in the room, the answer follows.
Enter(a) ==
    /\ a.op \in {"join", "rejoin"} /\ a.at = "sent"
    /\ joined' = [joined EXCEPT ![a.on] = @ \cup {a.room}]
    /\ asks' = (asks \ {a}) \cup {[a EXCEPT !.at = "inside"]}
    /\ UNCHANGED <<session, view, socket, conn, inbox, handlers, stray, troubles>>

Message(a, ok) == [op |-> a.op, room |-> a.room, ok |-> ok]

Answer(a) ==
    /\ a.at = "inside"
    /\ inbox' = [inbox EXCEPT ![a.on] = Append(@, Message(a, TRUE))]
    /\ asks' = (asks \ {a}) \cup {[a EXCEPT !.at = "answered"]}
    /\ UNCHANGED <<session, view, socket, conn, joined, handlers, stray, troubles>>

\* A room that is full, closed or barred; or one the socket is not in.
Deny(a) ==
    /\ a.at = "sent"
    /\ a.op = "leave" => a.room \notin joined[a.on]
    /\ inbox' = [inbox EXCEPT ![a.on] = Append(@, Message(a, FALSE))]
    /\ asks' = (asks \ {a}) \cup {[a EXCEPT !.at = "answered"]}
    /\ UNCHANGED <<session, view, socket, conn, joined, handlers, stray, troubles>>

\* onRoomLeave takes every socket of the user out of the room.
LetGo(a) ==
    /\ a.op = "leave" /\ a.at = "sent"
    /\ a.room \in joined[a.on]
    /\ joined' = [s \in Sockets |-> IF conn[s].who = conn[a.on].who
                                    THEN joined[s] \ {a.room} ELSE joined[s]]
    /\ inbox' = [inbox EXCEPT ![a.on] = Append(@, Message(a, TRUE))]
    /\ asks' = (asks \ {a}) \cup {[a EXCEPT !.at = "answered"]}
    /\ stray' = (stray \/ \E b \in asks : b.op # "leave" /\ b.room = a.room /\ b.at # "buffered")
    /\ UNCHANGED <<session, view, socket, conn, handlers, troubles>>

\* Somebody changes the room.
Push(s, r) ==
    /\ r \in joined[s]
    /\ Len(inbox[s]) < MaxPushes
    /\ inbox' = [inbox EXCEPT ![s] = Append(@, [op |-> "state", room |-> r, ok |-> TRUE])]
    /\ UNCHANGED <<session, view, socket, conn, asks, joined, handlers, stray, troubles>>

\* expelSockets: the reason, and the end of the connection.
Kick(s, r) ==
    /\ r \in joined[s]
    /\ Len(inbox[s]) < MaxPushes
    /\ joined' = [joined EXCEPT ![s] = {}]
    /\ inbox' = [inbox EXCEPT ![s] = Append(@, [op |-> "kicked", room |-> r, ok |-> TRUE])]
    /\ UNCHANGED <<session, view, socket, conn, asks, handlers, stray, troubles>>

-----------------------------------------------------------------------------
Settle(r) ==
    /\ pending' = IF pending = r THEN NoRoom ELSE pending
    /\ stage' = IF stage = "joining" /\ page = r THEN "idle" ELSE stage

\* The store's listeners and the promises of its requests.
Receive(s) ==
    /\ conn[s].state = "up"
    /\ inbox[s] # << >>
    /\ LET msg == Head(inbox[s])
           done == {a \in asks : ~(a.on = s /\ a.at = "answered" /\ a.op = msg.op /\ a.room = msg.room)}
           takes == /\ inbox' = [inbox EXCEPT ![s] = Tail(@)]
                    /\ asks' = done
                    /\ UNCHANGED <<socket, conn, joined>>
       IN  \/ /\ msg.op = "join" /\ msg.ok
              /\ room' = msg.room /\ kicked' = FALSE
              /\ Settle(msg.room)
              /\ takes
              /\ UNCHANGED page
           \/ /\ msg.op = "join" /\ ~msg.ok
              /\ Settle(msg.room)
              /\ takes
              /\ UNCHANGED <<page, room, kicked>>
           \/ /\ msg.op = "rejoin"
              /\ room' = IF msg.ok THEN msg.room ELSE room
              /\ takes
              /\ UNCHANGED <<page, stage, kicked, pending>>
           \/ /\ msg.op = "leave" /\ msg.ok
              /\ room' = NoRoom /\ kicked' = FALSE
              /\ page' = NoRoom /\ stage' = "idle"
              /\ takes
              /\ UNCHANGED pending
           \/ /\ msg.op = "leave" /\ ~msg.ok
              /\ takes
              /\ UNCHANGED view
           \/ /\ msg.op = "state"
              /\ room' = msg.room
              /\ takes
              /\ UNCHANGED <<page, stage, kicked, pending>>
           \/ /\ msg.op = "kicked"
              /\ kicked' = TRUE
              /\ Cut(s, "off")
              /\ UNCHANGED <<page, stage, room, pending, socket>>
    /\ stray' = (stray \/ s # socket \/ (Head(inbox[s]).op = "rejoin" /\ ~Head(inbox[s]).ok))
    /\ UNCHANGED <<session, handlers, troubles>>

-----------------------------------------------------------------------------
\* disconnect() on some sockets: what was to be sent is never sent.  Others are
\* stranded: nobody retries a refused handshake once its refresh was lost.
Shut(ended, left) ==
    /\ conn' = [s \in Sockets |->
                    IF s \in ended THEN [conn[s] EXCEPT !.state = "off", !.retry = FALSE]
                    ELSE IF s \in left /\ conn[s].state = "refused"
                         THEN [conn[s] EXCEPT !.state = "stranded"] ELSE conn[s]]
    /\ asks' = {a \in asks : a.on \notin ended}
    /\ inbox' = [s \in Sockets |-> IF s \in ended THEN << >> ELSE inbox[s]]
    /\ joined' = [s \in Sockets |-> IF s \in ended THEN {} ELSE joined[s]]

\* Deviation: the socket is forgotten but not disconnected.
CloseForgetful(others, left) ==
    /\ IF user # NoOne /\ user' = NoOne
       THEN room' = NoRoom /\ kicked' = FALSE /\ socket' = 0
       ELSE UNCHANGED <<room, kicked, socket>>
    /\ Shut(others, left)

\* The store follows the session: when nobody is signed in any more it closes
\* its socket and forgets the room, though not the join that is pending.
\* others: sockets that gave up for the same reason; left: those left alone.
Close(others, left) ==
    IF user # NoOne /\ user' = NoOne
    THEN /\ room' = NoRoom /\ kicked' = FALSE /\ socket' = 0
         /\ Shut(others \cup ({socket} \ {0}), left)
    ELSE /\ Shut(others, left)
         /\ UNCHANGED <<room, kicked, socket>>

\* Requests that leave the user object alone, and those that set it.  Of the
\* requests the tab sends only the sign-in and the logout are followed here: an
\* upgrade does to the room what a sign-in does, and the others do nothing.
Quiet ==
    /\ \/ \E c \in PageCalls, kind \in {"login", "logout"}, who \in PageUsers \cup {NoOne} :
             Send(c, kind, who)
       \/ \E c \in Calls : Refuse(c)
       \/ \E c \in Calls : calls[c].kind = "login" /\ Lose(c)
    /\ UNCHANGED client

SetsUser ==
    /\ \/ \E c \in Calls : Accept(c)
       \/ \E c \in Calls : calls[c].kind \in {"logout", "me"} /\ Lose(c)
    /\ Close({}, {})
    /\ UNCHANGED <<page, pending, handlers, stray, troubles>>
    /\ stage' = EffectStage

\* Deviation: connect() is left to Socket.IO, as it is for a lost network.
ReviveNone == conn' = conn

\* handleConnectError with a new token: every socket that waited connects,
\* one that was closed in the meantime too.
Revive ==
    conn' = [s \in Sockets |-> IF s \in handlers /\ conn[s].state # "up"
                               THEN [conn[s] EXCEPT !.state = "opening"] ELSE conn[s]]

RefreshSucceeds ==
    /\ Refreshed
    /\ Revive
    /\ handlers' = {}
    /\ UNCHANGED <<page, room, kicked, pending, socket, asks, inbox, joined, stray, troubles>>
    /\ stage' = EffectStage

\* Without a session the sockets that waited give up; with one they are left to
\* Socket.IO, which retries a lost network but not a refused handshake.
RefreshFails ==
    /\ \/ RefreshRefused
       \/ RefreshLost(handlers # {})
    /\ IF token' = NoOne THEN Close(handlers, {}) ELSE Close({}, handlers)
    /\ handlers' = {}
    /\ UNCHANGED <<page, pending, stray, troubles>>
    /\ stage' = IF user' = user THEN stage ELSE EffectStage

-----------------------------------------------------------------------------
Next ==
    \/ \E r \in Rooms : Open(r)
    \/ Join
    \/ NotResolved
    \/ Leave
    \/ RouteAway
    \/ \E s \in Sockets : Connect(s)
    \/ \E s \in Sockets : Refused(s)
    \/ \E s \in Sockets : LoseConnection(s)
    \/ \E a \in asks : Enter(a)
    \/ \E a \in asks : Answer(a)
    \/ \E a \in asks : Deny(a)
    \/ \E a \in asks : LetGo(a)
    \/ \E s \in Sockets : \E r \in joined[s] : Push(s, r)
    \/ \E s \in Sockets : \E r \in joined[s] : Kick(s, r)
    \/ \E s \in Sockets : Receive(s)
    \/ Quiet
    \/ SetsUser
    \/ RefreshSucceeds
    \/ RefreshFails

Spec == Init /\ [][Next]_vars

-----------------------------------------------------------------------------
\* A session has one connection: any other that is alive was closed while the
\* refresh it had asked for was under way, and the refresh revived it
\* (ensureSocket, closeSocket, handleConnectError).
OneLiveSocket == \A s \in Live : s # socket => ~conn[s].retry

Still(s) == conn[s].state = "up" /\ On(s) = {} /\ inbox[s] = << >>

\* The room that is shown is one the connection is in, as soon as nothing is
\* under way, unless the server refused to let the tab in again, a leave
\* overtook a join or a revived socket spoke (the connect listener, leave, room:state).
NoGhostRoom ==
    socket # 0 /\ Still(socket) /\ room # NoRoom /\ ~stray => room \in joined[socket]

\* Nothing connects the socket again: the server or the tab ended its
\* connection, or its handshake was refused and the refresh for it lost.
GivenUp(s) == conn[s].state \in {"off", "stranded"}

\* The join the page waits for can no longer be answered: the request went down
\* with its connection, or its socket has been given up.
JoinIsDead ==
    \/ \A a \in asks : ~(a.op = "join" /\ a.room = pending)
    \/ socket # 0 /\ GivenUp(socket)

\* A page that waits for its join is told the outcome, through refused
\* handshakes, refreshes and lost networks (join, handleConnectError).
JoinsEnd == stage = "joining" ~> stage # "joining" \/ JoinIsDead

\* A session has one connection, and a room that is shown is one it is in.
ConnectionRight == OneLiveSocket /\ NoGhostRoom

\* What the comment on handleConnectError says of a refresh that brought no
\* token while the store still has one: Socket.IO's backoff is still running,
\* so no socket in use is stranded.
BackoffStillRuns == socket # 0 => conn[socket].state # "stranded"
=============================================================================
