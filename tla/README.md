# Formal models of the game platform

TLA+ models of the game platform: a persistent room in which friends play word
and card games over sockets (`backend/`, `libs/game-core/`), and the browser tab
that takes them there (`frontend/`). TLC checks the models on small instances;
TLAPS proves the most important of their properties for every instance. Paths
below are paths of the repository, and `file.ts:n` is a line of it.

## 1. The system and its parts

A room is a row in Postgres with its members. Sockets talk to
`RealtimeGateway`; it calls `RoomsService` for the room and
`GameRuntimeService` for the game. A running game is one JSON snapshot in
Redis, reduced by the pure code of `libs/game-core`. Every operation that comes
over a socket, and every timer, takes the Redis lock `room:<id>` around its
reads and writes. Some paths do not. In the browser a few stores hold what the
backend sends: the session, the room, the view of the game.

| Part | State | Operations | Talks to |
|---|---|---|---|
| Word engine, `alias.ts` (Alias and Hat), `crocodile.ts` | the snapshot: turn, teams, deck cursor, word, clock, scores, history | `word/start_round`, `correct`, `skip`, `end_round`, `onTimer`, `pause`, `resume`, the view | returns timer operations to the runtime |
| Card engine, `durak.ts`, `nine.ts` | hands, deck, table, roles, places | attack, defend, take, pass; play, pass; the view | pure |
| `GameRuntimeService` | `room:<id>:session`, `session:<id>:state`, `room:<id>:standings` in Redis; `game_sessions`, `game_results` rows; the status of the room; return timers in memory | start, dispatch, handleTimer, doFinish, pauseForDisconnect, resumeAfterReconnect, abandonIfPlayerLeft, handleRoomEmptied, returnToLobby | the lock, the engines, `RoomsService`, `GameTimerService`, pushes to the sockets |
| `GameTimerService` | the armed timers, in memory | set, clear, clearAll | calls handleTimer |
| `RedisService` | lock keys, rate counters | withLock, rateLimit | Redis |
| `RoomsService`, `RoomsController` | `rooms`, `room_members`, `room_bans` rows | create, join, leave, kick, ban, transferHost, setReady, selectGame | called under the lock by the gateway, without it by REST |
| `RealtimeGateway`, `PresenceService` | socket rooms, presence entries, grace timers, votes | `room:*`, `game:*`, `draw:*` events, disconnecting, eviction, broadcasts | all of the above |
| `DrawingService` | the stroke log of a Crocodile session | append, clear, getAll | gateway |
| `AuthService` | `users` rows, tokens, the refresh cookie | guest, register, upgrade, login, OAuth, refresh, logout | REST |
| `FriendsService`, `NotificationsService` | `friendships`, `notifications` rows | request, accept, decline, remove; push | REST |
| `VoiceService`, history, decks | none | a token; reads | REST |
| `auth-store.ts`, `api.ts` | user, access token, the shared refresh | hydrate, login, upgrade, logout, requests | REST |
| `room-store.ts`, `socket.ts`, `room/[code]/page.tsx` | the one socket, room, view, strokes, standings | join, leave, the listeners, the choice of a screen | the gateway, the auth store |
| `room-browser.tsx`, `friends-list.tsx`, `use-voice.ts`, the game screens | what is listed, heard, enabled | poll, act and load, mute, click | REST, LiveKit, the room store |

What is hard here:

- *Interleaving.* Handlers are asynchronous; between two awaits anything may
  happen. The lock covers most of it; `handleRoomEmptied`, `returnToLobby`, the
  broadcasts and the REST routes do without. In the browser a page may be left,
  a user signed out or a filter changed at every await.
- *Order.* The lock polls and keeps no queue: a request that arrived later may
  be served first. A timer fires outside the lock and then waits for it. What
  is read for a broadcast may be sent after what was read later.
- *Failure.* The lock fails open after five seconds or on an error of Redis,
  and lapses after ten under an owner who still works. Connections are lost
  with what was on its way, handshakes are refused, refreshes get no answer.
- *Several writes for one fact.* Starting, finishing and aborting a session
  each write a status, two keys and a row one after the other; removing a
  member reads and writes four times; a stroke is stored and then told.
- *Rules with edges.* Teams of unequal size, a deck that runs out in a turn,
  hands that refill from too few cards, players who go out with their last card.
- *Rules written twice.* The screens derive from a partial view what the
  server decides from all of it.

What makes the parts correct:

- word games: the clock gives a turn its budget and no more whatever is paused;
  the armed timer is the deadline of the running turn; teams explain in
  rotation; scores follow the history; no word comes twice;
- session: no update is lost, a running turn has an end, a session is finished
  once, players see one turn after the other;
- lock and limiter: whoever has the lock keeps it until it is released or
  lapses, nobody waits for ever; a window lets no more through than its limit;
- room and runtime: `in_game` means that there is a session, results end, old
  sessions leave nothing behind, no session waits for somebody who left;
- membership: an empty room closes, capacity, host among the members, bans kept;
- presence: whoever has no socket in the room is counted down and evicted,
  nobody else is, and the room is told;
- card games: no card is lost or doubled, somebody can always move, the
  defender is never attacked with more than their hand, places are right;
- accounts and friends: one account per address and identity, a removed
  friendship stays removed, a request is notified;
- browser: a logout is final, one live connection, the room that is shown is
  the one the socket is in, everybody sees what the room does, a screen offers
  exactly what the server accepts, no microphone stays on unseen.

## 2. The modules

| Module | Stands for | Abstract specification |
|---|---|---|
| `TurnOrder` | what a word game promises: turns one at a time, each begun and ended once | |
| `WordGame` | the rules of the word games with clock, deck and scores; operations one at a time | implements `TurnOrder` |
| `WordScreen` | the view of a word game and what the screen offers and shows of it | extends `WordGame` |
| `Drawing` | the stroke log of Crocodile, the draw handlers and the players' pictures | extends `WordGame` |
| `WordSession` | how requests, timers, disconnects and reconnects reach one session through the lock | implements `TurnOrder` |
| `RedisLock`, `RateLimiter` | `withLock` and `rateLimit` with their failures | |
| `Accounts` | the `users` table and the calls that write to it | |
| `Friends` | the rows of a pair, the notifications and the two friends pages | |
| `Services` | the four above together | extends them |
| `RoomLifecycle` | lobby, in_game, results, lobby | |
| `RoomRuntime` | `GameRuntimeService` over the life of a room, one step per stretch between awaits | implements `RoomLifecycle` |
| `RoomService` | the rows of a room, one step per database statement | |
| `Rooms` | who calls `RoomService`, with the lock or without | extends `RoomService` |
| `Presence` | members, sockets, presence entries, countdowns, evictions, votes and what the room is told of them | |
| `Screens` | the pushes and broadcasts of a room and the screens of its players | |
| `RoomPage` | a room's rows and its screens | extends `Rooms`, `Screens` |
| `Session` | the auth store, the requests and their shared refresh | |
| `RoomClient` | the room page, the room store and its socket | extends `Session` |
| `RoomBrowser`, `Voice` | the list of rooms; the voice panel | |
| `Tab` | the four above together | extends them |
| `CardTable` | the parts Durak and Nine share (`card-engine.ts`): pack, deal, order of play | |
| `Durak`, `Nine` | the two reducers | extend `CardTable` |
| `CardGames` | the registry: one session plays one of them | extends both |
| `CardScreen` | the view of a card game and the rules the screen derives from it | extends `CardGames` |
| `Games` | the catalogue: a session of a word game or of a card game | extends `WordScreen`, `CardScreen` |
| `MC...` | the values of the constants for TLC | |
| `...Proofs`, `Sums` | theorems and their proofs | |

`Services`, `Games`, `RoomPage` and `Tab` put components that share no state under one
next-state relation: a variable `part` says which of them a behaviour follows,
and the others stay as they begin. That asks several questions in one run; it
claims nothing about how the parts would interleave, because they would not
notice one another. `RoomClient` over `Session`, `Drawing` over `WordGame` and
`WordScreen` over `WordGame` are compositions in the full sense: there the
parts read and write each other's state.

Every module keeps the operations that are named *Deviation* in their comment:
they are no part of the specification, and stand for a plausible mistake in the
code. Replacing the operation they precede by the deviation makes TLC find the
property they are listed with in `PROJECT.json` violated.

Several properties excuse a race by name: a history variable (`raced`, `late`,
`crossed`, `stray`, `tangled`, `muddled`, `healed`, `doubled`, `twice`, `wiped`)
records the step in which the race is lost, and its comment says which one it
is. Each is a real weakness of the code, and what follows it is *not* covered by
the property that excuses it; section 5 lists them. In `Presence` and `Screens` a
behaviour ends there; elsewhere it goes on.

### WordGame

The variables carry the names of the snapshot where they exist (`endsAt` is
`roundEndsAt`, `banked` is `pausedRemainingMs`, `cursor` is `deckCursor`). A
word is its position in the shuffled deck. `StartRound`, `Correct` (with the
second payment that Crocodile makes to the guesser), `Skip`, `EndRound` and
`TimerFires` are the actions of the reducers and `onTimer`; `Pause` and
`Resume` are `pauseWordTurn` and `resumeWordTurn` behind the runtime's
`isWaitingOn`; `Tick` moves the clock. An action includes the timer operation
it returns: `timer` is the deadline of the armed timer. A timer may fire late,
never early. `ran` is history: how long the clock of this turn has run.
The guards `MayStart`, `MayCredit` and `MayEnd` are what the reducers ask first.
`WordScreen` adds `buildWordGameView` (`WordGameView`), the ranking and the
components that render them.

### Drawing

A request is a task that goes on where its handler awaits: the check against
the session, `RPUSH`, `LTRIM`, the broadcast; the lock, `DEL`, the broadcast;
the read of the log for a socket that joins and the message with it. The clear
of a new round is awaited under the room lock (`applyEffect`), so the game
waits for it. `canvas[p]` is what the store of `p` holds.

### WordSession

Each member of `Requests` is a slot for one operation in flight. It arrives
(`Act`, `Drop`, `Rejoin`, `TimerFires`), waits, gets the lock and loads
(`Enter`), is refused or reduced and persisted (`Refuse`, `Persist`), and has
its timer operations applied, with `doFinish` after the last turn (`Settle`).
`Drop` first passes through `Checked`: the gateway asks the adapter who is left
and gets an answer that may be old. The game is reduced to what decides about
turns: the turn's number, whether it is begun, whether its clock runs or is
banked. Each player is a team of their own.

### RedisLock and RateLimiter

Callers poll, acquire or give up (the deadline passed, or Redis failed, or only
its answer was lost), load a version, persist the next one or throw, and
release with the token compared. `Expire` is the time to live. `barged` and
`lapsed` record who worked without the lock and who lost it. `RateLimiter` has
`INCR` (`Hit`), the `PEXPIRE` that the call which counted 1 sends next
(`OpenWindow`), an error at either with or without effect (`FailOpen`) and the
end of a window (`Lapse`).

### Accounts and Friends

A call reads (`findByEmail`, `findByOAuth`) and then writes (`create`,
`update`), and any two calls interleave in between; the arbiter is the unique
index on `users.email`. `keys` is history: which credentials a caller was told
are set. `Friends` follows one pair: request, accept, decline and remove as a
read and a write, the notification after the row, and the two pages that act
and then load their lists again, whose answers come in any order. Two requests
that cross leave a row in each direction: `OneRowBacksThePair` is what the code's
comments say, `RowsOfThePair` is what the index and the calls give.

### RoomRuntime

Each member of `Calls` is a call at some await: `start` -> `created` ->
`stored`; `act` or `timer` -> `loaded` -> `persisted` -> `finish` -> `written`
-> `shown` -> `forgotten`; `return` -> `returned`; `removed` -> `abandon` ->
`abandoned` or `emptied` -> `clearing`. The session's state is its action
count: any action may be rejected, may set or clear timers, may end the game.
`handleRoomEmptied` and `returnToLobby` run without the lock, as in the code.
Join, removal and the REST leave are one step each here; `Rooms` takes them
apart. `silent` records who left by REST, `rows` how often the results of each
session have been written, since `game_results` has no unique index and a second
write would double them.

### RoomService and Rooms

`join` is five steps (room, ban, row, count, write), `removeActiveMember` up to
five (room, row, write, who remains, close or hand on), and `kick`, `ban` and
`transferHost` begin with `assertHost`. A call keeps what it has read: whether
the user had a row, whether they were host, who remained. A new row meets the
unique constraint when another call was faster, which counts as success.
`Rooms` adds the callers: the gateway's handlers and the eviction hold the
lock, the REST routes do not; `raced` records that a REST call has overlapped
another one.

### Presence and Screens

In `Presence` a handler is a task, with a user, a socket and the stage it is
at; the stages are its awaits. `entry` is the presence map of one room with its
timer, `inside` the Socket.IO room, `told` what the room was last sent. What a
handler does to the rows under the room lock is one step. A broadcast is two:
`ReadMembers` and `TellState`, `ReadVotes` and `TellVotes`, because `toDto` and
`hgetall` are awaited before the `emit`; a revision number (`roomRev`, `voteRev`)
tells a picture that is sent from a newer one that was sent already. `Start` is
`doStart` as far as the votes go: it deletes them and tells the room its state,
not its votes. `Screens` looks at
the same gateway from the other side: the status of the room and its session,
the pushes of `game:started`, `game:state`, `game:ended`, the broadcast of
`room:state` that reads first and sends later, the catch-up of a socket that
joins, and, for each player, the store that listens and the choice the page
makes of a screen. `edition` numbers the states of the room, so that an older
picture can be told from a newer one.

### Session, RoomClient, RoomBrowser, Voice

A token is the user it was minted for, and the server may find it expired at
any time. A request is answered, refused or lost; a refusal starts the refresh
or waits for the one that is under way, and a request sent again is not
refreshed twice. `RoomClient` adds the socket: connections opening, up, ended,
refused or waiting for the refresh, requests buffered or on their way, answers
and pushes in an ordered inbox, and the listeners that write the store.
`RoomBrowser` counts the requests in flight for each filter, whose answers
arrive in any order. `Voice` has a run of the effect for every mount, and
cleans each up at whatever await it has reached.

### CardTable, Durak, Nine, CardGames, CardScreen

One action per action of the reducers, with `finalizeBout` (hands refilled,
players out, roles rotated, places given) as part of the action that ends a
bout. `Seated` are the players of the session, `turnPlayer` is Nine's
`turnPlayerId`. `Durak.AttacksLeft` derives the limit of a bout the way
`maxAttacksAllowed` does, from the table and the hand. What a reducer asks
before it accepts an action is an operator of its own (`MayAttack`, `MayTake`,
`MayPass`, `MayPlay`, `MayPassTurn`), which the action begins with. `CardScreen`
is the second copy of these rules, from the view of one player.

## 3. The runs

All configurations finish within five minutes on two workers. Deadlock is
checked in `WordSession` and `StaleTimer`. The others really stop: a game is
done, a lock's callers are served, a bound on time, sessions, sockets
or requests is reached, a room is closed.

| Run | Checks | Bounds, and why they are enough |
|---|---|---|
| `Games` | `ClockRight`, `FairTurns`, `ScoreMatchesHistory`, `NoWordTwice`, `WordScreenRight`, `ImplementsTurnOrder`, `CardsOnce`, `GameGoesOn`, `PlacesRight`, `ScreenMatchesRules` | word game: five players in a team of three and one of two, two rounds each: every rotation of teams happens, and members of unequal teams take their turns; budget 2, time up to 6: pauses at every point of a turn, late timers; four words: the deck runs out in a turn. Card games: all 720 orders of six cards in three suits, hands of two, bouts of two, tables of two and three |
| `Drawing` | `CanvasRight`, `CleanSlate` | three players, one turn each: strokes of a turn meet the next; two of them draw, clear, drop out and come back (`Busy`); two strokes and a log of one: the limit cuts; two requests at a time, one rejoin or clear asked for |
| `WordSession` | `NoLostUpdate`, `TimersMatchTurns`, `FinishedOnce`, `ImplementsTurnOrder`, `ClocksRunOut` | two players, three turns: a stale timer has a turn before it and after it; three requests: two of players and one of a timer race |
| `Services` | `LockIsSafe`, `EveryCallReturns`, `LimitHolds`, `AccountsRight`, `FriendsRight` | lock: three callers, an owner, one that times out beside it, one that comes after a lapse; limiter: a limit of two and up to four calls counted, by two clients; accounts: three rows, three sign-ins at once, an OAuth identity with an address that may be registered and one without; friends: a pair, two requests ever, three calls at once, one failure |
| `RoomRuntime` | `StatusFitsSession`, `NobodyIsMissed`, `NoLateResults`, `ImplementsLifecycle`, `ResultsEnd` | two users, two sessions, three calls, of which one is a removal: a call of the old session meets the new one while a member is removed; an action limit of one is reached |
| `RestLeave`, `StaleTimer`, `LostBackoff`, `OppositeRequests` | disagreements, section 5 | as `RoomRuntime`, `WordSession`, `Tab` and `Services` |
| `Rooms` | `EmptyRoomsClose`, `OverbookingBounded`, `HostOrClosed`, `BansKept`, `ScreenRight` | rows: three users for two places: somebody is always too many; two calls in flight at every step of each other; screens: two players, of whom one loses connections, reloads and is evicted (`Movers`), two games of one action, three connections, two jobs at a time: a catch-up meets the finish, the return and the next start |
| `Presence` | `CountdownMeansAway`, `RoomIsTold`, `AwayAreEvicted` | two users and three sockets, so that one has two tabs; two handlers at a time, each at every stage of the other; two leaves, kicks, votes or starts, four of these and the sockets together: a vote that a start clears, a removal that meets a rejoin |
| `Tab` | `SessionRight`, `ConnectionRight`, `ListIsCurrent`, `VoiceRight`, `JoinsEnd` | session: a guest and an account, two requests; room: one request and one account beside it (`PageCalls`, `PageUsers`), two sockets, one network trouble, one push on its way; list: two filters, two failures, two requests of each in flight; voice: two mounts, three unanswered microphone requests |

In `Games`, a card game of three players deals the whole pack: no deck and no
trump is left, as with six players and 36 cards. At two players there is a deck
of two and a trump. A deck that outlasts several bouts of three players is beyond
the bound. In `Presence` a vote that is cleared by a start and cast again, and a
third handler, are beyond the bounds; the theorems are not bounded.

Distinct states: `Games` 47,294, `Drawing` 1,783,964, `WordSession` 65,338,
`Services` 480,050, `RoomRuntime` 511,930, `Rooms` 2,292,710, `Presence` 515,889, `Tab`
233,608.

`Rooms` uses symmetry over the users and calls of the rows, which no definition
tells apart; no other run does. `Games` takes states that differ only in the
session that is not followed for one. `Drawing` uses a view without the scores, the words and the
history, which no action or property of the drawing channel reads.

The inductive invariants of section 6 were found with TLC as well: each held as
an invariant of its component alone, on instances of up to a million states,
before it was proved.

## 4. Fairness

Safety is checked and proved without fairness. Liveness assumes:

- an await resolves: weak fairness of the steps of a call that has begun
  (`Proceeds` in `RoomRuntime`, `Step` in `Presence`, answers in `Tab`, the
  inner steps of the lock);
- a timer fires: weak fairness of `TimerFires` in `WordSession` and `Presence`;
  strong fairness of `CallReturn` in `RoomRuntime`, since the bound on calls and
  the lock may hold it up again and again;
- a waiter gets the lock in the end: strong fairness of `Enter` and `Acquires`.
  `acquireLock` polls and after five seconds goes on without the lock, so no
  waiter is passed over for ever; `RedisLock` has this failure and needs weak
  fairness only;
- nothing of the players: nobody has to act, join or come back. In
  `RoomRuntime` the fairness is that of the calls that are not removals, as
  `Removals` only keeps apart a slot for them.

## 5. Where the code and its words disagree

Four runs end with a violation of what a comment says.

- `StaleTimer` (`alias.ts:175-178`): the callback of a round timer "that fires
  after the turn was already ended manually" is said to be a no-op. Its guard
  asks whether some turn is started. A callback that waits for the lock while
  `end_round` and the next `start_round` are served ends the turn of the next
  explainer.
- `RestLeave` (`rooms.controller.ts:118`): `POST /rooms/:id/leave` does not call
  `handleMemberRemoved`; the session goes on waiting for the player who left,
  which the doc of `abandonIfPlayerLeft` says is fixed for every removal.
- `LostBackoff` (`room-store.ts:328-346`): a refresh that brought no token while
  the store has one is said to meet "Socket.IO's still-running backoff". After a
  refused handshake none is running: the tab stays signed in with a socket that
  nothing connects again.
- `OppositeRequests` (`friends.service.ts:53`): "`Friendship` stores exactly one
  row per unordered pair" (lines 22-24), and `remove` ends a friendship "from
  both sides at once, since only one row backs the pair" (85-87). `sendRequest`
  looks for a row in either direction and creates one later, and the unique index
  is on the ordered pair: two users who ask each other at the same moment leave
  two opposite rows, and a removal destroys one of them.

Races that the properties excuse, and other behaviour met while modelling. A run
that ended with one of these would contradict no clear statement of the
repository; where a comment comes near, it is cited:

- *The lock fails open* and lapses (`redis.service.ts:89`); `LockIsSafe` says
  that updates are lost only then.
- *REST takes no lock* (`realtime.module.ts:56-60` says so). `HostOrClosed` and
  `BansKept` hold only while no REST call has overlapped another call; without
  that condition TLC finds overbooked rooms, a banned member, a closed room with
  members and a host who is no member. Independently of it an empty room closes,
  and a room is overbooked by at most one less than the calls in flight.
- *A frozen clock* (`game-runtime.service.ts:454`): a pause that gets the lock
  after the resume of the same player freezes the clock of an explainer who is
  there, and no grace period runs that would end it.
- *A session that comes back* (`game-runtime.service.ts:625`): an action in
  flight while the room empties persists the abandoned session of the closed
  room again and may write its results, once (`NoLateResults` says so). The doc
  of `handleRoomEmptied` (lines 613-620) says that the abandoned session is
  cleared "without writing `GameResult` rows", which it is, by that method; what
  an action in flight does then is not spoken of. The properties that speak of a
  running session are about open rooms (`~closed`).
- *Between rounds* `roundPaused` stays set when a paused turn is ended by a
  racing `end_round`, and the view of a finished game counts one round too many
  (`WordScreen` looks at `round` only while the game runs).
- *Older pictures win.* A `room:state` or `room:votes` that was read before
  another was sent may be sent after it (`realtime.gateway.ts:153-158`,
  `736-737`), and the room is left with it until the next (`raced` in
  `Presence`); a late acknowledgement of a join sets an older room (`late` in
  `Screens`). The end of a return to the lobby may delete the standings of a game
  that has ended since.
- *A tally that is gone.* `doStart` deletes the votes
  (`game-runtime.service.ts:288`) and sends no `room:votes`; the store keeps its
  tally on `game:started` (`room-store.ts:258`, `264-279`), so the results screen
  and the next lobby show the votes of before the game until somebody votes or
  leaves. `RoomIsTold` excuses this and nothing else (`wiped`): told votes differ
  from stored ones only when a start changed them last.
- *A spectator* keeps the view of the session before (`room-store.ts:46-51`,
  `265-271`) and gets no `game:ended`; `Screens` seats every member.
- *A check of the last socket* may act on an answer of `fetchSockets` that is
  older than a join or another disconnect, and an eviction or a join may meet a
  user who has changed sides meanwhile (`raced` in `Presence`).
- *The log and the pictures* can drift apart: a stroke stored before a clear and
  told after it (`crossed`; the doc of `clearDrawing`, `realtime.gateway.ts:586-590`,
  is about the two callers of it), and a stroke let through in one round and
  stored in the next (`late`).
- *A revived socket.* After a leave that overlaps a join of the same room, after
  a rejoin that was refused, and after an answer or a push of a socket that the
  store has given up, the page may show a room the server has taken it out of
  (`stray` in `RoomClient`, which `ConnectionRight` excuses).
- *A kicked tab* keeps a socket that Socket.IO does not reconnect: a later join
  waits until the page is reloaded (`JoinIsDead`). A guest who signs in to
  another account keeps the identity of the socket.
- *Two upgrades* of one guest at once, and two first sign-ins of an identity
  without an address, lose a password or double an account (`doubled`, `twice` in
  `Accounts`). Two friend requests that cross are the run `OppositeRequests`;
  `FriendsRight` says what still holds then.
- *A window without an end.* An error between `INCR` and `PEXPIRE` leaves a
  counter without an expiry (`erred` in `RateLimiter`); while the first call is
  between the two (`opening`) there is none either.
- *The list of rooms* may show an older answer while the page polls, until the
  next; it takes an error away when an old answer comes after the polling has
  stopped (`room-browser.tsx:17-20`; `healed`). The mute button can disagree with
  the microphone after requests that overlap (`use-voice.ts:201-203`, "button
  never lies", of one request that fails; `tangled`).

## 6. What is proved

Every safety and every refinement property of the passing runs is a theorem of
its specification, for every value of the constants; `tlapm` checks every proof
to the last leaf. The eight proof modules follow the way the components are put
together; `Sums` holds what several of them need.

What is assumed is in the `ASSUME`s of the modules, which TLC evaluates in the
runs. Constants have their types, turn budgets, capacities and log limits are
positive or natural, the calls in flight are finite, no request, caller, user
or address is named as the absent one, the creator of a room is a user. No
bound is assumed to be small. Some say more of the code:

- `TableOfPlayers` (`WordScreen`): nobody has two seats, since a room has one
  row per user, and Crocodile, where guesses pay the guesser, has at least two
  players (`minPlayers` is 3 in `games.ts:34`);
- `TableAssumption` and `DurakAssumption` (`CardTable`, `Durak`): at least two
  different players, and a pack from which everybody can be dealt a full hand
  (two to six players, six cards, `buildDeck36`);
- `NineAssumption` (`Nine`): the pack has the nine of spades, and with a card
  every rank of its suit between it and the nine;
- `ShuffleAssumption`: the shuffle orders the pack, each card once;
- `PairAssumption` (`Friends`): a pair is of two different users, which
  `sendRequest` demands; `SessionAssumption`, `DrawingAssumption` and
  `MoversAssumption` place guests, those who draw and those who move among the
  users and players.

The proofs, by module:

- `GameProofs`, the word games (`ClockRight`, `FairTurns`, `NoWordTwice`,
  `ScoreMatchesHistory`, `TurnOrder`). The inductive invariant is
  `TypeOK /\ BalancedTurns /\ TurnCount /\ ClockInv`. `TurnCount` ties the
  turn's number to the rotation: `turn = explained[active] * TeamCount + active
  + 1`; it keeps the counter in its type and, with `BalancedTurns`, gives that a
  game is finished exactly when every team has had its turns. `ClockShape`, a
  part of `ClockInv`, says that a started turn either runs or has its time
  banked: the case a pause needs. `NoWordTwice` is proved with `WordsInOrder`:
  no word of the history lies beyond the cursor. A score is a sum over the
  entries of a history that only grows: an entry added adds its worth to the
  team whose turn it is (by `TurnCount`, the one `turn - 1` leaves as remainder)
  and to no other.
  From these, every step is a step of `TurnOrder` or a stutter.
- `GameProofs`, their screen (`WordScreenRight`). `Listed`: every word of the
  history was scored in a turn that has begun, which makes the list of the last
  turn all there is from it on. The round follows from `TurnCount` by division;
  and no player is in two teams (`TeamsApart`), so the team marked is the one
  the explainer is in.
- `GameProofs`, the drawings (`CanvasRight`, `CleanSlate`, `DrawingIsWordGame`).
  `DrawingIsWordGame` projects a behaviour to one of `WordGame`, whose types and
  phases the rest uses. `StoredInTurn`: once a round's own clear is granted the
  log holds strokes of this round only. `PicturesFollow`, until two requests are
  told in different orders: what is about to be told is stored, an emptied log
  stays empty until all are told, and who is in the room misses only what is on
  its way.
- `GameProofs`, the card games (`CardsOnce`, `GameGoesOn`, `PlacesRight`,
  `ScreenMatchesRules`). `CardsSorted` says that hands, deck, table, discard and
  layout are disjoint and make up the pack; the counts of `CardsOnce` are then
  sums of cardinalities. `HandsOut` is what `refillHands` does to any hands in
  any order: the deck loses its front, the rest stays, and nobody in the list
  goes short while cards are left. `DurakInv` and `NineInv` add the roles, who
  is out, that a defender holds a card for every open attack, and that the
  layout of Nine is a union of runs through nines (`Runs`), from which a hand
  with a playable card exists. The screen needs only that the view agrees with
  these.
- `WordSessionProofs` (`NoLostUpdate`, `TimersMatchTurns`, `FinishedOnce`,
  `TurnOrder`, types). `Locked`: whoever is between `Enter` and `Release` holds
  the lock, and its copy is the stored snapshot. With the shape of stored
  snapshots (`StoredTyped`) each `Persist` is a step of `TurnOrder`, for any
  number of requests. `Timed` follows the timer through the stretch in which an
  effect is persisted and not yet applied: the stored snapshot is then the
  request's outcome, and an armed timer is the one of the snapshot that it
  loaded (`Pending`).
- `ServicesProofs` (`LockIsSafe`, `LimitHolds`, `AccountsRight`, `FriendsRight`,
  and `ServicesCorrect`: all four in `Services`). The lock: `Held` says where
  acquirers are and needs nothing to work; `Exclusive` that before the first
  failure at most one caller is inside. The limiter: `Counted` adds `passed <=
  count`: every call that was let through as counted has been counted, those
  that failed open in between or not. Accounts: what a call has read is told by
  the step it is at (`Fits`), and the rest is what survives until it writes: one
  row per address, guests have nothing to lose, an upgrade is alone with its
  guest (`UpgradesAlone`), what a caller was told is set is not about to change
  (`KeysHeld`), a row is linked by the address it still has (`LinksByAddress`),
  and an identity without an address has a row or one call that creates it
  (`BareAlone`). Friends: each direction has one row by the index; unless two have
  asked each other at once there is one row at most and none while a request is
  about to create one (`OneSide`), after
  a removal nobody is about to (`OverIsQuiet`), and what a page is about to show
  was read after its user's last call (`ShowsFresh`).
- `RoomRuntimeProofs` (`StatusFitsSession`, `NobodyIsMissed`, `NoLateResults`,
  `RoomLifecycle`, types). `StatusByStep` says at which step of the call that
  holds the lock the status, the keys and the rows may disagree; `OneSession`
  that only the youngest session has a state; `OneReturn` that at most one
  return to the lobby is due or under way although it takes no lock; `Emptied`
  that a room is closed once nobody is in it, and stays so. For any number of calls, sessions and actions.
- `RoomsProofs` (`OverbookingBounded`, `EmptyRoomsClose`, `HostOrClosed`,
  `BansKept`, types). `Overbooking` counts members and joins about to write: a
  join that has counted leaves `Cardinality(members) < MaxPlayers`, a write
  moves one from one term to the other. `Emptied`: an open room without members
  has a removal that is about to look who remains, or to close. Neither uses the
  lock, so they hold for every mixture of REST calls and sockets. For the other
  two, `Undisturbed` says what the one call at work has read of a room that
  nobody else touches, until `raced`.
- `GatewayProofs` (`CountdownMeansAway` and `RoomIsTold` of `Presence`,
  `ScreenRight` of `Screens`). Presence: every debt has a debtor. Whoever is
  online without a socket has a handler on the way that finds out
  (`SomebodyChecks`), whoever has voted and left has one that takes the vote back
  (`SomebodyUnvotes`), and whatever the room does not know yet has one that tells
  it (`StateIsTold`, `VotesAreTold`). A handler that has read and not yet sent
  counts as one that tells only if what it has read is current: the revision it
  has seen is the latest, and then what it has seen is what is stored. That a
  revision which was told is never newer than the stored one, and that one equal
  to it was told with the same contents, is what makes the two revisions
  comparable. When no handler is left, nothing is owed, except the votes that a
  start has cleared. The screens: `InOrder` says what status, session, edition
  and standings have to do with each other at each step of the call under the
  lock, and that a row that was read is no newer than the room; `Shown` that the
  stores in the room follow what the room was told last, and that whoever came
  after that has a catch-up on the way, until a named race. For any number of
  users, sockets, handlers, moves and sessions.
- `TabProofs` (`SessionRight`, `ListIsCurrent`, `VoiceRight`, `ConnectionRight`,
  and `TabCorrect`: all four in `Tab`). The session: `EndedForGood` says what
  keeps a session ended (no cookie, no refresh of anybody's, no request that
  brings a user back), `RefreshShared` that whoever waits has a refresh to wait
  for. The list: the page polls, is hidden or shows an error. Voice: the last
  run alone is not cancelled (`LastRuns`), the panel's Room is its and nobody
  else's is open (`OneRoom`), and unanswered microphone requests alternate from
  what others hear to what the button shows (`InStep`). The connection: without
  one nothing is on its way (`DownIsEmpty`), and the messages in the inbox,
  taken in order, lead the store to a room its socket is in or asks to be in
  again (`Lands`), unless one of them tells of the end.
- `Sums`: the sum of a finite set (`MapThenSumSet`) may be unfolded at any
  element. The library's induction theorems take an operator; here induction
  over the naturals is stated for a set of them and proved from the
  well-founded order, and the recursive function a sum is defined by is shown to
  exist with it.

The theorems of the parts are about the components' own specifications;
`ServicesCorrect` and `TabCorrect` carry them to the specifications that put the
parts together (`Games` and `RoomPage`, which only let a run check two parts at
once, have none), and `RoomKeepsSessionRight` that of
`Session` to `RoomClient`.

## 7. What is only model-checked

Liveness (`ClocksRunOut`, `EveryCallReturns`, `ResultsEnd`, `AwayAreEvicted`,
`JoinsEnd`): the prover has no rule for fairness and `ENABLED`. The four
disagreements of section 5 are counterexamples that TLC finds. That the screens
offer a move exactly when a reducer accepts it is stated with the guards of the
actions (`MayStart`, `MayAttack`, ...), which the actions begin with.

## 8. What is not modelled

- *Process restarts.* Timers are in memory; the repository's README says that a
  restart loses them and that a room may stay in results. The models let every
  await of the runtime succeed, except those of the lock; a `doFinish` that
  throws half-way is the same loss.
- *Chat, voice tokens, and what the lobby only sets*: ready flags, the selected
  game and its options, reports. Nothing else depends on them. Which game a
  vote is for is left out.
- *The selection of an attack* in Durak (`card-game-screen.tsx:110-124`) and of
  a guesser in Crocodile (`explainer-controls.tsx:67-69`), and the pixels of a
  drawing.
- *Profile edits, listings, marking notifications as read, history, word decks.*
  Reads, or writes of one row.
- *Rendering, other pages, schema, deployment.* The unique constraints the
  services rely on are part of the models.
- *A second card action at the same time.* The lock serialises actions of every
  game alike; `WordSession` and `RedisLock` show this for one.

## 9. Plan

Done, the most important first: the word games, their lock and session; the
runtime and the rows of a room; the card games; the gateway with presence,
drawing, screens and votes; limiter, accounts and friends; the browser tab; the
two game screens. Proved: every safety and refinement property of the runs,
section 6.

What could follow:

1. A failing await in `doFinish` and a restart (`RoomRuntime`): which states a
   room can be left in, and which call leads out of them.
2. `WordSession` over the whole rules of `WordGame`, where it refines only
   `TurnOrder` today: that requests in flight leave a word game its rules.
3. Spectators in `Screens`, once the code says what they should see.
