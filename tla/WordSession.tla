---------------------------- MODULE WordSession ----------------------------
(***************************************************************************)
(* How the operations of one word game reach it: every game:action, timer  *)
(* callback, disconnect and reconnect is a request that waits for the lock *)
(* room:<id>, loads the stored snapshot, reduces it, persists it, applies  *)
(* the timer operations of the effect and lets the lock go                 *)
(* (GameRuntimeService).  Waiters poll for the lock, so any of them may be *)
(* next.  The timer fires outside the lock, and its callback then waits    *)
(* like every other request (GameTimerService.set, handleTimer).           *)
(*                                                                         *)
(* The game is WordGame with its clock reduced to "it runs", "it is        *)
(* banked" or neither, every player a team of its own as in Crocodile.     *)
(* The lock works here; RedisLock models when it does not.                 *)
(***************************************************************************)
EXTENDS Naturals, Sequences, FiniteSets

CONSTANTS
    Players,     \* the session's playerIds in turn order: a sequence
    TotalTurns,  \* the turn budget
    Requests     \* bound: how many requests are in flight together

ASSUME SessionAssumption ==
    /\ Len(Players) > 0
    /\ TotalTurns \in Nat \ {0}
    /\ IsFiniteSet(Requests)

VARIABLES
    stored,   \* the snapshot under session:{id}:state
    timer,    \* the turn the armed 'round' timer was set for, or NoTimer
    lock,     \* the request that holds room:<id>, or NoRequest
    pc,       \* how far each request came
    op,       \* what it asks for
    loaded,   \* the snapshot it works on, while it holds the lock
    online,   \* who has a socket in the room
    rows      \* how often game_results rows were written

requests == <<pc, op, loaded>>
vars == <<stored, timer, lock, requests, online, rows>>

NoTimer == 0
NoRequest == "none"

ASSUME RequestAssumption == NoRequest \notin Requests

PlayerSet == {Players[i] : i \in DOMAIN Players}
Snapshot == [turn : 1..(TotalTurns + 1), started : BOOLEAN, ticking : BOOLEAN,
             banked : BOOLEAN, live : BOOLEAN]
Moves == {"start_round", "end_round"}

NoOp == [kind |-> "none"]
UserOp(kind, user) == [kind |-> kind, user |-> user]
TimerOp(t) == [kind |-> "timer", turn |-> t]

FirstSnapshot == [turn |-> 1, started |-> FALSE, ticking |-> FALSE,
                  banked |-> FALSE, live |-> TRUE]

Explainer(s) == Players[((s.turn - 1) % Len(Players)) + 1]
Over(s) == s.turn > TotalTurns
InTurn(s) == s.started /\ ~Over(s)
WaitingOn(s, p) == InTurn(s) /\ Explainer(s) = p

Init ==
    /\ stored = FirstSnapshot
    /\ timer = NoTimer
    /\ lock = NoRequest
    /\ pc = [r \in Requests |-> "free"]
    /\ op = [r \in Requests |-> NoOp]
    /\ loaded = [r \in Requests |-> FirstSnapshot]
    /\ online = PlayerSet
    /\ rows = 0

-----------------------------------------------------------------------------
\* Requests arrive.  Those of the players leave one slot to the timer.
Arrives(r, operation, step) ==
    /\ pc[r] = "free"
    /\ pc' = [pc EXCEPT ![r] = step]
    /\ op' = [op EXCEPT ![r] = operation]
    /\ UNCHANGED loaded

RoomForUsers == Cardinality({r \in Requests : pc[r] = "free"}) > 1

\* game:action: the gateway asks only that the socket is in the room.
Act(r, p, move) ==
    /\ RoomForUsers
    /\ p \in online
    /\ Arrives(r, UserOp(move, p), "waiting")
    /\ UNCHANGED <<stored, timer, lock, online, rows>>

\* The last socket of p disconnects; the gateway still has to ask the
\* adapter which sockets are left.
Drop(r, p) ==
    /\ RoomForUsers
    /\ p \in online
    /\ online' = online \ {p}
    /\ Arrives(r, UserOp("pause", p), "checking")
    /\ UNCHANGED <<stored, timer, lock, rows>>

\* fetchSockets answers: for somebody who is back already nothing is done.
Checked(r) ==
    /\ pc[r] = "checking"
    /\ LET back == op[r].user \in online
       IN  /\ pc' = [pc EXCEPT ![r] = IF back THEN "free" ELSE "waiting"]
           /\ op' = [op EXCEPT ![r] = IF back THEN NoOp ELSE @]
    /\ UNCHANGED <<stored, timer, lock, loaded, online, rows>>

\* room:join of a player who comes back
Rejoin(r, p) ==
    /\ RoomForUsers
    /\ p \in PlayerSet \ online
    /\ online' = online \cup {p}
    /\ Arrives(r, UserOp("resume", p), "waiting")
    /\ UNCHANGED <<stored, timer, lock, rows>>

\* The timer leaves the map as it fires.  The callback knows the session and
\* the timer's name; which turn it was armed for is history.
TimerFires(r) ==
    /\ timer # NoTimer
    /\ timer' = NoTimer
    /\ Arrives(r, TimerOp(timer), "waiting")
    /\ UNCHANGED <<stored, lock, online, rows>>

-----------------------------------------------------------------------------
\* Deviation: nobody waits for the lock.
EnterUnlocked(r) ==
    /\ pc[r] = "waiting"
    /\ lock' = r
    /\ pc' = [pc EXCEPT ![r] = "loaded"]
    /\ loaded' = [loaded EXCEPT ![r] = stored]
    /\ UNCHANGED <<stored, timer, op, online, rows>>

\* One request at a time has the lock.
Enter(r) ==
    /\ lock = NoRequest
    /\ pc[r] = "waiting"
    /\ lock' = r
    /\ pc' = [pc EXCEPT ![r] = "loaded"]
    /\ loaded' = [loaded EXCEPT ![r] = stored]
    /\ UNCHANGED <<stored, timer, op, online, rows>>

\* The reducer's guards; pause and resume concern the awaited player only.
Accepts(o, s) ==
    \/ o.kind = "start_round" /\ ~Over(s) /\ Explainer(s) = o.user /\ ~s.started
    \/ o.kind \in {"end_round", "pause", "resume"} /\ WaitingOn(s, o.user)
    \/ o.kind = "timer"

\* Deviation: a turn ends whether or not it has begun.
EndsAnyTurn(o, s) == o.kind \in {"end_round", "timer"}

EndsTurn(o, s) == o.kind \in {"end_round", "timer"} /\ InTurn(s)

TurnBegun(s) == [s EXCEPT !.started = TRUE, !.ticking = TRUE, !.banked = FALSE]
TurnFrozen(s) == [s EXCEPT !.ticking = FALSE, !.banked = TRUE]
TurnThawed(s) == [s EXCEPT !.ticking = TRUE, !.banked = FALSE]
\* Time banked by an earlier pause stays banked (finishWordTurn).
TurnOver(s) == [s EXCEPT !.turn = @ + 1, !.started = FALSE, !.ticking = FALSE]

Reduce(o, s) ==
    IF o.kind = "start_round" THEN TurnBegun(s)
    ELSE IF o.kind = "pause" /\ s.ticking THEN TurnFrozen(s)
    ELSE IF o.kind = "resume" /\ s.banked THEN TurnThawed(s)
    ELSE IF EndsTurn(o, s) THEN TurnOver(s)
    ELSE s

\* Deviations: a resumed clock gets no timer, and the last turn is missed by one.
SetsTimerAtStartOnly(o, s) == o.kind = "start_round"
EndsGameLate(o, s) == EndsTurn(o, s) /\ Over(s)

SetsTimer(o, s) == o.kind = "start_round" \/ (o.kind = "resume" /\ s.banked)
ClearsTimer(o, s) == o.kind = "pause" \/ EndsTurn(o, s)
EndsGame(o, s) == EndsTurn(o, s) /\ Over(TurnOver(s))

Release(r) ==
    /\ lock' = NoRequest
    /\ pc' = [pc EXCEPT ![r] = "free"]
    /\ op' = [op EXCEPT ![r] = NoOp]
    /\ loaded' = [loaded EXCEPT ![r] = FirstSnapshot]

\* No active game, an InvalidActionError or a player nobody waits for: nothing
\* is persisted.
Refuse(r) ==
    /\ pc[r] = "loaded"
    /\ ~(loaded[r].live /\ Accepts(op[r], loaded[r]))
    /\ Release(r)
    /\ UNCHANGED <<stored, timer, online, rows>>

Persist(r) ==
    /\ pc[r] = "loaded"
    /\ loaded[r].live
    /\ Accepts(op[r], loaded[r])
    /\ stored' = Reduce(op[r], loaded[r])
    /\ pc' = [pc EXCEPT ![r] = "saved"]
    /\ UNCHANGED <<timer, lock, op, loaded, online, rows>>

\* applyTimers, and doFinish after the last turn
Settle(r) ==
    /\ pc[r] = "saved"
    /\ timer' = IF SetsTimer(op[r], loaded[r]) THEN loaded[r].turn
                ELSE IF ClearsTimer(op[r], loaded[r]) THEN NoTimer ELSE timer
    /\ IF EndsGame(op[r], loaded[r])
       THEN stored' = [stored EXCEPT !.live = FALSE] /\ rows' = rows + 1
       ELSE UNCHANGED <<stored, rows>>
    /\ Release(r)
    /\ UNCHANGED online

Next == \E r \in Requests :
    \/ \E p \in PlayerSet, move \in Moves : Act(r, p, move)
    \/ \E p \in PlayerSet : Drop(r, p)
    \/ Checked(r)
    \/ \E p \in PlayerSet : Rejoin(r, p)
    \/ TimerFires(r)
    \/ Enter(r)
    \/ Refuse(r)
    \/ Persist(r)
    \/ Settle(r)

Spec == Init /\ [][Next]_vars

\* A timer fires, an await resolves, and a waiter that polls for the lock gets
\* its turn within LOCK_ACQUIRE_TIMEOUT_MS.  Nobody has to play.
Fairness ==
    /\ WF_vars(\E r \in Requests : TimerFires(r))
    /\ \A r \in Requests :
          /\ WF_vars(Checked(r))
          /\ SF_vars(Enter(r))
          /\ WF_vars(Refuse(r) \/ Persist(r) \/ Settle(r))

FairSpec == Spec /\ Fairness

-----------------------------------------------------------------------------
Operations ==
    [kind : Moves \cup {"pause", "resume"}, user : PlayerSet]
        \cup {TimerOp(t) : t \in 1..TotalTurns} \cup {NoOp}

\* Every variable stays within its type.
TypeOK ==
    /\ stored \in Snapshot
    /\ timer \in 0..TotalTurns
    /\ lock \in Requests \cup {NoRequest}
    /\ pc \in [Requests -> {"free", "checking", "waiting", "loaded", "saved"}]
    /\ op \in [Requests -> Operations]
    /\ loaded \in [Requests -> Snapshot]
    /\ online \subseteq PlayerSet
    /\ rows \in Nat

\* No update is lost: what a request is about to persist was reduced from the
\* snapshot that is stored, not from one an earlier request replaced
\* (dispatch, handleTimer, pauseForDisconnect and resumeAfterReconnect load
\* and persist under one lock).
NoLostUpdate == \A r \in Requests : pc[r] = "loaded" => loaded[r] = stored

\* A request that is past its persist still has to set or clear the timer.
Settling(r) == pc[r] = "saved"
Settled == \A r \in Requests : ~Settling(r)
Fired(r) == op[r].kind = "timer" /\ pc[r] \in {"waiting", "loaded"}

\* A running turn always has an end in sight: its timer is armed, has fired
\* and its callback waits, or is about to be armed.  A timer that fires while
\* another request has the lock is what makes this hard (the timer leaves the
\* map before handleTimer has the lock; a clear misses it).
RunningTurnHasAnEnd ==
    stored.ticking =>
        \/ timer = stored.turn
        \/ \E r \in Requests : Fired(r) \/ (Settling(r) /\ SetsTimer(op[r], loaded[r]))

\* No timer outlives its turn or its clock: once every persisted effect has
\* been applied, an armed timer belongs to the turn that runs (applyTimers
\* after persistState, clearAll in doFinish).
NoTimerWithoutTurn ==
    Settled /\ timer # NoTimer => stored.ticking /\ timer = stored.turn

\* A running turn has a timer in sight, and a timer has its running turn.
TimersMatchTurns == RunningTurnHasAnEnd /\ NoTimerWithoutTurn

\* The results of a session are written once, when its last turn is over,
\* although a stale timer, a second end_round or a pause may still wait then
\* (doFinish deletes the keys that tryLoadActiveGame and loadGame look for).
FinishedOnce ==
    /\ rows = (IF stored.live THEN 0 ELSE 1)
    /\ Settled => (Over(stored) <=> ~stored.live)

Phase(s) ==
    IF Over(s) THEN "over" ELSE IF ~s.started THEN "waiting"
    ELSE IF s.ticking THEN "running" ELSE "frozen"

Order == INSTANCE TurnOrder WITH turn <- stored.turn, phase <- Phase(stored)

\* However requests interleave, players see the order of TurnOrder.
ImplementsTurnOrder == Order!Spec

\* A clock that runs does not run for ever: the turn ends or is paused even
\* when its explainer does nothing.
ClocksRunOut ==
    \A t \in 1..TotalTurns :
        stored.turn = t /\ stored.ticking ~> stored.turn # t \/ ~stored.ticking

-----------------------------------------------------------------------------
\* "a timer ... that fires after the turn was already ended manually ... is a
\* no-op: acting on it again would double-advance the turn" (alias.ts onTimer):
\* a timer ends no turn but the one it was armed for.
StaleTimerIsNoOp ==
    [][\A r \in Requests :
          Persist(r) /\ op[r].kind = "timer" /\ stored'.turn # stored.turn
              => op[r].turn = stored.turn]_vars
=============================================================================
