------------------------------ MODULE Drawing ------------------------------
(***************************************************************************)
(* The drawing channel of Crocodile over the game of module WordGame: the  *)
(* room's stroke log in Redis, the gateway's draw:stroke and draw:clear    *)
(* with their checks and broadcasts, the clear that every round begins     *)
(* with, the catch-up of a socket that joins, and the strokes each         *)
(* player's store holds and the canvas shows.                              *)
(*                                                                         *)
(* A request is a task that goes on where its handler awaits, so any two   *)
(* tasks, and a task and the game, interleave there.  Only the clear of a  *)
(* new round is awaited under the room lock, and keeps the game waiting.   *)
(* A message reaches the stores in the step that sends it: a connection    *)
(* delivers in order, and what counts is what a store holds when all has   *)
(* come.  A stroke is a number, in the order in which it was drawn.        *)
(* Disconnects do not freeze the clock here, as no draw handler reads it.  *)
(***************************************************************************)
EXTENDS WordGame

CONSTANTS
    LogLimit,   \* DRAW_STROKE_LOG_LIMIT
    Host,       \* the room's host
    Busy,       \* bound: the players who draw, clear, drop out and come back
    MaxStrokes, \* bound: strokes drawn
    MaxTasks,   \* bound: requests in progress
    MaxJoins    \* bound: rejoins and requests to clear, together

ASSUME DrawingAssumption == LogLimit \in Nat /\ Busy \subseteq PlayerSet

VARIABLES
    log,      \* draw:{roomId}, oldest first
    tasks,    \* the requests in progress
    canvas,   \* the strokes in each player's store
    here,     \* the players whose socket is in the room
    mode,     \* the players whose screen lets them draw
    made,     \* the strokes: who drew each, and the turn it was let through in
    asked,    \* rejoins and clears so far
    trimmed,  \* history: strokes the log's limit has cut off
    crossed,  \* history: two tasks changed and told about the log in two orders
    late      \* history: a stroke let through in a turn was stored in a later one

redis == <<log, trimmed>>
screens == <<canvas, here, mode>>
races == <<crossed, late>>
channel == <<redis, screens, races, tasks, made, asked>>
allVars == <<vars, channel>>

Task(kind, by, id, at) == [kind |-> kind, by |-> by, id |-> id, at |-> at, read |-> {}]
Strokes(at) == {t \in tasks : t.kind = "stroke" /\ t.at \in at}
Clears(at) == {t \in tasks : t.kind = "clear" /\ t.at \in at}
Syncs(at) == {t \in tasks : t.kind = "sync" /\ t.at \in at}
StoredStrokes == {log[i] : i \in DOMAIN log}
InRound == started /\ ~finished

DrawingInit ==
    /\ Init
    /\ log = << >> /\ tasks = {} /\ trimmed = {} /\ made = << >>
    /\ canvas = [p \in PlayerSet |-> {}]
    /\ here = PlayerSet
    /\ mode = {Explainer}
    /\ asked = 0
    /\ crossed = FALSE /\ late = FALSE

-----------------------------------------------------------------------------
\* A task's next step; a task that ends is forgotten.
Moves(t, at) == tasks' = (tasks \ {t}) \cup {[t EXCEPT !.at = at]}
Ends(t) == tasks' = tasks \ {t}

\* The stores of those in the room take what they are sent: draw:stroke
\* appends, draw:sync replaces.
Tell(players, strokes) ==
    canvas' = [p \in PlayerSet |-> IF p \in players \cap here
                                   THEN canvas[p] \cup strokes ELSE canvas[p]]
Show(players, strokes) ==
    canvas' = [p \in PlayerSet |-> IF p \in players \cap here THEN strokes ELSE canvas[p]]

\* What the player sees of the game tells the canvas its mode.
Look(p) ==
    /\ p \in here
    /\ mode' = IF Explainer = p THEN mode \cup {p} ELSE mode \ {p}
    /\ mode' # mode
    /\ UNCHANGED <<vars, tasks, canvas, here, made, asked, redis, races>>

\* flush and sendStroke: the stroke is on the drawer's own canvas at once.
Draw(p) ==
    /\ p \in mode
    /\ Len(made) < MaxStrokes
    /\ Cardinality(tasks) < MaxTasks
    /\ made' = Append(made, [by |-> p, turn |-> 0])
    /\ canvas' = [canvas EXCEPT ![p] = @ \cup {Len(made')}]
    /\ tasks' = IF p \in here THEN tasks \cup {Task("stroke", p, Len(made'), "sent")} ELSE tasks
    /\ UNCHANGED <<vars, here, mode, asked, redis, races>>

\* onDrawStroke lets the explainer of a round in progress draw; the rate limit
\* may drop the stroke.
Allow(t) ==
    /\ t.kind = "stroke" /\ t.at = "sent"
    /\ InRound /\ Explainer = t.by
    /\ Moves(t, "allowed")
    /\ made' = [made EXCEPT ![t.id].turn = turn]
    /\ UNCHANGED <<vars, asked, redis, screens, races>>

Reject(t) ==
    /\ t.at = "sent"
    /\ Ends(t)
    /\ UNCHANGED <<vars, made, asked, redis, screens, races>>

\* append: RPUSH
Push(t) ==
    /\ t.kind = "stroke" /\ t.at = "allowed"
    /\ log' = Append(log, t.id)
    /\ Moves(t, "pushed")
    /\ late' = (late \/ made[t.id].turn # turn)
    /\ crossed' = (crossed \/ Clears({"deleted"}) # {} \/ Syncs({"read"}) # {})
    /\ UNCHANGED <<vars, made, asked, trimmed, screens>>

\* append: LTRIM to the newest LogLimit strokes
Trim(t) ==
    /\ t.kind = "stroke" /\ t.at = "pushed"
    /\ LET cut == Greater(0, Len(log) - LogLimit)
       IN  /\ log' = SubSeq(log, cut + 1, Len(log))
           /\ trimmed' = trimmed \cup {log[i] : i \in 1..cut}
    /\ Moves(t, "trimmed")
    /\ UNCHANGED <<vars, made, asked, screens, races>>

\* Everybody else in the room is sent the stroke.
Broadcast(t) ==
    /\ t.kind = "stroke" /\ t.at = "trimmed"
    /\ Tell(PlayerSet \ {t.by}, {t.id})
    /\ Ends(t)
    /\ UNCHANGED <<vars, here, mode, made, asked, redis, races>>

-----------------------------------------------------------------------------
AskToClear(p) ==
    /\ p \in here
    /\ asked < MaxJoins
    /\ Cardinality(tasks) < MaxTasks
    /\ asked' = asked + 1
    /\ tasks' = tasks \cup {Task("clear", p, 0, "sent")}
    /\ UNCHANGED <<vars, made, redis, screens, races>>

\* onDrawClear: the explainer of a running game, in any phase, or the host.
Grant(t) ==
    /\ t.kind = "clear" /\ t.at = "sent"
    /\ (~finished /\ Explainer = t.by) \/ t.by = Host
    /\ Moves(t, "granted")
    /\ UNCHANGED <<vars, made, asked, redis, screens, races>>

\* clearDrawing: DEL, then the empty picture for everybody.
Delete(t) ==
    /\ t.kind = "clear" /\ t.at = "granted"
    /\ log' = << >>
    /\ trimmed' = {}
    /\ Moves(t, "deleted")
    /\ crossed' = (crossed \/ Strokes({"pushed", "trimmed"}) # {} \/ Syncs({"read"}) # {})
    /\ UNCHANGED <<vars, made, asked, late, screens>>

\* Deviation: only those who join are shown the empty picture.
ShowNobody(t) ==
    /\ t.kind = "clear" /\ t.at = "deleted"
    /\ Ends(t)
    /\ UNCHANGED <<vars, made, asked, redis, screens, races>>

ShowEmpty(t) ==
    /\ t.kind = "clear" /\ t.at = "deleted"
    /\ Show(PlayerSet, {})
    /\ Ends(t)
    /\ UNCHANGED <<vars, here, mode, made, asked, redis, races>>

-----------------------------------------------------------------------------
\* A socket is lost with what was on its way to it; the store keeps its strokes.
DropOut(p) ==
    /\ p \in here
    /\ asked < MaxJoins
    /\ asked' = asked + 1
    /\ here' = here \ {p}
    /\ UNCHANGED <<vars, tasks, canvas, mode, made, redis, races>>

\* onRoomJoin: into the room first, then what has been drawn so far is read
\* and sent, while the game runs.
ComeBack(p) ==
    /\ p \notin here
    /\ Cardinality(tasks) < MaxTasks
    /\ here' = here \cup {p}
    /\ tasks' = IF finished THEN tasks ELSE tasks \cup {Task("sync", p, 0, "asked")}
    /\ UNCHANGED <<vars, canvas, mode, made, asked, redis, races>>

ReadLog(t) ==
    /\ t.kind = "sync" /\ t.at = "asked"
    /\ tasks' = (tasks \ {t}) \cup {[t EXCEPT !.at = "read", !.read = StoredStrokes]}
    /\ crossed' = (crossed \/ Clears({"deleted"}) # {})
    /\ UNCHANGED <<vars, made, asked, late, redis, screens>>

SendLog(t) ==
    /\ t.kind = "sync" /\ t.at = "read"
    /\ Show({t.by}, t.read)
    /\ Ends(t)
    /\ UNCHANGED <<vars, here, mode, made, asked, redis, races>>

-----------------------------------------------------------------------------
\* The clear of a round is awaited under the room lock.
Locked == \E t \in tasks : t.kind = "clear" /\ t.by = "runtime"

\* Deviation: a round begins with the picture of the round before.
BeginRoundAsIs(p) == ~Locked /\ StartRound(p) /\ UNCHANGED channel

\* applyEffect: the started round is stored, then the picture is cleared.
BeginRound(p) ==
    /\ ~Locked
    /\ StartRound(p)
    /\ tasks' = tasks \cup {Task("clear", "runtime", 0, "granted")}
    /\ UNCHANGED <<made, asked, redis, screens, races>>

Play ==
    /\ ~Locked
    /\ \/ \E p, guesser \in PlayerSet : Correct(p, guesser)
       \/ \E p \in PlayerSet : Skip(p)
       \/ \E p \in PlayerSet : EndRound(p)
       \/ TimerFires
    /\ UNCHANGED channel

DrawingNext ==
    \/ \E p \in PlayerSet : BeginRound(p)
    \/ Play
    \/ Tick /\ UNCHANGED channel
    \/ \E p \in Busy : Look(p)
    \/ \E p \in Busy : Draw(p)
    \/ \E p \in Busy : AskToClear(p)
    \/ \E p \in Busy : DropOut(p)
    \/ \E p \in Busy : ComeBack(p)
    \/ \E t \in tasks : Allow(t)
    \/ \E t \in tasks : Reject(t)
    \/ \E t \in tasks : Push(t)
    \/ \E t \in tasks : Trim(t)
    \/ \E t \in tasks : Broadcast(t)
    \/ \E t \in tasks : Grant(t)
    \/ \E t \in tasks : Delete(t)
    \/ \E t \in tasks : ShowEmpty(t)
    \/ \E t \in tasks : ReadLog(t)
    \/ \E t \in tasks : SendLog(t)

DrawingSpec == DrawingInit /\ [][DrawingNext]_allVars

-----------------------------------------------------------------------------
\* The log exceeds its limit by no more than the strokes between RPUSH and
\* LTRIM, however many are appended at once (DrawingService.append).
LogWithinLimit == Len(log) <= LogLimit + Cardinality(Strokes({"pushed"}))

Settled(p) == p \in here /\ tasks = {}
Of(p) == {n \in DOMAIN made : made[n].by = p}

\* When everything has been delivered, a player who watches sees what the log
\* holds, perhaps with strokes its limit has cut off, and nothing else: "empty
\* the log" and "tell everyone" do not drift apart (clearDrawing), unless two
\* requests changed the log and told about it in different orders.  A player's
\* own strokes are not sent back to them (sendStroke, onDrawStroke).
CanvasShowsLog ==
    ~crossed /\ ~finished => \A p \in PlayerSet : Settled(p) =>
        /\ StoredStrokes \subseteq canvas[p] \cup Of(p)
        /\ canvas[p] \subseteq StoredStrokes \cup trimmed \cup Of(p)

\* The log and the pictures together, as the players meet them.
CanvasRight == CanvasShowsLog /\ LogWithinLimit

\* A round's picture has no stroke of an earlier round, unless one was let
\* through while its round ran and stored when it was over (applyEffect).
CleanSlate == InRound /\ ~Locked /\ ~late => \A n \in StoredStrokes : made[n].turn = turn
=============================================================================
